------------------------------- MODULE CodeGen -------------------------------
(***************************************************************************)
(* Code generation for the programs of Validator: src/codegen/*.cc.        *)
(*                                                                         *)
(* The state is what the visitor and the LLVM builder share: the scopes,   *)
(* the block being filled, the terminator and the stores of each block,    *)
(* the PHI nodes, and value_.  Blocks and PHIs are numbered.  A value is a *)
(* constant, a condition read from the entry argument, or a PHI; a node    *)
(* that has none leaves NoValue.  Terminators: [to], [cond, then, else], [].   *)
(***************************************************************************)
EXTENDS Validator, SequencesExt

NoValue == [kind |-> "none", type |-> "void"]
Literal(v, type) == [kind |-> "const", val |-> v, type |-> type]
Loaded(name) == [kind |-> "load", name |-> name, type |-> "u8"]
Phi(i, type) == [kind |-> "phi", id |-> i, type |-> type]

Open == [op |-> "open"]
Return == [op |-> "ret"]
Branch(b) == [op |-> "br", to |-> b]
CondBranch(c, b1, b2) == [op |-> "condbr", cond |-> c, then |-> b1, else |-> b2]

(* A function with its entry block, and a fresh CodeGen. *)
NewFunction == [ok |-> TRUE, scopes |-> NewStack, cur |-> 1, code |-> <<Open>>,
                stores |-> << << >> >>, phis |-> << >>, value |-> NoValue]

CreateBlock(s) == [s EXCEPT !.code = Append(@, Open), !.stores = Append(@, << >>)]
NewestBlock(s) == Len(s.code)
SetInsertPoint(s, b) == [s EXCEPT !.cur = b]
Terminate(s, t) == [s EXCEPT !.code[s.cur] = t]
CreatePhi(s, type, incoming, to_bool) ==
  [s EXCEPT !.phis = Append(@, [block |-> s.cur, incoming |-> incoming, to_bool |-> to_bool]),
            !.value = Phi(Len(s.phis) + 1, type)]
Internal(s) == [s EXCEPT !.ok = FALSE]

RECURSIVE Gen(_, _), GenItems(_, _, _), GenBranches(_, _, _, _, _)

GenItems(node, i, s) ==
  IF i > Len(node.items) \/ ~ s.ok THEN [s EXCEPT !.value = NoValue]
  ELSE LET item == node.items[i]
           r == Gen(item.arg, IF node.isolated THEN [s EXCEPT !.scopes = PushScope(@)] ELSE s)
           set == IF item.name = "" THEN r ELSE [r EXCEPT !.scopes = Set(@, item.name, r.value)]
       IN  GenItems(node, i + 1, IF node.isolated THEN [set EXCEPT !.scopes = PopScope(@)] ELSE set)

(* SolveShortCircuitLogicalOp: both blocks exist before the left side does; *)
(* the PHI is of the operands compared with zero.                           *)
GenLogical(node, s0) ==
  LET rhs == NewestBlock(s0) + 1
      merge == NewestBlock(s0) + 2
      l == Gen(node.left, CreateBlock(CreateBlock(s0)))
      jump == IF node.op = "and" THEN CondBranch(l.value, rhs, merge) ELSE CondBranch(l.value, merge, rhs)
      r == Gen(node.right, SetInsertPoint(Terminate(l, jump), rhs))
      short == Literal(IF node.op = "and" THEN 0 ELSE 1, "u8")
  IN  CreatePhi(SetInsertPoint(Terminate(r, Branch(merge)), merge), "u8",
                {<<short, l.cur>>, <<r.value, r.cur>>}, TRUE)

(* A branch's body in block b: what it modified, and the block it ended in. *)
GenBody(node, s, b, merge) ==
  LET g == Gen(node, SetInsertPoint([s EXCEPT !.scopes = PushScope(@)], b))
  IN  [modified |-> GetShadowed(g.scopes),
       end |-> g.cur,
       s |-> Terminate([g EXCEPT !.scopes = PopScope(@)], Branch(merge))]

(* The branches from the last to the first, each condition falling through  *)
(* to what was generated before it.  st is [s, prev, infos, lastcond].      *)
GenBranches(args, i, merge, last, st) ==
  IF i = 0 THEN st
  ELSE LET s1 == CreateBlock(st.s)
           cond == NewestBlock(s1)
           c == Gen(args[2 * i - 1], SetInsertPoint(s1, cond))
           s2 == CreateBlock(c)
           body == NewestBlock(s2)
           g == GenBody(args[2 * i], Terminate(s2, CondBranch(c.value, body, st.prev)), body, merge)
       IN  GenBranches(args, i - 1, merge, last,
             [s |-> g.s, prev |-> cond,
              infos |-> st.infos \cup {[end |-> g.end, modified |-> g.modified]},
              lastcond |-> IF i = last THEN cond ELSE st.lastcond])

Modified(infos) == UNION {DOMAIN info.modified : info \in infos}

IncomingOf(info, name, original) ==
  <<IF name \in DOMAIN info.modified THEN info.modified[name] ELSE original, info.end>>

(* Mutant of FallThrough: a block with no else has no edge of its own. *)
NoFallThrough(args, original, lastcond) == {}

(* Without an else, the last condition's block is an edge of the merge. *)
FallThrough(args, original, lastcond) ==
  IF Len(args) % 2 = 0 THEN {<<original, lastcond>>} ELSE {}

(* One PHI, and one assignment, for each variable a branch modified. *)
MergeVariable(args, st, s, name) ==
  LET original == Lookup(s.scopes, name)
      incoming == {IncomingOf(info, name, original) : info \in st.infos}
      p == CreatePhi(s, original.type, incoming \cup FallThrough(args, original, st.lastcond), FALSE)
  IN  [p EXCEPT !.scopes = Set(@, name, p.value)]

GenIfBlock(args, s0) ==
  LET original == s0.cur
      s1 == CreateBlock(s0)
      merge == NewestBlock(s1)
      has_else == Len(args) % 2 = 1
      s2 == CreateBlock(s1)
      e == GenBody(args[Len(args)], s2, NewestBlock(s2), merge)
      st == GenBranches(args, Len(args) \div 2, merge, Len(args) \div 2,
              IF has_else
                THEN [s |-> e.s, prev |-> NewestBlock(s2), lastcond |-> 0,
                      infos |-> {[end |-> e.end, modified |-> e.modified]}]
                ELSE [s |-> s1, prev |-> merge, lastcond |-> 0, infos |-> {}])
      s3 == SetInsertPoint(Terminate(SetInsertPoint(st.s, original), Branch(st.prev)), merge)
      merged == FoldLeft(LAMBDA s, name : MergeVariable(args, st, s, name), s3,
                         SetToSeq(Modified(st.infos)))
  IN  [merged EXCEPT !.value = NoValue]

Gen(node, s) ==
  IF ~ s.ok THEN s
  ELSE CASE node.kind = "const" -> [s EXCEPT !.value = Literal(node.val, node.type)]
         [] node.kind = "load" -> [s EXCEPT !.value = Loaded(node.name)]
         [] node.kind = "ref" ->
              IF Defined(s.scopes, node.name) THEN [s EXCEPT !.value = Lookup(s.scopes, node.name)]
              ELSE Internal(s)
         [] node.kind = "logical" -> GenLogical(node, s)
         [] node.kind = "store" ->
              LET r == Gen(node.arg, s)
              IN  [r EXCEPT !.stores[r.cur] = Append(@, r.value), !.value = Literal(0, "u8")]
         [] node.kind = "noop" -> GenItems(node, 1, s)
         [] node.kind = "ifblock" -> GenIfBlock(node.args, s)

(* BuildEntryFunction, for a root of type void. *)
BuildEntryFunction(root) == Terminate(Gen(root, NewFunction), Return)

-----------------------------------------------------------------------------
(* llvm::verifyModule, the part that generated code can fail: every block   *)
(* ends in a terminator, and a PHI has one value, of one type, for each     *)
(* predecessor of its block.                                                *)
Successors(t) ==
  CASE t.op = "br" -> {t.to}
    [] t.op = "condbr" -> {t.then, t.else}
    [] OTHER -> {}

Predecessors(f, b) == {p \in DOMAIN f.code : b \in Successors(f.code[p])}

Verifies(f) ==
  /\ \A b \in DOMAIN f.code : f.code[b] # Open
  /\ \A p \in Range(f.phis) :
       /\ {v[2] : v \in p.incoming} = Predecessors(f, p.block)
       /\ Cardinality(p.incoming) = Cardinality(Predecessors(f, p.block))
       /\ \A v, w \in p.incoming : v[1].type = w[1].type
=============================================================================
