----------------------------- MODULE Compilation -----------------------------
(***************************************************************************)
(* A batch of programs from JitCore::BuildAndLink to the end of a call:    *)
(* validated together, generated one function each, verified, and run      *)
(* block by block on some entry arguments.  src/jit_core.cc.               *)
(***************************************************************************)
EXTENDS CodeGen

CONSTANTS
  Batches,          \* the batches compiled, sequences of roots
  Conditions        \* the names of the conditions the programs read

VARIABLES
  nodes,            \* the batch
  inputs,           \* the entry arguments: what each condition reads
  stage,            \* how far the batch has come
  functions,        \* the generated functions
  entry,            \* the entry being called
  block, prev,      \* the block it is in, and the one it came from
  regs,             \* the values of its PHIs, Undefined before they run
  out               \* what it has stored

vars == <<nodes, inputs, stage, functions, entry, block, prev, regs, out>>

Undefined == 99

Init ==
  /\ nodes \in Batches
  /\ inputs \in [Conditions -> {0, 1}]
  /\ stage = "given"
  /\ functions = << >> /\ regs = << >> /\ out = << >>
  /\ entry = 0 /\ block = 0 /\ prev = 0

Generated == [i \in DOMAIN nodes |-> BuildEntryFunction(nodes[i])]

BuildAndLink ==
  /\ stage = "given"
  /\ IF ~ ValidateAll(nodes, NewStack) THEN stage' = "rejected" /\ UNCHANGED functions
     ELSE /\ functions' = Generated
          /\ stage' = IF \E f \in Range(functions') : ~ f.ok THEN "internal error"
                      ELSE IF \E f \in Range(functions') : ~ Verifies(f) THEN "malformed"
                      ELSE "linked"
  /\ UNCHANGED <<nodes, inputs, entry, block, prev, regs, out>>

Call ==
  /\ stage = "linked"
  /\ stage' = "running"
  /\ entry' \in DOMAIN functions
  /\ block' = 1 /\ prev' = 0
  /\ regs' = [i \in DOMAIN functions[entry'].phis |-> Undefined]
  /\ UNCHANGED <<nodes, inputs, functions, out>>

ValueOf(v, r) ==
  CASE v.kind = "const" -> v.val
    [] v.kind = "load" -> inputs[v.name]
    [] v.kind = "phi" -> r[v.id]

Truth(n) == IF n = 0 THEN 0 ELSE 1

(* The PHIs of a block take their values together, from the edge taken. *)
Entered(f, r) ==
  [i \in DOMAIN r |->
     IF f.phis[i].block # block THEN r[i]
     ELSE LET v == CHOOSE v \in f.phis[i].incoming : v[2] = prev
              x == ValueOf(v[1], r)
          IN  IF f.phis[i].to_bool THEN Truth(x) ELSE x]

RunBlock ==
  LET f == functions[entry]
      r == Entered(f, regs)
      t == f.code[block]
  IN  /\ stage = "running"
      /\ regs' = r
      /\ out' = out \o [i \in DOMAIN f.stores[block] |-> ValueOf(f.stores[block][i], r)]
      /\ IF t = Return
           THEN stage' = "returned" /\ UNCHANGED <<block, prev>>
           ELSE /\ prev' = block
                /\ block' = IF t.op = "br" THEN t.to
                            ELSE IF ValueOf(t.cond, r) # 0 THEN t.then ELSE t.else
                /\ UNCHANGED stage
      /\ UNCHANGED <<nodes, inputs, functions, entry>>

Next == BuildAndLink \/ Call \/ RunBlock

Spec == Init /\ [][Next]_vars

-----------------------------------------------------------------------------
(* What a program means, told without blocks: assignment changes the        *)
(* innermost variable of that name unless let declared it, a `when` block   *)
(* runs the body of its first true condition in a scope of its own, and the *)
(* right side of `and` and `or` counts only when the left does not decide.  *)
(* The result is [val, scopes, out].                                        *)

Means(val, scopes, stored) == [val |-> val, scopes |-> scopes, out |-> stored]

Assign(scopes, item, val) ==
  LET name == item.name
      where == {i \in DOMAIN scopes : name \in DOMAIN scopes[i]}
      i == IF where = {} THEN Len(scopes) ELSE CHOOSE i \in where : \A j \in where : j <= i
  IN  IF where # {} /\ scopes[i][name].is_const THEN scopes
      ELSE [scopes EXCEPT ![i] = Bind(@, name, [val |-> val, is_const |-> item.is_const])]

RECURSIVE Meaning(_, _), MeaningOfItems(_, _, _), MeaningOfBranches(_, _)

MeaningOfItems(node, i, scopes) ==
  IF i > Len(node.items) THEN Means(0, scopes, << >>)
  ELSE LET item == node.items[i]
           r == Meaning(item.arg, IF node.isolated THEN PushScope(scopes) ELSE scopes)
           set == IF item.name = "" THEN r.scopes ELSE Assign(r.scopes, item, r.val)
           rest == MeaningOfItems(node, i + 1, IF node.isolated THEN PopScope(set) ELSE set)
       IN  Means(0, rest.scopes, r.out \o rest.out)

MeaningOfBranches(args, scopes) ==
  IF args = << >> THEN Means(0, scopes, << >>)
  ELSE LET body == Meaning(args[IF Len(args) = 1 THEN 1 ELSE 2], PushScope(scopes))
       IN  IF Len(args) = 1 \/ Meaning(args[1], scopes).val # 0
             THEN Means(0, PopScope(body.scopes), body.out)
             ELSE MeaningOfBranches(SubSeq(args, 3, Len(args)), scopes)

Meaning(node, scopes) ==
  CASE node.kind = "const" -> Means(node.val, scopes, << >>)
    [] node.kind = "load" -> Means(inputs[node.name], scopes, << >>)
    [] node.kind = "ref" -> Means(Lookup(scopes, node.name).val, scopes, << >>)
    [] node.kind = "logical" ->
         LET l == Meaning(node.left, scopes).val
             decided == IF node.op = "and" THEN l = 0 ELSE l # 0
         IN  Means(Truth(IF decided THEN l ELSE Meaning(node.right, scopes).val), scopes, << >>)
    [] node.kind = "store" ->
         LET r == Meaning(node.arg, scopes) IN Means(0, r.scopes, r.out \o <<r.val>>)
    [] node.kind = "noop" -> MeaningOfItems(node, 1, scopes)
    [] node.kind = "ifblock" -> MeaningOfBranches(node.args, scopes)

-----------------------------------------------------------------------------
(* "[internal] ... (should be caught by validator)": what the validator     *)
(* accepts, the generator can translate.  The two walk the program with     *)
(* scope stacks of their own, in different orders.                          *)
ValidatedIsGenerated == stage # "internal error"

(* What the generator builds passes the LLVM verifier: the PHIs of a `when` *)
(* block have one value of one type for each edge into its merge block.     *)
GeneratedVerifies == stage # "malformed"

(* A call stores what the program says: values merged after nested `when`   *)
(* blocks, short-circuit conditions and constants included.                 *)
MeaningIsKept == stage = "returned" => out = Meaning(nodes[entry], NewStack).out
=============================================================================
