----------------------------- MODULE MCPipeline ------------------------------
(***************************************************************************)
(* An instance for TLC: every list of three well-formed texts that share   *)
(* inputs, variables or neither, and of four that share, hashed with and   *)
(* without collisions; pairs of texts some of which are wrong; and         *)
(* expressions, some of which name a variable whose own value was not      *)
(* found.                                                                  *)
(***************************************************************************)
EXTENDS AthenaPipeline, TreeHeight

Leaf(n) == Tree("leaf", n, << >>, << >>)
Ref(n) == Tree("ref", n, << >>, << >>)
Op(n, args) == Tree("node", n, args, << >>)

Assign(n, e) == [kind |-> "assign", name |-> n, expr |-> e]
Let(n, e) == [kind |-> "let", name |-> n, expr |-> e]
Do(e) == [kind |-> "expr", name |-> "", expr |-> e]
When(cond, block) == [kind |-> "when", name |-> "", parts |-> <<[cond |-> cond, block |-> block]>>]
WhenElse(cond, block, other) ==
  [kind |-> "when", name |-> "",
   parts |-> <<[cond |-> cond, block |-> block], [cond |-> Nothing, block |-> other]>>]

Text(stmts) == [stmts |-> stmts, upto |-> Len(ReducedBlock(stmts))]
Broken(stmts, n) == [stmts |-> stmts, upto |-> n]

LoadA == Op("load", <<Leaf("a")>>)
LoadB == Op("load", <<Leaf("b")>>)
UseX == Op("store", <<Ref("x")>>)

ReadsA == Text(<<Do(LoadA)>>)
ReadsB == Text(<<Assign("x", LoadB), Do(UseX)>>)
ReadsBoth == Text(<<Do(LoadA), Do(Op("add", <<LoadB, LoadA>>))>>)

SharingTexts == {
  ReadsA, ReadsB, ReadsBoth,
  Text(<<Assign("x", Leaf("k")), Do(UseX)>>),          \* no input but a variable
  Text(<<Do(Leaf("k"))>>),                             \* of height one itself
  Text(<<Let("x", Leaf("k")), When(Ref("x"), <<Do(Op("add", <<Ref("x"), LoadB>>))>>)>>)}

(* x is shadowed in the block, and restored after it. *)
Shadowing == Text(<<Assign("x", LoadA),
                    WhenElse(Ref("x"), <<Assign("x", LoadB), Do(UseX)>>, <<Do(UseX)>>),
                    Do(UseX)>>)
BeforeItsValue == Text(<<Do(UseX), Assign("x", LoadA)>>)
OutOfItsBlock == Text(<<When(LoadA, <<Assign("x", LoadB)>>), Do(UseX)>>)
OnlyUsed == Text(<<Do(UseX)>>)
InsideOut == Text(<<Assign("x", LoadA), When(LoadA, <<When(Ref("x"), <<Do(UseX)>>)>>)>>)
FailsInBlock(n) == Broken(<<Assign("x", LoadA), When(LoadA, <<Do(UseX), Do(UseX)>>)>>, n)

Scoped == {Shadowing, BeforeItsValue, OutOfItsBlock, OnlyUsed, InsideOut}
          \cup {FailsInBlock(n) : n \in {0, 4, 7, 9}}

Ends == {Text(<<Assign("x", LoadB), Do(UseX)>>), Text(<<Do(LoadA)>>)}

MCPipelines ==
  [1..3 -> SharingTexts] \cup [1..4 -> {ReadsA, ReadsB, ReadsBoth}] \cup {<< >>}
  \cup [1..2 -> Scoped] \cup {<<s, e>> : s \in Scoped, e \in Ends} \cup {<<e, s>> : s \in Scoped, e \in Ends}

MCExpressions ==
  {Text(<<Assign("x", Leaf("a")), Assign("y", Op("add", <<Ref("x"), Ref("x")>>)),
          Assign("x", Ref("y")), Do(Op("mul", <<Ref("x"), Ref("y")>>))>>),
   Text(<<Do(Leaf("a"))>>),
   Text(<<Let("x", LoadA), Assign("x", Op("neg", <<Ref("x")>>)), Do(Ref("x"))>>),
   Text(<<Assign("x", LoadA), Do(Ref("z"))>>),
   Text(<<Assign("x", Ref("z")), Do(LoadA)>>),
   Text(<<Assign("x", Ref("z")), Do(Op("neg", <<Ref("x")>>))>>),
   Text(<<Assign("x", Op("neg", <<Ref("z")>>)), Assign("z", Ref("x"))>>),
   Text(<<Assign("x", Ref("z")), Assign("x", LoadA), Do(Ref("x"))>>),
   Text(<<Assign("x", Op("neg", <<Ref("z")>>)), Assign("z", LoadA), Do(Ref("z"))>>),
   Text(<<Assign("x", LoadA), When(Ref("x"), <<Do(Ref("x"))>>), Do(Ref("x"))>>)}
  \cup {Broken(<<Assign("x", Ref("z")), Do(LoadA)>>, n) : n \in 0..3}

(* The trees that may be grouped, and what is hashed of them. *)
MCAsts == {[i \in DOMAIN texts |-> WrittenBlock(texts[i].stmts)] : texts \in MCPipelines}

MCTexts == {RootText(i) : i \in 1..4}
           \cup UNION {Range(SubtreesOfHeightOne(WrittenBlock(t.stmts))) : t \in SharingTexts \cup Scoped \cup Ends}

(* An injective hash; one in which two loads collide; one in which the      *)
(* first root's text collides with a load.                                  *)
Numbered == LET s == FoldSet(LAMBDA t, found : Append(found, t), << >>, MCTexts)
            IN  [t \in MCTexts |-> CHOOSE i \in DOMAIN s : s[i] = t]
MCHashes == {Numbered, [Numbered EXCEPT ![LoadB] = Numbered[LoadA]],
             [Numbered EXCEPT ![RootText(1)] = Numbered[LoadB]]}
=============================================================================
