------------------------------ MODULE TreeHeight ------------------------------
(***************************************************************************)
(* GetHeight and the Visit overloads of athena/pipeline_grouper.cc: which  *)
(* subtrees of a pipeline its root is united with, and what that is for.   *)
(*                                                                         *)
(* A tree is a record with its kind, name and args: "leaf" for entry arguments,         *)
(* constants, outputs and contexts, "ref" for a variable, "node" for all   *)
(* others.                                                                 *)
(***************************************************************************)
EXTENDS PipelineGrouper

RECURSIVE Height(_), SubtreesOfHeightOne(_)

(* Mutant of Visit: a variable is a leaf like any other. *)
HeightOfRefZero(tree) ==
  IF tree.kind \in {"leaf", "ref"} THEN 0
  ELSE FoldLeft(LAMBDA h, a : IF Height(a) > h THEN Height(a) ELSE h, 0, tree.args) + 1

(* The Visit overloads: what height_ is after each.  A variable counts as   *)
(* two, so that nothing it occurs in has height one.                        *)
Visit(tree) ==
  CASE tree.kind = "leaf" -> 0
    [] tree.kind = "ref" -> 2
    [] tree.kind = "node" ->
         FoldLeft(LAMBDA h, a : IF Height(a) > h THEN Height(a) ELSE h, 0, tree.args) + 1

Height(tree) == Visit(tree)

(* The subtrees GetHeight unites with the root, in the order it leaves them. *)
SubtreesOfHeightOne(tree) ==
  FoldLeft(LAMBDA found, a : found \o SubtreesOfHeightOne(a), << >>, tree.args)
  \o IF Height(tree) = 1 THEN <<tree>> ELSE << >>

-----------------------------------------------------------------------------
(* What the groups are for, told from the trees alone: the operations that  *)
(* a pipeline applies to inputs only.                                       *)
RECURSIVE Subtrees(_)
Subtrees(tree) == {tree} \cup UNION {Subtrees(a) : a \in Range(tree.args)}

Loads(tree) ==
  {s \in Subtrees(tree) : s.kind = "node" /\ \A a \in Range(s.args) : a.kind = "leaf"}

Sharing == {<<i, j>> \in (DOMAIN nodes) \X (DOMAIN nodes) : Loads(nodes[i]) \cap Loads(nodes[j]) # {}}

Injective(f) == \A x, y \in DOMAIN f : f[x] = f[y] => x = y

(* Pipelines with a common input computation end up in one group, whatever  *)
(* the hash does, so the computation is generated once.  With no collisions *)
(* nothing else does: in particular not pipelines that only use the same    *)
(* variable name ("could be incorrectly merged").                           *)
GroupsAreWhatShares ==
  phase = "grouped" =>
    LET sharing == Sharing
    IN  \A i, j \in DOMAIN nodes :
          /\ <<i, j>> \in sharing => Together(i, j)
          /\ Injective(hash) /\ Together(i, j) => Connected(sharing, i, j)
=============================================================================
