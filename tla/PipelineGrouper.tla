--------------------------- MODULE PipelineGrouper ---------------------------
(***************************************************************************)
(* PipelineGrouper::Group, athena/pipeline_grouper.cc: pipelines that read *)
(* the same input are put under one isolated NoOPNode, so that one         *)
(* function computes what they share.                                      *)
(*                                                                         *)
(* The text ToString makes of a tree stands for the tree; StringHash is a  *)
(* function from texts to keys that may collide.  What GetHeight finds in  *)
(* a tree is a parameter here, and is the matter of TreeHeight.            *)
(***************************************************************************)
EXTENDS DSU, SequencesExt

CONSTANTS
  Asts,             \* the lists of trees Group may be given
  Texts,            \* what StringHash may be given
  Hashes,           \* StringHash, as functions from the texts to Keys
  HeightOne(_)      \* the subtrees of height one, in the order GetHeight leaves them

VARIABLES
  nodes,            \* the pipelines, in program order
  hash,             \* StringHash
  at,               \* the pipeline the loop has reached
  todo,             \* its subtrees still to be united with its root
  groups,           \* union_id_to_nodes: from union id to indices in order
  phase             \* "idle", or which loop of Group is running

grouperVars == <<nodes, hash, at, todo, groups, phase, parent_, rank_>>

RootText(i) == [kind |-> "root", nth |-> i]

(* Any text has a hash: those of the roots and of the subtrees united with  *)
(* them are texts.                                                          *)
ASSUME GrouperAssumption ==
  /\ \A h \in Hashes : h \in [Texts -> Keys]
  /\ \A asts \in Asts :
       /\ asts \in Seq(Range(asts))
       /\ \A i \in DOMAIN asts : RootText(i) \in Texts /\ HeightOne(asts[i]) \in Seq(Texts)

GrouperInit ==
  /\ nodes = << >> /\ hash = EmptyMap
  /\ at = 1 /\ todo = << >>
  /\ groups = EmptyMap
  /\ phase = "idle"
  /\ DSUInit

(* The call: nothing is united for an empty list. *)
Group(asts) ==
  /\ phase = "idle"
  /\ nodes' = asts
  /\ hash' \in Hashes
  /\ todo' = IF asts = << >> THEN << >> ELSE HeightOne(asts[1])
  /\ phase' = IF asts = << >> THEN "grouped" ELSE "unite"
  /\ UNCHANGED <<at, groups, parent_, rank_>>

UniteNext ==
  /\ phase = "unite" /\ todo # << >>
  /\ Union(hash[RootText(at)], hash[Head(todo)])
  /\ todo' = Tail(todo)
  /\ UNCHANGED <<nodes, hash, at, groups, phase>>

(* The next pipeline, or the second loop. *)
Advance ==
  /\ phase = "unite" /\ todo = << >>
  /\ IF at < Len(nodes)
       THEN at' = at + 1 /\ todo' = HeightOne(nodes[at + 1]) /\ UNCHANGED phase
       ELSE at' = 1 /\ phase' = "collect" /\ UNCHANGED todo
  /\ UNCHANGED <<nodes, hash, groups, parent_, rank_>>

(* Mutant of PutInto: the newest pipeline comes first. *)
PutFirst(map, id, i) == Insert(map, id, <<i>> \o IF id \in DOMAIN map THEN map[id] ELSE << >>)

PutInto(map, id, i) == Insert(map, id, (IF id \in DOMAIN map THEN map[id] ELSE << >>) \o <<i>>)

(* Mutant of UnionId: Find returns before it has climbed to the root. *)
ParentAsId(key) == IF key \in DOMAIN parent_ THEN parent_[key] ELSE key

(* What Find returns for a key. *)
UnionId(key) == IF key \in DOMAIN parent_ THEN Root(parent_, key) ELSE key

Collect ==
  /\ phase = "collect"
  /\ LET key == hash[RootText(at)]
     IN  /\ Find(key)
         /\ groups' = PutInto(groups, UnionId(key), at)
  /\ IF at < Len(nodes) THEN at' = at + 1 /\ UNCHANGED phase
     ELSE phase' = "grouped" /\ UNCHANGED at
  /\ UNCHANGED <<nodes, hash, todo>>

GroupStep == UniteNext \/ Advance \/ Collect

GrouperNext == GroupStep \/ \E asts \in Asts : Group(asts)

GrouperSpec == GrouperInit /\ [][GrouperNext]_grouperVars

-----------------------------------------------------------------------------
Together(i, j) == \E id \in DOMAIN groups : {i, j} \subseteq Range(groups[id])

(* The keys Group unites for pipeline i: that of its root, and what it finds. *)
KeysOf(i) == {hash[RootText(i)]} \cup {hash[t] : t \in Range(HeightOne(nodes[i]))}

Meeting ==
  {link \in (DOMAIN nodes) \X (DOMAIN nodes) : KeysOf(link[1]) \cap KeysOf(link[2]) # {}}

(* A chain of links leads from pipeline i to pipeline j. *)
Connected(links, i, j) ==
  \A S \in SUBSET DOMAIN nodes :
    i \in S /\ (\A link \in links : link[1] \in S => link[2] \in S) => j \in S

(* The groups are the connected components of the pipelines, no larger and  *)
(* no smaller, whatever keys collide: the first loop has united all that it *)
(* must before the second asks for the first id, and asking for an id       *)
(* changes none that was given.                                             *)
GroupsAreComponents ==
  phase = "grouped" =>
    LET meeting == Meeting
    IN  \A i, j \in DOMAIN nodes : Together(i, j) <=> Connected(meeting, i, j)

(* The pipelines are moved out of the input one by one: each ends up in     *)
(* exactly one group, and a group keeps program order, which is the order   *)
(* their stores run in.                                                     *)
GroupsPartition ==
  phase = "grouped" =>
    /\ \A i \in DOMAIN nodes : \E id \in DOMAIN groups : i \in Range(groups[id])
    /\ \A id, other \in DOMAIN groups : id # other => Range(groups[id]) \cap Range(groups[other]) = {}
    /\ \A id \in DOMAIN groups : \A k, l \in DOMAIN groups[id] : k < l => groups[id][k] < groups[id][l]
=============================================================================
