--------------------------------- MODULE DSU ---------------------------------
(***************************************************************************)
(* The disjoint-set union of the pipeline grouper: athena/dsu.cc.  Find    *)
(* compresses the path it climbs and Union links by rank.                  *)
(***************************************************************************)
EXTENDS Integers, FiniteSets

CONSTANT Keys

VARIABLES
  parent_,          \* each key seen so far, to its parent; a root to itself
  rank_             \* the rank of each

dsuVars == <<parent_, rank_>>

EmptyMap == [k \in {} |-> 0]

DSUInit == parent_ = EmptyMap /\ rank_ = EmptyMap

(* The keys Find climbs through from x: the least set that holds x and the  *)
(* parent of each of its members.                                           *)
Path(parent, x) ==
  {y \in DOMAIN parent :
     \A S \in SUBSET DOMAIN parent : x \in S /\ (\A z \in S : parent[z] \in S) => y \in S}

Root(parent, x) == CHOOSE r \in Path(parent, x) : parent[r] = r

Insert(map, x, v) == [k \in DOMAIN map \cup {x} |-> IF k = x THEN v ELSE map[k]]

(* Find on a key already seen: every key on the path hangs from the root.   *)
Compress(parent, x) ==
  LET path == Path(parent, x)
      root == Root(parent, x)
  IN  [k \in DOMAIN parent |-> IF k \in path THEN root ELSE parent[k]]

ParentAfterFind(parent, x) ==
  IF x \in DOMAIN parent THEN Compress(parent, x) ELSE Insert(parent, x, x)

RankAfterFind(rank, x) == IF x \in DOMAIN rank THEN rank ELSE Insert(rank, x, 0)

Find(x) ==
  /\ parent_' = ParentAfterFind(parent_, x)
  /\ rank_' = RankAfterFind(rank_, x)

(* Mutant of Link: linking equal ranks does not raise the new root's. *)
LinkSameRank(parent, rank, rx, ry) ==
  IF rank[rx] < rank[ry]
    THEN parent_' = [parent EXCEPT ![rx] = ry] /\ rank_' = rank
    ELSE parent_' = [parent EXCEPT ![ry] = rx] /\ rank_' = rank

Link(parent, rank, rx, ry) ==
  IF rank[rx] < rank[ry]
    THEN parent_' = [parent EXCEPT ![rx] = ry] /\ rank_' = rank
  ELSE IF rank[rx] > rank[ry]
    THEN parent_' = [parent EXCEPT ![ry] = rx] /\ rank_' = rank
  ELSE parent_' = [parent EXCEPT ![ry] = rx] /\ rank_' = [rank EXCEPT ![rx] = @ + 1]

(* Mutant of Union: the keys are linked rather than their roots. *)
UnionOfKeys(x, y) ==
  LET p1 == ParentAfterFind(parent_, x)
      p2 == ParentAfterFind(p1, y)
      r2 == RankAfterFind(RankAfterFind(rank_, x), y)
  IN  IF Root(p2, x) = Root(p2, y) THEN parent_' = p2 /\ rank_' = r2 ELSE Link(p2, r2, x, y)

(* Both keys are found, in this order, before anything is linked. *)
Union(x, y) ==
  LET p1 == ParentAfterFind(parent_, x)
      p2 == ParentAfterFind(p1, y)
      r2 == RankAfterFind(RankAfterFind(rank_, x), y)
      rx == Root(p2, x)
      ry == Root(p2, y)
  IN  IF rx = ry THEN parent_' = p2 /\ rank_' = r2 ELSE Link(p2, r2, rx, ry)

DSUNext == \E x \in Keys : Find(x) \/ \E y \in Keys : Union(x, y)

DSUSpec == DSUInit /\ [][DSUNext]_dsuVars

-----------------------------------------------------------------------------
Class(r) == {k \in DOMAIN parent_ : Root(parent_, k) = r}
Roots == {k \in DOMAIN parent_ : parent_[k] = k}

PowerOfTwo[n \in Nat] == IF n = 0 THEN 1 ELSE 2 * PowerOfTwo[n - 1]

(* Ranks grow on the way up, so the recursion of Find ends: compression and *)
(* linking never close a cycle.  And a root of rank r has at least 2^r keys *)
(* below it, so that recursion is at most logarithmically deep.             *)
RanksBoundFind ==
  /\ \A k \in DOMAIN parent_ : parent_[k] # k => rank_[k] < rank_[parent_[k]]
  /\ \A r \in Roots : PowerOfTwo[rank_[r]] <= Cardinality(Class(r))

Classes == {Class(r) : r \in Roots}

(* The union promises a partition: the forest implements Partition.         *)
P == INSTANCE Partition WITH classes <- Classes

ImplementsPartition == P!Init /\ [][P!Next(Keys)]_dsuVars
=============================================================================
