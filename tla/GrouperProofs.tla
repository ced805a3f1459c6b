----------------------------- MODULE GrouperProofs ----------------------------
(***************************************************************************)
(* Proofs about the disjoint-set union: Find's recursion ends, at a depth  *)
(* the ranks bound, and the forest implements Partition, for any keys and  *)
(* any sequence of calls.  And about PipelineGrouper::Group, which drives  *)
(* it, for any lists of trees, whatever GetHeight finds in them and        *)
(* however StringHash collides: the groups are the connected components,   *)
(* every pipeline is in one of them, in order.                             *)
(***************************************************************************)
EXTENDS PipelineGrouper, FiniteSetTheorems, WellFoundedInduction, TLAPS

(* Every key points to a key of higher rank or to itself, and the ranks are *)
(* bounded.                                                                 *)
IsForest(parent, rank) ==
  LET D == DOMAIN parent
  IN  /\ parent \in [D -> D]
      /\ rank \in [D -> Nat]
      /\ IsFiniteSet(D)
      /\ \A k \in D : parent[k] # k => rank[k] < rank[parent[k]]
      /\ \E b \in Nat : \A k \in D : rank[k] <= b

LEMMA LeastNatural ==
  ASSUME NEW T \in SUBSET Nat, T # {}
  PROVE  \E m \in T : \A n \in T : m <= n
<1>1. PICK m \in T : \A n \in T : <<n, m>> \notin OpToRel(<, Nat)
  BY NatLessThanWellFounded, WFMin
<1>2. ASSUME NEW n \in T PROVE m <= n
  <2>1. n \in Nat /\ m \in Nat
    OBVIOUS
  <2>2. ~ (n < m)
    BY <1>1, <2>1 DEF OpToRel
  <2>3. QED BY <2>1, <2>2
<1>3. QED BY <1>2

(* A path is closed under parents, and the least such set.  *)
LEMMA PathIsLeast ==
  ASSUME NEW parent, NEW x \in DOMAIN parent, parent \in [DOMAIN parent -> DOMAIN parent]
  PROVE  /\ Path(parent, x) \subseteq DOMAIN parent
         /\ x \in Path(parent, x)
         /\ \A z \in Path(parent, x) : parent[z] \in Path(parent, x)
         /\ \A S \in SUBSET DOMAIN parent :
              x \in S /\ (\A z \in S : parent[z] \in S) => Path(parent, x) \subseteq S
BY DEF Path

(* The path of a root is the root, that of another key begins with the key. *)
LEMMA PathOfRoot ==
  ASSUME NEW parent, NEW x \in DOMAIN parent, parent \in [DOMAIN parent -> DOMAIN parent],
         parent[x] = x
  PROVE  Path(parent, x) = {x}
<1>1. {x} \in SUBSET DOMAIN parent /\ \A z \in {x} : parent[z] \in {x}
  OBVIOUS
<1>2. QED BY <1>1, PathIsLeast

LEMMA PathOfChild ==
  ASSUME NEW parent, NEW x \in DOMAIN parent, parent \in [DOMAIN parent -> DOMAIN parent]
  PROVE  Path(parent, x) = {x} \cup Path(parent, parent[x])
<1>1. parent[x] \in DOMAIN parent
  OBVIOUS
<1> DEFINE S == {x} \cup Path(parent, parent[x])
<1>2. S \in SUBSET DOMAIN parent /\ x \in S /\ \A z \in S : parent[z] \in S
  BY <1>1, PathIsLeast
<1>3. Path(parent, x) \subseteq S
  <2> HIDE DEF S
  <2>1. QED BY <1>2, PathIsLeast
<1>4. Path(parent, parent[x]) \subseteq Path(parent, x)
  <2>1. /\ Path(parent, x) \in SUBSET DOMAIN parent /\ parent[x] \in Path(parent, x)
        /\ \A z \in Path(parent, x) : parent[z] \in Path(parent, x)
    BY PathIsLeast
  <2>2. QED BY <1>1, <2>1, PathIsLeast
<1>5. QED BY <1>3, <1>4, PathIsLeast

(* Every path ends in one root: a key of highest rank without one would     *)
(* have a parent of higher rank.                                            *)
LEMMA PathEnds ==
  ASSUME NEW parent, NEW rank, IsForest(parent, rank), NEW x \in DOMAIN parent
  PROVE  \E r \in Path(parent, x) :
           parent[r] = r /\ \A q \in Path(parent, x) : parent[q] = q => q = r
<1> DEFINE D == DOMAIN parent
           Ends(k) == \E r \in Path(parent, k) :
                        parent[r] = r /\ \A q \in Path(parent, k) : parent[q] = q => q = r
           Bad == {k \in D : ~ Ends(k)}
<1>1. /\ parent \in [D -> D] /\ rank \in [D -> Nat]
      /\ \A k \in D : parent[k] # k => rank[k] < rank[parent[k]]
  BY DEF IsForest
<1>2. PICK b \in Nat : \A k \in D : rank[k] <= b
  BY DEF IsForest
<1> DEFINE Heights == {b - rank[k] : k \in Bad}
<1>3. SUFFICES ASSUME Bad # {} PROVE FALSE
  OBVIOUS
<1>4. PICK k \in Bad : \A j \in Bad : b - rank[k] <= b - rank[j]
  <2>1. Heights \in SUBSET Nat /\ Heights # {}
    BY <1>1, <1>2, <1>3
  <2>2. PICK m \in Heights : \A n \in Heights : m <= n
    BY <2>1, LeastNatural
  <2>3. QED BY <2>2
<1>5. CASE parent[k] = k
  BY <1>1, <1>5, PathOfRoot
<1>6. CASE parent[k] # k
  <2>1. parent[k] \in D /\ rank[k] < rank[parent[k]]
    BY <1>1, <1>6
  <2>2. parent[k] \notin Bad
    BY <1>1, <1>4, <2>1
  <2>3. Ends(parent[k])
    BY <2>1, <2>2
  <2>4. Path(parent, k) = {k} \cup Path(parent, parent[k])
    BY <1>1, PathOfChild
  <2>5. Ends(k)
    BY <1>6, <2>3, <2>4
  <2>6. QED BY <2>5
<1>7. QED BY <1>5, <1>6

LEMMA RootIsEnd ==
  ASSUME NEW parent, NEW rank, IsForest(parent, rank), NEW x \in DOMAIN parent
  PROVE  /\ Root(parent, x) \in DOMAIN parent /\ Root(parent, x) \in Path(parent, x)
         /\ parent[Root(parent, x)] = Root(parent, x)
         /\ parent[x] = x => Root(parent, x) = x
<1>1. Root(parent, x) \in Path(parent, x) /\ parent[Root(parent, x)] = Root(parent, x)
  BY PathEnds DEF Root
<1>2. parent \in [DOMAIN parent -> DOMAIN parent]
  BY DEF IsForest
<1>3. QED BY <1>1, <1>2, PathIsLeast, PathOfRoot

LEMMA RootOfParent ==
  ASSUME NEW parent, NEW rank, IsForest(parent, rank), NEW x \in DOMAIN parent
  PROVE  Root(parent, parent[x]) = Root(parent, x)
<1>1. parent \in [DOMAIN parent -> DOMAIN parent] /\ parent[x] \in DOMAIN parent
  BY DEF IsForest
<1>2. Path(parent, x) = {x} \cup Path(parent, parent[x])
  BY <1>1, PathOfChild
<1>3. /\ Root(parent, parent[x]) \in Path(parent, x)
      /\ parent[Root(parent, parent[x])] = Root(parent, parent[x])
  BY <1>1, <1>2, RootIsEnd
<1>4. QED BY <1>3, PathEnds, RootIsEnd

(* Whatever is constant along parents and its own at the roots is the root. *)
LEMMA RootIsUnique ==
  ASSUME NEW parent, NEW rank, IsForest(parent, rank), NEW f,
         \A k \in DOMAIN parent : f[parent[k]] = f[k],
         \A k \in DOMAIN parent : parent[k] = k => f[k] = k,
         NEW x \in DOMAIN parent
  PROVE  Root(parent, x) = f[x]
<1> DEFINE S == {k \in DOMAIN parent : f[k] = f[x]}
<1>1. parent \in [DOMAIN parent -> DOMAIN parent]
  BY DEF IsForest
<1>2. S \in SUBSET DOMAIN parent /\ x \in S /\ \A z \in S : parent[z] \in S
  BY <1>1
<1>3. Path(parent, x) \subseteq S
  <2> HIDE DEF S
  <2>1. QED BY <1>1, <1>2, PathIsLeast
<1>4. Root(parent, x) \in S /\ parent[Root(parent, x)] = Root(parent, x)
  BY <1>3, RootIsEnd
<1>5. QED BY <1>4

(* The keys of a path share its root. *)
LEMMA PathSharesRoot ==
  ASSUME NEW parent, NEW rank, IsForest(parent, rank), NEW x \in DOMAIN parent, NEW y \in Path(parent, x)
  PROVE  y \in DOMAIN parent /\ Root(parent, y) = Root(parent, x)
<1> DEFINE S == {k \in DOMAIN parent : Root(parent, k) = Root(parent, x)}
<1>1. parent \in [DOMAIN parent -> DOMAIN parent]
  BY DEF IsForest
<1>2. S \in SUBSET DOMAIN parent /\ x \in S /\ \A z \in S : parent[z] \in S
  BY <1>1, RootOfParent
<1>3. Path(parent, x) \subseteq S
  <2> HIDE DEF S
  <2>1. QED BY <1>1, <1>2, PathIsLeast
<1>4. QED BY <1>3

(* A root ranks above every key below it. *)
LEMMA RootRanksHighest ==
  ASSUME NEW parent, NEW rank, IsForest(parent, rank), NEW x \in DOMAIN parent, Root(parent, x) # x
  PROVE  rank[x] < rank[Root(parent, x)]
<1> DEFINE S == {k \in DOMAIN parent : k # x => rank[x] < rank[k]}
<1>1. /\ parent \in [DOMAIN parent -> DOMAIN parent] /\ rank \in [DOMAIN parent -> Nat]
      /\ \A k \in DOMAIN parent : parent[k] # k => rank[k] < rank[parent[k]]
  BY DEF IsForest
<1>2. S \in SUBSET DOMAIN parent /\ x \in S
  OBVIOUS
<1>3. ASSUME NEW z \in S PROVE parent[z] \in S
  <2>1. z \in DOMAIN parent /\ parent[z] \in DOMAIN parent
    BY <1>1
  <2>2. rank[x] \in Nat /\ rank[z] \in Nat /\ rank[parent[z]] \in Nat
    BY <1>1, <2>1
  <2>3. rank[x] <= rank[z] /\ (parent[z] = z \/ rank[z] < rank[parent[z]])
    BY <1>1, <2>1, <2>2
  <2>4. parent[z] # z => rank[x] < rank[parent[z]]
    BY <2>2, <2>3
  <2>5. QED BY <2>1, <2>4
<1>4. Path(parent, x) \subseteq S
  <2> HIDE DEF S
  <2>1. QED BY <1>1, <1>2, <1>3, PathIsLeast
<1>5. QED BY <1>4, RootIsEnd

-----------------------------------------------------------------------------
(* What each operation does to the forest.  Path compression changes no     *)
(* root, and hangs a key only from one that ranks higher.                   *)
LEMMA CompressKeeps ==
  ASSUME NEW parent, NEW rank, IsForest(parent, rank), NEW x \in DOMAIN parent,
         NEW new, new = Compress(parent, x)
  PROVE  /\ IsForest(new, rank) /\ DOMAIN new = DOMAIN parent
         /\ \A k \in DOMAIN parent : Root(new, k) = Root(parent, k)
<1> DEFINE D == DOMAIN parent
           path == Path(parent, x)
           root == Root(parent, x)
<1>1. /\ parent \in [D -> D] /\ rank \in [D -> Nat]
      /\ \A k \in D : parent[k] # k => rank[k] < rank[parent[k]]
  BY DEF IsForest
<1>2. path \subseteq D /\ root \in D /\ parent[root] = root
  BY <1>1, PathIsLeast, RootIsEnd
<1>3. new = [k \in D |-> IF k \in path THEN root ELSE parent[k]]
  BY DEF Compress
<1>4. \A k \in path : Root(parent, k) = root
  BY PathSharesRoot
<1> HIDE DEF path, root
<1>5. IsForest(new, rank)
  <2>1. new \in [D -> D]
    BY <1>1, <1>2, <1>3
  <2>2. ASSUME NEW k \in D, new[k] # k PROVE rank[k] < rank[new[k]]
    <3>1. CASE k \in path
      BY <1>3, <1>4, <2>2, <3>1, RootRanksHighest
    <3>2. CASE k \notin path
      BY <1>1, <1>3, <2>2, <3>2
    <3>3. QED BY <3>1, <3>2
  <2>3. DOMAIN new = D
    BY <1>3
  <2>4. QED BY <2>1, <2>2, <2>3 DEF IsForest
<1>6. ASSUME NEW j \in D PROVE Root(new, j) = Root(parent, j)
  <2> DEFINE f == [k \in D |-> Root(parent, k)]
  <2>1. DOMAIN new = D
    BY <1>3
  <2>2. ASSUME NEW k \in D PROVE f[new[k]] = f[k]
    <3>1. CASE k \in path
      <4>1. new[k] = root /\ Root(parent, k) = root
        BY <1>3, <1>4, <3>1
      <4>2. Root(parent, root) = root
        BY <1>2, RootIsEnd
      <4>3. QED BY <1>2, <4>1, <4>2
    <3>2. CASE k \notin path
      <4>1. new[k] = parent[k] /\ parent[k] \in D
        BY <1>1, <1>3, <3>2
      <4>2. QED BY <4>1, RootOfParent
    <3>3. QED BY <3>1, <3>2
  <2>3. ASSUME NEW k \in D, new[k] = k PROVE f[k] = k
    <3>1. CASE k \in path
      BY <1>3, <1>4, <2>3, <3>1
    <3>2. CASE k \notin path
      BY <1>3, <2>3, <3>2, RootIsEnd
    <3>3. QED BY <3>1, <3>2
  <2> HIDE DEF f
  <2>4. Root(new, j) = f[j]
    BY <1>5, <2>1, <2>2, <2>3, RootIsUnique
  <2>5. QED BY <2>4 DEF f
<1>7. QED BY <1>3, <1>5, <1>6

(* A key seen for the first time is a root of rank 0. *)
Inserted(new, newRank, parent, rank, x) ==
  /\ IsForest(new, newRank) /\ DOMAIN new = DOMAIN parent \cup {x}
  /\ Root(new, x) = x /\ newRank[x] = 0
  /\ \A k \in DOMAIN parent :
       Root(new, k) = Root(parent, k) /\ new[k] = parent[k] /\ newRank[k] = rank[k]

LEMMA InsertKeeps ==
  ASSUME NEW parent, NEW rank, IsForest(parent, rank), NEW x, x \notin DOMAIN parent,
         NEW new, new = Insert(parent, x, x),
         NEW newRank, newRank = Insert(rank, x, 0)
  PROVE  Inserted(new, newRank, parent, rank, x)
<1> DEFINE D == DOMAIN parent
<1>1. /\ parent \in [D -> D] /\ rank \in [D -> Nat] /\ IsFiniteSet(D)
      /\ \A k \in D : parent[k] # k => rank[k] < rank[parent[k]]
  BY DEF IsForest
<1>2. /\ new = [k \in D \cup {x} |-> IF k = x THEN x ELSE parent[k]]
      /\ newRank = [k \in D \cup {x} |-> IF k = x THEN 0 ELSE rank[k]]
  BY <1>1 DEF Insert
<1>3. \A k \in D : new[k] = parent[k] /\ newRank[k] = rank[k] /\ k # x
  BY <1>2
<1>4. IsForest(new, newRank)
  <2>1. DOMAIN new = D \cup {x} /\ new \in [D \cup {x} -> D \cup {x}] /\ newRank \in [D \cup {x} -> Nat]
    BY <1>1, <1>2
  <2>2. IsFiniteSet(D \cup {x})
    BY <1>1, FS_AddElement
  <2>3. ASSUME NEW k \in D \cup {x}, new[k] # k PROVE newRank[k] < newRank[new[k]]
    BY <1>1, <1>2, <1>3, <2>3
  <2>4. PICK b \in Nat : \A k \in D : rank[k] <= b
    BY DEF IsForest
  <2>5. \A k \in D \cup {x} : newRank[k] <= b
    BY <1>2, <1>3, <2>4
  <2>6. QED BY <2>1, <2>2, <2>3, <2>5 DEF IsForest
<1>5. Root(new, x) = x
  BY <1>2, <1>4, RootIsEnd
<1>6. ASSUME NEW j \in D PROVE Root(new, j) = Root(parent, j)
  <2> DEFINE f == [k \in D \cup {x} |-> IF k = x THEN x ELSE Root(parent, k)]
  <2>1. DOMAIN new = D \cup {x}
    BY <1>2
  <2>2. ASSUME NEW k \in D \cup {x} PROVE f[new[k]] = f[k]
    <3>1. CASE k = x
      BY <1>2, <3>1
    <3>2. CASE k \in D
      <4>1. new[k] = parent[k] /\ parent[k] \in D /\ k # x /\ parent[k] # x
        BY <1>1, <1>3, <3>2
      <4>2. QED BY <3>2, <4>1, RootOfParent
    <3>3. QED BY <3>1, <3>2
  <2>3. ASSUME NEW k \in D \cup {x}, new[k] = k PROVE f[k] = k
    BY <1>3, <2>3, RootIsEnd
  <2> HIDE DEF f
  <2>4. Root(new, j) = f[j]
    BY <1>4, <2>1, <2>2, <2>3, RootIsUnique
  <2>5. QED BY <1>3, <2>4 DEF f
<1>7. QED BY <1>2, <1>3, <1>4, <1>5, <1>6 DEF Inserted

(* A key whose root is hung from another gets that one. *)
Hung(new, parent, lose, win) ==
  \A j \in DOMAIN parent :
    Root(new, j) = IF Root(parent, j) = lose THEN win ELSE Root(parent, j)

LEMMA HangingMoves ==
  ASSUME NEW parent, NEW rank, IsForest(parent, rank),
         NEW lose \in DOMAIN parent, NEW win \in DOMAIN parent, lose # win,
         parent[lose] = lose, parent[win] = win,
         NEW new, NEW newRank, IsForest(new, newRank), DOMAIN new = DOMAIN parent, new[lose] = win,
         \A k \in DOMAIN parent : k # lose => new[k] = parent[k]
  PROVE  Hung(new, parent, lose, win)
<1> DEFINE f == [k \in DOMAIN parent |-> IF Root(parent, k) = lose THEN win ELSE Root(parent, k)]
<1>1. Root(parent, lose) = lose /\ Root(parent, win) = win /\ parent \in [DOMAIN parent -> DOMAIN parent]
  BY RootIsEnd DEF IsForest
<1>2. ASSUME NEW k \in DOMAIN parent PROVE f[new[k]] = f[k]
  <2>1. CASE k = lose
    BY <1>1, <2>1
  <2>2. CASE k # lose
    <3>1. new[k] = parent[k] /\ parent[k] \in DOMAIN parent
      BY <1>1, <2>2
    <3>2. QED BY <3>1, RootOfParent
  <2>3. QED BY <2>1, <2>2
<1>3. ASSUME NEW k \in DOMAIN parent, new[k] = k PROVE f[k] = k
  <2>1. k # lose /\ parent[k] = k
    BY <1>3
  <2>2. QED BY <2>1, RootIsEnd
<1>4. ASSUME NEW j \in DOMAIN parent PROVE Root(new, j) = f[j]
  <2> HIDE DEF f
  <2>1. QED BY <1>2, <1>3, RootIsUnique
<1>5. QED BY <1>4 DEF Hung

(* Hanging one root under another, whose rank is or becomes higher. *)
Hangs(new, newRank, parent, rank, lose, win) ==
  LET D == DOMAIN parent
  IN  /\ lose \in D /\ win \in D /\ lose # win /\ parent[lose] = lose /\ parent[win] = win
      /\ new \in [D -> D] /\ new[lose] = win
      /\ \A k \in D : k # lose => new[k] = parent[k]
      /\ newRank \in [D -> Nat]
      /\ \A k \in D : k # win => newRank[k] = rank[k]
      /\ newRank[win] = rank[win] \/ (newRank[win] = rank[win] + 1 /\ rank[lose] = rank[win])
      /\ rank[lose] < newRank[win]

LEMMA HangKeeps ==
  ASSUME NEW parent, NEW rank, IsForest(parent, rank), NEW lose, NEW win, NEW new, NEW newRank,
         Hangs(new, newRank, parent, rank, lose, win)
  PROVE  IsForest(new, newRank) /\ DOMAIN new = DOMAIN parent /\ Hung(new, parent, lose, win)
<1> DEFINE D == DOMAIN parent
<1>1. /\ parent \in [D -> D] /\ rank \in [D -> Nat] /\ IsFiniteSet(D)
      /\ \A k \in D : parent[k] # k => rank[k] < rank[parent[k]]
  BY DEF IsForest
<1>2. /\ new \in [D -> D] /\ DOMAIN new = D /\ new[lose] = win
      /\ \A k \in D : k # lose => new[k] = parent[k]
      /\ lose \in D /\ win \in D /\ lose # win /\ parent[lose] = lose /\ parent[win] = win
  BY DEF Hangs
<1>3. /\ newRank \in [D -> Nat] /\ rank[lose] < newRank[win]
      /\ \A k \in D : k # win => newRank[k] = rank[k]
      /\ newRank[win] = rank[win] \/ newRank[win] = rank[win] + 1
  BY DEF Hangs
<1>4. rank[win] \in Nat /\ newRank[win] \in Nat
  BY <1>1, <1>2, <1>3
<1>5. IsForest(new, newRank)
  <2>1. ASSUME NEW k \in D, new[k] # k PROVE newRank[k] < newRank[new[k]]
    <3>1. CASE k = lose
      BY <1>2, <1>3, <3>1
    <3>2. CASE k # lose
      <4>1. new[k] = parent[k] /\ parent[k] # k /\ k # win /\ parent[k] \in D
        BY <1>1, <1>2, <2>1, <3>2
      <4>2. newRank[k] = rank[k] /\ rank[k] < rank[parent[k]]
        BY <1>1, <1>3, <4>1
      <4>3. rank[k] \in Nat /\ rank[parent[k]] \in Nat /\ newRank[parent[k]] \in Nat
        BY <1>1, <1>3, <4>1
      <4>4. newRank[parent[k]] >= rank[parent[k]]
        BY <1>3, <1>4, <4>1, <4>3
      <4>5. QED BY <4>1, <4>2, <4>3, <4>4
    <3>3. QED BY <3>1, <3>2
  <2>2. PICK b \in Nat : \A k \in D : rank[k] <= b
    BY DEF IsForest
  <2>3. \A k \in D : newRank[k] <= b + newRank[win]
    <3>1. SUFFICES ASSUME NEW k \in D PROVE newRank[k] <= b + newRank[win]
      OBVIOUS
    <3>2. newRank[win] \in Nat /\ rank[k] \in Nat /\ rank[k] <= b
      BY <1>1, <1>4, <2>2
    <3>3. k = win \/ newRank[k] = rank[k]
      BY <1>3
    <3>4. QED BY <3>2, <3>3
  <2>4. b + newRank[win] \in Nat
    BY <1>4
  <2>5. QED BY <1>1, <1>2, <1>3, <2>1, <2>3, <2>4 DEF IsForest
<1>6. Hung(new, parent, lose, win)
  BY <1>2, <1>5, HangingMoves
<1>7. QED BY <1>2, <1>5, <1>6

-----------------------------------------------------------------------------
(* The partition a forest stands for. *)
Block(parent, r) == {k \in DOMAIN parent : Root(parent, k) = r}

Blocks(parent) == {Block(parent, Root(parent, k)) : k \in DOMAIN parent}

LEMMA ClassesAreBlocks == IsForest(parent_, rank_) => Classes = Blocks(parent_)
<1> SUFFICES ASSUME IsForest(parent_, rank_) PROVE Classes = Blocks(parent_)
  OBVIOUS
<1>1. \A r : Class(r) = Block(parent_, r)
  BY DEF Class, Block
<1>2. \A r \in Roots : r \in DOMAIN parent_ /\ Root(parent_, r) = r
  BY RootIsEnd DEF Roots
<1>3. \A k \in DOMAIN parent_ : Root(parent_, k) \in Roots
  BY RootIsEnd DEF Roots
<1>4. Classes \subseteq Blocks(parent_)
  <2>1. SUFFICES ASSUME NEW r \in Roots PROVE Class(r) \in Blocks(parent_)
    BY DEF Classes
  <2>2. Class(r) = Block(parent_, Root(parent_, r)) /\ r \in DOMAIN parent_
    BY <1>1, <1>2
  <2>3. QED BY <2>2 DEF Blocks
<1>5. Blocks(parent_) \subseteq Classes
  <2>1. SUFFICES ASSUME NEW k \in DOMAIN parent_ PROVE Block(parent_, Root(parent_, k)) \in Classes
    BY DEF Blocks
  <2>2. Block(parent_, Root(parent_, k)) = Class(Root(parent_, k)) /\ Root(parent_, k) \in Roots
    BY <1>1, <1>3
  <2>3. QED BY <2>2 DEF Classes
<1>6. QED BY <1>4, <1>5

(* Every key is in one block. *)
LEMMA BlocksPartition ==
  ASSUME NEW parent
  PROVE  /\ UNION Blocks(parent) = DOMAIN parent
         /\ \A k \in DOMAIN parent :
              /\ Block(parent, Root(parent, k)) \in Blocks(parent)
              /\ k \in Block(parent, Root(parent, k))
              /\ \A c \in Blocks(parent) : k \in c => c = Block(parent, Root(parent, k))
BY DEF Blocks, Block

LEMMA SameRootsSameBlocks ==
  ASSUME NEW parent, NEW new, DOMAIN new = DOMAIN parent,
         \A k \in DOMAIN parent : Root(new, k) = Root(parent, k)
  PROVE  Blocks(new) = Blocks(parent)
<1>1. \A r : Block(new, r) = Block(parent, r)
  BY DEF Block
<1>2. QED BY <1>1 DEF Blocks

Add(blocks, x) == IF x \in UNION blocks THEN blocks ELSE blocks \cup {{x}}

LEMMA AddCovers ==
  ASSUME NEW blocks, NEW x
  PROVE  UNION Add(blocks, x) = (UNION blocks) \cup {x}
<1>1. ASSUME NEW k PROVE k \in UNION Add(blocks, x) <=> k \in UNION blocks \/ k = x
  <2>1. CASE x \in UNION blocks
    <3>1. Add(blocks, x) = blocks
      BY <2>1 DEF Add
    <3>2. QED BY <2>1, <3>1
  <2>2. CASE x \notin UNION blocks
    <3>1. Add(blocks, x) = blocks \cup {{x}}
      BY <2>2 DEF Add
    <3>2. k \in UNION (blocks \cup {{x}}) <=> \E c \in blocks \cup {{x}} : k \in c
      OBVIOUS
    <3>3. QED BY <3>1, <3>2
  <2>3. QED BY <2>1, <2>2
<1>2. QED BY <1>1

(* The forest, and the partition it stands for, after a key was found. *)
LEMMA FindKeeps ==
  ASSUME NEW parent, NEW rank, IsForest(parent, rank), NEW x,
         NEW new, new = ParentAfterFind(parent, x),
         NEW newRank, newRank = RankAfterFind(rank, x)
  PROVE  /\ IsForest(new, newRank) /\ DOMAIN new = DOMAIN parent \cup {x}
         /\ Blocks(new) = Add(Blocks(parent), x)
<1>1. DOMAIN rank = DOMAIN parent
  BY DEF IsForest
<1>2. CASE x \in DOMAIN parent
  <2>1. new = Compress(parent, x) /\ newRank = rank
    BY <1>1, <1>2 DEF ParentAfterFind, RankAfterFind
  <2>2. /\ IsForest(new, newRank) /\ DOMAIN new = DOMAIN parent
        /\ \A k \in DOMAIN parent : Root(new, k) = Root(parent, k)
    BY <1>2, <2>1, CompressKeeps
  <2>3. Blocks(new) = Blocks(parent)
    BY <2>2, SameRootsSameBlocks
  <2>4. x \in UNION Blocks(parent)
    BY <1>2, BlocksPartition
  <2>5. QED BY <1>2, <2>2, <2>3, <2>4 DEF Add
<1>3. CASE x \notin DOMAIN parent
  <2>1. new = Insert(parent, x, x) /\ newRank = Insert(rank, x, 0)
    BY <1>1, <1>3 DEF ParentAfterFind, RankAfterFind
  <2>2. /\ IsForest(new, newRank) /\ DOMAIN new = DOMAIN parent \cup {x}
        /\ Root(new, x) = x
        /\ \A k \in DOMAIN parent : Root(new, k) = Root(parent, k)
    <3>1. Inserted(new, newRank, parent, rank, x)
      BY <1>3, <2>1, InsertKeeps
    <3>2. QED BY <3>1 DEF Inserted
  <2>3. \A k \in DOMAIN parent : Root(parent, k) \in DOMAIN parent
    BY RootIsEnd
  <2>4. Block(new, x) = {x}
    BY <1>3, <2>2, <2>3 DEF Block
  <2>5. \A k \in DOMAIN parent : Block(new, Root(parent, k)) = Block(parent, Root(parent, k))
    BY <1>3, <2>2, <2>3 DEF Block
  <2>6. Blocks(new) = Blocks(parent) \cup {{x}}
    <3>1. ASSUME NEW c \in Blocks(new) PROVE c \in Blocks(parent) \cup {{x}}
      <4>1. PICK k \in DOMAIN new : c = Block(new, Root(new, k))
        BY DEF Blocks
      <4>2. CASE k = x
        BY <2>2, <2>4, <4>1, <4>2
      <4>3. CASE k # x
        <5>1. k \in DOMAIN parent /\ c = Block(parent, Root(parent, k))
          BY <2>2, <2>5, <4>1, <4>3
        <5>2. QED BY <5>1 DEF Blocks
      <4>4. QED BY <4>2, <4>3
    <3>2. ASSUME NEW c \in Blocks(parent) \cup {{x}} PROVE c \in Blocks(new)
      <4>1. CASE c = {x}
        BY <2>2, <2>4, <4>1 DEF Blocks
      <4>2. CASE c \in Blocks(parent)
        <5>1. PICK k \in DOMAIN parent : c = Block(parent, Root(parent, k))
          BY <4>2 DEF Blocks
        <5>2. k \in DOMAIN new /\ c = Block(new, Root(new, k))
          BY <2>2, <2>5, <5>1
        <5>3. QED BY <5>2 DEF Blocks
      <4>3. QED BY <4>1, <4>2
    <3>3. QED BY <3>1, <3>2
  <2>7. x \notin UNION Blocks(parent)
    BY <1>3, BlocksPartition
  <2>8. QED BY <2>2, <2>6, <2>7 DEF Add
<1>4. QED BY <1>2, <1>3

Merge(blocks, x, y) ==
  LET merged == {c \in blocks : x \in c \/ y \in c}
  IN  (blocks \ merged) \cup {UNION merged}

(* Two keys of one block: nothing to merge. *)
LEMMA MergeOfOne ==
  ASSUME NEW parent, NEW x \in DOMAIN parent, NEW y \in DOMAIN parent,
         Root(parent, x) = Root(parent, y)
  PROVE  Merge(Blocks(parent), x, y) = Blocks(parent)
<1> DEFINE c == Block(parent, Root(parent, x))
<1>1. c \in Blocks(parent) /\ {d \in Blocks(parent) : x \in d \/ y \in d} = {c}
  <2>1. /\ c \in Blocks(parent) /\ x \in c /\ y \in c
        /\ \A d \in Blocks(parent) : x \in d \/ y \in d => d = c
    BY BlocksPartition
  <2> HIDE DEF c
  <2>2. QED BY <2>1
<1> HIDE DEF c
<1>2. UNION {c} = c /\ (Blocks(parent) \ {c}) \cup {c} = Blocks(parent)
  BY <1>1
<1>3. QED BY <1>1, <1>2 DEF Merge

LEMMA HangingMerges ==
  ASSUME NEW parent, NEW new, NEW lose, NEW win, DOMAIN new = DOMAIN parent,
         NEW x \in DOMAIN parent, NEW y \in DOMAIN parent,
         {Root(parent, x), Root(parent, y)} = {lose, win}, lose # win,
         Hung(new, parent, lose, win)
  PROVE  Blocks(new) = Merge(Blocks(parent), x, y)
<1> DEFINE cx == Block(parent, lose)
           cy == Block(parent, win)
           rest == {c \in Blocks(parent) : x \notin c /\ y \notin c}
<1>1. {c \in Blocks(parent) : x \in c \/ y \in c} = {cx, cy}
  <2> DEFINE bx == Block(parent, Root(parent, x))
             by == Block(parent, Root(parent, y))
  <2>1. /\ bx \in Blocks(parent) /\ x \in bx /\ by \in Blocks(parent) /\ y \in by
        /\ \A d \in Blocks(parent) : (x \in d => d = bx) /\ (y \in d => d = by)
    BY BlocksPartition
  <2>2. {bx, by} = {cx, cy}
    OBVIOUS
  <2> HIDE DEF bx, by, cx, cy
  <2>3. QED BY <2>1, <2>2
<1>2. Merge(Blocks(parent), x, y) = rest \cup {cx \cup cy}
  <2>1. Blocks(parent) \ {c \in Blocks(parent) : x \in c \/ y \in c} = rest
    OBVIOUS
  <2>2. UNION {cx, cy} = cx \cup cy
    OBVIOUS
  <2>3. QED BY <1>1, <2>1, <2>2 DEF Merge
<1>3. Block(new, win) = cx \cup cy
  BY DEF Hung, Block
<1>4. \A r : r # lose /\ r # win => Block(new, r) = Block(parent, r)
  BY DEF Hung, Block
<1>5. ASSUME NEW k \in DOMAIN parent
      PROVE  /\ Root(parent, k) \in {lose, win} => Root(new, k) = win
             /\ Root(parent, k) \notin {lose, win} =>
                  /\ Root(new, k) = Root(parent, k)
                  /\ Block(parent, Root(parent, k)) \in rest
                  /\ Block(new, Root(parent, k)) = Block(parent, Root(parent, k))
  <2>1. Root(new, k) = IF Root(parent, k) = lose THEN win ELSE Root(parent, k)
    BY DEF Hung
  <2>2. ASSUME Root(parent, k) \notin {lose, win} PROVE Block(parent, Root(parent, k)) \in rest
    <3>1. Block(parent, Root(parent, k)) \in Blocks(parent)
      BY BlocksPartition
    <3>2. Root(parent, x) # Root(parent, k) /\ Root(parent, y) # Root(parent, k)
      BY <2>2
    <3>3. x \notin Block(parent, Root(parent, k)) /\ y \notin Block(parent, Root(parent, k))
      BY <3>2 DEF Block
    <3>4. QED BY <3>1, <3>3
  <2> HIDE DEF rest
  <2>3. QED BY <1>4, <2>1, <2>2
<1>6. \A c \in rest : \E k \in DOMAIN parent :
        c = Block(parent, Root(parent, k)) /\ Root(parent, k) \notin {lose, win}
  BY DEF Blocks, Block
<1> HIDE DEF cx, cy, rest
<1>7. Blocks(new) \subseteq rest \cup {cx \cup cy}
  <2>1. SUFFICES ASSUME NEW k \in DOMAIN parent
                 PROVE  Block(new, Root(new, k)) \in rest \cup {cx \cup cy}
    BY DEF Blocks
  <2>2. QED BY <1>3, <1>5
<1>8. rest \cup {cx \cup cy} \subseteq Blocks(new)
  <2>1. ASSUME NEW c \in rest PROVE c \in Blocks(new)
    <3>1. PICK k \in DOMAIN parent :
            c = Block(parent, Root(parent, k)) /\ Root(parent, k) \notin {lose, win}
      BY <1>6
    <3>2. c = Block(new, Root(new, k)) /\ k \in DOMAIN new
      BY <1>5, <3>1
    <3>3. QED BY <3>2 DEF Blocks
  <2>2. Root(new, x) = win
    BY <1>5
  <2>3. cx \cup cy \in Blocks(new)
    BY <1>3, <2>2 DEF Blocks
  <2>4. QED BY <2>1, <2>3
<1>9. QED BY <1>2, <1>7, <1>8

-----------------------------------------------------------------------------
(* The powers of two exist: each is the last value of one finite run of the *)
(* recursion.                                                               *)
Doubling(n) == {g \in [0..n -> Nat] : \A i \in 0..n : g[i] = IF i = 0 THEN 1 ELSE 2 * g[i - 1]}

LEMMA DoublingExists == \A n \in Nat : Doubling(n) # {}
<1> DEFINE Bad == {n \in Nat : Doubling(n) = {}}
<1>1. SUFFICES ASSUME Bad # {} PROVE FALSE
  OBVIOUS
<1>2. PICK m \in Bad : \A n \in Bad : m <= n
  BY <1>1, LeastNatural
<1>3. CASE m = 0
  <2>1. [i \in 0..0 |-> 1] \in Doubling(0)
    BY DEF Doubling
  <2>2. QED BY <1>2, <1>3, <2>1
<1>4. CASE m # 0
  <2>1. m - 1 \in Nat /\ m - 1 \notin Bad
    BY <1>2, <1>4
  <2>2. PICK g : g \in Doubling(m - 1)
    BY <2>1
  <2> DEFINE h == [i \in 0..m |-> IF i = m THEN 2 * g[m - 1] ELSE g[i]]
  <2>3. /\ g \in [0..(m - 1) -> Nat]
        /\ \A i \in 0..(m - 1) : g[i] = IF i = 0 THEN 1 ELSE 2 * g[i - 1]
    BY <2>2 DEF Doubling
  <2>4. h \in [0..m -> Nat]
    <3>1. ASSUME NEW i \in 0..m PROVE h[i] \in Nat
      <4>1. i = m \/ i \in 0..(m - 1)
        BY <1>2
      <4>2. m - 1 \in 0..(m - 1)
        BY <2>1
      <4>3. QED BY <2>3, <4>1, <4>2
    <3>2. QED BY <3>1
  <2>5. ASSUME NEW i \in 0..m PROVE h[i] = IF i = 0 THEN 1 ELSE 2 * h[i - 1]
    <3>1. CASE i = m
      BY <1>4, <2>1, <3>1
    <3>2. CASE i # m
      <4>1. i \in 0..(m - 1) /\ (i # 0 => i - 1 \in 0..m /\ i - 1 # m)
        BY <1>2, <3>2
      <4>2. QED BY <2>3, <3>2, <4>1
    <3>3. QED BY <3>1, <3>2
  <2> HIDE DEF h
  <2>6. h \in Doubling(m)
    BY <2>4, <2>5 DEF Doubling
  <2>7. QED BY <1>2, <2>6
<1>5. QED BY <1>3, <1>4

LEMMA DoublingAgrees ==
  \A n, m \in Nat : \A g \in Doubling(n), h \in Doubling(m) :
    \A i \in Nat : i <= n /\ i <= m => g[i] = h[i]
<1> SUFFICES ASSUME NEW n \in Nat, NEW m \in Nat, NEW g \in Doubling(n), NEW h \in Doubling(m)
             PROVE  \A i \in Nat : i <= n /\ i <= m => g[i] = h[i]
  OBVIOUS
<1> DEFINE Bad == {i \in Nat : i <= n /\ i <= m /\ g[i] # h[i]}
<1>1. SUFFICES ASSUME Bad # {} PROVE FALSE
  OBVIOUS
<1>2. PICK i \in Bad : \A j \in Bad : i <= j
  BY <1>1, LeastNatural
<1>3. /\ g[i] = IF i = 0 THEN 1 ELSE 2 * g[i - 1]
      /\ h[i] = IF i = 0 THEN 1 ELSE 2 * h[i - 1]
  <2>1. i \in 0..n /\ i \in 0..m
    BY <1>2
  <2>2. QED BY <2>1 DEF Doubling
<1>4. CASE i = 0
  BY <1>2, <1>3, <1>4
<1>5. CASE i # 0
  <2>1. i - 1 \in Nat /\ i - 1 <= n /\ i - 1 <= m /\ i - 1 \notin Bad
    BY <1>2, <1>5
  <2>2. g[i - 1] = h[i - 1]
    BY <2>1
  <2>3. QED BY <1>2, <1>3, <1>5, <2>2
<1>6. QED BY <1>4, <1>5

LEMMA PowersOfTwo ==
  /\ PowerOfTwo[0] = 1
  /\ \A n \in Nat : PowerOfTwo[n] \in Nat /\ PowerOfTwo[n + 1] = 2 * PowerOfTwo[n]
<1> DEFINE Run(n) == CHOOSE g : g \in Doubling(n)
           f == [n \in Nat |-> Run(n)[n]]
<1>1. ASSUME NEW n \in Nat PROVE Run(n) \in Doubling(n)
  BY DoublingExists
<1> HIDE DEF Run
<1>2. ASSUME NEW n \in Nat
      PROVE  f[n] \in Nat /\ f[n] = IF n = 0 THEN 1 ELSE 2 * f[n - 1]
  <2>1. /\ Run(n) \in [0..n -> Nat] /\ n \in 0..n
        /\ Run(n)[n] = IF n = 0 THEN 1 ELSE 2 * Run(n)[n - 1]
    BY <1>1 DEF Doubling
  <2>2. n # 0 => n - 1 \in Nat /\ Run(n)[n - 1] = Run(n - 1)[n - 1]
    <3>1. SUFFICES ASSUME n # 0 PROVE n - 1 \in Nat /\ Run(n)[n - 1] = Run(n - 1)[n - 1]
      OBVIOUS
    <3>2. n - 1 \in Nat /\ n - 1 <= n /\ n - 1 <= n - 1
      BY <3>1
    <3>3. Run(n - 1) \in Doubling(n - 1)
      BY <1>1, <3>2
    <3>4. QED BY <1>1, <3>2, <3>3, DoublingAgrees
  <2>3. QED BY <2>1, <2>2
<1>3. f = [n \in Nat |-> IF n = 0 THEN 1 ELSE 2 * f[n - 1]]
  <2>1. f = [n \in Nat |-> f[n]]
    OBVIOUS
  <2> HIDE DEF f
  <2>2. QED BY <1>2, <2>1
<1> HIDE DEF f
<1>4. PowerOfTwo = [n \in Nat |-> IF n = 0 THEN 1 ELSE 2 * PowerOfTwo[n - 1]]
  BY <1>3 DEF PowerOfTwo
<1>5. \A n \in Nat : PowerOfTwo[n] = IF n = 0 THEN 1 ELSE 2 * PowerOfTwo[n - 1]
  BY <1>4
<1>6. \A n \in Nat : PowerOfTwo[n] = f[n]
  <2> DEFINE Bad == {n \in Nat : PowerOfTwo[n] # f[n]}
  <2>1. SUFFICES ASSUME Bad # {} PROVE FALSE
    OBVIOUS
  <2>2. PICK m \in Bad : \A n \in Bad : m <= n
    BY <2>1, LeastNatural
  <2>3. CASE m = 0
    BY <1>2, <1>5, <2>2, <2>3
  <2>4. CASE m # 0
    <3>1. m - 1 \in Nat /\ m - 1 \notin Bad
      BY <2>2, <2>4
    <3>2. QED BY <1>2, <1>5, <2>2, <2>4, <3>1
  <2>5. QED BY <2>3, <2>4
<1>7. ASSUME NEW n \in Nat PROVE PowerOfTwo[n] \in Nat /\ PowerOfTwo[n + 1] = 2 * PowerOfTwo[n]
  <2>1. n + 1 \in Nat /\ n + 1 # 0 /\ (n + 1) - 1 = n
    OBVIOUS
  <2>2. QED BY <1>2, <1>5, <1>6, <2>1
<1>8. QED BY <1>5, <1>7

-----------------------------------------------------------------------------
(* A root of rank r has 2^r keys. *)
Sized(parent, rank) ==
  \A r \in DOMAIN parent : parent[r] = r => PowerOfTwo[rank[r]] <= Cardinality(Block(parent, r))

LEMMA BlocksAreFinite ==
  ASSUME NEW parent, IsFiniteSet(DOMAIN parent), NEW r
  PROVE  IsFiniteSet(Block(parent, r)) /\ Cardinality(Block(parent, r)) \in Nat
<1>1. Block(parent, r) \subseteq DOMAIN parent
  BY DEF Block
<1>2. IsFiniteSet(Block(parent, r))
  BY <1>1, FS_Subset
<1>3. QED BY <1>2, FS_CardinalityType

LEMMA CompressKeepsSizes ==
  ASSUME NEW parent, NEW rank, IsForest(parent, rank), Sized(parent, rank), NEW x \in DOMAIN parent
  PROVE  Sized(Compress(parent, x), rank)
<1>1. PICK new : new = Compress(parent, x)
  OBVIOUS
<1>2. /\ IsForest(new, rank) /\ DOMAIN new = DOMAIN parent
      /\ \A k \in DOMAIN parent : Root(new, k) = Root(parent, k)
  BY <1>1, CompressKeeps
<1>3. ASSUME NEW r \in DOMAIN new, new[r] = r
      PROVE  PowerOfTwo[rank[r]] <= Cardinality(Block(new, r))
  <2>1. r \in DOMAIN parent /\ parent[r] = r
    BY <1>2, <1>3, RootIsEnd
  <2>2. Block(new, r) = Block(parent, r)
    BY <1>2 DEF Block
  <2>3. QED BY <2>1, <2>2 DEF Sized
<1>4. Sized(new, rank)
  BY <1>3 DEF Sized
<1>5. QED BY <1>1, <1>4

LEMMA InsertKeepsSizes ==
  ASSUME NEW parent, NEW rank, IsForest(parent, rank), Sized(parent, rank), NEW x, x \notin DOMAIN parent,
         NEW new, NEW newRank, Inserted(new, newRank, parent, rank, x)
  PROVE  Sized(new, newRank)
<1>1. /\ DOMAIN new = DOMAIN parent \cup {x} /\ Root(new, x) = x /\ newRank[x] = 0
      /\ \A k \in DOMAIN parent :
           Root(new, k) = Root(parent, k) /\ new[k] = parent[k] /\ newRank[k] = rank[k]
  BY DEF Inserted
<1>2. \A k \in DOMAIN parent : Root(parent, k) \in DOMAIN parent
  BY RootIsEnd
<1>3. Block(new, x) = {x}
  BY <1>1, <1>2 DEF Block
<1>4. Cardinality(Block(new, x)) = 1 /\ PowerOfTwo[newRank[x]] = 1
  BY <1>1, <1>3, FS_Singleton, PowersOfTwo
<1>5. ASSUME NEW r \in DOMAIN parent, new[r] = r
      PROVE  PowerOfTwo[newRank[r]] <= Cardinality(Block(new, r))
  <2>1. parent[r] = r /\ newRank[r] = rank[r]
    BY <1>1, <1>5
  <2>2. Block(new, r) = Block(parent, r)
    BY <1>1 DEF Block
  <2>3. QED BY <2>1, <2>2 DEF Sized
<1>6. QED BY <1>1, <1>4, <1>5 DEF Sized

LEMMA FindKeepsSizes ==
  ASSUME NEW parent, NEW rank, IsForest(parent, rank), Sized(parent, rank), NEW x
  PROVE  Sized(ParentAfterFind(parent, x), RankAfterFind(rank, x))
<1>1. DOMAIN rank = DOMAIN parent
  BY DEF IsForest
<1>2. CASE x \in DOMAIN parent
  <2>1. ParentAfterFind(parent, x) = Compress(parent, x) /\ RankAfterFind(rank, x) = rank
    BY <1>1, <1>2 DEF ParentAfterFind, RankAfterFind
  <2>2. QED BY <1>2, <2>1, CompressKeepsSizes
<1>3. CASE x \notin DOMAIN parent
  <2>1. ParentAfterFind(parent, x) = Insert(parent, x, x) /\ RankAfterFind(rank, x) = Insert(rank, x, 0)
    BY <1>1, <1>3 DEF ParentAfterFind, RankAfterFind
  <2>2. Inserted(Insert(parent, x, x), Insert(rank, x, 0), parent, rank, x)
    BY <1>3, InsertKeeps
  <2>3. QED BY <1>3, <2>1, <2>2, InsertKeepsSizes
<1>4. QED BY <1>2, <1>3

(* Linking adds the loser's keys to the winner's: where both ranks are      *)
(* equal, that pays for the winner's new rank.                              *)
LEMMA HangingKeepsSizes ==
  ASSUME NEW parent, NEW rank, IsForest(parent, rank), Sized(parent, rank),
         NEW lose, NEW win, NEW new, NEW newRank,
         Hangs(new, newRank, parent, rank, lose, win)
  PROVE  Sized(new, newRank)
<1>0. /\ IsForest(new, newRank) /\ DOMAIN new = DOMAIN parent /\ Hung(new, parent, lose, win)
      /\ lose \in DOMAIN parent /\ win \in DOMAIN parent /\ lose # win
      /\ parent[lose] = lose /\ parent[win] = win
      /\ \A k \in DOMAIN parent : k # win => newRank[k] = rank[k]
      /\ newRank[win] = rank[win] \/ (newRank[win] = rank[win] + 1 /\ rank[lose] = rank[win])
  BY HangKeeps DEF Hangs
<1> DEFINE L == Block(parent, lose)
           W == Block(parent, win)
<1>1. IsFiniteSet(DOMAIN parent) /\ rank \in [DOMAIN parent -> Nat]
  BY DEF IsForest
<1>2. /\ IsFiniteSet(L) /\ Cardinality(L) \in Nat
      /\ IsFiniteSet(W) /\ Cardinality(W) \in Nat
  BY <1>1, BlocksAreFinite
<1>3. PowerOfTwo[rank[lose]] <= Cardinality(L) /\ PowerOfTwo[rank[win]] <= Cardinality(W)
  BY <1>0 DEF Sized
<1>4. Block(new, win) = L \cup W /\ L \cap W = {}
  BY <1>0 DEF Hung, Block
<1>5. Cardinality(L \cup W) = Cardinality(L) + Cardinality(W)
  <2> HIDE DEF L, W
  <2>1. Cardinality(L \cup W) = Cardinality(L) + Cardinality(W) - Cardinality({})
    BY <1>2, <1>4, FS_Union
  <2>2. QED BY <1>2, <2>1, FS_EmptySet
<1>6. rank[win] \in Nat /\ rank[lose] \in Nat
  BY <1>0, <1>1
<1>7. PowerOfTwo[newRank[win]] <= Cardinality(Block(new, win))
  <2>1. PowerOfTwo[rank[win]] \in Nat /\ PowerOfTwo[rank[win] + 1] = 2 * PowerOfTwo[rank[win]]
    BY <1>6, PowersOfTwo
  <2> HIDE DEF L, W
  <2>2. CASE newRank[win] = rank[win]
    BY <1>2, <1>3, <1>4, <1>5, <2>1, <2>2
  <2>3. CASE newRank[win] = rank[win] + 1 /\ rank[lose] = rank[win]
    <3>1. PowerOfTwo[newRank[win]] = 2 * PowerOfTwo[rank[win]] /\ PowerOfTwo[rank[win]] <= Cardinality(L)
      BY <1>3, <2>1, <2>3
    <3>2. QED BY <1>2, <1>3, <1>4, <1>5, <2>1, <3>1
  <2>4. QED BY <1>0, <2>2, <2>3
<1>8. ASSUME NEW r \in DOMAIN parent, new[r] = r, r # win
      PROVE  PowerOfTwo[newRank[r]] <= Cardinality(Block(new, r))
  <2>1. Root(new, r) = r
    BY <1>0, <1>8, RootIsEnd
  <2>2. Root(parent, r) = r /\ r # lose
    BY <1>0, <1>8, <2>1 DEF Hung
  <2>3. parent[r] = r
    BY <1>8, <2>2, RootIsEnd
  <2>4. Block(new, r) = Block(parent, r)
    BY <1>0, <1>8, <2>2 DEF Hung, Block
  <2>5. QED BY <1>0, <1>8, <2>3, <2>4 DEF Sized
<1>9. QED BY <1>0, <1>7, <1>8 DEF Sized

DSUInv == IsForest(parent_, rank_) /\ Sized(parent_, rank_)

(* Both keys are found before their roots are linked. *)
LEMMA LinkKeeps ==
  ASSUME NEW parent, NEW rank, IsForest(parent, rank), Sized(parent, rank),
         NEW x \in DOMAIN parent, NEW y \in DOMAIN parent,
         NEW rx, rx = Root(parent, x), NEW ry, ry = Root(parent, y), rx # ry,
         Link(parent, rank, rx, ry)
  PROVE  DSUInv' /\ Blocks(parent_') = Merge(Blocks(parent), x, y)
<1>1. /\ rx \in DOMAIN parent /\ parent[rx] = rx
      /\ ry \in DOMAIN parent /\ parent[ry] = ry
      /\ rank \in [DOMAIN parent -> Nat]
  BY RootIsEnd DEF IsForest
<1>2. \E lose, win \in {rx, ry} : lose # win /\ Hangs(parent_', rank_', parent, rank, lose, win)
  <2>1. rank[rx] \in Nat /\ rank[ry] \in Nat /\ parent \in [DOMAIN parent -> DOMAIN parent]
    BY <1>1 DEF IsForest
  <2>2. CASE rank[rx] < rank[ry]
    <3>1. parent_' = [parent EXCEPT ![rx] = ry] /\ rank_' = rank
      BY <2>2 DEF Link
    <3>2. Hangs(parent_', rank_', parent, rank, rx, ry)
      BY <1>1, <2>1, <2>2, <3>1 DEF Hangs
    <3>3. QED BY <3>2
  <2>3. CASE rank[rx] > rank[ry]
    <3>1. parent_' = [parent EXCEPT ![ry] = rx] /\ rank_' = rank
      BY <2>1, <2>3 DEF Link
    <3>2. Hangs(parent_', rank_', parent, rank, ry, rx)
      BY <1>1, <2>1, <2>3, <3>1 DEF Hangs
    <3>3. QED BY <3>2
  <2>4. CASE rank[rx] = rank[ry]
    <3>1. parent_' = [parent EXCEPT ![ry] = rx] /\ rank_' = [rank EXCEPT ![rx] = rank[rx] + 1]
      BY <2>1, <2>4 DEF Link
    <3>2. /\ rank_' \in [DOMAIN parent -> Nat] /\ rank_'[rx] = rank[rx] + 1
          /\ \A k \in DOMAIN parent : k # rx => rank_'[k] = rank[k]
      BY <1>1, <2>1, <3>1
    <3>3. /\ parent_' \in [DOMAIN parent -> DOMAIN parent] /\ parent_'[ry] = rx
          /\ \A k \in DOMAIN parent : k # ry => parent_'[k] = parent[k]
      BY <1>1, <2>1, <3>1
    <3>4. rank[ry] < rank_'[rx]
      BY <2>1, <2>4, <3>2
    <3>5. Hangs(parent_', rank_', parent, rank, ry, rx)
      BY <1>1, <2>4, <3>2, <3>3, <3>4 DEF Hangs
    <3>6. QED BY <3>5
  <2>5. QED BY <2>1, <2>2, <2>3, <2>4
<1>3. PICK lose, win \in {rx, ry} : lose # win /\ Hangs(parent_', rank_', parent, rank, lose, win)
  BY <1>2
<1>4. IsForest(parent_', rank_') /\ DOMAIN parent_' = DOMAIN parent /\ Hung(parent_', parent, lose, win)
  BY <1>3, HangKeeps
<1>5. Sized(parent_', rank_')
  BY <1>3, HangingKeepsSizes
<1>6. Blocks(parent_') = Merge(Blocks(parent), x, y)
  BY <1>3, <1>4, HangingMerges
<1>7. QED BY <1>4, <1>5, <1>6 DEF DSUInv

-----------------------------------------------------------------------------
(* The two operations, as steps. *)
LEMMA FindStep ==
  ASSUME DSUInv, NEW x, Find(x)
  PROVE  DSUInv' /\ Blocks(parent_') = Add(Blocks(parent_), x)
<1>1. IsForest(parent_, rank_) /\ Sized(parent_, rank_)
  BY DEF DSUInv
<1>2. parent_' = ParentAfterFind(parent_, x) /\ rank_' = RankAfterFind(rank_, x)
  BY DEF Find
<1>3. IsForest(parent_', rank_') /\ Blocks(parent_') = Add(Blocks(parent_), x)
  BY <1>1, <1>2, FindKeeps
<1>4. Sized(parent_', rank_')
  BY <1>1, <1>2, FindKeepsSizes
<1>5. QED BY <1>3, <1>4 DEF DSUInv

LEMMA UnionStep ==
  ASSUME DSUInv, NEW x, NEW y, Union(x, y)
  PROVE  DSUInv' /\ Blocks(parent_') = Merge(Add(Add(Blocks(parent_), x), y), x, y)
<1>1. IsForest(parent_, rank_) /\ Sized(parent_, rank_)
  BY DEF DSUInv
<1>2. PICK p1, r1 : p1 = ParentAfterFind(parent_, x) /\ r1 = RankAfterFind(rank_, x)
  OBVIOUS
<1>3. PICK p2, r2 : p2 = ParentAfterFind(p1, y) /\ r2 = RankAfterFind(r1, y)
  OBVIOUS
<1>4. /\ IsForest(p1, r1) /\ Sized(p1, r1) /\ DOMAIN p1 = DOMAIN parent_ \cup {x}
      /\ Blocks(p1) = Add(Blocks(parent_), x)
  BY <1>1, <1>2, FindKeeps, FindKeepsSizes
<1>5. /\ IsForest(p2, r2) /\ Sized(p2, r2) /\ DOMAIN p2 = DOMAIN p1 \cup {y}
      /\ Blocks(p2) = Add(Blocks(p1), y)
  BY <1>3, <1>4, FindKeeps, FindKeepsSizes
<1>6. x \in DOMAIN p2 /\ y \in DOMAIN p2
  BY <1>4, <1>5
<1>7. IF Root(p2, x) = Root(p2, y)
        THEN parent_' = p2 /\ rank_' = r2
        ELSE Link(p2, r2, Root(p2, x), Root(p2, y))
  BY <1>2, <1>3 DEF Union
<1>8. CASE Root(p2, x) = Root(p2, y)
  <2>1. parent_' = p2 /\ rank_' = r2
    BY <1>7, <1>8
  <2>2. Merge(Blocks(p2), x, y) = Blocks(p2)
    BY <1>6, <1>8, MergeOfOne
  <2>3. QED BY <1>4, <1>5, <2>1, <2>2 DEF DSUInv
<1>9. CASE Root(p2, x) # Root(p2, y)
  <2>1. Link(p2, r2, Root(p2, x), Root(p2, y))
    BY <1>7, <1>9
  <2>2. DSUInv' /\ Blocks(parent_') = Merge(Blocks(p2), x, y)
    BY <1>5, <1>6, <1>9, <2>1, LinkKeeps
  <2>3. QED BY <1>4, <1>5, <2>2
<1>10. QED BY <1>8, <1>9

LEMMA DSUStart == DSUInit => DSUInv /\ Classes = {}
<1> SUFFICES ASSUME DSUInit PROVE DSUInv /\ Classes = {}
  OBVIOUS
<1>1. parent_ = [k \in {} |-> 0] /\ rank_ = [k \in {} |-> 0] /\ DOMAIN parent_ = {} /\ DOMAIN rank_ = {}
  BY DEF DSUInit, EmptyMap
<1>2. IsForest(parent_, rank_)
  <2>1. parent_ \in [{} -> {}] /\ rank_ \in [{} -> Nat]
    BY <1>1
  <2>2. IsFiniteSet({}) /\ 0 \in Nat
    BY FS_EmptySet
  <2>3. QED BY <1>1, <2>1, <2>2 DEF IsForest
<1>3. Sized(parent_, rank_)
  BY <1>1 DEF Sized
<1>4. Classes = {}
  BY <1>1 DEF Classes, Roots
<1>5. QED BY <1>2, <1>3, <1>4 DEF DSUInv

LEMMA DSUStep == DSUInv /\ [DSUNext]_dsuVars => DSUInv'
<1> SUFFICES ASSUME DSUInv, [DSUNext]_dsuVars PROVE DSUInv'
  OBVIOUS
<1>1. ASSUME NEW x \in Keys, Find(x) PROVE DSUInv'
  BY <1>1, FindStep
<1>2. ASSUME NEW x \in Keys, NEW y \in Keys, Union(x, y) PROVE DSUInv'
  BY <1>2, UnionStep
<1>3. CASE UNCHANGED dsuVars
  BY <1>3 DEF dsuVars, DSUInv
<1>4. QED BY <1>1, <1>2, <1>3 DEF DSUNext

LEMMA DSUInvariant == DSUSpec => []DSUInv
BY DSUStart, DSUStep, PTL DEF DSUSpec

(* Find climbs to keys of ever higher rank, so its recursion ends, and a    *)
(* root of rank r has 2^r keys below it, so it is at most logarithmically   *)
(* deep: after any sequence of Find and Union on any set of keys, whatever  *)
(* paths were compressed in between.                                        *)
THEOREM RanksAlwaysBoundFind == DSUSpec => []RanksBoundFind
<1>1. DSUInv => RanksBoundFind
  <2> SUFFICES ASSUME DSUInv PROVE RanksBoundFind
    OBVIOUS
  <2>1. \A k \in DOMAIN parent_ : parent_[k] # k => rank_[k] < rank_[parent_[k]]
    BY DEF DSUInv, IsForest
  <2>2. \A r \in Roots : PowerOfTwo[rank_[r]] <= Cardinality(Class(r))
    BY DEF DSUInv, Sized, Roots, Block, Class
  <2>3. QED BY <2>1, <2>2 DEF RanksBoundFind
<1>2. QED BY <1>1, DSUInvariant, PTL

LEMMA NextClassesAreBlocks == DSUInv' => Classes' = Blocks(parent_')
<1>1. (IsForest(parent_, rank_) => Classes = Blocks(parent_))'
  BY ClassesAreBlocks, PTL
<1>2. QED BY <1>1 DEF DSUInv

(* The forest is the partition a disjoint-set union promises: Find adds a   *)
(* new key alone and changes nothing else, compression included, and Union  *)
(* merges the two classes of its keys and no others.                        *)
THEOREM ForestImplementsPartition == DSUSpec => ImplementsPartition
<1>1. DSUInit => P!Init
  BY DSUStart DEF P!Init
<1>2. ASSUME DSUInv, DSUInv', [DSUNext]_dsuVars PROVE [P!Next(Keys)]_dsuVars
  <2>1. Classes = Blocks(parent_) /\ Classes' = Blocks(parent_')
    BY <1>2, ClassesAreBlocks, NextClassesAreBlocks DEF DSUInv
  <2>2. ASSUME NEW x \in Keys, Find(x) PROVE P!Find(x)
    <3>1. Classes' = Add(Classes, x)
      BY <1>2, <2>1, <2>2, FindStep
    <3>2. QED BY <3>1 DEF Add, P!Find, P!With, P!Seen
  <2>3. ASSUME NEW x \in Keys, NEW y \in Keys, Union(x, y) PROVE P!Union(x, y)
    <3>1. Classes' = Merge(Add(Add(Classes, x), y), x, y)
      BY <1>2, <2>1, <2>3, UnionStep
    <3>2. UNION Add(Classes, x) = (UNION Classes) \cup {x}
      BY AddCovers
    <3>3. Add(Add(Classes, x), y)
            = P!With(x) \cup (IF y \in P!Seen \cup {x} THEN {} ELSE {{y}})
      BY <3>2 DEF Add, P!With, P!Seen
    <3>4. QED BY <3>1, <3>3 DEF Merge, P!Union
  <2>4. CASE UNCHANGED dsuVars
    BY <2>4
  <2>5. QED BY <1>2, <2>2, <2>3, <2>4 DEF DSUNext, P!Next
<1>3. QED BY DSUInvariant, <1>1, <1>2, PTL DEF DSUSpec, ImplementsPartition

-----------------------------------------------------------------------------
(* The grouper.                                                             *)
Found(i) == Range(HeightOne(nodes[i]))

Key(i) == hash[RootText(i)]

(* Where the two loops are. *)
Progress ==
  /\ phase \in {"idle", "unite", "collect", "grouped"}
  /\ phase = "idle" => at = 1 /\ parent_ = EmptyMap
  /\ phase \in {"idle", "unite"} => groups = EmptyMap
  /\ phase # "idle" => nodes \in Asts /\ hash \in Hashes
  /\ phase \in {"unite", "collect"} => at \in DOMAIN nodes
  /\ phase = "unite" => todo \in Seq(Texts) /\ Range(todo) \subseteq Found(at)

SameBlock(x, y, blocks) == \E c \in blocks : x \in c /\ y \in c

(* What the first loop has passed is united... *)
Passed(i, t) == ~ (phase = "unite" /\ (i > at \/ (i = at /\ t \in Range(todo))))

PassedIsUnited ==
  phase # "idle" => \A i \in DOMAIN nodes : \A t \in Found(i) : Passed(i, t) => SameBlock(Key(i), hash[t], Blocks(parent_))

(* ... and nothing is but what it has to pass: a set of keys that splits no *)
(* pair to be united splits no block.                                       *)
SplitsNoPair(S) == \A i \in DOMAIN nodes : \A t \in Found(i) : Key(i) \in S <=> hash[t] \in S

SplitsNoBlock(S, blocks) == \A c \in blocks : c \subseteq S \/ c \cap S = {}

NothingElseIsUnited ==
  phase # "idle" => \A S \in SUBSET Keys : SplitsNoPair(S) => SplitsNoBlock(S, Blocks(parent_))

(* The pipelines the second loop has put into a group. *)
Collected ==
  CASE phase = "collect" -> 1..(at - 1)
    [] phase = "grouped" -> DOMAIN nodes
    [] OTHER -> {}

Rises(s) == \A k, l \in DOMAIN s : k < l => s[k] < s[l]

(* Each is in the group its root identifies, and no group holds another. *)
GroupsAreBlocks ==
  /\ \A i \in Collected :
       /\ Key(i) \in DOMAIN parent_
       /\ Root(parent_, Key(i)) \in DOMAIN groups
       /\ i \in Range(groups[Root(parent_, Key(i))])
  /\ \A id \in DOMAIN groups :
       /\ groups[id] \in Seq(Collected) /\ Rises(groups[id])
       /\ \A i \in Range(groups[id]) : Root(parent_, Key(i)) = id

(* The inductive invariant.  The properties speak of the last state only;   *)
(* that the second loop puts a pipeline where its key belongs needs that    *)
(* every Find of it leaves the roots where they are, and that the first     *)
(* loop united all and only what it passed.                                 *)
GrouperInv ==
  /\ DSUInv
  /\ Progress
  /\ PassedIsUnited
  /\ NothingElseIsUnited
  /\ GroupsAreBlocks

-----------------------------------------------------------------------------
(* Blocks only ever grow, and by what is united. *)
LEMMA AddedBlocks ==
  ASSUME NEW blocks, NEW x
  PROVE  /\ \A c \in blocks : c \in Add(blocks, x)
         /\ \E c \in Add(blocks, x) : x \in c
         /\ \A S : SplitsNoBlock(S, blocks) => SplitsNoBlock(S, Add(blocks, x))
<1>1. CASE x \in UNION blocks
  BY <1>1 DEF Add
<1>2. CASE x \notin UNION blocks
  BY <1>2 DEF Add, SplitsNoBlock
<1>3. QED BY <1>1, <1>2

LEMMA MergedBlocks ==
  ASSUME NEW blocks, NEW x, NEW y, \E c \in blocks : x \in c, \E c \in blocks : y \in c
  PROVE  /\ \A c \in blocks : \E d \in Merge(blocks, x, y) : c \subseteq d
         /\ \E d \in Merge(blocks, x, y) : x \in d /\ y \in d
         /\ \A S : SplitsNoBlock(S, blocks) /\ (x \in S <=> y \in S)
                     => SplitsNoBlock(S, Merge(blocks, x, y))
<1> DEFINE merged == {c \in blocks : x \in c \/ y \in c}
<1>1. /\ UNION merged \in Merge(blocks, x, y)
      /\ \A d : d \in Merge(blocks, x, y) <=> (d \in blocks /\ d \notin merged) \/ d = UNION merged
  BY DEF Merge
<1>2. \A c \in merged : c \subseteq UNION merged
  OBVIOUS
<1>3. x \in UNION merged /\ y \in UNION merged
  OBVIOUS
<1>4. ASSUME NEW S, SplitsNoBlock(S, blocks), x \in S <=> y \in S
      PROVE  UNION merged \subseteq S \/ (UNION merged) \cap S = {}
  <2>1. CASE x \in S
    <3>1. \A c \in merged : c \subseteq S
      BY <1>4, <2>1 DEF SplitsNoBlock
    <3>2. QED BY <3>1
  <2>2. CASE x \notin S
    <3>1. \A c \in merged : c \cap S = {}
      BY <1>4, <2>2 DEF SplitsNoBlock
    <3>2. QED BY <3>1
  <2>3. QED BY <2>1, <2>2
<1>5. ASSUME NEW S, SplitsNoBlock(S, blocks), x \in S <=> y \in S
      PROVE  SplitsNoBlock(S, Merge(blocks, x, y))
  BY <1>1, <1>4, <1>5 DEF SplitsNoBlock
<1> HIDE DEF merged
<1>6. \A c \in blocks : c \in merged \/ c \in Merge(blocks, x, y)
  BY <1>1
<1>7. \A c \in blocks : \E d \in Merge(blocks, x, y) : c \subseteq d
  BY <1>1, <1>2, <1>6
<1>8. QED BY <1>1, <1>3, <1>5, <1>7

(* What a step of either loop does to the blocks: keys stay together, x and *)
(* y come together, and a set is split only if it split them.               *)
Grow(blocks, grown, x, y) ==
  /\ \A a, b : SameBlock(a, b, blocks) => SameBlock(a, b, grown)
  /\ SameBlock(x, y, grown)
  /\ \A S : SplitsNoBlock(S, blocks) /\ (x \in S <=> y \in S) => SplitsNoBlock(S, grown)

LEMMA AddGrows ==
  ASSUME NEW blocks, NEW x
  PROVE  Grow(blocks, Add(blocks, x), x, x)
BY AddedBlocks DEF Grow, SameBlock

LEMMA MergeGrows ==
  ASSUME NEW blocks, NEW x, NEW y
  PROVE  Grow(blocks, Merge(Add(Add(blocks, x), y), x, y), x, y)
<1> DEFINE all == Add(Add(blocks, x), y)
<1>1. /\ \A c \in blocks : c \in all
      /\ \E c \in all : x \in c
      /\ \E c \in all : y \in c
      /\ \A S : SplitsNoBlock(S, blocks) => SplitsNoBlock(S, all)
  <2>1. /\ \A c \in blocks : c \in Add(blocks, x)
        /\ \E c \in Add(blocks, x) : x \in c
        /\ \A S : SplitsNoBlock(S, blocks) => SplitsNoBlock(S, Add(blocks, x))
    BY AddedBlocks
  <2> DEFINE more == Add(blocks, x)
  <2> HIDE DEF more
  <2>2. /\ \A c \in more : c \in Add(more, y)
        /\ \E c \in Add(more, y) : y \in c
        /\ \A S : SplitsNoBlock(S, more) => SplitsNoBlock(S, Add(more, y))
    BY AddedBlocks
  <2>3. QED BY <2>1, <2>2 DEF more
<1> HIDE DEF all
<1>2. /\ \A c \in all : \E d \in Merge(all, x, y) : c \subseteq d
      /\ \E d \in Merge(all, x, y) : x \in d /\ y \in d
      /\ \A S : SplitsNoBlock(S, all) /\ (x \in S <=> y \in S) => SplitsNoBlock(S, Merge(all, x, y))
  BY <1>1, MergedBlocks
<1>3. Grow(blocks, Merge(all, x, y), x, y)
  <2> DEFINE grown == Merge(all, x, y)
  <2> HIDE DEF grown
  <2>1. \A a, b : SameBlock(a, b, blocks) => SameBlock(a, b, grown)
    BY <1>1, <1>2 DEF SameBlock, grown
  <2>2. QED BY <1>1, <1>2, <2>1 DEF Grow, SameBlock, grown
<1>4. QED BY <1>3 DEF all

LEMMA FindGrows ==
  ASSUME DSUInv, NEW x, Find(x)
  PROVE  DSUInv' /\ Grow(Blocks(parent_), Blocks(parent_'), x, x)
BY FindStep, AddGrows

LEMMA UnionGrows ==
  ASSUME DSUInv, NEW x, NEW y, Union(x, y)
  PROVE  DSUInv' /\ Grow(Blocks(parent_), Blocks(parent_'), x, y)
BY UnionStep, MergeGrows

(* Find returns the root, and moves no other key's. *)
Asked(new, parent, x) ==
  /\ x \in DOMAIN new
  /\ Root(new, x) = IF x \in DOMAIN parent THEN Root(parent, x) ELSE x
  /\ \A k \in DOMAIN parent : k \in DOMAIN new /\ Root(new, k) = Root(parent, k)

LEMMA FindMovesNoRoot ==
  ASSUME DSUInv, NEW x, Find(x)
  PROVE  Asked(parent_', parent_, x)
<1>1. IsForest(parent_, rank_) /\ DOMAIN rank_ = DOMAIN parent_
  BY DEF DSUInv, IsForest
<1>2. CASE x \in DOMAIN parent_
  <2>1. parent_' = Compress(parent_, x)
    BY <1>2 DEF Find, ParentAfterFind
  <2>2. /\ DOMAIN parent_' = DOMAIN parent_
        /\ \A k \in DOMAIN parent_ : Root(parent_', k) = Root(parent_, k)
    BY <1>1, <1>2, <2>1, CompressKeeps
  <2>3. QED BY <1>2, <2>2 DEF Asked
<1>3. CASE x \notin DOMAIN parent_
  <2>1. parent_' = Insert(parent_, x, x) /\ rank_' = Insert(rank_, x, 0)
    BY <1>1, <1>3 DEF Find, ParentAfterFind, RankAfterFind
  <2>2. Inserted(parent_', rank_', parent_, rank_, x)
    BY <1>1, <1>3, <2>1, InsertKeeps
  <2>3. QED BY <1>3, <2>2 DEF Inserted, Asked
<1>4. QED BY <1>2, <1>3

-----------------------------------------------------------------------------
LEMMA InputsAreTexts ==
  ASSUME Progress, phase # "idle"
  PROVE  /\ Len(nodes) \in Nat /\ DOMAIN nodes = 1..Len(nodes)
         /\ \A i \in DOMAIN nodes :
              /\ Key(i) \in Keys /\ HeightOne(nodes[i]) \in Seq(Texts)
              /\ \A t \in Found(i) : hash[t] \in Keys
<1>1. nodes \in Asts /\ hash \in [Texts -> Keys]
  BY GrouperAssumption DEF Progress
<1>2. /\ Len(nodes) \in Nat /\ DOMAIN nodes = 1..Len(nodes)
      /\ \A i \in DOMAIN nodes : RootText(i) \in Texts /\ HeightOne(nodes[i]) \in Seq(Texts)
  <2>1. nodes \in Seq(Range(nodes))
    BY <1>1, GrouperAssumption
  <2>2. QED BY <1>1, <2>1, GrouperAssumption
<1>3. \A i \in DOMAIN nodes : \A t \in Found(i) : t \in Texts
  BY <1>2 DEF Found, Range
<1>4. QED BY <1>1, <1>2, <1>3 DEF Key

LEMMA UnitePreserves ==
  ASSUME GrouperInv, UniteNext
  PROVE  GrouperInv'
<1> DEFINE t0 == Head(todo)
<1>1. /\ phase = "unite" /\ todo # << >> /\ Union(Key(at), hash[t0]) /\ todo' = Tail(todo)
      /\ nodes' = nodes /\ hash' = hash /\ at' = at /\ groups' = groups /\ phase' = phase
  BY DEF UniteNext, Key
<1>2. /\ DSUInv /\ Progress /\ PassedIsUnited /\ NothingElseIsUnited
  BY DEF GrouperInv
<1>3. DSUInv' /\ Grow(Blocks(parent_), Blocks(parent_'), Key(at), hash[t0])
  BY <1>1, <1>2, UnionGrows
<1>4. /\ todo \in Seq(Texts) /\ Range(todo) \subseteq Found(at) /\ at \in DOMAIN nodes
      /\ groups = EmptyMap
  BY <1>1, <1>2 DEF Progress
<1>5. /\ Tail(todo) \in Seq(Texts) /\ t0 \in Range(todo)
      /\ \A t : t \in Range(Tail(todo)) => t \in Range(todo)
      /\ \A t : t \in Range(todo) => t = t0 \/ t \in Range(Tail(todo))
  <2>1. Len(todo) \in Nat /\ Len(todo) >= 1 /\ DOMAIN todo = 1..Len(todo)
    BY <1>1, <1>4
  <2>2. /\ Tail(todo) \in Seq(Texts) /\ DOMAIN Tail(todo) = 1..(Len(todo) - 1)
        /\ \A i \in 1..(Len(todo) - 1) : Tail(todo)[i] = todo[i + 1]
        /\ t0 = todo[1]
    BY <1>1, <1>4
  <2>3. ASSUME NEW t, t \in Range(Tail(todo)) PROVE t \in Range(todo)
    <3>1. PICK i \in 1..(Len(todo) - 1) : t = todo[i + 1]
      BY <2>2, <2>3 DEF Range
    <3>2. i + 1 \in DOMAIN todo
      BY <2>1
    <3>3. QED BY <3>1, <3>2 DEF Range
  <2>4. ASSUME NEW t, t \in Range(todo) PROVE t = t0 \/ t \in Range(Tail(todo))
    <3>1. PICK i \in 1..Len(todo) : t = todo[i]
      BY <2>1, <2>4 DEF Range
    <3>2. CASE i = 1
      BY <2>2, <3>1, <3>2
    <3>3. CASE i # 1
      <4>1. i - 1 \in DOMAIN Tail(todo) /\ Tail(todo)[i - 1] = todo[(i - 1) + 1] /\ (i - 1) + 1 = i
        BY <2>1, <2>2, <3>3
      <4>2. QED BY <3>1, <4>1 DEF Range
    <3>4. QED BY <3>2, <3>3
  <2>5. t0 \in Range(todo)
    BY <2>1, <2>2 DEF Range
  <2>6. QED BY <2>2, <2>3, <2>4, <2>5
<1> HIDE DEF t0
<1>6. \A i : Found(i)' = Found(i) /\ Key(i)' = Key(i)
  BY <1>1 DEF Found, Key
<1>7. Progress'
  BY <1>1, <1>2, <1>4, <1>5, <1>6 DEF Progress
<1>8. PassedIsUnited'
  <2>1. SUFFICES ASSUME NEW i \in DOMAIN nodes, NEW t \in Found(i), Passed(i, t)'
                 PROVE  SameBlock(Key(i), hash[t], Blocks(parent_'))
    BY <1>1, <1>6 DEF PassedIsUnited
  <2>2. CASE Passed(i, t)
    BY <1>1, <1>2, <1>3, <2>2 DEF PassedIsUnited, Grow
  <2>3. CASE ~ Passed(i, t)
    <3>1. i = at /\ t = t0
      BY <1>1, <1>5, <2>1, <2>3 DEF Passed
    <3>2. QED BY <1>3, <3>1 DEF Grow
  <2>4. QED BY <2>2, <2>3
<1>9. NothingElseIsUnited'
  <2>1. SUFFICES ASSUME NEW S \in SUBSET Keys, SplitsNoPair(S)'
                 PROVE  SplitsNoBlock(S, Blocks(parent_'))
    BY DEF NothingElseIsUnited
  <2>2. SplitsNoPair(S)
    BY <1>1, <1>6, <2>1 DEF SplitsNoPair
  <2>3. SplitsNoBlock(S, Blocks(parent_))
    BY <1>1, <1>2, <2>2 DEF NothingElseIsUnited
  <2>4. Key(at) \in S <=> hash[t0] \in S
    BY <1>4, <1>5, <2>2 DEF SplitsNoPair
  <2>5. QED BY <1>3, <2>3, <2>4 DEF Grow
<1>10. GroupsAreBlocks'
  <2>1. Collected' = {} /\ groups' = EmptyMap
    BY <1>1, <1>4 DEF Collected
  <2>2. QED BY <2>1 DEF GroupsAreBlocks, EmptyMap
<1>11. QED BY <1>3, <1>7, <1>8, <1>9, <1>10 DEF GrouperInv

LEMMA AdvancePreserves ==
  ASSUME GrouperInv, Advance
  PROVE  GrouperInv'
<1>1. /\ phase = "unite" /\ todo = << >>
      /\ nodes' = nodes /\ hash' = hash /\ groups' = groups /\ parent_' = parent_ /\ rank_' = rank_
  BY DEF Advance
<1>2. /\ DSUInv /\ Progress /\ PassedIsUnited /\ NothingElseIsUnited
  BY DEF GrouperInv
<1>3. DSUInv'
  BY <1>1, <1>2 DEF DSUInv
<1>4. /\ Len(nodes) \in Nat /\ DOMAIN nodes = 1..Len(nodes) /\ at \in 1..Len(nodes)
      /\ \A i \in DOMAIN nodes : HeightOne(nodes[i]) \in Seq(Texts)
      /\ groups = EmptyMap /\ nodes \in Asts /\ hash \in Hashes
  BY <1>1, <1>2, InputsAreTexts DEF Progress
<1>5. \A i : Found(i)' = Found(i) /\ Key(i)' = Key(i)
  BY <1>1 DEF Found, Key
<1>6. phase' # "idle" => NothingElseIsUnited'
  BY <1>1, <1>2, <1>5 DEF NothingElseIsUnited, SplitsNoPair
<1>7. ASSUME \A i \in DOMAIN nodes : \A t \in Found(i) : Passed(i, t)' => Passed(i, t)
      PROVE  PassedIsUnited'
  BY <1>1, <1>2, <1>5, <1>7 DEF PassedIsUnited
<1>8. CASE at < Len(nodes)
  <2>1. at' = at + 1 /\ todo' = HeightOne(nodes[at + 1]) /\ phase' = phase
    BY <1>8 DEF Advance
  <2>2. at + 1 \in DOMAIN nodes
    BY <1>4, <1>8
  <2>3. Progress'
    <3>1. at' \in DOMAIN nodes' /\ todo' \in Seq(Texts)
      BY <1>1, <1>4, <2>1, <2>2
    <3>2. Found(at)' = Range(todo')
      BY <1>1, <2>1 DEF Found
    <3>3. QED BY <1>1, <1>4, <2>1, <3>1, <3>2 DEF Progress
  <2>4. ASSUME NEW i \in DOMAIN nodes, NEW t \in Found(i), Passed(i, t)' PROVE Passed(i, t)
    <3>1. ~ (i > at + 1 \/ (i = at + 1 /\ t \in Range(HeightOne(nodes[at + 1]))))
      BY <1>1, <2>1, <2>4 DEF Passed
    <3>2. i # at + 1
      BY <3>1 DEF Found
    <3>3. ~ (i > at)
      BY <1>4, <3>1, <3>2
    <3>4. Range(todo) = {}
      BY <1>1 DEF Range
    <3>5. QED BY <3>3, <3>4 DEF Passed
  <2>5. Collected' = {}
    BY <1>1, <2>1 DEF Collected
  <2>6. GroupsAreBlocks'
    BY <1>1, <1>4, <2>5 DEF GroupsAreBlocks, EmptyMap
  <2>7. QED BY <1>1, <1>3, <1>6, <1>7, <2>1, <2>3, <2>4, <2>6 DEF GrouperInv
<1>9. CASE ~ (at < Len(nodes))
  <2>1. at' = 1 /\ phase' = "collect"
    BY <1>9 DEF Advance
  <2>2. at = Len(nodes) /\ 1 \in DOMAIN nodes
    <3>1. /\ Len(nodes) \in Nat /\ at \in Nat /\ 1 <= at /\ at <= Len(nodes)
          /\ DOMAIN nodes = 1..Len(nodes)
      BY <1>4
    <3>2. at = Len(nodes)
      <4>1. \A a, n \in Nat : a <= n /\ ~ (a < n) => a = n
        OBVIOUS
      <4>2. QED BY <1>9, <3>1, <4>1
    <3>3. 1 \in 1..Len(nodes)
      BY <3>1
    <3>4. QED BY <3>1, <3>2, <3>3
  <2>3. Progress'
    BY <1>1, <1>4, <2>1, <2>2 DEF Progress
  <2>4. ASSUME NEW i \in DOMAIN nodes, NEW t \in Found(i) PROVE Passed(i, t)
    <3>1. ~ (i > at) /\ Range(todo) = {}
      BY <1>1, <1>4, <2>2 DEF Range
    <3>2. QED BY <3>1 DEF Passed
  <2>5. Collected' = {}
    BY <2>1 DEF Collected
  <2>6. GroupsAreBlocks'
    BY <1>1, <1>4, <2>5 DEF GroupsAreBlocks, EmptyMap
  <2>7. QED BY <1>3, <1>6, <1>7, <2>1, <2>3, <2>4, <2>6 DEF GrouperInv
<1>10. QED BY <1>8, <1>9

LEMMA SequencesHold ==
  ASSUME NEW T, NEW s \in Seq(T)
  PROVE  /\ Range(s) \subseteq T
         /\ \A U : T \subseteq U => s \in Seq(U)
<1>1. Len(s) \in Nat /\ DOMAIN s = 1..Len(s) /\ \A k \in 1..Len(s) : s[k] \in T
  OBVIOUS
<1>2. Range(s) \subseteq T
  BY <1>1 DEF Range
<1>3. ASSUME NEW U, T \subseteq U PROVE s \in Seq(U)
  BY <1>1, <1>3
<1>4. QED BY <1>2, <1>3

(* A group takes the newest pipeline at its end. *)
LEMMA RisesByNewest ==
  ASSUME NEW n \in Nat \ {0}, NEW s \in Seq(1..(n - 1)), Rises(s)
  PROVE  /\ s \o <<n>> \in Seq(1..n) /\ Rises(s \o <<n>>)
         /\ Range(s \o <<n>>) = Range(s) \cup {n}
<1> DEFINE r == s \o <<n>>
<1>1. /\ Len(s) \in Nat /\ DOMAIN s = 1..Len(s)
      /\ \A k \in 1..Len(s) : s[k] \in 1..(n - 1)
  OBVIOUS
<1>2. s \in Seq(1..n) /\ <<n>> \in Seq(1..n)
  <2>1. \A k \in 1..Len(s) : s[k] \in 1..n
    BY <1>1
  <2>2. n \in 1..n
    OBVIOUS
  <2>3. QED BY <1>1, <2>1, <2>2
<1>3. /\ r \in Seq(1..n) /\ DOMAIN r = 1..(Len(s) + 1)
      /\ \A k \in 1..Len(s) : r[k] = s[k]
      /\ r[Len(s) + 1] = n
  BY <1>2
<1> HIDE DEF r
<1>4. \A k \in 1..(Len(s) + 1) : k \in 1..Len(s) \/ k = Len(s) + 1
  BY <1>1
<1>5. Rises(r)
  <2>1. SUFFICES ASSUME NEW k \in DOMAIN r, NEW l \in DOMAIN r, k < l PROVE r[k] < r[l]
    BY DEF Rises
  <2>2. k \in 1..Len(s)
    BY <1>1, <1>3, <2>1
  <2>3. CASE l \in 1..Len(s)
    BY <1>1, <1>3, <2>1, <2>2, <2>3 DEF Rises
  <2>4. CASE l = Len(s) + 1
    BY <1>1, <1>3, <2>2, <2>4
  <2>5. QED BY <1>3, <1>4, <2>3, <2>4
<1>6. Range(r) = Range(s) \cup {n}
  <2>1. \A v \in Range(r) : v \in Range(s) \cup {n}
    BY <1>1, <1>3, <1>4 DEF Range
  <2>2. \A v \in Range(s) : v \in Range(r)
    <3>1. \A k \in 1..Len(s) : k \in DOMAIN r
      BY <1>1, <1>3
    <3>2. QED BY <1>1, <1>3, <3>1 DEF Range
  <2>3. n \in Range(r)
    <3>1. Len(s) + 1 \in DOMAIN r
      BY <1>1, <1>3
    <3>2. QED BY <1>3, <3>1 DEF Range
  <2>4. QED BY <2>1, <2>2, <2>3
<1>7. QED BY <1>3, <1>5, <1>6 DEF r

LEMMA CollectPreserves ==
  ASSUME GrouperInv, Collect
  PROVE  GrouperInv'
<1> DEFINE id0 == UnionId(Key(at))
           old == IF id0 \in DOMAIN groups THEN groups[id0] ELSE << >>
<1>1. /\ phase = "collect" /\ Find(Key(at)) /\ groups' = PutInto(groups, id0, at)
      /\ nodes' = nodes /\ hash' = hash /\ todo' = todo
      /\ \/ at < Len(nodes) /\ at' = at + 1 /\ phase' = phase
         \/ ~ (at < Len(nodes)) /\ phase' = "grouped" /\ at' = at
  BY DEF Collect, Key
<1>2. /\ DSUInv /\ Progress /\ PassedIsUnited /\ NothingElseIsUnited /\ GroupsAreBlocks
  BY DEF GrouperInv
<1>3. DSUInv' /\ Grow(Blocks(parent_), Blocks(parent_'), Key(at), Key(at))
  BY <1>1, <1>2, FindGrows
<1>4. Asked(parent_', parent_, Key(at))
  BY <1>1, <1>2, FindMovesNoRoot
<1>5. /\ Len(nodes) \in Nat /\ DOMAIN nodes = 1..Len(nodes) /\ at \in 1..Len(nodes)
      /\ nodes \in Asts /\ hash \in Hashes
  BY <1>1, <1>2, InputsAreTexts DEF Progress
<1>6. \A i : Found(i)' = Found(i) /\ Key(i)' = Key(i)
  BY <1>1 DEF Found, Key
<1>7. phase' \in {"collect", "grouped"}
  BY <1>1
<1>8. Progress'
  <2>1. phase' = "collect" => at' \in DOMAIN nodes
    <3>1. at < Len(nodes) => at + 1 \in 1..Len(nodes)
      BY <1>5
    <3>2. QED BY <1>1, <1>5, <3>1
  <2>2. QED BY <1>1, <1>5, <1>7, <2>1 DEF Progress
<1>9. PassedIsUnited'
  <2>1. SUFFICES ASSUME NEW i \in DOMAIN nodes, NEW t \in Found(i)
                 PROVE  SameBlock(Key(i), hash[t], Blocks(parent_'))
    BY <1>1, <1>6 DEF PassedIsUnited
  <2>2. SameBlock(Key(i), hash[t], Blocks(parent_))
    BY <1>1, <1>2 DEF PassedIsUnited, Passed
  <2>3. QED BY <1>3, <2>2 DEF Grow
<1>10. NothingElseIsUnited'
  <2>1. SUFFICES ASSUME NEW S \in SUBSET Keys, SplitsNoPair(S)'
                 PROVE  SplitsNoBlock(S, Blocks(parent_'))
    BY DEF NothingElseIsUnited
  <2>2. SplitsNoPair(S)
    BY <1>1, <1>6, <2>1 DEF SplitsNoPair
  <2>3. SplitsNoBlock(S, Blocks(parent_))
    BY <1>1, <1>2, <2>2 DEF NothingElseIsUnited
  <2>4. QED BY <1>3, <2>3 DEF Grow
<1>11. Collected = 1..(at - 1) /\ Collected' = 1..at
  <2>1. Collected = 1..(at - 1)
    BY <1>1 DEF Collected
  <2>2. CASE at < Len(nodes) /\ at' = at + 1 /\ phase' = phase
    <3>1. Collected' = 1..((at + 1) - 1)
      BY <1>1, <2>2 DEF Collected
    <3>2. (at + 1) - 1 = at
      BY <1>5
    <3>3. QED BY <2>1, <3>1, <3>2
  <2>3. CASE ~ (at < Len(nodes)) /\ phase' = "grouped" /\ at' = at
    <3>1. Collected' = 1..Len(nodes)
      BY <1>1, <1>5, <2>3 DEF Collected
    <3>2. \A a, n \in Nat : a <= n /\ ~ (a < n) => a = n
      OBVIOUS
    <3>3. at \in Nat /\ at <= Len(nodes)
      BY <1>5
    <3>4. at = Len(nodes)
      BY <1>5, <2>3, <3>2, <3>3
    <3>5. QED BY <2>1, <3>1, <3>4
  <2>4. QED BY <1>1, <2>2, <2>3
<1>12. /\ \A i \in 1..(at - 1) :
            /\ Key(i) \in DOMAIN parent_ /\ Root(parent_, Key(i)) \in DOMAIN groups
            /\ i \in Range(groups[Root(parent_, Key(i))])
       /\ \A id \in DOMAIN groups :
            /\ groups[id] \in Seq(1..(at - 1)) /\ Rises(groups[id])
            /\ \A i \in Range(groups[id]) : Root(parent_, Key(i)) = id
  BY <1>2, <1>11 DEF GroupsAreBlocks
<1>13. at \in Nat \ {0} /\ \A i \in 1..at : i \in 1..(at - 1) \/ i = at
  BY <1>5
<1>14. /\ DOMAIN groups' = DOMAIN groups \cup {id0} /\ groups'[id0] = old \o <<at>>
       /\ \A id \in DOMAIN groups : id # id0 => groups'[id] = groups[id]
  BY <1>1 DEF PutInto, Insert
<1>15. /\ Key(at) \in DOMAIN parent_' /\ Root(parent_', Key(at)) = id0
       /\ \A i \in 1..(at - 1) : Key(i) \in DOMAIN parent_' /\ Root(parent_', Key(i)) = Root(parent_, Key(i))
  BY <1>4, <1>12 DEF Asked, UnionId
<1>16. /\ old \in Seq(1..(at - 1)) /\ Rises(old)
       /\ id0 \in DOMAIN groups => old = groups[id0]
       /\ \A i \in Range(old) : i \in 1..(at - 1) /\ Root(parent_, Key(i)) = id0
  <2>1. CASE id0 \in DOMAIN groups
    <3>1. \A i \in Range(groups[id0]) : i \in 1..(at - 1)
      BY <1>12, <2>1, SequencesHold
    <3>2. QED BY <1>12, <2>1, <3>1
  <2>2. CASE id0 \notin DOMAIN groups
    <3>1. old = << >>
      BY <2>2
    <3>2. << >> \in Seq(1..(at - 1)) /\ Rises(<< >>) /\ Range(<< >>) = {}
      BY DEF Rises, Range
    <3>3. QED BY <2>2, <3>1, <3>2
  <2>3. QED BY <2>1, <2>2
<1> HIDE DEF id0, old
<1>17. /\ groups'[id0] \in Seq(1..at) /\ Rises(groups'[id0])
       /\ Range(groups'[id0]) = Range(old) \cup {at}
  BY <1>13, <1>14, <1>16, RisesByNewest
<1>18. ASSUME NEW i \in 1..at
       PROVE  /\ Key(i) \in DOMAIN parent_' /\ Root(parent_', Key(i)) \in DOMAIN groups'
              /\ i \in Range(groups'[Root(parent_', Key(i))])
  <2>1. CASE i = at
    BY <1>14, <1>15, <1>17, <2>1
  <2>2. CASE i \in 1..(at - 1)
    <3>1. /\ Key(i) \in DOMAIN parent_' /\ Root(parent_', Key(i)) = Root(parent_, Key(i))
          /\ Root(parent_, Key(i)) \in DOMAIN groups
          /\ i \in Range(groups[Root(parent_, Key(i))])
      BY <1>12, <1>15, <2>2
    <3>2. CASE Root(parent_, Key(i)) = id0
      BY <1>14, <1>16, <1>17, <3>1, <3>2
    <3>3. CASE Root(parent_, Key(i)) # id0
      BY <1>14, <3>1, <3>3
    <3>4. QED BY <3>2, <3>3
  <2>3. QED BY <1>13, <2>1, <2>2
<1>19. ASSUME NEW id \in DOMAIN groups'
       PROVE  /\ groups'[id] \in Seq(1..at) /\ Rises(groups'[id])
              /\ \A i \in Range(groups'[id]) : Root(parent_', Key(i)) = id
  <2>1. CASE id = id0
    BY <1>15, <1>16, <1>17, <2>1
  <2>2. CASE id # id0
    <3>1. id \in DOMAIN groups /\ groups'[id] = groups[id]
      BY <1>14, <2>2
    <3>2. groups[id] \in Seq(1..at)
      <4>1. groups[id] \in Seq(1..(at - 1))
        BY <1>12, <3>1
      <4>2. 1..(at - 1) \subseteq 1..at
        BY <1>13
      <4>3. QED BY <4>1, <4>2, SequencesHold
    <3>3. \A i \in Range(groups[id]) : i \in 1..(at - 1)
      BY <1>12, <3>1, SequencesHold
    <3>4. QED BY <1>12, <1>15, <3>1, <3>2, <3>3
  <2>3. QED BY <2>1, <2>2
<1>20. GroupsAreBlocks'
  BY <1>6, <1>11, <1>18, <1>19 DEF GroupsAreBlocks
<1>21. QED BY <1>3, <1>8, <1>9, <1>10, <1>20 DEF GrouperInv

LEMMA GroupPreserves ==
  ASSUME GrouperInv, NEW asts \in Asts, Group(asts)
  PROVE  GrouperInv'
<1>1. /\ phase = "idle" /\ nodes' = asts /\ hash' \in Hashes
      /\ todo' = IF asts = << >> THEN << >> ELSE HeightOne(asts[1])
      /\ phase' = IF asts = << >> THEN "grouped" ELSE "unite"
      /\ at' = at /\ groups' = groups /\ parent_' = parent_ /\ rank_' = rank_
  BY DEF Group
<1>2. /\ DSUInv /\ at = 1 /\ parent_ = EmptyMap /\ groups = EmptyMap
  BY <1>1 DEF GrouperInv, Progress
<1>3. DSUInv'
  BY <1>1, <1>2 DEF DSUInv
<1>4. /\ Len(asts) \in Nat /\ DOMAIN asts = 1..Len(asts)
      /\ \A i \in DOMAIN asts : HeightOne(asts[i]) \in Seq(Texts)
  <2>1. asts \in Seq(Range(asts))
    BY GrouperAssumption
  <2>2. QED BY <2>1, GrouperAssumption
<1>5. Blocks(parent_') = {}
  BY <1>1, <1>2 DEF Blocks, EmptyMap
<1>6. NothingElseIsUnited'
  BY <1>5 DEF NothingElseIsUnited, SplitsNoBlock
<1>7. CASE asts = << >>
  <2>1. DOMAIN nodes' = {} /\ phase' = "grouped"
    BY <1>1, <1>7
  <2>2. Progress'
    BY <1>1, <1>2, <2>1 DEF Progress
  <2>3. PassedIsUnited'
    BY <2>1 DEF PassedIsUnited
  <2>4. Collected' = {}
    BY <2>1 DEF Collected
  <2>5. GroupsAreBlocks'
    BY <1>1, <1>2, <2>4 DEF GroupsAreBlocks, EmptyMap
  <2>6. QED BY <1>3, <1>6, <2>2, <2>3, <2>5 DEF GrouperInv
<1>8. CASE asts # << >>
  <2>1. phase' = "unite" /\ todo' = HeightOne(asts[1]) /\ nodes' = asts /\ at' = 1
    BY <1>1, <1>2, <1>8
  <2>2. 1 \in DOMAIN asts
    <3>1. Len(asts) # 0
      <4>1. asts \in Seq(Range(asts))
        BY GrouperAssumption
      <4>2. QED BY <1>8, <4>1
    <3>2. QED BY <1>4, <3>1
  <2>3. Found(1)' = Range(HeightOne(asts[1]))
    BY <2>1 DEF Found
  <2>4. Progress'
    <3>1. todo' \in Seq(Texts) /\ at' \in DOMAIN nodes' /\ Range(todo') = Found(at)'
      BY <1>4, <2>1, <2>2 DEF Found
    <3>2. QED BY <1>1, <1>2, <2>1, <3>1 DEF Progress
  <2>5. PassedIsUnited'
    <3>1. SUFFICES ASSUME NEW i \in DOMAIN nodes', NEW t \in Found(i)' PROVE ~ Passed(i, t)'
      BY DEF PassedIsUnited
    <3>2. i \in 1..Len(asts)
      BY <1>4, <2>1
    <3>3. CASE i = 1
      BY <2>1, <2>3, <3>1, <3>3 DEF Passed
    <3>4. CASE i # 1
      BY <1>4, <2>1, <3>2, <3>4 DEF Passed
    <3>5. QED BY <3>3, <3>4
  <2>6. Collected' = {}
    BY <2>1 DEF Collected
  <2>7. GroupsAreBlocks'
    BY <1>1, <1>2, <2>6 DEF GroupsAreBlocks, EmptyMap
  <2>8. QED BY <1>3, <1>6, <2>4, <2>5, <2>7 DEF GrouperInv
<1>9. QED BY <1>7, <1>8

LEMMA StartIsSound == GrouperInit => GrouperInv
<1> SUFFICES ASSUME GrouperInit PROVE GrouperInv
  OBVIOUS
<1>1. DSUInv /\ phase = "idle" /\ at = 1 /\ parent_ = EmptyMap /\ groups = EmptyMap
  BY DSUStart DEF GrouperInit, DSUInit
<1>2. Collected = {}
  BY <1>1 DEF Collected
<1>3. GroupsAreBlocks
  BY <1>1, <1>2 DEF GroupsAreBlocks, EmptyMap
<1>4. QED BY <1>1, <1>3 DEF GrouperInv, Progress, PassedIsUnited, NothingElseIsUnited

LEMMA StutterPreserves ==
  ASSUME GrouperInv, UNCHANGED grouperVars
  PROVE  GrouperInv'
<1>1. DSUInv'
  BY DEF grouperVars, GrouperInv, DSUInv
<1>2. Progress'
  BY DEF grouperVars, GrouperInv, Progress, Found
<1>3. PassedIsUnited' /\ NothingElseIsUnited'
  BY DEF grouperVars, GrouperInv, PassedIsUnited, NothingElseIsUnited, Passed, SplitsNoPair, Found, Key
<1>4. GroupsAreBlocks'
  BY DEF grouperVars, GrouperInv, GroupsAreBlocks, Collected, Key
<1>5. QED BY <1>1, <1>2, <1>3, <1>4 DEF GrouperInv

LEMMA GrouperInvariant == GrouperSpec => []GrouperInv
<1>1. ASSUME GrouperInv, [GrouperNext]_grouperVars PROVE GrouperInv'
  <2>1. CASE UniteNext
    BY <1>1, <2>1, UnitePreserves
  <2>2. CASE Advance
    BY <1>1, <2>2, AdvancePreserves
  <2>3. CASE Collect
    BY <1>1, <2>3, CollectPreserves
  <2>4. ASSUME NEW asts \in Asts, Group(asts) PROVE GrouperInv'
    BY <1>1, <2>4, GroupPreserves
  <2>5. CASE UNCHANGED grouperVars
    BY <1>1, <2>5, StutterPreserves
  <2>6. QED BY <1>1, <2>1, <2>2, <2>3, <2>4, <2>5 DEF GrouperNext, GroupStep
<1>2. QED BY StartIsSound, <1>1, PTL DEF GrouperSpec

-----------------------------------------------------------------------------
(* Group drives its disjoint-set union by Find and Union on keys only, so   *)
(* what was proved of the union alone holds while pipelines are grouped.    *)
LEMMA GroupDrivesForest == GrouperSpec => DSUSpec
<1>1. GrouperInit => DSUInit
  BY DEF GrouperInit
<1>2. ASSUME GrouperInv, [GrouperNext]_grouperVars PROVE [DSUNext]_dsuVars
  <2>1. CASE UniteNext
    <3>1. phase = "unite" /\ todo # << >> /\ Union(Key(at), hash[Head(todo)])
      BY <2>1 DEF UniteNext, Key
    <3>2. at \in DOMAIN nodes /\ todo \in Seq(Texts) /\ Range(todo) \subseteq Found(at)
      BY <1>2, <3>1 DEF GrouperInv, Progress
    <3>3. Head(todo) \in Range(todo)
      BY <3>1, <3>2 DEF Range
    <3>4. Key(at) \in Keys /\ hash[Head(todo)] \in Keys
      BY <1>2, <3>1, <3>2, <3>3, InputsAreTexts DEF GrouperInv
    <3>5. QED BY <3>1, <3>4 DEF DSUNext
  <2>2. CASE Collect
    <3>1. phase = "collect" /\ Find(Key(at))
      BY <2>2 DEF Collect, Key
    <3>2. Key(at) \in Keys
      BY <1>2, <3>1, InputsAreTexts DEF GrouperInv, Progress
    <3>3. QED BY <3>1, <3>2 DEF DSUNext
  <2>3. CASE Advance
    BY <2>3 DEF Advance, dsuVars
  <2>4. CASE \E asts \in Asts : Group(asts)
    BY <2>4 DEF Group, dsuVars
  <2>5. CASE UNCHANGED grouperVars
    BY <2>5 DEF grouperVars, dsuVars
  <2>6. QED BY <1>2, <2>1, <2>2, <2>3, <2>4, <2>5 DEF GrouperNext, GroupStep
<1>3. QED BY GrouperInvariant, <1>1, <1>2, PTL DEF GrouperSpec, DSUSpec

(* Find's recursion stays shallow while Group runs, and the forest is the   *)
(* partition of the keys that Group has united.                             *)
THEOREM GroupKeepsForest == GrouperSpec => []RanksBoundFind /\ ImplementsPartition
BY GroupDrivesForest, RanksAlwaysBoundFind, ForestImplementsPartition

(* When Group has ended, the group of a pipeline is that of its key's root. *)
LEMMA GroupOfRoot ==
  ASSUME GrouperInv, phase = "grouped"
  PROVE  /\ \A i \in DOMAIN nodes :
              /\ Key(i) \in DOMAIN parent_ /\ Root(parent_, Key(i)) \in DOMAIN groups
              /\ i \in Range(groups[Root(parent_, Key(i))])
         /\ \A id \in DOMAIN groups :
              /\ groups[id] \in Seq(DOMAIN nodes) /\ Rises(groups[id])
              /\ \A i \in Range(groups[id]) : i \in DOMAIN nodes /\ Root(parent_, Key(i)) = id
<1>1. Collected = DOMAIN nodes
  BY DEF Collected
<1>2. \A id \in DOMAIN groups : groups[id] \in Seq(DOMAIN nodes)
  BY <1>1 DEF GrouperInv, GroupsAreBlocks
<1>3. \A id \in DOMAIN groups : Range(groups[id]) \subseteq DOMAIN nodes
  BY <1>2, SequencesHold
<1>4. QED BY <1>1, <1>2, <1>3 DEF GrouperInv, GroupsAreBlocks

(* Every pipeline is moved into exactly one group, and a group keeps the    *)
(* order of the program: no store is lost, run twice or reordered.          *)
THEOREM NoPipelineIsLost == GrouperSpec => []GroupsPartition
<1>1. GrouperInv => GroupsPartition
  <2> SUFFICES ASSUME GrouperInv, phase = "grouped"
               PROVE  /\ \A i \in DOMAIN nodes : \E id \in DOMAIN groups : i \in Range(groups[id])
                      /\ \A id, other \in DOMAIN groups :
                           id # other => Range(groups[id]) \cap Range(groups[other]) = {}
                      /\ \A id \in DOMAIN groups : Rises(groups[id])
    BY DEF GroupsPartition, Rises
  <2>1. QED BY GroupOfRoot
<1>2. QED BY GrouperInvariant, <1>1, PTL

LEMMA TogetherIsSameRoot ==
  ASSUME GrouperInv, phase = "grouped", NEW i \in DOMAIN nodes, NEW j \in DOMAIN nodes
  PROVE  Together(i, j) <=> Root(parent_, Key(i)) = Root(parent_, Key(j))
<1>1. ASSUME Together(i, j) PROVE Root(parent_, Key(i)) = Root(parent_, Key(j))
  <2>1. PICK id \in DOMAIN groups : {i, j} \subseteq Range(groups[id])
    BY <1>1 DEF Together
  <2>2. QED BY <2>1, GroupOfRoot
<1>2. ASSUME Root(parent_, Key(i)) = Root(parent_, Key(j)) PROVE Together(i, j)
  BY <1>2, GroupOfRoot DEF Together
<1>3. QED BY <1>1, <1>2

(* The keys of a pipeline are in one block. *)
LEMMA KeysShareRoot ==
  ASSUME GrouperInv, phase = "grouped", NEW i \in DOMAIN nodes, NEW key \in KeysOf(i)
  PROVE  key \in Keys /\ key \in DOMAIN parent_ /\ Root(parent_, key) = Root(parent_, Key(i))
<1>1. Key(i) \in Keys /\ Key(i) \in DOMAIN parent_ /\ \A t \in Found(i) : hash[t] \in Keys
  BY GroupOfRoot, InputsAreTexts DEF GrouperInv
<1>2. CASE key = Key(i)
  BY <1>1, <1>2
<1>3. CASE key # Key(i)
  <2>1. PICK t \in Found(i) : key = hash[t]
    BY <1>3 DEF KeysOf, Key, Found
  <2>2. PICK c \in Blocks(parent_) : Key(i) \in c /\ hash[t] \in c
    BY <2>1 DEF GrouperInv, PassedIsUnited, Passed, SameBlock
  <2>3. c \subseteq DOMAIN parent_ /\ \A k, l \in c : Root(parent_, k) = Root(parent_, l)
    BY DEF Blocks, Block
  <2>4. QED BY <1>1, <2>1, <2>2, <2>3
<1>4. QED BY <1>2, <1>3

(* The groups are the connected components of "has a key in common": the    *)
(* union has united all it must before the first group is named, nothing    *)
(* more, and no later Find renames a group; for any trees and any hash.     *)
THEOREM GroupsAreTheComponents == GrouperSpec => []GroupsAreComponents
<1>1. ASSUME GrouperInv, phase = "grouped", NEW i \in DOMAIN nodes, NEW j \in DOMAIN nodes,
             Together(i, j)
      PROVE  Connected(Meeting, i, j)
  <2> SUFFICES ASSUME NEW S \in SUBSET DOMAIN nodes, i \in S,
                      \A link \in Meeting : link[1] \in S => link[2] \in S
               PROVE  j \in S
    BY DEF Connected
  <2> DEFINE T == UNION {KeysOf(k) : k \in S}
  <2>1. \A k \in DOMAIN nodes : \A key \in KeysOf(k) : key \in T => k \in S
    <3>1. SUFFICES ASSUME NEW k \in DOMAIN nodes, NEW key \in KeysOf(k), key \in T PROVE k \in S
      OBVIOUS
    <3>2. PICK l \in S : key \in KeysOf(l)
      BY <3>1
    <3>3. <<l, k>> \in Meeting /\ <<l, k>>[1] = l /\ <<l, k>>[2] = k
      BY <3>1, <3>2 DEF Meeting
    <3>4. QED BY <3>3
  <2>2. \A k \in S : KeysOf(k) \subseteq T
    OBVIOUS
  <2>3. T \in SUBSET Keys
    BY <1>1, KeysShareRoot
  <2> HIDE DEF T
  <2>4. \A k \in DOMAIN nodes : Key(k) \in KeysOf(k) /\ \A t \in Found(k) : hash[t] \in KeysOf(k)
    BY DEF KeysOf, Key, Found
  <2>5. SplitsNoPair(T)
    BY <2>1, <2>2, <2>4 DEF SplitsNoPair
  <2>6. SplitsNoBlock(T, Blocks(parent_))
    BY <1>1, <2>3, <2>5 DEF GrouperInv, NothingElseIsUnited
  <2>7. Root(parent_, Key(i)) = Root(parent_, Key(j)) /\ Key(i) \in DOMAIN parent_ /\ Key(j) \in DOMAIN parent_
    BY <1>1, TogetherIsSameRoot, GroupOfRoot
  <2>8. \E c \in Blocks(parent_) : Key(i) \in c /\ Key(j) \in c
    <3>1. /\ Block(parent_, Root(parent_, Key(i))) \in Blocks(parent_)
          /\ Key(i) \in Block(parent_, Root(parent_, Key(i)))
      BY <2>7, BlocksPartition
    <3>2. Key(j) \in Block(parent_, Root(parent_, Key(j)))
      BY <2>7, BlocksPartition
    <3>3. QED BY <2>7, <3>1, <3>2
  <2>9. Key(i) \in T
    BY <2>2, <2>4
  <2>10. Key(j) \in T
    BY <2>6, <2>8, <2>9 DEF SplitsNoBlock
  <2>11. QED BY <2>1, <2>4, <2>10
<1>2. ASSUME GrouperInv, phase = "grouped", NEW i \in DOMAIN nodes, NEW j \in DOMAIN nodes,
             Connected(Meeting, i, j)
      PROVE  Together(i, j)
  <2> DEFINE S == {k \in DOMAIN nodes : Root(parent_, Key(k)) = Root(parent_, Key(i))}
  <2>1. ASSUME NEW link \in Meeting, link[1] \in S PROVE link[2] \in S
    <3>1. PICK key \in KeysOf(link[1]) \cap KeysOf(link[2]) : TRUE
      BY DEF Meeting
    <3>2. link[1] \in DOMAIN nodes /\ link[2] \in DOMAIN nodes
      BY DEF Meeting
    <3>3. Root(parent_, key) = Root(parent_, Key(link[1])) /\ Root(parent_, key) = Root(parent_, Key(link[2]))
      BY <1>2, <3>1, <3>2, KeysShareRoot
    <3>4. QED BY <2>1, <3>2, <3>3
  <2>2. S \in SUBSET DOMAIN nodes /\ i \in S
    OBVIOUS
  <2> HIDE DEF S
  <2>3. j \in S
    BY <1>2, <2>1, <2>2 DEF Connected
  <2>4. QED BY <1>2, <2>3, TogetherIsSameRoot DEF S
<1>3. GrouperInv => GroupsAreComponents
  BY <1>1, <1>2 DEF GroupsAreComponents
<1>4. QED BY GrouperInvariant, <1>3, PTL
=============================================================================
