------------------------------ MODULE KernelProofs -----------------------------
(***************************************************************************)
(* Proofs about the list kernels, for any lists, numbers and widths of a   *)
(* byte: a program that compares, combines and filters keeps exactly what  *)
(* it picked, and kernels write as far as is said here and no further.     *)
(***************************************************************************)
EXTENDS ListKernels, SequenceTheorems, FiniteSetTheorems, WellFoundedInduction, TLAPS

-----------------------------------------------------------------------------
(* Induction over a set. *)
LEMMA Induction ==
  ASSUME NEW T \in SUBSET Nat, 0 \in T, \A n \in T : n + 1 \in T
  PROVE  Nat \subseteq T
<1> DEFINE Bad == Nat \ T
<1>1. SUFFICES ASSUME Bad # {} PROVE FALSE
  OBVIOUS
<1>2. PICK m \in Bad : \A n \in Bad : <<n, m>> \notin OpToRel(<, Nat)
  BY <1>1, NatLessThanWellFounded, WFMin
<1>3. m \in Nat /\ m \notin T
  OBVIOUS
<1>4. m - 1 \in Nat /\ m - 1 < m
  BY <1>3
<1>5. m - 1 \notin Bad
  BY <1>2, <1>3, <1>4 DEF OpToRel
<1>6. (m - 1) + 1 \in T
  BY <1>4, <1>5
<1>7. (m - 1) + 1 = m
  BY <1>3
<1>8. QED BY <1>3, <1>6, <1>7

(* What holds at 0 and is kept by each step up to n holds at all of 0..n.  *)
LEMMA UpTo ==
  ASSUME NEW n \in Nat, NEW T, 0 \in T, \A k \in 1..n : k - 1 \in T => k \in T
  PROVE  0..n \subseteq T
<1> DEFINE U == {k \in Nat : k <= n => k \in T}
<1>1. 0 \in U
  OBVIOUS
<1>2. ASSUME NEW k \in U PROVE k + 1 \in U
  <2>1. SUFFICES ASSUME k + 1 <= n PROVE k + 1 \in T
    OBVIOUS
  <2>2. k \in T /\ k + 1 \in 1..n /\ (k + 1) - 1 = k
    BY <2>1
  <2>3. QED BY <2>2
<1>3. Nat \subseteq U
  <2>1. U \in SUBSET Nat
    OBVIOUS
  <2> HIDE DEF U
  <2>2. QED BY <1>1, <1>2, <2>1, Induction
<1>4. QED BY <1>3

-----------------------------------------------------------------------------
(* Positions, bytes and bits. *)
LEMMA Widths == ByteBits \in Nat \ {0} /\ BatchBytes \in Nat \ {0} /\ MaxLen \in Nat
BY KernelsAssumption

LEMMA Product ==
  ASSUME NEW m \in Nat, NEW p \in Nat, NEW q \in Nat, p <= q
  PROVE  m * p \in Nat /\ m * p <= m * q
<1>1. PICK d \in Nat : q = p + d
  <2>1. q - p \in Nat /\ q = p + (q - p)
    OBVIOUS
  <2>2. QED BY <2>1
<1>2. m * q = m * p + m * d /\ m * p \in Nat /\ m * d \in Nat
  BY <1>1
<1>3. QED BY <1>2

(* Every position has its byte and its bit, and only one of each.          *)
LEMMA Division ==
  ASSUME NEW m \in Nat \ {0}, NEW q \in Nat, NEW r \in 0..(m - 1)
  PROVE  (q * m + r) \div m = q /\ (q * m + r) % m = r
<1> DEFINE v == q * m + r
           d == v \div m
           e == v % m
<1>1. v \in Nat /\ d \in Nat /\ e \in 0..(m - 1) /\ v = m * d + e
  <2>1. q * m \in Nat
    BY Product
  <2>2. v \in Nat
    BY <2>1
  <2> HIDE DEF v
  <2>3. QED BY <2>2
<1>2. v = m * q + r
  OBVIOUS
<1> HIDE DEF d, e, v
<1>3. d = q
  <2>1. CASE d < q
    <3>1. d + 1 <= q /\ m * (d + 1) <= m * q /\ m * (d + 1) = m * d + m
      BY <1>1, <2>1, Product
    <3>2. m * q \in Nat /\ m * d \in Nat
      BY <1>1, Product
    <3>3. QED BY <1>1, <1>2, <3>1, <3>2
  <2>2. CASE q < d
    <3>1. q + 1 <= d /\ m * (q + 1) <= m * d /\ m * (q + 1) = m * q + m
      BY <1>1, <2>2, Product
    <3>2. m * q \in Nat /\ m * d \in Nat
      BY <1>1, Product
    <3>3. QED BY <1>1, <1>2, <3>1, <3>2
  <2>3. QED BY <1>1, <2>1, <2>2
<1>4. e = r
  <2>1. m * q \in Nat
    BY Product
  <2>2. QED BY <1>1, <1>2, <1>3, <2>1
<1>5. QED BY <1>3, <1>4 DEF d, e, v

LEMMA Divided ==
  ASSUME NEW m \in Nat \ {0}, NEW v \in Nat
  PROVE  /\ v \div m \in Nat /\ v % m \in 0..(m - 1)
         /\ (v \div m) * m \in Nat /\ v = (v \div m) * m + (v % m)
<1> DEFINE d == v \div m
           e == v % m
<1>1. d \in Nat /\ e \in 0..(m - 1) /\ v = m * d + e
  OBVIOUS
<1> HIDE DEF d, e
<1>2. m * d \in Nat /\ m * d = d * m
  BY <1>1, Product
<1>3. d \in Nat /\ e \in 0..(m - 1) /\ d * m \in Nat /\ v = d * m + e
  BY <1>1, <1>2
<1>4. QED BY <1>3 DEF d, e

(* The bytes of n positions: the whole ones, and one for the rest.         *)
LEMMA Bytes ==
  ASSUME NEW n \in Nat
  PROVE  LET whole == n \div ByteBits
             rest == n - whole * ByteBits
         IN  /\ whole \in Nat /\ whole * ByteBits \in Nat /\ rest \in 0..(ByteBits - 1) /\ rest = n % ByteBits
             /\ BytesFor(n) = IF rest = 0 THEN whole ELSE whole + 1
             /\ (whole + 1) * ByteBits = whole * ByteBits + ByteBits
<1> DEFINE whole == n \div ByteBits
           rest == n % ByteBits
           B == ByteBits
<1>1. B \in Nat \ {0}
  BY Widths
<1>2. whole \in Nat /\ rest \in 0..(B - 1) /\ whole * B \in Nat /\ n = whole * B + rest
  BY <1>1, Divided
<1>3. (whole + 1) * B = whole * B + B
  <2> HIDE DEF whole, B
  <2>1. QED BY <1>1, <1>2
<1>4. n - whole * B = rest
  BY <1>2
<1>5. CASE rest = 0
  <2>1. n + B - 1 = whole * B + (B - 1) /\ B - 1 \in 0..(B - 1)
    BY <1>1, <1>2, <1>5
  <2>2. (whole * B + (B - 1)) \div B = whole
    <3> HIDE DEF whole, rest, B
    <3>1. QED BY <1>1, <1>2, <2>1, Division
  <2>3. BytesFor(n) = whole
    BY <2>1, <2>2 DEF BytesFor
  <2>4. QED BY <1>2, <1>3, <1>4, <1>5, <2>3
<1>6. CASE rest # 0
  <2>1. n + B - 1 = (whole + 1) * B + (rest - 1) /\ rest - 1 \in 0..(B - 1)
    BY <1>1, <1>2, <1>3, <1>6
  <2>2. ((whole + 1) * B + (rest - 1)) \div B = whole + 1
    <3> HIDE DEF whole, rest, B
    <3>1. whole + 1 \in Nat
      BY <1>2
    <3>2. QED BY <1>1, <2>1, <3>1, Division
  <2>3. BytesFor(n) = whole + 1
    BY <2>1, <2>2 DEF BytesFor
  <2>4. QED BY <1>2, <1>3, <1>4, <1>6, <2>3
<1>7. QED BY <1>5, <1>6

-----------------------------------------------------------------------------
(* A bitmap stands for a set of positions.                                  *)
BitsAre(bytes, P) ==
  /\ bytes \in Seq(SUBSET (0..(ByteBits - 1)))
  /\ P \subseteq 1..(Len(bytes) * ByteBits)
  /\ \A k \in 0..(Len(bytes) - 1), j \in 0..(ByteBits - 1) :
       j \in bytes[k + 1] <=> k * ByteBits + j + 1 \in P

(* Of what the two loops over n positions write, the bytes allocated are     *)
(* there, and one more only after a multiple of a byte's bits.               *)
LEMMA Written ==
  ASSUME NEW n \in Nat
  PROVE  /\ BytesWritten(n) = BytesFor(n) + (IF n > 0 /\ n % ByteBits = 0 THEN 1 ELSE 0)
         /\ \A k \in 1..BytesFor(n) : k \in 1..BytesWritten(n)
<1> DEFINE whole == n \div ByteBits
           rest == n - whole * ByteBits
<1>1. /\ whole \in Nat /\ rest = n % ByteBits
      /\ BytesFor(n) = IF rest = 0 THEN whole ELSE whole + 1
  BY Bytes
<1>2. BytesWritten(n) = IF n = 0 THEN 0 ELSE whole + 1
  BY DEF BytesWritten
<1>3. n = 0 => whole = 0 /\ rest = 0
  BY Widths
<1> HIDE DEF whole, rest
<1>4. /\ BytesWritten(n) = BytesFor(n) + (IF n > 0 /\ n % ByteBits = 0 THEN 1 ELSE 0)
      /\ BytesFor(n) \in Nat
  BY <1>1, <1>2, <1>3
<1>5. BytesWritten(n) \in Nat /\ BytesFor(n) <= BytesWritten(n)
  BY <1>4
<1>6. QED BY <1>4, <1>5

(* What the two loops over n positions write stands for those that passed.  *)
LEMMA BitmapStands ==
  ASSUME NEW n \in Nat, NEW P \in SUBSET (1..n), NEW bytes,
         bytes = [k \in 1..BytesFor(n) |->
                    IF k <= n \div ByteBits
                      THEN {j \in 0..(ByteBits - 1) : (k - 1) * ByteBits + j + 1 \in P}
                      ELSE {j \in 0..(n - (n \div ByteBits) * ByteBits - 1) :
                              (n \div ByteBits) * ByteBits + j + 1 \in P}]
  PROVE  BitsAre(bytes, P) /\ Len(bytes) = BytesFor(n)
<1> DEFINE whole == n \div ByteBits
           rest == n - whole * ByteBits
           B == ByteBits
<1>1. /\ whole \in Nat /\ whole * B \in Nat /\ rest \in 0..(B - 1) /\ B \in Nat \ {0}
      /\ BytesFor(n) = (IF rest = 0 THEN whole ELSE whole + 1)
      /\ (whole + 1) * B = whole * B + B /\ n = whole * B + rest
  <2>1. /\ whole \in Nat /\ whole * B \in Nat /\ rest \in 0..(B - 1)
        /\ BytesFor(n) = (IF rest = 0 THEN whole ELSE whole + 1)
        /\ (whole + 1) * B = whole * B + B
    BY Bytes
  <2>2. B \in Nat \ {0}
    BY Widths
  <2>3. n = whole * B + rest
    <3> DEFINE w == whole * B
    <3>1. w \in Nat /\ rest = n - w
      BY <2>1
    <3> HIDE DEF w
    <3>2. n = w + (n - w)
      BY <3>1
    <3>3. QED BY <3>1, <3>2 DEF w
  <2>4. QED BY <2>1, <2>2, <2>3
<1>2. bytes = [k \in 1..BytesFor(n) |->
                 IF k <= whole THEN {j \in 0..(B - 1) : (k - 1) * B + j + 1 \in P}
                 ELSE {j \in 0..(rest - 1) : whole * B + j + 1 \in P}]
  OBVIOUS
<1> HIDE DEF whole, rest, B
<1>3. bytes \in Seq(SUBSET (0..(B - 1))) /\ Len(bytes) = BytesFor(n) /\ BytesFor(n) \in Nat
  <2>1. BytesFor(n) \in Nat
    BY <1>1
  <2>2. bytes \in [1..BytesFor(n) -> SUBSET (0..(B - 1))]
    <3>1. 0..(rest - 1) \subseteq 0..(B - 1)
      BY <1>1
    <3>2. QED BY <1>2, <3>1
  <2>3. QED BY <2>1, <2>2
<1>4. P \subseteq 1..(Len(bytes) * B)
  BY <1>1, <1>3
<1>5. ASSUME NEW k \in 0..(Len(bytes) - 1), NEW j \in 0..(B - 1)
      PROVE  j \in bytes[k + 1] <=> k * B + j + 1 \in P
  <2>1. k + 1 \in 1..BytesFor(n) /\ (k + 1) - 1 = k /\ k \in Nat
    BY <1>3
  <2>2. CASE k + 1 <= whole
    BY <1>2, <2>1, <2>2
  <2>3. CASE ~ (k + 1 <= whole)
    <3>1. k = whole
      BY <1>1, <2>1, <2>3
    <3>2. j \in bytes[k + 1] <=> j \in 0..(rest - 1) /\ whole * B + j + 1 \in P
      BY <1>2, <2>1, <2>3
    <3>3. whole * B + j + 1 \in P => j \in 0..(rest - 1)
      BY <1>1
    <3>4. QED BY <3>1, <3>2, <3>3
  <2>4. QED BY <2>2, <2>3
<1>6. QED BY <1>3, <1>4, <1>5 DEF BitsAre, B

(* Bytes combined bit by bit stand for the positions combined.             *)
LEMMA CombinedStand ==
  ASSUME NEW l, NEW r, NEW P, NEW Q, BitsAre(l, P), BitsAre(r, Q), Len(l) = Len(r)
  PROVE  /\ BitsAre([i \in DOMAIN l |-> l[i] \cap r[i]], P \cap Q)
         /\ BitsAre([i \in DOMAIN l |-> l[i] \cup r[i]], P \cup Q)
         /\ BitsAre([i \in DOMAIN l |-> (l[i] \cup r[i]) \ (l[i] \cap r[i])], (P \cup Q) \ (P \cap Q))
<1> DEFINE B == ByteBits
           n == Len(l)
<1>1. /\ l \in [1..n -> SUBSET (0..(B - 1))] /\ r \in [1..n -> SUBSET (0..(B - 1))] /\ n \in Nat
      /\ P \subseteq 1..(n * B) /\ Q \subseteq 1..(n * B)
      /\ \A k \in 0..(n - 1), j \in 0..(B - 1) : k + 1 \in 1..n /\
           (j \in l[k + 1] <=> k * B + j + 1 \in P) /\ (j \in r[k + 1] <=> k * B + j + 1 \in Q)
  BY DEF BitsAre
<1>2. DOMAIN l = 1..n
  BY <1>1
<1> HIDE DEF B, n
<1>3. ASSUME NEW s \in [1..n -> SUBSET (0..(B - 1))], NEW R \in SUBSET (1..(n * B)),
             \A k \in 0..(n - 1), j \in 0..(B - 1) : j \in s[k + 1] <=> k * B + j + 1 \in R
      PROVE  BitsAre(s, R)
  <2>1. s \in Seq(SUBSET (0..(B - 1))) /\ Len(s) = n
    BY <1>1
  <2>2. QED BY <1>3, <2>1 DEF BitsAre, B
<1>4. BitsAre([i \in 1..n |-> l[i] \cap r[i]], P \cap Q)
  <2> DEFINE s == [i \in 1..n |-> l[i] \cap r[i]]
  <2>1. s \in [1..n -> SUBSET (0..(B - 1))]
    BY <1>1
  <2>2. \A k \in 0..(n - 1), j \in 0..(B - 1) : j \in s[k + 1] <=> k * B + j + 1 \in P \cap Q
    BY <1>1
  <2>3. P \cap Q \in SUBSET (1..(n * B))
    BY <1>1
  <2> HIDE DEF s
  <2>4. BitsAre(s, P \cap Q)
    BY <1>3, <2>1, <2>2, <2>3
  <2>5. QED BY <2>4 DEF s
<1>5. BitsAre([i \in 1..n |-> l[i] \cup r[i]], P \cup Q)
  <2> DEFINE s == [i \in 1..n |-> l[i] \cup r[i]]
  <2>1. s \in [1..n -> SUBSET (0..(B - 1))]
    BY <1>1
  <2>2. \A k \in 0..(n - 1), j \in 0..(B - 1) : j \in s[k + 1] <=> k * B + j + 1 \in P \cup Q
    BY <1>1
  <2>3. P \cup Q \in SUBSET (1..(n * B))
    BY <1>1
  <2> HIDE DEF s
  <2>4. BitsAre(s, P \cup Q)
    BY <1>3, <2>1, <2>2, <2>3
  <2>5. QED BY <2>4 DEF s
<1>6. BitsAre([i \in 1..n |-> (l[i] \cup r[i]) \ (l[i] \cap r[i])], (P \cup Q) \ (P \cap Q))
  <2> DEFINE s == [i \in 1..n |-> (l[i] \cup r[i]) \ (l[i] \cap r[i])]
  <2>1. s \in [1..n -> SUBSET (0..(B - 1))]
    BY <1>1
  <2>2. \A k \in 0..(n - 1), j \in 0..(B - 1) : j \in s[k + 1] <=> k * B + j + 1 \in (P \cup Q) \ (P \cap Q)
    BY <1>1
  <2>3. (P \cup Q) \ (P \cap Q) \in SUBSET (1..(n * B))
    BY <1>1
  <2> HIDE DEF s
  <2>4. BitsAre(s, (P \cup Q) \ (P \cap Q))
    BY <1>3, <2>1, <2>2, <2>3
  <2>5. QED BY <2>4 DEF s
<1>7. QED BY <1>2, <1>4, <1>5, <1>6

-----------------------------------------------------------------------------
(* The elements picked, one position after the other.                       *)
LEMMA UpToIsFinite ==
  ASSUME NEW n \in Nat, NEW Q \in SUBSET (1..n)
  PROVE  IsFiniteSet(Q) /\ Cardinality(Q) \in Nat /\ Cardinality(Q) <= n
<1>1. IsFiniteSet(1..n) /\ Cardinality(1..n) = IF 1 > n THEN 0 ELSE n - 1 + 1
  BY FS_Interval
<1>2. IsFiniteSet(Q) /\ Cardinality(Q) <= Cardinality(1..n)
  BY <1>1, FS_Subset
<1>3. Cardinality(Q) \in Nat
  BY <1>2, FS_CardinalityType
<1>4. QED BY <1>1, <1>2, <1>3

LEMMA PickedGrows ==
  ASSUME NEW S, NEW list \in Seq(S), NEW n \in Nat, n + 1 <= Len(list), NEW Q \in SUBSET (1..n),
         Picked(list, Q) \in Seq(S)
  PROVE  /\ Cardinality(Q \cup {n + 1}) = Cardinality(Q) + 1
         /\ Picked(list, Q \cup {n + 1}) = Append(Picked(list, Q), list[n + 1])
<1> DEFINE c == Cardinality(Q)
           R == Q \cup {n + 1}
           upTo(X, i) == {j \in X : j <= i}
<1>1. IsFiniteSet(Q) /\ c \in Nat /\ n + 1 \notin Q
  BY UpToIsFinite
<1>2. Cardinality(R) = c + 1
  BY <1>1, FS_AddElement
<1>3. ASSUME NEW i \in Q PROVE upTo(R, i) = upTo(Q, i)
  <2>1. i \in 1..n /\ ~ (n + 1 <= i)
    OBVIOUS
  <2>2. QED BY <2>1
<1>4. upTo(R, n + 1) = R
  <2>1. \A j \in R : j <= n + 1
    OBVIOUS
  <2>2. QED BY <2>1
<1>5. \A i \in Q : Cardinality(upTo(Q, i)) \in Nat /\ Cardinality(upTo(Q, i)) <= c
  <2>1. \A i \in Q : upTo(Q, i) \in SUBSET Q
    OBVIOUS
  <2> HIDE DEF upTo
  <2>2. QED BY <1>1, <2>1, FS_Subset, FS_CardinalityType
<1>6. ASSUME NEW k \in 1..c PROVE RankedAs(k, R) = RankedAs(k, Q)
  <2>1. RankedAs(k, R) = {i \in R : Cardinality(upTo(R, i)) = k} /\ RankedAs(k, Q) = {i \in Q : Cardinality(upTo(Q, i)) = k}
    BY DEF RankedAs
  <2>2. Cardinality(upTo(R, n + 1)) # k
    <3> HIDE DEF upTo, R, c
    <3>1. QED BY <1>1, <1>2, <1>4
  <2>3. \A i \in Q : Cardinality(upTo(R, i)) = Cardinality(upTo(Q, i))
    BY <1>3
  <2> HIDE DEF upTo
  <2>4. QED BY <2>1, <2>2, <2>3
<1>7. RankedAs(c + 1, R) = {n + 1}
  <2>1. RankedAs(c + 1, R) = {i \in R : Cardinality(upTo(R, i)) = c + 1}
    BY DEF RankedAs
  <2>2. Cardinality(upTo(R, n + 1)) = c + 1
    BY <1>2, <1>4
  <2>3. \A i \in Q : Cardinality(upTo(R, i)) # c + 1
    BY <1>1, <1>3, <1>5
  <2> HIDE DEF upTo
  <2>4. QED BY <2>1, <2>2, <2>3
<1>8. Picked(list, R) = [k \in 1..(c + 1) |-> IF k <= c THEN Picked(list, Q)[k] ELSE list[n + 1]]
  <2>1. ASSUME NEW k \in 1..(c + 1)
        PROVE  list[CHOOSE i \in RankedAs(k, R) : TRUE] = IF k <= c THEN Picked(list, Q)[k] ELSE list[n + 1]
    <3>1. CASE k <= c
      <4>1. k \in 1..c
        BY <1>1, <3>1
      <4>2. Picked(list, Q)[k] = list[CHOOSE i \in RankedAs(k, Q) : TRUE]
        BY <4>1 DEF Picked
      <4>3. QED BY <1>6, <3>1, <4>1, <4>2
    <3>2. CASE ~ (k <= c)
      <4>1. k = c + 1
        BY <1>1, <3>2
      <4>2. (CHOOSE i \in RankedAs(k, R) : TRUE) = n + 1
        <5>1. RankedAs(k, R) = {n + 1}
          BY <1>7, <4>1
        <5>2. QED BY <5>1
      <4> DEFINE at == CHOOSE i \in RankedAs(k, R) : TRUE
      <4>3. at = n + 1
        BY <4>2
      <4> HIDE DEF at
      <4>4. list[at] = list[n + 1]
        BY <4>3
      <4>5. QED BY <3>2, <4>4 DEF at
    <3>3. QED BY <3>1, <3>2
  <2>2. Picked(list, R) = [k \in 1..(c + 1) |-> list[CHOOSE i \in RankedAs(k, R) : TRUE]]
    BY <1>2 DEF Picked
  <2>3. QED BY <2>1, <2>2
<1>9. Len(Picked(list, Q)) = c
  <2>1. DOMAIN Picked(list, Q) = 1..c
    BY DEF Picked
  <2>2. QED BY <1>1, <2>1
<1>10. list[n + 1] \in S
  OBVIOUS
<1>11. Append(Picked(list, Q), list[n + 1]) = [k \in 1..(c + 1) |-> IF k <= c THEN Picked(list, Q)[k] ELSE list[n + 1]]
  BY <1>1, <1>9, <1>10
<1>12. QED BY <1>2, <1>8, <1>11

LEMMA NothingPicked ==
  ASSUME NEW list
  PROVE  Cardinality({}) = 0 /\ Picked(list, {}) = << >>
<1>1. Cardinality({}) = 0
  BY FS_EmptySet
<1>2. QED BY <1>1 DEF Picked

-----------------------------------------------------------------------------
(* The loops of FilterByBitmap.  After pos positions the elements kept are   *)
(* those picked so far, and at most one more is written.                    *)
Before(P, pos) == P \cap 1..pos

KeptIs(list, P, st, pos) ==
  /\ st.data \in Seq(Elements) /\ st.cur \in Nat
  /\ st.cur <= Len(st.data) /\ Len(st.data) <= st.cur + 1
  /\ st.cur = Cardinality(Before(P, pos))
  /\ Kept(st) = Picked(list, Before(P, pos))

LEMMA KeptIsSeq ==
  ASSUME NEW list, NEW P, NEW st, NEW pos, KeptIs(list, P, st, pos)
  PROVE  Kept(st) \in Seq(Elements) /\ Len(Kept(st)) = st.cur
BY DEF KeptIs, Kept

(* One position more, by the branchless loop.                               *)
Next1(list, P, st, pos) ==
  [data |-> Append(Kept(st), list[pos + 1]), cur |-> st.cur + (IF pos + 1 \in P THEN 1 ELSE 0)]

LEMMA OneMore ==
  ASSUME NEW list \in Seq(Elements), NEW P, NEW st, NEW pos \in Nat, pos + 1 <= Len(list),
         KeptIs(list, P, st, pos)
  PROVE  KeptIs(list, P, Next1(list, P, st, pos), pos + 1)
<1> DEFINE next == Next1(list, P, st, pos)
           x == list[pos + 1]
<1>1. Kept(st) \in Seq(Elements) /\ Len(Kept(st)) = st.cur /\ st.cur \in Nat /\ x \in Elements
  BY KeptIsSeq DEF KeptIs
<1>2. /\ next.data = Append(Kept(st), x) /\ next.data \in Seq(Elements) /\ Len(next.data) = st.cur + 1
      /\ next.cur = st.cur + (IF pos + 1 \in P THEN 1 ELSE 0)
  BY <1>1 DEF Next1
<1>3. Before(P, pos) \in SUBSET (1..pos)
  BY DEF Before
<1>4. CASE pos + 1 \in P
  <2>1. Before(P, pos + 1) = Before(P, pos) \cup {pos + 1}
    BY <1>4 DEF Before
  <2>2. /\ Cardinality(Before(P, pos + 1)) = st.cur + 1
        /\ Picked(list, Before(P, pos + 1)) = Append(Kept(st), x)
    <3>1. Picked(list, Before(P, pos)) = Kept(st) /\ st.cur = Cardinality(Before(P, pos))
      BY DEF KeptIs
    <3>2. QED BY <1>1, <1>3, <2>1, <3>1, PickedGrows
  <2>3. Kept(next) = next.data
    BY <1>1, <1>2, <1>4, SubSeqFull DEF Kept
  <2>4. QED BY <1>1, <1>2, <1>4, <2>2, <2>3 DEF KeptIs
<1>5. CASE pos + 1 \notin P
  <2>1. Before(P, pos + 1) = Before(P, pos)
    BY <1>5 DEF Before
  <2>2. next.cur = st.cur
    BY <1>1, <1>2, <1>5
  <2>3. Kept(next) = Kept(st)
    <3>1. SubSeq(Append(Kept(st), x), 1, st.cur) = Kept(st)
      BY <1>1
    <3>2. QED BY <1>2, <2>2, <3>1 DEF Kept
  <2>4. QED BY <1>1, <1>2, <2>1, <2>2, <2>3 DEF KeptIs
<1>6. QED BY <1>4, <1>5

LEMMA BranchlessKeeps ==
  ASSUME NEW list \in Seq(Elements), NEW bytes, NEW P, NEW st, NEW k \in Nat, NEW bits \in Nat,
         k * ByteBits + bits <= Len(list), KeptIs(list, P, st, k * ByteBits),
         \A j \in 0..(bits - 1) : j \in bytes[k + 1] <=> k * ByteBits + j + 1 \in P
  PROVE  KeptIs(list, P, Branchless(list, bytes, st, k, bits), k * ByteBits + bits)
<1> DEFINE base == k * ByteBits
           Step(s, j) == [data |-> Append(Kept(s), list[base + j]),
                          cur |-> s.cur + (IF j - 1 \in bytes[k + 1] THEN 1 ELSE 0)]
           Runs(f, m) == f = [j \in 0..m |-> IF j = 0 THEN st ELSE Step(f[j - 1], j)]
           T == {m \in Nat : \E f : Runs(f, m)}
           after == CHOOSE f : Runs(f, bits)
           K == {j \in Nat : KeptIs(list, P, after[j], base + j)}
<1>1. Branchless(list, bytes, st, k, bits) = after[bits]
  BY DEF Branchless
<1>2. base \in Nat
  BY Widths, Product
<1>3. ASSUME NEW j \in 1..bits, NEW s PROVE Step(s, j) = Next1(list, P, s, base + (j - 1))
  <2>1. j - 1 \in 0..(bits - 1) /\ base + (j - 1) + 1 = base + j
    BY <1>2
  <2>2. j - 1 \in bytes[k + 1] <=> base + j \in P
    BY <2>1
  <2> HIDE DEF base
  <2>3. QED BY <2>1, <2>2 DEF Next1
<1>4. KeptIs(list, P, st, base + 0) /\ base + bits <= Len(list)
  BY <1>2
<1> HIDE DEF Step, base
<1>5. 0 \in T
  <2>1. Runs([j \in 0..0 |-> st], 0)
    OBVIOUS
  <2>2. QED BY <2>1
<1>6. ASSUME NEW m \in T PROVE m + 1 \in T
  <2>1. PICK f : Runs(f, m)
    OBVIOUS
  <2> DEFINE g == [j \in 0..(m + 1) |-> IF j = m + 1 THEN Step(f[m], m + 1) ELSE f[j]]
  <2>2. ASSUME NEW j \in 0..(m + 1) PROVE g[j] = IF j = 0 THEN st ELSE Step(g[j - 1], j)
    <3>1. CASE j = m + 1
      <4>1. j # 0 /\ j - 1 = m /\ m \in 0..(m + 1) /\ m # m + 1
        BY <3>1
      <4>2. QED BY <3>1, <4>1
    <3>2. CASE j # m + 1
      <4>1. j \in 0..m /\ (j # 0 => j - 1 \in 0..(m + 1) /\ j - 1 # m + 1)
        BY <3>2
      <4>2. QED BY <2>1, <3>2, <4>1
    <3>3. QED BY <3>1, <3>2
  <2>3. g = [j \in 0..(m + 1) |-> g[j]]
    OBVIOUS
  <2> HIDE DEF g
  <2>4. Runs(g, m + 1)
    BY <2>2, <2>3
  <2>5. m + 1 \in Nat
    OBVIOUS
  <2> HIDE DEF Runs
  <2>6. QED BY <2>4, <2>5
<1>7. Runs(after, bits)
  <2>1. T \in SUBSET Nat
    OBVIOUS
  <2> HIDE DEF T
  <2>2. bits \in T
    BY <1>5, <1>6, <2>1, Induction
  <2>3. \E f : Runs(f, bits)
    BY <2>2 DEF T
  <2> HIDE DEF Runs
  <2>4. QED BY <2>3
<1> HIDE DEF after
<1>8. 0 \in K
  BY <1>4, <1>7
<1>9. ASSUME NEW j \in 1..bits, j - 1 \in K PROVE j \in K
  <2>1. after[j] = Next1(list, P, after[j - 1], base + (j - 1))
    BY <1>3, <1>7
  <2>2. base + (j - 1) \in Nat /\ base + (j - 1) + 1 = base + j /\ base + j <= Len(list)
    BY <1>2, <1>4
  <2>3. KeptIs(list, P, after[j], base + (j - 1) + 1)
    BY <1>9, <2>1, <2>2, OneMore
  <2>4. QED BY <2>2, <2>3
<1>10. 0..bits \subseteq K
  <2> HIDE DEF K
  <2>1. QED BY <1>8, <1>9, UpTo
<1>11. QED BY <1>1, <1>10 DEF base

(* A piece of a list.                                                       *)
LEMMA PieceIs ==
  ASSUME NEW S, NEW list \in Seq(S), NEW from \in Nat, NEW m \in Nat, from + m <= Len(list)
  PROVE  LET piece == SubSeq(list, from + 1, from + m)
         IN  piece \in Seq(S) /\ Len(piece) = m /\ \A i \in 1..m : piece[i] = list[from + i]
<1> DEFINE lo == from + 1
           hi == from + m
           piece == SubSeq(list, lo, hi)
<1>1. /\ lo \in Int /\ hi \in Int /\ \A i \in lo..hi : list[i] \in S
      /\ hi - lo + 1 = m /\ (lo <= hi <=> m # 0) /\ \A i \in 1..m : lo + i - 1 = from + i
  OBVIOUS
<1> HIDE DEF lo, hi
<1>2. /\ piece \in Seq(S) /\ Len(piece) = IF lo <= hi THEN hi - lo + 1 ELSE 0
      /\ \A i \in 1..(hi - lo + 1) : piece[i] = list[lo + i - 1]
  BY <1>1, SubSeqProperties
<1> HIDE DEF piece
<1>3. piece \in Seq(S) /\ Len(piece) = m /\ \A i \in 1..m : piece[i] = list[from + i]
  BY <1>1, <1>2
<1>4. QED BY <1>3 DEF piece, lo, hi

(* A piece of a list appended to another grows by one element at a time.     *)
LEMMA PieceGrows ==
  ASSUME NEW S, NEW s \in Seq(S), NEW list \in Seq(S), NEW from \in Nat, NEW m \in Nat,
         from + m + 1 <= Len(list)
  PROVE  s \o SubSeq(list, from + 1, from + (m + 1)) =
           Append(s \o SubSeq(list, from + 1, from + m), list[from + m + 1])
<1> DEFINE short == SubSeq(list, from + 1, from + m)
           long == SubSeq(list, from + 1, from + (m + 1))
           x == list[from + m + 1]
<1>1. short \in Seq(S) /\ Len(short) = m /\ \A i \in 1..m : short[i] = list[from + i]
  <2>1. from + m <= Len(list)
    OBVIOUS
  <2>2. QED BY <2>1, PieceIs
<1>2. long \in Seq(S) /\ Len(long) = m + 1 /\ \A i \in 1..(m + 1) : long[i] = list[from + i]
  <2>1. m + 1 \in Nat /\ from + (m + 1) <= Len(list)
    OBVIOUS
  <2>2. QED BY <2>1, PieceIs
<1>3. x \in S /\ long[m + 1] = x
  <2>1. from + m + 1 \in 1..Len(list) /\ m + 1 \in 1..(m + 1) /\ from + (m + 1) = from + m + 1
    OBVIOUS
  <2>2. x \in S
    BY <2>1
  <2> HIDE DEF long, x
  <2>3. QED BY <1>2, <2>1, <2>2 DEF x
<1> HIDE DEF short, long, x
<1> DEFINE left == s \o long
           rest == s \o short
           right == Append(rest, x)
<1> DEFINE IsJoined(t, u) == /\ u \in Seq(S) /\ Len(u) = Len(s) + Len(t)
                             /\ \A i \in 1..(Len(s) + Len(t)) : u[i] = IF i <= Len(s) THEN s[i] ELSE t[i - Len(s)]
<1>4. \A t \in Seq(S) : IsJoined(t, s \o t)
  BY ConcatProperties
<1>5. /\ rest \in Seq(S) /\ Len(rest) = Len(s) + m
      /\ \A i \in 1..(Len(s) + m) : rest[i] = IF i <= Len(s) THEN s[i] ELSE short[i - Len(s)]
  <2> HIDE DEF IsJoined
  <2>1. IsJoined(short, rest)
    BY <1>1, <1>4
  <2> HIDE DEF rest
  <2>2. QED BY <1>1, <2>1 DEF IsJoined
<1>6. /\ left \in Seq(S) /\ Len(left) = Len(s) + (m + 1)
      /\ \A i \in 1..(Len(s) + (m + 1)) : left[i] = IF i <= Len(s) THEN s[i] ELSE long[i - Len(s)]
  <2> HIDE DEF IsJoined
  <2>1. IsJoined(long, left)
    BY <1>2, <1>4
  <2> HIDE DEF left
  <2>2. QED BY <1>2, <2>1 DEF IsJoined
<1> HIDE DEF rest, left
<1> DEFINE IsLonger(t, u) == /\ u \in Seq(S) /\ Len(u) = Len(t) + 1
                             /\ \A i \in 1..Len(t) : u[i] = t[i]
                             /\ u[Len(t) + 1] = x
<1>7. IsLonger(rest, right)
  <2>1. x \in S
    BY <1>3
  <2>2. \A t \in Seq(S) : IsLonger(t, Append(t, x))
    BY <2>1, AppendProperties
  <2> HIDE DEF IsLonger
  <2>3. QED BY <1>5, <2>2
<1> HIDE DEF right
<1>8. Len(s) \in Nat
  OBVIOUS
<1>9. ASSUME NEW i \in 1..Len(left) PROVE left[i] = right[i]
  <2>1. CASE i <= Len(s)
    <3>1. i \in 1..(Len(s) + m) /\ i \in 1..(Len(s) + (m + 1)) /\ i \in 1..Len(rest)
      BY <1>5, <1>6, <1>8, <2>1
    <3>2. QED BY <1>5, <1>6, <1>7, <2>1, <3>1
  <2>2. CASE i > Len(s) /\ i <= Len(s) + m
    <3>1. i - Len(s) \in 1..m /\ i - Len(s) \in 1..(m + 1)
      BY <1>6, <1>8, <2>2
    <3>2. short[i - Len(s)] = long[i - Len(s)]
      BY <1>1, <1>2, <3>1
    <3>3. QED BY <1>5, <1>6, <1>7, <1>8, <2>2, <3>2
  <2>3. CASE i > Len(s) + m
    <3>1. i = Len(s) + m + 1 /\ i - Len(s) = m + 1
      BY <1>6, <1>8, <2>3
    <3>2. left[i] = long[m + 1]
      BY <1>6, <1>8, <2>3, <3>1
    <3>3. QED BY <1>3, <1>5, <1>7, <3>1, <3>2
  <2>4. QED BY <1>6, <1>8, <2>1, <2>2, <2>3
<1>10. left = right
  <2>1. Len(left) = Len(right)
    BY <1>5, <1>6, <1>7, <1>8
  <2>2. QED BY <1>6, <1>7, <1>9, <2>1, SeqEqual
<1>11. QED BY <1>10 DEF left, right, rest, short, long, x

(* A whole byte of ones is copied.  Each element is one step of OneMore.     *)
LEMMA CopiedKeeps ==
  ASSUME NEW list \in Seq(Elements), NEW P, NEW st, NEW k \in Nat,
         k * ByteBits + ByteBits <= Len(list), KeptIs(list, P, st, k * ByteBits),
         \A j \in 0..(ByteBits - 1) : k * ByteBits + j + 1 \in P
  PROVE  KeptIs(list, P, Copied(list, st, k), k * ByteBits + ByteBits)
<1> DEFINE base == k * ByteBits
           B == ByteBits
           upTo(m) == [data |-> Kept(st) \o SubSeq(list, base + 1, base + m), cur |-> st.cur + m]
           K == {m \in Nat : KeptIs(list, P, upTo(m), base + m)}
<1>1. Copied(list, st, k) = upTo(B)
  BY DEF Copied
<1>2. base \in Nat /\ B \in Nat \ {0} /\ base + B <= Len(list) /\ \A j \in 0..(B - 1) : base + j + 1 \in P
  BY Widths, Product
<1>3. Kept(st) \in Seq(Elements) /\ Len(Kept(st)) = st.cur /\ st.cur \in Nat
  BY KeptIsSeq DEF KeptIs
<1>4. KeptIs(list, P, st, base)
  OBVIOUS
<1> HIDE DEF base, B
<1>5. 0 \in K
  <2>1. base + 0 < base + 1 /\ base + 0 = base /\ st.cur + 0 = st.cur
    BY <1>2, <1>3
  <2>2. Kept(st) \o SubSeq(list, base + 1, base + 0) = Kept(st)
    <3>1. SubSeq(list, base + 1, base + 0) = << >>
      BY <1>2, <2>1, SubSeqEmpty
    <3>2. QED BY <1>3, <3>1, ConcatEmptySeq
  <2>3. upTo(0) = [data |-> Kept(st), cur |-> st.cur]
    BY <2>1, <2>2
  <2>4. Kept(upTo(0)) = Kept(st)
    <3>1. SubSeq(Kept(st), 1, st.cur) = Kept(st)
      BY <1>3, SubSeqFull
    <3>2. QED BY <2>3, <3>1 DEF Kept
  <2>5. upTo(0).data = Kept(st) /\ upTo(0).cur = st.cur
    BY <2>3
  <2> HIDE DEF upTo
  <2>6. KeptIs(list, P, upTo(0), base)
    BY <1>3, <1>4, <2>4, <2>5 DEF KeptIs
  <2>7. QED BY <2>1, <2>6
<1>6. ASSUME NEW m \in 1..B, m - 1 \in K PROVE m \in K
  <2> DEFINE i == m - 1
             n == base + i
  <2>1. i \in Nat /\ i + 1 = m /\ n \in Nat /\ n + 1 = base + m /\ n + 1 <= Len(list) /\ n + 1 \in P
    <3>1. i \in 0..(B - 1) /\ base + i + 1 = base + m
      BY <1>2
    <3>2. base + i \in Nat /\ base + i + 1 <= Len(list)
      BY <1>2, <3>1
    <3>3. i \in Nat /\ i + 1 = m
      OBVIOUS
    <3>4. base + i + 1 \in P
      BY <1>2, <3>1
    <3> HIDE DEF i
    <3>5. QED BY <3>1, <3>2, <3>3, <3>4
  <2>2. KeptIs(list, P, upTo(i), n)
    BY <1>6
  <2>3. KeptIs(list, P, Next1(list, P, upTo(i), n), n + 1)
    <3> HIDE DEF upTo, n, i
    <3>1. QED BY <2>1, <2>2, OneMore
  <2>4. Next1(list, P, upTo(i), n) = upTo(m)
    <3>1. Kept(upTo(i)) = upTo(i).data
      <4>1. upTo(i).data \in Seq(Elements) /\ Len(upTo(i).data) = st.cur + i /\ upTo(i).cur = st.cur + i
        <5> DEFINE piece == SubSeq(list, base + 1, base + i)
        <5>1. piece \in Seq(Elements) /\ Len(piece) = i
          <6>1. i \in Nat /\ base + i <= Len(list)
            BY <1>2, <2>1
          <6> HIDE DEF i
          <6>2. QED BY <1>2, <6>1, PieceIs
        <5> HIDE DEF piece
        <5>2. Kept(st) \o piece \in Seq(Elements) /\ Len(Kept(st) \o piece) = st.cur + i
          <6>1. Kept(st) \o piece \in Seq(Elements) /\ Len(Kept(st) \o piece) = Len(Kept(st)) + Len(piece)
            BY <1>3, <5>1, ConcatProperties
          <6> HIDE DEF i
          <6>2. QED BY <1>3, <5>1, <6>1
        <5>3. upTo(i).data = Kept(st) \o piece /\ upTo(i).cur = st.cur + i
          BY DEF piece
        <5>4. QED BY <5>2, <5>3
      <4> HIDE DEF upTo
      <4>2. QED BY <4>1, SubSeqFull DEF Kept
    <3>2. Kept(st) \o SubSeq(list, base + 1, base + (i + 1)) =
            Append(Kept(st) \o SubSeq(list, base + 1, base + i), list[base + i + 1])
      <4> HIDE DEF i
      <4>1. i \in Nat /\ base \in Nat /\ base + i + 1 <= Len(list)
        BY <1>2, <2>1 DEF n
      <4>2. Kept(st) \in Seq(Elements)
        BY <1>3
      <4>3. \A s \in Seq(Elements) :
              s \o SubSeq(list, base + 1, base + (i + 1)) =
                Append(s \o SubSeq(list, base + 1, base + i), list[base + i + 1])
        BY <4>1, PieceGrows
      <4>4. QED BY <4>2, <4>3
    <3>3. st.cur + i + 1 = st.cur + m
      BY <1>3, <2>1
    <3>4. upTo(m) = [data |-> Append(upTo(i).data, list[n + 1]), cur |-> upTo(i).cur + 1]
      BY <2>1, <3>2, <3>3
    <3> HIDE DEF upTo, n, i
    <3>5. QED BY <2>1, <3>1, <3>4 DEF Next1
  <2>5. m \in Nat
    BY <1>2
  <2> HIDE DEF upTo, i, n
  <2>6. QED BY <2>1, <2>3, <2>4, <2>5
<1>7. B \in K
  <2> HIDE DEF K
  <2>1. 0..B \subseteq K
    BY <1>2, <1>5, <1>6, UpTo
  <2>2. QED BY <1>2, <2>1
<1>8. QED BY <1>1, <1>7 DEF base, B

(* A byte of zeros is skipped, one of ones copied, any other goes bit by bit. *)
LEMMA FilterByteKeeps ==
  ASSUME NEW list \in Seq(Elements), NEW bytes, NEW P, NEW st, NEW k \in Nat,
         k * ByteBits + ByteBits <= Len(list), KeptIs(list, P, st, k * ByteBits),
         \A j \in 0..(ByteBits - 1) : j \in bytes[k + 1] <=> k * ByteBits + j + 1 \in P
  PROVE  KeptIs(list, P, FilterByte(list, bytes, st, k), k * ByteBits + ByteBits)
<1> DEFINE base == k * ByteBits
<1>1. ByteBits \in Nat \ {0} /\ base \in Nat
  BY Widths, Product
<1>2. CASE bytes[k + 1] = {}
  <2>1. Before(P, base + ByteBits) = Before(P, base)
    <3>1. ASSUME NEW i \in P, i \in 1..(base + ByteBits), i \notin 1..base PROVE FALSE
      <4>1. i - base - 1 \in 0..(ByteBits - 1) /\ base + (i - base - 1) + 1 = i
        <5> HIDE DEF base
        <5>1. QED BY <1>1, <3>1
      <4>2. i - base - 1 \in bytes[k + 1]
        BY <3>1, <4>1
      <4>3. QED BY <1>2, <4>2
    <3>2. 1..base \subseteq 1..(base + ByteBits)
      <4> HIDE DEF base
      <4>1. QED BY <1>1
    <3>3. QED BY <3>1, <3>2 DEF Before
  <2>2. FilterByte(list, bytes, st, k) = st
    BY <1>2 DEF FilterByte
  <2>3. QED BY <2>1, <2>2 DEF KeptIs
<1>3. CASE bytes[k + 1] = 0..(ByteBits - 1)
  <2>1. bytes[k + 1] # {}
    <3>1. 0 \in 0..(ByteBits - 1)
      BY <1>1
    <3>2. QED BY <1>3, <3>1
  <2>2. FilterByte(list, bytes, st, k) = Copied(list, st, k)
    BY <1>3, <2>1 DEF FilterByte
  <2>3. \A j \in 0..(ByteBits - 1) : k * ByteBits + j + 1 \in P
    BY <1>3
  <2>4. QED BY <2>2, <2>3, CopiedKeeps
<1>4. CASE bytes[k + 1] # {} /\ bytes[k + 1] # 0..(ByteBits - 1)
  <2>1. FilterByte(list, bytes, st, k) = Branchless(list, bytes, st, k, ByteBits)
    BY <1>4 DEF FilterByte
  <2>2. QED BY <1>1, <2>1, BranchlessKeeps
<1>5. QED BY <1>2, <1>3, <1>4

LEMMA FilteringKeeps ==
  ASSUME NEW list \in Seq(Elements), NEW bytes, NEW P, BitsAre(bytes, P), Len(bytes) = BytesFor(Len(list))
  PROVE  KeptIs(list, P, Filtering(list, bytes), Len(list))
<1> DEFINE n == Len(list)
           whole == n \div ByteBits
           rest == n - whole * ByteBits
           first == [data |-> << >>, cur |-> 0]
           Runs(f, m) == f = [k \in 0..m |-> IF k = 0 THEN first ELSE FilterByte(list, bytes, f[k - 1], k - 1)]
           T == {m \in Nat : \E f : Runs(f, m)}
           after == CHOOSE f : Runs(f, whole)
           K == {k \in Nat : KeptIs(list, P, after[k], k * ByteBits)}
<1>1. /\ n \in Nat /\ whole \in Nat /\ whole * ByteBits \in Nat /\ rest \in 0..(ByteBits - 1)
      /\ BytesFor(n) = (IF rest = 0 THEN whole ELSE whole + 1) /\ ByteBits \in Nat \ {0}
  <2>1. n \in Nat
    OBVIOUS
  <2> HIDE DEF n
  <2>2. /\ whole \in Nat /\ whole * ByteBits \in Nat /\ rest \in 0..(ByteBits - 1)
        /\ BytesFor(n) = (IF rest = 0 THEN whole ELSE whole + 1)
    BY <2>1, Bytes
  <2>3. QED BY <2>1, <2>2, Widths
<1>2. Filtering(list, bytes) =
        IF whole < Len(bytes) THEN Branchless(list, bytes, after[whole], whole, rest) ELSE after[whole]
  BY DEF Filtering
<1>3. n = whole * ByteBits + rest
  <2> DEFINE w == whole * ByteBits
  <2>1. w \in Nat /\ rest = n - w
    BY <1>1
  <2> HIDE DEF w, n
  <2>2. QED BY <1>1, <2>1
<1> HIDE DEF n, whole, rest
<1>4. ASSUME NEW k \in Nat, k < Len(bytes), NEW bits \in 0..ByteBits
      PROVE  \A j \in 0..(bits - 1) : j \in bytes[k + 1] <=> k * ByteBits + j + 1 \in P
  <2>1. k \in 0..(Len(bytes) - 1) /\ 0..(bits - 1) \subseteq 0..(ByteBits - 1)
    BY <1>1, <1>4
  <2>2. QED BY <2>1 DEF BitsAre
<1>5. 0 \in T
  <2>1. Runs([k \in 0..0 |-> first], 0)
    OBVIOUS
  <2>2. QED BY <2>1
<1>6. ASSUME NEW m \in T PROVE m + 1 \in T
  <2>1. PICK f : Runs(f, m)
    OBVIOUS
  <2> DEFINE g == [k \in 0..(m + 1) |-> IF k = m + 1 THEN FilterByte(list, bytes, f[m], m) ELSE f[k]]
  <2>2. ASSUME NEW k \in 0..(m + 1)
        PROVE  g[k] = IF k = 0 THEN first ELSE FilterByte(list, bytes, g[k - 1], k - 1)
    <3>1. CASE k = m + 1
      <4>1. k # 0 /\ k - 1 = m /\ m \in 0..(m + 1) /\ m # m + 1
        BY <3>1
      <4>2. QED BY <3>1, <4>1
    <3>2. CASE k # m + 1
      <4>1. k \in 0..m /\ (k # 0 => k - 1 \in 0..(m + 1) /\ k - 1 # m + 1)
        BY <3>2
      <4>2. QED BY <2>1, <3>2, <4>1
    <3>3. QED BY <3>1, <3>2
  <2>3. g = [k \in 0..(m + 1) |-> g[k]]
    OBVIOUS
  <2> HIDE DEF g
  <2>4. Runs(g, m + 1)
    BY <2>2, <2>3
  <2>5. m + 1 \in Nat
    OBVIOUS
  <2> HIDE DEF Runs
  <2>6. QED BY <2>4, <2>5
<1>7. Runs(after, whole)
  <2>1. T \in SUBSET Nat
    OBVIOUS
  <2> HIDE DEF T
  <2>2. whole \in T
    BY <1>1, <1>5, <1>6, <2>1, Induction
  <2>3. \E f : Runs(f, whole)
    BY <2>2 DEF T
  <2> HIDE DEF Runs
  <2>4. QED BY <2>3
<1> HIDE DEF after
<1>8. 0 \in K
  <2>1. after[0] = first /\ 0 * ByteBits = 0
    BY <1>1, <1>7
  <2>2. Before(P, 0) = {}
    BY DEF Before
  <2>3. Kept(first) = << >> /\ first.data \in Seq(Elements) /\ first.cur = 0 /\ Len(first.data) = 0
    <3>1. SubSeq(<< >>, 1, 0) = << >>
      BY SubSeqEmpty
    <3>2. QED BY <3>1 DEF Kept
  <2>4. Cardinality({}) = 0 /\ Picked(list, {}) = << >>
    BY NothingPicked
  <2> HIDE DEF first
  <2>5. KeptIs(list, P, first, 0)
    <3>1. first.cur = Cardinality(Before(P, 0)) /\ Kept(first) = Picked(list, Before(P, 0))
      BY <2>2, <2>3, <2>4
    <3>2. first.cur \in Nat /\ first.cur <= Len(first.data) /\ Len(first.data) <= first.cur + 1
      BY <2>3
    <3>3. QED BY <2>3, <3>1, <3>2 DEF KeptIs
  <2>6. QED BY <2>1, <2>5
<1>9. ASSUME NEW k \in 1..whole, k - 1 \in K PROVE k \in K
  <2> DEFINE i == k - 1
  <2>1. i \in Nat /\ i + 1 = k /\ i + 1 <= whole /\ k \in Nat
    BY <1>1
  <2>2. after[k] = FilterByte(list, bytes, after[i], i)
    BY <1>1, <1>7
  <2>3. KeptIs(list, P, after[i], i * ByteBits)
    BY <1>9
  <2> HIDE DEF i
  <2>4. k * ByteBits = i * ByteBits + ByteBits /\ i * ByteBits \in Nat
    <3>1. (i + 1) * ByteBits = i * ByteBits + ByteBits
      BY <1>1, <2>1
    <3>2. QED BY <1>1, <2>1, <3>1, Product
  <2>5. k * ByteBits <= n
    <3>1. ByteBits * k <= ByteBits * whole /\ ByteBits * k = k * ByteBits /\ ByteBits * whole = whole * ByteBits
      BY <1>1, <2>1, Product
    <3>2. QED BY <1>1, <1>3, <2>4, <3>1
  <2>6. \A j \in 0..(ByteBits - 1) : j \in bytes[i + 1] <=> i * ByteBits + j + 1 \in P
    <3>1. i < Len(bytes)
      BY <1>1, <2>1 DEF n
    <3>2. QED BY <1>1, <1>4, <2>1, <3>1
  <2>7. KeptIs(list, P, FilterByte(list, bytes, after[i], i), i * ByteBits + ByteBits)
    <3>1. i * ByteBits + ByteBits <= Len(list)
      BY <2>4, <2>5 DEF n
    <3>2. QED BY <2>1, <2>3, <2>6, <3>1, FilterByteKeeps
  <2>8. QED BY <2>1, <2>2, <2>4, <2>7
<1>10. KeptIs(list, P, after[whole], whole * ByteBits)
  <2> HIDE DEF K
  <2>1. 0..whole \subseteq K
    BY <1>1, <1>8, <1>9, UpTo
  <2>2. whole \in K
    BY <1>1, <2>1
  <2>3. QED BY <2>2 DEF K
<1>11. CASE rest = 0
  <2>1. ~ (whole < Len(bytes)) /\ n = whole * ByteBits
    BY <1>1, <1>3, <1>11 DEF n
  <2>2. QED BY <1>2, <1>10, <2>1 DEF n
<1>12. CASE rest # 0
  <2>1. whole < Len(bytes)
    BY <1>1, <1>12 DEF n
  <2>2. \A j \in 0..(rest - 1) : j \in bytes[whole + 1] <=> whole * ByteBits + j + 1 \in P
    BY <1>1, <1>4, <2>1
  <2>3. KeptIs(list, P, Branchless(list, bytes, after[whole], whole, rest), whole * ByteBits + rest)
    <3>1. whole * ByteBits + rest <= Len(list) /\ rest \in Nat
      BY <1>1, <1>3 DEF n
    <3>2. QED BY <1>1, <1>10, <2>2, <3>1, BranchlessKeeps
  <2>4. QED BY <1>2, <1>3, <2>1, <2>3 DEF n
<1>13. QED BY <1>11, <1>12

(* What FilterByBitmap returns without an error.                            *)
LEMMA FilterIsRight ==
  ASSUME NEW list \in Seq(Elements), NEW bytes, NEW P, BitsAre(bytes, P), NEW bits_cnt,
         ~ FilterByBitmap(list, bytes, bits_cnt).error
  PROVE  /\ P \subseteq DOMAIN list
         /\ FilterByBitmap(list, bytes, bits_cnt).list = Picked(list, P)
         /\ FilterByBitmap(list, bytes, bits_cnt).list \in Seq(Elements)
<1> DEFINE n == Len(list)
           whole == n \div ByteBits
           rest == n - whole * ByteBits
           st == Filtering(list, bytes)
<1>1. /\ n \in Nat /\ whole \in Nat /\ whole * ByteBits \in Nat /\ rest \in 0..(ByteBits - 1) /\ rest = n % ByteBits
      /\ BytesFor(n) = (IF rest = 0 THEN whole ELSE whole + 1)
      /\ (whole + 1) * ByteBits = whole * ByteBits + ByteBits
  <2>1. n \in Nat
    OBVIOUS
  <2> HIDE DEF n
  <2>2. QED BY <2>1, Bytes
<1>2. n = whole * ByteBits + rest
  <2> DEFINE w == whole * ByteBits
  <2>1. w \in Nat /\ rest = n - w
    BY <1>1
  <2> HIDE DEF w, n
  <2>2. QED BY <1>1, <2>1
<1>3. Error.error
  BY DEF Error
<1>4. /\ Len(bytes) = BytesFor(n)
      /\ ~ (rest # 0 /\ \E j \in bytes[Len(bytes)] : j >= rest)
      /\ st.cur = bits_cnt
      /\ FilterByBitmap(list, bytes, bits_cnt) = Returned(SubSeq(st.data, 1, bits_cnt))
  <2> DEFINE bad1 == BytesFor(n) # Len(bytes)
             bad2 == n % ByteBits # 0 /\ \E j \in bytes[Len(bytes)] : j >= n % ByteBits
             bad3 == st.cur # bits_cnt
             good == Returned(SubSeq(st.data, 1, bits_cnt))
             result == FilterByBitmap(list, bytes, bits_cnt)
  <2>1. result = CASE bad1 -> Error [] bad2 -> Error [] bad3 -> Error [] OTHER -> good
    BY DEF FilterByBitmap
  <2>2. bad2 <=> (rest # 0 /\ \E j \in bytes[Len(bytes)] : j >= rest)
    BY <1>1
  <2> HIDE DEF bad1, bad2, bad3, good
  <2>3. ~ result.error
    OBVIOUS
  <2> HIDE DEF result
  <2>4. ~ bad1 /\ ~ bad2 /\ ~ bad3 /\ result = good
    BY <1>3, <2>1, <2>3
  <2>5. QED BY <2>2, <2>4 DEF bad1, bad3, good, result
<1> HIDE DEF n, whole, rest
<1>5. ByteBits \in Nat \ {0} /\ P \subseteq 1..(Len(bytes) * ByteBits)
  BY Widths DEF BitsAre
<1>6. P \subseteq 1..n
  <2>1. CASE rest = 0
    BY <1>1, <1>2, <1>4, <1>5, <2>1
  <2>2. CASE rest # 0
    <3>1. Len(bytes) = whole + 1 /\ Len(bytes) * ByteBits = whole * ByteBits + ByteBits
      BY <1>1, <1>4, <2>2
    <3>2. ASSUME NEW i \in P, i > n PROVE FALSE
      <4> DEFINE j == i - whole * ByteBits - 1
      <4>1. i \in 1..(whole * ByteBits + ByteBits)
        BY <1>5, <3>1
      <4>2. j \in 0..(ByteBits - 1) /\ j >= rest /\ whole * ByteBits + j + 1 = i
        <5> DEFINE w == whole * ByteBits
        <5>1. w \in Nat /\ n = w + rest /\ j = i - w - 1 /\ i \in 1..(w + ByteBits)
          BY <1>1, <1>2, <4>1
        <5> HIDE DEF w, j
        <5>2. j \in 0..(ByteBits - 1) /\ j >= rest /\ w + j + 1 = i
          BY <1>1, <1>5, <3>2, <5>1
        <5>3. QED BY <5>2 DEF w
      <4> HIDE DEF j
      <4>3. whole \in 0..(Len(bytes) - 1)
        BY <1>1, <3>1
      <4>4. j \in bytes[whole + 1]
        BY <4>2, <4>3 DEF BitsAre
      <4>5. QED BY <1>4, <2>2, <3>1, <4>2, <4>4
    <3>3. \A i \in P : i \in Nat /\ i >= 1
      BY <1>5
    <3>4. QED BY <1>1, <3>2, <3>3
  <2>3. QED BY <2>1, <2>2
<1>7. KeptIs(list, P, st, n)
  BY <1>4, FilteringKeeps DEF n
<1>8. Before(P, n) = P
  BY <1>6 DEF Before
<1>9. SubSeq(st.data, 1, bits_cnt) = Kept(st)
  BY <1>4 DEF Kept
<1>10. Kept(st) = Picked(list, P) /\ Kept(st) \in Seq(Elements)
  BY <1>7, <1>8, KeptIsSeq DEF KeptIs
<1>11. DOMAIN list = 1..n
  BY DEF n
<1>12. FilterByBitmap(list, bytes, bits_cnt).list = Kept(st)
  BY <1>4, <1>9 DEF Returned
<1>13. QED BY <1>6, <1>10, <1>11, <1>12

-----------------------------------------------------------------------------
(* The mask that IfByBitmap expands is true at the positions picked.         *)
LEMMA MaskIs ==
  ASSUME NEW n \in Nat, NEW bytes, NEW P, BitsAre(bytes, P), BytesFor(n) <= Len(bytes), NEW i \in 1..n
  PROVE  LET whole == n \div ByteBits
             k == IF i - 1 < whole * ByteBits THEN (i - 1) \div ByteBits ELSE whole
         IN  (i - 1 - k * ByteBits) \in bytes[k + 1] <=> i \in P
<1> DEFINE whole == n \div ByteBits
           rest == n - whole * ByteBits
           k == IF i - 1 < whole * ByteBits THEN (i - 1) \div ByteBits ELSE whole
<1>1. /\ whole \in Nat /\ whole * ByteBits \in Nat /\ rest \in 0..(ByteBits - 1)
      /\ BytesFor(n) = (IF rest = 0 THEN whole ELSE whole + 1)
  BY Bytes
<1>2. ByteBits \in Nat \ {0} /\ Len(bytes) \in Nat
  BY Widths DEF BitsAre
<1>3. n = whole * ByteBits + rest
  <2> DEFINE w == whole * ByteBits
  <2>1. w \in Nat /\ rest = n - w
    BY <1>1
  <2> HIDE DEF w, rest
  <2>2. n = w + rest
    BY <2>1
  <2>3. QED BY <2>2 DEF w
<1> HIDE DEF whole, rest
<1>4. k \in 0..(Len(bytes) - 1) /\ k * ByteBits \in Nat /\ i - 1 - k * ByteBits \in 0..(ByteBits - 1)
  <2>1. CASE i - 1 < whole * ByteBits
    <3> DEFINE d == (i - 1) \div ByteBits
               e == (i - 1) % ByteBits
    <3>1. i - 1 \in Nat
      OBVIOUS
    <3>2. d \in Nat /\ e \in 0..(ByteBits - 1) /\ d * ByteBits \in Nat /\ i - 1 = d * ByteBits + e
      BY <1>2, <3>1, Divided
    <3> HIDE DEF d, e
    <3>3. d < whole
      <4>1. SUFFICES ASSUME whole <= d PROVE FALSE
        BY <1>1, <3>2
      <4>2. ByteBits * whole <= ByteBits * d /\ ByteBits * whole = whole * ByteBits /\ ByteBits * d = d * ByteBits
        BY <1>1, <1>2, <3>2, <4>1, Product
      <4>3. QED BY <1>1, <1>2, <2>1, <3>2, <4>2
    <3>4. d \in 0..(Len(bytes) - 1)
      BY <1>1, <1>2, <3>2, <3>3
    <3>5. i - 1 - d * ByteBits = e
      BY <3>2
    <3>6. k = d
      BY <2>1 DEF d
    <3> HIDE DEF k
    <3>7. QED BY <3>2, <3>4, <3>5, <3>6
  <2>2. CASE ~ (i - 1 < whole * ByteBits)
    <3> DEFINE w == whole * ByteBits
    <3>1. w \in Nat /\ n = w + rest /\ ~ (i - 1 < w)
      BY <1>1, <1>3, <2>2
    <3>2. k = whole /\ k * ByteBits = w
      BY <2>2
    <3> HIDE DEF w, k
    <3>3. i - 1 - w \in 0..(rest - 1)
      BY <1>1, <3>1
    <3>4. rest # 0
      BY <1>1, <3>3
    <3>5. QED BY <1>1, <1>2, <3>1, <3>2, <3>3, <3>4
  <2>3. QED BY <2>1, <2>2
<1> DEFINE j == i - 1 - k * ByteBits
           w == k * ByteBits
<1>5. w + j + 1 = i
  <2>1. w \in Nat /\ j = i - 1 - w
    BY <1>4
  <2> HIDE DEF w, j
  <2>2. QED BY <2>1
<1> HIDE DEF k
<1>6. j \in bytes[k + 1] <=> w + j + 1 \in P
  BY <1>4 DEF BitsAre
<1>7. QED BY <1>5, <1>6 DEF k, whole

(* Every position of a whole byte, and of the rest, is a position.           *)
LEMMA InRange ==
  ASSUME NEW n \in Nat
  PROVE  LET whole == n \div ByteBits
         IN  /\ \A k \in 1..BytesFor(n), j \in 0..(ByteBits - 1) : k <= whole => (k - 1) * ByteBits + j + 1 \in 1..n
             /\ \A j \in 0..(n - whole * ByteBits - 1) : whole * ByteBits + j + 1 \in 1..n
<1> DEFINE whole == n \div ByteBits
           rest == n - whole * ByteBits
<1>1. whole \in Nat /\ whole * ByteBits \in Nat /\ rest \in 0..(ByteBits - 1) /\ ByteBits \in Nat \ {0}
  <2>1. whole \in Nat /\ whole * ByteBits \in Nat /\ rest \in 0..(ByteBits - 1)
    BY Bytes
  <2>2. QED BY <2>1, Widths
<1>2. n = whole * ByteBits + rest
  <2> DEFINE w == whole * ByteBits
  <2>1. w \in Nat /\ rest = n - w
    BY <1>1
  <2> HIDE DEF w, rest
  <2>2. n = w + rest
    BY <2>1
  <2>3. QED BY <2>2 DEF w
<1> HIDE DEF whole
<1>3. ASSUME NEW k \in 1..BytesFor(n), NEW j \in 0..(ByteBits - 1), k <= whole
      PROVE  (k - 1) * ByteBits + j + 1 \in 1..n
  <2> DEFINE i == k - 1
             d == i * ByteBits
  <2>1. i \in Nat /\ i + 1 <= whole /\ i + 1 \in Nat
    BY <1>1, <1>3
  <2> HIDE DEF i
  <2>2. ByteBits * (i + 1) <= ByteBits * whole /\ ByteBits * (i + 1) = d + ByteBits /\ ByteBits * whole = whole * ByteBits
    BY <1>1, <2>1, Product
  <2>3. d \in Nat
    BY <1>1, <2>1, Product
  <2> HIDE DEF d
  <2>4. d + j + 1 \in 1..n
    <3> DEFINE w == whole * ByteBits
    <3>1. w \in Nat /\ n = w + rest /\ d + ByteBits <= w
      BY <1>1, <1>2, <2>2
    <3> HIDE DEF w, rest
    <3>2. QED BY <1>1, <2>3, <3>1
  <2>5. QED BY <2>4 DEF d, i
<1>4. ASSUME NEW j \in 0..(rest - 1) PROVE whole * ByteBits + j + 1 \in 1..n
  <2> DEFINE w == whole * ByteBits
  <2>1. w \in Nat /\ n = w + rest
    BY <1>1, <1>2
  <2> HIDE DEF w, rest
  <2>2. w + j + 1 \in 1..n
    BY <1>1, <2>1
  <2>3. QED BY <2>2 DEF w
<1>5. QED BY <1>3, <1>4 DEF whole

-----------------------------------------------------------------------------
(* What each comparison writes.                                             *)
LEMMA NoBits == BitsAre(<< >>, {})
<1>1. << >> \in Seq(SUBSET (0..(ByteBits - 1))) /\ Len(<< >>) = 0
  OBVIOUS
<1>2. 0..(0 - 1) = {}
  OBVIOUS
<1>3. QED BY <1>1, <1>2 DEF BitsAre

LEMMA CompareStands ==
  ASSUME NEW list \in Seq(Elements), NEW op, NEW x
  PROVE  /\ ~ GenBitmap(op, list, x).error
         /\ BitsAre(GenBitmap(op, list, x).list, {i \in DOMAIN list : Holds(op, list[i], x)})
<1> DEFINE n == Len(list)
           B == ByteBits
           P == {i \in DOMAIN list : Holds(op, list[i], x)}
           bytes == GenBitmap(op, list, x).list
           whole == n \div B
<1>1. /\ ~ GenBitmap(op, list, x).error
      /\ bytes = [k \in 1..BytesFor(n) |->
                    IF k <= whole THEN {j \in 0..(B - 1) : Holds(op, list[(k - 1) * B + j + 1], x)}
                    ELSE {j \in 0..(n - whole * B - 1) : Holds(op, list[whole * B + j + 1], x)}]
  <2> DEFINE data == [k \in 1..BytesWritten(n) |->
               IF k <= whole THEN {j \in 0..(B - 1) : Holds(op, list[(k - 1) * B + j + 1], x)}
               ELSE {j \in 0..(n - whole * B - 1) : Holds(op, list[whole * B + j + 1], x)}]
  <2>1. /\ ~ GenBitmap(op, list, x).error
        /\ bytes = [k \in 1..BytesFor(n) |-> data[k]]
    BY DEF GenBitmap, BitmapOf, BitmapData, Returned
  <2>2. \A k \in 1..BytesFor(n) : k \in 1..BytesWritten(n)
    <3>1. n \in Nat
      OBVIOUS
    <3> HIDE DEF n
    <3>2. QED BY <3>1, Written
  <2> HIDE DEF bytes, n, whole, B
  <2>3. QED BY <2>1, <2>2
<1>2. n \in Nat /\ DOMAIN list = 1..n
  OBVIOUS
<1>3. \A i \in 1..n : Holds(op, list[i], x) <=> i \in P
  BY <1>2
<1> HIDE DEF bytes, n, P
<1>4. bytes = [k \in 1..BytesFor(n) |->
                 IF k <= whole THEN {j \in 0..(B - 1) : (k - 1) * B + j + 1 \in P}
                 ELSE {j \in 0..(n - whole * B - 1) : whole * B + j + 1 \in P}]
  BY <1>1, <1>2, <1>3, InRange
<1>5. P \in SUBSET (1..n)
  BY <1>2 DEF P
<1>6. BitsAre(bytes, P)
  BY <1>2, <1>4, <1>5, BitmapStands
<1>7. QED BY <1>1, <1>6 DEF bytes, P

LEMMA CompareListsStands ==
  ASSUME NEW l \in Seq(Elements), NEW r \in Seq(Elements), NEW op
  PROVE  LET result == GenBitmapList(op, l, r)
         IN  IF result.error THEN result.list = << >>
             ELSE BitsAre(result.list, {i \in DOMAIN l \cap DOMAIN r : Holds(op, l[i], r[i])})
<1>1. CASE Len(l) # Len(r)
  BY <1>1 DEF GenBitmapList, Error
<1>2. CASE Len(l) = Len(r)
  <2> DEFINE n == Len(l)
             B == ByteBits
             P == {i \in DOMAIN l \cap DOMAIN r : Holds(op, l[i], r[i])}
             bytes == GenBitmapList(op, l, r).list
             whole == n \div B
  <2>1. /\ ~ GenBitmapList(op, l, r).error
        /\ bytes = [k \in 1..BytesFor(n) |->
                      IF k <= whole THEN {j \in 0..(B - 1) : Holds(op, l[(k - 1) * B + j + 1], r[(k - 1) * B + j + 1])}
                      ELSE {j \in 0..(n - whole * B - 1) : Holds(op, l[whole * B + j + 1], r[whole * B + j + 1])}]
    <3> DEFINE data == [k \in 1..BytesWritten(n) |->
                 IF k <= whole THEN {j \in 0..(B - 1) : Holds(op, l[(k - 1) * B + j + 1], r[(k - 1) * B + j + 1])}
                 ELSE {j \in 0..(n - whole * B - 1) : Holds(op, l[whole * B + j + 1], r[whole * B + j + 1])}]
    <3>1. /\ ~ GenBitmapList(op, l, r).error
          /\ bytes = [k \in 1..BytesFor(n) |-> data[k]]
      BY <1>2 DEF GenBitmapList, BitmapOf, BitmapData, Returned
    <3>2. \A k \in 1..BytesFor(n) : k \in 1..BytesWritten(n)
      <4>1. n \in Nat
        OBVIOUS
      <4> HIDE DEF n
      <4>2. QED BY <4>1, Written
    <3> HIDE DEF bytes, n, whole, B
    <3>3. QED BY <3>1, <3>2
  <2>2. n \in Nat /\ DOMAIN l \cap DOMAIN r = 1..n
    BY <1>2
  <2>3. \A i \in 1..n : Holds(op, l[i], r[i]) <=> i \in P
    BY <2>2
  <2> HIDE DEF bytes, n, P
  <2>4. bytes = [k \in 1..BytesFor(n) |->
                   IF k <= whole THEN {j \in 0..(B - 1) : (k - 1) * B + j + 1 \in P}
                   ELSE {j \in 0..(n - whole * B - 1) : whole * B + j + 1 \in P}]
    BY <2>1, <2>2, <2>3, InRange
  <2>5. P \in SUBSET (1..n)
    BY <2>2 DEF P
  <2>6. BitsAre(bytes, P)
    BY <2>2, <2>4, <2>5, BitmapStands
  <2>7. QED BY <2>1, <2>6 DEF bytes, P
<1>3. QED BY <1>1, <1>2

-----------------------------------------------------------------------------
(* The invariant: the bitmap stands for what was picked, of whatever list.   *)
KernelsInv == a \in Seq(Elements) /\ b \in Seq(Elements) /\ BitsAre(bitmap, picks)

LEMMA InitKernels == Init => KernelsInv
<1>1. Lists \subseteq Seq(Elements)
  <2>1. \A n \in 0..MaxLen : [1..n -> Elements] \subseteq Seq(Elements)
    BY Widths
  <2>2. QED BY <2>1 DEF Lists
<1>2. QED BY <1>1, NoBits DEF Init, KernelsInv

(* Each step that makes a bitmap.                                           *)
LEMMA MappedKeeps ==
  ASSUME NEW result, NEW P, KernelsInv, Mapped(result, P),
         IF result.error THEN result.list = << >> ELSE BitsAre(result.list, P)
  PROVE  KernelsInv'
BY NoBits DEF KernelsInv, Mapped

LEMMA CombineKeeps ==
  ASSUME NEW f \in BitmapOps, NEW op, NEW x, KernelsInv, Combine(f, op, x)
  PROVE  KernelsInv'
<1> DEFINE fresh == GenBitmap(op, a, x).list
           new == PicksOf(op, x)
<1>1. BitsAre(bitmap, picks) /\ BitsAre(fresh, new)
  BY CompareStands DEF KernelsInv, PicksOf
<1>2. /\ f = "and" => Mapped(ListBitwiseAndList(bitmap, fresh), picks \cap new)
      /\ f = "or" => Mapped(ListBitwiseOrList(bitmap, fresh), picks \cup new)
      /\ f = "xor" => Mapped(ListBitwiseXorList(bitmap, fresh), (picks \cup new) \ (picks \cap new))
  BY DEF Combine
<1> HIDE DEF fresh, new
<1>3. CASE Len(bitmap) # Len(fresh)
  <2>1. /\ ListBitwiseAndList(bitmap, fresh) = Error /\ ListBitwiseOrList(bitmap, fresh) = Error
        /\ ListBitwiseXorList(bitmap, fresh) = Error
    BY <1>3 DEF ListBitwiseAndList, ListBitwiseOrList, ListBitwiseXorList, Pairwise
  <2>2. Error.error /\ Error.list = << >>
    BY DEF Error
  <2>3. QED BY <1>2, <2>1, <2>2, MappedKeeps DEF BitmapOps
<1>4. CASE Len(bitmap) = Len(fresh)
  <2>1. /\ ListBitwiseAndList(bitmap, fresh) = Returned([i \in DOMAIN bitmap |-> bitmap[i] \cap fresh[i]])
        /\ ListBitwiseOrList(bitmap, fresh) = Returned([i \in DOMAIN bitmap |-> bitmap[i] \cup fresh[i]])
        /\ ListBitwiseXorList(bitmap, fresh) =
             Returned([i \in DOMAIN bitmap |-> (bitmap[i] \cup fresh[i]) \ (bitmap[i] \cap fresh[i])])
    BY <1>4 DEF ListBitwiseAndList, ListBitwiseOrList, ListBitwiseXorList, Pairwise
  <2>2. /\ BitsAre([i \in DOMAIN bitmap |-> bitmap[i] \cap fresh[i]], picks \cap new)
        /\ BitsAre([i \in DOMAIN bitmap |-> bitmap[i] \cup fresh[i]], picks \cup new)
        /\ BitsAre([i \in DOMAIN bitmap |-> (bitmap[i] \cup fresh[i]) \ (bitmap[i] \cap fresh[i])],
                   (picks \cup new) \ (picks \cap new))
    BY <1>1, <1>4, CombinedStand
  <2>3. \A list : ~ Returned(list).error /\ Returned(list).list = list
    BY DEF Returned
  <2>4. CASE f = "and"
    BY <1>2, <2>1, <2>2, <2>3, <2>4, MappedKeeps
  <2>5. CASE f = "or"
    BY <1>2, <2>1, <2>2, <2>3, <2>5, MappedKeeps
  <2>6. CASE f = "xor"
    BY <1>2, <2>1, <2>2, <2>3, <2>6, MappedKeeps
  <2>7. QED BY <2>4, <2>5, <2>6 DEF BitmapOps
<1>5. QED BY <1>3, <1>4

(* Each step that makes a list.                                             *)
LEMMA BecomesKeeps ==
  ASSUME NEW result, KernelsInv, Becomes(result), result.list \in Seq(Elements)
  PROVE  KernelsInv'
BY DEF KernelsInv, Becomes

LEMMA FilterKeeps ==
  ASSUME NEW bits_cnt, KernelsInv
  PROVE  FilterByBitmap(a, bitmap, bits_cnt).list \in Seq(Elements)
<1> DEFINE result == FilterByBitmap(a, bitmap, bits_cnt)
<1>1. CASE ~ result.error
  BY <1>1, FilterIsRight DEF KernelsInv
<1>2. CASE result.error
  <2>1. \A list : ~ Returned(list).error
    BY DEF Returned
  <2>2. result = Error
    <3> DEFINE valid == Len(a) % ByteBits
               bad1 == BytesFor(Len(a)) # Len(bitmap)
               bad2 == valid # 0 /\ \E j \in bitmap[Len(bitmap)] : j >= valid
               bad3 == Filtering(a, bitmap).cur # bits_cnt
               good == Returned(SubSeq(Filtering(a, bitmap).data, 1, bits_cnt))
    <3>1. result = CASE bad1 -> Error [] bad2 -> Error [] bad3 -> Error [] OTHER -> good
      BY DEF FilterByBitmap
    <3>2. ~ good.error
      BY <2>1
    <3>3. result.error
      BY <1>2
    <3> HIDE DEF bad1, bad2, bad3, good, result
    <3>4. QED BY <3>1, <3>2, <3>3
  <2>3. QED BY <2>2 DEF Error
<1>3. QED BY <1>1, <1>2

(* IfByBitmap takes from the list what the bitmap picks.                     *)
LEMMA ChooseListOrIs ==
  ASSUME KernelsInv, NEW x, ~ IfByBitmapLLRB(bitmap, a, x).error
  PROVE  IfByBitmapLLRB(bitmap, a, x).list = [i \in DOMAIN a |-> IF i \in picks THEN a[i] ELSE x]
<1> DEFINE n == Len(a)
           whole == n \div ByteBits
           At(i) == IF i - 1 < whole * ByteBits THEN (i - 1) \div ByteBits ELSE whole
           Mask(i) == (i - 1 - At(i) * ByteBits) \in bitmap[At(i) + 1]
           result == IfByBitmapLLRB(bitmap, a, x)
<1>1. result = IF Len(bitmap) < BytesFor(n) THEN Error
               ELSE Returned([i \in 1..n |-> IF Mask(i) THEN a[i] ELSE x])
  BY DEF IfByBitmapLLRB, SelectByMask
<1>2. n \in Nat /\ DOMAIN a = 1..n /\ BitsAre(bitmap, picks)
  BY DEF KernelsInv
<1>3. BytesFor(n) \in Nat /\ Len(bitmap) \in Nat
  <2>1. BytesFor(n) \in Nat
    <3> HIDE DEF n
    <3>1. BytesFor(n) \in {whole, whole + 1} /\ whole \in Nat
      BY <1>2, Bytes
    <3> HIDE DEF whole
    <3>2. QED BY <3>1
  <2>2. QED BY <1>2, <2>1 DEF BitsAre
<1>4. ~ (Len(bitmap) < BytesFor(n))
  <2>1. Error.error
    BY DEF Error
  <2> HIDE DEF n, Mask
  <2>2. QED BY <1>1, <2>1
<1>5. \A i \in 1..n : Mask(i) <=> i \in picks
  <2>1. BytesFor(n) <= Len(bitmap)
    BY <1>3, <1>4
  <2> HIDE DEF n
  <2>2. QED BY <1>2, <2>1, MaskIs
<1> HIDE DEF Mask, n
<1>6. result.list = [i \in 1..n |-> IF Mask(i) THEN a[i] ELSE x]
  BY <1>1, <1>4 DEF Returned
<1>7. QED BY <1>2, <1>5, <1>6

(* Whatever the mask, what IfByBitmap returns is a list.                     *)
LEMMA ChosenAreLists ==
  ASSUME KernelsInv, NEW x \in Elements
  PROVE  /\ IfByBitmapLLRB(bitmap, a, x).list \in Seq(Elements)
         /\ IfByBitmapLBRL(bitmap, x, a).list \in Seq(Elements)
         /\ IfByBitmapLLRL(bitmap, a, b).list \in Seq(Elements)
<1> DEFINE n == Len(a)
           whole == n \div ByteBits
           At(i) == IF i - 1 < whole * ByteBits THEN (i - 1) \div ByteBits ELSE whole
           Mask(i) == (i - 1 - At(i) * ByteBits) \in bitmap[At(i) + 1]
           refused == Len(bitmap) < BytesFor(n)
<1>1. /\ IfByBitmapLLRB(bitmap, a, x) =
           IF refused THEN Error ELSE Returned([i \in 1..n |-> IF Mask(i) THEN a[i] ELSE x])
      /\ IfByBitmapLBRL(bitmap, x, a) =
           IF refused THEN Error ELSE Returned([i \in 1..n |-> IF Mask(i) THEN x ELSE a[i]])
      /\ IfByBitmapLLRL(bitmap, a, b) =
           IF n # Len(b) \/ refused THEN Error ELSE Returned([i \in 1..n |-> IF Mask(i) THEN a[i] ELSE b[i]])
  BY DEF IfByBitmapLLRB, IfByBitmapLBRL, IfByBitmapLLRL, SelectByMask
<1>2. n \in Nat /\ (\A i \in 1..n : a[i] \in Elements) /\ (n = Len(b) => \A i \in 1..n : b[i] \in Elements)
  BY DEF KernelsInv
<1>3. Error.list \in Seq(Elements) /\ \A list : Returned(list).list = list
  BY DEF Error, Returned
<1> HIDE DEF Mask, n, refused
<1>4. /\ [i \in 1..n |-> IF Mask(i) THEN a[i] ELSE x] \in Seq(Elements)
      /\ [i \in 1..n |-> IF Mask(i) THEN x ELSE a[i]] \in Seq(Elements)
      /\ n = Len(b) => [i \in 1..n |-> IF Mask(i) THEN a[i] ELSE b[i]] \in Seq(Elements)
  BY <1>2
<1>5. QED BY <1>1, <1>3, <1>4

LEMMA NextKernels == KernelsInv /\ [Next]_vars => KernelsInv'
<1> SUFFICES ASSUME KernelsInv, [Next]_vars PROVE KernelsInv'
  OBVIOUS
<1>1. ASSUME NEW op \in CompareOps, NEW x \in Elements, Compare(op, x) PROVE KernelsInv'
  <2>1. ~ GenBitmap(op, a, x).error /\ BitsAre(GenBitmap(op, a, x).list, PicksOf(op, x))
    BY CompareStands DEF KernelsInv, PicksOf
  <2>2. QED BY <1>1, <2>1, MappedKeeps DEF Compare
<1>2. ASSUME NEW op \in CompareOps, CompareLists(op) PROVE KernelsInv'
  <2>1. LET result == GenBitmapList(op, a, b)
        IN  IF result.error THEN result.list = << >>
            ELSE BitsAre(result.list, {i \in DOMAIN a \cap DOMAIN b : Holds(op, a[i], b[i])})
    BY CompareListsStands DEF KernelsInv
  <2>2. QED BY <1>2, <2>1, MappedKeeps DEF CompareLists
<1>3. ASSUME NEW f \in BitmapOps, NEW op \in CompareOps, NEW x \in Elements, Combine(f, op, x) PROVE KernelsInv'
  BY <1>3, CombineKeeps
<1>4. ASSUME NEW bits_cnt, Becomes(FilterByBitmap(a, bitmap, bits_cnt)) PROVE KernelsInv'
  BY <1>4, FilterKeeps, BecomesKeeps
<1>5. ASSUME NEW x \in Numbers, ChooseListOr(x) \/ ChooseScalarOr(x) PROVE KernelsInv'
  <2>1. x \in Elements
    BY DEF Elements
  <2>2. QED BY <1>5, <2>1, ChosenAreLists, BecomesKeeps DEF ChooseListOr, ChooseScalarOr
<1>6. ASSUME ChooseLists PROVE KernelsInv'
  <2>1. NaN \in Elements
    BY DEF Elements
  <2>2. QED BY <1>6, <2>1, ChosenAreLists, BecomesKeeps DEF ChooseLists
<1>7. CASE UNCHANGED vars
  BY <1>7 DEF vars, KernelsInv
<1>8. QED BY <1>1, <1>2, <1>3, <1>4, <1>5, <1>6, <1>7 DEF Next, Filter, FilterAll

(* The bitmap of a program always stands for what it picked.                 *)
THEOREM BitmapIsWhatWasPicked == Spec => []KernelsInv
<1>1. QED BY InitKernels, NextKernels, PTL DEF Spec

(* A filter or a choice that recorded no error returned what was picked.     *)
LEMMA StepIsRight ==
  ASSUME KernelsInv, ~ failed'
  PROVE  /\ FilterAll \/ (\E n \in 0..MaxLen : Filter(n)) => picks \subseteq DOMAIN a /\ a' = Picked(a, picks)
         /\ \A x \in Numbers : ChooseListOr(x) => a' = [i \in DOMAIN a |-> IF i \in picks THEN a[i] ELSE x]
<1>1. a \in Seq(Elements) /\ BitsAre(bitmap, picks)
  BY DEF KernelsInv
<1>2. ASSUME NEW bits_cnt, Becomes(FilterByBitmap(a, bitmap, bits_cnt))
      PROVE  picks \subseteq DOMAIN a /\ a' = Picked(a, picks)
  <2>1. /\ ~ FilterByBitmap(a, bitmap, bits_cnt).error
        /\ a' = FilterByBitmap(a, bitmap, bits_cnt).list
    BY <1>2 DEF Becomes
  <2>2. QED BY <1>1, <2>1, FilterIsRight
<1>3. ASSUME NEW x \in Numbers, ChooseListOr(x)
      PROVE  a' = [i \in DOMAIN a |-> IF i \in picks THEN a[i] ELSE x]
  <2>1. ~ IfByBitmapLLRB(bitmap, a, x).error /\ a' = IfByBitmapLLRB(bitmap, a, x).list
    BY <1>3 DEF ChooseListOr, Becomes
  <2>2. QED BY <2>1, ChooseListOrIs
<1>4. QED BY <1>2, <1>3 DEF Filter, FilterAll

(* For lists of any length, elements of any numbers and bytes of any width,  *)
(* a program's filters and choices are right or flagged: FilterByBitmap      *)
(* returns the elements picked, in order, or records an error.              *)
THEOREM FiltersAreRight == Spec => UnflaggedIsRight
<1>1. KernelsInv /\ [Next]_vars =>
        [~ failed' =>
           /\ FilterAll \/ (\E n \in 0..MaxLen : Filter(n)) =>
                picks \subseteq DOMAIN a /\ a' = Picked(a, picks)
           /\ \A x \in Numbers : ChooseListOr(x) =>
                a' = [i \in DOMAIN a |-> IF i \in picks THEN a[i] ELSE x]]_vars
  BY StepIsRight
<1>2. QED BY <1>1, InitKernels, NextKernels, PTL DEF Spec, UnflaggedIsRight

-----------------------------------------------------------------------------
(* CountBits: the bits that are 1 in the bytes from one to another are the   *)
(* positions picked between them.                                           *)
Between(P, m, n) == P \cap (m * ByteBits + 1)..(n * ByteBits)

LEMMA ByteOf ==
  ASSUME NEW m \in Nat, NEW n \in Nat, m <= n, NEW i \in (m * ByteBits + 1)..(n * ByteBits)
  PROVE  \E k \in (m + 1)..n, j \in 0..(ByteBits - 1) : i = (k - 1) * ByteBits + j + 1
<1> DEFINE B == ByteBits
           d == (i - 1) \div B
           e == (i - 1) % B
<1>1. B \in Nat \ {0}
  BY Widths
<1>2. m * B \in Nat /\ n * B \in Nat
  BY <1>1, Product
<1>3. i - 1 \in Nat /\ m * B <= i - 1 /\ i - 1 < n * B
  <2> DEFINE v == m * B
             w == n * B
  <2>1. v \in Nat /\ w \in Nat /\ i \in (v + 1)..w
    BY <1>2
  <2> HIDE DEF v, w
  <2>2. i - 1 \in Nat /\ v <= i - 1 /\ i - 1 < w
    BY <2>1
  <2>3. QED BY <2>2 DEF v, w
<1>4. d \in Nat /\ e \in 0..(B - 1) /\ d * B \in Nat /\ i - 1 = d * B + e
  BY <1>1, <1>3, Divided
<1> HIDE DEF B, d, e
<1>5. m <= d
  <2>1. SUFFICES ASSUME d + 1 <= m PROVE FALSE
    BY <1>4
  <2>2. B * (d + 1) <= B * m /\ B * (d + 1) = d * B + B /\ B * m = m * B
    BY <1>1, <1>4, <2>1, Product
  <2>3. QED BY <1>1, <1>2, <1>3, <1>4, <2>2
<1>6. d < n
  <2>1. SUFFICES ASSUME n <= d PROVE FALSE
    BY <1>4
  <2>2. B * n <= B * d /\ B * n = n * B /\ B * d = d * B
    BY <1>1, <1>4, <2>1, Product
  <2>3. QED BY <1>1, <1>2, <1>3, <1>4, <2>2
<1>7. d + 1 \in (m + 1)..n /\ (d + 1) - 1 = d
  BY <1>4, <1>5, <1>6
<1>8. i = d * B + e + 1
  <2> DEFINE v == d * B
  <2>1. v \in Nat /\ i - 1 = v + e
    BY <1>4
  <2> HIDE DEF v
  <2>2. i = v + e + 1
    <3>1. i \in Int
      OBVIOUS
    <3>2. QED BY <1>4, <2>1, <3>1
  <2>3. QED BY <2>2 DEF v
<1>9. QED BY <1>4, <1>7, <1>8 DEF B

LEMMA PopcountIs ==
  ASSUME NEW bytes, NEW P, BitsAre(bytes, P), NEW m \in Nat, NEW n \in Nat, m <= n, n <= Len(bytes)
  PROVE  /\ IsFiniteSet(Between(P, m, n))
         /\ Popcount(bytes, (m + 1)..n) = Cardinality(Between(P, m, n))
<1> DEFINE B == ByteBits
           S == Between(P, m, n)
           T == Ones(bytes, (m + 1)..n)
           At(k, j) == (k - 1) * B + j + 1
           f == [bit \in T |-> At(bit[1], bit[2])]
<1>1. B \in Nat \ {0} /\ Len(bytes) \in Nat /\ m * B \in Nat /\ n * B \in Nat
  BY Widths, Product DEF BitsAre
<1>2. IsFiniteSet(S)
  <2>1. S \in SUBSET (1..(n * B))
    <3> DEFINE v == m * B
               w == n * B
    <3>1. v \in Nat /\ w \in Nat /\ S \subseteq (v + 1)..w
      BY <1>1 DEF Between
    <3> HIDE DEF v, w, S
    <3>2. S \in SUBSET (1..w)
      BY <3>1
    <3>3. QED BY <3>2 DEF w
  <2> HIDE DEF S
  <2>2. QED BY <1>1, <2>1, UpToIsFinite
<1>3. ASSUME NEW k \in (m + 1)..n, NEW j \in 0..(B - 1)
      PROVE  /\ At(k, j) \in (m * B + 1)..(n * B)
             /\ j \in bytes[k] <=> At(k, j) \in P
             /\ (At(k, j) - 1) \div B = k - 1 /\ (At(k, j) - 1) % B = j
  <2> DEFINE h == k - 1
             w == h * B
  <2>1. h \in Nat /\ m <= h /\ h + 1 <= n /\ h + 1 = k /\ h \in 0..(Len(bytes) - 1)
    BY <1>1
  <2> HIDE DEF h
  <2>2. w \in Nat /\ m * B <= w /\ w + B <= n * B
    <3>1. B * m <= B * h /\ B * m = m * B /\ B * h = w
      BY <1>1, <2>1, Product
    <3>2. B * (h + 1) <= B * n /\ B * (h + 1) = w + B /\ B * n = n * B
      BY <1>1, <2>1, Product
    <3>3. w \in Nat
      BY <1>1, <2>1, Product
    <3>4. QED BY <3>1, <3>2, <3>3
  <2>3. At(k, j) = w + j + 1
    BY DEF h
  <2>4. w + j + 1 \in (m * B + 1)..(n * B)
    <3> DEFINE u == m * B
               v == n * B
    <3>1. u \in Nat /\ v \in Nat /\ u <= w /\ w + B <= v
      BY <1>1, <2>2
    <3> HIDE DEF u, v, w
    <3>2. w + j + 1 \in (u + 1)..v
      BY <1>1, <2>2, <3>1
    <3>3. QED BY <3>2 DEF u, v
  <2>5. j \in bytes[h + 1] <=> w + j + 1 \in P
    BY <2>1 DEF BitsAre
  <2>6. (w + j) \div B = h /\ (w + j) % B = j
    BY <1>1, <2>1, Division
  <2>7. (w + j + 1) - 1 = w + j
    <3> HIDE DEF w
    <3>1. QED BY <1>1, <2>2
  <2> HIDE DEF w, At
  <2>8. QED BY <2>1, <2>3, <2>4, <2>5, <2>6, <2>7 DEF h
<1>4. ASSUME NEW bit \in T
      PROVE  bit[1] \in (m + 1)..n /\ bit[2] \in 0..(B - 1) /\ bit[2] \in bytes[bit[1]] /\ bit = <<bit[1], bit[2]>>
  BY DEF Ones
<1>5. f \in [T -> S]
  <2>1. ASSUME NEW bit \in T PROVE At(bit[1], bit[2]) \in S
    <3> HIDE DEF At, T
    <3>1. QED BY <1>3, <1>4 DEF Between
  <2> HIDE DEF At, T, S
  <2>2. QED BY <2>1
<1>6. ASSUME NEW p \in T, NEW q \in T, f[p] = f[q] PROVE p = q
  <2>1. At(p[1], p[2]) = At(q[1], q[2])
    BY <1>6
  <2>2. p[1] - 1 = q[1] - 1 /\ p[2] = q[2]
    <3> HIDE DEF At, T
    <3>1. QED BY <1>3, <1>4, <2>1
  <2>3. p[1] = q[1]
    <3>1. p[1] \in Int /\ q[1] \in Int
      BY <1>4
    <3>2. QED BY <2>2, <3>1
  <2> HIDE DEF T
  <2>4. QED BY <1>4, <2>2, <2>3
<1>7. ASSUME NEW i \in S PROVE \E bit \in T : f[bit] = i
  <2>1. i \in (m * B + 1)..(n * B) /\ i \in P
    BY DEF Between
  <2>2. PICK k \in (m + 1)..n, j \in 0..(B - 1) : i = (k - 1) * B + j + 1
    BY <2>1, ByteOf
  <2>3. j \in bytes[k]
    BY <1>3, <2>1, <2>2
  <2>4. <<k, j>> \in T
    BY <2>3 DEF Ones
  <2>5. f[<<k, j>>] = i
    BY <2>2, <2>4
  <2> HIDE DEF f, T
  <2>6. QED BY <2>4, <2>5
<1> HIDE DEF f, S, T
<1>8. f \in Bijection(T, S)
  BY <1>5, <1>6, <1>7 DEF Bijection, Injection, Surjection, IsInjective
<1>9. Cardinality(T) = Cardinality(S)
  <2>1. f \in Injection(T, S) /\ f \in Surjection(T, S)
    BY <1>8 DEF Bijection
  <2>2. QED BY <1>2, <2>1, FS_Injection
<1>10. QED BY <1>2, <1>9 DEF Popcount, S, T

LEMMA BetweenAdds ==
  ASSUME NEW P, NEW l \in Nat, NEW m \in Nat, NEW n \in Nat, l <= m, m <= n
  PROVE  Cardinality(Between(P, l, n)) = Cardinality(Between(P, l, m)) + Cardinality(Between(P, m, n))
<1> DEFINE u == l * ByteBits
           v == m * ByteBits
           w == n * ByteBits
<1>1. u \in Nat /\ v \in Nat /\ w \in Nat /\ u <= v /\ v <= w
  <2>1. ByteBits * l <= ByteBits * m /\ ByteBits * m <= ByteBits * n
    BY Widths, Product
  <2>2. ByteBits * l = u /\ ByteBits * m = v /\ ByteBits * n = w
    BY Widths
  <2>3. u \in Nat /\ v \in Nat /\ w \in Nat
    BY Widths, Product
  <2> HIDE DEF u, v, w
  <2>4. QED BY <2>1, <2>2, <2>3
<1> DEFINE X == P \cap (u + 1)..v
           Y == P \cap (v + 1)..w
           Z == P \cap (u + 1)..w
<1> HIDE DEF u, v, w
<1>2. X \cup Y = Z /\ X \cap Y = {} /\ X \in SUBSET (1..v) /\ Y \in SUBSET (1..w)
  BY <1>1
<1> HIDE DEF X, Y, Z
<1>3. /\ IsFiniteSet(X) /\ Cardinality(X) \in Nat
      /\ IsFiniteSet(Y) /\ Cardinality(Y) \in Nat
  BY <1>1, <1>2, UpToIsFinite
<1>4. Cardinality(X \cup Y) = Cardinality(X) + Cardinality(Y) - Cardinality({})
  BY <1>2, <1>3, FS_Union
<1>5. Cardinality({}) = 0
  BY FS_EmptySet
<1>6. Cardinality(Z) = Cardinality(X) + Cardinality(Y)
  <2>1. Cardinality(Z) = Cardinality(X) + Cardinality(Y) - 0
    BY <1>2, <1>4, <1>5
  <2>2. QED BY <1>3, <2>1
<1>7. X = Between(P, l, m) /\ Y = Between(P, m, n) /\ Z = Between(P, l, n)
  BY DEF X, Y, Z, Between, u, v, w
<1>8. QED BY <1>6, <1>7

LEMMA CountBitsIs ==
  ASSUME NEW bytes, NEW P, BitsAre(bytes, P)
  PROVE  CountBits(bytes) = Cardinality(P) /\ IsFiniteSet(P)
<1> DEFINE n == Len(bytes)
           C == BatchBytes
           batches == n \div C
           whole == batches * C
           rest == n - whole
           Byte(k) == whole + k
           Count(m) == Cardinality(Between(P, 0, m))
           Batched(f) == f = [i \in 0..batches |->
             IF i = 0 THEN 0 ELSE f[i - 1] + Popcount(bytes, ((i - 1) * C + 1)..(i * C))]
           byBatch == CHOOSE f : Batched(f)
           Counted(f) == f = [k \in 0..rest |->
             IF k = 0 THEN byBatch[batches] ELSE f[k - 1] + Popcount(bytes, {Byte(k)})]
           byByte == CHOOSE f : Counted(f)
<1>1. CountBits(bytes) = byByte[rest]
  BY DEF CountBits
<1>2. C \in Nat \ {0} /\ n \in Nat /\ batches \in Nat /\ whole \in Nat /\ rest \in 0..(C - 1) /\ n = whole + rest
  <2>1. C \in Nat \ {0} /\ n \in Nat
    BY Widths DEF BitsAre
  <2>2. batches \in Nat /\ n % C \in 0..(C - 1) /\ whole \in Nat /\ n = whole + (n % C)
    <3> HIDE DEF n
    <3>1. QED BY <2>1, Divided
  <2> HIDE DEF n, C, whole
  <2>3. QED BY <2>1, <2>2
<1> HIDE DEF n, C, batches, rest
<1>3. \A m \in 0..n : Count(m) \in Nat
  <2>1. ASSUME NEW m \in 0..n PROVE IsFiniteSet(Between(P, 0, m))
    BY <1>2, PopcountIs DEF n
  <2>2. QED BY <2>1, FS_CardinalityType
<1>4. ASSUME NEW l \in Nat, NEW m \in Nat, l <= m, m <= n
      PROVE  Count(m) = Count(l) + Popcount(bytes, (l + 1)..m)
  <2>1. Popcount(bytes, (l + 1)..m) = Cardinality(Between(P, l, m))
    BY <1>4, PopcountIs DEF n
  <2>2. 0 <= l
    OBVIOUS
  <2>3. QED BY <1>4, <2>1, <2>2, BetweenAdds
<1>5. Count(0) = 0
  <2>1. (0 * ByteBits + 1)..(0 * ByteBits) = {}
    BY Widths
  <2>2. QED BY <2>1, FS_EmptySet DEF Between
<1> HIDE DEF Count
<1>6. \A i \in 0..batches : i * C \in 0..n
  <2>1. ASSUME NEW i \in 0..batches PROVE i * C \in 0..n
    <3>1. C * i <= C * batches /\ C * i = i * C /\ C * batches = whole /\ i * C \in Nat
      BY <1>2, Product
    <3> HIDE DEF whole
    <3>2. QED BY <1>2, <3>1
  <2>2. QED BY <2>1
<1>7. ASSUME NEW i \in 1..batches
      PROVE  Count(i * C) = Count((i - 1) * C) + Popcount(bytes, ((i - 1) * C + 1)..(i * C))
  <2>1. i - 1 \in 0..batches /\ i \in 0..batches
    BY <1>2
  <2>2. (i - 1) * C <= i * C
    <3>1. C * (i - 1) <= C * i /\ C * (i - 1) = (i - 1) * C /\ C * i = i * C
      BY <1>2, <2>1, Product
    <3>2. QED BY <3>1
  <2>3. (i - 1) * C \in 0..n /\ i * C \in 0..n
    BY <1>6, <2>1
  <2>4. QED BY <1>2, <1>4, <2>2, <2>3
<1>8. Batched(byBatch)
  <2> DEFINE g == [i \in 0..batches |-> Count(i * C)]
  <2>1. ASSUME NEW i \in 0..batches
        PROVE  g[i] = IF i = 0 THEN 0 ELSE g[i - 1] + Popcount(bytes, ((i - 1) * C + 1)..(i * C))
    <3>1. CASE i = 0
      <4>1. 0 * C = 0
        BY <1>2
      <4>2. QED BY <1>5, <3>1, <4>1
    <3>2. CASE i # 0
      <4>1. i \in 1..batches /\ i - 1 \in 0..batches
        BY <1>2, <3>2
      <4>2. QED BY <1>7, <3>2, <4>1
    <3>3. QED BY <3>1, <3>2
  <2>2. g = [i \in 0..batches |-> g[i]]
    OBVIOUS
  <2> HIDE DEF g
  <2>3. Batched(g)
    BY <2>1, <2>2
  <2> HIDE DEF Batched
  <2>4. QED BY <2>3
<1> HIDE DEF byBatch
<1>9. byBatch[batches] = Count(whole)
  <2> DEFINE K == {i \in Nat : byBatch[i] = Count(i * C)}
  <2>1. 0 \in K
    <3>1. 0 * C = 0 /\ byBatch[0] = 0
      BY <1>2, <1>8
    <3>2. QED BY <1>5, <3>1
  <2>2. ASSUME NEW i \in 1..batches, i - 1 \in K PROVE i \in K
    <3>1. i \in 0..batches /\ i # 0 /\ i \in Nat
      BY <1>2
    <3>2. byBatch[i] = byBatch[i - 1] + Popcount(bytes, ((i - 1) * C + 1)..(i * C))
      BY <1>8, <3>1
    <3>3. QED BY <1>7, <2>2, <3>1, <3>2
  <2> HIDE DEF K
  <2>3. 0..batches \subseteq K
    BY <1>2, <2>1, <2>2, UpTo
  <2>4. batches \in K
    BY <1>2, <2>3
  <2>5. QED BY <2>4 DEF K
<1> HIDE DEF whole
<1>10. ASSUME NEW k \in 1..rest
       PROVE  Count(Byte(k)) = Count(Byte(k - 1)) + Popcount(bytes, {Byte(k)})
  <2>1. Byte(k - 1) \in Nat /\ Byte(k) \in Nat /\ Byte(k - 1) <= Byte(k) /\ Byte(k) <= n
    BY <1>2
  <2>2. (Byte(k - 1) + 1)..Byte(k) = {Byte(k)}
    BY <1>2
  <2>3. QED BY <1>4, <2>1, <2>2
<1>11. Byte(0) = whole /\ Byte(rest) = n
  BY <1>2
<1> HIDE DEF Byte
<1>12. Counted(byByte)
  <2> DEFINE g == [k \in 0..rest |-> Count(Byte(k))]
  <2>1. ASSUME NEW k \in 0..rest
        PROVE  g[k] = IF k = 0 THEN byBatch[batches] ELSE g[k - 1] + Popcount(bytes, {Byte(k)})
    <3>1. CASE k = 0
      BY <1>9, <1>11, <3>1
    <3>2. CASE k # 0
      <4>1. k \in 1..rest /\ k - 1 \in 0..rest
        BY <1>2, <3>2
      <4>2. QED BY <1>10, <3>2, <4>1
    <3>3. QED BY <3>1, <3>2
  <2>2. g = [k \in 0..rest |-> g[k]]
    OBVIOUS
  <2> HIDE DEF g
  <2>3. Counted(g)
    BY <2>1, <2>2
  <2> HIDE DEF Counted
  <2>4. QED BY <2>3
<1> HIDE DEF byByte
<1>13. byByte[rest] = Count(n)
  <2> DEFINE K == {k \in Nat : byByte[k] = Count(Byte(k))}
  <2>1. 0 \in K
    <3>1. 0 \in 0..rest
      BY <1>2
    <3>2. QED BY <1>9, <1>11, <1>12, <3>1
  <2>2. ASSUME NEW k \in 1..rest, k - 1 \in K PROVE k \in K
    <3>1. k \in 0..rest /\ k # 0 /\ k \in Nat
      BY <1>2
    <3>2. byByte[k] = byByte[k - 1] + Popcount(bytes, {Byte(k)})
      BY <1>12, <3>1
    <3>3. QED BY <1>10, <2>2, <3>1, <3>2
  <2> HIDE DEF K
  <2>3. 0..rest \subseteq K
    BY <1>2, <2>1, <2>2, UpTo
  <2>4. rest \in K
    BY <1>2, <2>3
  <2>5. QED BY <1>11, <2>4 DEF K
<1>14. Between(P, 0, n) = P
  <2>1. P \subseteq 1..(n * ByteBits) /\ 0 * ByteBits + 1 = 1
    BY Widths DEF BitsAre, n
  <2>2. QED BY <2>1 DEF Between
<1>15. IsFiniteSet(P)
  <2>1. 0 <= n
    BY <1>2
  <2>2. IsFiniteSet(Between(P, 0, n))
    BY <1>2, <2>1, PopcountIs DEF n
  <2>3. QED BY <1>14, <2>2
<1>16. QED BY <1>1, <1>13, <1>14, <1>15 DEF Count

-----------------------------------------------------------------------------
(* Joining strings.  U is how long the strings are up to each of them.       *)
LEMMA TotalIs ==
  ASSUME NEW strings \in Seq(Nat)
  PROVE  \E U \in [0..Len(strings) -> Nat] :
           /\ U[0] = 0
           /\ \A i \in 1..Len(strings) : U[i] = U[i - 1] + strings[i]
           /\ TotalLen(strings) = U[Len(strings)]
<1> DEFINE n == Len(strings)
           Runs(f, m) == f = [i \in 0..m |-> IF i = 0 THEN 0 ELSE f[i - 1] + strings[i]]
           K == {m \in Nat : m <= n => \E f \in [0..m -> Nat] : Runs(f, m)}
           upTo == CHOOSE f : Runs(f, n)
           Good == {i \in Nat : upTo[i] \in Nat}
<1>1. n \in Nat /\ TotalLen(strings) = upTo[n]
  BY DEF TotalLen
<1> HIDE DEF n
<1>2. \A i \in 1..n : strings[i] \in Nat
  BY DEF n
<1>3. 0 \in K
  <2> DEFINE f == [i \in 0..0 |-> 0]
  <2>1. f \in [0..0 -> Nat]
    OBVIOUS
  <2>2. Runs(f, 0)
    <3>1. \A i \in 0..0 : i = 0
      OBVIOUS
    <3>2. \A i \in 0..0 : 0 = IF i = 0 THEN 0 ELSE f[i - 1] + strings[i]
      BY <3>1
    <3>3. QED BY <3>2
  <2> HIDE DEF f, Runs
  <2>3. QED BY <2>1, <2>2
<1>4. ASSUME NEW m \in K PROVE m + 1 \in K
  <2>1. SUFFICES ASSUME m + 1 <= n PROVE \E g \in [0..(m + 1) -> Nat] : Runs(g, m + 1)
    <3>1. m + 1 \in Nat
      OBVIOUS
    <3> HIDE DEF Runs
    <3>2. QED BY <3>1
  <2>2. PICK f \in [0..m -> Nat] : Runs(f, m)
    <3>1. m <= n
      BY <1>1, <2>1
    <3>2. QED BY <3>1
  <2> DEFINE g == [i \in 0..(m + 1) |-> IF i = m + 1 THEN f[m] + strings[m + 1] ELSE f[i]]
  <2>3. g \in [0..(m + 1) -> Nat]
    <3>1. f[m] + strings[m + 1] \in Nat
      <4>1. f[m] \in Nat /\ strings[m + 1] \in Nat
        BY <1>1, <1>2, <2>1
      <4>2. QED BY <4>1
    <3>2. \A i \in 0..(m + 1) : i # m + 1 => f[i] \in Nat
      OBVIOUS
    <3>3. QED BY <3>1, <3>2
  <2>4. ASSUME NEW i \in 0..(m + 1) PROVE g[i] = IF i = 0 THEN 0 ELSE g[i - 1] + strings[i]
    <3>1. CASE i = m + 1
      <4>1. i # 0 /\ i - 1 = m /\ m \in 0..(m + 1) /\ m # m + 1
        BY <3>1
      <4>2. QED BY <3>1, <4>1
    <3>2. CASE i # m + 1
      <4>1. i \in 0..m /\ (i # 0 => i - 1 \in 0..(m + 1) /\ i - 1 # m + 1)
        BY <3>2
      <4>2. QED BY <2>2, <3>2, <4>1
    <3>3. QED BY <3>1, <3>2
  <2>5. g = [i \in 0..(m + 1) |-> g[i]]
    OBVIOUS
  <2> HIDE DEF g
  <2>6. Runs(g, m + 1)
    BY <2>4, <2>5
  <2> HIDE DEF Runs
  <2>7. QED BY <2>3, <2>6
<1>5. Runs(upTo, n)
  <2>1. K \in SUBSET Nat
    OBVIOUS
  <2> HIDE DEF K
  <2>2. n \in K
    BY <1>1, <1>3, <1>4, <2>1, Induction
  <2> HIDE DEF Runs
  <2>3. n <= n => \E f \in [0..n -> Nat] : Runs(f, n)
    BY <2>2 DEF K
  <2>4. \E f : Runs(f, n)
    BY <1>1, <2>3
  <2>5. QED BY <2>4
<1> HIDE DEF upTo
<1>6. upTo[0] = 0 /\ \A i \in 1..n : upTo[i] = upTo[i - 1] + strings[i]
  <2>1. 0 \in 0..n
    BY <1>1
  <2>2. \A i \in 1..n : i \in 0..n /\ i # 0
    BY <1>1
  <2>3. QED BY <1>5, <2>1, <2>2
<1>7. 0..n \subseteq Good
  <2>1. 0 \in Good
    BY <1>6
  <2>2. ASSUME NEW i \in 1..n, i - 1 \in Good PROVE i \in Good
    <3>1. upTo[i - 1] \in Nat /\ strings[i] \in Nat /\ i \in Nat
      BY <1>2, <2>2
    <3>2. QED BY <1>6, <3>1
  <2> HIDE DEF Good
  <2>3. QED BY <1>1, <2>1, <2>2, UpTo
<1>8. upTo \in [0..n -> Nat]
  <2>1. upTo = [i \in 0..n |-> upTo[i]]
    BY <1>5
  <2>2. QED BY <1>7, <2>1
<1>9. QED BY <1>1, <1>6, <1>8 DEF n

LEMMA Times ==
  ASSUME NEW m \in Nat, NEW d \in Nat
  PROVE  m * d \in Nat /\ d * m = m * d /\ (m + 1) * d = m * d + d /\ 0 * d = 0
<1>1. m * d \in Nat
  BY Product
<1>2. QED BY <1>1

(* A row of a cross join moves the cursor by all of r, and by x and the      *)
(* separator as often as r has strings.                                     *)
LEMMA JoinRowIs ==
  ASSUME NEW start \in Nat, NEW x \in Nat, NEW sep \in Nat, NEW r \in Seq(Nat)
  PROVE  TotalLen(r) \in Nat /\ JoinRow(start, x, r, sep) = start + Len(r) * (x + sep) + TotalLen(r)
<1> DEFINE n == Len(r)
           d == x + sep
           Runs(f) == f = [j \in 0..n |-> IF j = 0 THEN start ELSE f[j - 1] + x + sep + r[j]]
           cursor == CHOOSE f : Runs(f)
<1>1. n \in Nat /\ d \in Nat /\ JoinRow(start, x, r, sep) = cursor[n]
  BY DEF JoinRow
<1>2. PICK U \in [0..n -> Nat] : /\ U[0] = 0
                                 /\ \A j \in 1..n : U[j] = U[j - 1] + r[j]
                                 /\ TotalLen(r) = U[n]
  BY TotalIs
<1> HIDE DEF n, d
<1> DEFINE At(j) == start + j * d + U[j]
<1>3. \A j \in 0..n : At(j) \in Nat
  <2>1. ASSUME NEW j \in 0..n PROVE At(j) \in Nat
    <3>1. j * d \in Nat /\ U[j] \in Nat
      BY <1>1, Times
    <3>2. QED BY <3>1
  <2>2. QED BY <2>1
<1>4. ASSUME NEW j \in 1..n PROVE j - 1 \in 0..n /\ At(j) = At(j - 1) + x + sep + r[j]
  <2> DEFINE i == j - 1
             w == i * d
  <2>1. i \in Nat /\ i + 1 = j /\ i \in 0..n /\ j \in 0..n
    BY <1>1
  <2>2. w \in Nat /\ j * d = w + d
    <3> HIDE DEF i
    <3>1. i * d \in Nat /\ (i + 1) * d = i * d + d
      BY <1>1, <2>1, Times
    <3>2. QED BY <2>1, <3>1
  <2>3. U[j] = U[i] + r[j] /\ U[i] \in Nat /\ r[j] \in Nat
    <3>1. U[j] = U[j - 1] + r[j]
      BY <1>2, <2>1
    <3>2. r[j] \in Nat
      BY DEF n
    <3>3. U[i] \in Nat
      BY <1>2, <2>1
    <3>4. QED BY <3>1, <3>2, <3>3
  <2> HIDE DEF i, w
  <2>4. start + (w + d) + (U[i] + r[j]) = (start + w + U[i]) + x + sep + r[j]
    BY <2>2, <2>3 DEF d
  <2>5. QED BY <2>1, <2>2, <2>3, <2>4 DEF i, w
<1>5. At(0) = start
  BY <1>1, <1>2, Times
<1> HIDE DEF At
<1>6. Runs(cursor)
  <2> DEFINE g == [j \in 0..n |-> At(j)]
  <2>1. ASSUME NEW j \in 0..n PROVE g[j] = IF j = 0 THEN start ELSE g[j - 1] + x + sep + r[j]
    <3>1. CASE j = 0
      BY <1>5, <3>1
    <3>2. CASE j # 0
      <4>1. j \in 1..n
        BY <1>1, <3>2
      <4>2. QED BY <1>4, <3>2, <4>1
    <3>3. QED BY <3>1, <3>2
  <2>2. g = [j \in 0..n |-> g[j]]
    OBVIOUS
  <2> HIDE DEF g
  <2>3. Runs(g)
    BY <2>1, <2>2
  <2> HIDE DEF Runs
  <2>4. QED BY <2>3
<1> HIDE DEF cursor
<1> DEFINE K == {j \in Nat : cursor[j] = At(j)}
<1>7. 0 \in K
  <2>1. 0 \in 0..n
    BY <1>1
  <2>2. QED BY <1>5, <1>6, <2>1
<1>8. ASSUME NEW j \in 1..n, j - 1 \in K PROVE j \in K
  <2>1. j \in 0..n /\ j # 0 /\ j \in Nat
    BY <1>1
  <2>2. cursor[j] = cursor[j - 1] + x + sep + r[j]
    BY <1>6, <2>1
  <2>3. QED BY <1>4, <1>8, <2>1, <2>2
<1>9. cursor[n] = At(n)
  <2> HIDE DEF K
  <2>1. 0..n \subseteq K
    BY <1>1, <1>7, <1>8, UpTo
  <2>2. n \in K
    BY <1>1, <2>1
  <2>3. QED BY <2>2 DEF K
<1>10. TotalLen(r) \in Nat
  BY <1>1, <1>2
<1>11. QED BY <1>1, <1>2, <1>9, <1>10 DEF At, n, d

(* CrossJoin fills its buffer to the last byte.                              *)
LEMMA CrossJoinFits ==
  ASSUME NEW l \in Seq(Nat), NEW r \in Seq(Nat), NEW sep \in Nat
  PROVE  CrossJoinString(l, r, sep).list.cursor = CrossJoinString(l, r, sep).list.total_bytes
<1> DEFINE n == Len(l)
           R == Len(r)
           W == TotalLen(r)
           Runs(f) == f = [i \in 0..n |-> IF i = 0 THEN 0 ELSE JoinRow(f[i - 1], l[i], r, sep)]
           cursor == CHOOSE f : Runs(f)
<1>1. /\ CrossJoinString(l, r, sep).list.cursor = cursor[n]
      /\ CrossJoinString(l, r, sep).list.total_bytes = TotalLen(l) * R + W * n + n * R * sep
  BY DEF CrossJoinString, Returned
<1>2. PICK U \in [0..n -> Nat] : /\ U[0] = 0
                                 /\ \A i \in 1..n : U[i] = U[i - 1] + l[i]
                                 /\ TotalLen(l) = U[n]
  BY TotalIs
<1>3. n \in Nat /\ R \in Nat /\ W \in Nat /\ \A i \in 1..n : l[i] \in Nat
  <2>1. W \in Nat
    BY JoinRowIs
  <2> HIDE DEF W
  <2>2. QED BY <2>1
<1>4. ASSUME NEW start \in Nat, NEW x \in Nat
      PROVE  JoinRow(start, x, r, sep) = start + R * (x + sep) + W
  BY <1>4, JoinRowIs
<1> HIDE DEF n, R, W
<1> DEFINE At(i) == U[i] * R + W * i + i * R * sep
<1>5. \A i \in 0..n : At(i) \in Nat
  <2>1. ASSUME NEW i \in 0..n PROVE At(i) \in Nat
    <3>1. U[i] \in Nat /\ i \in Nat
      BY <1>2
    <3>2. U[i] * R \in Nat /\ W * i \in Nat /\ i * R \in Nat
      BY <1>3, <3>1, Times
    <3>3. (i * R) * sep \in Nat
      BY <3>2, Times
    <3>4. QED BY <3>2, <3>3
  <2>2. QED BY <2>1
<1>6. At(0) = 0
  <2>1. U[0] * R = 0 /\ W * 0 = 0 /\ (0 * R) * sep = 0
    BY <1>2, <1>3
  <2>2. QED BY <2>1
<1>7. ASSUME NEW i \in 1..n PROVE i - 1 \in 0..n /\ At(i) = JoinRow(At(i - 1), l[i], r, sep)
  <2> DEFINE h == i - 1
             u == U[h]
             x == l[i]
  <2>1. h \in Nat /\ h + 1 = i /\ h \in 0..n /\ u \in Nat /\ x \in Nat /\ U[i] = u + x
    BY <1>2, <1>3
  <2>2. At(h) \in Nat /\ At(h) = u * R + W * h + h * R * sep
    BY <1>5, <2>1
  <2>3. At(i) = (u + x) * R + W * (h + 1) + (h + 1) * R * sep
    BY <2>1
  <2> HIDE DEF h, u, x, At
  <2>4. JoinRow(At(h), x, r, sep) = At(h) + R * (x + sep) + W
    BY <1>4, <2>1, <2>2
  <2>5. (u + x) * R + W * (h + 1) + (h + 1) * R * sep = (u * R + W * h + h * R * sep) + R * (x + sep) + W
    BY <1>3, <2>1
  <2>6. At(i) = JoinRow(At(h), x, r, sep)
    BY <2>2, <2>3, <2>4, <2>5
  <2>7. QED BY <2>1, <2>6 DEF h, x
<1> HIDE DEF At
<1>8. Runs(cursor)
  <2> DEFINE g == [i \in 0..n |-> At(i)]
  <2>1. ASSUME NEW i \in 0..n PROVE g[i] = IF i = 0 THEN 0 ELSE JoinRow(g[i - 1], l[i], r, sep)
    <3>1. CASE i = 0
      BY <1>6, <3>1
    <3>2. CASE i # 0
      <4>1. i \in 1..n
        BY <1>3, <3>2
      <4>2. QED BY <1>7, <3>2, <4>1
    <3>3. QED BY <3>1, <3>2
  <2>2. g = [i \in 0..n |-> g[i]]
    OBVIOUS
  <2> HIDE DEF g
  <2>3. Runs(g)
    BY <2>1, <2>2
  <2> HIDE DEF Runs
  <2>4. QED BY <2>3
<1> HIDE DEF cursor
<1> DEFINE K == {i \in Nat : cursor[i] = At(i)}
<1>9. 0 \in K
  <2>1. 0 \in 0..n
    BY <1>3
  <2>2. QED BY <1>6, <1>8, <2>1
<1>10. ASSUME NEW i \in 1..n, i - 1 \in K PROVE i \in K
  <2>1. i \in 0..n /\ i # 0 /\ i \in Nat
    BY <1>3
  <2>2. cursor[i] = JoinRow(cursor[i - 1], l[i], r, sep)
    BY <1>8, <2>1
  <2>3. QED BY <1>7, <1>10, <2>1, <2>2
<1>11. cursor[n] = At(n)
  <2> HIDE DEF K
  <2>1. 0..n \subseteq K
    BY <1>3, <1>9, <1>10, UpTo
  <2>2. n \in K
    BY <1>3, <2>1
  <2>3. QED BY <2>2 DEF K
<1>12. QED BY <1>1, <1>2, <1>11 DEF At

(* So does ZipConcat, of lists of one length.                                *)
LEMMA ZipConcatFits ==
  ASSUME NEW l \in Seq(Nat), NEW r \in Seq(Nat), NEW sep \in Nat
  PROVE  LET zipped == ZipConcatString(l, r, sep)
         IN  zipped.error \/ zipped.list.cursor = zipped.list.total_bytes
<1>1. CASE Len(l) # Len(r)
  BY <1>1 DEF ZipConcatString, Error
<1>2. CASE Len(l) = Len(r)
  <2> DEFINE n == Len(l)
             Runs(f) == f = [i \in 0..n |-> IF i = 0 THEN 0 ELSE f[i - 1] + l[i] + sep + r[i]]
             cursor == CHOOSE f : Runs(f)
  <2>1. /\ ZipConcatString(l, r, sep).list.cursor = cursor[n]
        /\ ZipConcatString(l, r, sep).list.total_bytes = TotalLen(l) + TotalLen(r) + n * sep
    BY <1>2 DEF ZipConcatString, Returned
  <2>2. PICK U \in [0..n -> Nat] : /\ U[0] = 0
                                   /\ \A i \in 1..n : U[i] = U[i - 1] + l[i]
                                   /\ TotalLen(l) = U[n]
    BY TotalIs
  <2>3. PICK V \in [0..n -> Nat] : /\ V[0] = 0
                                   /\ \A i \in 1..n : V[i] = V[i - 1] + r[i]
                                   /\ TotalLen(r) = V[n]
    BY <1>2, TotalIs
  <2>4. n \in Nat /\ \A i \in 1..n : l[i] \in Nat /\ r[i] \in Nat
    BY <1>2
  <2> HIDE DEF n
  <2> DEFINE At(i) == U[i] + V[i] + i * sep
  <2>5. At(0) = 0
    BY <2>2, <2>3, Times
  <2>6. ASSUME NEW i \in 1..n PROVE i - 1 \in 0..n /\ At(i) = At(i - 1) + l[i] + sep + r[i]
    <3> DEFINE h == i - 1
               u == U[h]
               v == V[h]
               x == l[i]
               y == r[i]
               w == h * sep
    <3>1. /\ h \in Nat /\ h + 1 = i /\ h \in 0..n /\ u \in Nat /\ v \in Nat /\ x \in Nat /\ y \in Nat
          /\ U[i] = u + x /\ V[i] = v + y
      BY <2>2, <2>3, <2>4
    <3>2. w \in Nat /\ i * sep = w + sep
      <4> HIDE DEF h
      <4>1. h * sep \in Nat /\ (h + 1) * sep = h * sep + sep
        BY <3>1, Times
      <4>2. QED BY <3>1, <4>1
    <3>3. At(h) = u + v + w
      OBVIOUS
    <3>4. At(i) = (u + x) + (v + y) + (w + sep)
      BY <3>1, <3>2
    <3> HIDE DEF h, u, v, x, y, w, At
    <3>5. (u + x) + (v + y) + (w + sep) = (u + v + w) + x + sep + y
      BY <3>1, <3>2
    <3>6. At(i) = At(h) + x + sep + y
      BY <3>3, <3>4, <3>5
    <3>7. QED BY <3>1, <3>6 DEF h, x, y
  <2> HIDE DEF At
  <2>7. Runs(cursor)
    <3> DEFINE g == [i \in 0..n |-> At(i)]
    <3>1. ASSUME NEW i \in 0..n PROVE g[i] = IF i = 0 THEN 0 ELSE g[i - 1] + l[i] + sep + r[i]
      <4>1. CASE i = 0
        BY <2>5, <4>1
      <4>2. CASE i # 0
        <5>1. i \in 1..n
          BY <2>4, <4>2
        <5>2. QED BY <2>6, <4>2, <5>1
      <4>3. QED BY <4>1, <4>2
    <3>2. g = [i \in 0..n |-> g[i]]
      OBVIOUS
    <3> HIDE DEF g
    <3>3. Runs(g)
      BY <3>1, <3>2
    <3> HIDE DEF Runs
    <3>4. QED BY <3>3
  <2> HIDE DEF cursor
  <2> DEFINE K == {i \in Nat : cursor[i] = At(i)}
  <2>8. 0 \in K
    <3>1. 0 \in 0..n
      BY <2>4
    <3>2. QED BY <2>5, <2>7, <3>1
  <2>9. ASSUME NEW i \in 1..n, i - 1 \in K PROVE i \in K
    <3>1. i \in 0..n /\ i # 0 /\ i \in Nat
      BY <2>4
    <3>2. cursor[i] = cursor[i - 1] + l[i] + sep + r[i]
      BY <2>7, <3>1
    <3>3. QED BY <2>6, <2>9, <3>1, <3>2
  <2>10. cursor[n] = At(n)
    <3> HIDE DEF K
    <3>1. 0..n \subseteq K
      BY <2>4, <2>8, <2>9, UpTo
    <3>2. n \in K
      BY <2>4, <3>1
    <3>3. QED BY <3>2 DEF K
  <2>11. QED BY <2>1, <2>2, <2>3, <2>10 DEF At
<1>3. QED BY <1>1, <1>2

-----------------------------------------------------------------------------
(* GroupKeys writes a key when its id is the number of keys written, so the  *)
(* last one written is at its id, and no id is above the maximum.            *)
LEMMA MaxIs ==
  ASSUME NEW m \in Nat, NEW S \in SUBSET (0..m), S # {}
  PROVE  Max(S) \in S /\ \A y \in S : y <= Max(S)
<1> DEFINE HasMax(X) == \E x \in X : \A y \in X : x >= y
           T == {k \in Nat : \A X \in SUBSET (0..k) : X # {} => HasMax(X)}
<1>1. 0 \in T
  <2>1. ASSUME NEW X \in SUBSET (0..0), X # {} PROVE HasMax(X)
    <3>1. \A x \in X : x = 0
      OBVIOUS
    <3>2. PICK x \in X : x = 0
      BY <2>1, <3>1
    <3>3. \A y \in X : x >= y
      BY <3>1, <3>2
    <3>4. QED BY <3>3
  <2> HIDE DEF HasMax
  <2>2. QED BY <2>1
<1>2. ASSUME NEW k \in T PROVE k + 1 \in T
  <2>1. ASSUME NEW X \in SUBSET (0..(k + 1)), X # {} PROVE HasMax(X)
    <3>1. CASE k + 1 \in X
      <4>1. \A y \in X : k + 1 >= y
        OBVIOUS
      <4>2. QED BY <3>1, <4>1
    <3>2. CASE k + 1 \notin X
      <4>1. X \in SUBSET (0..k)
        BY <3>2
      <4> HIDE DEF HasMax
      <4>2. QED BY <2>1, <4>1
    <3>3. QED BY <3>1, <3>2
  <2>2. k + 1 \in Nat
    OBVIOUS
  <2> HIDE DEF HasMax
  <2>3. QED BY <2>1, <2>2
<1>3. m \in T
  <2>1. T \in SUBSET Nat
    OBVIOUS
  <2> HIDE DEF T
  <2>2. QED BY <1>1, <1>2, <2>1, Induction
<1>4. HasMax(S)
  <2> HIDE DEF HasMax
  <2>1. QED BY <1>3
<1>5. Max(S) \in S /\ \A y \in S : Max(S) >= y
  BY <1>4 DEF Max
<1>6. QED BY <1>5

LEMMA GroupKeysFit ==
  ASSUME NEW keys \in Seq(Elements), NEW m \in Nat, NEW group_index \in [1..Len(keys) -> 0..m]
  PROVE  Len(GroupKeys(keys, group_index).list) <= GroupCount(group_index)
<1> DEFINE n == Len(keys)
           Step(s, i) == IF group_index[i] = Len(s) THEN Append(s, keys[i]) ELSE s
           Runs(f, h) == f = [i \in 0..h |-> IF i = 0 THEN << >> ELSE Step(f[i - 1], i)]
           T == {h \in Nat : \E f : Runs(f, h)}
           out == CHOOSE f : Runs(f, n)
           Good(s, i) == /\ s \in Seq(Elements)
                         /\ s = << >> \/ \E j \in 1..i : group_index[j] + 1 = Len(s)
           K == {i \in Nat : Good(out[i], i)}
<1>1. n \in Nat /\ \A i \in 1..n : keys[i] \in Elements
  OBVIOUS
<1>2. GroupKeys(keys, group_index).list = out[n]
  <2>1. Len(group_index) = n
    BY <1>1
  <2>2. QED BY <2>1 DEF GroupKeys, Returned
<1>3. group_index \in [1..n -> 0..m]
  OBVIOUS
<1> HIDE DEF n
<1>4. ASSUME NEW i \in 1..n, NEW s, Good(s, i - 1) PROVE Good(Step(s, i), i)
  <2>1. \A j \in 1..(i - 1) : j \in 1..i
    BY <1>1
  <2>2. CASE group_index[i] = Len(s)
    <3>1. Append(s, keys[i]) \in Seq(Elements) /\ Len(Append(s, keys[i])) = Len(s) + 1
      BY <1>1, <1>4, AppendProperties
    <3>2. i \in 1..i
      BY <1>1
    <3>3. Step(s, i) = Append(s, keys[i])
      BY <2>2
    <3>4. group_index[i] + 1 = Len(Append(s, keys[i]))
      BY <2>2, <3>1
    <3> HIDE DEF Step
    <3>5. QED BY <3>1, <3>2, <3>3, <3>4
  <2>3. CASE group_index[i] # Len(s)
    BY <1>4, <2>1, <2>3
  <2>4. QED BY <2>2, <2>3
<1> HIDE DEF Step
<1>5. 0 \in T
  <2> DEFINE f == [i \in 0..0 |-> << >>]
  <2>1. Runs(f, 0)
    <3>1. \A i \in 0..0 : i = 0
      OBVIOUS
    <3>2. \A i \in 0..0 : << >> = IF i = 0 THEN << >> ELSE Step(f[i - 1], i)
      BY <3>1
    <3>3. QED BY <3>2
  <2> HIDE DEF Runs
  <2>2. QED BY <2>1
<1>6. ASSUME NEW h \in T PROVE h + 1 \in T
  <2>1. PICK f : Runs(f, h)
    OBVIOUS
  <2> DEFINE g == [i \in 0..(h + 1) |-> IF i = h + 1 THEN Step(f[h], h + 1) ELSE f[i]]
  <2>2. ASSUME NEW i \in 0..(h + 1) PROVE g[i] = IF i = 0 THEN << >> ELSE Step(g[i - 1], i)
    <3>1. CASE i = h + 1
      <4>1. i # 0 /\ i - 1 = h /\ h \in 0..(h + 1) /\ h # h + 1
        BY <3>1
      <4>2. QED BY <3>1, <4>1
    <3>2. CASE i # h + 1
      <4>1. i \in 0..h /\ (i # 0 => i - 1 \in 0..(h + 1) /\ i - 1 # h + 1)
        BY <3>2
      <4>2. QED BY <2>1, <3>2, <4>1
    <3>3. QED BY <3>1, <3>2
  <2>3. g = [i \in 0..(h + 1) |-> g[i]]
    OBVIOUS
  <2> HIDE DEF g
  <2>4. Runs(g, h + 1)
    BY <2>2, <2>3
  <2>5. h + 1 \in Nat
    OBVIOUS
  <2> HIDE DEF Runs
  <2>6. QED BY <2>4, <2>5
<1>7. Runs(out, n)
  <2>1. T \in SUBSET Nat
    OBVIOUS
  <2> HIDE DEF T
  <2>2. n \in T
    BY <1>1, <1>5, <1>6, <2>1, Induction
  <2>3. \E f : Runs(f, n)
    BY <2>2 DEF T
  <2> HIDE DEF Runs
  <2>4. QED BY <2>3
<1> HIDE DEF out
<1>8. 0 \in K
  <2>1. out[0] = << >>
    <3>1. 0 \in 0..n
      BY <1>1
    <3>2. QED BY <1>7, <3>1
  <2>2. Good(<< >>, 0)
    OBVIOUS
  <2> HIDE DEF Good
  <2>3. QED BY <2>1, <2>2
<1>9. ASSUME NEW i \in 1..n, i - 1 \in K PROVE i \in K
  <2>1. out[i] = Step(out[i - 1], i)
    <3>1. i \in 0..n /\ i # 0
      BY <1>1
    <3>2. QED BY <1>7, <3>1
  <2>2. Good(out[i - 1], i - 1) /\ i \in Nat
    BY <1>9
  <2> HIDE DEF Good
  <2>3. QED BY <1>4, <2>1, <2>2
<1>10. Good(out[n], n)
  <2> HIDE DEF K
  <2>1. 0..n \subseteq K
    BY <1>1, <1>8, <1>9, UpTo
  <2>2. n \in K
    BY <1>1, <2>1
  <2>3. QED BY <2>2 DEF K
<1>11. CASE n = 0
  <2>1. 1..n = {}
    BY <1>11
  <2>2. out[n] = << >>
    BY <1>10, <2>1
  <2>3. group_index = << >>
    <3>1. group_index \in Seq(0..m) /\ Len(group_index) = 0
      BY <1>3, <1>11
    <3>2. QED BY <3>1, EmptySeq
  <2>4. QED BY <1>2, <2>2, <2>3 DEF GroupCount
<1>12. CASE n # 0
  <2> DEFINE S == Range(group_index)
  <2>1. 1 \in 1..n
    BY <1>1, <1>12
  <2>2. S \in SUBSET (0..m) /\ S # {} /\ \A j \in 1..n : group_index[j] \in S
    BY <1>3, <2>1 DEF Range
  <2>3. Max(S) \in Nat /\ \A j \in 1..n : group_index[j] <= Max(S)
    <3> HIDE DEF S
    <3>1. Max(S) \in S /\ \A y \in S : y <= Max(S)
      BY <2>2, MaxIs
    <3>2. \A x \in S : x \in Nat
      BY <2>2
    <3>3. QED BY <2>2, <3>1, <3>2
  <2>4. GroupCount(group_index) = Max(S) + 1
    <3>1. group_index # << >>
      <4>1. DOMAIN group_index = 1..n /\ DOMAIN << >> = {}
        BY <1>3
      <4>2. QED BY <2>1, <4>1
    <3>2. QED BY <3>1 DEF GroupCount
  <2> HIDE DEF S
  <2>5. CASE out[n] = << >>
    <3>1. Len(out[n]) = 0
      BY <2>5
    <3>2. QED BY <1>2, <2>3, <2>4, <3>1
  <2>6. CASE out[n] # << >>
    <3>1. PICK j \in 1..n : group_index[j] + 1 = Len(out[n])
      BY <1>10, <2>6
    <3>2. group_index[j] <= Max(S)
      BY <2>3
    <3>3. group_index[j] \in 0..m
      BY <1>3
    <3>4. group_index[j] + 1 <= Max(S) + 1
      BY <2>3, <3>2, <3>3
    <3>5. QED BY <1>2, <2>4, <3>1, <3>4
  <2>7. QED BY <2>5, <2>6
<1>13. QED BY <1>11, <1>12

(* A count other than that of the elements kept is an error, whatever else   *)
(* is wrong.                                                                 *)
LEMMA CountIsTested ==
  ASSUME NEW list, NEW bytes, NEW bits_cnt, Filtering(list, bytes).cur # bits_cnt
  PROVE  FilterByBitmap(list, bytes, bits_cnt).error
<1> DEFINE bad1 == BytesFor(Len(list)) # Len(bytes)
           bad2 == Len(list) % ByteBits # 0 /\ \E j \in bytes[Len(bytes)] : j >= Len(list) % ByteBits
           bad3 == Filtering(list, bytes).cur # bits_cnt
           good == Returned(SubSeq(Filtering(list, bytes).data, 1, bits_cnt))
           result == FilterByBitmap(list, bytes, bits_cnt)
<1>1. result = CASE bad1 -> Error [] bad2 -> Error [] bad3 -> Error [] OTHER -> good
  BY DEF FilterByBitmap
<1>2. bad3
  OBVIOUS
<1> HIDE DEF bad1, bad2, bad3, good, result
<1>3. result = Error
  BY <1>1, <1>2
<1>4. QED BY <1>3 DEF result, Error

(* What the bitmap stands for bounds what FilterByBitmap writes; the joins   *)
(* and GroupKeys need no more than that the lists are lists.                 *)
LEMMA InvBoundsWrites == KernelsInv => WritesAreBounded
<1> SUFFICES ASSUME KernelsInv PROVE WritesAreBounded
  OBVIOUS
<1>1. a \in Seq(Elements) /\ b \in Seq(Elements) /\ BitsAre(bitmap, picks)
  BY DEF KernelsInv
<1>2. ASSUME Fits
      PROVE  /\ FilterWrites <= CountBits(bitmap) + 1
             /\ \A bits_cnt \in 0..MaxLen :
                  FilterWrites > bits_cnt + 1 => FilterByBitmap(a, bitmap, bits_cnt).error
  <2> DEFINE kept == Before(picks, Len(a))
  <2>1. KeptIs(a, picks, Filtering(a, bitmap), Len(a))
    BY <1>1, <1>2, FilteringKeeps DEF Fits
  <2>2. CountBits(bitmap) = Cardinality(picks) /\ IsFiniteSet(picks)
    BY <1>1, CountBitsIs
  <2>3. Cardinality(kept) <= Cardinality(picks) /\ Cardinality(picks) \in Nat
    <3>1. kept \in SUBSET picks
      BY DEF Before
    <3> HIDE DEF kept
    <3>2. QED BY <2>2, <3>1, FS_Subset, FS_CardinalityType
  <2>4. /\ Filtering(a, bitmap).data \in Seq(Elements)
        /\ Len(Filtering(a, bitmap).data) <= Cardinality(kept) + 1
        /\ Cardinality(kept) \in Nat
    BY <2>1 DEF KeptIs
  <2>5. FilterWrites <= CountBits(bitmap) + 1
    <3> HIDE DEF kept
    <3>1. QED BY <2>2, <2>3, <2>4 DEF FilterWrites
  <2>6. ASSUME NEW bits_cnt \in 0..MaxLen, FilterWrites > bits_cnt + 1
        PROVE  FilterByBitmap(a, bitmap, bits_cnt).error
    <3>1. Filtering(a, bitmap).cur # bits_cnt
      BY <2>1, <2>6, Widths DEF KeptIs, FilterWrites
    <3>2. QED BY <3>1, CountIsTested
  <2>7. QED BY <2>5, <2>6
<1>3. ASSUME NoNaN(a), NoNaN(b), NEW sep \in 0..1
      PROVE  /\ CrossJoinString(a, b, sep).list.cursor = CrossJoinString(a, b, sep).list.total_bytes
             /\ \/ ZipConcatString(a, b, sep).error
                \/ ZipConcatString(a, b, sep).list.cursor = ZipConcatString(a, b, sep).list.total_bytes
  <2>1. ASSUME NEW list \in Seq(Elements), NoNaN(list) PROVE list \in Seq(Nat)
    <3>1. \A i \in 1..Len(list) : list[i] \in Elements /\ list[i] # NaN
      BY <2>1 DEF NoNaN, Range
    <3>2. \A i \in 1..Len(list) : list[i] \in Nat
      BY <3>1, KernelsAssumption DEF Elements
    <3>3. list \in [1..Len(list) -> Nat] /\ Len(list) \in Nat
      BY <3>2
    <3>4. QED BY <3>3
  <2>2. a \in Seq(Nat) /\ b \in Seq(Nat) /\ sep \in Nat
    BY <1>1, <1>3, <2>1
  <2>3. QED BY <2>2, CrossJoinFits, ZipConcatFits
<1>4. ASSUME NEW group_index \in [DOMAIN a -> 0..MaxLen]
      PROVE  Len(GroupKeys(a, group_index).list) <= GroupCount(group_index)
  <2>1. group_index \in [1..Len(a) -> 0..MaxLen] /\ MaxLen \in Nat
    BY <1>1, Widths
  <2>2. QED BY <1>1, <2>1, GroupKeysFit
<1>5. BytesWritten(Len(a)) =
        BytesFor(Len(a)) + (IF Len(a) > 0 /\ Len(a) % ByteBits = 0 THEN 1 ELSE 0)
  BY <1>1, Written
<1>6. QED BY <1>2, <1>3, <1>4, <1>5 DEF WritesAreBounded

(* For lists of any length: FilterByBitmap writes at most one element more   *)
(* than the bitmap has bits, and when that is more than the count it was     *)
(* given allows, it returns an error; GenBitmap writes its result and, after *)
(* a multiple of a byte's bits, one byte behind it; CrossJoin and ZipConcat  *)
(* fill their buffer to the last byte; GroupKeys writes no more keys than    *)
(* there are groups.                                                         *)
THEOREM KernelWritesAreBounded == Spec => []WritesAreBounded
<1>1. QED BY InitKernels, NextKernels, InvBoundsWrites, PTL DEF Spec
=============================================================================
