----------------------------- MODULE EngineProofs -----------------------------
(***************************************************************************)
(* Proofs about ExecEngine and the blobs it writes and reads.              *)
(*                                                                         *)
(* The first part is about the bytes alone: the reader returns what the    *)
(* writer was given, refuses whatever is cut short or continued, and never *)
(* accepts a blob that the writer would write otherwise, for any base,     *)
(* widths, magics, headers and objects.  The second is about the engine:   *)
(* what Execute reports and runs agree, the engine implements              *)
(* CompiledEntries, and it reads what was written and notices damage, for  *)
(* any expressions, registries, artifacts, options and LLVM failures, in   *)
(* any order of calls.                                                     *)
(***************************************************************************)
EXTENDS SavedBlobs, JitCoreProofs, SequenceTheorems, WellFoundedInduction, TLAPS

-----------------------------------------------------------------------------
(* Induction over a set, and what it says of recursive functions.          *)
LEMMA Induction ==
  ASSUME NEW T \in SUBSET Nat, 0 \in T, \A n \in T : n + 1 \in T
  PROVE  Nat \subseteq T
<1> DEFINE Bad == Nat \ T
<1>1. SUFFICES ASSUME Bad # {} PROVE FALSE
  OBVIOUS
<1>2. PICK m \in Bad : \A n \in Bad : <<n, m>> \notin OpToRel(<, Nat)
  BY <1>1, NatLessThanWellFounded, WFMin
<1>3. m \in Nat /\ m \notin T
  OBVIOUS
<1>4. m - 1 \in Nat /\ m - 1 < m
  BY <1>3
<1>5. m - 1 \notin Bad
  BY <1>2, <1>3, <1>4 DEF OpToRel
<1>6. (m - 1) + 1 \in T
  BY <1>4, <1>5
<1>7. (m - 1) + 1 = m
  BY <1>3
<1>8. QED BY <1>3, <1>6, <1>7

(* A recursive function over 0..n exists if its steps stay in a set.       *)
StaysIn(S, K, step) == \A k \in K, s \in S : step[k][s] \in S
IsRun(f, K, first, step) == f = [k \in K |-> IF k = 0 THEN first ELSE step[k][f[k - 1]]]

LEMMA RecursionExists ==
  ASSUME NEW S, NEW n \in Nat, NEW first \in S, NEW step, StaysIn(S, 1..n, step)
  PROVE  \E f \in [0..n -> S] : IsRun(f, 0..n, first, step)
<1> DEFINE Runs(m) == {f \in [0..m -> S] : \A k \in 0..m : f[k] = IF k = 0 THEN first ELSE step[k][f[k - 1]]}
           T == {m \in Nat : m <= n => Runs(m) # {}}
<1>1. 0 \in T
  <2>1. [k \in 0..0 |-> first] \in Runs(0)
    OBVIOUS
  <2>2. QED BY <2>1
<1>2. ASSUME NEW m \in T PROVE m + 1 \in T
  <2>1. SUFFICES ASSUME m + 1 <= n PROVE Runs(m + 1) # {}
    BY <1>2
  <2>2. m \in Nat /\ m <= n
    BY <2>1
  <2>3. PICK f : f \in Runs(m)
    BY <2>2
  <2> DEFINE g == [k \in 0..(m + 1) |-> IF k = m + 1 THEN step[m + 1][f[m]] ELSE f[k]]
  <2>4. step[m + 1][f[m]] \in S
    BY <2>1, <2>2, <2>3 DEF StaysIn
  <2>5. g \in [0..(m + 1) -> S]
    <3>1. ASSUME NEW k \in 0..(m + 1) PROVE g[k] \in S
      <4>1. k = m + 1 \/ k \in 0..m
        BY <2>2
      <4>2. QED BY <2>2, <2>3, <2>4, <4>1
    <3>2. QED BY <3>1
  <2>6. ASSUME NEW k \in 0..(m + 1) PROVE g[k] = IF k = 0 THEN first ELSE step[k][g[k - 1]]
    <3>1. CASE k = m + 1
      <4>1. k # 0 /\ k - 1 = m /\ m \in 0..(m + 1) /\ m # m + 1
        BY <2>2, <3>1
      <4>2. QED BY <3>1, <4>1
    <3>2. CASE k # m + 1
      <4>1. k \in 0..m /\ (k # 0 => k - 1 \in 0..(m + 1) /\ k - 1 # m + 1)
        BY <2>2, <3>2
      <4>2. QED BY <2>3, <3>2, <4>1
    <3>3. QED BY <3>1, <3>2
  <2> HIDE DEF g
  <2>7. QED BY <2>5, <2>6
<1>3. n \in T
  <2> HIDE DEF T
  <2>1. T \in SUBSET Nat
    BY DEF T
  <2>2. QED BY <1>1, <1>2, <2>1, Induction
<1>4. PICK f : f \in Runs(n)
  BY <1>3
<1>5. f = [k \in 0..n |-> f[k]]
  BY <1>4
<1>6. QED BY <1>4, <1>5 DEF IsRun

(* So does one over all natural numbers.                                    *)
LEMMA RecursionOverNat ==
  ASSUME NEW S, NEW first \in S, NEW step, StaysIn(S, Nat \ {0}, step)
  PROVE  \E f \in [Nat -> S] : IsRun(f, Nat, first, step)
<1> DEFINE Good(g, n) == g \in [0..n -> S] /\ \A k \in 0..n : g[k] = IF k = 0 THEN first ELSE step[k][g[k - 1]]
           Run(n) == CHOOSE g : Good(g, n)
           f == [n \in Nat |-> Run(n)[n]]
<1>1. ASSUME NEW n \in Nat PROVE Good(Run(n), n)
  <2>1. StaysIn(S, 1..n, step)
    BY DEF StaysIn
  <2>2. PICK g \in [0..n -> S] : IsRun(g, 0..n, first, step)
    BY <2>1, RecursionExists
  <2>3. Good(g, n)
    BY <2>2 DEF IsRun
  <2> HIDE DEF Good
  <2>4. QED BY <2>3
<1> HIDE DEF Run
<1>2. \A i, n \in Nat : i <= n => Run(n)[i] = Run(i)[i]
  <2> DEFINE T == {i \in Nat : \A n \in Nat : i <= n => Run(n)[i] = Run(i)[i]}
  <2>1. 0 \in T
    BY <1>1
  <2>2. ASSUME NEW i \in T PROVE i + 1 \in T
    <3>1. SUFFICES ASSUME NEW n \in Nat, i + 1 <= n PROVE Run(n)[i + 1] = Run(i + 1)[i + 1]
      OBVIOUS
    <3>2. Run(n)[i] = Run(i)[i] /\ Run(i + 1)[i] = Run(i)[i]
      BY <2>2, <3>1
    <3>3. i + 1 \in 0..n /\ i + 1 \in 0..(i + 1) /\ i + 1 # 0 /\ (i + 1) - 1 = i
      BY <3>1
    <3>4. /\ Run(n)[i + 1] = step[i + 1][Run(n)[i]]
          /\ Run(i + 1)[i + 1] = step[i + 1][Run(i + 1)[i]]
      BY <1>1, <3>3
    <3>5. QED BY <3>2, <3>4
  <2>3. T \in SUBSET Nat
    OBVIOUS
  <2> HIDE DEF T
  <2>4. Nat \subseteq T
    BY <2>1, <2>2, <2>3, Induction
  <2>5. QED BY <2>4 DEF T
<1>3. ASSUME NEW n \in Nat PROVE f[n] \in S /\ f[n] = IF n = 0 THEN first ELSE step[n][f[n - 1]]
  <2>1. n \in 0..n
    OBVIOUS
  <2>2. Run(n)[n] \in S /\ Run(n)[n] = IF n = 0 THEN first ELSE step[n][Run(n)[n - 1]]
    BY <1>1, <2>1
  <2>3. n # 0 => n - 1 \in Nat /\ n - 1 <= n
    OBVIOUS
  <2>4. n # 0 => Run(n)[n - 1] = f[n - 1]
    BY <1>2, <2>3
  <2>5. QED BY <2>2, <2>4
<1>4. f \in [Nat -> S] /\ f = [n \in Nat |-> f[n]]
  BY <1>3
<1> HIDE DEF f
<1>5. QED BY <1>3, <1>4 DEF IsRun

-----------------------------------------------------------------------------
(* Numbers and their digits. *)
LEMMA Product ==
  ASSUME NEW m \in Nat, NEW p \in Nat, NEW q \in Nat, p <= q
  PROVE  m * p \in Nat /\ m * p <= m * q
<1>1. PICK d \in Nat : q = p + d
  <2>1. q - p \in Nat /\ q = p + (q - p)
    OBVIOUS
  <2>2. QED BY <2>1
<1>2. m * q = m * p + m * d /\ m * d \in Nat /\ m * p \in Nat
  BY <1>1
<1>3. QED BY <1>2

LEMMA Division ==
  ASSUME NEW m \in Nat \ {0}, NEW q \in Nat, NEW r \in 0..(m - 1)
  PROVE  (m * q + r) \div m = q /\ (m * q + r) % m = r
<1> DEFINE v == m * q + r
           d == v \div m
           e == v % m
<1>1. v \in Nat /\ d \in Nat /\ e \in 0..(m - 1) /\ v = m * d + e
  <2>1. m * q \in Nat
    BY Product
  <2>2. v \in Nat
    BY <2>1
  <2> HIDE DEF v
  <2>3. QED BY <2>2
<1> HIDE DEF d, e
<1>2. d = q
  <2>1. CASE d < q
    <3>1. d + 1 <= q /\ m * (d + 1) <= m * q /\ m * (d + 1) = m * d + m
      BY <1>1, <2>1, Product
    <3>2. m * q \in Nat /\ m * d \in Nat
      BY <1>1, Product
    <3>3. QED BY <1>1, <3>1, <3>2
  <2>2. CASE q < d
    <3>1. q + 1 <= d /\ m * (q + 1) <= m * d /\ m * (q + 1) = m * q + m
      BY <1>1, <2>2, Product
    <3>2. m * q \in Nat /\ m * d \in Nat
      BY <1>1, Product
    <3>3. QED BY <1>1, <3>1, <3>2
  <2>3. QED BY <1>1, <2>1, <2>2
<1>3. e = r
  <2>1. m * q \in Nat
    BY Product
  <2>2. QED BY <1>1, <1>2, <2>1
<1>4. QED BY <1>2, <1>3 DEF d, e

LEMMA Powers ==
  /\ Power[0] = 1
  /\ \A n \in Nat : /\ Power[n] \in Nat \ {0}
                    /\ Power[n + 1] = Base * Power[n]
                    /\ n < Power[n]
                    /\ n # 0 => 2 * n <= Power[n]
<1>1. Base \in Nat /\ Base >= 2
  BY FormatAssumption
<1> DEFINE step == [k \in Nat |-> [s \in Nat |-> Base * s]]
<1>2. StaysIn(Nat, Nat \ {0}, step)
  BY <1>1, Product DEF StaysIn
<1>3. PICK f \in [Nat -> Nat] : IsRun(f, Nat, 1, step)
  <2> HIDE DEF step
  <2>1. QED BY <1>2, RecursionOverNat
<1>4. f = [n \in Nat |-> IF n = 0 THEN 1 ELSE Base * f[n - 1]]
  <2>1. \A n \in Nat : n # 0 => n - 1 \in Nat /\ f[n - 1] \in Nat
    OBVIOUS
  <2>2. \A n \in Nat : n # 0 => step[n][f[n - 1]] = Base * f[n - 1]
    BY <2>1
  <2> HIDE DEF step
  <2>3. QED BY <1>3, <2>2 DEF IsRun
<1>5. Power = [n \in Nat |-> IF n = 0 THEN 1 ELSE Base * Power[n - 1]]
  BY <1>4 DEF Power
<1>6. Power[0] = 1 /\ \A n \in Nat : Power[n + 1] = Base * Power[n]
  <2>1. \A n \in Nat : n + 1 \in Nat /\ n + 1 # 0 /\ (n + 1) - 1 = n
    OBVIOUS
  <2>2. QED BY <1>5, <2>1
<1>7. \A n \in Nat : Power[n] \in Nat \ {0} /\ n < Power[n] /\ (n # 0 => 2 * n <= Power[n])
  <2> DEFINE T == {n \in Nat : Power[n] \in Nat \ {0} /\ n < Power[n] /\ (n # 0 => 2 * n <= Power[n])}
  <2>1. 0 \in T
    BY <1>6
  <2>2. ASSUME NEW n \in T PROVE n + 1 \in T
    <3>1. Power[n + 1] = Power[n] * Base /\ Power[n] \in Nat
      BY <1>1, <1>6
    <3>2. Power[n] * 2 <= Power[n] * Base /\ Power[n] * Base \in Nat
      BY <1>1, <3>1, Product
    <3>3. QED BY <2>2, <3>1, <3>2
  <2>3. T \in SUBSET Nat
    OBVIOUS
  <2> HIDE DEF T
  <2>4. Nat \subseteq T
    BY <2>1, <2>2, <2>3, Induction
  <2>5. QED BY <2>4 DEF T
<1>8. QED BY <1>6, <1>7

LEMMA Quotients ==
  ASSUME NEW v \in Nat, NEW i \in Nat
  PROVE  /\ v \div Power[i] \in Nat
         /\ v \div Power[i + 1] = (v \div Power[i]) \div Base
         /\ v \div Power[0] = v
         /\ v < Power[i] => v \div Power[i] = 0
<1> DEFINE P == Power[i]
           q == v \div P
           r == v % P
           h == q \div Base
           d == q % Base
<1>1. Base \in Nat \ {0, 1} /\ P \in Nat \ {0} /\ Power[i + 1] = Base * P /\ Power[0] = 1
  BY FormatAssumption, Powers
<1> HIDE DEF P
<1>2. q \in Nat /\ r \in 0..(P - 1) /\ v = P * q + r
  BY <1>1
<1> HIDE DEF q, r
<1>3. h \in Nat /\ d \in 0..(Base - 1) /\ q = Base * h + d
  BY <1>1, <1>2
<1> HIDE DEF h, d
<1>4. v = (Base * P) * h + (P * d + r)
  BY <1>1, <1>2, <1>3
<1>5. P * d + r \in 0..(Base * P - 1)
  <2>1. P * d \in Nat /\ P * d <= P * (Base - 1)
    <3>1. Base - 1 \in Nat /\ d \in Nat /\ d <= Base - 1
      BY <1>1, <1>3
    <3>2. QED BY <1>1, <3>1, Product
  <2>2. P * (Base - 1) = Base * P - P
    BY <1>1
  <2>3. Base * P \in Nat
    BY <1>1, Product
  <2>4. QED BY <1>1, <1>2, <2>1, <2>2, <2>3
<1>6. Base * P \in Nat \ {0}
  BY Powers, <1>1
<1>7. v \div (Base * P) = h
  BY <1>3, <1>4, <1>5, <1>6, Division
<1>8. v \div 1 = v
  OBVIOUS
<1>9. ASSUME v < P PROVE v \div P = 0
  <2>1. v \in 0..(P - 1) /\ P * 0 + v = v
    BY <1>1, <1>9
  <2>2. QED BY <1>1, <2>1, Division
<1>10. QED BY <1>1, <1>2, <1>7, <1>8, <1>9 DEF P, q, h

LEMMA NumberIsRun ==
  ASSUME NEW digits \in Seq(Byte)
  PROVE  \E low \in [0..Len(digits) -> Nat] :
           /\ low[0] = 0
           /\ \A k \in 1..Len(digits) : low[k] = digits[Len(digits) - k + 1] + Base * low[k - 1]
           /\ Number(digits) = low[Len(digits)]
<1> DEFINE n == Len(digits)
           step == [k \in 1..n |-> [s \in Nat |-> digits[n - k + 1] + Base * s]]
<1>1. n \in Nat /\ Base \in Nat /\ \A k \in 1..n : digits[n - k + 1] \in Nat
  BY FormatAssumption DEF Byte
<1>2. StaysIn(Nat, 1..n, step)
  BY <1>1, Product DEF StaysIn
<1>3. PICK f \in [0..n -> Nat] : IsRun(f, 0..n, 0, step)
  <2> HIDE DEF step, n
  <2>1. QED BY <1>1, <1>2, RecursionExists
<1>4. f = [k \in 0..n |-> IF k = 0 THEN 0 ELSE digits[n - k + 1] + Base * f[k - 1]]
  <2>1. ASSUME NEW k \in 0..n, k # 0 PROVE k \in 1..n /\ f[k - 1] \in Nat
    <3>1. k \in 1..n /\ k - 1 \in 0..n
      BY <1>1, <2>1
    <3>2. QED BY <3>1
  <2>2. \A k \in 0..n : k # 0 => step[k][f[k - 1]] = digits[n - k + 1] + Base * f[k - 1]
    BY <2>1
  <2> HIDE DEF step, n
  <2>3. QED BY <1>3, <2>2 DEF IsRun
<1> DEFINE low == CHOOSE g : g = [k \in 0..n |-> IF k = 0 THEN 0 ELSE digits[n - k + 1] + Base * g[k - 1]]
<1>5. low = [k \in 0..n |-> IF k = 0 THEN 0 ELSE digits[n - k + 1] + Base * low[k - 1]]
  <2> HIDE DEF n
  <2>1. QED BY <1>4
<1>6. Number(digits) = low[n]
  BY DEF Number
<1> HIDE DEF low, n
<1>7. low \in [0..n -> Nat]
  <2> DEFINE T == {k \in Nat : k <= n => low[k] \in Nat}
  <2>1. 0 \in T
    BY <1>1, <1>5
  <2>2. ASSUME NEW k \in T PROVE k + 1 \in T
    <3>1. SUFFICES ASSUME k + 1 <= n PROVE low[k + 1] \in Nat
      OBVIOUS
    <3>2. k \in Nat /\ k + 1 \in 0..n /\ k + 1 # 0 /\ (k + 1) - 1 = k /\ k + 1 \in 1..n
      BY <1>1, <3>1
    <3>3. low[k + 1] = digits[n - (k + 1) + 1] + Base * low[k]
      BY <1>5, <3>2
    <3>4. low[k] \in Nat /\ Base * low[k] \in Nat
      BY <1>1, <3>1, Product
    <3>5. digits[n - (k + 1) + 1] \in Nat
      BY <1>1, <3>2
    <3>6. QED BY <3>3, <3>4, <3>5
  <2>3. T \in SUBSET Nat
    OBVIOUS
  <2> HIDE DEF T
  <2>4. Nat \subseteq T
    BY <2>1, <2>2, <2>3, Induction
  <2>5. \A k \in 0..n : low[k] \in Nat
    BY <2>4 DEF T
  <2>6. QED BY <1>5, <2>5
<1>8. low[0] = 0 /\ \A k \in 1..n : low[k] = digits[n - k + 1] + Base * low[k - 1]
  BY <1>1, <1>5
<1>9. QED BY <1>6, <1>7, <1>8 DEF n

LEMMA NumberIsBounded ==
  ASSUME NEW digits \in Seq(Byte)
  PROVE  Number(digits) \in 0..(Power[Len(digits)] - 1)
<1> DEFINE n == Len(digits)
<1>1. PICK low \in [0..n -> Nat] :
        /\ low[0] = 0
        /\ \A k \in 1..n : low[k] = digits[n - k + 1] + Base * low[k - 1]
        /\ Number(digits) = low[n]
  BY NumberIsRun
<1>2. n \in Nat /\ Base \in Nat \ {0} /\ \A k \in 1..n : digits[n - k + 1] \in 0..(Base - 1)
  BY FormatAssumption DEF Byte
<1> HIDE DEF n
<1> DEFINE T == {k \in Nat : k <= n => low[k] < Power[k]}
<1>3. 0 \in T
  BY <1>1, Powers
<1>4. ASSUME NEW k \in T PROVE k + 1 \in T
  <2>1. SUFFICES ASSUME k + 1 <= n PROVE low[k + 1] < Power[k + 1]
    OBVIOUS
  <2>2. k \in Nat /\ k \in 0..n /\ k + 1 \in 1..n /\ (k + 1) - 1 = k
    BY <1>2, <2>1
  <2>3. digits[n - (k + 1) + 1] \in 0..(Base - 1) /\ low[k + 1] = digits[n - (k + 1) + 1] + Base * low[k]
    BY <1>1, <1>2, <2>2
  <2> DEFINE P == Power[k]
             l == low[k]
             d == digits[n - (k + 1) + 1]
  <2>4. P \in Nat /\ Power[k + 1] = Base * P
    BY <2>2, Powers
  <2>5. l \in Nat /\ l < P
    BY <2>1, <2>2
  <2> HIDE DEF P, l
  <2>6. Base * (l + 1) <= Base * P /\ Base * (l + 1) = Base * l + Base
    BY <1>2, <2>4, <2>5, Product
  <2>7. Base * P \in Nat /\ Base * l \in Nat
    BY <1>2, <2>4, <2>5, Product
  <2>8. d \in 0..(Base - 1) /\ low[k + 1] = d + Base * l
    BY <2>3 DEF l
  <2> HIDE DEF d
  <2>9. d + Base * l < Base * P
    BY <1>2, <2>6, <2>7, <2>8
  <2>10. QED BY <2>4, <2>8, <2>9
<1>5. T \in SUBSET Nat
  OBVIOUS
<1> HIDE DEF T
<1>6. n \in T
  BY <1>2, <1>3, <1>4, <1>5, Induction
<1>7. low[n] \in Nat /\ low[n] < Power[n]
  BY <1>2, <1>6 DEF T
<1>8. Number(digits) \in Nat /\ Number(digits) < Power[n]
  BY <1>1, <1>7
<1>9. Power[n] \in Nat
  BY <1>2, Powers
<1>10. Number(digits) \in 0..(Power[n] - 1)
  BY <1>8, <1>9
<1>11. QED BY <1>10 DEF n

(* Writing the number that was read gives the bytes it was read from. *)
LEMMA DigitsOfNumber ==
  ASSUME NEW digits \in Seq(Byte)
  PROVE  LittleEndian(Number(digits), Len(digits)) = digits
<1> DEFINE n == Len(digits)
           v == Number(digits)
           left == [j \in Nat |-> v \div Power[j]]
<1>1. PICK low \in [0..n -> Nat] :
        /\ low[0] = 0
        /\ \A k \in 1..n : low[k] = digits[n - k + 1] + Base * low[k - 1]
        /\ v = low[n]
  BY NumberIsRun
<1>2. n \in Nat /\ Base \in Nat \ {0} /\ \A i \in 1..n : digits[i] \in 0..(Base - 1)
  BY FormatAssumption DEF Byte
<1>3. digits = [i \in 1..n |-> digits[i]]
  OBVIOUS
<1>4. v \in Nat
  BY <1>1, <1>2
<1> HIDE DEF n, v
<1>5. left[0] = v /\ \A j \in Nat : left[j] \in Nat /\ left[j + 1] = left[j] \div Base
  <2>1. ASSUME NEW j \in Nat PROVE left[j] \in Nat /\ left[j + 1] = left[j] \div Base
    <3>1. left[j] = v \div Power[j] /\ left[j + 1] = v \div Power[j + 1]
      OBVIOUS
    <3> HIDE DEF left
    <3>2. QED BY <1>4, <3>1, Quotients
  <2>2. v \div Power[0] = v
    BY <1>4, Quotients
  <2>3. QED BY <2>1, <2>2
<1> HIDE DEF left
<1>6. ASSUME NEW j \in Nat, j < n
      PROVE  low[n - j] % Base = digits[j + 1] /\ low[n - j] \div Base = low[n - (j + 1)]
  <2> DEFINE l == low[n - (j + 1)]
             d == digits[j + 1]
  <2>1. n - j \in 1..n /\ n - (n - j) + 1 = j + 1 /\ (n - j) - 1 = n - (j + 1) /\ j + 1 \in 1..n
    BY <1>2, <1>6
  <2>2. low[n - j] = digits[n - (n - j) + 1] + Base * low[(n - j) - 1]
    BY <1>1, <2>1
  <2>3. n - (j + 1) \in 0..n
    BY <1>2, <2>1
  <2>4. l \in Nat /\ d \in 0..(Base - 1) /\ low[n - j] = d + Base * l
    BY <1>2, <2>1, <2>2, <2>3
  <2> HIDE DEF l, d
  <2>5. Base * l \in Nat
    BY <1>2, <2>4, Product
  <2>6. low[n - j] = Base * l + d
    BY <1>2, <2>4, <2>5
  <2>7. (Base * l + d) \div Base = l /\ (Base * l + d) % Base = d
    BY <1>2, <2>4, Division
  <2>8. QED BY <2>6, <2>7 DEF l, d
<1> DEFINE T == {j \in Nat : j <= n => left[j] = low[n - j]}
<1>7. 0 \in T
  BY <1>1, <1>2, <1>5
<1>8. ASSUME NEW j \in T PROVE j + 1 \in T
  <2>1. SUFFICES ASSUME j + 1 <= n PROVE left[j + 1] = low[n - (j + 1)]
    OBVIOUS
  <2>2. j \in Nat /\ j < n
    BY <1>2, <2>1
  <2>3. left[j] = low[n - j]
    BY <1>2, <2>2
  <2>4. QED BY <1>5, <1>6, <2>2, <2>3
<1>9. T \in SUBSET Nat
  OBVIOUS
<1> HIDE DEF T
<1>10. Nat \subseteq T
  BY <1>7, <1>8, <1>9, Induction
<1>11. ASSUME NEW i \in 1..n PROVE (v \div Power[i - 1]) % Base = digits[i]
  <2>1. i - 1 \in Nat /\ i - 1 < n /\ (i - 1) + 1 = i
    BY <1>2
  <2>2. left[i - 1] = low[n - (i - 1)]
    BY <1>2, <1>10, <2>1 DEF T
  <2>3. left[i - 1] % Base = digits[i]
    BY <1>6, <2>1, <2>2
  <2>4. QED BY <2>1, <2>3 DEF left
<1>12. QED BY <1>3, <1>11 DEF LittleEndian, n, v

(* Reading what was written of a number that fits gives the number. *)
LEMMA NumberOfDigits ==
  ASSUME NEW n \in Nat, NEW v \in Nat, v < Power[n]
  PROVE  /\ LittleEndian(v, n) \in Seq(Byte) /\ Len(LittleEndian(v, n)) = n
         /\ Number(LittleEndian(v, n)) = v
<1> DEFINE digits == LittleEndian(v, n)
           left == [j \in Nat |-> v \div Power[j]]
<1>1. Base \in Nat \ {0}
  BY FormatAssumption
<1>2. left[0] = v /\ left[n] = 0 /\ \A j \in Nat : left[j] \in Nat /\ left[j + 1] = left[j] \div Base
  <2>1. ASSUME NEW j \in Nat PROVE left[j] \in Nat /\ left[j + 1] = left[j] \div Base
    <3>1. left[j] = v \div Power[j] /\ left[j + 1] = v \div Power[j + 1]
      OBVIOUS
    <3> HIDE DEF left
    <3>2. QED BY <3>1, Quotients
  <2>2. v \div Power[0] = v /\ v \div Power[n] = 0
    BY Quotients
  <2>3. QED BY <2>1, <2>2
<1>3. ASSUME NEW i \in 1..n PROVE i - 1 \in Nat /\ digits[i] = left[i - 1] % Base /\ digits[i] \in Byte
  <2>1. i - 1 \in Nat /\ digits[i] = left[i - 1] % Base
    BY DEF LittleEndian
  <2>2. left[i - 1] \in Nat
    BY <1>2, <2>1
  <2> HIDE DEF left, digits
  <2>3. QED BY <1>1, <2>1, <2>2 DEF Byte
<1>4. digits \in Seq(Byte) /\ Len(digits) = n
  <2>1. digits = [i \in 1..n |-> digits[i]]
    BY DEF LittleEndian
  <2> HIDE DEF digits, left
  <2>2. \A i \in 1..n : digits[i] \in Byte
    BY <1>3
  <2>3. QED BY <2>1, <2>2
<1> HIDE DEF digits, left
<1>5. PICK low \in [0..n -> Nat] :
        /\ low[0] = 0
        /\ \A k \in 1..n : low[k] = digits[n - k + 1] + Base * low[k - 1]
        /\ Number(digits) = low[n]
  BY <1>4, NumberIsRun
<1> DEFINE T == {k \in Nat : k <= n => low[k] = left[n - k]}
<1>6. 0 \in T
  <2>1. n - 0 = n
    OBVIOUS
  <2>2. QED BY <1>2, <1>5, <2>1
<1>7. ASSUME NEW k \in T PROVE k + 1 \in T
  <2>1. SUFFICES ASSUME k + 1 <= n PROVE low[k + 1] = left[n - (k + 1)]
    OBVIOUS
  <2> DEFINE j == n - (k + 1)
             q == left[j]
             h == q \div Base
             d == q % Base
  <2>2. k \in Nat /\ j \in Nat /\ n - k = j + 1 /\ k + 1 \in 1..n /\ (k + 1) - 1 = k
        /\ n - (k + 1) + 1 = j + 1 /\ j + 1 \in 1..n /\ (j + 1) - 1 = j
    BY <2>1
  <2> HIDE DEF j
  <2>3. low[k + 1] = digits[n - (k + 1) + 1] + Base * low[(k + 1) - 1]
    BY <1>5, <2>2
  <2>4. low[k + 1] = digits[j + 1] + Base * low[k]
    BY <2>2, <2>3
  <2>5. digits[j + 1] = d
    BY <1>3, <2>2
  <2>6. low[k] = left[j + 1]
    BY <2>1, <2>2
  <2>7. q \in Nat /\ left[j + 1] = h
    BY <1>2, <2>2
  <2> HIDE DEF q
  <2>8. q = Base * h + d /\ h \in Nat /\ d \in Nat
    BY <1>1, <2>7
  <2> HIDE DEF h, d
  <2>9. Base * h \in Nat
    BY <1>1, <2>8, Product
  <2>10. low[k + 1] = q
    BY <2>4, <2>5, <2>6, <2>7, <2>8, <2>9
  <2>11. QED BY <2>10 DEF j, q
<1>8. T \in SUBSET Nat
  OBVIOUS
<1> HIDE DEF T
<1>9. n \in T
  BY <1>6, <1>7, <1>8, Induction
<1>10. Number(digits) = v
  <2>1. n - n = 0 /\ n <= n
    OBVIOUS
  <2>2. low[n] = left[n - n]
    BY <1>9 DEF T
  <2>3. QED BY <1>2, <1>5, <2>1, <2>2
<1>11. QED BY <1>4, <1>10 DEF digits

-----------------------------------------------------------------------------
(* Beginnings of a blob.                                                    *)
Begins(W, F) == W \in Seq(Byte) /\ Len(W) <= Len(F) /\ \A i \in 1..Len(W) : F[i] = W[i]

LEMMA Sizes ==
  /\ Base \in Nat \ {0, 1} /\ U32Bytes \in Nat \ {0}
  /\ U32Max \in Nat /\ SizeMax \in Nat \ {0}
  /\ 2 * U32Bytes <= U32Max /\ 1 < U32Max
  /\ HeaderMagic \in Seq(Byte) /\ Len(HeaderMagic) <= U32Bytes
  /\ FooterMagic \in Seq(Byte) /\ Len(FooterMagic) <= U32Bytes
<1>1. 2 * U32Bytes \in Nat /\ U32Bytes \in Nat \ {0}
  BY FormatAssumption
<1>2. U32Max \in Nat /\ 2 * U32Bytes <= U32Max /\ SizeMax \in Nat \ {0}
  BY <1>1, Powers DEF U32Max, SizeMax
<1>3. QED BY <1>1, <1>2, FormatAssumption

LEMMA Remainder ==
  ASSUME NEW m \in Nat \ {0}, NEW v \in Nat, v < m
  PROVE  v % m = v
<1>1. v \in 0..(m - 1) /\ m * 0 + v = v
  OBVIOUS
<1>2. (m * 0 + v) % m = v
  BY <1>1, Division
<1>3. QED BY <1>1, <1>2

LEMMA BeginsWith ==
  ASSUME NEW F \in Seq(Byte), NEW W \in Seq(Byte), NEW x \in Seq(Byte), Begins(W \o x, F)
  PROVE  /\ Begins(W, F) /\ W \o x \in Seq(Byte)
         /\ Len(W \o x) = Len(W) + Len(x)
         /\ \A i \in 1..Len(x) : F[Len(W) + i] = x[i]
<1>1. W \o x \in Seq(Byte) /\ Len(W \o x) = Len(W) + Len(x)
      /\ \A i \in 1..Len(W) + Len(x) : (W \o x)[i] = IF i <= Len(W) THEN W[i] ELSE x[i - Len(W)]
  BY ConcatProperties
<1>2. Len(W) \in Nat /\ Len(x) \in Nat /\ Len(F) \in Nat
  OBVIOUS
<1>3. Begins(W, F)
  BY <1>1, <1>2 DEF Begins
<1>4. ASSUME NEW i \in 1..Len(x) PROVE F[Len(W) + i] = x[i]
  <2>1. Len(W) + i \in 1..(Len(W) + Len(x)) /\ ~ (Len(W) + i <= Len(W)) /\ (Len(W) + i) - Len(W) = i
    BY <1>2
  <2>2. (W \o x)[Len(W) + i] = x[i]
    BY <1>1, <2>1
  <2>3. QED BY <1>1, <2>1, <2>2 DEF Begins
<1>5. QED BY <1>1, <1>3, <1>4

LEMMA BeginsFurther ==
  ASSUME NEW F \in Seq(Byte), NEW W, Begins(W, F), NEW end \in Nat, Len(W) <= end, end <= Len(F)
  PROVE  LET x == SubSeq(F, Len(W) + 1, end)
         IN  x \in Seq(Byte) /\ Len(x) = end - Len(W) /\ Begins(W \o x, F) /\ Len(W \o x) = end
<1> DEFINE x == SubSeq(F, Len(W) + 1, end)
<1>1. W \in Seq(Byte) /\ Len(W) \in Nat /\ Len(F) \in Nat
  BY DEF Begins
<1>2. x \in Seq(Byte) /\ Len(x) = end - Len(W) /\ \A i \in 1..Len(x) : x[i] = F[Len(W) + i]
  BY <1>1
<1> HIDE DEF x
<1>3. W \o x \in Seq(Byte) /\ Len(W \o x) = Len(W) + Len(x)
      /\ \A i \in 1..Len(W) + Len(x) : (W \o x)[i] = IF i <= Len(W) THEN W[i] ELSE x[i - Len(W)]
  BY <1>1, <1>2, ConcatProperties
<1>4. ASSUME NEW i \in 1..end PROVE F[i] = (W \o x)[i]
  <2>1. i \in 1..Len(W) + Len(x)
    BY <1>1, <1>2
  <2>2. CASE i <= Len(W)
    BY <1>1, <1>3, <2>1, <2>2 DEF Begins
  <2>3. CASE ~ (i <= Len(W))
    <3>1. i - Len(W) \in 1..Len(x) /\ Len(W) + (i - Len(W)) = i
      BY <1>1, <1>2, <2>3
    <3>2. QED BY <1>2, <1>3, <2>1, <2>3, <3>1
  <2>4. QED BY <2>2, <2>3
<1>5. Len(W \o x) = end
  BY <1>1, <1>2, <1>3
<1>6. QED BY <1>2, <1>3, <1>4, <1>5 DEF Begins, x

LEMMA BeginsWhole ==
  ASSUME NEW F \in Seq(Byte), NEW W, Begins(W, F), Len(W) = Len(F)
  PROVE  W = F
<1>1. W \in Seq(Byte) /\ \A i \in 1..Len(F) : W[i] = F[i]
  BY DEF Begins
<1>2. QED BY <1>1, SeqEqual

-----------------------------------------------------------------------------
(* Reading what was written.  A blob that agrees with F, as far as both go, *)
(* is read as F is until it ends: with W behind it the reader has got g.    *)
Agrees(blob, F) ==
  /\ blob \in Seq(Byte) /\ F \in Seq(Byte) /\ Len(F) < SizeMax
  /\ \A i \in 1..Len(blob) : i <= Len(F) => blob[i] = F[i]

IsReader(r) == r = Reader(r.pos, r.ok, r.got)

Stands(blob, r, W, g) ==
  IF Len(W) <= Len(blob) THEN r = Reader(Len(W), TRUE, g) ELSE ~ r.ok

LEMMA ViewStands ==
  ASSUME NEW blob, NEW F, Agrees(blob, F),
         NEW W \in Seq(Byte), NEW x \in Seq(Byte), Begins(W \o x, F),
         NEW r, NEW g, Stands(blob, r, W, g)
  PROVE  Stands(blob, ReadBytesView(blob, r, Len(x)), W \o x, x)
<1>1. /\ blob \in Seq(Byte) /\ F \in Seq(Byte) /\ Len(F) \in Nat /\ Len(blob) \in Nat
      /\ Len(W) \in Nat /\ Len(x) \in Nat /\ SizeMax \in Nat \ {0} /\ Len(F) < SizeMax
  BY Sizes DEF Agrees
<1>2. /\ Begins(W, F) /\ W \o x \in Seq(Byte)
      /\ Len(W \o x) = Len(W) + Len(x)
      /\ \A i \in 1..Len(x) : F[Len(W) + i] = x[i]
  BY <1>1, BeginsWith
<1>3. Len(W) + Len(x) <= Len(F)
  BY <1>2 DEF Begins
<1>4. CASE ~ (Len(W) <= Len(blob))
  BY <1>1, <1>2, <1>4 DEF Stands, ReadBytesView, Stopped, Reader
<1>5. CASE Len(W) <= Len(blob)
  <2>1. r.pos = Len(W) /\ r.ok = TRUE
    BY <1>5 DEF Stands, Reader
  <2>2. (r.pos + Len(x)) % SizeMax = Len(W) + Len(x)
    <3>1. Len(W) + Len(x) \in Nat /\ Len(W) + Len(x) < SizeMax /\ r.pos + Len(x) = Len(W) + Len(x)
      BY <1>1, <1>3, <2>1
    <3>2. QED BY <1>1, <3>1, Remainder
  <2>3. CASE ~ (Len(W) + Len(x) <= Len(blob))
    BY <1>1, <1>2, <2>2, <2>3 DEF Stands, ReadBytesView, Stopped, Reader
  <2>4. CASE Len(W) + Len(x) <= Len(blob)
    <3> DEFINE s == SubSeq(blob, Len(W) + 1, Len(W) + Len(x))
    <3>1. s \in Seq(Byte) /\ Len(s) = Len(x) /\ \A i \in 1..Len(x) : s[i] = blob[Len(W) + i]
      BY <1>1, <2>4
    <3>2. \A i \in 1..Len(x) : blob[Len(W) + i] = x[i]
      BY <1>1, <1>2, <1>3, <2>4 DEF Agrees
    <3> HIDE DEF s
    <3>3. s = x
      BY <3>1, <3>2, SeqEqual
    <3>4. ReadBytesView(blob, r, Len(x)) = Reader(Len(W) + Len(x), TRUE, s)
      <4> DEFINE end == Len(W) + Len(x)
      <4>1. r.pos + Len(x) = end /\ end % SizeMax = end
        BY <2>1, <2>2
      <4>2. ~ (end > Len(blob))
        BY <1>1, <2>4
      <4> HIDE DEF end
      <4>3. ReadBytesView(blob, r, Len(x)) = Reader(end, TRUE, SubSeq(blob, r.pos + 1, end))
        BY <2>1, <4>1, <4>2 DEF ReadBytesView
      <4>4. QED BY <2>1, <4>3 DEF s, end
    <3>5. QED BY <1>2, <2>4, <3>3, <3>4 DEF Stands
  <2>5. QED BY <2>3, <2>4
<1>6. QED BY <1>4, <1>5

LEMMA NumberStands ==
  ASSUME NEW blob, NEW F, Agrees(blob, F),
         NEW W \in Seq(Byte), NEW n \in Nat, NEW v \in Nat, v < Power[n], Begins(W \o LittleEndian(v, n), F),
         NEW r, NEW g, Stands(blob, r, W, g)
  PROVE  Stands(blob, ReadNumber(blob, r, n), W \o LittleEndian(v, n), v)
<1> DEFINE x == LittleEndian(v, n)
           view == ReadBytesView(blob, r, n)
<1>1. x \in Seq(Byte) /\ Len(x) = n /\ Number(x) = v
  BY NumberOfDigits
<1> HIDE DEF x
<1>2. Begins(W \o x, F)
  BY DEF x
<1>3. Stands(blob, ReadBytesView(blob, r, Len(x)), W \o x, x)
  BY <1>1, <1>2, ViewStands
<1>4. Stands(blob, view, W \o x, x)
  BY <1>1, <1>3
<1> HIDE DEF view
<1>5. ReadNumber(blob, r, n) = IF ~ view.ok THEN view ELSE Reader(view.pos, TRUE, Number(view.got))
  BY DEF ReadNumber, AsNumber, view
<1>6. Stands(blob, ReadNumber(blob, r, n), W \o x, v)
  <2>1. CASE Len(W \o x) <= Len(blob)
    <3>1. view = Reader(Len(W \o x), TRUE, x)
      BY <1>4, <2>1 DEF Stands
    <3>2. view.ok = TRUE /\ view.pos = Len(W \o x) /\ view.got = x
      BY <3>1 DEF Reader
    <3>3. QED BY <1>1, <1>5, <2>1, <3>2 DEF Stands
  <2>2. CASE ~ (Len(W \o x) <= Len(blob))
    BY <1>4, <1>5, <2>2 DEF Stands
  <2>3. QED BY <2>1, <2>2
<1>7. QED BY <1>6 DEF x

LEMMA OneDigit ==
  ASSUME NEW v \in Byte
  PROVE  LittleEndian(v, 1) = <<v>> /\ v \in Nat /\ v < Power[1]
<1>1. Base \in Nat \ {0} /\ Power[0] = 1 /\ Power[1] = Base /\ v \in Nat /\ v < Base
  <2>1. Power[0 + 1] = Base * Power[0] /\ Power[0] = 1
    BY Powers
  <2>2. 0 + 1 = 1 /\ Base * 1 = Base
    BY Sizes
  <2>3. QED BY Sizes, <2>1, <2>2 DEF Byte
<1>2. LittleEndian(v, 1) = <<v>>
  <2>1. (v \div Power[1 - 1]) % Base = v
    <3>1. 1 - 1 = 0 /\ v \div 1 = v
      BY <1>1
    <3>2. v % Base = v
      BY <1>1, Remainder
    <3>3. QED BY <1>1, <3>1, <3>2
  <2>2. LittleEndian(v, 1) = [i \in 1..1 |-> (v \div Power[i - 1]) % Base]
    BY DEF LittleEndian
  <2> DEFINE digit(i) == (v \div Power[i - 1]) % Base
  <2>3. digit(1) = v
    BY <2>1
  <2> HIDE DEF digit
  <2>4. [i \in 1..1 |-> digit(i)] = <<v>>
    BY <2>3
  <2>5. QED BY <2>2, <2>4 DEF digit
<1>3. QED BY <1>1, <1>2

LEMMA ByteStands ==
  ASSUME NEW blob, NEW F, Agrees(blob, F),
         NEW W \in Seq(Byte), NEW v \in Byte, Begins(W \o <<v>>, F),
         NEW r, NEW g, Stands(blob, r, W, g)
  PROVE  Stands(blob, ReadU8(blob, r), W \o <<v>>, v)
<1>1. LittleEndian(v, 1) = <<v>> /\ v \in Nat /\ v < Power[1]
  BY OneDigit
<1>2. Stands(blob, ReadNumber(blob, r, 1), W \o LittleEndian(v, 1), v)
  BY <1>1, NumberStands
<1>3. QED BY <1>1, <1>2 DEF ReadU8

LEMMA U32Stands ==
  ASSUME NEW blob, NEW F, Agrees(blob, F),
         NEW W \in Seq(Byte), NEW v \in 0..(U32Max - 1), Begins(W \o U32LE(v), F),
         NEW r, NEW g, Stands(blob, r, W, g)
  PROVE  Stands(blob, ReadU32LE(blob, r), W \o U32LE(v), v)
<1>1. v \in Nat /\ v < Power[U32Bytes] /\ U32Bytes \in Nat
  BY Sizes DEF U32Max
<1>2. QED BY <1>1, NumberStands DEF U32LE, ReadU32LE

(* A U32 is written with bytes, so is a string with its length.             *)
LEMMA WrittenNumbers ==
  /\ \A v \in Nat : U32LE(v) \in Seq(Byte) /\ Len(U32LE(v)) = U32Bytes
  /\ \A v \in Nat : U64LE(v) \in Seq(Byte) /\ Len(U64LE(v)) = 2 * U32Bytes
  /\ \A s \in Seq(Byte) : LenPrefixed(s) \in Seq(Byte)
<1>1. ASSUME NEW v \in Nat, NEW n \in Nat PROVE LittleEndian(v, n) \in Seq(Byte) /\ Len(LittleEndian(v, n)) = n
  <2>1. ASSUME NEW i \in 1..n PROVE (v \div Power[i - 1]) % Base \in Byte
    <3>1. i - 1 \in Nat
      OBVIOUS
    <3>2. v \div Power[i - 1] \in Nat
      BY <3>1, Quotients
    <3>3. QED BY <3>2, Sizes DEF Byte
  <2> DEFINE digit(i) == (v \div Power[i - 1]) % Base
  <2>2. \A i \in 1..n : digit(i) \in Byte
    BY <2>1
  <2> HIDE DEF digit
  <2>3. [i \in 1..n |-> digit(i)] \in Seq(Byte) /\ Len([i \in 1..n |-> digit(i)]) = n
    BY <2>2
  <2>4. QED BY <2>3 DEF LittleEndian, digit
<1>2. U32Bytes \in Nat /\ 2 * U32Bytes \in Nat
  BY Sizes
<1>3. \A v \in Nat : U32LE(v) \in Seq(Byte) /\ Len(U32LE(v)) = U32Bytes
  BY <1>1, <1>2 DEF U32LE
<1>4. \A v \in Nat : U64LE(v) \in Seq(Byte) /\ Len(U64LE(v)) = 2 * U32Bytes
  BY <1>1, <1>2 DEF U64LE
<1>5. ASSUME NEW s \in Seq(Byte) PROVE LenPrefixed(s) \in Seq(Byte)
  <2>1. Len(s) \in Nat
    OBVIOUS
  <2>2. U32LE(Len(s)) \in Seq(Byte)
    BY <1>3, <2>1
  <2>3. QED BY <2>2, ConcatProperties DEF LenPrefixed
<1>6. QED BY <1>3, <1>4, <1>5

LEMMA CountedStands ==
  ASSUME NEW blob, NEW F, Agrees(blob, F),
         NEW W \in Seq(Byte), NEW x \in Seq(Byte), Begins(W \o x, F),
         NEW len, Stands(blob, len, W, Len(x))
  PROVE  Stands(blob, ReadCounted(blob, len), W \o x, x)
<1>1. Stands(blob, ReadBytesView(blob, len, Len(x)), W \o x, x)
  BY ViewStands
<1>2. CASE len.ok
  <2>1. len.got = Len(x)
    BY <1>2 DEF Stands, Reader
  <2>2. QED BY <1>1, <1>2, <2>1 DEF ReadCounted
<1>3. CASE ~ len.ok
  BY <1>1, <1>3 DEF ReadCounted, Stands, ReadBytesView, Stopped, Reader
<1>4. QED BY <1>2, <1>3

LEMMA StringStands ==
  ASSUME NEW blob, NEW F, Agrees(blob, F),
         NEW W \in Seq(Byte), NEW s \in ShortStrings, Begins(W \o LenPrefixed(s), F),
         NEW r, NEW g, Stands(blob, r, W, g)
  PROVE  Stands(blob, ReadLenPrefixedStr(blob, r), W \o LenPrefixed(s), s)
<1> DEFINE u == U32LE(Len(s))
           V == W \o u
<1>1. s \in Seq(Byte) /\ Len(s) \in 0..(U32Max - 1) /\ Len(s) \in Nat /\ F \in Seq(Byte)
  BY Sizes DEF ShortStrings, Agrees
<1>2. u \in Seq(Byte)
  BY <1>1, WrittenNumbers
<1> HIDE DEF u
<1>3. V \in Seq(Byte) /\ W \o LenPrefixed(s) = V \o s
  <2>1. V \in Seq(Byte)
    BY <1>2, ConcatProperties
  <2>2. V \o s = W \o (u \o s)
    BY <1>1, <1>2, ConcatAssociative
  <2>3. QED BY <2>1, <2>2 DEF LenPrefixed, u
<1> HIDE DEF V
<1>4. Begins(V \o s, F)
  BY <1>3
<1>5. Begins(V, F)
  BY <1>1, <1>3, <1>4, BeginsWith
<1>6. Stands(blob, ReadU32LE(blob, r), V, Len(s))
  BY <1>1, <1>5, U32Stands DEF V, u
<1>7. Stands(blob, ReadCounted(blob, ReadU32LE(blob, r)), V \o s, s)
  BY <1>1, <1>3, <1>4, <1>6, CountedStands
<1>8. QED BY <1>3, <1>7 DEF ReadLenPrefixedStr

LEMMA MagicStands ==
  ASSUME NEW blob, NEW F, Agrees(blob, F),
         NEW W \in Seq(Byte), NEW x \in Seq(Byte), Begins(W \o x, F),
         NEW r, NEW g, Stands(blob, r, W, g)
  PROVE  Stands(blob, ReadMagic(blob, r, x), W \o x, x)
<1> DEFINE view == ReadBytesView(blob, r, Len(x))
<1>1. Stands(blob, view, W \o x, x)
  BY ViewStands
<1> HIDE DEF view
<1>2. ReadMagic(blob, r, x) = IF view.ok /\ view.got = x THEN view ELSE Stopped(view)
  BY DEF ReadMagic, Check, view
<1>3. CASE Len(W \o x) <= Len(blob)
  <2>1. view = Reader(Len(W \o x), TRUE, x)
    BY <1>1, <1>3 DEF Stands
  <2>2. view.ok = TRUE /\ view.got = x
    BY <2>1 DEF Reader
  <2>3. QED BY <1>1, <1>2, <2>2
<1>4. CASE ~ (Len(W \o x) <= Len(blob))
  BY <1>1, <1>2, <1>4 DEF Stands, Stopped, Reader
<1>5. QED BY <1>3, <1>4

IsExtension(x) == x \in [tag : 0..(U32Max - 1), payload : ShortStrings]

LEMMA WrittenExtension ==
  ASSUME NEW x, IsExtension(x)
  PROVE  ExtensionBytes(x) \in Seq(Byte)
<1>1. x.tag \in Nat /\ x.payload \in Seq(Byte)
  BY Sizes DEF IsExtension, ShortStrings
<1>2. U32LE(x.tag) \in Seq(Byte) /\ LenPrefixed(x.payload) \in Seq(Byte)
  BY <1>1, WrittenNumbers
<1>3. QED BY <1>2, ConcatProperties DEF ExtensionBytes

LEMMA ExtensionStands ==
  ASSUME NEW blob, NEW F, Agrees(blob, F),
         NEW W \in Seq(Byte), NEW x, IsExtension(x), Begins(W \o ExtensionBytes(x), F),
         NEW r, NEW g, Stands(blob, r, W, g)
  PROVE  Stands(blob, ReadExtension(blob, r), W \o ExtensionBytes(x), x)
<1> DEFINE u == U32LE(x.tag)
           p == LenPrefixed(x.payload)
           V == W \o u
           tag == ReadU32LE(blob, r)
           payload == ReadLenPrefixedStr(blob, tag)
           read == ReadExtension(blob, r)
<1>1. /\ x.tag \in 0..(U32Max - 1) /\ x.tag \in Nat /\ x.payload \in ShortStrings /\ x.payload \in Seq(Byte)
      /\ x = [tag |-> x.tag, payload |-> x.payload] /\ F \in Seq(Byte)
  BY Sizes DEF IsExtension, ShortStrings, Agrees
<1>2. u \in Seq(Byte) /\ p \in Seq(Byte)
  BY <1>1, WrittenNumbers
<1>3. read = IF payload.ok THEN [payload EXCEPT !.got = [tag |-> tag.got, payload |-> @]] ELSE payload
  BY DEF ReadExtension
<1> HIDE DEF p, read
<1>4. V \in Seq(Byte) /\ W \o ExtensionBytes(x) = V \o p
  <2> HIDE DEF u
  <2>1. V \in Seq(Byte) /\ V \o p = W \o (u \o p)
    BY <1>2, ConcatProperties, ConcatAssociative
  <2>2. QED BY <2>1 DEF ExtensionBytes, u, p
<1> HIDE DEF u, V
<1>5. Begins(V \o p, F)
  BY <1>4
<1>6. Begins(V, F) /\ Len(V \o p) = Len(V) + Len(p)
  BY <1>1, <1>2, <1>4, <1>5, BeginsWith
<1>7. Stands(blob, tag, V, x.tag)
  BY <1>1, <1>6, U32Stands DEF V, u
<1> HIDE DEF tag
<1>8. Stands(blob, payload, V \o p, x.payload)
  BY <1>1, <1>4, <1>5, <1>7, StringStands DEF p
<1> HIDE DEF payload
<1>9. CASE Len(V \o p) <= Len(blob)
  <2>1. Len(V) <= Len(blob)
    <3>1. Len(V) \in Nat /\ Len(p) \in Nat /\ Len(blob) \in Nat
      BY <1>2, <1>4 DEF Agrees
    <3>2. QED BY <1>6, <1>9, <3>1
  <2>2. tag = Reader(Len(V), TRUE, x.tag) /\ payload = Reader(Len(V \o p), TRUE, x.payload)
    BY <1>7, <1>8, <1>9, <2>1 DEF Stands
  <2>3. read = Reader(Len(V \o p), TRUE, [tag |-> x.tag, payload |-> x.payload])
    BY <1>3, <2>2 DEF Reader
  <2>4. read = Reader(Len(V \o p), TRUE, x)
    BY <1>1, <2>3
  <2>5. QED BY <1>4, <1>9, <2>4 DEF Stands, read
<1>10. CASE ~ (Len(V \o p) <= Len(blob))
  <2>1. ~ read.ok
    BY <1>3, <1>8, <1>10 DEF Stands
  <2>2. QED BY <1>4, <1>10, <2>1 DEF Stands, read
<1>11. QED BY <1>9, <1>10

-----------------------------------------------------------------------------
(* Both lists of an artifact: of value types, one byte each, and of         *)
(* extension areas.                                                         *)
Kinds == {"rets", "extensions"}
IsItem(kind, x) == IF kind = "rets" THEN x \in Byte ELSE IsExtension(x)
BytesOf(kind, x) == IF kind = "rets" THEN <<x>> ELSE ExtensionBytes(x)
ReadItem(kind, blob, r) == IF kind = "rets" THEN ReadU8(blob, r) ELSE ReadExtension(blob, r)
ReadList(kind, blob, r, n) ==
  IF kind = "rets" THEN ReadAll(blob, r, n, ReadU8) ELSE ReadAll(blob, r, n, ReadExtension)
Joined(kind, xs) ==
  IF kind = "rets" THEN xs ELSE FlattenSeq([i \in DOMAIN xs |-> ExtensionBytes(xs[i])])

LEMMA WrittenItem ==
  ASSUME NEW kind \in Kinds, NEW x, IsItem(kind, x)
  PROVE  BytesOf(kind, x) \in Seq(Byte)
BY WrittenExtension DEF IsItem, BytesOf, Kinds

LEMMA ItemStands ==
  ASSUME NEW kind \in Kinds, NEW blob, NEW F, Agrees(blob, F),
         NEW W \in Seq(Byte), NEW x, IsItem(kind, x), Begins(W \o BytesOf(kind, x), F),
         NEW r, NEW g, Stands(blob, r, W, g)
  PROVE  Stands(blob, ReadItem(kind, blob, r), W \o BytesOf(kind, x), x)
<1>1. CASE kind = "rets"
  BY <1>1, ByteStands DEF IsItem, BytesOf, ReadItem
<1>2. CASE kind # "rets"
  BY <1>2, ExtensionStands DEF IsItem, BytesOf, ReadItem
<1>3. QED BY <1>1, <1>2

(* The items are written one behind the other.                              *)
LEMMA JoinedInARow ==
  ASSUME NEW kind \in Kinds, NEW X, NEW xs \in Seq(X), \A i \in 1..Len(xs) : IsItem(kind, xs[i])
  PROVE  \E flat \in [0..Len(xs) -> Seq(Byte)] :
           /\ flat[0] = << >>
           /\ \A i \in 1..Len(xs) : flat[i] = flat[i - 1] \o BytesOf(kind, xs[i])
           /\ flat[Len(xs)] = Joined(kind, xs)
<1> DEFINE n == Len(xs)
           enc == [i \in 1..n |-> BytesOf(kind, xs[i])]
           step == [k \in 1..n |-> [s \in Seq(Byte) |-> s \o enc[k]]]
<1>1. n \in Nat /\ DOMAIN xs = 1..n /\ \A i \in 1..n : enc[i] \in Seq(Byte) /\ enc[i] = BytesOf(kind, xs[i])
  BY WrittenItem
<1> HIDE DEF enc, n
<1>2. StaysIn(Seq(Byte), 1..n, step)
  BY <1>1, ConcatProperties DEF StaysIn
<1>3. PICK flat \in [0..n -> Seq(Byte)] : IsRun(flat, 0..n, << >>, step)
  <2> HIDE DEF step
  <2>1. << >> \in Seq(Byte)
    OBVIOUS
  <2>2. QED BY <1>1, <1>2, <2>1, RecursionExists
<1>4. flat[0] = << >> /\ \A i \in 1..n : flat[i] = flat[i - 1] \o enc[i]
  <2>1. ASSUME NEW i \in 1..n PROVE flat[i] = flat[i - 1] \o enc[i]
    <3>1. i \in 0..n /\ i # 0 /\ i - 1 \in 0..n
      BY <1>1
    <3>2. flat[i] = step[i][flat[i - 1]] /\ flat[i - 1] \in Seq(Byte)
      BY <1>3, <3>1 DEF IsRun
    <3>3. QED BY <3>2
  <2>2. flat[0] = << >>
    BY <1>1, <1>3 DEF IsRun
  <2>3. QED BY <2>1, <2>2
<1> HIDE DEF step
<1>5. ASSUME kind = "rets" PROVE flat[n] = xs
  <2> DEFINE T == {k \in Nat : k <= n => flat[k] = SubSeq(xs, 1, k)}
  <2>1. 0 \in T
    <3>1. SubSeq(xs, 1, 0) = << >>
      OBVIOUS
    <3>2. QED BY <1>4, <3>1
  <2>2. ASSUME NEW k \in T PROVE k + 1 \in T
    <3>1. SUFFICES ASSUME k + 1 <= n PROVE flat[k + 1] = SubSeq(xs, 1, k + 1)
      OBVIOUS
    <3>2. k \in Nat /\ k + 1 \in 1..n /\ (k + 1) - 1 = k /\ k + 1 <= Len(xs)
      BY <1>1, <3>1 DEF n
    <3>3. flat[k] = SubSeq(xs, 1, k)
      BY <1>1, <3>1, <3>2
    <3>4. flat[k + 1] = SubSeq(xs, 1, k) \o <<xs[k + 1]>>
      BY <1>1, <1>4, <1>5, <3>2, <3>3 DEF BytesOf
    <3>5. SubSeq(xs, 1, k) \o <<xs[k + 1]>> = SubSeq(xs, 1, k + 1)
      BY <3>2
    <3>6. QED BY <3>4, <3>5
  <2>3. T \in SUBSET Nat
    OBVIOUS
  <2> HIDE DEF T
  <2>4. n \in T
    BY <1>1, <2>1, <2>2, <2>3, Induction
  <2>5. flat[n] = SubSeq(xs, 1, Len(xs))
    BY <1>1, <2>4 DEF T, n
  <2>6. QED BY <2>5, SubSeqFull
<1>6. ASSUME kind # "rets" PROVE flat[n] = FlattenSeq([i \in DOMAIN xs |-> ExtensionBytes(xs[i])])
  <2> DEFINE seqs == [i \in DOMAIN xs |-> ExtensionBytes(xs[i])]
             Flat(f) == f = [i \in 1..n |-> IF i = 1 THEN seqs[i] ELSE f[i - 1] \o seqs[i]]
             chosen == CHOOSE f : Flat(f)
  <2>1. DOMAIN seqs = 1..n /\ \A i \in 1..n : seqs[i] = enc[i]
    BY <1>1, <1>6 DEF BytesOf
  <2>2. seqs \in Seq(Seq(Byte)) /\ Len(seqs) = n
    BY <1>1, <2>1
  <2>3. FlattenSeq(seqs) = IF n = 0 THEN seqs ELSE chosen[n]
    BY <2>2 DEF FlattenSeq
  <2> HIDE DEF seqs
  <2>4. CASE n = 0
    <3>1. seqs = << >>
      BY <2>2, <2>4, EmptySeq
    <3>2. QED BY <1>4, <2>3, <2>4, <3>1 DEF seqs
  <2>5. CASE n # 0
    <3> DEFINE f == [i \in 1..n |-> flat[i]]
    <3>1. ASSUME NEW i \in 1..n PROVE f[i] = IF i = 1 THEN seqs[i] ELSE f[i - 1] \o seqs[i]
      <4>1. CASE i = 1
        <5>1. flat[1] = << >> \o seqs[1] /\ seqs[1] \in Seq(Byte)
          <6>1. 1 - 1 = 0
            OBVIOUS
          <6>2. QED BY <1>1, <1>4, <2>1, <4>1, <6>1
        <5>2. QED BY <4>1, <5>1, ConcatEmptySeq
      <4>2. CASE i # 1
        <5>1. i - 1 \in 1..n
          BY <1>1, <4>2
        <5>2. QED BY <1>4, <2>1, <4>2, <5>1
      <4>3. QED BY <4>1, <4>2
    <3>2. Flat(f)
      <4>1. f = [i \in 1..n |-> f[i]]
        OBVIOUS
      <4> HIDE DEF f
      <4>2. QED BY <3>1, <4>1, Zenon
    <3>3. Flat(chosen)
      <4> HIDE DEF Flat, f
      <4>1. QED BY <3>2
    <3> HIDE DEF chosen
    <3> DEFINE T == {k \in Nat : k + 1 <= n => chosen[k + 1] = f[k + 1]}
    <3>4. 0 \in T
      <4>1. 1 \in 1..n
        BY <1>1, <2>5
      <4> HIDE DEF f
      <4>2. chosen[1] = f[1]
        BY <3>1, <3>3, <4>1
      <4>3. 0 + 1 = 1
        OBVIOUS
      <4>4. QED BY <4>2, <4>3
    <3>5. ASSUME NEW k \in T PROVE k + 1 \in T
      <4>1. SUFFICES ASSUME (k + 1) + 1 <= n PROVE chosen[(k + 1) + 1] = f[(k + 1) + 1]
        OBVIOUS
      <4>2. (k + 1) + 1 \in 1..n /\ ((k + 1) + 1) - 1 = k + 1 /\ (k + 1) + 1 # 1 /\ k + 1 <= n
        BY <1>1, <4>1
      <4>3. chosen[k + 1] = f[k + 1]
        BY <1>1, <4>2
      <4>4. chosen[(k + 1) + 1] = chosen[k + 1] \o seqs[(k + 1) + 1]
        BY <3>3, <4>2
      <4>5. f[(k + 1) + 1] = f[k + 1] \o seqs[(k + 1) + 1]
        <5> HIDE DEF f
        <5>1. QED BY <3>1, <4>2
      <4>6. QED BY <4>3, <4>4, <4>5
    <3>6. T \in SUBSET Nat
      OBVIOUS
    <3> HIDE DEF T
    <3>7. n - 1 \in T
      <4>1. n - 1 \in Nat
        BY <1>1, <2>5
      <4>2. QED BY <3>4, <3>5, <3>6, <4>1, Induction
    <3>8. chosen[n] = f[n]
      <4>1. (n - 1) + 1 = n
        BY <1>1
      <4>2. QED BY <1>1, <3>7, <4>1 DEF T
    <3>9. n \in 1..n
      BY <1>1, <2>5
    <3>10. QED BY <2>3, <2>5, <3>8, <3>9 DEF seqs
  <2>6. QED BY <2>4, <2>5
<1>7. flat[n] = Joined(kind, xs)
  BY <1>5, <1>6 DEF Joined
<1>8. QED BY <1>1, <1>4, <1>7 DEF n

(* Reading n items in a row goes through n + 1 readers.                     *)
With(before, next) ==
  IF next.ok THEN Reader(next.pos, TRUE, Append(before.got, next.got)) ELSE next

InARow(after, kind, blob, r, n) ==
  LET m == IF r.ok THEN n ELSE 0
  IN  /\ after[0] = [r EXCEPT !.got = << >>]
      /\ \A i \in 1..m : after[i] = With(after[i - 1], ReadItem(kind, blob, after[i - 1]))
      /\ ReadList(kind, blob, r, n) = after[m]

LEMMA ReadersInARow ==
  ASSUME NEW kind \in Kinds, NEW blob, NEW r, NEW n, r.ok => n \in Nat
  PROVE  \E after : InARow(after, kind, blob, r, n)
<1> DEFINE m == IF r.ok THEN n ELSE 0
           first == [r EXCEPT !.got = << >>]
           Step(s) == With(s, ReadItem(kind, blob, s))
           Runs(f, k) == f = [i \in 0..k |-> IF i = 0 THEN first ELSE Step(f[i - 1])]
           T == {k \in Nat : \E f : Runs(f, k)}
           after == CHOOSE f : Runs(f, m)
<1>1. m \in Nat
  OBVIOUS
<1>2. ReadList(kind, blob, r, n) = after[m]
  <2>1. CASE kind = "rets"
    BY <2>1, Zenon DEF ReadList, ReadItem, ReadAll, With
  <2>2. CASE kind # "rets"
    BY <2>2, Zenon DEF ReadList, ReadItem, ReadAll, With
  <2>3. QED BY <2>1, <2>2
<1> HIDE DEF m, first, Step
<1>3. 0 \in T
  <2>1. Runs([i \in 0..0 |-> first], 0)
    OBVIOUS
  <2>2. QED BY <2>1
<1>4. ASSUME NEW k \in T PROVE k + 1 \in T
  <2>1. PICK f : Runs(f, k)
    OBVIOUS
  <2> DEFINE g == [i \in 0..(k + 1) |-> IF i = k + 1 THEN Step(f[k]) ELSE f[i]]
  <2>2. ASSUME NEW i \in 0..(k + 1) PROVE g[i] = IF i = 0 THEN first ELSE Step(g[i - 1])
    <3>1. CASE i = k + 1
      <4>1. i # 0 /\ i - 1 = k /\ k \in 0..(k + 1) /\ k # k + 1
        BY <3>1
      <4>2. g[i] = Step(f[k]) /\ g[i - 1] = f[k]
        BY <3>1, <4>1
      <4>3. QED BY <4>1, <4>2
    <3>2. CASE i # k + 1
      <4>1. i \in 0..k /\ (i # 0 => i - 1 \in 0..(k + 1) /\ i - 1 # k + 1)
        BY <3>2
      <4>2. g[i] = f[i] /\ (i # 0 => g[i - 1] = f[i - 1])
        BY <3>2, <4>1
      <4>3. f[i] = IF i = 0 THEN first ELSE Step(f[i - 1])
        BY <2>1, <4>1
      <4>4. QED BY <4>2, <4>3
    <3>3. QED BY <3>1, <3>2
  <2>3. Runs(g, k + 1)
    <3>1. g = [i \in 0..(k + 1) |-> g[i]]
      OBVIOUS
    <3> HIDE DEF g
    <3>2. QED BY <2>2, <3>1, Zenon
  <2> HIDE DEF g, Runs
  <2>4. QED BY <2>3
<1>5. T \in SUBSET Nat
  OBVIOUS
<1>6. m \in T
  <2> HIDE DEF T
  <2>1. QED BY <1>1, <1>3, <1>4, <1>5, Induction
<1>7. Runs(after, m)
  <2> HIDE DEF Runs
  <2>1. QED BY <1>6
<1> HIDE DEF after
<1>8. after[0] = first /\ \A i \in 1..m : after[i] = Step(after[i - 1])
  BY <1>1, <1>7
<1>9. QED BY <1>2, <1>8, Zenon DEF m, first, Step, InARow

LEMMA ListStands ==
  ASSUME NEW kind \in Kinds, NEW blob, NEW F, Agrees(blob, F),
         NEW W \in Seq(Byte), NEW X, NEW xs \in Seq(X), \A i \in 1..Len(xs) : IsItem(kind, xs[i]),
         Begins(W \o Joined(kind, xs), F), Joined(kind, xs) \in Seq(Byte),
         NEW r, NEW g, Stands(blob, r, W, g), IsReader(r)
  PROVE  Stands(blob, ReadList(kind, blob, r, Len(xs)), W \o Joined(kind, xs), xs)
<1> DEFINE n == Len(xs)
           m == IF r.ok THEN n ELSE 0
           bytes(i) == BytesOf(kind, xs[i])
<1>1. n \in Nat /\ F \in Seq(Byte) /\ \A i \in 1..n : bytes(i) \in Seq(Byte) /\ IsItem(kind, xs[i])
  BY WrittenItem DEF Agrees
<1>2. PICK flat \in [0..n -> Seq(Byte)] :
        /\ flat[0] = << >>
        /\ \A i \in 1..n : flat[i] = flat[i - 1] \o bytes(i)
        /\ flat[n] = Joined(kind, xs)
  BY JoinedInARow
<1> HIDE DEF n, bytes
<1>3. PICK after : InARow(after, kind, blob, r, n)
  BY <1>1, ReadersInARow
<1>3a.
      /\ after[0] = Reader(r.pos, r.ok, << >>)
      /\ \A i \in 1..m : after[i] = With(after[i - 1], ReadItem(kind, blob, after[i - 1]))
      /\ ReadList(kind, blob, r, n) = after[m]
  BY <1>3 DEF InARow, IsReader, Reader
<1> HIDE DEF m
<1> DEFINE V == [i \in 0..n |-> W \o flat[i]]
<1>4. \A i \in 1..n : V[i] = V[i - 1] \o bytes(i) /\ i - 1 \in 0..n /\ i \in 0..n
  <2> HIDE DEF V
  <2>1. SUFFICES ASSUME NEW i \in 1..n PROVE V[i] = V[i - 1] \o bytes(i) /\ i - 1 \in 0..n /\ i \in 0..n
    OBVIOUS
  <2>2. i - 1 \in 0..n /\ i \in 0..n /\ flat[i - 1] \in Seq(Byte) /\ bytes(i) \in Seq(Byte)
    BY <1>1
  <2> DEFINE u == flat[i - 1]
             b == bytes(i)
  <2>3. u \in Seq(Byte) /\ b \in Seq(Byte) /\ flat[i] = u \o b
    BY <1>2, <2>2
  <2>4. V[i] = W \o flat[i] /\ V[i - 1] = W \o u
    BY <2>2 DEF V
  <2> HIDE DEF u, b
  <2>5. (W \o u) \o b = W \o (u \o b)
    <3>1. u \in Seq(Byte) /\ b \in Seq(Byte)
      BY <2>3
    <3>2. \A x, y, z \in Seq(Byte) : (x \o y) \o z = x \o (y \o z)
      BY ConcatAssociative
    <3>3. QED BY <3>1, <3>2
  <2>6. QED BY <2>2, <2>3, <2>4, <2>5 DEF b
<1>5. \A i \in 0..n : V[i] \in Seq(Byte)
  BY ConcatProperties
<1>6. V[0] = W /\ V[n] = W \o Joined(kind, xs)
  <2>1. W \o << >> = W
    BY ConcatEmptySeq
  <2>2. QED BY <1>1, <1>2, <2>1
<1> HIDE DEF V
<1>7. \A i \in 0..n : Begins(V[i], F)
  <2> DEFINE T == {k \in Nat : k <= n => Begins(V[n - k], F)}
  <2>1. 0 \in T
    <3>1. n - 0 = n
      BY <1>1
    <3>2. QED BY <1>6, <3>1
  <2>2. ASSUME NEW k \in T PROVE k + 1 \in T
    <3>1. SUFFICES ASSUME k + 1 <= n PROVE Begins(V[n - (k + 1)], F)
      OBVIOUS
    <3>2. k \in Nat /\ n - k \in 1..n /\ (n - k) - 1 = n - (k + 1) /\ n - (k + 1) \in 0..n
      BY <1>1, <3>1
    <3>3. Begins(V[n - k], F)
      BY <1>1, <3>1, <3>2
    <3>4. Begins(V[n - (k + 1)] \o bytes(n - k), F)
      BY <1>4, <3>2, <3>3
    <3>5. QED BY <1>1, <1>5, <3>2, <3>4, BeginsWith
  <2>3. T \in SUBSET Nat
    OBVIOUS
  <2> HIDE DEF T
  <2>4. Nat \subseteq T
    BY <2>1, <2>2, <2>3, Induction
  <2>5. ASSUME NEW i \in 0..n PROVE Begins(V[i], F)
    <3>1. n - i \in Nat /\ n - i <= n /\ n - (n - i) = i
      BY <1>1
    <3>2. QED BY <2>4, <3>1 DEF T
  <2>6. QED BY <2>5
<1>8. Stands(blob, after[0], V[0], << >>)
  <2>1. CASE Len(W) <= Len(blob)
    <3>1. r = Reader(Len(W), TRUE, g)
      BY <2>1 DEF Stands
    <3>2. r.pos = Len(W) /\ r.ok = TRUE
      BY <3>1 DEF Reader
    <3>3. QED BY <1>3a, <1>6, <2>1, <3>2 DEF Stands
  <2>2. CASE ~ (Len(W) <= Len(blob))
    <3>1. ~ r.ok
      BY <2>2 DEF Stands
    <3>2. after[0].ok = r.ok
      BY <1>3a DEF Reader
    <3>3. QED BY <1>6, <2>2, <3>1, <3>2 DEF Stands
  <2>3. QED BY <2>1, <2>2
<1>9. CASE ~ r.ok
  <2>1. ~ (Len(W) <= Len(blob))
    BY <1>9 DEF Stands, Reader
  <2>2. ~ after[0].ok
    BY <1>6, <1>8, <2>1 DEF Stands
  <2>3. ~ (Len(W \o Joined(kind, xs)) <= Len(blob))
    <3>1. Len(W \o Joined(kind, xs)) = Len(W) + Len(Joined(kind, xs))
      BY ConcatProperties
    <3>2. Len(W) \in Nat /\ Len(Joined(kind, xs)) \in Nat /\ Len(blob) \in Nat
      BY DEF Agrees
    <3>3. QED BY <2>1, <3>1, <3>2
  <2>4. ReadList(kind, blob, r, n) = after[0]
    <3>1. m = 0
      BY <1>9 DEF m
    <3>2. QED BY <1>3a, <3>1
  <2>5. QED BY <2>2, <2>3, <2>4 DEF Stands, n
<1>10. CASE r.ok
  <2> DEFINE T == {k \in Nat : k <= n => Stands(blob, after[k], V[k], SubSeq(xs, 1, k))}
  <2>1. 0 \in T
    <3>1. SubSeq(xs, 1, 0) = << >>
      OBVIOUS
    <3>2. QED BY <1>8, <3>1
  <2>2. ASSUME NEW k \in T PROVE k + 1 \in T
    <3>1. SUFFICES ASSUME k + 1 <= n PROVE Stands(blob, after[k + 1], V[k + 1], SubSeq(xs, 1, k + 1))
      OBVIOUS
    <3> DEFINE x == xs[k + 1]
               sofar == SubSeq(xs, 1, k)
               next == ReadItem(kind, blob, after[k])
    <3>2. k \in Nat /\ k + 1 \in 1..n /\ (k + 1) - 1 = k /\ k \in 0..n /\ k + 1 \in 0..n /\ k + 1 <= Len(xs)
      BY <1>1, <3>1 DEF n
    <3>3. Stands(blob, after[k], V[k], sofar)
      BY <1>1, <3>1, <3>2
    <3>4. V[k + 1] = V[k] \o BytesOf(kind, x) /\ IsItem(kind, x) /\ V[k] \in Seq(Byte) /\ Begins(V[k + 1], F)
          /\ BytesOf(kind, x) \in Seq(Byte)
      BY <1>1, <1>4, <1>5, <1>7, <3>2 DEF bytes
    <3>5. Append(sofar, x) = SubSeq(xs, 1, k + 1)
      BY <3>2
    <3>6. after[k + 1] = With(after[k], next)
      BY <1>3a, <1>10, <3>2 DEF m
    <3> HIDE DEF x, sofar
    <3>7. Stands(blob, next, V[k + 1], x)
      BY <3>3, <3>4, ItemStands
    <3> HIDE DEF next
    <3>8. CASE Len(V[k + 1]) <= Len(blob)
      <4>1. Len(V[k]) <= Len(blob)
        <5>1. Len(V[k + 1]) = Len(V[k]) + Len(BytesOf(kind, x))
          BY <3>4, ConcatProperties
        <5>2. Len(V[k]) \in Nat /\ Len(BytesOf(kind, x)) \in Nat /\ Len(blob) \in Nat
          BY <3>4 DEF Agrees
        <5>3. QED BY <3>8, <5>1, <5>2
      <4>2. next = Reader(Len(V[k + 1]), TRUE, x) /\ after[k] = Reader(Len(V[k]), TRUE, sofar)
        BY <3>3, <3>7, <3>8, <4>1 DEF Stands
      <4>3. after[k + 1] = Reader(Len(V[k + 1]), TRUE, Append(sofar, x))
        BY <3>6, <4>2 DEF With, Reader
      <4>4. QED BY <3>5, <3>8, <4>3 DEF Stands
    <3>9. CASE ~ (Len(V[k + 1]) <= Len(blob))
      BY <3>6, <3>7, <3>9 DEF Stands, With
    <3>10. QED BY <3>8, <3>9
  <2>3. T \in SUBSET Nat
    OBVIOUS
  <2> HIDE DEF T
  <2>4. n \in T
    BY <1>1, <2>1, <2>2, <2>3, Induction
  <2>5. Stands(blob, after[n], V[n], SubSeq(xs, 1, n))
    BY <1>1, <2>4 DEF T
  <2>6. SubSeq(xs, 1, n) = xs
    BY SubSeqFull DEF n
  <2>7. m = n
    BY <1>10 DEF m
  <2>8. QED BY <1>3a, <1>6, <2>5, <2>6, <2>7 DEF n
<1>11. QED BY <1>9, <1>10

-----------------------------------------------------------------------------
(* A blob as it grows field by field.                                       *)
VersionText == HeaderMagic \o U32LE(FormatVersion)
LlvmText(header) == VersionText \o LenPrefixed(header.llvm)
TripleText(header) == LlvmText(header) \o LenPrefixed(header.triple)
CpuText(header) == TripleText(header) \o LenPrefixed(header.cpu)
ModeText(header) == CpuText(header) \o <<ModeByte[header.mode]>>
FPText(header) == ModeText(header) \o <<FPByte[header.fp]>>
CountText(header) == FPText(header) \o U32LE(Len(header.rets))
RetsText(header) == CountText(header) \o header.rets
SizeText(header, object) == RetsText(header) \o U64LE(Len(object))
ObjectText(header, object) == SizeText(header, object) \o object
ExtCountText(header, object) == ObjectText(header, object) \o U32LE(Len(header.extensions))
ExtensionsText(header, object) ==
  ExtCountText(header, object) \o Joined("extensions", header.extensions)
WholeText(header, object) == ExtensionsText(header, object) \o FooterMagic

LEMMA Names ==
  /\ \A name \in DOMAIN ModeByte :
       ModeByte[name] \in Byte \cap Range(ModeByte) /\ NameOf(ModeByte, ModeByte[name]) = name
  /\ \A name \in DOMAIN FPByte :
       FPByte[name] \in Byte \cap Range(FPByte) /\ NameOf(FPByte, FPByte[name]) = name
  /\ \A v \in Range(ModeByte) : NameOf(ModeByte, v) \in DOMAIN ModeByte /\ ModeByte[NameOf(ModeByte, v)] = v
  /\ \A v \in Range(FPByte) : NameOf(FPByte, v) \in DOMAIN FPByte /\ FPByte[NameOf(FPByte, v)] = v
<1>1. DOMAIN ModeByte = {"single", "batch"} /\ ModeByte["single"] = 0 /\ ModeByte["batch"] = 1
  BY DEF ModeByte
<1>2. DOMAIN FPByte = {"strict", "fast"} /\ FPByte["strict"] = 0 /\ FPByte["fast"] = 1
  BY DEF FPByte
<1>3. 0 \in Byte /\ 1 \in Byte
  BY Sizes DEF Byte
<1>4. \A name \in DOMAIN ModeByte : ModeByte[name] \in Byte \cap Range(ModeByte)
  BY <1>1, <1>3 DEF Range
<1>5. \A name \in DOMAIN FPByte : FPByte[name] \in Byte \cap Range(FPByte)
  BY <1>2, <1>3 DEF Range
<1>6. \A v \in Range(ModeByte) : NameOf(ModeByte, v) \in DOMAIN ModeByte /\ ModeByte[NameOf(ModeByte, v)] = v
  <2>1. \A v \in Range(ModeByte) : \E name \in DOMAIN ModeByte : ModeByte[name] = v
    BY DEF Range
  <2>2. QED BY <2>1, Zenon DEF NameOf
<1>7. \A v \in Range(FPByte) : NameOf(FPByte, v) \in DOMAIN FPByte /\ FPByte[NameOf(FPByte, v)] = v
  <2>1. \A v \in Range(FPByte) : \E name \in DOMAIN FPByte : FPByte[name] = v
    BY DEF Range
  <2>2. QED BY <2>1, Zenon DEF NameOf
<1>8. \A m, n \in DOMAIN ModeByte : ModeByte[m] = ModeByte[n] => m = n
  BY <1>1
<1>9. \A m, n \in DOMAIN FPByte : FPByte[m] = FPByte[n] => m = n
  BY <1>2
<1>10. QED BY <1>4, <1>5, <1>6, <1>7, <1>8, <1>9

(* The parts of a header are bytes, and what the writer writes is the whole. *)
LEMMA Parts ==
  ASSUME NEW header, IsHeader(header)
  PROVE  /\ header.llvm \in ShortStrings /\ header.triple \in ShortStrings /\ header.cpu \in ShortStrings
         /\ header.mode \in DOMAIN ModeByte /\ header.fp \in DOMAIN FPByte
         /\ header.rets \in Seq(Byte) /\ Len(header.rets) \in 1..(U32Max - 1)
         /\ header.mode = "single" => Len(header.rets) = 1
         /\ Len(header.extensions) \in 0..(U32Max - 1)
         /\ \A i \in 1..Len(header.extensions) : IsItem("extensions", header.extensions[i])
         /\ \A i \in 1..Len(header.rets) : IsItem("rets", header.rets[i])
         /\ header.extensions \in Seq([tag : 0..(U32Max - 1), payload : ShortStrings])
         /\ Joined("extensions", header.extensions) \in Seq(Byte)
         /\ header = [llvm |-> header.llvm, triple |-> header.triple, cpu |-> header.cpu, mode |-> header.mode,
                      fp |-> header.fp, rets |-> header.rets, extensions |-> header.extensions]
<1>1. /\ header.llvm \in ShortStrings /\ header.triple \in ShortStrings /\ header.cpu \in ShortStrings
      /\ header.mode \in DOMAIN ModeByte /\ header.fp \in DOMAIN FPByte
      /\ header.rets \in ShortStrings
      /\ header.extensions \in Seq([tag : 0..(U32Max - 1), payload : ShortStrings])
      /\ header = [llvm |-> header.llvm, triple |-> header.triple, cpu |-> header.cpu, mode |-> header.mode,
                   fp |-> header.fp, rets |-> header.rets, extensions |-> header.extensions]
  BY DEF IsHeader
<1>2. header.rets # << >> /\ (header.mode = "single" => Len(header.rets) = 1) /\ Len(header.extensions) < U32Max
  BY DEF IsHeader
<1>3. header.rets \in Seq(Byte) /\ Len(header.rets) \in 1..(U32Max - 1)
  <2>1. header.rets \in Seq(Byte) /\ Len(header.rets) < U32Max
    BY <1>1 DEF ShortStrings
  <2>2. Len(header.rets) \in Nat /\ Len(header.rets) # 0
    BY <1>2, <2>1, EmptySeq
  <2>3. QED BY <2>1, <2>2, Sizes
<1>4. Len(header.extensions) \in 0..(U32Max - 1)
  BY <1>1, <1>2, Sizes
<1>5. \A i \in 1..Len(header.extensions) : IsItem("extensions", header.extensions[i])
  BY <1>1, ElementOfSeq DEF IsItem, IsExtension
<1>6. \A i \in 1..Len(header.rets) : IsItem("rets", header.rets[i])
  BY <1>3 DEF IsItem
<1>7. Joined("extensions", header.extensions) \in Seq(Byte)
  <2> DEFINE xs == header.extensions
             X == [tag : 0..(U32Max - 1), payload : ShortStrings]
             kind == "extensions"
  <2>1. kind \in Kinds /\ xs \in Seq(X) /\ \A i \in 1..Len(xs) : IsItem(kind, xs[i])
    BY <1>1, <1>5 DEF Kinds
  <2> HIDE DEF xs, X, kind
  <2>2. PICK flat \in [0..Len(xs) -> Seq(Byte)] : flat[Len(xs)] = Joined(kind, xs)
    BY <2>1, JoinedInARow
  <2>3. Len(xs) \in Nat
    BY <2>1
  <2>4. Joined(kind, xs) \in Seq(Byte)
    BY <2>2, <2>3
  <2>5. QED BY <2>4 DEF xs, kind
<1>8. QED BY <1>1, <1>2, <1>3, <1>4, <1>5, <1>6, <1>7

LEMMA Pieces ==
  ASSUME NEW header, IsHeader(header), NEW object \in Seq(Byte)
  PROVE  /\ U32LE(FormatVersion) \in Seq(Byte) /\ U32LE(Len(header.rets)) \in Seq(Byte)
         /\ U32LE(Len(header.extensions)) \in Seq(Byte) /\ U64LE(Len(object)) \in Seq(Byte)
         /\ LenPrefixed(header.llvm) \in Seq(Byte) /\ LenPrefixed(header.triple) \in Seq(Byte)
         /\ LenPrefixed(header.cpu) \in Seq(Byte)
         /\ <<ModeByte[header.mode]>> \in Seq(Byte) /\ <<FPByte[header.fp]>> \in Seq(Byte)
<1>1. header.llvm \in Seq(Byte) /\ header.triple \in Seq(Byte) /\ header.cpu \in Seq(Byte)
  BY Parts DEF ShortStrings
<1>2. ModeByte[header.mode] \in Byte /\ FPByte[header.fp] \in Byte
  BY Parts, Names
<1>3. FormatVersion \in Nat /\ U32Max \in Nat
  BY Sizes, FormatAssumption
<1>4. Len(header.rets) \in Nat /\ Len(header.extensions) \in Nat
  <2>1. Len(header.rets) \in 1..(U32Max - 1) /\ Len(header.extensions) \in 0..(U32Max - 1)
    BY Parts
  <2>2. QED BY <1>3, <2>1
<1>5. Len(object) \in Nat
  OBVIOUS
<1>6. /\ U32LE(FormatVersion) \in Seq(Byte) /\ U32LE(Len(header.rets)) \in Seq(Byte)
      /\ U32LE(Len(header.extensions)) \in Seq(Byte) /\ U64LE(Len(object)) \in Seq(Byte)
  BY <1>3, <1>4, <1>5, WrittenNumbers
<1>7. /\ LenPrefixed(header.llvm) \in Seq(Byte) /\ LenPrefixed(header.triple) \in Seq(Byte)
      /\ LenPrefixed(header.cpu) \in Seq(Byte)
  BY <1>1, WrittenNumbers
<1>8. QED BY <1>2, <1>6, <1>7

LEMMA Texts ==
  ASSUME NEW header, IsHeader(header), NEW object \in Seq(Byte)
  PROVE  /\ VersionText \in Seq(Byte) /\ LlvmText(header) \in Seq(Byte) /\ TripleText(header) \in Seq(Byte)
         /\ CpuText(header) \in Seq(Byte) /\ ModeText(header) \in Seq(Byte) /\ FPText(header) \in Seq(Byte)
         /\ CountText(header) \in Seq(Byte) /\ RetsText(header) \in Seq(Byte)
         /\ SizeText(header, object) \in Seq(Byte) /\ ObjectText(header, object) \in Seq(Byte)
         /\ ExtCountText(header, object) \in Seq(Byte) /\ ExtensionsText(header, object) \in Seq(Byte)
         /\ WholeText(header, object) \in Seq(Byte)
         /\ WholeText(header, object) = SerializeArtifact(header, object)
<1>1. /\ header.rets \in Seq(Byte) /\ Len(header.rets) \in 1..(U32Max - 1)
      /\ header.mode = "single" => Len(header.rets) = 1
      /\ Joined("extensions", header.extensions) \in Seq(Byte)
  BY Parts
<1>2. /\ U32LE(FormatVersion) \in Seq(Byte) /\ U32LE(Len(header.rets)) \in Seq(Byte)
      /\ U32LE(Len(header.extensions)) \in Seq(Byte) /\ U64LE(Len(object)) \in Seq(Byte)
      /\ LenPrefixed(header.llvm) \in Seq(Byte) /\ LenPrefixed(header.triple) \in Seq(Byte)
      /\ LenPrefixed(header.cpu) \in Seq(Byte)
      /\ <<ModeByte[header.mode]>> \in Seq(Byte) /\ <<FPByte[header.fp]>> \in Seq(Byte)
  BY Pieces
<1>3. VersionText \in Seq(Byte)
  BY <1>2, Sizes, ConcatProperties DEF VersionText
<1>4. LlvmText(header) \in Seq(Byte)
  BY <1>2, <1>3, ConcatProperties DEF LlvmText
<1>5. TripleText(header) \in Seq(Byte)
  BY <1>2, <1>4, ConcatProperties DEF TripleText
<1>6. CpuText(header) \in Seq(Byte)
  BY <1>2, <1>5, ConcatProperties DEF CpuText
<1>7. ModeText(header) \in Seq(Byte)
  BY <1>2, <1>6, ConcatProperties DEF ModeText
<1>8. FPText(header) \in Seq(Byte)
  BY <1>2, <1>7, ConcatProperties DEF FPText
<1>9. CountText(header) \in Seq(Byte)
  BY <1>2, <1>8, ConcatProperties DEF CountText
<1>10. RetsText(header) \in Seq(Byte)
  BY <1>1, <1>9, ConcatProperties DEF RetsText
<1>11. SizeText(header, object) \in Seq(Byte)
  BY <1>2, <1>10, ConcatProperties DEF SizeText
<1>12. ObjectText(header, object) \in Seq(Byte)
  BY <1>11, ConcatProperties DEF ObjectText
<1>13. ExtCountText(header, object) \in Seq(Byte)
  BY <1>2, <1>12, ConcatProperties DEF ExtCountText
<1>14. ExtensionsText(header, object) \in Seq(Byte)
  BY <1>1, <1>13, ConcatProperties DEF ExtensionsText
<1>15. WholeText(header, object) \in Seq(Byte)
  BY <1>14, Sizes, ConcatProperties DEF WholeText
<1>16. WholeText(header, object) = SerializeArtifact(header, object)
  <2>1. ~ (Len(header.rets) = 0 \/ (header.mode = "single" /\ Len(header.rets) # 1))
    BY <1>1, Sizes
  <2>2. CpuText(header) \o <<ModeByte[header.mode], FPByte[header.fp]>> = FPText(header)
    <3>1. <<ModeByte[header.mode], FPByte[header.fp]>> = <<ModeByte[header.mode]>> \o <<FPByte[header.fp]>>
      OBVIOUS
    <3> DEFINE mode == <<ModeByte[header.mode]>>
               fp == <<FPByte[header.fp]>>
    <3>2. mode \in Seq(Byte) /\ fp \in Seq(Byte)
      BY <1>2
    <3> HIDE DEF mode, fp
    <3>3. (CpuText(header) \o mode) \o fp = CpuText(header) \o (mode \o fp)
      BY <1>6, <3>2, ConcatAssociative
    <3>4. QED BY <3>1, <3>3, Zenon DEF ModeText, FPText, mode, fp
  <2>3. Joined("extensions", header.extensions)
          = FlattenSeq([i \in DOMAIN header.extensions |-> ExtensionBytes(header.extensions[i])])
    BY DEF Joined
  <2>4. QED BY <2>1, <2>2, <2>3, Zenon
            DEF SerializeArtifact, WholeText, ExtensionsText, ExtCountText, ObjectText, SizeText, RetsText,
                CountText, CpuText, TripleText, LlvmText, VersionText
<1>17. QED BY <1>3, <1>4, <1>5, <1>6, <1>7, <1>8, <1>9, <1>10, <1>11, <1>12, <1>13, <1>14, <1>15, <1>16

-----------------------------------------------------------------------------
(* What a blob that agrees with a written one reads as.                     *)
LEMMA Readers ==
  ASSUME NEW blob, NEW r, NEW n
  PROVE  IsReader(Stopped(r)) /\ IsReader(ReadBytesView(blob, r, n)) /\ IsReader(ReadNumber(blob, r, n))
<1>1. \A pos, ok, got : IsReader(Reader(pos, ok, got))
  BY DEF IsReader, Reader
<1>2. IsReader(Stopped(r))
  BY <1>1 DEF Stopped
<1> DEFINE view == ReadBytesView(blob, r, n)
<1>3. IsReader(view)
  BY <1>1, <1>2 DEF ReadBytesView
<1>4. ReadNumber(blob, r, n) = IF ~ view.ok THEN view ELSE Reader(view.pos, TRUE, Number(view.got))
  BY DEF ReadNumber, AsNumber
<1> HIDE DEF view
<1>5. IsReader(ReadNumber(blob, r, n))
  BY <1>1, <1>3, <1>4
<1>6. QED BY <1>2, <1>3, <1>5 DEF view

(* A reader that has failed reads nothing, whatever it is to count to.      *)
LEMMA ReadNothing ==
  ASSUME NEW kind \in Kinds, NEW blob, NEW r, IsReader(r), ~ r.ok, NEW n
  PROVE  ~ ReadList(kind, blob, r, n).ok
<1> DEFINE m == IF r.ok THEN n ELSE 0
<1>1. PICK after : InARow(after, kind, blob, r, n)
  BY ReadersInARow
<1>2. after[0] = [r EXCEPT !.got = << >>] /\ ReadList(kind, blob, r, n) = after[m]
  BY <1>1 DEF InARow
<1>3. m = 0
  OBVIOUS
<1>4. r = [pos |-> r.pos, ok |-> r.ok, got |-> r.got]
  BY DEF IsReader, Reader
<1>5. [r EXCEPT !.got = << >>].ok = r.ok
  BY <1>4
<1> HIDE DEF m
<1>6. QED BY <1>2, <1>3, <1>5

LEMMA Shorter ==
  ASSUME NEW F \in Seq(Byte), NEW W \in Seq(Byte), NEW x \in Seq(Byte), NEW T, T = W \o x, Begins(T, F)
  PROVE  Begins(W, F) /\ Len(W) <= Len(T)
<1>1. Begins(W, F) /\ Len(T) = Len(W) + Len(x)
  BY BeginsWith
<1>2. QED BY <1>1

LEMMA CheckStands ==
  ASSUME NEW blob, NEW W, NEW r, NEW g, Stands(blob, r, W, g),
         NEW c, c \in {r, Stopped(r)}, r.got = g => (r.ok => c = r)
  PROVE  Stands(blob, c, W, g)
<1>1. CASE Len(W) <= Len(blob)
  <2>1. r = Reader(Len(W), TRUE, g)
    BY <1>1 DEF Stands
  <2>2. c = r
    BY <2>1 DEF Reader
  <2>3. QED BY <2>2
<1>2. CASE ~ (Len(W) <= Len(blob))
  BY <1>2 DEF Stands, Stopped, Reader
<1>3. QED BY <1>1, <1>2

LEMMA HeaderBegins ==
  ASSUME NEW F \in Seq(Byte), NEW header, IsHeader(header), NEW object \in Seq(Byte),
         Begins(SizeText(header, object), F)
  PROVE  /\ Begins(RetsText(header), F) /\ Begins(CountText(header), F) /\ Begins(FPText(header), F)
         /\ Begins(ModeText(header), F) /\ Begins(CpuText(header), F) /\ Begins(TripleText(header), F)
         /\ Begins(LlvmText(header), F) /\ Begins(VersionText, F) /\ Begins(HeaderMagic, F)
         /\ Len(RetsText(header)) <= Len(SizeText(header, object)) /\ Len(CountText(header)) <= Len(RetsText(header))
         /\ Len(FPText(header)) <= Len(CountText(header)) /\ Len(ModeText(header)) <= Len(FPText(header))
         /\ Len(CpuText(header)) <= Len(ModeText(header)) /\ Len(TripleText(header)) <= Len(CpuText(header))
         /\ Len(LlvmText(header)) <= Len(TripleText(header))
<1>1. Begins(RetsText(header), F) /\ Len(RetsText(header)) <= Len(SizeText(header, object))
  <2>1. SizeText(header, object) = RetsText(header) \o U64LE(Len(object))
    BY DEF SizeText
  <2>2. RetsText(header) \in Seq(Byte) /\ U64LE(Len(object)) \in Seq(Byte)
    BY Texts, Pieces, Parts, Sizes
  <2>3. QED BY <2>1, <2>2, Shorter
<1>2. Begins(CountText(header), F) /\ Len(CountText(header)) <= Len(RetsText(header))
  <2>1. RetsText(header) = CountText(header) \o header.rets
    BY DEF RetsText
  <2>2. CountText(header) \in Seq(Byte) /\ header.rets \in Seq(Byte)
    BY Texts, Pieces, Parts, Sizes
  <2>3. QED BY <1>1, <2>1, <2>2, Shorter
<1>3. Begins(FPText(header), F) /\ Len(FPText(header)) <= Len(CountText(header))
  <2>1. CountText(header) = FPText(header) \o U32LE(Len(header.rets))
    BY DEF CountText
  <2>2. FPText(header) \in Seq(Byte) /\ U32LE(Len(header.rets)) \in Seq(Byte)
    BY Texts, Pieces, Parts, Sizes
  <2>3. QED BY <1>2, <2>1, <2>2, Shorter
<1>4. Begins(ModeText(header), F) /\ Len(ModeText(header)) <= Len(FPText(header))
  <2>1. FPText(header) = ModeText(header) \o <<FPByte[header.fp]>>
    BY DEF FPText
  <2>2. ModeText(header) \in Seq(Byte) /\ <<FPByte[header.fp]>> \in Seq(Byte)
    BY Texts, Pieces, Parts, Sizes
  <2>3. QED BY <1>3, <2>1, <2>2, Shorter
<1>5. Begins(CpuText(header), F) /\ Len(CpuText(header)) <= Len(ModeText(header))
  <2>1. ModeText(header) = CpuText(header) \o <<ModeByte[header.mode]>>
    BY DEF ModeText
  <2>2. CpuText(header) \in Seq(Byte) /\ <<ModeByte[header.mode]>> \in Seq(Byte)
    BY Texts, Pieces, Parts, Sizes
  <2>3. QED BY <1>4, <2>1, <2>2, Shorter
<1>6. Begins(TripleText(header), F) /\ Len(TripleText(header)) <= Len(CpuText(header))
  <2>1. CpuText(header) = TripleText(header) \o LenPrefixed(header.cpu)
    BY DEF CpuText
  <2>2. TripleText(header) \in Seq(Byte) /\ LenPrefixed(header.cpu) \in Seq(Byte)
    BY Texts, Pieces, Parts, Sizes
  <2>3. QED BY <1>5, <2>1, <2>2, Shorter
<1>7. Begins(LlvmText(header), F) /\ Len(LlvmText(header)) <= Len(TripleText(header))
  <2>1. TripleText(header) = LlvmText(header) \o LenPrefixed(header.triple)
    BY DEF TripleText
  <2>2. LlvmText(header) \in Seq(Byte) /\ LenPrefixed(header.triple) \in Seq(Byte)
    BY Texts, Pieces, Parts, Sizes
  <2>3. QED BY <1>6, <2>1, <2>2, Shorter
<1>8. Begins(VersionText, F) /\ Len(VersionText) <= Len(LlvmText(header))
  <2>1. LlvmText(header) = VersionText \o LenPrefixed(header.llvm)
    BY DEF LlvmText
  <2>2. VersionText \in Seq(Byte) /\ LenPrefixed(header.llvm) \in Seq(Byte)
    BY Texts, Pieces, Parts, Sizes
  <2>3. QED BY <1>7, <2>1, <2>2, Shorter
<1>9. Begins(HeaderMagic, F) /\ Len(HeaderMagic) <= Len(VersionText)
  <2>1. VersionText = HeaderMagic \o U32LE(FormatVersion)
    BY DEF VersionText
  <2>2. HeaderMagic \in Seq(Byte) /\ U32LE(FormatVersion) \in Seq(Byte)
    BY Texts, Pieces, Parts, Sizes
  <2>3. QED BY <1>8, <2>1, <2>2, Shorter
<1>10. QED BY <1>1, <1>2, <1>3, <1>4, <1>5, <1>6, <1>7, <1>8, <1>9

LEMMA HeaderStands ==
  ASSUME NEW blob, NEW F, Agrees(blob, F),
         NEW header, IsHeader(header), NEW object \in Seq(Byte), Len(object) < SizeMax,
         Begins(SizeText(header, object), F)
  PROVE  LET start == ReadHeader(blob)
         IN  /\ Stands(blob, start.size, SizeText(header, object), Len(object))
             /\ Len(SizeText(header, object)) <= Len(blob) =>
                  /\ start.llvm = header.llvm /\ start.triple = header.triple /\ start.cpu = header.cpu
                  /\ start.mode = ModeByte[header.mode] /\ start.fp = FPByte[header.fp]
                  /\ start.rets = header.rets
<1> DEFINE magic == ReadMagic(blob, Reader(0, TRUE, << >>), HeaderMagic)
           version == Check(ReadU32LE(blob, magic), LAMBDA v : v = FormatVersion)
           llvm == ReadLenPrefixedStr(blob, version)
           triple == ReadLenPrefixedStr(blob, llvm)
           cpu == ReadLenPrefixedStr(blob, triple)
           mode == Check(ReadU8(blob, cpu), LAMBDA v : v \in Range(ModeByte))
           fp == Check(ReadU8(blob, mode), LAMBDA v : v \in Range(FPByte))
           count == Check(ReadU32LE(blob, fp),
                          LAMBDA v : v = 1 \/ (v > 1 /\ NameOf(ModeByte, mode.got) = "batch"))
           rets == ReadAll(blob, count, count.got, ReadU8)
           size == ReadU64LE(blob, rets)
<1>1. ReadHeader(blob) = [llvm |-> llvm.got, triple |-> triple.got, cpu |-> cpu.got, mode |-> mode.got,
                          fp |-> fp.got, rets |-> rets.got, size |-> size]
  BY DEF ReadHeader
<1> HIDE DEF magic, version, llvm, triple, cpu, mode, fp, count, rets, size
<1>2. /\ header.llvm \in ShortStrings /\ header.triple \in ShortStrings /\ header.cpu \in ShortStrings
      /\ ModeByte[header.mode] \in Byte \cap Range(ModeByte) /\ FPByte[header.fp] \in Byte \cap Range(FPByte)
      /\ NameOf(ModeByte, ModeByte[header.mode]) = header.mode
      /\ header.rets \in Seq(Byte) /\ Len(header.rets) \in 1..(U32Max - 1)
      /\ FormatVersion \in 0..(U32Max - 1) /\ F \in Seq(Byte) /\ Len(blob) \in Nat
  BY Parts, Names, FormatAssumption DEF Agrees
<1>3. header.mode \in {"single", "batch"} /\ (header.mode = "single" => Len(header.rets) = 1)
  BY Parts DEF ModeByte
<1>4. /\ VersionText \in Seq(Byte) /\ LlvmText(header) \in Seq(Byte) /\ TripleText(header) \in Seq(Byte)
      /\ CpuText(header) \in Seq(Byte) /\ ModeText(header) \in Seq(Byte) /\ FPText(header) \in Seq(Byte)
      /\ CountText(header) \in Seq(Byte) /\ RetsText(header) \in Seq(Byte)
      /\ SizeText(header, object) \in Seq(Byte)
  BY Texts
<1>5. /\ U32LE(FormatVersion) \in Seq(Byte) /\ U32LE(Len(header.rets)) \in Seq(Byte)
      /\ LenPrefixed(header.llvm) \in Seq(Byte) /\ LenPrefixed(header.triple) \in Seq(Byte)
      /\ LenPrefixed(header.cpu) \in Seq(Byte) /\ U64LE(Len(object)) \in Seq(Byte)
      /\ <<ModeByte[header.mode]>> \in Seq(Byte) /\ <<FPByte[header.fp]>> \in Seq(Byte)
  BY Pieces
<1>6. /\ Begins(RetsText(header), F) /\ Begins(CountText(header), F) /\ Begins(FPText(header), F)
      /\ Begins(ModeText(header), F) /\ Begins(CpuText(header), F) /\ Begins(TripleText(header), F)
      /\ Begins(LlvmText(header), F) /\ Begins(VersionText, F) /\ Begins(HeaderMagic, F)
  BY <1>2, HeaderBegins
<1>7. /\ Len(RetsText(header)) <= Len(SizeText(header, object)) /\ Len(CountText(header)) <= Len(RetsText(header))
      /\ Len(FPText(header)) <= Len(CountText(header)) /\ Len(ModeText(header)) <= Len(FPText(header))
      /\ Len(CpuText(header)) <= Len(ModeText(header)) /\ Len(TripleText(header)) <= Len(CpuText(header))
      /\ Len(LlvmText(header)) <= Len(TripleText(header))
  BY <1>2, HeaderBegins
<1>15. Stands(blob, magic, HeaderMagic, HeaderMagic)
  <2>1. << >> \in Seq(Byte) /\ << >> \o HeaderMagic = HeaderMagic
    BY Sizes, ConcatEmptySeq
  <2>2. Stands(blob, Reader(0, TRUE, << >>), << >>, << >>)
    BY <1>2 DEF Stands
  <2>3. Begins(<< >> \o HeaderMagic, F)
    BY <1>6, <2>1
  <2>4. Stands(blob, magic, << >> \o HeaderMagic, HeaderMagic)
    BY <2>1, <2>2, <2>3, MagicStands, Sizes DEF magic
  <2>5. QED BY <2>1, <2>4
<1>16. Stands(blob, version, VersionText, FormatVersion)
  <2> DEFINE read == ReadU32LE(blob, magic)
  <2>1. Stands(blob, read, VersionText, FormatVersion)
    BY <1>2, <1>6, <1>15, U32Stands, Sizes DEF VersionText
  <2>2. version = IF read.ok /\ read.got = FormatVersion THEN read ELSE Stopped(read)
    BY DEF version, Check
  <2> HIDE DEF read
  <2>3. QED BY <2>1, <2>2, CheckStands
<1>17. Stands(blob, llvm, LlvmText(header), header.llvm)
  BY <1>2, <1>4, <1>6, <1>16, StringStands DEF LlvmText, llvm
<1>18. Stands(blob, triple, TripleText(header), header.triple)
  BY <1>2, <1>4, <1>6, <1>17, StringStands DEF TripleText, triple
<1>19. Stands(blob, cpu, CpuText(header), header.cpu)
  BY <1>2, <1>4, <1>6, <1>18, StringStands DEF CpuText, cpu
<1>20. Stands(blob, mode, ModeText(header), ModeByte[header.mode])
  <2> DEFINE read == ReadU8(blob, cpu)
  <2>1. Stands(blob, read, ModeText(header), ModeByte[header.mode])
    BY <1>2, <1>4, <1>6, <1>19, ByteStands DEF ModeText
  <2>2. mode = IF read.ok /\ read.got \in Range(ModeByte) THEN read ELSE Stopped(read)
    BY DEF mode, Check
  <2> HIDE DEF read
  <2>3. QED BY <1>2, <2>1, <2>2, CheckStands
<1>21. Stands(blob, fp, FPText(header), FPByte[header.fp])
  <2> DEFINE read == ReadU8(blob, mode)
  <2>1. Stands(blob, read, FPText(header), FPByte[header.fp])
    BY <1>2, <1>4, <1>6, <1>20, ByteStands DEF FPText
  <2>2. fp = IF read.ok /\ read.got \in Range(FPByte) THEN read ELSE Stopped(read)
    BY DEF fp, Check
  <2> HIDE DEF read
  <2>3. QED BY <1>2, <2>1, <2>2, CheckStands
<1>22. Stands(blob, count, CountText(header), Len(header.rets))
  <2> DEFINE read == ReadU32LE(blob, fp)
             passes == read.got = 1 \/ (read.got > 1 /\ NameOf(ModeByte, mode.got) = "batch")
  <2>1. Stands(blob, read, CountText(header), Len(header.rets))
    BY <1>2, <1>4, <1>6, <1>21, U32Stands DEF CountText
  <2>2. count = IF read.ok /\ passes THEN read ELSE Stopped(read)
    BY DEF count, Check
  <2>3. CASE Len(CountText(header)) <= Len(blob)
    <3>1. read = Reader(Len(CountText(header)), TRUE, Len(header.rets))
      BY <2>1, <2>3 DEF Stands
    <3>2. read.ok = TRUE /\ read.got = Len(header.rets)
      BY <3>1 DEF Reader
    <3>3. mode = Reader(Len(ModeText(header)), TRUE, ModeByte[header.mode])
      <4>1. Len(ModeText(header)) <= Len(blob)
        BY <1>2, <1>4, <1>7, <2>3
      <4>2. QED BY <1>20, <4>1 DEF Stands
    <3>4. NameOf(ModeByte, mode.got) = header.mode
      BY <1>2, <3>3 DEF Reader
    <3> HIDE DEF read
    <3> DEFINE n == Len(header.rets)
    <3>5. n = 1 \/ (n > 1 /\ header.mode = "batch")
      <4>1. n \in 1..(U32Max - 1) /\ U32Max \in Nat
        BY <1>2, Sizes
      <4>2. header.mode = "batch" \/ n = 1
        BY <1>3
      <4> HIDE DEF n, passes
      <4>3. QED BY <4>1, <4>2
    <3> HIDE DEF n
    <3>6. read.got = n
      BY <3>2 DEF n
    <3>7. passes
      BY <3>4, <3>5, <3>6
    <3>8. QED BY <2>1, <2>2, <3>2, <3>7
  <2>4. CASE ~ (Len(CountText(header)) <= Len(blob))
    <3>1. ~ read.ok
      BY <2>1, <2>4 DEF Stands
    <3> HIDE DEF read, passes
    <3>2. QED BY <2>2, <2>4, <3>1 DEF Stands, Stopped, Reader
  <2>5. QED BY <2>3, <2>4
<1>23. Stands(blob, rets, RetsText(header), header.rets)
  <2> DEFINE kind == "rets"
             list == ReadList(kind, blob, count, Len(header.rets))
  <2>1. kind \in Kinds /\ Joined(kind, header.rets) = header.rets
        /\ \A i \in 1..Len(header.rets) : IsItem(kind, header.rets[i])
    BY Parts DEF Kinds, Joined
  <2>2. IsReader(count)
    <3> DEFINE read == ReadU32LE(blob, fp)
    <3>1. IsReader(read) /\ IsReader(Stopped(read))
      BY Readers DEF ReadU32LE
    <3>2. count = read \/ count = Stopped(read)
      BY DEF count, Check
    <3> HIDE DEF read
    <3>3. QED BY <3>1, <3>2
  <2> HIDE DEF kind
  <2>3. Stands(blob, list, CountText(header) \o Joined(kind, header.rets), header.rets)
    BY <1>2, <1>4, <1>6, <1>22, <2>1, <2>2, ListStands DEF RetsText
  <2>4. Stands(blob, list, RetsText(header), header.rets)
    BY <2>1, <2>3 DEF RetsText
  <2>5. list = ReadAll(blob, count, Len(header.rets), ReadU8)
    BY Zenon DEF ReadList, kind
  <2> HIDE DEF list
  <2>6. CASE Len(CountText(header)) <= Len(blob)
    <3>1. count.got = Len(header.rets)
      BY <1>22, <2>6 DEF Stands, Reader
    <3>2. QED BY <2>4, <2>5, <3>1 DEF rets
  <2>7. CASE ~ (Len(CountText(header)) <= Len(blob))
    <3>1. ~ count.ok
      BY <1>22, <2>7 DEF Stands
    <3>2. ~ rets.ok
      <4>1. rets = ReadList(kind, blob, count, count.got)
        BY Zenon DEF ReadList, kind, rets
      <4>2. QED BY <2>1, <2>2, <3>1, <4>1, ReadNothing
    <3>3. ~ (Len(RetsText(header)) <= Len(blob))
      BY <1>2, <1>4, <1>7, <2>7
    <3>4. QED BY <3>2, <3>3 DEF Stands
  <2>8. QED BY <2>6, <2>7
<1>24. Stands(blob, size, SizeText(header, object), Len(object))
  <2>1. Len(object) \in Nat /\ Len(object) < Power[2 * U32Bytes] /\ 2 * U32Bytes \in Nat
    BY Sizes DEF SizeMax
  <2>2. QED BY <1>4, <1>23, <2>1, NumberStands DEF SizeText, U64LE, ReadU64LE, size
<1>25. ASSUME Len(SizeText(header, object)) <= Len(blob)
       PROVE  /\ llvm.got = header.llvm /\ triple.got = header.triple /\ cpu.got = header.cpu
              /\ mode.got = ModeByte[header.mode] /\ fp.got = FPByte[header.fp]
              /\ rets.got = header.rets
  <2>1. /\ Len(RetsText(header)) <= Len(blob) /\ Len(FPText(header)) <= Len(blob)
        /\ Len(ModeText(header)) <= Len(blob) /\ Len(CpuText(header)) <= Len(blob)
        /\ Len(TripleText(header)) <= Len(blob) /\ Len(LlvmText(header)) <= Len(blob)
    BY <1>2, <1>4, <1>7, <1>25
  <2>2. QED BY <1>17, <1>18, <1>19, <1>20, <1>21, <1>23, <2>1 DEF Stands, Reader
<1>26. QED BY <1>1, <1>24, <1>25


(* A blob that agrees with what the writer wrote, as far as both go, is     *)
(* read as what was written if it is that, and refused otherwise: if it was *)
(* cut anywhere, and if anything follows.                                   *)
THEOREM ReaderReturnsWhatWasWritten ==
  ASSUME NEW header, IsHeader(header), NEW object \in Seq(Byte),
         Len(SerializeArtifact(header, object)) < SizeMax,
         NEW blob \in Seq(Byte),
         \A i \in 1..Len(blob) : i <= Len(SerializeArtifact(header, object)) =>
                                   blob[i] = SerializeArtifact(header, object)[i]
  PROVE  IF blob = SerializeArtifact(header, object)
           THEN DeserializeArtifact(blob) = [ok |-> TRUE, object |-> object, header |-> header]
           ELSE ~ DeserializeArtifact(blob).ok
<1> DEFINE F == SerializeArtifact(header, object)
           areas == header.extensions
           kind == "extensions"
           start == ReadHeader(blob)
           read_object == ReadCounted(blob, start.size)
           ext_count == ReadU32LE(blob, read_object)
           extensions == ReadAll(blob, ext_count, ext_count.got, ReadExtension)
           footer == ReadMagic(blob, extensions, FooterMagic)
           accepted == [ok |-> TRUE, object |-> read_object.got,
                        header |-> [llvm |-> start.llvm, triple |-> start.triple, cpu |-> start.cpu,
                                    mode |-> NameOf(ModeByte, start.mode), fp |-> NameOf(FPByte, start.fp),
                                    rets |-> start.rets, extensions |-> extensions.got]]
<1>1. DeserializeArtifact(blob) = IF ~ Finished(footer, blob) THEN [ok |-> FALSE] ELSE accepted
  BY DEF DeserializeArtifact, ReadRest
<1>2. /\ SizeText(header, object) \in Seq(Byte) /\ ObjectText(header, object) \in Seq(Byte)
      /\ ExtCountText(header, object) \in Seq(Byte) /\ ExtensionsText(header, object) \in Seq(Byte)
      /\ F \in Seq(Byte) /\ WholeText(header, object) = F
  BY Texts
<1> HIDE DEF F, start, read_object, ext_count, extensions, footer, kind
<1>3. Agrees(blob, F)
  BY <1>2 DEF Agrees, F
<1>4. Begins(WholeText(header, object), F)
  BY <1>2 DEF Begins
<1>5. /\ Begins(ExtensionsText(header, object), F)
      /\ Len(ExtensionsText(header, object)) <= Len(WholeText(header, object))
  BY <1>2, <1>4, Sizes, Shorter DEF WholeText
<1>6. /\ areas \in Seq([tag : 0..(U32Max - 1), payload : ShortStrings]) /\ Len(areas) \in 0..(U32Max - 1)
      /\ kind \in Kinds /\ \A i \in 1..Len(areas) : IsItem(kind, areas[i])
      /\ Joined(kind, areas) \in Seq(Byte)
      /\ ExtensionsText(header, object) = ExtCountText(header, object) \o Joined(kind, areas)
  BY Parts DEF Kinds, kind, ExtensionsText
<1>7. /\ Begins(ExtCountText(header, object), F)
      /\ Len(ExtCountText(header, object)) <= Len(ExtensionsText(header, object))
  BY <1>2, <1>5, <1>6, Shorter
<1>8. /\ Begins(ObjectText(header, object), F)
      /\ Len(ObjectText(header, object)) <= Len(ExtCountText(header, object))
  <2>1. U32LE(Len(areas)) \in Seq(Byte)
    BY Pieces
  <2> DEFINE x == U32LE(Len(areas))
  <2>2. x \in Seq(Byte) /\ ExtCountText(header, object) = ObjectText(header, object) \o x
    BY <2>1 DEF ExtCountText
  <2> HIDE DEF x
  <2>3. QED BY <1>2, <1>7, <2>2, Shorter
<1>9. /\ Begins(SizeText(header, object), F) /\ Len(object) < SizeMax
      /\ Len(SizeText(header, object)) <= Len(ObjectText(header, object))
  <2>1. Begins(SizeText(header, object), F) /\ Len(SizeText(header, object)) <= Len(ObjectText(header, object))
    BY <1>2, <1>8, Shorter DEF ObjectText
  <2>2. Len(ObjectText(header, object)) = Len(SizeText(header, object)) + Len(object)
    BY <1>2, ConcatProperties DEF ObjectText
  <2>3. Len(ObjectText(header, object)) <= Len(F) /\ Len(F) < SizeMax
    BY <1>3, <1>8 DEF Begins, Agrees
  <2>4. Len(F) \in Nat /\ Len(object) \in Nat /\ Len(SizeText(header, object)) \in Nat /\ SizeMax \in Nat
    BY <1>2, Sizes
  <2>5. QED BY <2>1, <2>2, <2>3, <2>4
<1>10. /\ Stands(blob, start.size, SizeText(header, object), Len(object))
       /\ Len(SizeText(header, object)) <= Len(blob) =>
            /\ start.llvm = header.llvm /\ start.triple = header.triple /\ start.cpu = header.cpu
            /\ start.mode = ModeByte[header.mode] /\ start.fp = FPByte[header.fp]
            /\ start.rets = header.rets
  BY <1>3, <1>9, HeaderStands DEF start
<1>11. Stands(blob, read_object, ObjectText(header, object), object)
  BY <1>2, <1>3, <1>8, <1>10, CountedStands DEF ObjectText, read_object
<1>12. Stands(blob, ext_count, ExtCountText(header, object), Len(areas))
  BY <1>2, <1>3, <1>6, <1>7, <1>11, U32Stands DEF ExtCountText, ext_count
<1>13. Stands(blob, extensions, ExtensionsText(header, object), areas)
  <2> DEFINE list == ReadList(kind, blob, ext_count, Len(areas))
  <2>1. IsReader(ext_count)
    BY Readers DEF ext_count, ReadU32LE
  <2>2. Stands(blob, list, ExtCountText(header, object) \o Joined(kind, areas), areas)
    BY <1>2, <1>3, <1>5, <1>6, <1>12, <2>1, ListStands
  <2>3. list = ReadAll(blob, ext_count, Len(areas), ReadExtension)
    BY Zenon DEF ReadList, kind
  <2> HIDE DEF list
  <2>4. CASE Len(ExtCountText(header, object)) <= Len(blob)
    <3>1. ext_count.got = Len(areas)
      BY <1>12, <2>4 DEF Stands, Reader
    <3>2. QED BY <1>6, <2>2, <2>3, <3>1 DEF extensions
  <2>5. CASE ~ (Len(ExtCountText(header, object)) <= Len(blob))
    <3>1. ~ ext_count.ok
      BY <1>12, <2>5 DEF Stands
    <3>2. ~ extensions.ok
      <4>1. extensions = ReadList(kind, blob, ext_count, ext_count.got)
        BY Zenon DEF ReadList, kind, extensions
      <4>2. QED BY <1>6, <2>1, <3>1, <4>1, ReadNothing
    <3>3. ~ (Len(ExtensionsText(header, object)) <= Len(blob))
      BY <1>2, <1>7, <2>5
    <3>4. QED BY <3>2, <3>3 DEF Stands
  <2>6. QED BY <2>4, <2>5
<1>14. Stands(blob, footer, WholeText(header, object), FooterMagic)
  BY <1>2, <1>3, <1>4, <1>13, MagicStands, Sizes DEF WholeText, footer
<1>15. CASE blob = F
  <2>1. /\ Len(WholeText(header, object)) <= Len(blob) /\ Len(ExtensionsText(header, object)) <= Len(blob)
        /\ Len(ObjectText(header, object)) <= Len(blob) /\ Len(SizeText(header, object)) <= Len(blob)
    BY <1>2, <1>5, <1>7, <1>8, <1>9, <1>15
  <2>2. footer.ok = TRUE /\ footer.pos = Len(blob)
    BY <1>2, <1>14, <1>15, <2>1 DEF Stands, Reader
  <2>3. read_object.got = object
    BY <1>11, <2>1 DEF Stands, Reader
  <2>4. extensions.got = areas
    BY <1>13, <2>1 DEF Stands, Reader
  <2>5. NameOf(ModeByte, start.mode) = header.mode /\ NameOf(FPByte, start.fp) = header.fp
    BY <1>10, <2>1, Parts, Names
  <2>6. accepted = [ok |-> TRUE, object |-> object, header |-> header]
    <3>1. header = [llvm |-> header.llvm, triple |-> header.triple, cpu |-> header.cpu, mode |-> header.mode,
                    fp |-> header.fp, rets |-> header.rets, extensions |-> areas]
      BY Parts
    <3>2. QED BY <1>10, <2>1, <2>3, <2>4, <2>5, <3>1
  <2> HIDE DEF accepted
  <2>7. QED BY <1>1, <1>15, <2>2, <2>6 DEF Finished, F
<1>16. CASE blob # F
  <2>1. ~ Finished(footer, blob)
    <3>1. SUFFICES ASSUME Len(F) <= Len(blob), footer.pos = Len(blob) PROVE FALSE
      BY <1>2, <1>14 DEF Finished, Stands
    <3>2. footer.pos = Len(F)
      BY <1>2, <1>14, <3>1 DEF Stands, Reader
    <3>3. \A i \in 1..Len(F) : blob[i] = F[i]
      BY <1>2, <1>3, <3>1, <3>2 DEF Agrees
    <3>4. blob = F
      BY <1>2, <3>1, <3>2, <3>3, SeqEqual
    <3>5. QED BY <1>16, <3>4
  <2> HIDE DEF accepted
  <2>2. QED BY <1>1, <1>16, <2>1 DEF F
<1>17. QED BY <1>15, <1>16

-----------------------------------------------------------------------------
(* What is read as whole is what would be written so.  A reader that is At  *)
(* W has read W, and one that reads on without failing extends W by what it *)
(* reads.                                                                   *)
At(blob, r, W) == r.ok /\ r.pos = Len(W) /\ Begins(W, blob)

LEMMA ViewIsExact ==
  ASSUME NEW blob \in Seq(Byte), NEW W, NEW r, NEW n \in Nat, At(blob, r, W), Len(W) + n < SizeMax,
         ReadBytesView(blob, r, n).ok
  PROVE  LET v == ReadBytesView(blob, r, n)
         IN  v.got \in Seq(Byte) /\ Len(v.got) = n /\ At(blob, v, W \o v.got)
<1> DEFINE end == Len(W) + n
           x == SubSeq(blob, Len(W) + 1, end)
           v == ReadBytesView(blob, r, n)
<1>1. r.pos = Len(W) /\ Begins(W, blob) /\ Len(W) \in Nat /\ Len(blob) \in Nat /\ r.ok
  BY DEF At, Begins
<1>2. r.pos + n = end /\ end % SizeMax = end /\ end \in Nat
  <2>1. r.pos + n = end /\ end \in Nat /\ end < SizeMax
    BY <1>1
  <2> HIDE DEF end
  <2>2. QED BY <2>1, Sizes, Remainder
<1> HIDE DEF end
<1>3. v = IF end > Len(blob) THEN Stopped(r) ELSE Reader(end, TRUE, SubSeq(blob, r.pos + 1, end))
  BY <1>1, <1>2 DEF ReadBytesView
<1>4. v = IF end > Len(blob) THEN Stopped(r) ELSE Reader(end, TRUE, x)
  BY <1>1, <1>3
<1> HIDE DEF v, x
<1>5. ~ (end > Len(blob))
  <2>1. v.ok
    BY DEF v
  <2>2. QED BY <1>4, <2>1 DEF Stopped, Reader
<1>6. v.ok = TRUE /\ v.pos = end /\ v.got = x
  BY <1>4, <1>5 DEF Reader
<1>7. Len(W) <= end /\ end <= Len(blob) /\ end - Len(W) = n
  BY <1>1, <1>2, <1>5 DEF end
<1>8. x \in Seq(Byte) /\ Len(x) = end - Len(W) /\ Begins(W \o x, blob) /\ Len(W \o x) = end
  BY <1>1, <1>2, <1>7, BeginsFurther DEF x
<1>9. QED BY <1>6, <1>7, <1>8 DEF At, v

(* No reading goes on after a failure.                                      *)
LEMMA Sticky ==
  ASSUME NEW blob, NEW r, ~ r.ok
  PROVE  /\ \A n : ~ ReadBytesView(blob, r, n).ok /\ ~ ReadNumber(blob, r, n).ok
         /\ \A x : ~ ReadMagic(blob, r, x).ok
         /\ ~ ReadCounted(blob, r).ok
         /\ ~ ReadLenPrefixedStr(blob, r).ok
         /\ ~ ReadExtension(blob, r).ok
<1>1. \A n : ~ ReadBytesView(blob, r, n).ok
  BY DEF ReadBytesView, Stopped, Reader
<1>2. \A n : ~ ReadNumber(blob, r, n).ok
  BY <1>1 DEF ReadNumber, AsNumber
<1>3. \A x : ~ ReadMagic(blob, r, x).ok
  BY <1>1 DEF ReadMagic, Check, Stopped, Reader
<1>4. ~ ReadCounted(blob, r).ok
  BY DEF ReadCounted
<1>5. ~ ReadLenPrefixedStr(blob, r).ok
  BY <1>2 DEF ReadLenPrefixedStr, ReadCounted, ReadU32LE
<1>6. ~ ReadExtension(blob, r).ok
  <2> DEFINE tag == ReadU32LE(blob, r)
             payload == ReadLenPrefixedStr(blob, tag)
  <2>1. ~ tag.ok
    BY <1>2 DEF ReadU32LE
  <2> HIDE DEF tag
  <2>2. ~ payload.ok
    <3> DEFINE len == ReadU32LE(blob, tag)
    <3>1. ~ len.ok
      BY <2>1 DEF ReadU32LE, ReadNumber, AsNumber, ReadBytesView, Stopped, Reader
    <3>2. payload = IF ~ len.ok THEN len ELSE ReadBytesView(blob, len, len.got)
      BY DEF ReadLenPrefixedStr, ReadCounted
    <3> HIDE DEF len, payload
    <3>3. QED BY <3>1, <3>2
  <2>3. ReadExtension(blob, r) =
          IF payload.ok THEN [payload EXCEPT !.got = [tag |-> tag.got, payload |-> @]] ELSE payload
    BY DEF ReadExtension, tag
  <2> HIDE DEF payload
  <2>4. QED BY <2>2, <2>3
<1>7. QED BY <1>1, <1>2, <1>3, <1>4, <1>5, <1>6

LEMMA NumberIsExact ==
  ASSUME NEW blob \in Seq(Byte), NEW W, NEW r, NEW n \in Nat, At(blob, r, W), Len(W) + n < SizeMax,
         ReadNumber(blob, r, n).ok
  PROVE  LET v == ReadNumber(blob, r, n)
         IN  v.got \in 0..(Power[n] - 1) /\ At(blob, v, W \o LittleEndian(v.got, n))
<1> DEFINE view == ReadBytesView(blob, r, n)
           v == ReadNumber(blob, r, n)
<1>1. v = IF ~ view.ok THEN view ELSE Reader(view.pos, TRUE, Number(view.got))
  BY DEF ReadNumber, AsNumber
<1>2. view.ok
  <2>1. v.ok
    OBVIOUS
  <2> HIDE DEF view, v
  <2>2. QED BY <1>1, <2>1
<1>3. view.got \in Seq(Byte) /\ Len(view.got) = n /\ At(blob, view, W \o view.got)
  BY <1>2, ViewIsExact
<1> HIDE DEF view, v
<1>4. v.ok = TRUE /\ v.pos = view.pos /\ v.got = Number(view.got)
  BY <1>1, <1>2 DEF Reader
<1>5. Number(view.got) \in 0..(Power[n] - 1) /\ LittleEndian(Number(view.got), n) = view.got
  BY <1>3, NumberIsBounded, DigitsOfNumber
<1>6. v.got \in 0..(Power[n] - 1) /\ At(blob, v, W \o LittleEndian(v.got, n))
  BY <1>3, <1>4, <1>5 DEF At
<1>7. QED BY <1>6 DEF v


(* No string of a blob that Fits wraps.                                     *)
LEMMA Room ==
  ASSUME NEW blob \in Seq(Byte), Fits(blob), NEW W, Begins(W, blob), NEW n \in Nat, n <= U32Max
  PROVE  Len(W) + n < SizeMax
<1>1. Len(blob) + U32Max < SizeMax /\ Len(W) <= Len(blob) /\ Len(W) \in Nat /\ Len(blob) \in Nat
  BY DEF Fits, Begins
<1>2. QED BY <1>1, Sizes

LEMMA U32IsExact ==
  ASSUME NEW blob \in Seq(Byte), Fits(blob), NEW W, NEW r, At(blob, r, W), ReadU32LE(blob, r).ok
  PROVE  LET v == ReadU32LE(blob, r)
         IN  v.got \in 0..(U32Max - 1) /\ At(blob, v, W \o U32LE(v.got))
<1>1. U32Bytes \in Nat /\ U32Bytes <= U32Max
  BY Sizes
<1>2. Begins(W, blob)
  BY DEF At
<1>3. Len(W) + U32Bytes < SizeMax
  BY <1>1, <1>2, Room
<1>4. ReadNumber(blob, r, U32Bytes).ok
  BY DEF ReadU32LE
<1>5. LET v == ReadNumber(blob, r, U32Bytes)
      IN  v.got \in 0..(Power[U32Bytes] - 1) /\ At(blob, v, W \o LittleEndian(v.got, U32Bytes))
  BY <1>1, <1>3, <1>4, NumberIsExact
<1>6. QED BY <1>5 DEF ReadU32LE, U32LE, U32Max

LEMMA ByteIsExact ==
  ASSUME NEW blob \in Seq(Byte), Fits(blob), NEW W, NEW r, At(blob, r, W), ReadU8(blob, r).ok
  PROVE  LET v == ReadU8(blob, r)
         IN  v.got \in Byte /\ At(blob, v, W \o <<v.got>>)
<1> DEFINE v == ReadNumber(blob, r, 1)
<1>1. Begins(W, blob)
  BY DEF At
<1>2. Len(W) + 1 < SizeMax
  <2>1. 1 \in Nat /\ 1 <= U32Max
    BY Sizes
  <2>2. QED BY <1>1, <2>1, Room
<1>3. v.ok
  BY DEF ReadU8
<1>4. v.got \in 0..(Power[1] - 1) /\ At(blob, v, W \o LittleEndian(v.got, 1))
  BY <1>2, <1>3, NumberIsExact
<1> HIDE DEF v
<1>5. v.got \in Byte
  <2>1. Power[0 + 1] = Base * Power[0] /\ Power[0] = 1
    BY Powers
  <2>2. 0 + 1 = 1 /\ Base * 1 = Base
    BY Sizes
  <2>3. QED BY <1>4, <2>1, <2>2 DEF Byte
<1>6. At(blob, v, W \o <<v.got>>)
  BY <1>4, <1>5, OneDigit
<1>7. QED BY <1>5, <1>6 DEF v, ReadU8

LEMMA CountedIsExact ==
  ASSUME NEW blob \in Seq(Byte), NEW W, NEW len, At(blob, len, W), len.got \in Nat, Len(W) + len.got < SizeMax,
         ReadCounted(blob, len).ok
  PROVE  LET x == ReadCounted(blob, len)
         IN  x.got \in Seq(Byte) /\ Len(x.got) = len.got /\ At(blob, x, W \o x.got)
<1>1. ReadCounted(blob, len) = ReadBytesView(blob, len, len.got)
  BY DEF ReadCounted, At
<1>2. QED BY <1>1, ViewIsExact

LEMMA StringIsExact ==
  ASSUME NEW blob \in Seq(Byte), Fits(blob), NEW W, NEW r, At(blob, r, W), ReadLenPrefixedStr(blob, r).ok
  PROVE  LET s == ReadLenPrefixedStr(blob, r)
         IN  s.got \in ShortStrings /\ At(blob, s, W \o LenPrefixed(s.got))
<1> DEFINE len == ReadU32LE(blob, r)
           s == ReadCounted(blob, len)
           V == W \o U32LE(len.got)
<1>1. s = ReadLenPrefixedStr(blob, r) /\ s.ok
  BY DEF ReadLenPrefixedStr
<1>2. len.ok
  <2> HIDE DEF len
  <2>1. QED BY <1>1, Sticky
<1>3. len.got \in 0..(U32Max - 1) /\ At(blob, len, V)
  BY <1>2, U32IsExact
<1> HIDE DEF len
<1>4. len.got \in Nat /\ len.got <= U32Max /\ len.got < U32Max
  BY <1>3, Sizes
<1>5. U32LE(len.got) \in Seq(Byte) /\ W \in Seq(Byte)
  BY <1>4, WrittenNumbers DEF At, Begins
<1>6. Len(V) + len.got < SizeMax
  <2>1. Begins(V, blob)
    BY <1>3 DEF At
  <2> HIDE DEF V
  <2>2. QED BY <1>4, <2>1, Room
<1>7. s.got \in Seq(Byte) /\ Len(s.got) = len.got /\ At(blob, s, V \o s.got)
  <2> HIDE DEF V
  <2>1. QED BY <1>1, <1>3, <1>4, <1>6, CountedIsExact
<1> HIDE DEF s
<1>8. V \o s.got = W \o LenPrefixed(s.got)
  <2> DEFINE u == U32LE(len.got)
  <2>1. u \in Seq(Byte)
    BY <1>5
  <2> DEFINE t == s.got
  <2>2. t \in Seq(Byte)
    BY <1>7
  <2> HIDE DEF u, t
  <2>3. (W \o u) \o t = W \o (u \o t)
    BY <1>5, <2>1, <2>2, ConcatAssociative
  <2>4. QED BY <1>7, <2>3 DEF u, t, LenPrefixed
<1>9. s.got \in ShortStrings
  BY <1>4, <1>7 DEF ShortStrings
<1>10. QED BY <1>1, <1>7, <1>8, <1>9

LEMMA MagicIsExact ==
  ASSUME NEW blob \in Seq(Byte), Fits(blob), NEW W, NEW r, At(blob, r, W),
         NEW x \in Seq(Byte), Len(x) <= U32Max, ReadMagic(blob, r, x).ok
  PROVE  At(blob, ReadMagic(blob, r, x), W \o x)
<1> DEFINE view == ReadBytesView(blob, r, Len(x))
<1>1. ReadMagic(blob, r, x) = IF view.ok /\ view.got = x THEN view ELSE Stopped(view)
  BY DEF ReadMagic, Check
<1>2. view.ok /\ view.got = x
  <2>1. ReadMagic(blob, r, x).ok
    OBVIOUS
  <2> HIDE DEF view
  <2>2. QED BY <1>1, <2>1 DEF Stopped, Reader
<1>3. Len(x) \in Nat /\ Len(W) + Len(x) < SizeMax
  <2>1. Begins(W, blob)
    BY DEF At
  <2>2. QED BY <2>1, Room
<1>4. At(blob, view, W \o view.got)
  BY <1>2, <1>3, ViewIsExact
<1>5. QED BY <1>1, <1>2, <1>4

LEMMA ExtensionIsExact ==
  ASSUME NEW blob \in Seq(Byte), Fits(blob), NEW W, NEW r, At(blob, r, W), ReadExtension(blob, r).ok
  PROVE  LET x == ReadExtension(blob, r)
         IN  IsExtension(x.got) /\ At(blob, x, W \o ExtensionBytes(x.got))
<1> DEFINE tag == ReadU32LE(blob, r)
           payload == ReadLenPrefixedStr(blob, tag)
           x == ReadExtension(blob, r)
           V == W \o U32LE(tag.got)
           p == LenPrefixed(payload.got)
<1>1. x = IF payload.ok THEN [payload EXCEPT !.got = [tag |-> tag.got, payload |-> @]] ELSE payload
  BY DEF ReadExtension
<1>2. payload.ok
  <2>1. x.ok
    OBVIOUS
  <2> HIDE DEF payload, x
  <2>2. QED BY <1>1, <2>1
<1>3. tag.ok
  <2> HIDE DEF tag
  <2>1. QED BY <1>2, Sticky
<1>4. tag.got \in 0..(U32Max - 1) /\ At(blob, tag, V)
  BY <1>3, U32IsExact
<1>5. payload.got \in ShortStrings /\ At(blob, payload, V \o p)
  <2> HIDE DEF tag, V
  <2>1. QED BY <1>2, <1>4, StringIsExact
<1>6. IsReader(payload)
  <2> DEFINE len == ReadU32LE(blob, tag)
  <2>1. IsReader(len)
    BY Readers DEF ReadU32LE
  <2>2. payload = IF ~ len.ok THEN len ELSE ReadBytesView(blob, len, len.got)
    BY DEF ReadLenPrefixedStr, ReadCounted
  <2>3. IsReader(ReadBytesView(blob, len, len.got))
    BY Readers
  <2> HIDE DEF len, payload
  <2>4. QED BY <2>1, <2>2, <2>3
<1> HIDE DEF payload, tag, x
<1>7. x = Reader(payload.pos, payload.ok, [tag |-> tag.got, payload |-> payload.got])
  <2>1. payload = [pos |-> payload.pos, ok |-> payload.ok, got |-> payload.got]
    BY <1>6 DEF IsReader, Reader
  <2>2. QED BY <1>1, <1>2, <2>1 DEF Reader
<1>8. x.ok = payload.ok /\ x.pos = payload.pos /\ x.got = [tag |-> tag.got, payload |-> payload.got]
  BY <1>7 DEF Reader
<1>9. IsExtension(x.got) /\ x.got.tag = tag.got /\ x.got.payload = payload.got
  BY <1>4, <1>5, <1>8 DEF IsExtension
<1>10. V \o p = W \o ExtensionBytes(x.got)
  <2> DEFINE u == U32LE(tag.got)
  <2>1. u \in Seq(Byte) /\ p \in Seq(Byte) /\ W \in Seq(Byte)
    <3>1. tag.got \in Nat /\ payload.got \in Seq(Byte)
      BY <1>4, <1>5, Sizes DEF ShortStrings
    <3>2. QED BY <3>1, WrittenNumbers DEF At, Begins
  <2> HIDE DEF u, p
  <2>2. (W \o u) \o p = W \o (u \o p)
    BY <2>1, ConcatAssociative
  <2>3. ExtensionBytes(x.got) = u \o p
    BY <1>9 DEF ExtensionBytes, u, p
  <2>4. QED BY <2>2, <2>3 DEF u
<1>11. At(blob, x, W \o ExtensionBytes(x.got))
  BY <1>5, <1>8, <1>10 DEF At
<1>12. QED BY <1>9, <1>11 DEF x

Items(kind) == IF kind = "rets" THEN Byte ELSE [tag : 0..(U32Max - 1), payload : ShortStrings]

LEMMA ItemIsExact ==
  ASSUME NEW kind \in Kinds, NEW blob \in Seq(Byte), Fits(blob), NEW W, NEW r, At(blob, r, W),
         ReadItem(kind, blob, r).ok
  PROVE  LET x == ReadItem(kind, blob, r)
         IN  x.got \in Items(kind) /\ At(blob, x, W \o BytesOf(kind, x.got))
<1>1. CASE kind = "rets"
  <2>1. ReadItem(kind, blob, r) = ReadU8(blob, r)
    BY <1>1 DEF ReadItem
  <2>2. QED BY <1>1, <2>1, ByteIsExact DEF Items, BytesOf
<1>2. CASE kind # "rets"
  <2>1. ReadItem(kind, blob, r) = ReadExtension(blob, r)
    BY <1>2 DEF ReadItem
  <2>2. QED BY <1>2, <2>1, ExtensionIsExact DEF Items, BytesOf, IsExtension
<1>3. QED BY <1>1, <1>2

LEMMA JoinedFurther ==
  ASSUME NEW kind \in Kinds, NEW xs \in Seq(Items(kind)), NEW x \in Items(kind)
  PROVE  /\ Joined(kind, xs) \in Seq(Byte) /\ BytesOf(kind, x) \in Seq(Byte)
         /\ Joined(kind, Append(xs, x)) = Joined(kind, xs) \o BytesOf(kind, x)
<1> DEFINE X == Items(kind)
           ys == Append(xs, x)
           n == Len(xs)
<1>1. \A y \in X : IsItem(kind, y)
  BY DEF Items, IsItem, IsExtension
<1> HIDE DEF X
<1>2. xs \in Seq(X) /\ x \in X
  BY DEF X
<1>3. n \in Nat /\ ys \in Seq(X) /\ Len(ys) = n + 1 /\ ys[n + 1] = x /\ \A i \in 1..n : ys[i] = xs[i]
  BY <1>2
<1> HIDE DEF ys, n
<1>4. \A i \in 1..n : IsItem(kind, xs[i])
  BY <1>1, <1>2, ElementOfSeq DEF n
<1>5. \A i \in 1..(n + 1) : IsItem(kind, ys[i])
  BY <1>1, <1>3, ElementOfSeq
<1>6. PICK flat \in [0..n -> Seq(Byte)] :
        /\ flat[0] = << >>
        /\ \A i \in 1..n : flat[i] = flat[i - 1] \o BytesOf(kind, xs[i])
        /\ flat[n] = Joined(kind, xs)
  BY <1>2, <1>4, JoinedInARow DEF n
<1>7. PICK more \in [0..(n + 1) -> Seq(Byte)] :
        /\ more[0] = << >>
        /\ \A i \in 1..(n + 1) : more[i] = more[i - 1] \o BytesOf(kind, ys[i])
        /\ more[n + 1] = Joined(kind, ys)
  <2>1. \A i \in 1..Len(ys) : IsItem(kind, ys[i])
    BY <1>3, <1>5
  <2>2. QED BY <1>3, <2>1, JoinedInARow
<1>8. more[n] = flat[n]
  <2> DEFINE T == {k \in Nat : k <= n => more[k] = flat[k]}
  <2>1. 0 \in T
    BY <1>6, <1>7
  <2>2. ASSUME NEW k \in T PROVE k + 1 \in T
    <3>1. SUFFICES ASSUME k + 1 <= n PROVE more[k + 1] = flat[k + 1]
      OBVIOUS
    <3>2. k + 1 \in 1..n /\ k + 1 \in 1..(n + 1) /\ (k + 1) - 1 = k /\ k <= n
      BY <1>3, <3>1
    <3>3. more[k] = flat[k]
      BY <3>2
    <3>4. more[k + 1] = more[k] \o BytesOf(kind, ys[k + 1])
      BY <1>7, <3>2
    <3>5. flat[k + 1] = flat[k] \o BytesOf(kind, xs[k + 1])
      BY <1>6, <3>2
    <3>6. QED BY <1>3, <3>2, <3>3, <3>4, <3>5
  <2>3. T \in SUBSET Nat
    OBVIOUS
  <2> HIDE DEF T
  <2>4. n \in T
    BY <1>3, <2>1, <2>2, <2>3, Induction
  <2>5. QED BY <1>3, <2>4 DEF T
<1>9. more[n + 1] = more[n] \o BytesOf(kind, x)
  <2>1. n + 1 \in 1..(n + 1) /\ (n + 1) - 1 = n
    BY <1>3
  <2>2. QED BY <1>3, <1>7, <2>1
<1>10. Joined(kind, ys) = Joined(kind, xs) \o BytesOf(kind, x)
  BY <1>6, <1>7, <1>8, <1>9
<1>11. Joined(kind, xs) \in Seq(Byte)
  BY <1>3, <1>6
<1>12. BytesOf(kind, x) \in Seq(Byte)
  BY <1>1, <1>2, WrittenItem
<1>13. QED BY <1>10, <1>11, <1>12 DEF ys

LEMMA ListIsExact ==
  ASSUME NEW kind \in Kinds, NEW blob \in Seq(Byte), Fits(blob), NEW W, NEW r, At(blob, r, W), IsReader(r),
         NEW n \in Nat, ReadList(kind, blob, r, n).ok
  PROVE  LET list == ReadList(kind, blob, r, n)
         IN  /\ list.got \in Seq(Items(kind)) /\ Len(list.got) = n
             /\ Joined(kind, list.got) \in Seq(Byte)
             /\ At(blob, list, W \o Joined(kind, list.got))
<1> DEFINE Read(s, k) ==
             s.ok => /\ s.got \in Seq(Items(kind)) /\ Len(s.got) = k
                     /\ Joined(kind, s.got) \in Seq(Byte)
                     /\ At(blob, s, W \o Joined(kind, s.got))
<1>1. r.ok /\ W \in Seq(Byte)
  BY DEF At, Begins
<1>2. PICK after : InARow(after, kind, blob, r, n)
  BY ReadersInARow
<1>3. /\ after[0] = Reader(r.pos, r.ok, << >>)
      /\ \A i \in 1..n : after[i] = With(after[i - 1], ReadItem(kind, blob, after[i - 1]))
      /\ ReadList(kind, blob, r, n) = after[n]
  BY <1>1, <1>2 DEF InARow, IsReader, Reader
<1>4. Read(after[0], 0)
  <2>1. after[0].ok /\ after[0].pos = Len(W) /\ after[0].got = << >>
    BY <1>3 DEF Reader, At
  <2>2. Joined(kind, << >>) = << >>
    BY DEF Joined, FlattenSeq
  <2>3. W \o << >> = W
    BY <1>1, ConcatEmptySeq
  <2>4. At(blob, after[0], W)
    BY <2>1 DEF At
  <2>5. << >> \in Seq(Items(kind)) /\ Len(<< >>) = 0 /\ << >> \in Seq(Byte)
    OBVIOUS
  <2>6. QED BY <2>1, <2>2, <2>3, <2>4, <2>5
<1>5. ASSUME NEW i \in 1..n, Read(after[i - 1], i - 1) PROVE Read(after[i], i)
  <2> DEFINE s == after[i - 1]
             next == ReadItem(kind, blob, s)
             t == after[i]
  <2>1. SUFFICES ASSUME t.ok PROVE Read(t, i)
    OBVIOUS
  <2>2. t = IF next.ok THEN Reader(next.pos, TRUE, Append(s.got, next.got)) ELSE next
    BY <1>3 DEF With
  <2> HIDE DEF t
  <2>3. next.ok
    <3> HIDE DEF next
    <3>1. QED BY <2>1, <2>2
  <2>4. s.ok
    <3> HIDE DEF s
    <3>1. QED BY <2>3, Sticky DEF ReadItem, ReadU8
  <2>5. /\ s.got \in Seq(Items(kind)) /\ Len(s.got) = i - 1
        /\ Joined(kind, s.got) \in Seq(Byte)
        /\ At(blob, s, W \o Joined(kind, s.got))
    BY <1>5, <2>4
  <2> HIDE DEF s
  <2> DEFINE V == W \o Joined(kind, s.got)
  <2>6. next.got \in Items(kind) /\ At(blob, next, V \o BytesOf(kind, next.got))
    <3>1. At(blob, s, V)
      BY <2>5
    <3> HIDE DEF V
    <3>2. QED BY <2>3, <3>1, ItemIsExact
  <2> HIDE DEF next
  <2>7. t.ok = TRUE /\ t.pos = next.pos /\ t.got = Append(s.got, next.got)
    BY <2>2, <2>3 DEF Reader
  <2> DEFINE j == Joined(kind, s.got)
             b == BytesOf(kind, next.got)
             items == s.got
             item == next.got
  <2>8. j \in Seq(Byte) /\ b \in Seq(Byte) /\ Joined(kind, Append(items, item)) = j \o b
    <3>1. items \in Seq(Items(kind)) /\ item \in Items(kind)
      BY <2>5, <2>6
    <3> HIDE DEF items, item
    <3>2. /\ Joined(kind, items) \in Seq(Byte) /\ BytesOf(kind, item) \in Seq(Byte)
          /\ Joined(kind, Append(items, item)) = Joined(kind, items) \o BytesOf(kind, item)
      BY <3>1, JoinedFurther
    <3>3. QED BY <3>2 DEF items, item
  <2>9. t.got \in Seq(Items(kind)) /\ Len(t.got) = i
    <3>1. Append(items, item) \in Seq(Items(kind)) /\ Len(Append(items, item)) = (i - 1) + 1
      BY <2>5, <2>6
    <3>2. QED BY <2>7, <3>1
  <2>10. V \o b = W \o (j \o b)
    <3> HIDE DEF j, b
    <3>1. (W \o j) \o b = W \o (j \o b)
      BY <1>1, <2>8, ConcatAssociative
    <3>2. QED BY <3>1 DEF j
  <2>11. j \o b \in Seq(Byte)
    <3> HIDE DEF j, b
    <3>1. QED BY <2>8, ConcatProperties
  <2>12. At(blob, t, W \o Joined(kind, t.got))
    <3>1. At(blob, t, V \o b)
      BY <2>6, <2>7 DEF At
    <3>2. QED BY <2>7, <2>8, <2>10, <3>1
  <2>13. QED BY <2>7, <2>8, <2>9, <2>11, <2>12
<1> HIDE DEF Read
<1>6. Read(after[n], n)
  <2> DEFINE T == {k \in Nat : k <= n => Read(after[k], k)}
  <2>1. 0 \in T
    BY <1>4
  <2>2. ASSUME NEW k \in T PROVE k + 1 \in T
    <3>1. SUFFICES ASSUME k + 1 <= n PROVE Read(after[k + 1], k + 1)
      OBVIOUS
    <3>2. k + 1 \in 1..n /\ (k + 1) - 1 = k /\ k <= n
      BY <3>1
    <3>3. Read(after[k], k)
      BY <3>2
    <3>4. Read(after[(k + 1) - 1], (k + 1) - 1)
      BY <3>2, <3>3
    <3>5. QED BY <1>5, <3>2, <3>4
  <2>3. T \in SUBSET Nat
    OBVIOUS
  <2> HIDE DEF T
  <2>4. n \in T
    BY <2>1, <2>2, <2>3, Induction
  <2>5. QED BY <2>4 DEF T
<1>7. QED BY <1>3, <1>6 DEF Read

LEMMA HeaderIsExact ==
  ASSUME NEW blob \in Seq(Byte), Fits(blob), ReadHeader(blob).size.ok,
         NEW header,
         header.llvm = ReadHeader(blob).llvm, header.triple = ReadHeader(blob).triple,
         header.cpu = ReadHeader(blob).cpu, header.rets = ReadHeader(blob).rets,
         header.mode = NameOf(ModeByte, ReadHeader(blob).mode), header.fp = NameOf(FPByte, ReadHeader(blob).fp)
  PROVE  LET size == ReadHeader(blob).size
         IN  /\ header.llvm \in ShortStrings /\ header.triple \in ShortStrings /\ header.cpu \in ShortStrings
             /\ header.mode \in DOMAIN ModeByte /\ header.fp \in DOMAIN FPByte
             /\ header.rets \in ShortStrings /\ header.rets # << >>
             /\ header.mode = "single" => Len(header.rets) = 1
             /\ size.got \in Nat /\ size.got < SizeMax
             /\ At(blob, size, RetsText(header) \o U64LE(size.got))
<1> DEFINE magic == ReadMagic(blob, Reader(0, TRUE, << >>), HeaderMagic)
           version == Check(ReadU32LE(blob, magic), LAMBDA v : v = FormatVersion)
           llvm == ReadLenPrefixedStr(blob, version)
           triple == ReadLenPrefixedStr(blob, llvm)
           cpu == ReadLenPrefixedStr(blob, triple)
           mode == Check(ReadU8(blob, cpu), LAMBDA v : v \in Range(ModeByte))
           fp == Check(ReadU8(blob, mode), LAMBDA v : v \in Range(FPByte))
           count == Check(ReadU32LE(blob, fp),
                          LAMBDA v : v = 1 \/ (v > 1 /\ NameOf(ModeByte, mode.got) = "batch"))
           rets == ReadAll(blob, count, count.got, ReadU8)
           size == ReadU64LE(blob, rets)
           kind == "rets"
           list == ReadList(kind, blob, count, count.got)
           version_read == ReadU32LE(blob, magic)
           mode_read == ReadU8(blob, cpu)
           fp_read == ReadU8(blob, mode)
           count_read == ReadU32LE(blob, fp)
           passes == count_read.got = 1 \/ (count_read.got > 1 /\ NameOf(ModeByte, mode.got) = "batch")
<1>1. ReadHeader(blob) = [llvm |-> llvm.got, triple |-> triple.got, cpu |-> cpu.got, mode |-> mode.got,
                          fp |-> fp.got, rets |-> rets.got, size |-> size]
  BY DEF ReadHeader
<1>2. rets = list
  BY Zenon DEF ReadList
<1>3. /\ version = IF version_read.ok /\ version_read.got = FormatVersion THEN version_read
                   ELSE Stopped(version_read)
      /\ mode = IF mode_read.ok /\ mode_read.got \in Range(ModeByte) THEN mode_read ELSE Stopped(mode_read)
      /\ fp = IF fp_read.ok /\ fp_read.got \in Range(FPByte) THEN fp_read ELSE Stopped(fp_read)
      /\ count = IF count_read.ok /\ passes THEN count_read ELSE Stopped(count_read)
  BY DEF Check
<1>4. IsReader(count)
  <2>1. IsReader(count_read) /\ IsReader(Stopped(count_read))
    BY Readers DEF ReadU32LE
  <2> HIDE DEF count_read, count, passes
  <2>2. QED BY <1>3, <2>1
<1>5. kind \in Kinds
  BY DEF Kinds
<1> HIDE DEF magic, version, llvm, triple, cpu, mode, fp, count, rets, size, kind, list,
             version_read, mode_read, fp_read, count_read, passes
<1>6. size.ok /\ ReadHeader(blob).size = size
  BY <1>1
<1>7. list.ok /\ count.ok
  <2>1. list.ok
    BY <1>2, <1>6, Sticky DEF size, ReadU64LE
  <2>2. QED BY <1>4, <1>5, <2>1, ReadNothing DEF list
<1>8. count_read.ok /\ passes /\ count = count_read
  BY <1>3, <1>7 DEF Stopped, Reader
<1>9. fp_read.ok /\ fp_read.got \in Range(FPByte) /\ fp = fp_read
  <2>1. fp.ok
    BY <1>8, Sticky DEF count_read, ReadU32LE
  <2>2. QED BY <1>3, <2>1 DEF Stopped, Reader
<1>10. mode_read.ok /\ mode_read.got \in Range(ModeByte) /\ mode = mode_read
  <2>1. mode.ok
    BY <1>9, Sticky DEF fp_read, ReadU8
  <2>2. QED BY <1>3, <2>1 DEF Stopped, Reader
<1>11. cpu.ok /\ triple.ok /\ llvm.ok /\ version.ok
  <2>1. cpu.ok
    BY <1>10, Sticky DEF mode_read, ReadU8
  <2>2. triple.ok
    BY <2>1, Sticky DEF cpu
  <2>3. llvm.ok
    BY <2>2, Sticky DEF triple
  <2>4. version.ok
    BY <2>3, Sticky DEF llvm
  <2>5. QED BY <2>1, <2>2, <2>3, <2>4
<1>12. version_read.ok /\ version_read.got = FormatVersion /\ version = version_read /\ magic.ok
  <2>1. version_read.ok /\ version_read.got = FormatVersion /\ version = version_read
    BY <1>3, <1>11 DEF Stopped, Reader
  <2>2. QED BY <2>1, Sticky DEF version_read, ReadU32LE
<1>13. At(blob, magic, HeaderMagic)
  <2> DEFINE first == Reader(0, TRUE, << >>)
             empty == << >>
  <2>1. At(blob, first, empty)
    <3>1. first.ok = TRUE /\ first.pos = 0 /\ Len(empty) = 0 /\ empty \in Seq(Byte) /\ Len(blob) \in Nat
      BY DEF Reader
    <3> HIDE DEF first, empty
    <3>2. Begins(empty, blob)
      BY <3>1 DEF Begins
    <3>3. QED BY <3>1, <3>2 DEF At
  <2>2. HeaderMagic \in Seq(Byte) /\ Len(HeaderMagic) <= U32Max
    <3>1. Len(HeaderMagic) \in Nat /\ 2 * U32Bytes <= U32Max /\ Len(HeaderMagic) <= U32Bytes
          /\ U32Bytes \in Nat /\ U32Max \in Nat
      BY Sizes
    <3>2. QED BY <3>1, Sizes
  <2>3. empty \o HeaderMagic = HeaderMagic
    BY <2>2, ConcatEmptySeq
  <2> HIDE DEF first, empty
  <2>4. magic = ReadMagic(blob, first, HeaderMagic)
    BY DEF magic, first
  <2>5. At(blob, magic, empty \o HeaderMagic)
    BY <1>12, <2>1, <2>2, <2>4, MagicIsExact
  <2>6. QED BY <2>3, <2>5
<1>14. At(blob, version, VersionText)
  <2>1. At(blob, version_read, HeaderMagic \o U32LE(version_read.got))
    BY <1>12, <1>13, U32IsExact DEF version_read
  <2>2. QED BY <1>12, <2>1 DEF VersionText
<1>15. header.llvm = llvm.got /\ header.triple = triple.got /\ header.cpu = cpu.got
  BY <1>1
<1>16. llvm.got \in ShortStrings /\ At(blob, llvm, LlvmText(header))
  <2>1. llvm.got \in ShortStrings /\ At(blob, llvm, VersionText \o LenPrefixed(llvm.got))
    BY <1>11, <1>14, StringIsExact DEF llvm
  <2>2. QED BY <1>15, <2>1 DEF LlvmText
<1>17. triple.got \in ShortStrings /\ At(blob, triple, TripleText(header))
  <2>1. triple.got \in ShortStrings /\ At(blob, triple, LlvmText(header) \o LenPrefixed(triple.got))
    BY <1>11, <1>16, StringIsExact DEF triple
  <2>2. QED BY <1>15, <2>1 DEF TripleText
<1>18. cpu.got \in ShortStrings /\ At(blob, cpu, CpuText(header))
  <2>1. cpu.got \in ShortStrings /\ At(blob, cpu, TripleText(header) \o LenPrefixed(cpu.got))
    BY <1>11, <1>17, StringIsExact DEF cpu
  <2>2. QED BY <1>15, <2>1 DEF CpuText
<1>19. /\ header.mode = NameOf(ModeByte, mode.got) /\ header.mode \in DOMAIN ModeByte
       /\ ModeByte[header.mode] = mode.got /\ At(blob, mode, ModeText(header))
  <2>1. header.mode = NameOf(ModeByte, mode.got)
    BY <1>1
  <2>2. header.mode \in DOMAIN ModeByte /\ ModeByte[header.mode] = mode.got
    BY <1>10, <2>1, Names
  <2>3. At(blob, mode_read, CpuText(header) \o <<mode_read.got>>)
    BY <1>10, <1>18, ByteIsExact DEF mode_read
  <2>4. QED BY <1>10, <2>1, <2>2, <2>3 DEF ModeText
<1>20. header.fp \in DOMAIN FPByte /\ At(blob, fp, FPText(header))
  <2>1. header.fp = NameOf(FPByte, fp.got)
    BY <1>1
  <2>2. header.fp \in DOMAIN FPByte /\ FPByte[header.fp] = fp.got
    BY <1>9, <2>1, Names
  <2>3. At(blob, fp_read, ModeText(header) \o <<fp_read.got>>)
    BY <1>9, <1>19, ByteIsExact DEF fp_read
  <2>4. QED BY <1>9, <2>2, <2>3 DEF FPText
<1>21. count.got \in 0..(U32Max - 1) /\ At(blob, count, FPText(header) \o U32LE(count.got))
  BY <1>8, <1>20, U32IsExact DEF count_read
<1>22. count.got \in Nat /\ count.got < U32Max /\ count.got # 0 /\ (header.mode = "single" => count.got = 1)
  <2>1. count.got = 1 \/ (count.got > 1 /\ header.mode = "batch")
    BY <1>8, <1>19 DEF passes
  <2>2. count.got \in Nat /\ count.got < U32Max
    BY <1>21, Sizes
  <2>3. QED BY <2>1, <2>2
<1>23. /\ list.got \in Seq(Byte) /\ Len(list.got) = count.got
       /\ At(blob, list, (FPText(header) \o U32LE(count.got)) \o list.got)
  <2> DEFINE V == FPText(header) \o U32LE(count.got)
  <2>1. At(blob, count, V)
    BY <1>21
  <2> HIDE DEF V
  <2>2. /\ list.got \in Seq(Items(kind)) /\ Len(list.got) = count.got
        /\ At(blob, list, V \o Joined(kind, list.got))
    BY <1>4, <1>5, <1>7, <1>22, <2>1, ListIsExact DEF list
  <2>3. Items(kind) = Byte /\ Joined(kind, list.got) = list.got
    BY DEF kind, Items, Joined
  <2>4. QED BY <2>2, <2>3 DEF V
<1>24. header.rets = list.got
  BY <1>1, <1>2
<1>25. At(blob, list, RetsText(header))
  BY <1>23, <1>24 DEF RetsText, CountText
<1>26. header.rets \in ShortStrings /\ header.rets # << >> /\ (header.mode = "single" => Len(header.rets) = 1)
  <2>1. Len(<< >>) = 0
    OBVIOUS
  <2>2. header.rets # << >>
    BY <1>22, <1>23, <1>24, <2>1
  <2>3. header.rets \in Seq(Byte) /\ Len(header.rets) = count.got
    BY <1>23, <1>24
  <2>4. QED BY <1>22, <2>2, <2>3 DEF ShortStrings
<1>27. /\ size.got \in Nat /\ size.got < SizeMax
       /\ At(blob, size, RetsText(header) \o U64LE(size.got))
  <2> DEFINE n == 2 * U32Bytes
  <2>1. n \in Nat /\ n <= U32Max /\ Power[n] = SizeMax
    BY Sizes DEF SizeMax
  <2>2. Begins(RetsText(header), blob)
    BY <1>25 DEF At
  <2>3. size = ReadNumber(blob, list, n)
    BY <1>2 DEF size, ReadU64LE
  <2>4. U64LE(size.got) = LittleEndian(size.got, n)
    BY DEF U64LE
  <2> HIDE DEF n
  <2>5. Len(RetsText(header)) + n < SizeMax
    BY <2>1, <2>2, Room
  <2>6. size.got \in 0..(Power[n] - 1) /\ At(blob, size, RetsText(header) \o LittleEndian(size.got, n))
    BY <1>6, <1>25, <2>1, <2>3, <2>5, NumberIsExact
  <2>7. size.got \in Nat /\ size.got < SizeMax
    BY <2>1, <2>6, Sizes
  <2>8. QED BY <2>4, <2>6, <2>7
<1>28. QED BY <1>6, <1>15, <1>16, <1>17, <1>18, <1>19, <1>20, <1>26, <1>27

(* A blob that is accepted is what the writer would write of what was read: *)
(* no byte of it was skipped, read twice or read past its end.  The blob is *)
(* any that fits the memory whose object's size does not wrap.              *)
THEOREM ReaderIsExact ==
  ASSUME NEW blob \in Seq(Byte), Fits(blob), DeserializeArtifact(blob).ok,
         LET size == ReadHeader(blob).size IN size.ok => size.pos + size.got < SizeMax
  PROVE  LET read == DeserializeArtifact(blob)
         IN  /\ IsHeader(read.header) /\ read.object \in Seq(Byte)
             /\ SerializeArtifact(read.header, read.object) = blob
<1> DEFINE read == DeserializeArtifact(blob)
           start == ReadHeader(blob)
           size == start.size
           object == ReadCounted(blob, size)
           ext_count == ReadU32LE(blob, object)
           extensions == ReadAll(blob, ext_count, ext_count.got, ReadExtension)
           footer == ReadMagic(blob, extensions, FooterMagic)
           kind == "extensions"
           list == ReadList(kind, blob, ext_count, ext_count.got)
           header == [llvm |-> start.llvm, triple |-> start.triple, cpu |-> start.cpu,
                      mode |-> NameOf(ModeByte, start.mode), fp |-> NameOf(FPByte, start.fp),
                      rets |-> start.rets, extensions |-> extensions.got]
<1>1. read = IF ~ Finished(footer, blob) THEN [ok |-> FALSE]
             ELSE [ok |-> TRUE, object |-> object.got, header |-> header]
  BY DEF DeserializeArtifact, ReadRest
<1>2. extensions = list
  BY Zenon DEF ReadList
<1>3. kind \in Kinds
  BY DEF Kinds
<1>4. IsReader(ext_count)
  BY Readers DEF ReadU32LE
<1>5. /\ header.llvm = start.llvm /\ header.triple = start.triple /\ header.cpu = start.cpu
      /\ header.rets = start.rets /\ header.extensions = extensions.got
      /\ header.mode = NameOf(ModeByte, start.mode) /\ header.fp = NameOf(FPByte, start.fp)
  OBVIOUS
<1>6. header = [llvm |-> header.llvm, triple |-> header.triple, cpu |-> header.cpu, mode |-> header.mode,
                fp |-> header.fp, rets |-> header.rets, extensions |-> header.extensions]
  OBVIOUS
<1>7. size.ok => size.pos + size.got < SizeMax
  OBVIOUS
<1>8. read.ok
  OBVIOUS
<1> HIDE DEF header, read, start, object, ext_count, extensions, footer, kind, list
<1>9. /\ footer.ok /\ footer.pos = Len(blob)
      /\ read.object = object.got /\ read.header = header
  <2>1. Finished(footer, blob)
    BY <1>1, <1>8
  <2>2. QED BY <1>1, <2>1 DEF Finished
<1>10. list.ok /\ ext_count.ok /\ object.ok /\ size.ok
  <2>1. list.ok
    BY <1>2, <1>9, Sticky DEF footer
  <2>2. ext_count.ok
    BY <1>3, <1>4, <2>1, ReadNothing DEF list
  <2>3. object.ok
    BY <2>2, Sticky DEF ext_count, ReadU32LE
  <2>4. size.ok
    BY <2>3, Sticky DEF object
  <2>5. QED BY <2>1, <2>2, <2>3, <2>4
<1>11. /\ header.llvm \in ShortStrings /\ header.triple \in ShortStrings /\ header.cpu \in ShortStrings
       /\ header.mode \in DOMAIN ModeByte /\ header.fp \in DOMAIN FPByte
       /\ header.rets \in ShortStrings /\ header.rets # << >>
       /\ header.mode = "single" => Len(header.rets) = 1
       /\ size.got \in Nat /\ size.got < SizeMax
       /\ At(blob, size, RetsText(header) \o U64LE(size.got))
  BY <1>5, <1>10, HeaderIsExact DEF start
<1>12. object.got \in Seq(Byte) /\ At(blob, object, ObjectText(header, object.got))
  <2> DEFINE V == RetsText(header) \o U64LE(size.got)
  <2>1. At(blob, size, V)
    BY <1>11
  <2> HIDE DEF V
  <2>2. Len(V) + size.got < SizeMax
    BY <1>7, <1>10, <2>1 DEF At
  <2>3. object.got \in Seq(Byte) /\ Len(object.got) = size.got /\ At(blob, object, V \o object.got)
    BY <1>10, <1>11, <2>1, <2>2, CountedIsExact DEF object
  <2>4. QED BY <2>3 DEF ObjectText, SizeText, V
<1>13. ext_count.got \in Nat /\ ext_count.got < U32Max
       /\ At(blob, ext_count, ObjectText(header, object.got) \o U32LE(ext_count.got))
  <2>1. /\ ext_count.got \in 0..(U32Max - 1)
        /\ At(blob, ext_count, ObjectText(header, object.got) \o U32LE(ext_count.got))
    BY <1>10, <1>12, U32IsExact DEF ext_count
  <2>2. QED BY <2>1, Sizes
<1>14. /\ list.got \in Seq(Items(kind)) /\ Len(list.got) = ext_count.got
       /\ At(blob, list, ExtensionsText(header, object.got))
  <2> DEFINE V == ObjectText(header, object.got) \o U32LE(ext_count.got)
  <2>1. At(blob, ext_count, V)
    BY <1>13
  <2> HIDE DEF V
  <2>2. /\ list.got \in Seq(Items(kind)) /\ Len(list.got) = ext_count.got
        /\ At(blob, list, V \o Joined(kind, list.got))
    BY <1>3, <1>4, <1>10, <1>13, <2>1, ListIsExact DEF list
  <2>3. header.extensions = list.got
    BY <1>2, <1>5
  <2>4. QED BY <2>2, <2>3 DEF ExtensionsText, ExtCountText, V, kind
<1>15. At(blob, footer, WholeText(header, object.got))
  <2>1. FooterMagic \in Seq(Byte) /\ Len(FooterMagic) <= U32Max
    <3>1. Len(FooterMagic) \in Nat /\ 2 * U32Bytes <= U32Max /\ Len(FooterMagic) <= U32Bytes
          /\ U32Bytes \in Nat /\ U32Max \in Nat /\ FooterMagic \in Seq(Byte)
      BY Sizes
    <3>2. QED BY <3>1, Sizes
  <2>2. QED BY <1>2, <1>9, <1>14, <2>1, MagicIsExact DEF footer, WholeText
<1>16. WholeText(header, object.got) = blob
  BY <1>9, <1>15, BeginsWhole DEF At
<1>17. IsHeader(header)
  <2>1. Items(kind) = [tag : 0..(U32Max - 1), payload : ShortStrings]
    BY DEF Items, kind
  <2>2. header.extensions \in Seq([tag : 0..(U32Max - 1), payload : ShortStrings])
        /\ Len(header.extensions) < U32Max
    BY <1>2, <1>5, <1>13, <1>14, <2>1
  <2>3. header \in [llvm : ShortStrings, triple : ShortStrings, cpu : ShortStrings,
                    mode : DOMAIN ModeByte, fp : DOMAIN FPByte, rets : ShortStrings,
                    extensions : Seq([tag : 0..(U32Max - 1), payload : ShortStrings])]
    BY <1>6, <1>11, <2>2
  <2>4. QED BY <1>11, <2>2, <2>3 DEF IsHeader
<1>18. WholeText(header, object.got) = SerializeArtifact(header, object.got)
  BY <1>12, <1>17, Texts
<1>19. QED BY <1>9, <1>12, <1>16, <1>17, <1>18 DEF read

LEMMA NotEmpty ==
  ASSUME NEW header, IsHeader(header), NEW object \in Seq(Byte)
  PROVE  SerializeArtifact(header, object) \in Seq(Byte) /\ Len(SerializeArtifact(header, object)) > 0
<1> DEFINE whole == WholeText(header, object)
           ext_count == U32LE(Len(header.extensions))
           before == ObjectText(header, object)
           counted == ExtCountText(header, object)
           all == ExtensionsText(header, object)
           joined == Joined("extensions", header.extensions)
<1>1. whole = SerializeArtifact(header, object) /\ whole = all \o FooterMagic /\ all = counted \o joined
      /\ counted = before \o ext_count
  BY Texts, Zenon DEF WholeText, ExtensionsText, ExtCountText
<1>2. before \in Seq(Byte) /\ counted \in Seq(Byte) /\ all \in Seq(Byte) /\ whole \in Seq(Byte)
      /\ joined \in Seq(Byte) /\ FooterMagic \in Seq(Byte)
  BY Texts, Parts, Sizes
<1>3. ext_count \in Seq(Byte) /\ Len(ext_count) = U32Bytes
  <2>1. Len(header.extensions) \in 0..(U32Max - 1)
    BY Parts
  <2>2. Len(header.extensions) \in Nat
    BY <2>1, Sizes
  <2>3. QED BY <2>2, WrittenNumbers
<1> HIDE DEF whole, ext_count, before, counted, all, joined
<1>4. Len(counted) = Len(before) + Len(ext_count) /\ Len(all) = Len(counted) + Len(joined)
      /\ Len(whole) = Len(all) + Len(FooterMagic)
  BY <1>1, <1>2, <1>3, ConcatProperties
<1>5. QED BY <1>1, <1>2, <1>3, <1>4, Sizes

-----------------------------------------------------------------------------
(* The engine. *)

(* Every blob that reads as intact holds what an engine wrote. *)
SavedAreWritten == \A a \in saved : a.intact => IsWritten(a)

(* Nothing compiled, or the last compilation failed. *)
Empty == entry_func_ptr_ = Null /\ ret_type_ = "unknown"

(* The last Compile or LoadCompiled succeeded. *)
Installed ==
  /\ Holds(core)
  /\ Len(core.jit.obj.progs) = 1
  /\ entry_func_ptr_ = [jit |-> core.jit.id, entry |-> 1]
  /\ ret_type_ = core.jit.obj.progs[1].ret

(* LoadCompiled replaced the core and failed: the old pointer and type are  *)
(* still there, of a JIT that is gone.                                      *)
Stale ==
  /\ entry_func_ptr_.jit \in Nat \ {0, core.jit.id}
  /\ NoCode(core)
  /\ ret_type_ # "unknown"

(* The inductive invariant.  RunsWhatItReports says nothing of the artifacts *)
(* at large, which become the state of the engine when one is loaded, nor    *)
(* of what the core would have SaveCompiled write into them.                 *)
EngineInv == IsCore(core) /\ SavedAreWritten /\ (Empty \/ Installed \/ Stale)

-----------------------------------------------------------------------------
LEMMA NextJitIsNew ==
  /\ NextJit \in Nat \ {0}
  /\ NextJit # core.jit.id
  /\ NextJit # entry_func_ptr_.jit
<1> DEFINE used == {core.jit.id, entry_func_ptr_.jit}
<1>1. IsFiniteSet(used)
  <2>1. IsFiniteSet({core.jit.id})
    BY FS_Singleton
  <2>2. IsFiniteSet({core.jit.id} \cup {entry_func_ptr_.jit})
    BY <2>1, FS_AddElement
  <2>3. used = {core.jit.id} \cup {entry_func_ptr_.jit}
    OBVIOUS
  <2>4. QED BY <2>2, <2>3
<1>2. NextJit = FreshJit(used)
  BY DEF NextJit
<1>3. NextJit \in Nat \ {0} /\ NextJit \notin used
  BY <1>1, <1>2, FreshJitIsFresh
<1>4. QED BY <1>3

(* Compile leaves the one root installed, or nothing. *)
LEMMA CompileInstalls ==
  ASSUME EngineInv, NEW root \in Roots, NEW registry, NEW fault, Compile(root, registry, fault)
  PROVE  /\ IsCore(core') /\ UNCHANGED saved
         /\ \/ Empty'
            \/ /\ Installed'
               /\ core.jit.id' # 0
               /\ core.jit.obj' = CodeOf(<<root>>, core.fp')
<1> DEFINE nodes == <<root>>
<1>0. PICK r : r = BuildAndLink(core, nodes, registry, fault, NextJit)
  OBVIOUS
<1>1. /\ core' = r.core /\ UNCHANGED saved
      /\ entry_func_ptr_' = IF r.ok THEN r.ptrs[1] ELSE Null
      /\ ret_type_' = IF r.ok THEN r.rets[1] ELSE "unknown"
      /\ r.ok \in BOOLEAN
  BY <1>0 DEF Compile, BuildAndLink, Outcome
<1>2. IsCore(core) /\ NextJit \in Nat \ {0} /\ nodes \in Seq(Roots) /\ Len(nodes) = 1 /\ nodes[1] = root
  BY NextJitIsNew DEF EngineInv
<1> HIDE DEF nodes
<1>3. CASE r.ok
  <2>1. /\ IsCore(r.core) /\ Holds(r.core)
        /\ r.core.jit.id = NextJit /\ r.core.jit.obj = CodeOf(nodes, core.fp)
        /\ r.core.fp = core.fp
        /\ r.ptrs = EntryPointers(NextJit, Len(nodes))
        /\ r.rets = RetTypesOf(nodes)
    <3>1. r.ok = TRUE
      BY <1>1, <1>3
    <3>2. Built(r, core.fp, nodes, NextJit)
      BY <1>0, <1>2, <3>1, BuildSucceeds
    <3>3. QED BY <3>2 DEF Built
  <2>2. entry_func_ptr_' = [jit |-> NextJit, entry |-> 1]
    BY <1>1, <1>2, <1>3, <2>1 DEF EntryPointers
  <2>3. ret_type_' = root.ret
    BY <1>1, <1>2, <1>3, <2>1 DEF RetTypesOf
  <2>4. QED BY <1>1, <1>2, <2>1, <2>2, <2>3 DEF Installed, CodeOf, nodes
<1>4. CASE ~ r.ok
  <2>1. IsCore(r.core)
    BY <1>0, <1>2, <1>4, BuildFails
  <2>2. QED BY <1>1, <1>4, <2>1 DEF Empty
<1>5. QED BY <1>3, <1>4

(* LoadCompiled leaves the artifact's program installed, or no code: then   *)
(* an entry the engine had before dangles.                                  *)
LEMMA LoadInstalls ==
  ASSUME EngineInv, NEW a \in saved, NEW registry, NEW fault, LoadCompiled(a, registry, fault)
  PROVE  /\ IsCore(core') /\ core.fp' = a.fp /\ UNCHANGED saved
         /\ IsWritten(a)
         /\ \/ Empty'
            \/ Stale'
            \/ Installed' /\ core.jit.obj' = a.obj
<1>0. PICK r : r = LoadObject(NewCore(a.fp, core.save), a.obj, 1, registry, fault, NextJit)
  OBVIOUS
<1>1. /\ core' = r.core /\ UNCHANGED saved
      /\ entry_func_ptr_' = IF r.ok THEN r.ptrs[1] ELSE entry_func_ptr_
      /\ ret_type_' = IF r.ok THEN a.rets[1] ELSE ret_type_
      /\ a.intact /\ a.mode = "single"
  BY <1>0 DEF LoadCompiled, Accepts
<1>2. /\ a.obj.progs \in Seq(Roots) /\ Len(a.obj.progs) = 1
      /\ a.rets = RetTypesOf(a.obj.progs) /\ \A i \in DOMAIN a.rets : a.rets[i] # "unknown"
      /\ a.fp = a.obj.fp
      /\ IsWritten(a)
  BY <1>1 DEF EngineInv, SavedAreWritten, IsWritten
<1>3. IsProgram(a.obj.progs) /\ a.rets[1] = a.obj.progs[1].ret
  <2>1. DOMAIN a.rets = DOMAIN a.obj.progs
        /\ \A i \in DOMAIN a.obj.progs : a.rets[i] = a.obj.progs[i].ret
    BY <1>2, Zenon DEF RetTypesOf
  <2>2. 1 \in DOMAIN a.obj.progs /\ a.obj.progs # << >>
    BY <1>2
  <2>3. QED BY <1>2, <2>1, <2>2 DEF IsProgram
<1>4. IsCore(NewCore(a.fp, core.save)) /\ NewCore(a.fp, core.save).fp = a.fp
  BY DEF IsCore, NewCore, NoJit
<1>5. NextJit \in Nat \ {0} /\ NextJit # entry_func_ptr_.jit
  BY NextJitIsNew
<1>6. /\ r.ok \in BOOLEAN
      /\ IsCore(r.core) /\ r.core.fp = a.fp /\ r.core.bytes = NoObject
      /\ r.ok => r.core.jit = [id |-> NextJit, obj |-> a.obj] /\ r.ptrs = EntryPointers(NextJit, 1)
      /\ ~ r.ok => NoCode(r.core) /\ r.core.jit.id \in {0, NextJit}
  BY <1>0, <1>4, <1>5, LoadLeaves
<1>7. CASE r.ok
  <2>1. entry_func_ptr_' = [jit |-> NextJit, entry |-> 1]
    BY <1>1, <1>6, <1>7 DEF EntryPointers
  <2>2. Holds(core')
    BY <1>1, <1>2, <1>3, <1>5, <1>6, <1>7 DEF Holds
  <2>3. QED BY <1>1, <1>2, <1>3, <1>6, <1>7, <2>1, <2>2 DEF Installed
<1>8. CASE ~ r.ok
  <2>1. UNCHANGED <<entry_func_ptr_, ret_type_>> /\ NoCode(core') /\ core'.jit.id \in {0, NextJit}
    BY <1>1, <1>6, <1>8
  <2>2. CASE Empty
    BY <1>1, <1>2, <1>6, <2>1, <2>2 DEF Empty
  <2>3. CASE Installed \/ Stale
    <3>1. entry_func_ptr_.jit \in Nat \ {0} /\ ret_type_ # "unknown"
      BY <2>3 DEF Installed, Stale, Holds, IsProgram, EngineInv, IsCore
    <3>2. Stale'
      BY <1>5, <2>1, <3>1 DEF Stale
    <3>3. QED BY <1>1, <1>2, <1>6, <3>2
  <2>4. QED BY <2>2, <2>3 DEF EngineInv
<1>9. QED BY <1>6, <1>7, <1>8

(* SaveCompiled is refused but where a program is installed whose bytes     *)
(* were kept, and writes those.                                             *)
LEMMA SaveWrites ==
  ASSUME EngineInv, SaveCompiled
  PROVE  /\ Installed
         /\ core.bytes = core.jit.obj /\ core.jit.obj.differs = {} /\ core.jit.obj.fp = core.fp
         /\ IsWritten(Serialized(core, "single", <<ret_type_>>))
<1>1. Installed /\ core.bytes # NoObject
  BY DEF SaveCompiled, EngineInv, Empty, Stale, NoCode
<1>2. /\ core.bytes = core.jit.obj /\ core.jit.obj.differs = {} /\ core.jit.obj.fp = core.fp
      /\ core.bytes.progs \in Seq(Roots) /\ Len(core.bytes.progs) = 1
      /\ core.bytes.progs[1].ret # "unknown"
      /\ ret_type_ = core.bytes.progs[1].ret
  BY <1>1 DEF Installed, Holds, IsProgram
<1> DEFINE a == Serialized(core, "single", <<ret_type_>>)
<1>3. a.mode = "single" /\ a.fp = core.fp /\ a.rets = <<ret_type_>> /\ a.obj = core.bytes /\ a.differs = {}
  BY DEF Serialized
<1>4. <<ret_type_>> = RetTypesOf(core.bytes.progs)
  BY <1>2 DEF RetTypesOf
<1> HIDE DEF a
<1>5. IsWritten(a)
  BY <1>2, <1>3, <1>4 DEF IsWritten
<1>6. QED BY <1>1, <1>2, <1>5 DEF a

LEMMA EngineInvariant == Spec => []EngineInv
<1>1. Init => EngineInv
  BY JitCoreAssumption DEF Init, EngineInv, IsCore, NewCore, NoJit, SavedAreWritten, Empty
<1>2. EngineInv /\ [Next]_vars => EngineInv'
  <2> SUFFICES ASSUME EngineInv, [Next]_vars PROVE EngineInv'
    OBVIOUS
  <2>1. ASSUME NEW root \in Roots, NEW registry \in Registries, NEW fault \in Faults,
               Compile(root, registry, fault)
        PROVE  EngineInv'
    <3>1. IsCore(core') /\ UNCHANGED saved /\ (Empty' \/ Installed')
      BY <2>1, CompileInstalls
    <3>2. QED BY <3>1 DEF EngineInv, SavedAreWritten
  <2>2. CASE SaveCompiled
    <3>1. IsWritten(Serialized(core, "single", <<ret_type_>>))
      BY <2>2, SaveWrites
    <3>2. SavedAreWritten'
      BY <2>2, <3>1 DEF SaveCompiled, EngineInv, SavedAreWritten
    <3>3. QED BY <2>2, <3>2 DEF SaveCompiled, EngineInv, Empty, Installed, Stale
  <2>3. ASSUME NEW a \in saved, NEW registry \in Registries, NEW fault \in Faults,
               LoadCompiled(a, registry, fault)
        PROVE  EngineInv'
    <3>1. IsCore(core') /\ UNCHANGED saved /\ (Empty' \/ Stale' \/ Installed')
      BY <2>3, LoadInstalls
    <3>2. QED BY <3>1 DEF EngineInv, SavedAreWritten
  <2>4. CASE UNCHANGED vars
    BY <2>4 DEF vars, EngineInv, SavedAreWritten, Empty, Installed, Stale
  <2>5. QED BY <2>1, <2>2, <2>3, <2>4 DEF Next
<1>3. QED BY <1>1, <1>2, PTL DEF Spec

(* A callable entry is code of the type Execute dispatches on, generated    *)
(* under the FP mode of the JIT it sits in; Execute reports "not compiled"  *)
(* exactly where SaveCompiled does; and an entry left over from a core that *)
(* was replaced is left where no code and no bytes are: after any sequence  *)
(* of Compile, SaveCompiled and LoadCompiled, failing wherever they may.    *)
THEOREM EngineRunsWhatItReports == Spec => []RunsWhatItReports
<1>1. EngineInv => RunsWhatItReports
  <2> SUFFICES ASSUME EngineInv PROVE RunsWhatItReports
    OBVIOUS
  <2>1. CASE Empty
    BY <2>1 DEF Empty, RunsWhatItReports, Runnable, Callable, ExecuteOutcome
  <2>2. CASE Installed
    <3>1. core.jit.id # 0 /\ core.jit.obj.fp = core.fp /\ ret_type_ # "unknown"
      BY <2>2 DEF Installed, Holds, IsProgram
    <3>2. entry_func_ptr_ # Null /\ Runnable
      BY <2>2, <3>1 DEF Installed, Null, Runnable, Callable
    <3>3. CodeAt(core, entry_func_ptr_).ret = ret_type_
      BY <2>2 DEF Installed, CodeAt
    <3>4. QED BY <3>1, <3>2, <3>3 DEF RunsWhatItReports, ExecuteOutcome
  <2>3. CASE Stale
    BY <2>3 DEF Stale, NoCode, Null, RunsWhatItReports, Runnable, Callable, ExecuteOutcome
  <2>4. QED BY <2>1, <2>2, <2>3 DEF EngineInv
<1>2. QED BY <1>1, EngineInvariant, PTL

-----------------------------------------------------------------------------
(* The refinement.  What a caller can run is the program installed, or      *)
(* nothing: an entry that dangles shows nothing.                            *)
ContentOf(obj) == [progs |-> obj.progs, rets |-> RetTypesOf(obj.progs), fp |-> obj.fp, differs |-> obj.differs]

LEMMA OneProgram ==
  ASSUME NEW progs \in Seq(Roots), Len(progs) = 1
  PROVE  progs = <<progs[1]>> /\ RetTypesOf(progs) = <<progs[1].ret>>
BY DEF RetTypesOf

LEMMA InstalledIsShown == Installed => Shown = ContentOf(core.jit.obj)
<1> SUFFICES ASSUME Installed PROVE Shown = ContentOf(core.jit.obj)
  OBVIOUS
<1>1. /\ core.jit.id # 0 /\ entry_func_ptr_ = [jit |-> core.jit.id, entry |-> 1]
      /\ core.jit.obj.progs \in Seq(Roots) /\ Len(core.jit.obj.progs) = 1
      /\ ret_type_ = core.jit.obj.progs[1].ret
  BY DEF Installed, Holds, IsProgram
<1>2. Runnable /\ CodeAt(core, entry_func_ptr_) = core.jit.obj.progs[1]
  BY <1>1 DEF Runnable, Callable, CodeAt, Null
<1>3. <<CodeAt(core, entry_func_ptr_)>> = core.jit.obj.progs /\ <<ret_type_>> = RetTypesOf(core.jit.obj.progs)
  BY <1>1, <1>2, OneProgram
<1>4. QED BY <1>2, <1>3 DEF Shown, ContentOf

LEMMA NothingIsShown == Empty \/ Stale => Shown = Entries!Nothing
<1>1. Empty \/ Stale => ~ Runnable
  BY DEF Empty, Stale, Runnable, Callable
<1>2. QED BY <1>1 DEF Shown, Entries!Nothing

LEMMA NextIsShown ==
  /\ Installed' => Shown' = ContentOf(core.jit.obj')
  /\ Empty' \/ Stale' => Shown' = Entries!Nothing
<1>1. (Installed => Shown = ContentOf(core.jit.obj))'
  BY InstalledIsShown, PTL
<1>2. (Empty \/ Stale => Shown = Entries!Nothing)'
  BY NothingIsShown, PTL
<1>3. QED BY <1>1, <1>2 DEF Entries!Nothing

LEMMA CompileRefines ==
  ASSUME EngineInv, NEW root \in Roots, NEW registry, NEW fault, Compile(root, registry, fault)
  PROVE  Entries!Compile \/ Entries!Drop
<1>1. /\ UNCHANGED saved
      /\ \/ Empty'
         \/ Installed' /\ core.jit.obj' = CodeOf(<<root>>, core.fp')
  BY CompileInstalls
<1>2. CASE Empty'
  BY <1>1, <1>2, NextIsShown DEF Entries!Drop
<1>3. CASE Installed' /\ core.jit.obj' = CodeOf(<<root>>, core.fp')
  <2>1. Shown' = ContentOf(CodeOf(<<root>>, core.fp'))
    BY <1>3, NextIsShown
  <2>2. QED BY <1>1, <2>1 DEF ContentOf, CodeOf, RetTypesOf, Entries!Compile, Entries!Nothing
<1>4. QED BY <1>1, <1>2, <1>3

(* A LoadCompiled that fails to link drops what the caller had. *)
LEMMA LoadRefines ==
  ASSUME EngineInv, NEW a \in saved, NEW registry, NEW fault, LoadCompiled(a, registry, fault)
  PROVE  Entries!Load \/ Entries!Drop
<1>1. /\ UNCHANGED saved /\ IsWritten(a)
      /\ Empty' \/ Stale' \/ (Installed' /\ core.jit.obj' = a.obj)
  BY LoadInstalls
<1>2. a.intact /\ a.mode = "single" /\ a.differs \subseteq Tolerated
  BY DEF LoadCompiled, Accepts
<1>3. CASE Empty' \/ Stale'
  BY <1>1, <1>3, NextIsShown DEF Entries!Drop
<1>4. CASE Installed' /\ core.jit.obj' = a.obj
  <2>1. Shown' = ContentOf(a.obj)
    BY <1>4, NextIsShown
  <2>2. ContentOf(a.obj) = Entries!ContentOf(a)
    BY <1>1 DEF IsWritten, ContentOf, Entries!ContentOf
  <2>3. Entries!Loadable(a)
    BY <1>1, <1>2 DEF IsWritten, Entries!Loadable
  <2>4. QED BY <1>1, <2>1, <2>2, <2>3 DEF Entries!Load
<1>5. QED BY <1>1, <1>3, <1>4

LEMMA SaveRefines ==
  ASSUME EngineInv, SaveCompiled
  PROVE  Entries!Save
<1> DEFINE a == Serialized(core, "single", <<ret_type_>>)
<1>1. /\ Installed
      /\ core.bytes = core.jit.obj /\ core.jit.obj.differs = {} /\ core.jit.obj.fp = core.fp
      /\ IsWritten(a)
  BY SaveWrites
<1>2. a.mode = "single" /\ a.intact = TRUE /\ a.fp = core.fp /\ a.rets = <<ret_type_>> /\ a.obj = core.bytes
  BY DEF Serialized
<1>3. saved' = saved \cup {a} /\ UNCHANGED <<core, entry_func_ptr_, ret_type_>>
  BY DEF SaveCompiled
<1> HIDE DEF a
<1>4. Shown = ContentOf(core.jit.obj) /\ UNCHANGED Shown
  BY <1>1, <1>3, InstalledIsShown DEF Shown, Runnable
<1>5. Shown = Entries!ContentOf(a)
  BY <1>1, <1>2, <1>4 DEF IsWritten, ContentOf, Entries!ContentOf
<1>6. Shown # Entries!Nothing
  BY <1>1, <1>4 DEF Installed, Holds, IsProgram, ContentOf, Entries!Nothing
<1>7. a.fp = Shown.fp /\ Entries!Loadable(a)
  BY <1>1, <1>2, <1>4 DEF ContentOf, Entries!Loadable
<1>8. QED BY <1>3, <1>4, <1>5, <1>6, <1>7 DEF Entries!Save

(* A caller only ever runs what its last successful Compile or LoadCompiled *)
(* installed, loads no blob its options reject, and saves the very program  *)
(* it would run: ExecEngine implements CompiledEntries.  A failed call      *)
(* leaves the old program whole or nothing.                                 *)
THEOREM EngineImplementsEntries == Spec => ImplementsEntries
<1>1. Init => Entries!Init
  <2> SUFFICES ASSUME Init PROVE Shown = Entries!Nothing
    BY DEF Entries!Init
  <2>1. Empty
    BY DEF Init, Empty
  <2>2. QED BY <2>1, NothingIsShown
<1>2. ASSUME EngineInv, [Next]_vars PROVE [Entries!Next]_<<Shown, saved>>
  <2>1. ASSUME NEW root \in Roots, NEW registry \in Registries, NEW fault \in Faults,
               Compile(root, registry, fault)
        PROVE  Entries!Next
    BY <1>2, <2>1, CompileRefines DEF Entries!Next
  <2>2. CASE SaveCompiled
    BY <1>2, <2>2, SaveRefines DEF Entries!Next
  <2>3. ASSUME NEW a \in saved, NEW registry \in Registries, NEW fault \in Faults,
               LoadCompiled(a, registry, fault)
        PROVE  Entries!Next
    BY <1>2, <2>3, LoadRefines DEF Entries!Next
  <2>4. CASE UNCHANGED vars
    BY <2>4 DEF vars, Shown, Runnable
  <2>5. QED BY <1>2, <2>1, <2>2, <2>3, <2>4 DEF Next
<1>3. QED BY EngineInvariant, <1>1, <1>2, PTL DEF Spec, ImplementsEntries, Entries!Spec

-----------------------------------------------------------------------------
(* The blobs.  Whatever was compiled, an artifact at large has a header the *)
(* writer takes, and a blob that fits: it has the header of one in Foreign  *)
(* or Own.                                                                  *)
IsWritable(a) ==
  \A extensions \in ExtensionLists :
    IsHeader(HeaderOf(a, extensions)) /\ Fits(Written(a, extensions))

BlobInv ==
  /\ core.fp \in FPModes /\ ret_type_ \in ValueTypes
  /\ \A a \in saved : a.differs \subseteq HostFields /\ IsWritable(a)

(* HeaderOf reads these fields alone.                                       *)
LEMMA HeaderFields ==
  ASSUME NEW a, NEW extensions
  PROVE  LET header == HeaderOf(a, extensions)
         IN  /\ header.mode = a.mode /\ header.fp = a.fp
             /\ \A f \in HostFields : header[f] = IF f \in a.differs THEN Other ELSE Host[f]
BY DEF HeaderOf, HostFields

LEMMA SameHeader ==
  ASSUME NEW a, NEW b, a.differs = b.differs, a.mode = b.mode, a.fp = b.fp, a.rets = b.rets, NEW extensions
  PROVE  HeaderOf(a, extensions) = HeaderOf(b, extensions)
BY DEF HeaderOf

LEMMA OwnIsWritable ==
  ASSUME core.fp \in FPModes, ret_type_ \in ValueTypes
  PROVE  LET a == Serialized(core, "single", <<ret_type_>>)
         IN  /\ a.differs = {} /\ IsWritable(a)
             /\ \E own \in Own : \A extensions \in ExtensionLists :
                  HeaderOf(a, extensions) = HeaderOf(own, extensions)
<1> DEFINE a == Serialized(core, "single", <<ret_type_>>)
           own == Serialized([fp |-> core.fp, bytes |-> NoObject], "single", <<ret_type_>>)
<1>1. own \in Own
  BY DEF Own
<1>2. /\ a.differs = {} /\ own.differs = {} /\ a.mode = "single" /\ own.mode = "single"
      /\ a.fp = core.fp /\ own.fp = core.fp /\ a.rets = <<ret_type_>> /\ own.rets = <<ret_type_>>
  BY DEF Serialized
<1> HIDE DEF a, own
<1>3. \A extensions : HeaderOf(a, extensions) = HeaderOf(own, extensions)
  BY <1>2, SameHeader
<1>4. \A extensions \in ExtensionLists :
        IsHeader(HeaderOf(own, extensions)) /\ Fits(Written(own, extensions))
  BY <1>1, BlobsAssumption
<1>5. IsWritable(a)
  BY <1>3, <1>4 DEF IsWritable, Written
<1>6. QED BY <1>1, <1>2, <1>3, <1>5 DEF a

LEMMA BlobInvariant == Spec => []BlobInv
<1>1. Init => BlobInv
  <2> SUFFICES ASSUME Init PROVE BlobInv
    OBVIOUS
  <2>1. core.fp \in FPModes /\ ret_type_ \in ValueTypes
    BY DEF Init, NewCore, ValueTypes
  <2>2. ASSUME NEW a \in saved PROVE a.differs \subseteq HostFields /\ IsWritable(a)
    <3>1. a \in Foreign
      BY DEF Init
    <3>2. QED BY <3>1, BlobsAssumption DEF IsWritable
  <2>3. QED BY <2>1, <2>2 DEF BlobInv
<1>2. EngineInv /\ BlobInv /\ [Next]_vars => BlobInv'
  <2> SUFFICES ASSUME EngineInv, BlobInv, [Next]_vars PROVE BlobInv'
    OBVIOUS
  <2>1. ASSUME NEW root \in Roots, NEW registry \in Registries, NEW fault \in Faults,
               Compile(root, registry, fault)
        PROVE  BlobInv'
    <3>1. IsCore(core) /\ NextJit \in Nat \ {0}
      BY NextJitIsNew DEF EngineInv
    <3>2. core'.fp = core.fp
      <4> DEFINE nodes == <<root>>
      <4>1. PICK r : r = BuildAndLink(core, nodes, registry, fault, NextJit)
        OBVIOUS
      <4>2. core' = r.core /\ nodes \in Seq(Roots)
        BY <2>1, <4>1 DEF Compile
      <4>3. r.ok \in BOOLEAN
        BY <4>1 DEF BuildAndLink, Outcome
      <4> HIDE DEF nodes
      <4>4. CASE r.ok
        <5>1. Built(r, core.fp, nodes, NextJit)
          BY <3>1, <4>1, <4>2, <4>3, <4>4, BuildSucceeds
        <5>2. QED BY <4>2, <5>1 DEF Built
      <4>5. CASE ~ r.ok
        BY <3>1, <4>1, <4>2, <4>5, BuildFails
      <4>6. QED BY <4>4, <4>5
    <3>3. ret_type_' \in ValueTypes
      <4>1. Empty' \/ Installed'
        BY <2>1, CompileInstalls
      <4>2. ASSUME Installed' PROVE ret_type_' \in ValueTypes
        <5>1. ret_type_' = core'.jit.obj.progs[1].ret /\ core'.jit.obj.progs \in Seq(Roots)
              /\ Len(core'.jit.obj.progs) = 1
          BY <4>2 DEF Installed, Holds, IsProgram
        <5>2. core'.jit.obj.progs[1] \in Roots
          BY <5>1, ElementOfSeq
        <5>3. QED BY <5>1, <5>2 DEF ValueTypes
      <4>3. QED BY <4>1, <4>2 DEF Empty, ValueTypes
    <3>4. QED BY <2>1, <3>2, <3>3 DEF Compile, BlobInv, IsWritable
  <2>2. CASE SaveCompiled
    <3> DEFINE new == Serialized(core, "single", <<ret_type_>>)
    <3>1. new.differs = {} /\ IsWritable(new)
      BY OwnIsWritable DEF BlobInv
    <3>2. saved' = saved \cup {new} /\ UNCHANGED <<core, ret_type_>>
      BY <2>2 DEF SaveCompiled
    <3> HIDE DEF new
    <3>3. QED BY <3>1, <3>2 DEF BlobInv, IsWritable
  <2>3. ASSUME NEW a \in saved, NEW registry \in Registries, NEW fault \in Faults,
               LoadCompiled(a, registry, fault)
        PROVE  BlobInv'
    <3>1. PICK r : r = LoadObject(NewCore(a.fp, core.save), a.obj, 1, registry, fault, NextJit)
      OBVIOUS
    <3>2. /\ core' = r.core /\ UNCHANGED saved
          /\ ret_type_' = IF r.ok THEN a.rets[1] ELSE ret_type_
          /\ a.intact /\ a.mode = "single"
      BY <2>3, <3>1 DEF LoadCompiled, Accepts
    <3>3. core'.fp = a.fp
      BY <2>3, LoadInstalls
    <3>4. a.fp \in FPModes
      <4>1. IsHeader(HeaderOf(a, << >>))
        BY BlobsAssumption DEF BlobInv, IsWritable
      <4>2. HeaderOf(a, << >>).fp \in DOMAIN FPByte
        BY <4>1, Parts
      <4>3. QED BY <4>2, HeaderFields DEF FPByte, FPModes
    <3>5. a.rets[1] \in ValueTypes
      <4>1. IsWritten(a)
        BY <3>2 DEF EngineInv, SavedAreWritten
      <4>2. a.obj.progs \in Seq(Roots) /\ Len(a.obj.progs) = 1 /\ a.rets = RetTypesOf(a.obj.progs)
        BY <3>2, <4>1 DEF IsWritten
      <4>3. a.obj.progs[1] \in Roots /\ a.rets[1] = a.obj.progs[1].ret
        BY <4>2, ElementOfSeq DEF RetTypesOf
      <4>4. QED BY <4>3 DEF ValueTypes
    <3>6. QED BY <3>2, <3>3, <3>4, <3>5 DEF BlobInv, IsWritable
  <2>4. CASE UNCHANGED vars
    BY <2>4 DEF vars, BlobInv, IsWritable
  <2>5. QED BY <2>1, <2>2, <2>3, <2>4 DEF Next
<1>3. QED BY <1>1, <1>2, EngineInvariant, PTL DEF Spec

(* A header the writer takes is read back as it was written.                *)
LEMMA WrittenIsRead ==
  ASSUME NEW header, IsHeader(header), Fits(SerializeArtifact(header, ObjectBytes))
  PROVE  LET F == SerializeArtifact(header, ObjectBytes)
         IN  /\ F \in Seq(Byte) /\ Len(F) > 0 /\ Len(F) < SizeMax
             /\ DeserializeArtifact(F) = [ok |-> TRUE, object |-> ObjectBytes, header |-> header]
<1> DEFINE F == SerializeArtifact(header, ObjectBytes)
<1>1. ObjectBytes \in Seq(Byte)
  BY BlobsAssumption
<1>2. F \in Seq(Byte) /\ Len(F) > 0
  BY <1>1, NotEmpty
<1>3. Len(F) < SizeMax
  <2>1. Len(F) + U32Max < SizeMax
    BY DEF Fits
  <2> HIDE DEF F
  <2>2. QED BY <1>2, <2>1, Sizes
<1>4. DeserializeArtifact(F) = [ok |-> TRUE, object |-> ObjectBytes, header |-> header]
  <2>1. PICK blob \in Seq(Byte) : blob = F
    BY <1>2
  <2>2. \A i \in 1..Len(blob) : i <= Len(F) => blob[i] = F[i]
    BY <2>1
  <2>3. DeserializeArtifact(blob) = [ok |-> TRUE, object |-> ObjectBytes, header |-> header]
    BY <1>1, <1>3, <2>1, <2>2, ReaderReturnsWhatWasWritten
  <2>4. QED BY <2>1, <2>3
<1>5. QED BY <1>2, <1>3, <1>4

(* Cut or continued, it is refused.                                         *)
LEMMA AgreeingIsRefused ==
  ASSUME NEW header, IsHeader(header), Fits(SerializeArtifact(header, ObjectBytes)),
         NEW blob \in Seq(Byte), blob # SerializeArtifact(header, ObjectBytes),
         \A i \in 1..Len(blob) : i <= Len(SerializeArtifact(header, ObjectBytes)) =>
                                   blob[i] = SerializeArtifact(header, ObjectBytes)[i]
  PROVE  ~ DeserializeArtifact(blob).ok
<1>1. ObjectBytes \in Seq(Byte) /\ Len(SerializeArtifact(header, ObjectBytes)) < SizeMax
  BY BlobsAssumption, WrittenIsRead
<1>2. QED BY <1>1, ReaderReturnsWhatWasWritten

LEMMA CutIsRefused ==
  ASSUME NEW header, IsHeader(header), Fits(SerializeArtifact(header, ObjectBytes)),
         NEW n \in Nat, n < Len(SerializeArtifact(header, ObjectBytes))
  PROVE  ~ DeserializeArtifact(SubSeq(SerializeArtifact(header, ObjectBytes), 1, n)).ok
<1> DEFINE F == SerializeArtifact(header, ObjectBytes)
           blob == SubSeq(F, 1, n)
<1>1. F \in Seq(Byte)
  BY WrittenIsRead
<1>2. blob \in Seq(Byte) /\ Len(blob) = n /\ \A i \in 1..n : blob[i] = F[i]
  <2> HIDE DEF F
  <2>1. n \in 0..Len(F)
    BY <1>1 DEF F
  <2>2. QED BY <1>1, <2>1
<1> HIDE DEF blob
<1>3. blob # F
  BY <1>2
<1>4. QED BY <1>2, <1>3, AgreeingIsRefused DEF blob

(* What the engine accepts is what reads back and fits the host.            *)
LEMMA AcceptedIsRead ==
  ASSUME NEW a, a.differs \subseteq HostFields, IsWritable(a), NEW mode
  PROVE  Accepts(a, mode) <=> Loads(BlobOf(a, << >>), mode)
<1> DEFINE header == HeaderOf(a, << >>)
           F == Written(a, << >>)
<1>1. IsHeader(header) /\ Fits(F) /\ F = SerializeArtifact(header, ObjectBytes)
  BY BlobsAssumption DEF IsWritable, Written
<1>2. F \in Seq(Byte) /\ Len(F) > 0
      /\ DeserializeArtifact(F) = [ok |-> TRUE, object |-> ObjectBytes, header |-> header]
  <2> HIDE DEF header, F
  <2>1. QED BY <1>1, WrittenIsRead
<1>3. /\ header.mode = a.mode
      /\ \A f \in HostFields : header[f] = IF f \in a.differs THEN Other ELSE Host[f]
  BY HeaderFields
<1>4. \A f \in HostFields : Other # Host[f]
  BY BlobsAssumption DEF Range
<1> HIDE DEF header, F
<1>5. CASE a.intact
  <2>1. BlobOf(a, << >>) = F
    BY <1>5 DEF BlobOf, F
  <2>2. Loads(F, mode) <=> CheckHostCompatibility(header, HostFields \ Tolerated, Host, mode)
    BY <1>2 DEF Loads, Suits
  <2>3. CheckHostCompatibility(header, HostFields \ Tolerated, Host, mode)
          <=> a.differs \subseteq Tolerated /\ a.mode = mode
    <3>1. (\A f \in HostFields \ Tolerated : header[f] = Host[f]) <=> a.differs \subseteq Tolerated
      BY <1>3, <1>4
    <3>2. QED BY <1>3, <3>1 DEF CheckHostCompatibility
  <2>4. QED BY <1>5, <2>1, <2>2, <2>3 DEF Accepts
<1>6. CASE ~ a.intact
  <2>1. BlobOf(a, << >>) = SubSeq(F, 1, Len(F) - 1)
    BY <1>6 DEF BlobOf, Front, F
  <2>2. Len(F) - 1 \in Nat /\ Len(F) - 1 < Len(F)
    BY <1>2
  <2>3. ~ DeserializeArtifact(SubSeq(F, 1, Len(F) - 1)).ok
    BY <1>1, <2>2, CutIsRefused
  <2>4. QED BY <1>6, <2>1, <2>3 DEF Accepts, Loads, Suits
<1>7. QED BY <1>5, <1>6

LEMMA WholeIsReadBack ==
  ASSUME NEW header, IsHeader(header), Fits(SerializeArtifact(header, ObjectBytes))
  PROVE  ReadsBackWhole(header)
<1> DEFINE F == SerializeArtifact(header, ObjectBytes)
<1>1. /\ F \in Seq(Byte) /\ Len(F) > 0
      /\ DeserializeArtifact(F) = [ok |-> TRUE, object |-> ObjectBytes, header |-> header]
  BY WrittenIsRead
<1>2. ASSUME NEW n \in 0..(Len(F) - 1) PROVE ~ DeserializeArtifact(SubSeq(F, 1, n)).ok
  <2>1. n \in Nat /\ n < Len(F)
    <3> HIDE DEF F
    <3>1. QED BY <1>1
  <2>2. QED BY <2>1, CutIsRefused
<1>3. ASSUME NEW byte \in Byte PROVE ~ DeserializeArtifact(Append(F, byte)).ok
  <2> DEFINE blob == Append(F, byte)
  <2>1. blob \in Seq(Byte) /\ Len(blob) = Len(F) + 1 /\ \A i \in 1..Len(F) : blob[i] = F[i]
    <3> HIDE DEF F
    <3>1. QED BY <1>1
  <2> HIDE DEF blob
  <2>2. blob # F /\ \A i \in 1..Len(blob) : i <= Len(F) => blob[i] = F[i]
    <3> HIDE DEF F
    <3>1. QED BY <1>1, <2>1
  <2>3. QED BY <2>1, <2>2, AgreeingIsRefused DEF blob
<1> HIDE DEF F
<1>4. \A damaged \in Cut(F) \cup Extended(F) : ~ DeserializeArtifact(damaged).ok
  BY <1>2, <1>3 DEF Cut, Extended
<1>5. QED BY <1>1, <1>4 DEF ReadsBackWhole, F

LEMMA AlteredIsNoticed ==
  ASSUME WrapIsRefused,
         NEW own \in Own, NEW extensions \in ExtensionLists, NEW damaged \in Altered(Written(own, extensions)),
         DeserializeArtifact(damaged).ok
  PROVE  LET read == DeserializeArtifact(damaged)
         IN  SerializeArtifact(read.header, read.object) = damaged
<1> DEFINE F == Written(own, extensions)
<1>1. IsHeader(HeaderOf(own, extensions)) /\ Fits(F) /\ F = SerializeArtifact(HeaderOf(own, extensions), ObjectBytes)
  BY BlobsAssumption DEF Written
<1>2. F \in Seq(Byte)
  BY <1>1, WrittenIsRead
<1>3. PICK i \in DOMAIN F, byte \in Byte : damaged = [F EXCEPT ![i] = byte]
  BY DEF Altered
<1> HIDE DEF F
<1>4. damaged \in Seq(Byte) /\ Len(damaged) = Len(F)
  BY <1>2, <1>3, ExceptSeq
<1>5. Fits(damaged)
  BY <1>1, <1>4 DEF Fits
<1>6. LET size == ReadHeader(damaged).size IN size.ok => size.pos + size.got < SizeMax
  BY DEF WrapIsRefused
<1>7. QED BY <1>4, <1>5, <1>6, ReaderIsExact

(* SaveCompiled would write the header of one in Own.                       *)
LEMMA HeadersNowAreOwn ==
  ASSUME BlobInv, NEW header \in HeadersNow
  PROVE  \E own \in Own, extensions \in ExtensionLists : header = HeaderOf(own, extensions)
<1> DEFINE a == Serialized(core, "single", <<ret_type_>>)
<1>1. PICK extensions \in ExtensionLists : header = HeaderOf(a, extensions)
  BY DEF HeadersNow
<1>2. \E own \in Own : \A x \in ExtensionLists : HeaderOf(a, x) = HeaderOf(own, x)
  BY OwnIsWritable DEF BlobInv
<1>3. QED BY <1>1, <1>2

(* LoadCompiled accepts an artifact at large exactly if its blob reads back *)
(* and fits the host, and what SaveCompiled would write reads back as it    *)
(* was and is refused if it was cut anywhere or anything follows, after any *)
(* sequence of calls and for any strings, objects and extension areas.      *)
THEOREM EngineReadsWhatWasWritten ==
  Spec => [](AcceptsWhatReads /\ \A header \in HeadersNow : ReadsBackWhole(header))
<1>1. BlobInv => AcceptsWhatReads /\ \A header \in HeadersNow : ReadsBackWhole(header)
  <2> SUFFICES ASSUME BlobInv
               PROVE  AcceptsWhatReads /\ \A header \in HeadersNow : ReadsBackWhole(header)
    OBVIOUS
  <2>1. AcceptsWhatReads
    BY AcceptedIsRead DEF BlobInv, AcceptsWhatReads
  <2>2. ASSUME NEW header \in HeadersNow PROVE ReadsBackWhole(header)
    <3>1. PICK own \in Own, extensions \in ExtensionLists : header = HeaderOf(own, extensions)
      BY HeadersNowAreOwn
    <3>2. IsHeader(header) /\ Fits(SerializeArtifact(header, ObjectBytes))
      BY <3>1, BlobsAssumption DEF Written
    <3>3. QED BY <3>2, WholeIsReadBack
  <2>3. QED BY <2>1, <2>2
<1>2. QED BY <1>1, BlobInvariant, PTL

(* And with a byte of it altered it is refused, or reads as what would be   *)
(* written so, unless the object's size wraps: a reader that has so been    *)
(* sent back over what it has read may come upon a footer at the end, and   *)
(* whether it does is a matter of the bytes.                                *)
THEOREM EngineNoticesDamage == ASSUME WrapIsRefused PROVE Spec => []DamageIsNoticed
<1>1. BlobInv /\ (AcceptsWhatReads /\ \A header \in HeadersNow : ReadsBackWhole(header)) => DamageIsNoticed
  <2> SUFFICES ASSUME BlobInv, AcceptsWhatReads, \A header \in HeadersNow : ReadsBackWhole(header)
               PROVE  DamageIsNoticed
    OBVIOUS
  <2>1. ASSUME NEW header \in HeadersNow PROVE AlterationIsNoticed(header)
    <3>1. PICK own \in Own, extensions \in ExtensionLists : header = HeaderOf(own, extensions)
      BY HeadersNowAreOwn
    <3>2. SerializeArtifact(header, ObjectBytes) = Written(own, extensions)
      BY <3>1 DEF Written
    <3>3. ASSUME NEW damaged \in Altered(Written(own, extensions)), DeserializeArtifact(damaged).ok
          PROVE  LET read == DeserializeArtifact(damaged)
                 IN  SerializeArtifact(read.header, read.object) = damaged
      BY <3>3, AlteredIsNoticed
    <3>4. QED BY <3>2, <3>3 DEF AlterationIsNoticed, IsExact
  <2>2. QED BY <2>1 DEF DamageIsNoticed
<1>2. QED BY <1>1, BlobInvariant, EngineReadsWhatWasWritten, PTL
=============================================================================
