---------------------------- MODULE ListKernels ----------------------------
(***************************************************************************)
(* The kernels over lists, each as its loop computes, and a program that   *)
(* feeds the result of one to the next.                                    *)
(*                                                                         *)
(* The program has two lists and a bitmap.  A kernel that finds its        *)
(* arguments unfit records an error in the context and returns the empty   *)
(* list; the program runs on, and its result counts only when no error was *)
(* recorded.  picks is what the bitmap stands for: which positions of the  *)
(* list it was made of were picked.                                        *)
(*                                                                         *)
(* A list is a sequence; indices in bitmaps, group ids and results of      *)
(* lookups count from zero as in the code.  The batches of SIMD lanes and  *)
(* the scalar tail compute the same element and are one definition.        *)
(***************************************************************************)
EXTENDS FunctionLibrary

CONSTANTS Numbers,        \* elements of lists, positive
          NaN,            \* an element that equals nothing and is less than nothing
          Lowest, Highest, \* numeric_limits lowest() and max(): a number outside
                           \* them is an infinity, of which only the order is modelled
          MaxLen,
          ByteBits,       \* 8 in the code
          BatchBytes,     \* 8 in the code: bytes CountBits takes at a time
          LinearThreshold \* kBucketizeLinearThreshold, 16 in the code

ASSUME KernelsAssumption == /\ Numbers \subseteq Nat \ {0}
                            /\ {MaxLen, ByteBits, BatchBytes} \subseteq Nat \ {0}
                            /\ {LinearThreshold, Lowest, Highest} \subseteq Nat

VARIABLES a, b, bitmap, picks, failed

vars == <<a, b, bitmap, picks, failed>>

Miss == -1     \* kLookupMiss, the largest U32
Elements == Numbers \cup {NaN}
Lists == UNION {[1..n -> Elements] : n \in 0..MaxLen}

Returned(list) == [list |-> list, error |-> FALSE]
Error == [list |-> << >>, error |-> TRUE]

Less(x, y) == NaN \notin {x, y} /\ x < y
Equal(x, y) == x # NaN /\ x = y

Holds(op, x, y) ==
  CASE op = ">" -> Less(y, x) [] op = ">=" -> Less(y, x) \/ Equal(x, y)
    [] op = "<" -> Less(x, y) [] op = "<=" -> Less(x, y) \/ Equal(x, y)
    [] op = "==" -> Equal(x, y) [] op = "!=" -> ~Equal(x, y)

----------------------------------------------------------------------------
(* list_comparison.cc: bitmaps.  A byte is the set of its bits that are 1. *)

BytesFor(n) == (n + ByteBits - 1) \div ByteBits

(* The bytes the two loops write: the whole ones, and one for the rest.  The *)
(* second loop first sets its byte to zero, also when no positions are left: *)
(* the byte is then the one behind the BytesFor(n) allocated.                *)
BytesWritten(n) == IF n = 0 THEN 0 ELSE n \div ByteBits + 1

BitmapData(n, Test(_)) ==
  LET whole == n \div ByteBits
      byte(k, bits) == {j \in 0..(bits - 1) : Test(k * ByteBits + j + 1)}
  IN  [k \in 1..BytesWritten(n) |-> IF k <= whole THEN byte(k - 1, ByteBits)
                                    ELSE byte(whole, n - whole * ByteBits)]

(* The result is the bytes allocated.  What lies behind them is not a list   *)
(* of the program, and what the write there destroys is not followed.        *)
BitmapOf(n, Test(_)) ==
  LET data == BitmapData(n, Test) IN [k \in 1..BytesFor(n) |-> data[k]]

GenBitmap(op, list, x) == Returned(BitmapOf(Len(list), LAMBDA i : Holds(op, list[i], x)))

GenBitmapList(op, l, r) ==
  IF Len(l) # Len(r) THEN Error
  ELSE Returned(BitmapOf(Len(l), LAMBDA i : Holds(op, l[i], r[i])))

(* The bits that are 1 in the bytes ks, and their number. *)
Ones(bytes, ks) == {bit \in ks \X (0..(ByteBits - 1)) : bit[2] \in bytes[bit[1]]}
Popcount(bytes, ks) == Cardinality(Ones(bytes, ks))

(* Mutant of CountBits: the bytes after the last whole batch are not counted. *)
CountBitsOfBatches(bytes) ==
  Popcount(bytes, 1..((Len(bytes) \div BatchBytes) * BatchBytes))

(* The bits of BatchBytes bytes at a time, then byte by byte. *)
CountBits(bytes) ==
  LET batches == Len(bytes) \div BatchBytes
      byBatch[i \in 0..batches] ==
        IF i = 0 THEN 0 ELSE byBatch[i - 1] + Popcount(bytes, ((i - 1) * BatchBytes + 1)..(i * BatchBytes))
      byByte[k \in 0..(Len(bytes) - batches * BatchBytes)] ==
        IF k = 0 THEN byBatch[batches] ELSE byByte[k - 1] + Popcount(bytes, {batches * BatchBytes + k})
  IN  byByte[Len(bytes) - batches * BatchBytes]

(* The loops of FilterByBitmap: data is what has been written, of which the *)
(* first cur elements are kept.  An element is written before it is known   *)
(* whether it is kept.                                                      *)
Kept(st) == SubSeq(st.data, 1, st.cur)

Branchless(list, bytes, st, k, bits) ==
  LET after[j \in 0..bits] ==
        IF j = 0 THEN st
        ELSE [data |-> Append(Kept(after[j - 1]), list[k * ByteBits + j]),
              cur |-> after[j - 1].cur + (IF j - 1 \in bytes[k + 1] THEN 1 ELSE 0)]
  IN  after[bits]

Copied(list, st, k) ==
  [data |-> Kept(st) \o SubSeq(list, k * ByteBits + 1, k * ByteBits + ByteBits), cur |-> st.cur + ByteBits]

FilterByte(list, bytes, st, k) ==
  IF bytes[k + 1] = {} THEN st
  ELSE IF bytes[k + 1] = 0..(ByteBits - 1) THEN Copied(list, st, k)
  ELSE Branchless(list, bytes, st, k, ByteBits)

Filtering(list, bytes) ==
  LET whole == Len(list) \div ByteBits
      after[k \in 0..whole] ==
        IF k = 0 THEN [data |-> << >>, cur |-> 0] ELSE FilterByte(list, bytes, after[k - 1], k - 1)
  IN  IF whole < Len(bytes) THEN Branchless(list, bytes, after[whole], whole, Len(list) - whole * ByteBits)
      ELSE after[whole]

(* Mutant of FilterByBitmap: bits past the end of the list are not noticed. *)
FilterByBitmapUnchecked(list, bytes, bits_cnt) ==
  LET st == Filtering(list, bytes)
  IN  IF BytesFor(Len(list)) # Len(bytes) \/ st.cur # bits_cnt THEN Error
      ELSE Returned(SubSeq(st.data, 1, bits_cnt))

FilterByBitmap(list, bytes, bits_cnt) ==
  LET valid == Len(list) % ByteBits
      st == Filtering(list, bytes)
  IN  CASE BytesFor(Len(list)) # Len(bytes) -> Error
        [] valid # 0 /\ \E j \in bytes[Len(bytes)] : j >= valid -> Error
        [] st.cur # bits_cnt -> Error
        [] OTHER -> Returned(SubSeq(st.data, 1, bits_cnt))

(* The mask is expanded into the result, a byte at a time and then the rest, *)
(* and every element is selected by it.                                      *)
SelectByMask(n, bytes, Yes(_), No(_)) ==
  LET whole == n \div ByteBits
      mask(i) == LET k == IF i < whole * ByteBits THEN i \div ByteBits ELSE whole
                 IN  (i - k * ByteBits) \in bytes[k + 1]
  IN  IF Len(bytes) < BytesFor(n) THEN Error
      ELSE Returned([i \in 1..n |-> IF mask(i - 1) THEN Yes(i) ELSE No(i)])

IfByBitmapLLRB(bytes, lhs, x) == SelectByMask(Len(lhs), bytes, LAMBDA i : lhs[i], LAMBDA i : x)
IfByBitmapLBRL(bytes, x, rhs) == SelectByMask(Len(rhs), bytes, LAMBDA i : x, LAMBDA i : rhs[i])
IfByBitmapLLRL(bytes, lhs, rhs) ==
  IF Len(lhs) # Len(rhs) THEN Error
  ELSE SelectByMask(Len(lhs), bytes, LAMBDA i : lhs[i], LAMBDA i : rhs[i])

(* IfLarge and its kin. *)
IfCompared(op, list, cmp_value, target_value) ==
  [i \in DOMAIN list |-> IF Holds(op, list[i], cmp_value) THEN target_value ELSE list[i]]

----------------------------------------------------------------------------
(* list_arithmetic.cc: two lists, element by element.                      *)

Pairwise(Op(_, _), l, r) ==
  IF Len(l) # Len(r) THEN Error ELSE Returned([i \in DOMAIN l |-> Op(l[i], r[i])])

Arithmetic(Op(_, _), x, y) == IF NaN \in {x, y} THEN NaN ELSE Op(x, y)

ListAddList(l, r) == Pairwise(LAMBDA x, y : Arithmetic(LAMBDA v, w : v + w, x, y), l, r)
ListSubList(l, r) == Pairwise(LAMBDA x, y : Arithmetic(LAMBDA v, w : v - w, x, y), l, r)
ListMulList(l, r) == Pairwise(LAMBDA x, y : Arithmetic(LAMBDA v, w : v * w, x, y), l, r)
ListDivList(l, r) == Pairwise(LAMBDA x, y : Arithmetic(LAMBDA v, w : v \div w, x, y), l, r)
ListModList(l, r) == Pairwise(LAMBDA x, y : Arithmetic(LAMBDA v, w : v % w, x, y), l, r)

(* Of bitmaps, the only lists programs combine bitwise. *)
ListBitwiseAndList(l, r) == Pairwise(LAMBDA x, y : x \cap y, l, r)
ListBitwiseOrList(l, r) == Pairwise(LAMBDA x, y : x \cup y, l, r)
ListBitwiseXorList(l, r) == Pairwise(LAMBDA x, y : (x \cup y) \ (x \cap y), l, r)

----------------------------------------------------------------------------
(* list_group.cc.  A hash table compares keys with ==: a NaN is never found. *)

Seen(x, keys) == {i \in DOMAIN keys : Equal(keys[i], x)}

(* Mutant of GroupIndex: a new group is numbered by its position. *)
GroupIndexByPosition(keys) == [i \in DOMAIN keys |-> Min(Seen(keys[i], keys) \cup {i}) - 1]

(* First come, first numbered: table is the keys in the order they were met. *)
GroupIndex(keys) ==
  FoldLeft(LAMBDA st, x :
             LET met == Seen(x, st.table) IN
             IF met = {} THEN [ids |-> Append(st.ids, Len(st.table)), table |-> Append(st.table, x)]
             ELSE [st EXCEPT !.ids = Append(@, Min(met) - 1)],
           [ids |-> << >>, table |-> << >>], keys).ids

GroupCount(group_index) == IF group_index = << >> THEN 0 ELSE Max(Range(group_index)) + 1

(* A key is written when its id is the number of keys written. *)
GroupKeys(keys, group_index) ==
  IF Len(keys) # Len(group_index) THEN Error
  ELSE LET out[i \in 0..Len(keys)] ==
             IF i = 0 THEN << >>
             ELSE IF group_index[i] = Len(out[i - 1]) THEN Append(out[i - 1], keys[i]) ELSE out[i - 1]
       IN  Returned(out[Len(keys)])

(* The loop that GroupSum, GroupMax, GroupMin and GroupAvg share: an         *)
(* accumulator per group starts from seed and takes in each value in turn.   *)
Accumulate(values, group_index, distinct, seed, Op(_, _)) ==
  IF Len(values) # Len(group_index) THEN Error
  ELSE Returned(FoldLeft(LAMBDA acc, i : [acc EXCEPT ![group_index[i] + 1] = Op(@, values[i])],
                         [g \in 1..distinct |-> seed], [i \in DOMAIN values |-> i]))

(* std::max and std::min keep the left argument unless the right one beats it. *)
StdMax(x, y) == IF Less(x, y) THEN y ELSE x
StdMin(x, y) == IF Less(y, x) THEN y ELSE x

GroupSum(values, group_index, distinct) ==
  Accumulate(values, group_index, distinct, 0, LAMBDA x, y : Arithmetic(LAMBDA v, w : v + w, x, y))
GroupMax(values, group_index, distinct) ==
  Accumulate(values, group_index, distinct, Lowest, StdMax)
GroupMin(values, group_index, distinct) ==
  Accumulate(values, group_index, distinct, Highest, StdMin)
(* An average is kept as the sum and the number it is divided by. *)
GroupAvg(values, group_index, distinct) ==
  LET add(acc, v) == [sum |-> Arithmetic(LAMBDA x, y : x + y, acc.sum, v), by |-> acc.by + 1]
  IN  Accumulate(values, group_index, distinct, [sum |-> 0, by |-> 0], add)

----------------------------------------------------------------------------
(* list_indexing.cc                                                        *)

(* try_emplace keeps the first position of a value. *)
BuildLookupTable(list) ==
  FoldLeft(LAMBDA table, j : IF list[j] \in DOMAIN table \/ list[j] = NaN THEN table
                             ELSE table @@ (list[j] :> j - 1),
           << >>, [j \in DOMAIN list |-> j])
LookupTable(list, table) ==
  [i \in DOMAIN list |-> IF list[i] \in DOMAIN table THEN table[list[i]] ELSE Miss]
ListLookupIndex(l, r) == LookupTable(l, BuildLookupTable(r))

Find(list, x) == IF Seen(x, list) = {} THEN Miss ELSE Min(Seen(x, list)) - 1

(* The binary search of std::lower_bound and std::upper_bound: how many      *)
(* elements it walks past.                                                   *)
Bisect(list, Past(_)) ==
  LET search[first \in 0..Len(list), count \in 0..Len(list)] ==
        LET step == count \div 2
        IN  CASE count = 0 -> first
              [] count > 0 /\ Past(list[first + step + 1]) -> search[first + step + 1, count - step - 1]
              [] OTHER -> search[first, step]
  IN  search[0, Len(list)]

FindSorted(list, x) ==
  LET at == Bisect(list, LAMBDA y : Less(y, x))
  IN  IF at = Len(list) \/ ~Equal(list[at + 1], x) THEN Miss ELSE at

Hits(raw) == SelectSeq([i \in DOMAIN raw |-> i], LAMBDA i : raw[i] # Miss)
ListCompactPositions(raw) == [k \in DOMAIN Hits(raw) |-> Hits(raw)[k] - 1]
ListCompactIndex(raw) == SelectSeq(raw, LAMBDA j : j # Miss)

(* A miss is the largest U32: it is past the end of any list. *)
ListGather(values, idx, default_value) ==
  [k \in DOMAIN idx |-> IF idx[k] \in 0..(Len(values) - 1) THEN values[idx[k] + 1] ELSE default_value]

(* Mutant of Bucketize: the scan simplified as a comment there warns against. *)
BucketizeSimplified(values, boundaries) ==
  LET below(v) == {i \in DOMAIN boundaries : ~Holds(">=", v, boundaries[i])}
      upper_bound(v) == Bisect(boundaries, LAMBDA y : ~Less(v, y))
  IN  [i \in DOMAIN values |->
         CASE Len(boundaries) > LinearThreshold -> upper_bound(values[i])
           [] below(values[i]) = {} -> Len(boundaries)
           [] OTHER -> Min(below(values[i])) - 1]

Bucketize(values, boundaries) ==
  LET stops(v) == {i \in DOMAIN boundaries : Less(v, boundaries[i])}
      linear(v) == IF stops(v) = {} THEN Len(boundaries) ELSE Min(stops(v)) - 1
      upper_bound(v) == Bisect(boundaries, LAMBDA y : ~Less(v, y))
  IN  [i \in DOMAIN values |-> IF Len(boundaries) <= LinearThreshold THEN linear(values[i])
                               ELSE upper_bound(values[i])]

----------------------------------------------------------------------------
(* list_aggregation.cc and list_basic.cc                                   *)

SortAsc(list) == SortSeq(list, Less)

(* std::nth_element promises no more than this of where elements end up. *)
NthElementMayLeave(list, mid) ==
  {[i \in DOMAIN list |-> list[p[i]]] : p \in
     {q \in Permutations(DOMAIN list) : \A i \in DOMAIN list :
        /\ i <= mid => ~Less(list[q[mid + 1]], list[q[i]])
        /\ i > mid => ~Less(list[q[i]], list[q[mid + 1]])}}

(* Medians are doubled: the code halves the sum of two elements. *)
Median(list) ==
  LET mid == Len(list) \div 2
      of(tmp) == IF Len(list) % 2 = 1 THEN 2 * tmp[mid + 1]
                 ELSE FoldLeft(StdMax, tmp[1], SubSeq(tmp, 2, mid)) + tmp[mid + 1]
  IN  IF list = << >> THEN {0} ELSE {of(tmp) : tmp \in NthElementMayLeave(list, mid)}

SortedMedian(list) ==
  LET mid == Len(list) \div 2
  IN  CASE list = << >> -> 0
        [] Len(list) % 2 = 1 -> 2 * list[mid + 1]
        [] OTHER -> list[mid] + list[mid + 1]

(* std::max_element and std::min_element: the first of the extreme elements. *)
MaxOf(list) == IF list = << >> THEN 0 ELSE FoldLeft(StdMax, list[1], Tail(list))
MinOf(list) == IF list = << >> THEN 0 ELSE FoldLeft(StdMin, list[1], Tail(list))
SumOf(list) ==
  FoldLeft(LAMBDA acc, x : Arithmetic(LAMBDA v, w : v + w, acc, x), 0, list)
Avg(list) == IF list = << >> THEN [sum |-> 0, by |-> 1] ELSE [sum |-> SumOf(list), by |-> Len(list)]

Unique(list) ==
  FoldLeft(LAMBDA kept, x : IF Seen(x, kept) = {} THEN Append(kept, x) ELSE kept, << >>, list)
CountDistinct(list) == Cardinality(Range(list) \ {NaN}) + Cardinality({i \in DOMAIN list : list[i] = NaN})

IsInList(x, list) == \E i \in DOMAIN list : Equal(x, list[i])

(* Joining strings.  A string is given by its length: the kernels compute    *)
(* the size of one buffer first and then copy piece after piece into it.     *)
(* total_bytes is that size, cursor where the copying ends.                  *)
TotalLen(strings) ==
  LET upTo[i \in 0..Len(strings)] == IF i = 0 THEN 0 ELSE upTo[i - 1] + strings[i]
  IN  upTo[Len(strings)]

(* Where the copying of x joined with every string of r ends. *)
JoinRow(start, x, r, sep) ==
  LET cursor[j \in 0..Len(r)] == IF j = 0 THEN start ELSE cursor[j - 1] + x + sep + r[j]
  IN  cursor[Len(r)]

CrossJoinString(l, r, sep) ==
  LET cursor[i \in 0..Len(l)] == IF i = 0 THEN 0 ELSE JoinRow(cursor[i - 1], l[i], r, sep)
  IN  Returned([total_bytes |-> TotalLen(l) * Len(r) + TotalLen(r) * Len(l) + Len(l) * Len(r) * sep,
                cursor |-> cursor[Len(l)]])

ZipConcatString(l, r, sep) ==
  LET cursor[i \in 0..Len(l)] == IF i = 0 THEN 0 ELSE cursor[i - 1] + l[i] + sep + r[i]
  IN  IF Len(l) # Len(r) THEN Error
      ELSE Returned([total_bytes |-> TotalLen(l) + TotalLen(r) + Len(l) * sep, cursor |-> cursor[Len(l)]])

----------------------------------------------------------------------------
(* A program of kernels. *)

CompareOps == {">", ">=", "<", "<=", "==", "!="}
BitmapOps == {"and", "or", "xor"}

Init ==
  /\ a \in Lists /\ b \in Lists
  /\ bitmap = << >> /\ picks = {} /\ failed = FALSE

(* An error sticks; the bitmap then stands for nothing. *)
Mapped(result, positions) ==
  /\ bitmap' = result.list
  /\ picks' = IF result.error THEN {} ELSE positions
  /\ failed' = (failed \/ result.error)
  /\ UNCHANGED <<a, b>>

Becomes(result) ==
  /\ a' = result.list
  /\ failed' = (failed \/ result.error)
  /\ UNCHANGED <<b, bitmap, picks>>

PicksOf(op, x) == {i \in DOMAIN a : Holds(op, a[i], x)}

(* A bitmap of a and a scalar, or of a and b. *)
Compare(op, x) == Mapped(GenBitmap(op, a, x), PicksOf(op, x))
CompareLists(op) == Mapped(GenBitmapList(op, a, b), {i \in DOMAIN a \cap DOMAIN b : Holds(op, a[i], b[i])})

(* The bitmap is combined with a new one of a. *)
Combine(f, op, x) ==
  LET fresh == GenBitmap(op, a, x).list
      new == PicksOf(op, x)
  IN  CASE f = "and" -> Mapped(ListBitwiseAndList(bitmap, fresh), picks \cap new)
        [] f = "or" -> Mapped(ListBitwiseOrList(bitmap, fresh), picks \cup new)
        [] f = "xor" -> Mapped(ListBitwiseXorList(bitmap, fresh), (picks \cup new) \ (picks \cap new))

(* FilterByBitmap(a, bitmap, bits_cnt), and without the count, which is then *)
(* the CountBits of the bitmap.                                              *)
Filter(bits_cnt) == Becomes(FilterByBitmap(a, bitmap, bits_cnt))
FilterAll == Becomes(FilterByBitmap(a, bitmap, CountBits(bitmap)))

(* IfByBitmap in its three forms. *)
ChooseListOr(x) == Becomes(IfByBitmapLLRB(bitmap, a, x))
ChooseScalarOr(x) == Becomes(IfByBitmapLBRL(bitmap, x, a))
ChooseLists == Becomes(IfByBitmapLLRL(bitmap, a, b))

Next ==
  \/ \E op \in CompareOps, x \in Elements : Compare(op, x)
  \/ \E op \in CompareOps : CompareLists(op)
  \/ \E f \in BitmapOps, op \in CompareOps, x \in Elements : Combine(f, op, x)
  \/ \E n \in 0..MaxLen : Filter(n)
  \/ FilterAll
  \/ \E x \in Numbers : ChooseListOr(x)
  \/ \E x \in Numbers : ChooseScalarOr(x)
  \/ ChooseLists

Spec == Init /\ [][Next]_vars

----------------------------------------------------------------------------
(* What the positions picked say a list becomes: its k-th element is the    *)
(* one at the k-th of them.                                                 *)
RankedAs(k, positions) == {i \in positions : Cardinality({j \in positions : j <= i}) = k}
Picked(list, positions) ==
  [k \in 1..Cardinality(positions) |-> list[CHOOSE i \in RankedAs(k, positions) : TRUE]]

(* A program whose comparisons, combinations and filters recorded no error   *)
(* filtered by what it compared: FilterByBitmap returns the elements picked, *)
(* in order, and never goes unnoticed with a bitmap of another list that     *)
(* picks beyond this one, nor with a count that is not theirs; IfByBitmap    *)
(* takes from the left exactly what was picked.                              *)
UnflaggedIsRight ==
  [][~failed' =>
       /\ FilterAll \/ (\E n \in 0..MaxLen : Filter(n)) =>
            picks \subseteq DOMAIN a /\ a' = Picked(a, picks)
       /\ \A x \in Numbers : ChooseListOr(x) =>
            a' = [i \in DOMAIN a |-> IF i \in picks THEN a[i] ELSE x]]_vars

(* Every pair of lists occurs before the first bitmap is made. *)
Fresh == bitmap = << >>
NoNaN(list) == NaN \notin Range(list)

(* How far FilterByBitmap writes, once the lengths fit: as far whatever the  *)
(* count, of which the size of its buffer is one more.                       *)
FilterWrites == Len(Filtering(a, bitmap).data)
Fits == BytesFor(Len(a)) = Len(bitmap)

(* Kernels size their result before they fill it.  FilterByBitmap writes an  *)
(* element before it knows whether to keep it, and stays within the one      *)
(* spare element it allocates when the count is the bitmap's; with a smaller *)
(* count it may write past its buffer, but then never returns without an     *)
(* error.  GenBitmap fills its result, and writes one byte more exactly when *)
(* the length is a positive multiple of a byte's bits.  CrossJoin and        *)
(* ZipConcat fill their buffer to the last byte; GroupKeys, whatever indices *)
(* it is given, writes no more keys than GroupCount makes room for.          *)
WritesAreBounded ==
  /\ Fits => /\ FilterWrites <= CountBits(bitmap) + 1
             /\ \A bits_cnt \in 0..MaxLen :
                  FilterWrites > bits_cnt + 1 => FilterByBitmap(a, bitmap, bits_cnt).error
  /\ LET spill == IF Len(a) > 0 /\ Len(a) % ByteBits = 0 THEN 1 ELSE 0
     IN  BytesWritten(Len(a)) = BytesFor(Len(a)) + spill
  /\ Fresh /\ NoNaN(a) /\ NoNaN(b) => \A sep \in 0..1 :
       LET crossed == CrossJoinString(a, b, sep).list
           zipped == ZipConcatString(a, b, sep)
       IN  /\ crossed.cursor = crossed.total_bytes
           /\ zipped.error \/ zipped.list.cursor = zipped.list.total_bytes
  /\ Fresh => \A group_index \in [DOMAIN a -> 0..MaxLen] :
       Len(GroupKeys(a, group_index).list) <= GroupCount(group_index)

(* GroupMax is the "Per-group maximum of `values`", and GroupMin the         *)
(* minimum: what Max and Min give of the elements of the group.              *)
ExtremesAreOfTheGroup ==
  Fresh /\ Len(a) = Len(b) /\ NoNaN(b) =>
    LET ids == GroupIndex(a)
        distinct == GroupCount(ids)
        group(g) == Picked(b, {i \in DOMAIN ids : ids[i] = g - 1})
    IN  \A g \in 1..distinct : /\ GroupMax(b, ids, distinct).list[g] = MaxOf(group(g))
                              /\ GroupMin(b, ids, distinct).list[g] = MinOf(group(g))

Finite(list) == Range(list) \ {NaN} \subseteq Lowest..Highest

(* GroupIndex, GroupCount, GroupKeys and the aggregates by group agree with  *)
(* one another and with the kernels that do not group: keys are Unique and   *)
(* as many as CountDistinct, every element finds its own key, no average     *)
(* divides by zero, and each aggregate is that of the group's elements; the  *)
(* extremes are so for finite numbers only, as they start from the largest   *)
(* and the smallest of these.                                                *)
GroupsAgree ==
  Fresh =>
    LET ids == GroupIndex(a)
        distinct == GroupCount(ids)
        keys == GroupKeys(a, ids).list
        group(g) == Picked(b, {i \in DOMAIN ids : ids[i] = g - 1})
    IN  /\ keys = Unique(a) /\ Len(keys) = distinct /\ distinct = CountDistinct(a)
        /\ \A i \in DOMAIN a : keys[ids[i] + 1] = a[i]
        /\ IF Len(a) # Len(b) THEN GroupSum(b, ids, distinct).error /\ GroupAvg(b, ids, distinct).error
           ELSE \A g \in 1..distinct :
                  /\ GroupSum(b, ids, distinct).list[g] = SumOf(group(g))
                  /\ GroupAvg(b, ids, distinct).list[g] = Avg(group(g))
        /\ Finite(b) => ExtremesAreOfTheGroup

(* Where the library has two ways to one answer they give the same: a hash   *)
(* table and a scan, a scan and a binary search, Bucketize below and above   *)
(* its threshold, a NaN included, Median and SortedMedian of the sorted      *)
(* list, and IfLarge and its kin and IfByBitmap of the bitmap; and the       *)
(* compacted positions and indices of a lookup join the two lists.           *)
TwoWaysAgree ==
  Fresh =>
    LET raw == ListLookupIndex(a, b)
        sorted == SortAsc(b)
    IN  /\ \A i \in DOMAIN a : raw[i] = Find(b, a[i]) /\ (raw[i] # Miss <=> IsInList(a[i], b))
        /\ ListGather(a, ListCompactPositions(raw), 0) = ListGather(b, ListCompactIndex(raw), 0)
        /\ NoNaN(b) =>
             /\ \A x \in Elements : FindSorted(sorted, x) = Find(sorted, x)
             /\ Bucketize(a, sorted) =
                  [i \in DOMAIN a |-> Cardinality({j \in DOMAIN b : ~Less(a[i], b[j])})]
             /\ Median(b) = {SortedMedian(sorted)}
        /\ \A op \in CompareOps, x \in Elements, y \in Numbers :
             IfByBitmapLBRL(GenBitmap(op, a, x).list, y, a).list = IfCompared(op, a, x, y)

(* The kernels over two lists by the name they are registered under.  Only   *)
(* whole numbers have bits.                                                  *)
Bits(list) == [i \in DOMAIN list |-> {j \in 0..(ByteBits - 1) : (list[i] \div 2^j) % 2 = 1}]

PairKernel(name, l, r) ==
  CASE name = "ListAdd" -> ListAddList(l, r) [] name = "ListSub" -> ListSubList(l, r)
    [] name = "ListMul" -> ListMulList(l, r) [] name = "ListDiv" -> ListDivList(l, r)
    [] name = "ListMod" -> ListModList(l, r)
    [] name = "ListBitwiseAnd" -> ListBitwiseAndList(Bits(l), Bits(r))
    [] name = "ListBitwiseOr" -> ListBitwiseOrList(Bits(l), Bits(r))
    [] name = "ListBitwiseXor" -> ListBitwiseXorList(Bits(l), Bits(r))
    [] name = "GenEqualBitmap" -> GenBitmapList("==", l, r)
    [] name = "GenNotEqualBitmap" -> GenBitmapList("!=", l, r)
    [] name = "GenLargeBitmap" -> GenBitmapList(">", l, r)
    [] name = "GenLargeEqualBitmap" -> GenBitmapList(">=", l, r)
    [] name = "GenLessBitmap" -> GenBitmapList("<", l, r)
    [] name = "GenLessEqualBitmap" -> GenBitmapList("<=", l, r)

Commutative == {r.name : r \in {q \in UNION {Range(step) : step \in Range(InitSteps)} :
                                 q.attr = "commutative"}}

OnWholeNumbers == {"ListBitwiseAnd", "ListBitwiseOr", "ListBitwiseXor", "ListMod"}

(* The optimiser swaps the arguments of a function registered as commutative *)
(* so that equal calls meet (CommutativeCallCanonicalizerPass): each such    *)
(* kernel gives the same list, or the same error, either way round.          *)
CommutativeCommute ==
  Fresh => \A name \in Commutative :
    (name \in OnWholeNumbers => NoNaN(a) /\ NoNaN(b)) =>
      PairKernel(name, a, b) = PairKernel(name, b, a)
=============================================================================
