---------------------------- MODULE ArenaProofs -----------------------------
(***************************************************************************)
(* Proofs about Arena, for every chunk size, request, alignment and heap.  *)
(*                                                                         *)
(* The invariants callers rely on (LiveIsDisjoint, LiveIsBacked) are not   *)
(* inductive: they hold because live regions lie in the arena's chunks,    *)
(* those in the newest chunk below avail_buf_, and because the chunks      *)
(* themselves are disjoint.  ArenaInv says so, and that each finalizer not *)
(* yet run is the address of a live region.                                *)
(***************************************************************************)
EXTENDS Arena, SequenceTheorems, TLAPS

Last == chunks[Len(chunks)]

(* Before the first chunk nothing is available; afterwards the free bytes   *)
(* are the end of the newest chunk.                                         *)
TailIsFree ==
  IF chunks = <<>>
  THEN avail_bytes = 0
  ELSE /\ Last.addr <= avail_buf
       /\ avail_buf + avail_bytes = Last.addr + Last.size

ChunksDisjoint ==
  \A i, j \in 1..Len(chunks) : i # j => Disjoint(chunks[i], chunks[j])

(* A live region lies in a chunk, and below avail_buf_ if in the newest. *)
LivePlaced ==
  \A r \in live : \E i \in 1..Len(chunks) :
    /\ Inside(r, chunks[i])
    /\ i = Len(chunks) => r.addr + r.size <= avail_buf

----------------------------------------------------------------------------
(* The padding is smaller than the alignment, so that a chunk over-allocated *)
(* by alignment - 1 bytes always has room for the request (src/arena.cc:48). *)
LEMMA PaddingBound ==
  ASSUME NEW addr \in Nat, NEW al \in Nat \ {0}
  PROVE  Padding(addr, al) \in Nat /\ Padding(addr, al) < al
  BY DEF Padding

(* Skipping the padding aligns the address, whatever it was before.          *)
LEMMA PaddingAligns ==
  ASSUME NEW addr \in Nat, NEW al \in Nat \ {0}
  PROVE  (addr + Padding(addr, al)) % al = 0
<1> DEFINE q == (0 - addr) \div al
           pad == (0 - addr) % al
<1>1. q \in Int /\ pad \in Int /\ 0 - addr = al * q + pad
  OBVIOUS
<1>2. addr + pad = al * (0 - q)
  BY <1>1
<1> HIDE DEF q, pad
<1>3. (al * (0 - q)) % al = 0
  BY <1>1
<1>4. QED BY <1>2, <1>3 DEF Padding, pad

(* A fresh chunk has room for the request wherever malloc puts it            *)
(* (src/arena.cc:48).                                                        *)
LEMMA ChunkSizeFits ==
  ASSUME NEW size \in Nat, NEW al \in Nat \ {0}, NEW addr \in Nat
  PROVE  /\ ChunkSize(size, al) \in Nat
         /\ size + Padding(addr, al) <= ChunkSize(size, al)
  BY PaddingBound, ArenaAssumption DEF ChunkSize

(* The part of the invariant that the memory alone decides. *)
MemoryInv ==
  /\ chunks \in Seq(Block)
  /\ avail_buf \in Nat
  /\ avail_bytes \in Nat
  /\ total_bytes \in Nat
  /\ heap \subseteq Block
  /\ live \subseteq [addr : Nat, size : Nat \ {0}, align : Nat \ {0}]
  /\ TailIsFree
  /\ heap = Range(chunks)
  /\ ChunksDisjoint
  /\ LivePlaced
  /\ LiveIsDisjoint
  /\ LiveIsAligned

(* What a request that returned memory adds: an aligned region of its own,  *)
(* at the address Allocate returns.                                         *)
Fresh(new, size) ==
  /\ live' = live \cup {new}
  /\ new \in [addr : Nat, size : Nat \ {0}, align : Nat \ {0}]
  /\ new.addr = avail_buf' - size
  /\ new.addr % new.align = 0
  /\ \A r \in live : Disjoint(new, r) /\ Disjoint(r, new) /\ r.addr # new.addr

(* Regions of disjoint blocks are disjoint. *)
LEMMA DisjointWithin ==
  ASSUME NEW r, NEW s, NEW a, NEW b,
         r.addr \in Nat, r.size \in Nat, s.addr \in Nat, s.size \in Nat,
         a.addr \in Nat, a.size \in Nat, b.addr \in Nat, b.size \in Nat,
         Inside(r, a), Inside(s, b), Disjoint(a, b)
  PROVE  Disjoint(r, s) /\ Disjoint(s, r)
<1>1. CASE a.addr + a.size <= b.addr
  BY <1>1 DEF Disjoint, Inside
<1>2. CASE b.addr + b.size <= a.addr
  BY <1>2 DEF Disjoint, Inside
<1>3. QED BY <1>1, <1>2 DEF Disjoint

(* A region from the newest chunk starts where the free bytes did, above    *)
(* every live region of that chunk.                                         *)
LEMMA CurrentChunkStep ==
  ASSUME MemoryInv, NEW size \in Sizes \ {0}, NEW al \in Alignments,
         FromCurrentChunk(size, al)
  PROVE  MemoryInv' /\ chunks' # <<>> /\ \E new \in live' : Fresh(new, size)
<1> DEFINE pad == Padding(avail_buf, al)
           new == [addr |-> avail_buf + pad, size |-> size, align |-> al]
<1>1. /\ size \in Nat \ {0}
      /\ al \in Nat \ {0}
      /\ pad \in Nat
  BY PaddingBound, ArenaAssumption DEF MemoryInv
<1> HIDE DEF pad
<1>2. /\ avail_bytes >= size + pad
      /\ avail_buf' = avail_buf + (size + pad)
      /\ avail_bytes' = avail_bytes - (size + pad)
      /\ live' = live \cup {new}
      /\ UNCHANGED <<chunks, total_bytes, heap>>
  BY DEF FromCurrentChunk, Fits, Carve, pad
<1>3. /\ chunks # <<>>
      /\ Len(chunks) \in 1..Len(chunks)
      /\ Last \in Block
  BY <1>1, <1>2 DEF MemoryInv, TailIsFree, Last
<1>4. /\ Last.addr <= avail_buf
      /\ avail_buf + avail_bytes = Last.addr + Last.size
      /\ Last.addr \in Nat
      /\ Last.size \in Nat
  BY <1>3 DEF MemoryInv, TailIsFree, Block
<1>5. Inside(new, Last) /\ new.addr + new.size <= avail_buf'
  BY <1>1, <1>2, <1>4 DEF Inside, MemoryInv
<1>6. ASSUME NEW r \in live PROVE Disjoint(r, new) /\ Disjoint(new, r)
  <2>1. PICK i \in 1..Len(chunks) :
           Inside(r, chunks[i]) /\ (i = Len(chunks) => r.addr + r.size <= avail_buf)
    BY DEF MemoryInv, LivePlaced
  <2>2. CASE i = Len(chunks)
    BY <1>1, <2>1, <2>2 DEF Disjoint, MemoryInv
  <2>3. CASE i # Len(chunks)
    <3>1. Disjoint(chunks[i], Last) /\ chunks[i] \in Block
      BY <1>3, <2>3 DEF MemoryInv, ChunksDisjoint, Last
    <3>2. Inside(r, chunks[i]) /\ Inside(new, Last)
      BY <1>5, <2>1
    <3>3. r.addr \in Nat /\ r.size \in Nat
      BY DEF MemoryInv
    <3>4. /\ chunks[i].addr \in Nat
          /\ chunks[i].size \in Nat
          /\ new.addr \in Nat
          /\ new.size \in Nat
      BY <1>1, <3>1 DEF Block, MemoryInv
    <3>5. QED BY <1>4, <3>1, <3>2, <3>3, <3>4, DisjointWithin
  <2>4. QED BY <2>2, <2>3
<1>7. LiveIsDisjoint'
  BY <1>2, <1>6 DEF LiveIsDisjoint, MemoryInv
<1>8. LivePlaced'
  <2>1. SUFFICES ASSUME NEW r \in live \cup {new}
                 PROVE  \E i \in 1..Len(chunks) :
                          /\ Inside(r, chunks[i])
                          /\ i = Len(chunks) => r.addr + r.size <= avail_buf'
    BY <1>2 DEF LivePlaced
  <2>2. CASE r = new
    BY <1>3, <1>5, <2>2 DEF Last
  <2>3. CASE r \in live
    <3>1. PICK i \in 1..Len(chunks) :
             Inside(r, chunks[i]) /\ (i = Len(chunks) => r.addr + r.size <= avail_buf)
      BY <2>3 DEF MemoryInv, LivePlaced
    <3>2. r.addr \in Nat /\ r.size \in Nat
      BY <2>3 DEF MemoryInv
    <3>3. QED BY <1>1, <1>2, <3>1, <3>2 DEF MemoryInv
  <2>4. QED BY <2>1, <2>2, <2>3
<1>9. TailIsFree'
  BY <1>1, <1>2, <1>3, <1>4 DEF TailIsFree, Last, MemoryInv
<1>10. /\ avail_buf' \in Nat
       /\ avail_bytes' \in Nat
        /\ live' \subseteq [addr : Nat, size : Nat \ {0}, align : Nat \ {0}]
  BY <1>1, <1>2 DEF MemoryInv
<1>11. LiveIsAligned'
  BY <1>1, <1>2, PaddingAligns DEF LiveIsAligned, MemoryInv, pad
<1>12. new.addr = avail_buf' - size /\ \A r \in live : r.addr # new.addr
  <2>1. new.addr = avail_buf' - size
    BY <1>1, <1>2 DEF MemoryInv
  <2>2. ASSUME NEW r \in live PROVE r.addr # new.addr
    BY <1>1, <1>6 DEF Disjoint, MemoryInv
  <2>3. QED BY <2>1, <2>2
<1>13. Fresh(new, size)
  <2>1. new \in [addr : Nat, size : Nat \ {0}, align : Nat \ {0}]
    BY <1>1 DEF MemoryInv
  <2>2. new.addr % new.align = 0
    BY <1>1, PaddingAligns DEF MemoryInv, pad
  <2>3. QED BY <1>2, <1>6, <1>12, <2>1, <2>2 DEF Fresh
<1>14. QED
  BY <1>2, <1>3, <1>7, <1>8, <1>9, <1>10, <1>11, <1>13 DEF MemoryInv, ChunksDisjoint, Block

(* A fresh chunk is clear of everything the arena owns, so that a region    *)
(* in it is clear of every live one; the rest of the old chunk is given up. *)
LEMMA NewChunkStep ==
  ASSUME MemoryInv, NEW size \in Sizes \ {0}, NEW al \in Alignments,
         FromNewChunk(size, al)
  PROVE  MemoryInv' /\ chunks' # <<>> /\ \E new \in live' : Fresh(new, size)
<1>1. PICK b \in Malloc(ChunkSize(size, al)) :
        /\ chunks' = Append(chunks, b)
        /\ heap' = heap \cup {b}
        /\ total_bytes' = total_bytes + b.size
        /\ Carve(b.addr, b.size, size, al)
  BY DEF FromNewChunk
<1>2. size \in Nat \ {0} /\ al \in Nat \ {0}
  BY ArenaAssumption
<1>3. /\ b \in Block
      /\ b.addr \in Nat
      /\ b.size \in Nat
      /\ b.size = ChunkSize(size, al)
      /\ \A h \in heap : Disjoint(b, h)
  <2>1. ChunkSize(size, al) \in Nat
    BY <1>2, ArenaAssumption DEF ChunkSize
  <2>a. ChunkSize(size, al) # 0
    BY <1>2, ArenaAssumption DEF ChunkSize
  <2>2. /\ b.addr \in 1..HeapTop
        /\ b.size = ChunkSize(size, al)
        /\ b = [addr |-> b.addr, size |-> b.size]
        /\ \A h \in heap : Disjoint(b, h)
    BY DEF Malloc
  <2>3. b.addr \in Nat \ {0}
    BY <2>2, ArenaAssumption
  <2>4. QED BY <2>1, <2>a, <2>2, <2>3 DEF Block
<1> DEFINE pad == Padding(b.addr, al)
           new == [addr |-> b.addr + pad, size |-> size, align |-> al]
<1>4. pad \in Nat /\ size + pad <= b.size
  BY <1>2, <1>3, PaddingBound, ChunkSizeFits
<1>5. /\ avail_buf' = b.addr + (size + pad)
      /\ avail_bytes' = b.size - (size + pad)
      /\ live' = live \cup {new}
  BY <1>1 DEF Carve
<1> HIDE DEF pad
<1>6. /\ chunks' \in Seq(Block)
      /\ Len(chunks) \in Nat
      /\ Len(chunks') = Len(chunks) + 1
      /\ chunks'[Len(chunks')] = b
      /\ \A i \in 1..Len(chunks) : chunks'[i] = chunks[i] /\ chunks[i] \in heap
      /\ \A i \in 1..Len(chunks) : chunks[i] \in Block
  BY <1>1, <1>3 DEF MemoryInv, Range
<1>7. /\ avail_buf' \in Nat
      /\ avail_bytes' \in Nat
      /\ total_bytes' \in Nat
      /\ heap' \subseteq Block
      /\ live' \subseteq [addr : Nat, size : Nat \ {0}, align : Nat \ {0}]
  <2>1. avail_buf' \in Nat /\ avail_bytes' \in Nat
    BY <1>2, <1>3, <1>4, <1>5
  <2>2. total_bytes' \in Nat /\ heap' \subseteq Block
    BY <1>1, <1>3 DEF MemoryInv
  <2>3. new \in [addr : Nat, size : Nat \ {0}, align : Nat \ {0}]
    BY <1>2, <1>3, <1>4
  <2>4. QED BY <1>5, <2>1, <2>2, <2>3 DEF MemoryInv
<1>8. Inside(new, b) /\ new.addr + new.size <= avail_buf'
  BY <1>2, <1>3, <1>4, <1>5 DEF Inside
<1>9. chunks' # <<>> /\ TailIsFree'
  BY <1>2, <1>3, <1>4, <1>5, <1>6 DEF TailIsFree, Last
<1>10. ASSUME NEW i \in 1..Len(chunks)
       PROVE  Disjoint(chunks[i], b) /\ Disjoint(b, chunks[i])
  BY <1>3, <1>6 DEF Disjoint, Block
<1>11. ChunksDisjoint'
  <2>1. SUFFICES ASSUME NEW i \in 1..Len(chunks'), NEW j \in 1..Len(chunks'), i # j
                 PROVE  Disjoint(chunks'[i], chunks'[j])
    BY DEF ChunksDisjoint
  <2>2. CASE i = Len(chunks')
    BY <1>6, <1>10, <2>1, <2>2
  <2>3. CASE j = Len(chunks')
    BY <1>6, <1>10, <2>1, <2>3
  <2>4. CASE i \in 1..Len(chunks) /\ j \in 1..Len(chunks)
    BY <1>6, <2>1, <2>4 DEF MemoryInv, ChunksDisjoint
  <2>5. QED BY <1>6, <2>2, <2>3, <2>4
<1>12. heap' = Range(chunks')
  <2>1. \A i \in 1..Len(chunks') : chunks'[i] \in heap'
    BY <1>1, <1>6
  <2>2. ASSUME NEW h \in heap' PROVE \E i \in 1..Len(chunks') : chunks'[i] = h
    <3>1. CASE h = b
      BY <1>6, <3>1
    <3>2. CASE h \in heap
      <4>1. PICK i \in 1..Len(chunks) : chunks[i] = h
        BY <3>2 DEF MemoryInv, Range
      <4>2. QED BY <1>6, <4>1
    <3>3. QED BY <1>1, <3>1, <3>2
  <2>3. QED BY <1>6, <2>1, <2>2 DEF Range
<1>13. ASSUME NEW r \in live
       PROVE  /\ \E i \in 1..Len(chunks) : Inside(r, chunks[i])
              /\ Disjoint(r, new)
              /\ Disjoint(new, r)
  <2>1. PICK i \in 1..Len(chunks) : Inside(r, chunks[i])
    BY DEF MemoryInv, LivePlaced
  <2>2. Disjoint(chunks[i], b) /\ Inside(r, chunks[i]) /\ Inside(new, b)
    BY <1>8, <1>10, <2>1
  <2>3. r.addr \in Nat /\ r.size \in Nat
    BY DEF MemoryInv
  <2>4. chunks[i].addr \in Nat /\ chunks[i].size \in Nat
    BY <1>6 DEF Block
  <2>5. new.addr \in Nat /\ new.size \in Nat
    BY <1>2, <1>3, <1>4
  <2>6. b.addr \in Nat /\ b.size \in Nat
    BY <1>3
  <2>7. Disjoint(r, new) /\ Disjoint(new, r)
    BY <2>2, <2>3, <2>4, <2>5, <2>6, DisjointWithin
  <2>8. QED BY <2>1, <2>7
<1>14. LivePlaced'
  <2>1. SUFFICES ASSUME NEW r \in live \cup {new}
                 PROVE  \E i \in 1..Len(chunks') :
                          /\ Inside(r, chunks'[i])
                          /\ i = Len(chunks') => r.addr + r.size <= avail_buf'
    BY <1>5 DEF LivePlaced
  <2>2. CASE r = new
    BY <1>6, <1>8, <2>2
  <2>3. CASE r \in live
    <3>1. PICK i \in 1..Len(chunks) : Inside(r, chunks[i])
      BY <1>13, <2>3
    <3>2. i \in 1..Len(chunks') /\ i # Len(chunks') /\ chunks'[i] = chunks[i]
      BY <1>6
    <3>3. QED BY <3>1, <3>2
  <2>4. QED BY <2>1, <2>2, <2>3
<1>15. LiveIsDisjoint'
  BY <1>5, <1>13 DEF LiveIsDisjoint, MemoryInv
<1>16. LiveIsAligned'
  BY <1>2, <1>3, <1>5, PaddingAligns DEF LiveIsAligned, MemoryInv, pad
<1>17. new.addr = avail_buf' - size /\ \A r \in live : r.addr # new.addr
  <2>1. new.addr = avail_buf' - size
    BY <1>2, <1>3, <1>4, <1>5
  <2>2. ASSUME NEW r \in live PROVE r.addr # new.addr
    BY <1>2, <1>3, <1>4, <1>13 DEF Disjoint, MemoryInv
  <2>3. QED BY <2>1, <2>2
<1>18. Fresh(new, size)
  <2>1. new.addr % new.align = 0
    BY <1>2, <1>3, PaddingAligns DEF pad
  <2>2. new \in [addr : Nat, size : Nat \ {0}, align : Nat \ {0}]
    BY <1>2, <1>3, <1>4
  <2>3. QED BY <1>5, <1>13, <1>17, <2>1, <2>2 DEF Fresh
<1>19. MemoryInv'
  BY <1>6, <1>7, <1>9, <1>11, <1>12, <1>14, <1>15, <1>16 DEF MemoryInv
<1>20. \E r \in live' : Fresh(r, size)
  BY <1>5, <1>18
<1>21. QED BY <1>9, <1>19, <1>20

(* Memory from either place: a region of its own, aligned, and the fields    *)
(* consistent again.                                                         *)
LEMMA TakeStep ==
  ASSUME MemoryInv, NEW size \in Sizes, NEW al \in Alignments, size # 0, Take(size, al)
  PROVE  MemoryInv' /\ chunks' # <<>> /\ \E new \in live' : Fresh(new, size)
<1>1. CASE FromCurrentChunk(size, al)
  BY <1>1, CurrentChunkStep
<1>2. CASE FromNewChunk(size, al)
  BY <1>2, NewChunkStep
<1>3. QED BY <1>1, <1>2 DEF Take

----------------------------------------------------------------------------
(* The invariant of the whole arena.  After ~Arena() nothing is left.       *)

(* Each finalizer not yet run stands for one object, in a live region.      *)
Pending == 1..(IF pc = "idle" THEN Len(finalizers) ELSE cursor)

FinalizersInv ==
  /\ pc # "idle" => cursor <= Len(finalizers)
  /\ pc = "dead" => cursor = 0
  /\ \A i \in Pending : \E r \in live : r.addr = finalizers[i]
  /\ \A i, j \in Pending : finalizers[i] = finalizers[j] => i = j
  /\ FinalizersMatchObjects

ArenaInv ==
  /\ TypeOK
  /\ pc = "reset" => chunks # <<>>
  /\ IF pc = "dead" THEN heap = {} /\ live = {} ELSE MemoryInv
  /\ FinalizersInv

(* A new arena owns nothing.                                                 *)
LEMMA InitInv == Init => ArenaInv
  BY DEF Init, ArenaInv, TypeOK, Block, MemoryInv, TailIsFree, ChunksDisjoint,
         LivePlaced, LiveIsDisjoint, LiveIsAligned, FinalizersInv, Pending,
         FinalizersMatchObjects, Range

(* A request without a destructor touches memory only.                       *)
LEMMA AllocateInv ==
  ASSUME ArenaInv, NEW size \in Sizes, NEW al \in Alignments, Allocate(size, al)
  PROVE  ArenaInv'
<1>1. /\ MemoryInv'
      /\ live \subseteq live'
      /\ pc = "idle"
      /\ UNCHANGED <<finalizers, cursor, built, pc>>
  BY TakeStep DEF Allocate, ArenaInv, finalizerVars, Fresh
<1>2. FinalizersInv'
  BY <1>1 DEF ArenaInv, FinalizersInv, FinalizersMatchObjects, Pending
<1>3. QED
  BY <1>1, <1>2 DEF ArenaInv, MemoryInv, TypeOK

(* The finalizer pushed last is the address of the region just carved, and  *)
(* no earlier object has that address.                                      *)
LEMMA CreateInv ==
  ASSUME ArenaInv, NEW size \in Sizes, NEW al \in Alignments, Create(size, al)
  PROVE  ArenaInv'
<1>1. /\ MemoryInv'
      /\ pc = "idle" /\ pc' = "idle"
      /\ cursor' = cursor
      /\ \E r \in live' : Fresh(r, size)
  BY TakeStep DEF Create, ArenaInv
<1>2. PICK new \in live' : Fresh(new, size)
  BY <1>1
<1> DEFINE n == Len(finalizers)
<1>3. /\ finalizers' = Append(finalizers, new.addr)
      /\ built' = built \cup {[addr |-> new.addr, nth |-> n + 1]}
      /\ new.addr \in Nat
      /\ live' = live \cup {new}
  BY <1>2 DEF Create, Fresh
<1>4. /\ n \in Nat
      /\ Len(finalizers') = n + 1
      /\ finalizers'[n + 1] = new.addr
      /\ \A i \in 1..n : finalizers'[i] = finalizers[i]
      /\ finalizers' \in Seq(Nat)
      /\ Pending = 1..n
      /\ Pending' = 1..(n + 1)
  BY <1>1, <1>3 DEF ArenaInv, TypeOK, Pending
<1> HIDE DEF n
<1>5. \A i \in 1..n : \E r \in live : r.addr = finalizers[i] /\ r.addr # new.addr
  BY <1>2, <1>4 DEF ArenaInv, FinalizersInv, Fresh
<1>6. \A i \in Pending' : \E r \in live' : r.addr = finalizers'[i]
  BY <1>3, <1>4, <1>5
<1>7. \A i, j \in Pending' : finalizers'[i] = finalizers'[j] => i = j
  BY <1>4, <1>5 DEF ArenaInv, FinalizersInv
<1>8. FinalizersMatchObjects'
  <2>1. built = {[addr |-> finalizers[i], nth |-> i] : i \in 1..n}
    BY <1>1, <1>4 DEF ArenaInv, FinalizersInv, FinalizersMatchObjects, n
  <2>2. built' = {[addr |-> finalizers'[i], nth |-> i] : i \in 1..(n + 1)}
    BY <1>3, <1>4, <2>1
  <2>3. QED BY <1>1, <1>4, <2>2 DEF FinalizersMatchObjects
<1>9. built' \subseteq [addr : Nat, nth : Nat]
  BY <1>3, <1>4 DEF ArenaInv, TypeOK
<1>10. FinalizersInv'
  BY <1>1, <1>6, <1>7, <1>8 DEF FinalizersInv
<1>11. QED
  BY <1>1, <1>4, <1>9, <1>10 DEF ArenaInv, MemoryInv, TypeOK

(* One destructor of the reverse walk: exactly the newest object goes.      *)
LEMMA RunFinalizerInv ==
  ASSUME ArenaInv, RunFinalizer
  PROVE  ArenaInv'
<1>1. /\ pc \in {"reset", "dtor"}
      /\ cursor \in 1..Len(finalizers)
      /\ cursor' = cursor - 1
      /\ built' = {o \in built : o.addr # finalizers[cursor]}
      /\ UNCHANGED <<chunks, avail_buf, avail_bytes, total_bytes, finalizers, pc, heap, live>>
  BY DEF RunFinalizer, arenaVars, ArenaInv, TypeOK, FinalizersInv
<1>2. Pending = 1..cursor /\ Pending' = 1..(cursor - 1)
  BY <1>1 DEF Pending
<1>3. built = {[addr |-> finalizers[i], nth |-> i] : i \in 1..cursor}
  BY <1>1 DEF ArenaInv, FinalizersInv, FinalizersMatchObjects
<1>4. \A i \in 1..cursor : finalizers[i] = finalizers[cursor] <=> i = cursor
  BY <1>1, <1>2 DEF ArenaInv, FinalizersInv
<1>5. built' = {[addr |-> finalizers[i], nth |-> i] : i \in 1..(cursor - 1)}
  BY <1>1, <1>3, <1>4
<1>6. FinalizersInv'
  BY <1>1, <1>2, <1>5 DEF ArenaInv, FinalizersInv, FinalizersMatchObjects
<1>7. TypeOK'
  BY <1>1 DEF ArenaInv, TypeOK
<1>8. (pc # "dead" => MemoryInv) => (pc' # "dead" => MemoryInv')
  BY <1>1 DEF MemoryInv, TailIsFree, Last, ChunksDisjoint, LivePlaced, LiveIsDisjoint, LiveIsAligned
<1>9. QED
  BY <1>1, <1>6, <1>7, <1>8 DEF ArenaInv

(* After the walk the first chunk, which overlaps nothing, is all there is. *)
LEMMA FinishResetInv ==
  ASSUME ArenaInv, FinishReset
  PROVE  ArenaInv'
<1>1. /\ pc = "reset" /\ pc' = "idle"
      /\ cursor = 0 /\ cursor' = 0
      /\ finalizers' = <<>>
      /\ chunks' = SubSeq(chunks, 1, 1)
      /\ heap' = heap \ {chunks[i] : i \in 2..Len(chunks)}
      /\ avail_buf' = chunks[1].addr
      /\ avail_bytes' = chunks[1].size
      /\ total_bytes' = chunks[1].size
      /\ live' = {}
      /\ built' = built
  BY DEF FinishReset, KeepChunk
<1>2. MemoryInv /\ chunks # <<>> /\ chunks \in Seq(Block)
  BY <1>1 DEF ArenaInv, MemoryInv
<1>3. /\ Len(chunks) \in Nat \ {0}
      /\ chunks[1] \in Block
      /\ chunks' \in Seq(Block)
      /\ Len(chunks') = 1
      /\ chunks'[1] = chunks[1]
  <2>1. Len(chunks) \in Nat \ {0} /\ chunks[1] \in Block
    BY <1>2
  <2>2. \A i \in 1..1 : chunks[i] \in Block
    BY <2>1
  <2>3. /\ SubSeq(chunks, 1, 1) \in Seq(Block)
        /\ Len(SubSeq(chunks, 1, 1)) = 1
        /\ SubSeq(chunks, 1, 1)[1] = chunks[1]
    BY <2>2, SubSeqProperties
  <2>4. QED BY <1>1, <2>1, <2>3
<1>4. chunks[1].addr \in Nat /\ chunks[1].size \in Nat \ {0}
  BY <1>3 DEF Block
<1>5. heap' = {chunks[1]}
  <2>1. heap = {chunks[i] : i \in 1..Len(chunks)}
    BY <1>2 DEF MemoryInv, Range
  <2>2. \A i \in 2..Len(chunks) : chunks[i] # chunks[1]
    <3>1. SUFFICES ASSUME NEW i \in 2..Len(chunks), chunks[i] = chunks[1] PROVE FALSE
      OBVIOUS
    <3>2. Disjoint(chunks[1], chunks[1])
      BY <1>2, <1>3, <3>1 DEF MemoryInv, ChunksDisjoint
    <3>3. QED BY <1>4, <3>2 DEF Disjoint
  <2>3. QED BY <1>1, <1>3, <2>1, <2>2
<1>6. MemoryInv'
  BY <1>1, <1>3, <1>4, <1>5
  DEF MemoryInv, TailIsFree, Last, ChunksDisjoint, LivePlaced, LiveIsDisjoint, LiveIsAligned, Range
<1>7. built = {} /\ FinalizersInv'
  BY <1>1 DEF ArenaInv, FinalizersInv, FinalizersMatchObjects, Pending
<1>8. QED
  BY <1>1, <1>6, <1>7 DEF ArenaInv, MemoryInv, TypeOK

(* ~Arena frees every chunk, and nothing is live or built by then.           *)
LEMMA FinishDestroyInv ==
  ASSUME ArenaInv, FinishDestroy
  PROVE  ArenaInv'
<1>1. heap = Range(chunks) /\ built = {}
  BY DEF FinishDestroy, ArenaInv, MemoryInv, FinalizersInv, FinalizersMatchObjects
<1>2. QED
  BY <1>1 DEF FinishDestroy, arenaVars, ArenaInv, TypeOK, FinalizersInv,
              FinalizersMatchObjects, Pending

(* The steps that begin Reset or ~Arena, or change nothing.                 *)
LEMMA BeginInv ==
  ASSUME ArenaInv, BeginReset \/ BeginDestroy
  PROVE  ArenaInv'
<1>1. MemoryInv'
  BY DEF BeginReset, BeginDestroy, arenaVars, ArenaInv, MemoryInv, TailIsFree, Last,
         ChunksDisjoint, LivePlaced, LiveIsDisjoint, LiveIsAligned
<1>2. FinalizersInv'
  <2>1. /\ pc = "idle" /\ pc' \in {"reset", "dtor"}
        /\ finalizers' = finalizers
        /\ cursor' = Len(finalizers)
        /\ built' = built
        /\ live' = live
    BY DEF BeginReset, BeginDestroy
  <2>2. Len(finalizers) \in Nat
    BY DEF ArenaInv, TypeOK
  <2>3. Pending = 1..Len(finalizers) /\ Pending' = 1..Len(finalizers)
    BY <2>1 DEF Pending
  <2>4. FinalizersMatchObjects'
    BY <2>1 DEF ArenaInv, FinalizersInv, FinalizersMatchObjects
  <2>5. QED
    BY <2>1, <2>2, <2>3, <2>4 DEF ArenaInv, FinalizersInv
<1>3. QED
  BY <1>1, <1>2 DEF BeginReset, BeginDestroy, arenaVars, ArenaInv, TypeOK

(* A request that returns nullptr leaves everything alone.                   *)
LEMMA StutterInv ==
  ASSUME ArenaInv, UNCHANGED vars
  PROVE  ArenaInv'
  BY DEF vars, arenaVars, finalizerVars, ArenaInv, TypeOK, MemoryInv, TailIsFree, Last,
         ChunksDisjoint, LivePlaced, LiveIsDisjoint, LiveIsAligned, FinalizersInv,
         FinalizersMatchObjects, Pending

(* Every step of the arena keeps the invariant.                              *)
LEMMA NextInv ==
  ASSUME ArenaInv, [Next]_vars
  PROVE  ArenaInv'
<1>1. ASSUME NEW size \in Sizes, NEW al \in Alignments, Allocate(size, al)
      PROVE  ArenaInv'
  BY <1>1, AllocateInv
<1>2. ASSUME NEW size \in Sizes, NEW al \in Alignments, AllocateNull(size, al)
      PROVE  ArenaInv'
  BY <1>2, StutterInv DEF AllocateNull
<1>3. ASSUME NEW size \in Sizes, NEW al \in Alignments, Create(size, al)
      PROVE  ArenaInv'
  BY <1>3, CreateInv
<1>4. CASE BeginReset \/ BeginDestroy
  BY <1>4, BeginInv
<1>5. CASE RunFinalizer
  BY <1>5, RunFinalizerInv
<1>6. CASE FinishReset
  BY <1>6, FinishResetInv
<1>7. CASE FinishDestroy
  BY <1>7, FinishDestroyInv
<1>8. CASE UNCHANGED vars
  BY <1>8, StutterInv
<1>9. QED BY <1>1, <1>2, <1>3, <1>4, <1>5, <1>6, <1>7, <1>8 DEF Next

(* The invariant holds in every reachable state.                             *)
LEMMA Invariance == Spec => []ArenaInv
<1>1. Init => ArenaInv
  BY InitInv
<1>2. ArenaInv /\ [Next]_vars => ArenaInv'
  BY NextInv
<1>3. QED BY <1>1, <1>2, PTL DEF Spec

----------------------------------------------------------------------------
(* The arena's fields keep their types: avail_bytes_ never wraps below zero *)
(* (src/arena.cc:60), whatever the order of requests and Resets.            *)
THEOREM TypeCorrect == Spec => []TypeOK
  BY Invariance, PTL DEF ArenaInv

(* No two live regions share a byte, whichever chunks served them.          *)
THEOREM RegionsNeverOverlap == Spec => []LiveIsDisjoint
<1>1. ArenaInv => LiveIsDisjoint
  BY DEF ArenaInv, MemoryInv, LiveIsDisjoint
<1>2. QED BY Invariance, <1>1, PTL

(* Every live region has the alignment its caller asked for.                *)
THEOREM RegionsAreAligned == Spec => []LiveIsAligned
<1>1. ArenaInv => LiveIsAligned
  BY DEF ArenaInv, MemoryInv, LiveIsAligned
<1>2. QED BY Invariance, <1>1, PTL

(* A live region lies in a block that Free() has not returned to malloc.    *)
THEOREM RegionsAreBacked == Spec => []LiveIsBacked
<1>1. ArenaInv => LiveIsBacked
  <2>1. SUFFICES ASSUME ArenaInv, NEW r \in live
                 PROVE  \E b \in heap : Inside(r, b)
    BY DEF LiveIsBacked
  <2>2. MemoryInv
    BY <2>1 DEF ArenaInv
  <2>3. PICK i \in 1..Len(chunks) : Inside(r, chunks[i])
    BY <2>2 DEF MemoryInv, LivePlaced
  <2>4. chunks[i] \in heap
    BY <2>2, <2>3 DEF MemoryInv, Range
  <2>5. QED BY <2>3, <2>4
<1>2. QED BY Invariance, <1>1, PTL

(* What malloc has outstanding is what the arena lists, and nothing once    *)
(* ~Arena() is over: ReleaseChunks frees each chunk, and only once.         *)
THEOREM NothingLeaks == Spec => []NoLeak
<1>1. ArenaInv => NoLeak
  BY DEF ArenaInv, MemoryInv, NoLeak
<1>2. QED BY Invariance, <1>1, PTL

(* The objects alive are those RunFinalizers has not reached, each in a     *)
(* live region.                                                             *)
THEOREM DestroyedOnceNewestFirst == Spec => [](FinalizersMatchObjects /\ FinalizerStorageLive)
<1>1. ArenaInv => FinalizersMatchObjects /\ FinalizerStorageLive
  BY DEF ArenaInv, FinalizersInv, FinalizersMatchObjects, FinalizerStorageLive, Pending
<1>2. QED BY Invariance, <1>1, PTL

----------------------------------------------------------------------------
(* Reset never lets go of the first chunk, the one every later batch reuses. *)
THEOREM FirstChunkStays == Spec => FirstChunkIsKept
<1>1. ASSUME ArenaInv, [Next]_vars, chunks # <<>>
      PROVE  chunks' # <<>> /\ chunks'[1] = chunks[1]
  <2>1. chunks \in Seq(Block) /\ Len(chunks) \in Nat \ {0} /\ chunks[1] \in Block
    BY <1>1 DEF ArenaInv, TypeOK
  <2>2. ASSUME NEW size \in Sizes, NEW al \in Alignments, FromNewChunk(size, al)
        PROVE  chunks' # <<>> /\ chunks'[1] = chunks[1]
    BY <2>1, <2>2 DEF FromNewChunk
  <2>3. ASSUME NEW size \in Sizes, NEW al \in Alignments, Take(size, al)
        PROVE  chunks' # <<>> /\ chunks'[1] = chunks[1]
    BY <1>1, <2>2, <2>3 DEF Take, FromCurrentChunk
  <2>4. CASE FinishReset
    <3>1. chunks' = SubSeq(chunks, 1, 1)
      BY <2>4 DEF FinishReset, KeepChunk
    <3>2. \A i \in 1..1 : chunks[i] \in Block
      BY <2>1
    <3>3. Len(chunks') = 1 /\ chunks'[1] = chunks[1]
      BY <3>1, <3>2, SubSeqProperties
    <3>4. QED BY <3>3
  <2>5. CASE chunks' = chunks
    BY <1>1, <2>5
  <2>6. QED
    BY <1>1, <2>3, <2>4, <2>5
    DEF Next, Allocate, AllocateNull, Create, BeginReset, BeginDestroy, RunFinalizer,
        FinishDestroy, vars, arenaVars
<1>2. QED BY Invariance, <1>1, PTL DEF Spec, FirstChunkIsKept

----------------------------------------------------------------------------
(* The refinement.  A request that returned memory is Pool!Allocate, or     *)
(* Pool!Create when it leaves an object; a destructor is                    *)
(* Pool!DestroyNewest; the end of Reset or ~Arena is Pool!Empty.            *)

(* A region just carved is one Pool!Extend may add.                          *)
LEMMA FreshExtends ==
  ASSUME NEW new \in live', NEW size, Fresh(new, size)
  PROVE  Pool!Extend(new)
  BY DEF Fresh, Pool!Extend, Pool!Disjoint, Disjoint

(* Memory without an object is Pool!Allocate.                                *)
LEMMA AllocateRefines ==
  ASSUME ArenaInv, NEW size \in Sizes, NEW al \in Alignments, Allocate(size, al)
  PROVE  Pool!Allocate
<1>1. (\E new \in live' : Fresh(new, size)) /\ built' = built
  BY TakeStep DEF Allocate, ArenaInv, finalizerVars
<1>2. QED BY <1>1, FreshExtends DEF Pool!Allocate

(* An object pushed on finalizers_ is the newest of the pool.                *)
LEMMA CreateRefines ==
  ASSUME ArenaInv, NEW size \in Sizes, NEW al \in Alignments, Create(size, al)
  PROVE  Pool!Create
<1>1. PICK new \in live' : Fresh(new, size)
  BY TakeStep DEF Create, ArenaInv
<1> DEFINE o == [addr |-> new.addr, nth |-> Len(finalizers) + 1]
<1>2. /\ o.addr = new.addr
      /\ built' = built \cup {o}
      /\ o \in built'
  BY <1>1 DEF Create, Fresh
<1>3. Pool!Newest(o, built)
  <2>1. Len(finalizers) \in Nat
    BY DEF ArenaInv, TypeOK
  <2>2. \A p \in built : p.nth \in 1..Len(finalizers)
    BY DEF Create, ArenaInv, FinalizersInv, FinalizersMatchObjects
  <2>3. QED BY <2>1, <2>2 DEF Pool!Newest
<1>4. QED BY <1>1, <1>2, <1>3, FreshExtends DEF Pool!Create

(* The object the reverse walk reaches is the newest left.                   *)
LEMMA RunFinalizerRefines ==
  ASSUME ArenaInv, RunFinalizer
  PROVE  Pool!DestroyNewest
<1>1. /\ cursor \in 1..Len(finalizers)
      /\ built' = {p \in built : p.addr # finalizers[cursor]}
      /\ live' = live
      /\ pc # "idle"
  BY DEF RunFinalizer, ArenaInv, TypeOK, FinalizersInv
<1>2. built = {[addr |-> finalizers[i], nth |-> i] : i \in 1..cursor}
  BY <1>1 DEF ArenaInv, FinalizersInv, FinalizersMatchObjects
<1>3. \A i \in 1..cursor : finalizers[i] = finalizers[cursor] <=> i = cursor
  BY <1>1 DEF ArenaInv, FinalizersInv, Pending
<1> DEFINE o == [addr |-> finalizers[cursor], nth |-> cursor]
<1>4. o \in built /\ built' = built \ {o}
  BY <1>1, <1>2, <1>3
<1>5. Pool!Newest(o, built \ {o})
  <2>1. \A p \in built \ {o} : p.nth \in 1..cursor /\ p.nth # cursor
    BY <1>2
  <2>2. QED BY <1>1, <2>1 DEF Pool!Newest
<1>6. QED BY <1>1, <1>4, <1>5 DEF Pool!DestroyNewest

(* When the storage goes no object is left in it.                            *)
LEMMA FinishRefines ==
  ASSUME ArenaInv, FinishReset \/ FinishDestroy
  PROVE  Pool!Empty
<1>1. built = {} /\ built' = built /\ live' = {}
  BY DEF FinishReset, KeepChunk, FinishDestroy, ArenaInv, FinalizersInv, FinalizersMatchObjects
<1>2. QED BY <1>1 DEF Pool!Empty

(* Whatever its chunks do, the arena is to its callers a pool of disjoint   *)
(* aligned regions whose objects are destroyed newest first, before any     *)
(* storage is given back.                                                   *)
THEOREM ArenaImplementsPool == Spec => ImplementsPool
<1>1. Init => Pool!Init
  BY DEF Init, Pool!Init
<1>2. ASSUME ArenaInv, [Next]_vars PROVE [Pool!Next]_(Pool!vars)
  <2>1. ASSUME NEW size \in Sizes, NEW al \in Alignments,
               Allocate(size, al) \/ AllocateNull(size, al) \/ Create(size, al)
        PROVE  [Pool!Next]_(Pool!vars)
    BY <1>2, <2>1, AllocateRefines, CreateRefines DEF AllocateNull, vars, Pool!Next, Pool!vars, finalizerVars
  <2>2. CASE RunFinalizer
    BY <1>2, <2>2, RunFinalizerRefines DEF Pool!Next
  <2>3. CASE FinishReset \/ FinishDestroy
    BY <1>2, <2>3, FinishRefines DEF Pool!Next
  <2>4. CASE BeginReset \/ BeginDestroy \/ UNCHANGED vars
    BY <2>4 DEF BeginReset, BeginDestroy, vars, finalizerVars, Pool!vars
  <2>5. QED BY <1>2, <2>1, <2>2, <2>3, <2>4 DEF Next
<1>3. QED BY Invariance, <1>1, <1>2, PTL DEF Spec, ImplementsPool, Pool!Spec
=============================================================================
