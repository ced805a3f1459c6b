------------------------------- MODULE Arena --------------------------------
(***************************************************************************)
(* The bump allocator of include/arena.h and src/arena.cc.                 *)
(*                                                                         *)
(* An arena owns chunks obtained from malloc and serves requests from the  *)
(* tail of the newest one.  Addresses are integers, 0 is the null pointer. *)
(* The heap behind malloc is external: it hands out any suitably aligned   *)
(* block that is clear of the blocks still allocated, or nothing at all.   *)
(*                                                                         *)
(* Reset() and ~Arena() call user destructors one at a time, so they take  *)
(* several steps here: a step per destructor, then one for the rest.       *)
(***************************************************************************)
EXTENDS Integers, Sequences, Functions

CONSTANTS
  MinChunkSize,   \* min_chunk_size_, given to the constructor
  Sizes,          \* request sizes, 0 among them
  Alignments,     \* requested alignments, powers of two
  MaxAlign,       \* alignof(std::max_align_t): what malloc guarantees
  HeapTop         \* bound: the last address of the heap

ASSUME ArenaAssumption ==
  /\ MinChunkSize \in Nat
  /\ Sizes \subseteq Nat
  /\ Alignments \subseteq Nat \ {0}
  /\ MaxAlign \in Nat \ {0}
  /\ HeapTop \in Nat

VARIABLES
  chunks,         \* chunks_: blocks in the order they were allocated
  avail_buf,      \* avail_buf_: next free address of the newest chunk
  avail_bytes,    \* avail_bytes_: bytes left behind avail_buf
  total_bytes,    \* total_bytes_
  finalizers,     \* finalizers_: object addresses in registration order
  cursor,         \* RunFinalizers: finalizers not yet run
  pc,             \* "idle", "reset" (in Reset), "dtor" (in ~Arena), "dead"
  heap,           \* malloc's side: the blocks not yet freed
  live,           \* the callers' side: regions handed out since the last Reset
  built           \* the callers' side: the objects not yet destroyed, [addr, nth]

arenaVars == <<chunks, avail_buf, avail_bytes, total_bytes>>
finalizerVars == <<finalizers, cursor, built>>
vars == <<arenaVars, finalizerVars, pc, heap, live>>

----------------------------------------------------------------------------
Disjoint(r, s) == r.addr + r.size <= s.addr \/ s.addr + s.size <= r.addr

Inside(r, s) == s.addr <= r.addr /\ r.addr + r.size <= s.addr + s.size

(* Bytes to skip so that addr becomes a multiple of al: (-addr) & (al-1).  *)
Padding(addr, al) == (0 - addr) % al

(* The blocks malloc may return for a request of n bytes. *)
Malloc(n) ==
  {b \in [addr : 1..HeapTop, size : {n}] :
     /\ b.addr % MaxAlign = 0
     /\ b.addr + b.size <= HeapTop + 1
     /\ \A h \in heap : Disjoint(b, h)}

Init ==
  /\ chunks = <<>>
  /\ avail_buf = 0
  /\ avail_bytes = 0
  /\ total_bytes = 0
  /\ finalizers = <<>>
  /\ cursor = 0
  /\ pc = "idle"
  /\ heap = {}
  /\ live = {}
  /\ built = {}

----------------------------------------------------------------------------
(* Allocate and Create                                                     *)

(* Mutants of Carve: the padding is not skipped over; and the padding       *)
(* computed before AllocateChunk is used in the fresh chunk.                *)
CarveForgetsPadding(buf, bytes, size, al) ==
  LET pad == Padding(buf, al)
  IN  /\ avail_buf' = buf + size
      /\ avail_bytes' = bytes - size
      /\ live' = live \cup {[addr |-> buf + pad, size |-> size, align |-> al]}

CarveStalePadding(buf, bytes, size, al) ==
  LET pad == Padding(avail_buf, al)
  IN  /\ avail_buf' = buf + (size + pad)
      /\ avail_bytes' = bytes - (size + pad)
      /\ live' = live \cup {[addr |-> buf + pad, size |-> size, align |-> al]}

(* Take size bytes aligned to al from the free bytes at buf. *)
Carve(buf, bytes, size, al) ==
  LET pad == Padding(buf, al)
  IN  /\ avail_buf' = buf + (size + pad)
      /\ avail_bytes' = bytes - (size + pad)
      /\ live' = live \cup {[addr |-> buf + pad, size |-> size, align |-> al]}

(* Mutant of Fits: the padding is forgotten. *)
FitsUnpadded(size, al) == avail_bytes >= size

Fits(size, al) == avail_bytes >= size + Padding(avail_buf, al)

FromCurrentChunk(size, al) ==
  /\ Fits(size, al)
  /\ Carve(avail_buf, avail_bytes, size, al)
  /\ UNCHANGED <<chunks, total_bytes, heap>>

(* Over-allocate by al - 1, so that the request fits wherever the block is. *)
ChunkSize(size, al) ==
  IF size + al - 1 >= MinChunkSize THEN size + al - 1 ELSE MinChunkSize

(* AllocateChunk: what is left of the previous chunk is never used again.   *)
FromNewChunk(size, al) ==
  /\ ~ Fits(size, al)
  /\ \E b \in Malloc(ChunkSize(size, al)) :
       /\ chunks' = Append(chunks, b)
       /\ heap' = heap \cup {b}
       /\ total_bytes' = total_bytes + b.size
       /\ Carve(b.addr, b.size, size, al)

Take(size, al) == FromCurrentChunk(size, al) \/ FromNewChunk(size, al)

(* Allocate(size, al) that returns memory; also Create<T> of a trivially    *)
(* destructible T, which registers no finalizer.                            *)
Allocate(size, al) ==
  /\ pc = "idle"
  /\ size # 0
  /\ Take(size, al)
  /\ UNCHANGED <<finalizerVars, pc>>

(* A request that returns nullptr: nothing asked for, or malloc gave nothing. *)
AllocateNull(size, al) ==
  /\ pc = "idle"
  /\ size = 0 \/ ~ Fits(size, al)
  /\ UNCHANGED vars

(* Create<T> of a T with a destructor: the finalizer is pushed after the    *)
(* constructor returned.  The object's address is the one just carved.      *)
Create(size, al) ==
  /\ pc = "idle"
  /\ size # 0
  /\ Take(size, al)
  /\ finalizers' = Append(finalizers, avail_buf' - size)
  /\ built' = built \cup {[addr |-> avail_buf' - size, nth |-> Len(finalizers) + 1]}
  /\ UNCHANGED <<cursor, pc>>

----------------------------------------------------------------------------
(* Reset and ~Arena                                                        *)

BeginReset ==
  /\ pc = "idle"
  /\ chunks # <<>>                 \* an arena with no chunk returns at once
  /\ pc' = "reset"
  /\ cursor' = Len(finalizers)
  /\ UNCHANGED <<arenaVars, finalizers, built, heap, live>>

BeginDestroy ==
  /\ pc = "idle"
  /\ pc' = "dtor"
  /\ cursor' = Len(finalizers)
  /\ UNCHANGED <<arenaVars, finalizers, built, heap, live>>

(* Mutant of RunFinalizer: the walk goes forward. *)
RunFinalizerForward ==
  /\ pc \in {"reset", "dtor"}
  /\ cursor > 0
  /\ built' = {o \in built : o.addr # finalizers[Len(finalizers) + 1 - cursor]}
  /\ cursor' = cursor - 1
  /\ UNCHANGED <<arenaVars, finalizers, pc, heap, live>>

(* One iteration of the reverse walk of RunFinalizers: ~T() of one object. *)
RunFinalizer ==
  /\ pc \in {"reset", "dtor"}
  /\ cursor > 0
  /\ built' = {o \in built : o.addr # finalizers[cursor]}
  /\ cursor' = cursor - 1
  /\ UNCHANGED <<arenaVars, finalizers, pc, heap, live>>

(* Clear the finalizers, free the returned chunks, and keep one chunk with *)
(* the bump pointer at buf.                                                 *)
KeepChunk(n, buf, total, returned) ==
  /\ pc = "reset"
  /\ finalizers' = <<>>
  /\ chunks' = SubSeq(chunks, n, n)
  /\ heap' = heap \ {chunks[i] : i \in returned}
  /\ avail_buf' = buf
  /\ avail_bytes' = chunks[n].size
  /\ total_bytes' = total
  /\ live' = {}
  /\ pc' = "idle"
  /\ UNCHANGED <<cursor, built>>

(* Mutants of FinishReset: storage is reused before the finalizers ran; the *)
(* bump pointer stays where it was; chunks are dropped without Free().      *)
FinishResetEarly == KeepChunk(1, chunks[1].addr, chunks[1].size, 2..Len(chunks))

FinishResetStalePointer ==
  cursor = 0 /\ KeepChunk(1, avail_buf, chunks[1].size, 2..Len(chunks))

FinishResetLeaks == cursor = 0 /\ KeepChunk(1, chunks[1].addr, chunks[1].size, {})

(* The rest of Reset, once every destructor ran: every chunk but the first  *)
(* is freed, and the arena starts over at its beginning.                    *)
FinishReset ==
  cursor = 0 /\ KeepChunk(1, chunks[1].addr, chunks[1].size, 2..Len(chunks))

FinishDestroy ==
  /\ pc = "dtor"
  /\ cursor = 0
  /\ finalizers' = <<>>
  /\ heap' = heap \ Range(chunks)
  /\ live' = {}
  /\ pc' = "dead"
  /\ UNCHANGED <<arenaVars, cursor, built>>

Next ==
  \/ \E size \in Sizes, al \in Alignments :
       Allocate(size, al) \/ AllocateNull(size, al) \/ Create(size, al)
  \/ BeginReset
  \/ BeginDestroy
  \/ RunFinalizer
  \/ FinishReset
  \/ FinishDestroy

Spec == Init /\ [][Next]_vars

----------------------------------------------------------------------------
(* Properties                                                              *)

Block == [addr : Nat \ {0}, size : Nat \ {0}]

(* Types of the arena's fields and of the two sides it serves. *)
TypeOK ==
  /\ chunks \in Seq(Block)
  /\ avail_buf \in Nat
  /\ avail_bytes \in Nat
  /\ total_bytes \in Nat
  /\ finalizers \in Seq(Nat)
  /\ cursor \in Nat
  /\ pc \in {"idle", "reset", "dtor", "dead"}
  /\ heap \subseteq Block
  /\ live \subseteq [addr : Nat, size : Nat \ {0}, align : Nat \ {0}]
  /\ built \subseteq [addr : Nat, nth : Nat]

(* Every pointer Allocate has returned since the last Reset still points at *)
(* memory the arena owns: no caller holds bytes of a freed chunk.           *)
LiveIsBacked == \A r \in live : \E b \in heap : Inside(r, b)

(* Two requests never share a byte, across chunks and after over-aligned    *)
(* requests, whose padding moves the bump pointer by more than their size.  *)
LiveIsDisjoint == \A r, s \in live : r # s => Disjoint(r, s)

(* Every returned pointer has the alignment asked for, stricter ones than   *)
(* malloc's included (the chunk is over-allocated for them).                *)
LiveIsAligned == \A r \in live : r.addr % r.align = 0

(* Free() is reached exactly once per chunk: what malloc has outstanding is *)
(* what the arena lists, and after ~Arena() nothing is.                     *)
NoLeak == heap = IF pc = "dead" THEN {} ELSE Range(chunks)

(* Each constructed object is destroyed once and last-in first-out: what is *)
(* alive is what the walk of RunFinalizers has not reached.                 *)
FinalizersMatchObjects ==
  built = {[addr |-> finalizers[i], nth |-> i] :
             i \in 1..(IF pc = "idle" THEN Len(finalizers) ELSE cursor)}

(* Every object not yet destroyed has its storage, and its storage alone,   *)
(* while destructors run: Reset gives nothing back before the last one.     *)
FinalizerStorageLive == \A o \in built : \E r \in live : r.addr = o.addr

(* Reset keeps the first chunk: whatever fits in it is served again without *)
(* a call to malloc, which is why the engine reuses contexts.               *)
FirstChunkIsKept ==
  [][chunks # <<>> => chunks' # <<>> /\ chunks'[1] = chunks[1]]_vars

(* Through Allocate, Create, Reset and ~Arena the arena behaves as a pool   *)
(* of disjoint aligned regions, with objects destroyed newest first.        *)
Pool == INSTANCE RegionPool WITH regions <- live, objects <- built
ImplementsPool == Pool!Spec
=============================================================================
