-------------------------- MODULE ExecutionProofs ---------------------------
(***************************************************************************)
(* Proofs about Execution, for any threads, entries, blocks and bounds.    *)
(*                                                                         *)
(* What a caller is promised (StartsClean, ErrorsAreOwn, CopiesAreOwn) and *)
(* what the arenas are (NothingLost) hold together or not at all: a block  *)
(* that two runs thought their own would be freed by one of them under the *)
(* other's result.  ExecutionInv says of each thread which context may     *)
(* hold anything, that its regions carry the tag of the run in progress,   *)
(* and that the errors in it are those not yet reported.                   *)
(***************************************************************************)
EXTENDS Execution, TLAPS

Tags == Threads \X Nat \X (1..NumEntries)
Contexts == [regions : SUBSET Blocks, errors : SUBSET Tags]
Results ==
  {NoResult} \cup [how : {"copy", "pointer"}, addr : Blocks, tag : Tags \cup {Free}]

TypeOK ==
  /\ pc \in [Threads -> {"idle", "running", "returned"}]
  /\ args \in [Threads -> Calls]
  /\ index \in [Threads -> 1..NumEntries]
  /\ calls \in [Threads -> Nat]
  /\ work \in [Threads -> Nat]
  /\ ctx \in [Threads -> [BOOLEAN -> Contexts]]
  /\ heap \in [Blocks -> Tags \cup {Free}]
  /\ results \in [Threads -> [1..NumEntries -> Results]]
  /\ reported \in [Threads -> SUBSET Tags]
  /\ raised \in [Threads -> SUBSET Tags]

(* A thread uses the context its call was given, and only until Report. *)
UnusedAreClean ==
  \A t \in Threads :
    /\ \A own \in BOOLEAN : own # args[t].own => ctx[t][own] = Clean
    /\ pc[t] = "idle" \/ (pc[t] = "running" /\ work[t] = 0) => Context(t) = Clean

(* The regions of a context were allocated by the run in progress. *)
RegionsAreTagged == \A t \in Threads : \A a \in Context(t).regions : heap[a] = Tag(t)

(* Errors are reported or still in the context. *)
ErrorsAreKept == \A t \in Threads : raised[t] = reported[t] \cup Context(t).errors

(* Every block in use is a region of the thread that allocated it. *)
BlocksAreHeld ==
  \A a \in Blocks : heap[a] # Free => \E own \in BOOLEAN : a \in ctx[heap[a][1]][own].regions

ExecutionInv ==
  /\ TypeOK
  /\ UnusedAreClean
  /\ RegionsAreTagged
  /\ ErrorsAreKept
  /\ BlocksAreHeld
  /\ CopiesAreOwn

----------------------------------------------------------------------------
LEMMA InitEstablishes == Init => ExecutionInv
<1> SUFFICES ASSUME Init PROVE ExecutionInv
  OBVIOUS
<1>1. TypeOK
  <2>1. Clean \in Contexts
    BY DEF Clean, Contexts
  <2>a. [all |-> FALSE, boxed |-> FALSE, own |-> FALSE] \in Calls
    BY DEF Calls
  <2>2. args \in [Threads -> Calls]
    BY <2>a DEF Init
  <2>3. index \in [Threads -> 1..NumEntries]
    BY ExecutionAssumption DEF Init
  <2>4. results \in [Threads -> [1..NumEntries -> Results]]
    BY DEF Init, Results
  <2>5. QED BY <2>1, <2>2, <2>3, <2>4 DEF Init, TypeOK
<1>2. \A t \in Threads, own \in BOOLEAN : ctx[t][own] = Clean
  BY DEF Init
<1>3. \A t \in Threads : args[t].own \in BOOLEAN /\ Context(t) = Clean
  BY <1>1, <1>2 DEF TypeOK, Calls, Context
<1>4. UnusedAreClean /\ RegionsAreTagged /\ ErrorsAreKept
  BY <1>2, <1>3 DEF Init, UnusedAreClean, RegionsAreTagged, ErrorsAreKept, Clean
<1>5. BlocksAreHeld
  BY DEF Init, BlocksAreHeld
<1>6. CopiesAreOwn
  BY DEF Init, CopiesAreOwn, NoResult
<1>7. QED BY <1>1, <1>4, <1>5, <1>6 DEF ExecutionInv

(* A call starts from an idle thread, whose contexts are both clean. *)
LEMMA BeginPreserves ==
  ASSUME ExecutionInv, NEW t \in Threads, Begin(t)
  PROVE  ExecutionInv'
<1> USE DEF ExecutionInv
<1>1. PICK a \in Calls, i \in 1..NumEntries :
        args' = [args EXCEPT ![t] = a] /\ index' = [index EXCEPT ![t] = i]
  BY DEF Begin
<1>2. /\ pc[t] = "idle"
      /\ pc' = [pc EXCEPT ![t] = "running"]
      /\ calls' = [calls EXCEPT ![t] = @ + 1]
      /\ work' = [work EXCEPT ![t] = 0]
      /\ results' = [results EXCEPT ![t] = [j \in 1..NumEntries |-> NoResult]]
      /\ reported' = [reported EXCEPT ![t] = {}]
      /\ raised' = [raised EXCEPT ![t] = {}]
      /\ ctx' = ctx /\ heap' = heap
  BY DEF Begin
<1>3. TypeOK'
  BY <1>1, <1>2 DEF TypeOK, Results
<1>4. \A own \in BOOLEAN : ctx[t][own] = Clean
  BY <1>2 DEF UnusedAreClean, Context
<1>5. Context(t)' = Clean
  BY <1>1, <1>2, <1>4 DEF TypeOK, Calls, Context
<1>6. \A s \in Threads \ {t} : Context(s)' = Context(s) /\ Tag(s)' = Tag(s)
  BY <1>1, <1>2 DEF TypeOK, Context, Tag
<1>7. UnusedAreClean'
  BY <1>1, <1>2, <1>4, <1>5, <1>6 DEF TypeOK, UnusedAreClean
<1>8. RegionsAreTagged'
  BY <1>2, <1>5, <1>6 DEF RegionsAreTagged, Clean
<1>9. ErrorsAreKept'
  BY <1>2, <1>5, <1>6 DEF TypeOK, ErrorsAreKept, Clean
<1>10. BlocksAreHeld'
  BY <1>2 DEF BlocksAreHeld
<1>11. CopiesAreOwn'
  BY <1>2 DEF TypeOK, CopiesAreOwn, NoResult
<1>12. QED BY <1>3, <1>7, <1>8, <1>9, <1>10, <1>11

(* A block that is free is in no context, so the new region is in one only. *)
LEMMA AllocateRegionPreserves ==
  ASSUME ExecutionInv, NEW t \in Threads, AllocateRegion(t)
  PROVE  ExecutionInv'
<1> USE DEF ExecutionInv
<1>1. PICK a \in Blocks :
        /\ heap[a] = Free
        /\ heap' = [heap EXCEPT ![a] = Tag(t)]
        /\ ctx' = [ctx EXCEPT ![t][args[t].own].regions = @ \cup {a}]
  BY DEF AllocateRegion
<1>2. /\ pc[t] = "running"
      /\ work' = [work EXCEPT ![t] = @ + 1]
      /\ UNCHANGED <<pc, args, index, calls, results, reported, raised>>
  BY DEF AllocateRegion
<1>3. Tag(t) \in Tags /\ Tag(t) # Free /\ args[t].own \in BOOLEAN
  BY DEF TypeOK, Tag, Tags, Free, Calls
<1>4. TypeOK'
  <2> DEFINE c == [Context(t) EXCEPT !.regions = @ \cup {a}]
  <2>0. Context(t) \in Contexts
    BY <1>3 DEF TypeOK, Context
  <2>1. c \in Contexts
    BY <2>0 DEF Contexts
  <2>a. ctx' = [ctx EXCEPT ![t] = [ctx[t] EXCEPT ![args[t].own] = c]]
    BY <1>1 DEF Context
  <2>b. ctx' \in [Threads -> [BOOLEAN -> Contexts]]
    BY <1>3, <2>1, <2>a DEF TypeOK
  <2>2. QED BY <1>1, <1>2, <1>3, <2>b DEF TypeOK
<1>5. /\ Context(t)'.regions = Context(t).regions \cup {a}
      /\ Context(t)'.errors = Context(t).errors
      /\ \A own \in BOOLEAN : own # args[t].own => ctx'[t][own] = ctx[t][own]
      /\ \A s \in Threads \ {t} : ctx'[s] = ctx[s]
  BY <1>1, <1>2, <1>3 DEF TypeOK, Contexts, Context
<1>6. \A s \in Threads : Tag(s)' = Tag(s) /\ (s # t => Context(s)' = Context(s))
  BY <1>2, <1>5 DEF Context, Tag
<1>7. UnusedAreClean'
  BY <1>2, <1>5, <1>6 DEF TypeOK, UnusedAreClean
<1>8. RegionsAreTagged'
  <2>1. SUFFICES ASSUME NEW s \in Threads, NEW b \in Context(s)'.regions
                 PROVE  heap'[b] = Tag(s)
    BY <1>6 DEF RegionsAreTagged
  <2>2. CASE b = a /\ s = t
    BY <1>1, <2>2 DEF TypeOK
  <2>3. CASE ~(b = a /\ s = t)
    <3>1. b \in Context(s).regions
      BY <1>5, <1>6, <2>3
    <3>2. heap[b] = Tag(s) /\ Tag(s) # Free
      BY <3>1 DEF RegionsAreTagged, TypeOK, Tag, Free
    <3>3. QED BY <1>1, <3>2 DEF TypeOK
  <2>4. QED BY <2>2, <2>3
<1>9. ErrorsAreKept'
  BY <1>2, <1>5, <1>6 DEF ErrorsAreKept
<1>10. BlocksAreHeld'
  <2>1. SUFFICES ASSUME NEW b \in Blocks, heap'[b] # Free
                 PROVE  \E own \in BOOLEAN : b \in ctx'[heap'[b][1]][own].regions
    BY DEF BlocksAreHeld
  <2>2. CASE b = a
    <3>1. heap'[b][1] = t
      BY <1>1, <2>2 DEF TypeOK, Tag
    <3>2. QED BY <1>2, <1>3, <1>5, <2>2, <3>1 DEF Context
  <2>3. CASE b # a
    <3>1. heap'[b] = heap[b]
      BY <1>1, <2>3 DEF TypeOK
    <3>2. PICK own \in BOOLEAN : b \in ctx[heap[b][1]][own].regions
      BY <2>1, <3>1 DEF BlocksAreHeld
    <3>3. heap[b][1] \in Threads
      BY <2>1, <3>1 DEF TypeOK, Tags
    <3>4. ctx[heap[b][1]][own].regions \subseteq ctx'[heap[b][1]][own].regions
      BY <1>2, <1>5, <3>3 DEF Context
    <3>5. QED BY <3>1, <3>2, <3>4
  <2>4. QED BY <2>2, <2>3
<1>11. CopiesAreOwn'
  BY <1>2 DEF CopiesAreOwn
<1>12. QED BY <1>4, <1>7, <1>8, <1>9, <1>10, <1>11

(* An error goes to the context and to the books alike. *)
LEMMA AddErrorPreserves ==
  ASSUME ExecutionInv, NEW t \in Threads, AddError(t)
  PROVE  ExecutionInv'
<1> USE DEF ExecutionInv
<1> DEFINE c == [Context(t) EXCEPT !.errors = @ \cup {Tag(t)}]
<1>1. /\ pc[t] = "running"
      /\ ctx' = [ctx EXCEPT ![t] = [ctx[t] EXCEPT ![args[t].own] = c]]
      /\ raised' = [raised EXCEPT ![t] = @ \cup {Tag(t)}]
      /\ work' = [work EXCEPT ![t] = @ + 1]
      /\ UNCHANGED <<pc, args, index, calls, heap, results, reported>>
  BY DEF AddError, Context
<1>2. Tag(t) \in Tags /\ args[t].own \in BOOLEAN /\ Context(t) \in Contexts
  BY DEF TypeOK, Tag, Tags, Calls, Context
<1>3. c \in Contexts /\ c.regions = Context(t).regions /\ c.errors = Context(t).errors \cup {Tag(t)}
  BY <1>2 DEF Contexts
<1> HIDE DEF c
<1>4. TypeOK'
  BY <1>1, <1>2, <1>3 DEF TypeOK
<1>5. /\ Context(t)' = c
      /\ \A own \in BOOLEAN : own # args[t].own => ctx'[t][own] = ctx[t][own]
      /\ \A s \in Threads \ {t} : ctx'[s] = ctx[s]
  BY <1>1, <1>2 DEF TypeOK, Context
<1>6. \A s \in Threads : Tag(s)' = Tag(s) /\ (s # t => Context(s)' = Context(s))
  BY <1>1, <1>5 DEF Context, Tag
<1>7. UnusedAreClean'
  BY <1>1, <1>5, <1>6 DEF TypeOK, UnusedAreClean
<1>8. RegionsAreTagged'
  BY <1>1, <1>3, <1>5, <1>6 DEF RegionsAreTagged
<1>9. ErrorsAreKept'
  BY <1>1, <1>3, <1>5, <1>6 DEF TypeOK, ErrorsAreKept
<1>10. BlocksAreHeld'
  <2>1. \A s \in Threads, own \in BOOLEAN : ctx'[s][own].regions = ctx[s][own].regions
    BY <1>1, <1>3, <1>5 DEF Context
  <2>2. \A b \in Blocks : heap[b] # Free => heap[b][1] \in Threads
    BY DEF TypeOK, Tags
  <2>3. QED BY <1>1, <2>1, <2>2 DEF BlocksAreHeld
<1>11. CopiesAreOwn'
  BY <1>1 DEF CopiesAreOwn
<1>12. QED BY <1>4, <1>7, <1>8, <1>9, <1>10, <1>11

(* What is copied out is tagged with the run, as the context is not cleared *)
(* yet.                                                                     *)
LEMMA ReturnPreserves ==
  ASSUME ExecutionInv, NEW t \in Threads, Return(t)
  PROVE  ExecutionInv'
<1> USE DEF ExecutionInv
<1>1. PICK r \in {Returned(t, a) : a \in Context(t).regions} \cup {NoResult} :
        results' = [results EXCEPT ![t] = [results[t] EXCEPT ![index[t]] = r]]
  BY DEF Return
<1>2. /\ pc[t] = "running"
      /\ pc' = [pc EXCEPT ![t] = "returned"]
      /\ UNCHANGED <<args, index, calls, work, ctx, heap, reported, raised>>
  BY DEF Return
<1>3. r \in Results /\ (r.how = "copy" => r.tag = Tag(t))
  <2>1. CASE r = NoResult
    BY <2>1 DEF NoResult, Results
  <2>2. ASSUME NEW a \in Context(t).regions, r = Returned(t, a)
        PROVE  r \in Results /\ r.tag = Tag(t)
    <3>1. Context(t) \in Contexts
      BY DEF TypeOK, Calls, Context
    <3>2. a \in Blocks /\ heap[a] \in Tags \cup {Free}
      BY <3>1 DEF TypeOK, Contexts
    <3>3. r \in Results
      BY <2>2, <3>2 DEF Returned, Results
    <3>4. QED BY <2>2, <3>3 DEF Returned, RegionsAreTagged
  <2>3. QED BY <2>1, <2>2
<1>4. TypeOK'
  BY <1>1, <1>2, <1>3 DEF TypeOK
<1>5. \A s \in Threads : Tag(s)' = Tag(s) /\ Context(s)' = Context(s)
  BY <1>2 DEF Context, Tag
<1>6. UnusedAreClean'
  BY <1>2, <1>5 DEF TypeOK, UnusedAreClean
<1>7. RegionsAreTagged' /\ ErrorsAreKept' /\ BlocksAreHeld'
  BY <1>2, <1>5 DEF RegionsAreTagged, ErrorsAreKept, BlocksAreHeld
<1>8. CopiesAreOwn'
  <2>1. SUFFICES ASSUME NEW s \in Threads, NEW i \in 1..NumEntries, results'[s][i].how = "copy"
                 PROVE  results'[s][i].tag = <<s, calls[s], i>>
    BY <1>2 DEF CopiesAreOwn
  <2>2. CASE s = t /\ i = index[t]
    BY <1>1, <1>3, <2>1, <2>2 DEF TypeOK, Tag
  <2>3. CASE ~(s = t /\ i = index[t])
    <3>1. results'[s][i] = results[s][i]
      BY <1>1, <2>3 DEF TypeOK
    <3>2. QED BY <2>1, <3>1 DEF CopiesAreOwn
  <2>4. QED BY <2>2, <2>3
<1>9. QED BY <1>4, <1>6, <1>7, <1>8

(* Clearing a context frees the regions in it and no one else's. *)
LEMMA ReportPreserves ==
  ASSUME ExecutionInv, NEW t \in Threads, Report(t)
  PROVE  ExecutionInv'
<1> USE DEF ExecutionInv
<1>1. /\ reported' = [reported EXCEPT ![t] = Status(t)]
      /\ heap' = Freed(heap, Context(t).regions)
      /\ ctx' = [ctx EXCEPT ![t] = [ctx[t] EXCEPT ![args[t].own] = Clean]]
      /\ work' = [work EXCEPT ![t] = 0]
      /\ UNCHANGED <<args, calls, results, raised>>
  BY DEF Report, Cleared
<1>2. /\ pc' \in [Threads -> {"idle", "running", "returned"}]
      /\ index' \in [Threads -> 1..NumEntries]
      /\ pc'[t] \in {"idle", "running"}
      /\ \A s \in Threads \ {t} : pc'[s] = pc[s] /\ index'[s] = index[s]
  <2>1. CASE args[t].all /\ index[t] < NumEntries
    <3>1. /\ index' = [index EXCEPT ![t] = index[t] + 1]
          /\ pc' = [pc EXCEPT ![t] = "running"]
      BY <2>1 DEF Report, NextIndex
    <3>2. index[t] + 1 \in 1..NumEntries
      BY <2>1, ExecutionAssumption DEF TypeOK
    <3>3. QED BY <3>1, <3>2 DEF TypeOK
  <2>2. CASE ~(args[t].all /\ index[t] < NumEntries)
    <3>1. index' = index /\ pc' = [pc EXCEPT ![t] = "idle"]
      BY <2>2 DEF Report
    <3>2. QED BY <3>1 DEF TypeOK
  <2>3. QED BY <2>1, <2>2
<1>3. args[t].own \in BOOLEAN /\ Context(t) \in Contexts
  BY DEF TypeOK, Calls, Context
<1>4. TypeOK'
  <2>1. Clean \in Contexts /\ Status(t) \in SUBSET Tags
    BY <1>3 DEF TypeOK, Clean, Contexts, Status
  <2>2. heap' \in [Blocks -> Tags \cup {Free}]
    BY <1>1 DEF TypeOK, Freed
  <2>3. QED BY <1>1, <1>2, <1>3, <2>1, <2>2 DEF TypeOK
<1>5. /\ \A own \in BOOLEAN : ctx'[t][own] = Clean
      /\ Context(t)' = Clean
      /\ \A s \in Threads \ {t} : ctx'[s] = ctx[s] /\ Context(s)' = Context(s) /\ Tag(s)' = Tag(s)
  <2>1. \A own \in BOOLEAN : ctx'[t][own] = Clean
    BY <1>1, <1>3 DEF TypeOK, UnusedAreClean
  <2>2. QED BY <1>1, <1>2, <1>3, <2>1 DEF TypeOK, Context, Tag
<1>6. UnusedAreClean'
  BY <1>1, <1>2, <1>5 DEF TypeOK, UnusedAreClean
<1>7. RegionsAreTagged'
  <2>1. SUFFICES ASSUME NEW s \in Threads, NEW a \in Context(s)'.regions
                 PROVE  heap'[a] = Tag(s)'
    BY DEF RegionsAreTagged
  <2>2. s # t
    BY <1>5 DEF Clean
  <2>3. a \in Context(s).regions /\ heap[a] = Tag(s) /\ a \in Blocks
    BY <1>5, <2>2 DEF RegionsAreTagged, TypeOK, Calls, Context, Contexts
  <2>4. a \notin Context(t).regions
    BY <2>2, <2>3 DEF RegionsAreTagged, Tag
  <2>5. QED BY <1>1, <1>5, <2>2, <2>3, <2>4 DEF Freed
<1>8. ErrorsAreKept'
  BY <1>1, <1>5 DEF TypeOK, ErrorsAreKept, Status, Clean
<1>9. BlocksAreHeld'
  <2>1. SUFFICES ASSUME NEW a \in Blocks, heap'[a] # Free
                 PROVE  \E own \in BOOLEAN : a \in ctx'[heap'[a][1]][own].regions
    BY DEF BlocksAreHeld
  <2>2. a \notin Context(t).regions /\ heap'[a] = heap[a]
    BY <1>1, <2>1 DEF Freed
  <2>3. PICK own \in BOOLEAN : a \in ctx[heap[a][1]][own].regions
    BY <2>1, <2>2 DEF BlocksAreHeld
  <2>4. heap[a][1] \in Threads
    BY <2>1, <2>2 DEF TypeOK, Tags
  <2>5. heap[a][1] # t
    BY <2>2, <2>3 DEF UnusedAreClean, Clean, Context
  <2>6. QED BY <1>5, <2>2, <2>3, <2>4, <2>5
<1>10. CopiesAreOwn'
  BY <1>1 DEF CopiesAreOwn
<1>11. QED BY <1>4, <1>6, <1>7, <1>8, <1>9, <1>10

LEMMA ExecutionInvariant == Spec => []ExecutionInv
<1>1. ASSUME ExecutionInv, [Next]_vars PROVE ExecutionInv'
  <2>1. CASE Next
    BY <1>1, <2>1, BeginPreserves, AllocateRegionPreserves, AddErrorPreserves,
       ReturnPreserves, ReportPreserves DEF Next, Step
  <2>2. CASE UNCHANGED vars
    BY <1>1, <2>2 DEF vars, ExecutionInv, TypeOK, UnusedAreClean, RegionsAreTagged,
       ErrorsAreKept, BlocksAreHeld, CopiesAreOwn, Context, Tag
  <2>3. QED BY <1>1, <2>1, <2>2
<1>2. QED BY <1>1, InitEstablishes, PTL DEF Spec

----------------------------------------------------------------------------
(* An entry starts with an empty arena and no errors, in whichever context *)
(* its call was given and whatever ran there before (execute_dispatch.h).   *)
THEOREM EntriesStartClean == Spec => []StartsClean
<1>1. ExecutionInv => StartsClean
  BY DEF ExecutionInv, TypeOK, UnusedAreClean, StartsClean, Context
<1>2. QED BY <1>1, ExecutionInvariant, PTL

(* A call reports the errors its own functions raised, all of them, however *)
(* many threads and entries there are.                                      *)
THEOREM ErrorsReachTheirCall == Spec => []ErrorsAreOwn
<1>1. ASSUME ExecutionInv PROVE ErrorsAreOwn
  <2>1. ASSUME NEW t \in Threads, pc[t] = "idle" PROVE reported[t] = raised[t]
    <3>1. Context(t).errors = {}
      BY <1>1, <2>1 DEF ExecutionInv, UnusedAreClean, Clean
    <3>2. raised[t] = reported[t] \cup Context(t).errors
      BY <1>1 DEF ExecutionInv, ErrorsAreKept
    <3>3. QED BY <3>1, <3>2
  <2>2. QED BY <2>1 DEF ErrorsAreOwn
<1>2. QED BY <1>1, ExecutionInvariant, PTL

(* A boxed result is what its run computed, wherever the memory went since. *)
THEOREM CopiesOutliveTheArena == Spec => []CopiesAreOwn
<1>1. ExecutionInv => CopiesAreOwn
  BY DEF ExecutionInv
<1>2. QED BY <1>1, ExecutionInvariant, PTL

(* No block is lost and none is in the contexts of two threads. *)
THEOREM BlocksAreNotLost == Spec => []NothingLost
<1>1. ASSUME ExecutionInv PROVE NothingLost
  <2>1. ASSUME NEW t \in Threads, NEW own \in BOOLEAN, NEW a \in ctx[t][own].regions
        PROVE  heap[a] # Free /\ heap[a][1] = t
    <3>1. own = args[t].own
      BY <1>1, <2>1 DEF ExecutionInv, UnusedAreClean, Clean
    <3>2. heap[a] = Tag(t)
      BY <1>1, <2>1, <3>1 DEF ExecutionInv, RegionsAreTagged, Context
    <3>3. QED BY <1>1, <3>2 DEF ExecutionInv, TypeOK, Tag, Free
  <2>2. QED BY <1>1, <2>1 DEF ExecutionInv, BlocksAreHeld, NothingLost
<1>2. QED BY <1>1, ExecutionInvariant, PTL
=============================================================================
