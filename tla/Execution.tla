------------------------------ MODULE Execution ------------------------------
(***************************************************************************)
(* Threads that share a compiled engine: the Execute, ExecuteAt and        *)
(* ExecuteAll overloads of src/exec_engine.cc and batch_exec_engine.cc     *)
(* with the ExecContext of include/exec_options.h.                         *)
(*                                                                         *)
(* During execution the engine is only read, so it is not a variable; what *)
(* the threads do share is the heap that their arenas' chunks come from: a *)
(* block is a chunk past the first of its arena, with one region in it.    *)
(* (The first chunk, which Clear keeps, has one thread only: see Arena.)   *)
(* Each thread has one ExecContext of its own, which it passes to the      *)
(* overloads that take one; the others construct one for each entry.  The  *)
(* entries are compiled code: any number of calls of registered functions, *)
(* which may allocate from the context's arena (see Arena) or add errors.  *)
(* A tag <<thread, call, index>> names one run of one entry.               *)
(***************************************************************************)
EXTENDS Integers, FiniteSets, Functions

CONSTANTS
  Threads,
  NumEntries,       \* entries of the engine; an ExecEngine has one
  Blocks,           \* the addresses of the heap's chunks
  MaxCalls,         \* bound: calls of all threads
  MaxWork           \* bound: function calls in one run of an entry

(* BatchExecEngine::Compile refuses an empty list of expressions. *)
ASSUME ExecutionAssumption == NumEntries \in Nat \ {0}

VARIABLES
  pc,               \* of each thread: "idle", "running", "returned"
  args,             \* of its call: [all, boxed, own]
  index,            \* the entry it runs
  calls, work,      \* how many calls, and function calls, it has made
  ctx,              \* its contexts, own and not: [regions, errors]
  heap,             \* to each address the tag of the run that allocated it
  results,          \* what the caller got, by index: [how, addr, tag]
  reported,         \* the errors in the Status of its call
  raised            \* the errors its call's functions added

vars == <<pc, args, index, calls, work, ctx, heap, results, reported, raised>>

Free == <<"nobody", 0, 0>>
NoResult == [how |-> "none"]
Clean == [regions |-> {}, errors |-> {}]
Calls == [all : BOOLEAN, boxed : BOOLEAN, own : BOOLEAN]

Tag(t) == <<t, calls[t], index[t]>>
Context(t) == ctx[t][args[t].own]

Init ==
  /\ pc = [t \in Threads |-> "idle"]
  /\ args \in [Threads -> {[all |-> FALSE, boxed |-> FALSE, own |-> FALSE]}]
  /\ index = [t \in Threads |-> 1]
  /\ calls = [t \in Threads |-> 0] /\ work = [t \in Threads |-> 0]
  /\ ctx = [t \in Threads |-> [own \in BOOLEAN |-> Clean]]
  /\ heap = [a \in Blocks |-> Free]
  /\ results = [t \in Threads |-> [i \in 1..NumEntries |-> NoResult]]
  /\ reported = [t \in Threads |-> {}] /\ raised = [t \in Threads |-> {}]

(* One of the overloads, on one index or on all. *)
Begin(t) ==
  /\ pc[t] = "idle" /\ SumFunction(calls) < MaxCalls
  /\ \E a \in Calls, i \in 1..NumEntries :
       /\ a.all => i = 1
       /\ args' = [args EXCEPT ![t] = a]
       /\ index' = [index EXCEPT ![t] = i]
  /\ pc' = [pc EXCEPT ![t] = "running"]
  /\ calls' = [calls EXCEPT ![t] = @ + 1] /\ work' = [work EXCEPT ![t] = 0]
  /\ results' = [results EXCEPT ![t] = [i \in 1..NumEntries |-> NoResult]]
  /\ reported' = [reported EXCEPT ![t] = {}] /\ raised' = [raised EXCEPT ![t] = {}]
  /\ UNCHANGED <<ctx, heap>>

(* A registered function allocates a region for a string or a list. *)
AllocateRegion(t) ==
  /\ pc[t] = "running" /\ work[t] < MaxWork
  /\ \E a \in Blocks :
       /\ heap[a] = Free
       /\ heap' = [heap EXCEPT ![a] = Tag(t)]
       /\ ctx' = [ctx EXCEPT ![t][args[t].own].regions = @ \cup {a}]
  /\ work' = [work EXCEPT ![t] = @ + 1]
  /\ UNCHANGED <<pc, args, index, calls, results, reported, raised>>

(* A registered function calls AddError. *)
AddError(t) ==
  /\ pc[t] = "running" /\ work[t] < MaxWork
  /\ ctx' = [ctx EXCEPT ![t][args[t].own].errors = @ \cup {Tag(t)}]
  /\ raised' = [raised EXCEPT ![t] = @ \cup {Tag(t)}]
  /\ work' = [work EXCEPT ![t] = @ + 1]
  /\ UNCHANGED <<pc, args, index, calls, heap, results, reported>>

Freed(h, regions) == [a \in Blocks |-> IF a \in regions THEN Free ELSE h[a]]

(* Mutant of Returned: the context is cleared before its payload is copied. *)
ReturnedAfterClear(t, a) ==
  [how |-> IF args[t].boxed THEN "copy" ELSE "pointer", addr |-> a,
   tag |-> Freed(heap, Context(t).regions)[a]]

(* The boxed overloads copy a string or a list out of the arena, the others *)
(* pass the pointer on to the store function.                               *)
Returned(t, a) ==
  [how |-> IF args[t].boxed THEN "copy" ELSE "pointer", addr |-> a, tag |-> heap[a]]

(* The entry returns, with a payload it allocated or with a scalar. *)
Return(t) ==
  /\ pc[t] = "running"
  /\ \E r \in {Returned(t, a) : a \in Context(t).regions} \cup {NoResult} :
       results' = [results EXCEPT ![t][index[t]] = r]
  /\ pc' = [pc EXCEPT ![t] = "returned"]
  /\ UNCHANGED <<args, index, calls, work, ctx, heap, reported, raised>>

(* Mutant of Cleared: errors outlive the call. *)
ClearedArenaOnly(c) == [c EXCEPT !.regions = {}]

(* Mutant of Cleared: the arena keeps its regions. *)
ClearedErrorsOnly(c) == [c EXCEPT !.errors = {}]

(* ExecContext::Clear, or the end of a context's life. *)
Cleared(c) == Clean

(* Mutant of Status: of several failing entries the last is reported. *)
StatusOfLast(t) == Context(t).errors

(* all_errors so far, with those of the entry that just ran. *)
Status(t) == reported[t] \cup Context(t).errors

(* Mutant of NextIndex: the loop never moves on. *)
NextIndexStuck(t) == index[t]

NextIndex(t) == index[t] + 1

(* The errors are read, the context is cleared, and ExecuteAll goes on to   *)
(* the next entry whether or not this one failed.                           *)
Report(t) ==
  /\ pc[t] = "returned"
  /\ reported' = [reported EXCEPT ![t] = Status(t)]
  /\ heap' = Freed(heap, Context(t).regions)
  /\ ctx' = [ctx EXCEPT ![t][args[t].own] = Cleared(@)]
  /\ IF args[t].all /\ index[t] < NumEntries
       THEN /\ index' = [index EXCEPT ![t] = NextIndex(t)]
            /\ pc' = [pc EXCEPT ![t] = "running"]
       ELSE pc' = [pc EXCEPT ![t] = "idle"] /\ UNCHANGED index
  /\ work' = [work EXCEPT ![t] = 0]
  /\ UNCHANGED <<args, calls, results, raised>>

Step(t) == Begin(t) \/ AllocateRegion(t) \/ AddError(t) \/ Return(t) \/ Report(t)

Next == \E t \in Threads : Step(t)

(* Every thread is scheduled, and an entry returns: generated code has no   *)
(* loops and registered functions are assumed to return.                    *)
Fairness == \A t \in Threads : WF_vars(Return(t)) /\ WF_vars(Report(t))

Spec == Init /\ [][Next]_vars /\ Fairness

-----------------------------------------------------------------------------
(* "callers do NOT need to invoke Clear() manually between calls": an entry *)
(* starts with no errors and no regions of an earlier one, in ExecuteAll    *)
(* too.                                                                     *)
StartsClean ==
  \A t \in Threads :
    pc[t] = "idle" \/ (pc[t] = "running" /\ work[t] = 0) =>
      \A own \in BOOLEAN : ctx[t][own] = Clean

(* The Status of a call has the errors its functions raised, of every entry *)
(* ExecuteAll ran, and of no other call or thread.                          *)
ErrorsAreOwn == \A t \in Threads : pc[t] = "idle" => reported[t] = raised[t]

(* A boxed result holds what its own run computed, although other threads   *)
(* and later entries reuse the memory it was computed in.                   *)
CopiesAreOwn ==
  \A t \in Threads, i \in 1..NumEntries :
    results[t][i].how = "copy" => results[t][i].tag = <<t, calls[t], i>>

(* The contexts hold all there is on the heap, and no region is in two.     *)
NothingLost ==
  /\ \A a \in Blocks : heap[a] # Free =>
       \E own \in BOOLEAN : a \in ctx[heap[a][1]][own].regions
  /\ \A t \in Threads, own \in BOOLEAN : \A a \in ctx[t][own].regions :
       heap[a] # Free /\ heap[a][1] = t

(* Every call returns, ExecuteAll after all its entries. *)
CallsReturn == \A t \in Threads : pc[t] = "running" ~> pc[t] = "idle"
=============================================================================
