--------------------------- MODULE BatchExecEngine ---------------------------
(***************************************************************************)
(* BatchExecEngine: several expressions in one JIT module, addressed by    *)
(* index.  src/batch_exec_engine.cc.  As in ExecEngine, Compile and        *)
(* LoadCompiled are one step each and the Execute overloads, which change  *)
(* no field, are what they would do: ExecuteAtOutcome.                     *)
(***************************************************************************)
EXTENDS JitCore

CONSTANT MaxEntries         \* expressions in one call of Compile

VARIABLES
  option,           \* the FP mode and save flag the engine was constructed with
  core,             \* core_, the JitCore it owns
  entry_func_ptrs_,
  ret_types_,
  saved             \* the artifacts at large, this engine's and others'

vars == <<option, core, entry_func_ptrs_, ret_types_, saved>>

Init ==
  /\ option \in [fp : FPModes, save : BOOLEAN]
  /\ core = NewCore(option.fp, option.save)
  /\ entry_func_ptrs_ = << >>
  /\ ret_types_ = << >>
  /\ saved = Foreign

NextJit ==
  FreshJit({core.jit.id} \cup {entry_func_ptrs_[i].jit : i \in DOMAIN entry_func_ptrs_})

(* BuildAndLink given the two members as its outputs: one it does not write *)
(* keeps what it held, and resize keeps a prefix of it.                     *)
CompileInto(nodes, registry, fault, ptrs, rets) ==
  LET r == BuildAndLink(core, nodes, registry, fault, NextJit)
  IN  /\ core' = r.core
      /\ entry_func_ptrs_' = IF r.ptrs = << >> THEN ptrs ELSE r.ptrs
      /\ ret_types_' = IF r.rets = << >> THEN rets ELSE r.rets
      /\ UNCHANGED <<option, saved>>

(* Mutant of Compile: the pointers of the last compilation are not cleared. *)
CompileKeepsPointers(nodes, registry, fault) ==
  nodes # << >> /\ CompileInto(nodes, registry, fault, entry_func_ptrs_, << >>)

(* An empty list is refused before anything is cleared: not a step. *)
Compile(nodes, registry, fault) ==
  nodes # << >> /\ CompileInto(nodes, registry, fault, << >>, << >>)

(* Every failure leaves out untouched and is not a step. *)
SaveCompiled ==
  /\ entry_func_ptrs_ # << >>
  /\ core.bytes # NoObject
  /\ Cardinality(saved) < MaxSaved
  /\ saved' = saved \cup {Serialized(core, "batch", ret_types_)}
  /\ UNCHANGED <<option, core, entry_func_ptrs_, ret_types_>>

(* Mutant of LoadCompiled: the types of the last compilation stay. *)
LoadKeepsTypes(a, registry, fault) ==
  /\ Accepts(a, "batch")
  /\ LET r == LoadObject(NewCore(a.fp, core.save), a.obj, Len(a.rets), registry, fault, NextJit)
     IN  /\ core' = r.core
         /\ entry_func_ptrs_' = IF r.ok THEN r.ptrs ELSE entry_func_ptrs_
         /\ ret_types_' = IF r.ok /\ ret_types_ = << >> THEN a.rets ELSE ret_types_
  /\ UNCHANGED <<option, saved>>

(* Mutant of LoadCompiled: the new pointers are appended to the old. *)
LoadAppends(a, registry, fault) ==
  /\ Accepts(a, "batch")
  /\ LET r == LoadObject(NewCore(a.fp, core.save), a.obj, Len(a.rets), registry, fault, NextJit)
     IN  /\ core' = r.core
         /\ entry_func_ptrs_' = IF r.ok THEN entry_func_ptrs_ \o r.ptrs ELSE entry_func_ptrs_
         /\ ret_types_' = IF r.ok THEN ret_types_ \o a.rets ELSE ret_types_
  /\ UNCHANGED <<option, saved>>

(* As ExecEngine's: the core is replaced first, the members last. *)
LoadCompiled(a, registry, fault) ==
  /\ Accepts(a, "batch")
  /\ LET r == LoadObject(NewCore(a.fp, core.save), a.obj, Len(a.rets), registry, fault, NextJit)
     IN  /\ core' = r.core
         /\ entry_func_ptrs_' = IF r.ok THEN r.ptrs ELSE entry_func_ptrs_
         /\ ret_types_' = IF r.ok THEN a.rets ELSE ret_types_
  /\ UNCHANGED <<option, saved>>

Next ==
  \/ \E n \in 1..MaxEntries : \E nodes \in [1..n -> Roots], registry \in Registries, fault \in Faults :
       Compile(nodes, registry, fault)
  \/ SaveCompiled
  \/ \E a \in saved, registry \in Registries, fault \in Faults : LoadCompiled(a, registry, fault)

Spec == Init /\ [][Next]_vars

-----------------------------------------------------------------------------
(* ExecuteAt: the index is checked against the pointers, then the type is   *)
(* read at the same index and dispatched on.                                *)
ExecuteAtOutcome(index) ==
  IF index > Len(entry_func_ptrs_) THEN "error"
  ELSE IF index > Len(ret_types_) THEN "undefined"
  ELSE IF ret_types_[index] = "unknown" THEN "error"
  ELSE IF Callable(core, entry_func_ptrs_[index]) THEN "runs"
  ELSE "undefined"

Runnable ==
  /\ entry_func_ptrs_ # << >>
  /\ \A i \in DOMAIN entry_func_ptrs_ : Callable(core, entry_func_ptrs_[i])

(* The vectors are filled by different calls, and ExecuteAt indexes         *)
(* ret_types_ unchecked after comparing the index with the other: there are *)
(* never more pointers than types, whatever a failed compilation wrote, and *)
(* a callable entry i is code of the i-th root with the i-th type.          *)
EntriesKeepOrder ==
  /\ Len(entry_func_ptrs_) <= Len(ret_types_)
  /\ \A i \in DOMAIN entry_func_ptrs_ :
       ExecuteAtOutcome(i) = "runs" =>
         /\ entry_func_ptrs_[i].entry = i
         /\ CodeAt(core, entry_func_ptrs_[i]).ret = ret_types_[i]

(* ExecuteAll runs the entries in one loop: either all of them can be       *)
(* called or none can, never a prefix.                                      *)
AllOrNone ==
  Runnable \/ \A i \in DOMAIN entry_func_ptrs_ : ~ Callable(core, entry_func_ptrs_[i])

(* What a caller can run and save, as in ExecEngine. *)
Shown ==
  IF Runnable
    THEN [progs |-> [i \in DOMAIN entry_func_ptrs_ |-> CodeAt(core, entry_func_ptrs_[i])],
          rets |-> ret_types_, fp |-> core.jit.obj.fp, differs |-> core.jit.obj.differs]
    ELSE [progs |-> << >>, rets |-> << >>, fp |-> "none", differs |-> {}]

Entries == INSTANCE CompiledEntries WITH Mode <- "batch", entries <- Shown

(* Where every function a validated expression calls can be linked, a       *)
(* caller only runs and saves what its last successful Compile or           *)
(* LoadCompiled installed.                                                  *)
ImplementsEntries == Entries!Spec
=============================================================================
