----------------------------- MODULE ExecEngine ------------------------------
(***************************************************************************)
(* ExecEngine: one expression, compiled or loaded, and saved.              *)
(* src/exec_engine.cc.  Compile and LoadCompiled may not run concurrently  *)
(* with anything, so each is one step.  The Execute overloads change no    *)
(* field of the engine: what a call would do is ExecuteOutcome, and their  *)
(* concurrency is the subject of Execution.                                *)
(***************************************************************************)
EXTENDS JitCore

VARIABLES
  option,           \* the FP mode and save flag the engine was constructed with
  core,             \* core_, the JitCore it owns
  entry_func_ptr_,
  ret_type_,
  saved             \* the artifacts at large, this engine's and others'

vars == <<option, core, entry_func_ptr_, ret_type_, saved>>

Init ==
  /\ option \in [fp : FPModes, save : BOOLEAN]
  /\ core = NewCore(option.fp, option.save)
  /\ entry_func_ptr_ = Null
  /\ ret_type_ = "unknown"
  /\ saved = Foreign

NextJit == FreshJit({core.jit.id, entry_func_ptr_.jit})

(* Both fields are cleared first and set again on success. *)
Compile(root, registry, fault) ==
  LET r == BuildAndLink(core, <<root>>, registry, fault, NextJit)
  IN  /\ core' = r.core
      /\ entry_func_ptr_' = IF r.ok THEN r.ptrs[1] ELSE Null
      /\ ret_type_' = IF r.ok THEN r.rets[1] ELSE "unknown"
      /\ UNCHANGED <<option, saved>>

(* Every failure leaves out untouched and is not a step. *)
SaveCompiled ==
  /\ entry_func_ptr_ # Null
  /\ core.bytes # NoObject
  /\ Cardinality(saved) < MaxSaved
  /\ saved' = saved \cup {Serialized(core, "single", <<ret_type_>>)}
  /\ UNCHANGED <<option, core, entry_func_ptr_, ret_type_>>

(* Mutant of LoadCompiled: the engine keeps its own FP mode. *)
LoadKeepsMode(a, registry, fault) ==
  /\ Accepts(a, "single")
  /\ LET r == LoadObject(NewCore(option.fp, core.save), a.obj, 1, registry, fault, NextJit)
     IN  /\ core' = r.core
         /\ entry_func_ptr_' = IF r.ok THEN r.ptrs[1] ELSE entry_func_ptr_
         /\ ret_type_' = IF r.ok THEN a.rets[1] ELSE ret_type_
  /\ UNCHANGED <<option, saved>>

(* A blob that is not accepted changes nothing.  Otherwise core_ is         *)
(* replaced, destroying the old JIT, before it is known whether the new one *)
(* links; a failure there returns with the old pointer and type in place.   *)
LoadCompiled(a, registry, fault) ==
  /\ Accepts(a, "single")
  /\ LET r == LoadObject(NewCore(a.fp, core.save), a.obj, 1, registry, fault, NextJit)
     IN  /\ core' = r.core
         /\ entry_func_ptr_' = IF r.ok THEN r.ptrs[1] ELSE entry_func_ptr_
         /\ ret_type_' = IF r.ok THEN a.rets[1] ELSE ret_type_
  /\ UNCHANGED <<option, saved>>

Next ==
  \/ \E root \in Roots, registry \in Registries, fault \in Faults : Compile(root, registry, fault)
  \/ SaveCompiled
  \/ \E a \in saved, registry \in Registries, fault \in Faults : LoadCompiled(a, registry, fault)

Spec == Init /\ [][Next]_vars

-----------------------------------------------------------------------------
Runnable == Callable(core, entry_func_ptr_)

(* Execute into a RetType: the type is dispatched on before the call. *)
ExecuteOutcome ==
  IF ret_type_ = "unknown" THEN "error" ELSE IF Runnable THEN "runs" ELSE "undefined"

(* Execute reinterprets the entry pointer by ret_type_, so a callable entry *)
(* is code of a root with that type, and the JIT it sits in was configured  *)
(* with the FP mode its code was generated for.  Execute, which tests       *)
(* ret_type_, reports "not compiled" exactly when SaveCompiled, which tests *)
(* the pointer, does.  And a pointer that is not into the current JIT is    *)
(* left only where the engine holds no code and no bytes: nothing stale is  *)
(* ever run as the new program or saved under the new type.                 *)
RunsWhatItReports ==
  /\ Runnable => CodeAt(core, entry_func_ptr_).ret = ret_type_ /\ core.jit.obj.fp = core.fp
  /\ entry_func_ptr_ = Null <=> ExecuteOutcome = "error"
  /\ entry_func_ptr_ # Null /\ ~ Runnable => core.jit.obj = NoObject /\ core.bytes = NoObject

(* The caller's view.  A dangling pointer can not be run, so it shows       *)
(* nothing; that it is nevertheless called is EntryIsSafe.                  *)
Shown ==
  IF Runnable
    THEN [progs |-> <<CodeAt(core, entry_func_ptr_)>>, rets |-> <<ret_type_>>,
          fp |-> core.jit.obj.fp, differs |-> core.jit.obj.differs]
    ELSE [progs |-> << >>, rets |-> << >>, fp |-> "none", differs |-> {}]

Entries == INSTANCE CompiledEntries WITH Mode <- "single", entries <- Shown

(* A caller only ever runs what its last successful Compile or LoadCompiled *)
(* installed, never loads a blob its options reject, and saves the program  *)
(* it would run: the engine implements CompiledEntries.                     *)
ImplementsEntries == Entries!Spec

-----------------------------------------------------------------------------
(* exec_engine.h: "After a successful Compile(), the Execute* overloads are *)
(* safe to invoke": a non-null entry points at code the engine still owns.  *)
EntryIsSafe == ExecuteOutcome # "undefined"
=============================================================================
