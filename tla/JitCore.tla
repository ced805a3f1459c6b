------------------------------ MODULE JitCore -------------------------------
(***************************************************************************)
(* The compilation unit both engines own: src/jit_core.h, src/jit_core.cc. *)
(*                                                                         *)
(* A core is a record of JitCore's fields; BuildAndLink and LoadObject are *)
(* operators that give the core they leave behind together with what they  *)
(* wrote to their output parameters, since what matters to the engines is  *)
(* how much of that there is when they fail, and where they failed.        *)
(*                                                                         *)
(* A root is an expression tree, kept as what becomes of it: its name, its *)
(* return type, the step of the compiler that rejects it, and the C        *)
(* function it calls.  LLVM is external: it may fail to create a JIT or to *)
(* add a module, and resolves the symbols a registry maps.  ir_code_ is    *)
(* not kept: it is set and cleared where compiled_object_bytes_ is.        *)
(***************************************************************************)
EXTENDS Integers, Sequences, FiniteSets

CONSTANTS
  Roots,          \* expressions: [name, ret, rejected, calls]
  Registries,     \* the function registries a caller passes
  JitFaults,      \* the LLVM failures considered, a subset of {"create", "add"}
  Foreign,        \* artifacts that other processes saved, or that were damaged
  Tolerated,      \* the header mismatches LoadCompiledOptions lets through
  MaxSaved        \* bound: artifacts that exist at a time

Null == [jit |-> 0, entry |-> 0]      \* a null function pointer
NoObject == [progs |-> << >>, fp |-> "none", differs |-> {}]
NoJit == [id |-> 0, obj |-> NoObject]

FPModes == {"strict", "fast"}
HostFields == {"llvm", "triple", "cpu"}
ValueTypes == {"unknown"} \cup {r.ret : r \in Roots}
Faults == {"none"} \cup JitFaults

(* A registry as the core sees it: the signatures GetFuncBySign finds and   *)
(* the symbols MappingToJIT defines.  RegisterFunc lets an embedder enter a *)
(* function whose symbol is never mapped (Supplied in FunctionRegistry).    *)
Registry == [known : SUBSET {r.calls : r \in Roots}, mapped : SUBSET {r.calls : r \in Roots}]

Links(progs, registry) ==
  \A i \in DOMAIN progs : progs[i].calls = "nothing" \/ progs[i].calls \in registry.mapped

Validates(root, registry) ==
  /\ root.rejected # "validate"
  /\ root.calls = "nothing" \/ root.calls \in registry.known

RetTypesOf(nodes) == [i \in DOMAIN nodes |-> nodes[i].ret]

(* An artifact as SaveCompiled writes it: the header is of the object. *)
IsWritten(a) ==
  /\ a.obj.progs \in Seq(Roots) /\ a.obj.progs # << >>
  /\ a.mode = "single" => Len(a.obj.progs) = 1
  /\ a.rets = RetTypesOf(a.obj.progs) /\ \A i \in DOMAIN a.rets : a.rets[i] # "unknown"
  /\ a.fp = a.obj.fp /\ a.differs = a.obj.differs

(* BuildEntryFunction rejects a root of unknown type, if nothing before it  *)
(* has, and an artifact that is intact is one that an engine has written.   *)
ASSUME JitCoreAssumption ==
  /\ \A r \in Roots : r.ret = "unknown" => r.rejected \in {"validate", "codegen"}
  /\ \A a \in Foreign : a.intact => IsWritten(a)

Reset(core) == [core EXCEPT !.jit = NoJit, !.bytes = NoObject]

NewCore(fp, save) == [fp |-> fp, save |-> save, jit |-> NoJit, bytes |-> NoObject]

(* A JIT of its own, empty so far.  Its identity is one no pointer holds.   *)
CreateJit(core, id) == [core EXCEPT !.jit = [id |-> id, obj |-> NoObject]]

FreshJit(used) == CHOOSE i \in 1..(Cardinality(used) + 1) : i \notin used

(* What a call leaves: its status, the core, and both output vectors; a     *)
(* vector it did not touch is empty.                                        *)
Outcome(ok, core, ptrs, rets) == [ok |-> ok, core |-> core, ptrs |-> ptrs, rets |-> rets]

EntryPointers(id, n) == [i \in 1..n |-> [jit |-> id, entry |-> i]]
NullPointers(n) == [i \in 1..n |-> Null]

FirstRejected(nodes) == CHOOSE i \in DOMAIN nodes :
  /\ nodes[i].rejected = "codegen"
  /\ \A j \in 1..(i - 1) : nodes[j].rejected # "codegen"

(* Code generation stops at the first root it cannot translate, with the    *)
(* return types written so far.                                             *)
RetTypesUpTo(nodes, k) == [i \in DOMAIN nodes |-> IF i <= k THEN nodes[i].ret ELSE "unknown"]

(* Linking happens at the first lookup: the module was optimised and, if    *)
(* wanted, its object bytes captured by then.                               *)
Captured(core, obj) == IF core.save THEN obj ELSE NoObject

BuildAndLink(core, nodes, registry, fault, id) ==
  LET clean == Reset(core)
      jit == CreateJit(clean, id)
      obj == [progs |-> nodes, fp |-> core.fp, differs |-> {}]
      built == [jit EXCEPT !.bytes = Captured(core, obj)]
      n == Len(nodes)
      rets == RetTypesOf(nodes)
      Rejects(step) == \E i \in 1..n : nodes[i].rejected = step
  IN  IF n = 0 \/ \E i \in 1..n : ~ Validates(nodes[i], registry)
        THEN Outcome(FALSE, core, << >>, << >>)
      ELSE IF Rejects("codegen")
        THEN Outcome(FALSE, clean, << >>, RetTypesUpTo(nodes, FirstRejected(nodes)))
      ELSE IF Rejects("verify") \/ fault = "create"
        THEN Outcome(FALSE, clean, << >>, rets)
      ELSE IF fault = "add"
        THEN Outcome(FALSE, jit, << >>, rets)
      ELSE IF ~ Links(nodes, registry)
        THEN Outcome(FALSE, built, NullPointers(n), rets)
      ELSE Outcome(TRUE, [built EXCEPT !.jit.obj = obj], EntryPointers(id, n), rets)

(* LoadObject: the bytes are not kept. *)
LoadObject(core, obj, n, registry, fault, id) ==
  LET clean == Reset(core)
      jit == CreateJit(clean, id)
  IN  IF fault = "create" THEN Outcome(FALSE, clean, << >>, << >>)
      ELSE IF fault = "add" THEN Outcome(FALSE, jit, << >>, << >>)
      ELSE IF ~ Links(obj.progs, registry) THEN Outcome(FALSE, jit, NullPointers(n), << >>)
      ELSE Outcome(TRUE, [jit EXCEPT !.jit.obj = obj], EntryPointers(id, n), << >>)

(* A pointer into the JIT the core owns: its memory is mapped and holds     *)
(* code.  Pointers into an earlier JIT dangle, since ~LLJIT unmaps it.      *)
Callable(core, ptr) == ptr # Null /\ ptr.jit = core.jit.id

CodeAt(core, ptr) == core.jit.obj.progs[ptr.entry]

-----------------------------------------------------------------------------
(* The saved blob: the object and the header fields the loader relies on.   *)
(* differs names the fields in which the host recorded in the header is not *)
(* this one, as the object's own differs does for the host it was generated *)
(* on; a blob the reader cannot parse is not intact.                        *)

Serialized(core, mode, rets) ==
  [mode |-> mode, fp |-> core.fp, rets |-> rets, obj |-> core.bytes,
   intact |-> TRUE, differs |-> {}]

(* Mutant of Accepts: the CPU is never compared. *)
AcceptsAnyCpu(a, mode) == a.intact /\ a.differs \subseteq Tolerated \cup {"cpu"} /\ a.mode = mode

(* DeserializeArtifact and CheckHostCompatibility both return OK. *)
Accepts(a, mode) == a.intact /\ a.differs \subseteq Tolerated /\ a.mode = mode
=============================================================================
