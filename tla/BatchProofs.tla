----------------------------- MODULE BatchProofs ------------------------------
(***************************************************************************)
(* Proofs about BatchExecEngine: its two vectors stay in step whatever     *)
(* fails, and, where every function a validated expression calls can be    *)
(* linked, it implements CompiledEntries.                                  *)
(***************************************************************************)
EXTENDS BatchExecEngine, JitCoreProofs

(* Every blob that reads as intact holds what an engine wrote. *)
SavedAreWritten == \A a \in saved : a.intact => IsWritten(a)

(* Nothing compiled, or the last compilation failed before linking; it may  *)
(* have left types behind.                                                  *)
Empty == entry_func_ptrs_ = << >>

(* The last compilation failed at its first lookup: null pointers of the    *)
(* right number, and the bytes may have been captured.                      *)
Unlinked ==
  /\ entry_func_ptrs_ = NullPointers(Len(ret_types_))
  /\ core.jit.obj = NoObject
  /\ Keeps(core, ret_types_)

(* The last Compile or LoadCompiled succeeded. *)
Installed ==
  /\ Holds(core)
  /\ entry_func_ptrs_ = EntryPointers(core.jit.id, Len(core.jit.obj.progs))
  /\ ret_types_ = RetTypesOf(core.jit.obj.progs)

(* LoadCompiled replaced the core and failed: the old vectors are still     *)
(* there, with pointers into a JIT that is gone.                            *)
Stale ==
  /\ \E id \in Nat \ {0, core.jit.id} : entry_func_ptrs_ = EntryPointers(id, Len(ret_types_))
  /\ NoCode(core)

(* The inductive invariant.  The properties speak of the vectors alone;     *)
(* what the core holds or would save decides what they are worth next.      *)
BatchInv ==
  /\ IsCore(core)
  /\ SavedAreWritten
  /\ ret_types_ \in Seq(ValueTypes)
  /\ Empty \/ Unlinked \/ Installed \/ Stale

-----------------------------------------------------------------------------
LEMMA NextJitIsNew ==
  ASSUME BatchInv
  PROVE  /\ NextJit \in Nat \ {0}
         /\ \A i \in DOMAIN entry_func_ptrs_ : entry_func_ptrs_[i].jit # NextJit
<1> DEFINE used == {core.jit.id} \cup {entry_func_ptrs_[i].jit : i \in DOMAIN entry_func_ptrs_}
<1>1. \E id : used \subseteq {core.jit.id, 0, id}
  <2>1. CASE Empty
    BY <2>1 DEF Empty
  <2>2. CASE Unlinked
    BY <2>2 DEF Unlinked, NullPointers, Null
  <2>3. CASE Installed
    BY <2>3 DEF Installed, EntryPointers
  <2>4. CASE Stale
    BY <2>4 DEF Stale, EntryPointers
  <2>5. QED BY <2>1, <2>2, <2>3, <2>4 DEF BatchInv
<1>2. PICK id : used \subseteq {core.jit.id, 0, id}
  BY <1>1
<1>3. IsFiniteSet({core.jit.id} \cup {0} \cup {id})
  <2>1. IsFiniteSet({core.jit.id})
    BY FS_Singleton
  <2>2. IsFiniteSet({core.jit.id} \cup {0})
    BY <2>1, FS_AddElement
  <2>3. QED BY <2>2, FS_AddElement
<1>4. IsFiniteSet(used)
  <2>1. used \subseteq {core.jit.id} \cup {0} \cup {id}
    BY <1>2
  <2>2. QED BY <1>3, <2>1, FS_Subset
<1>5. NextJit = FreshJit(used)
  BY DEF NextJit
<1>6. NextJit \in Nat \ {0} /\ NextJit \notin used
  BY <1>4, <1>5, FreshJitIsFresh
<1>7. QED BY <1>6

(* Compile installs its roots, or leaves no pointers, or null pointers where *)
(* a symbol that is known does not resolve.                                  *)
LEMMA CompileInstalls ==
  ASSUME BatchInv, NEW nodes \in Seq(Roots), NEW registry, NEW fault, Compile(nodes, registry, fault)
  PROVE  /\ IsCore(core') /\ UNCHANGED saved /\ ret_types_' \in Seq(ValueTypes)
         /\ \/ Empty'
            \/ Unlinked' /\ ~ Links(nodes, registry) /\ \A i \in 1..Len(nodes) : Validates(nodes[i], registry)
            \/ Installed' /\ core.jit.obj' = CodeOf(nodes, core.fp')
<1>0. PICK r : r = BuildAndLink(core, nodes, registry, fault, NextJit)
  OBVIOUS
<1>1. /\ core' = r.core /\ UNCHANGED saved
      /\ entry_func_ptrs_' = IF r.ptrs = << >> THEN << >> ELSE r.ptrs
      /\ ret_types_' = IF r.rets = << >> THEN << >> ELSE r.rets
      /\ r.ok \in BOOLEAN
      /\ nodes # << >>
  BY <1>0 DEF Compile, CompileInto, BuildAndLink, Outcome
<1>2. entry_func_ptrs_' = r.ptrs /\ ret_types_' = r.rets
  BY <1>1
<1>3. IsCore(core) /\ NextJit \in Nat \ {0}
  BY NextJitIsNew DEF BatchInv
<1>4. CASE r.ok
  <2>1. r.ok = TRUE
    BY <1>1, <1>4
  <2>2. Built(r, core.fp, nodes, NextJit)
    BY <1>0, <1>3, <2>1, BuildSucceeds
  <2>3. /\ IsCore(core') /\ Holds(core') /\ core'.fp = core.fp
        /\ core'.jit.id = NextJit /\ core'.jit.obj = CodeOf(nodes, core.fp)
        /\ entry_func_ptrs_' = EntryPointers(NextJit, Len(nodes))
        /\ ret_types_' = RetTypesOf(nodes)
    BY <1>1, <1>2, <2>2 DEF Built
  <2>4. CodeOf(nodes, core.fp).progs = nodes
    BY DEF CodeOf
  <2>5. Installed'
    BY <2>3, <2>4 DEF Installed
  <2>6. QED BY <1>1, <2>3, <2>5, RetTypesAreTypes
<1>5. CASE ~ r.ok
  <2>1. /\ IsCore(r.core) /\ r.rets \in Seq(ValueTypes)
        /\ \/ r.ptrs = << >>
           \/ /\ ~ Links(nodes, registry)
              /\ \A i \in 1..Len(nodes) : Validates(nodes[i], registry)
              /\ nodes # << >>
              /\ r.ptrs = NullPointers(Len(nodes)) /\ r.rets = RetTypesOf(nodes)
              /\ r.core.jit.obj = NoObject /\ Keeps(r.core, r.rets)
    BY <1>0, <1>3, <1>5, BuildFails
  <2>2. CASE r.ptrs = << >>
    BY <1>1, <1>2, <2>1, <2>2 DEF Empty
  <2>3. CASE /\ ~ Links(nodes, registry)
             /\ \A i \in 1..Len(nodes) : Validates(nodes[i], registry)
             /\ r.ptrs = NullPointers(Len(nodes)) /\ r.rets = RetTypesOf(nodes)
             /\ r.core.jit.obj = NoObject /\ Keeps(r.core, r.rets)
    <3>1. Unlinked'
      BY <1>1, <1>2, <2>3, RetTypesAreTypes DEF Unlinked
    <3>2. QED BY <1>1, <1>2, <2>1, <2>3, <3>1
  <2>4. QED BY <2>1, <2>2, <2>3
<1>6. QED BY <1>4, <1>5

(* LoadCompiled installs the artifact's program, or leaves no code: then    *)
(* the vectors are as they were.                                            *)
LEMMA LoadInstalls ==
  ASSUME BatchInv, NEW a \in saved, NEW registry, NEW fault, LoadCompiled(a, registry, fault)
  PROVE  /\ IsCore(core') /\ UNCHANGED saved /\ ret_types_' \in Seq(ValueTypes)
         /\ IsWritten(a)
         /\ \/ Empty'
            \/ Unlinked' /\ UNCHANGED entry_func_ptrs_
            \/ Stale'
            \/ Installed' /\ core.jit.obj' = a.obj
<1>0. PICK r : r = LoadObject(NewCore(a.fp, core.save), a.obj, Len(a.rets), registry, fault, NextJit)
  OBVIOUS
<1>1. /\ core' = r.core /\ UNCHANGED saved
      /\ entry_func_ptrs_' = IF r.ok THEN r.ptrs ELSE entry_func_ptrs_
      /\ ret_types_' = IF r.ok THEN a.rets ELSE ret_types_
      /\ a.intact
  BY <1>0 DEF LoadCompiled, Accepts
<1>2. /\ a.obj.progs \in Seq(Roots) /\ a.obj.progs # << >>
      /\ a.rets = RetTypesOf(a.obj.progs) /\ \A i \in DOMAIN a.rets : a.rets[i] # "unknown"
      /\ a.fp = a.obj.fp
      /\ IsWritten(a)
  BY <1>1 DEF BatchInv, SavedAreWritten, IsWritten
<1>3. IsProgram(a.obj.progs)
  <2>1. DOMAIN a.rets = DOMAIN a.obj.progs
        /\ \A i \in DOMAIN a.obj.progs : a.rets[i] = a.obj.progs[i].ret
    BY <1>2, Zenon DEF RetTypesOf
  <2>2. QED BY <1>2, <2>1 DEF IsProgram
<1>4. a.rets \in Seq(ValueTypes) /\ Len(a.rets) = Len(a.obj.progs) /\ Len(a.rets) \in Nat
  BY <1>2, RetTypesAreTypes
<1>5. IsCore(NewCore(a.fp, core.save)) /\ NewCore(a.fp, core.save).fp = a.fp
  BY DEF IsCore, NewCore, NoJit
<1>6. NextJit \in Nat \ {0} /\ \A i \in DOMAIN entry_func_ptrs_ : entry_func_ptrs_[i].jit # NextJit
  BY NextJitIsNew
<1>7. /\ r.ok \in BOOLEAN
      /\ IsCore(r.core) /\ r.core.fp = a.fp /\ r.core.bytes = NoObject
      /\ r.ok => r.core.jit = [id |-> NextJit, obj |-> a.obj] /\ r.ptrs = EntryPointers(NextJit, Len(a.rets))
      /\ ~ r.ok => NoCode(r.core) /\ r.core.jit.id \in {0, NextJit}
  BY <1>0, <1>4, <1>5, <1>6, LoadLeaves
<1>8. CASE r.ok
  <2>1. Holds(core')
    BY <1>1, <1>2, <1>3, <1>6, <1>7, <1>8 DEF Holds
  <2>2. Installed'
    BY <1>1, <1>2, <1>4, <1>7, <1>8, <2>1 DEF Installed
  <2>3. QED BY <1>1, <1>2, <1>4, <1>7, <1>8, <2>2
<1>9. CASE ~ r.ok
  <2>1. /\ UNCHANGED <<entry_func_ptrs_, ret_types_>> /\ NoCode(core') /\ core'.jit.id \in {0, NextJit}
        /\ ret_types_ \in Seq(ValueTypes) /\ IsCore(core')
    BY <1>1, <1>7, <1>9 DEF BatchInv
  <2>2. CASE Empty
    BY <1>1, <1>2, <2>1, <2>2 DEF Empty
  <2>3. CASE Unlinked
    <3>1. Unlinked'
      BY <2>1, <2>3 DEF Unlinked, NoCode, Keeps
    <3>2. QED BY <1>1, <1>2, <2>1, <2>3, <3>1
  <2>4. CASE Installed \/ Stale
    <3>1. PICK id \in Nat \ {0} : entry_func_ptrs_ = EntryPointers(id, Len(ret_types_))
      <4>1. CASE Installed
        <5>1. core.jit.id \in Nat \ {0} /\ Len(ret_types_) = Len(core.jit.obj.progs)
          BY <4>1, RetTypesAreTypes DEF Installed, Holds, IsProgram, BatchInv, IsCore
        <5>2. QED BY <4>1, <5>1 DEF Installed
      <4>2. CASE Stale
        BY <4>2 DEF Stale
      <4>3. QED BY <2>4, <4>1, <4>2
    <3>2. CASE ret_types_ = << >>
      <4>1. entry_func_ptrs_ = << >>
        BY <3>1, <3>2, NoPointers
      <4>2. QED BY <1>1, <1>2, <2>1, <4>1 DEF Empty
    <3>3. CASE ret_types_ # << >>
      <4>1. 1 \in DOMAIN entry_func_ptrs_ /\ entry_func_ptrs_[1].jit = id
        BY <2>1, <3>1, <3>3 DEF EntryPointers
      <4>2. id # NextJit
        BY <1>6, <4>1
      <4>3. Stale'
        BY <2>1, <3>1, <4>2 DEF Stale
      <4>4. QED BY <1>1, <1>2, <2>1, <4>3
    <3>4. QED BY <3>2, <3>3
  <2>5. QED BY <2>2, <2>3, <2>4 DEF BatchInv
<1>10. QED BY <1>7, <1>8, <1>9

(* SaveCompiled is refused but where bytes were kept, of a program that is   *)
(* installed or that did not link, and writes those under their own types.  *)
LEMMA SaveWrites ==
  ASSUME BatchInv, SaveCompiled
  PROVE  /\ Installed \/ Unlinked
         /\ Installed =>
              core.bytes = core.jit.obj /\ core.jit.obj.differs = {} /\ core.jit.obj.fp = core.fp
         /\ IsWritten(Serialized(core, "batch", ret_types_))
<1>1. (Installed \/ Unlinked) /\ core.bytes # NoObject
  BY DEF SaveCompiled, BatchInv, Empty, Stale, NoCode
<1>2. Installed =>
        core.bytes = core.jit.obj /\ core.jit.obj.differs = {} /\ core.jit.obj.fp = core.fp
  BY <1>1 DEF Installed, Holds
<1>3. /\ IsProgram(core.bytes.progs) /\ core.bytes.fp = core.fp /\ core.bytes.differs = {}
      /\ ret_types_ = RetTypesOf(core.bytes.progs)
  <2>1. CASE Installed
    BY <1>2, <2>1 DEF Installed, Holds
  <2>2. CASE Unlinked
    BY <1>1, <2>2 DEF Unlinked, Keeps
  <2>3. QED BY <1>1, <2>1, <2>2
<1> DEFINE a == Serialized(core, "batch", ret_types_)
<1>4. a.mode = "batch" /\ a.fp = core.fp /\ a.rets = ret_types_ /\ a.obj = core.bytes /\ a.differs = {}
  BY DEF Serialized
<1> HIDE DEF a
<1>5. /\ DOMAIN ret_types_ = DOMAIN core.bytes.progs
      /\ \A i \in DOMAIN core.bytes.progs : ret_types_[i] = core.bytes.progs[i].ret
  BY <1>3, Zenon DEF RetTypesOf
<1>6. IsWritten(a)
  BY <1>3, <1>4, <1>5 DEF IsWritten, IsProgram
<1>7. QED BY <1>1, <1>2, <1>6 DEF a

LEMMA BatchesAreRoots ==
  ASSUME NEW n \in 1..MaxEntries, NEW nodes \in [1..n -> Roots]
  PROVE  nodes \in Seq(Roots)
<1>1. n \in Nat
  OBVIOUS
<1>2. QED BY <1>1

LEMMA BatchStep == BatchInv /\ [Next]_vars => BatchInv'
<1> SUFFICES ASSUME BatchInv, [Next]_vars PROVE BatchInv'
  OBVIOUS
<1>1. ASSUME NEW n \in 1..MaxEntries, NEW nodes \in [1..n -> Roots],
             NEW registry \in Registries, NEW fault \in Faults, Compile(nodes, registry, fault)
      PROVE  BatchInv'
  <2>1. nodes \in Seq(Roots)
    BY BatchesAreRoots
  <2>2. /\ IsCore(core') /\ UNCHANGED saved /\ ret_types_' \in Seq(ValueTypes)
        /\ Empty' \/ Unlinked' \/ Installed'
    BY <1>1, <2>1, CompileInstalls
  <2>3. QED BY <2>2 DEF BatchInv, SavedAreWritten
<1>2. CASE SaveCompiled
  <2>1. IsWritten(Serialized(core, "batch", ret_types_))
    BY <1>2, SaveWrites
  <2>2. SavedAreWritten'
    BY <1>2, <2>1 DEF SaveCompiled, BatchInv, SavedAreWritten
  <2>3. QED BY <1>2, <2>2 DEF SaveCompiled, BatchInv, Empty, Unlinked, Installed, Stale
<1>3. ASSUME NEW a \in saved, NEW registry \in Registries, NEW fault \in Faults,
             LoadCompiled(a, registry, fault)
      PROVE  BatchInv'
  <2>1. /\ IsCore(core') /\ UNCHANGED saved /\ ret_types_' \in Seq(ValueTypes)
        /\ Empty' \/ Unlinked' \/ Stale' \/ Installed'
    BY <1>3, LoadInstalls
  <2>2. QED BY <2>1 DEF BatchInv, SavedAreWritten
<1>4. CASE UNCHANGED vars
  BY <1>4 DEF vars, BatchInv, SavedAreWritten, Empty, Unlinked, Installed, Stale
<1>5. QED BY <1>1, <1>2, <1>3, <1>4 DEF Next

LEMMA BatchStart == Init => BatchInv /\ Empty
<1>1. << >> \in Seq(ValueTypes)
  OBVIOUS
<1>2. QED
  BY <1>1, JitCoreAssumption DEF Init, BatchInv, IsCore, NewCore, NoJit, SavedAreWritten, Empty

LEMMA BatchInvariant == Spec => []BatchInv
BY BatchStart, BatchStep, PTL DEF Spec

-----------------------------------------------------------------------------
(* What the pointers are in each of the four. *)
LEMMA PointersAreCallable ==
  ASSUME BatchInv
  PROVE  \/ /\ Installed /\ Len(entry_func_ptrs_) = Len(ret_types_)
            /\ DOMAIN entry_func_ptrs_ = 1..Len(core.jit.obj.progs)
            /\ \A i \in DOMAIN entry_func_ptrs_ :
                 /\ Callable(core, entry_func_ptrs_[i]) /\ entry_func_ptrs_[i].entry = i
                 /\ CodeAt(core, entry_func_ptrs_[i]) = core.jit.obj.progs[i]
                 /\ ret_types_[i] = core.jit.obj.progs[i].ret
         \/ /\ Empty \/ Unlinked \/ Stale
            /\ Len(entry_func_ptrs_) <= Len(ret_types_)
            /\ \A i \in DOMAIN entry_func_ptrs_ : ~ Callable(core, entry_func_ptrs_[i])
<1>1. Len(ret_types_) \in Nat
  BY DEF BatchInv
<1>2. CASE Empty
  BY <1>1, <1>2 DEF Empty
<1>3. CASE Unlinked
  BY <1>1, <1>3, PointersAreMany DEF Unlinked, NullPointers, Callable
<1>4. CASE Installed
  <2>1. /\ core.jit.obj.progs \in Seq(Roots) /\ core.jit.id # 0
        /\ entry_func_ptrs_ = EntryPointers(core.jit.id, Len(core.jit.obj.progs))
        /\ ret_types_ = RetTypesOf(core.jit.obj.progs)
    BY <1>4 DEF Installed, Holds, IsProgram
  <2>2. /\ Len(core.jit.obj.progs) \in Nat /\ DOMAIN core.jit.obj.progs = 1..Len(core.jit.obj.progs)
        /\ Len(ret_types_) = Len(core.jit.obj.progs)
    BY <2>1, RetTypesAreTypes
  <2>3. /\ Len(entry_func_ptrs_) = Len(core.jit.obj.progs)
        /\ DOMAIN entry_func_ptrs_ = 1..Len(core.jit.obj.progs)
    BY <2>1, <2>2, PointersAreMany
  <2>4. ASSUME NEW i \in 1..Len(core.jit.obj.progs)
        PROVE  /\ Callable(core, entry_func_ptrs_[i]) /\ entry_func_ptrs_[i].entry = i
               /\ CodeAt(core, entry_func_ptrs_[i]) = core.jit.obj.progs[i]
               /\ ret_types_[i] = core.jit.obj.progs[i].ret
    <3>1. entry_func_ptrs_[i] = [jit |-> core.jit.id, entry |-> i]
      BY <2>1 DEF EntryPointers
    <3>2. ret_types_[i] = core.jit.obj.progs[i].ret
      BY <2>1, <2>2 DEF RetTypesOf
    <3>3. QED BY <2>1, <3>1, <3>2 DEF Callable, CodeAt, Null
  <2>5. QED BY <1>4, <2>2, <2>3, <2>4
<1>5. CASE Stale
  BY <1>1, <1>5, PointersAreMany DEF Stale, EntryPointers, Callable
<1>6. QED BY <1>2, <1>3, <1>4, <1>5 DEF BatchInv

(* There are never more pointers than types, which ExecuteAt relies on when *)
(* it indexes the types unchecked, and a callable entry i is code of the    *)
(* i-th root with the i-th type: after any sequence of calls, whatever a    *)
(* failed one wrote, linked or not.                                         *)
THEOREM BatchEntriesKeepOrder == Spec => []EntriesKeepOrder
<1>1. BatchInv => EntriesKeepOrder
  <2> SUFFICES ASSUME BatchInv PROVE EntriesKeepOrder
    OBVIOUS
  <2>1. Len(ret_types_) \in Nat
    BY DEF BatchInv
  <2>2. ASSUME NEW i \in DOMAIN entry_func_ptrs_, ExecuteAtOutcome(i) = "runs"
        PROVE  Callable(core, entry_func_ptrs_[i])
    BY <2>2 DEF ExecuteAtOutcome
  <2>3. QED BY <2>1, <2>2, PointersAreCallable DEF EntriesKeepOrder
<1>2. QED BY <1>1, BatchInvariant, PTL

(* ExecuteAll never runs a prefix: all entries can be called or none can.   *)
THEOREM BatchAllOrNone == Spec => []AllOrNone
<1>1. BatchInv => AllOrNone
  <2> SUFFICES ASSUME BatchInv PROVE AllOrNone
    OBVIOUS
  <2>1. Installed => entry_func_ptrs_ # << >>
    <3>1. SUFFICES ASSUME Installed PROVE entry_func_ptrs_ # << >>
      OBVIOUS
    <3>2. core.jit.obj.progs \in Seq(Roots) /\ core.jit.obj.progs # << >>
      BY <3>1 DEF Installed, Holds, IsProgram
    <3>3. Len(core.jit.obj.progs) \in Nat \ {0}
      BY <3>2
    <3>4. Len(entry_func_ptrs_) = Len(core.jit.obj.progs)
      BY <3>1, <3>3, PointersAreMany DEF Installed
    <3>5. QED BY <3>3, <3>4
  <2>2. QED BY <2>1, PointersAreCallable DEF AllOrNone, Runnable
<1>2. QED BY <1>1, BatchInvariant, PTL

-----------------------------------------------------------------------------
(* The refinement.  Validation asks the registry which functions it knows,  *)
(* linking which symbols it maps: where the first are among the second, no  *)
(* compilation stops at the lookup with the vectors already filled in.      *)
RegistriesLink == \A registry \in Registries : registry.known \subseteq registry.mapped

NoneIsNull == \A i \in DOMAIN entry_func_ptrs_ : entry_func_ptrs_[i] # Null

LEMMA NoneIsNullWhere == (Empty \/ Installed \/ Stale) /\ BatchInv => NoneIsNull
<1> SUFFICES ASSUME Empty \/ Installed \/ Stale, BatchInv PROVE NoneIsNull
  OBVIOUS
<1>1. CASE Empty
  BY <1>1 DEF Empty, NoneIsNull
<1>2. CASE Installed
  BY <1>2 DEF Installed, Holds, EntryPointers, Null, NoneIsNull
<1>3. CASE Stale
  BY <1>3 DEF Stale, EntryPointers, Null, NoneIsNull
<1>4. QED BY <1>1, <1>2, <1>3

LEMMA NoneIsNullMeans ==
  ASSUME BatchInv, NoneIsNull
  PROVE  Empty \/ Installed \/ Stale
<1> SUFFICES ASSUME Unlinked PROVE Empty
  BY DEF BatchInv
<1>1. Len(ret_types_) \in Nat
  BY DEF BatchInv
<1>2. CASE Len(ret_types_) = 0
  BY <1>2, NoPointers DEF Unlinked, Empty
<1>3. CASE Len(ret_types_) # 0
  <2>1. 1 \in DOMAIN entry_func_ptrs_ /\ entry_func_ptrs_[1] = Null
    BY <1>1, <1>3 DEF Unlinked, NullPointers
  <2>2. QED BY <2>1 DEF NoneIsNull
<1>4. QED BY <1>2, <1>3

LEMMA KnownLinks ==
  ASSUME RegistriesLink, NEW registry \in Registries, NEW nodes \in Seq(Roots),
         \A i \in 1..Len(nodes) : Validates(nodes[i], registry)
  PROVE  Links(nodes, registry)
BY DEF RegistriesLink, Validates, Links

LEMMA NoneBecomesNull ==
  ASSUME RegistriesLink, BatchInv, NoneIsNull, [Next]_vars
  PROVE  NoneIsNull'
<1>1. BatchInv'
  BY BatchStep
<1>2. (Empty \/ Installed \/ Stale)' => NoneIsNull'
  <2>1. ((Empty \/ Installed \/ Stale) /\ BatchInv => NoneIsNull)'
    BY NoneIsNullWhere, PTL
  <2>2. QED BY <1>1, <2>1
<1>3. ASSUME NEW n \in 1..MaxEntries, NEW nodes \in [1..n -> Roots],
             NEW registry \in Registries, NEW fault \in Faults, Compile(nodes, registry, fault)
      PROVE  Empty' \/ Installed'
  BY <1>3, BatchesAreRoots, CompileInstalls, KnownLinks
<1>4. ASSUME NEW a \in saved, NEW registry \in Registries, NEW fault \in Faults,
             LoadCompiled(a, registry, fault)
      PROVE  NoneIsNull'
  BY <1>2, <1>4, LoadInstalls DEF NoneIsNull
<1>5. CASE SaveCompiled \/ UNCHANGED vars
  BY <1>5 DEF SaveCompiled, vars, NoneIsNull
<1>6. QED BY <1>2, <1>3, <1>4, <1>5 DEF Next

ContentOf(obj) == [progs |-> obj.progs, rets |-> RetTypesOf(obj.progs), fp |-> obj.fp, differs |-> obj.differs]

LEMMA InstalledIsShown == BatchInv /\ Installed => Shown = ContentOf(core.jit.obj)
<1> SUFFICES ASSUME BatchInv, Installed PROVE Shown = ContentOf(core.jit.obj)
  OBVIOUS
<1>1. /\ core.jit.obj.progs \in Seq(Roots) /\ core.jit.obj.progs # << >> /\ core.jit.id # 0
      /\ entry_func_ptrs_ = EntryPointers(core.jit.id, Len(core.jit.obj.progs))
      /\ ret_types_ = RetTypesOf(core.jit.obj.progs)
  BY DEF Installed, Holds, IsProgram
<1>2. Len(core.jit.obj.progs) \in Nat \ {0} /\ DOMAIN core.jit.obj.progs = 1..Len(core.jit.obj.progs)
  BY <1>1
<1>3. /\ DOMAIN entry_func_ptrs_ = DOMAIN core.jit.obj.progs /\ entry_func_ptrs_ # << >>
  BY <1>1, <1>2, PointersAreMany
<1>4. ASSUME NEW i \in DOMAIN entry_func_ptrs_
      PROVE  Callable(core, entry_func_ptrs_[i]) /\ CodeAt(core, entry_func_ptrs_[i]) = core.jit.obj.progs[i]
  <2>1. entry_func_ptrs_[i] = [jit |-> core.jit.id, entry |-> i]
    BY <1>1, <1>2, <1>3 DEF EntryPointers
  <2>2. QED BY <1>1, <2>1 DEF Callable, CodeAt, Null
<1>5. [i \in DOMAIN entry_func_ptrs_ |-> CodeAt(core, entry_func_ptrs_[i])] = core.jit.obj.progs
  <2>1. core.jit.obj.progs = [i \in DOMAIN core.jit.obj.progs |-> core.jit.obj.progs[i]]
    BY <1>1
  <2>2. QED BY <1>3, <1>4, <2>1
<1>6. Runnable
  BY <1>3, <1>4 DEF Runnable
<1>7. QED BY <1>1, <1>5, <1>6 DEF Shown, ContentOf

LEMMA NothingIsShown == BatchInv /\ (Empty \/ Stale) => Shown = Entries!Nothing
<1> SUFFICES ASSUME BatchInv, Empty \/ Stale PROVE ~ Runnable
  BY DEF Shown, Entries!Nothing
<1>1. CASE Empty
  BY <1>1 DEF Empty, Runnable
<1>2. CASE Stale
  <2>1. Len(ret_types_) \in Nat
    BY DEF BatchInv
  <2>2. PICK id \in Nat \ {0, core.jit.id} : entry_func_ptrs_ = EntryPointers(id, Len(ret_types_))
    BY <1>2 DEF Stale
  <2>3. CASE Len(ret_types_) = 0
    BY <2>2, <2>3, NoPointers DEF Runnable
  <2>4. CASE Len(ret_types_) # 0
    <3>1. 1 \in DOMAIN entry_func_ptrs_ /\ entry_func_ptrs_[1].jit = id
      BY <2>1, <2>2, <2>4 DEF EntryPointers
    <3>2. QED BY <2>2, <3>1 DEF Runnable, Callable
  <2>5. QED BY <2>3, <2>4
<1>3. QED BY <1>1, <1>2

LEMMA NextIsShown ==
  /\ BatchInv' /\ Installed' => Shown' = ContentOf(core.jit.obj')
  /\ BatchInv' /\ (Empty' \/ Stale') => Shown' = Entries!Nothing
<1>1. (BatchInv /\ Installed => Shown = ContentOf(core.jit.obj))'
  BY InstalledIsShown, PTL
<1>2. (BatchInv /\ (Empty \/ Stale) => Shown = Entries!Nothing)'
  BY NothingIsShown, PTL
<1>3. QED BY <1>1, <1>2 DEF Entries!Nothing

LEMMA CompileRefines ==
  ASSUME RegistriesLink, BatchInv, BatchInv', NEW nodes \in Seq(Roots), NEW registry \in Registries, NEW fault,
         Compile(nodes, registry, fault)
  PROVE  Entries!Compile \/ Entries!Drop
<1>1. /\ UNCHANGED saved
      /\ Empty' \/ (Installed' /\ core.jit.obj' = CodeOf(nodes, core.fp'))
  BY CompileInstalls, KnownLinks
<1>2. CASE Empty'
  BY <1>1, <1>2, NextIsShown DEF Entries!Drop
<1>3. CASE Installed' /\ core.jit.obj' = CodeOf(nodes, core.fp')
  <2>1. Shown' = ContentOf(CodeOf(nodes, core.fp'))
    BY <1>3, NextIsShown
  <2>2. nodes # << >>
    BY DEF Compile
  <2>3. Shown'.progs = nodes /\ Shown'.rets = RetTypesOf(nodes) /\ Shown'.differs = {}
    BY <2>1 DEF ContentOf, CodeOf
  <2>4. QED BY <1>1, <2>2, <2>3 DEF RetTypesOf, Entries!Compile, Entries!Nothing
<1>4. QED BY <1>1, <1>2, <1>3

LEMMA LoadRefines ==
  ASSUME BatchInv, BatchInv', NoneIsNull', NEW a \in saved, NEW registry, NEW fault,
         LoadCompiled(a, registry, fault)
  PROVE  Entries!Load \/ Entries!Drop
<1>1. UNCHANGED saved /\ IsWritten(a)
  BY LoadInstalls
<1>2. Empty' \/ Stale' \/ (Installed' /\ core.jit.obj' = a.obj)
  <2>1. Empty' \/ Unlinked' \/ Stale' \/ (Installed' /\ core.jit.obj' = a.obj)
    BY LoadInstalls
  <2>2. (BatchInv /\ NoneIsNull => Empty \/ Installed \/ Stale)'
    BY NoneIsNullMeans, PTL
  <2>3. Installed' => ~ Unlinked'
    BY DEF Installed, Unlinked, Holds, IsProgram, NoObject
  <2>4. QED BY <2>1, <2>2, <2>3
<1>3. a.intact /\ a.mode = "batch" /\ a.differs \subseteq Tolerated
  BY DEF LoadCompiled, Accepts
<1>4. CASE Empty' \/ Stale'
  BY <1>1, <1>4, NextIsShown DEF Entries!Drop
<1>5. CASE Installed' /\ core.jit.obj' = a.obj
  <2>1. Shown' = ContentOf(a.obj)
    BY <1>5, NextIsShown
  <2>2. ContentOf(a.obj) = Entries!ContentOf(a)
    BY <1>1 DEF IsWritten, ContentOf, Entries!ContentOf
  <2>3. Entries!Loadable(a)
    BY <1>1, <1>3 DEF IsWritten, Entries!Loadable
  <2>4. QED BY <1>1, <2>1, <2>2, <2>3 DEF Entries!Load
<1>6. QED BY <1>2, <1>4, <1>5

LEMMA SaveRefines ==
  ASSUME BatchInv, NoneIsNull, SaveCompiled
  PROVE  Entries!Save
<1> DEFINE a == Serialized(core, "batch", ret_types_)
<1>1. Installed
  BY SaveWrites, NoneIsNullMeans DEF SaveCompiled, Empty, Stale, NoCode
<1>2. /\ core.bytes = core.jit.obj /\ core.jit.obj.differs = {} /\ core.jit.obj.fp = core.fp
      /\ IsWritten(a)
  BY <1>1, SaveWrites
<1>3. a.mode = "batch" /\ a.intact = TRUE /\ a.fp = core.fp /\ a.rets = ret_types_ /\ a.obj = core.bytes
  BY DEF Serialized
<1>4. saved' = saved \cup {a} /\ UNCHANGED <<core, entry_func_ptrs_, ret_types_>>
  BY DEF SaveCompiled
<1> HIDE DEF a
<1>5. Shown = ContentOf(core.jit.obj) /\ UNCHANGED Shown
  BY <1>1, <1>4, InstalledIsShown DEF Shown, Runnable
<1>6. Shown = Entries!ContentOf(a)
  BY <1>2, <1>3, <1>5 DEF IsWritten, ContentOf, Entries!ContentOf
<1>7. Shown # Entries!Nothing
  BY <1>1, <1>5 DEF Installed, Holds, IsProgram, ContentOf, Entries!Nothing
<1>8. a.fp = Shown.fp /\ Entries!Loadable(a)
  BY <1>2, <1>3, <1>5 DEF ContentOf, Entries!Loadable
<1>9. QED BY <1>4, <1>5, <1>6, <1>7, <1>8 DEF Entries!Save

(* Where every function the registries know can be linked, a caller only    *)
(* runs what its last successful Compile or LoadCompiled installed, loads   *)
(* no blob its options reject, and saves the very program it would run:     *)
(* BatchExecEngine implements CompiledEntries.  Without the hypothesis a    *)
(* compilation whose first lookup fails can be saved (see the README).      *)
THEOREM BatchImplementsEntries ==
  ASSUME RegistriesLink
  PROVE  Spec => ImplementsEntries
<1>1. Init => Entries!Init /\ BatchInv /\ NoneIsNull
  <2> SUFFICES ASSUME Init PROVE Shown = Entries!Nothing /\ BatchInv /\ NoneIsNull
    BY DEF Entries!Init
  <2>1. BatchInv /\ Empty
    BY BatchStart
  <2>2. QED BY <2>1, NothingIsShown, NoneIsNullWhere
<1>2. BatchInv /\ NoneIsNull /\ [Next]_vars => BatchInv' /\ NoneIsNull'
  BY BatchStep, NoneBecomesNull
<1>3. ASSUME BatchInv, NoneIsNull, BatchInv', NoneIsNull', [Next]_vars
      PROVE  [Entries!Next]_<<Shown, saved>>
  <2>1. ASSUME NEW n \in 1..MaxEntries, NEW nodes \in [1..n -> Roots],
               NEW registry \in Registries, NEW fault \in Faults, Compile(nodes, registry, fault)
        PROVE  Entries!Next
    BY <1>3, <2>1, BatchesAreRoots, CompileRefines DEF Entries!Next
  <2>2. CASE SaveCompiled
    BY <1>3, <2>2, SaveRefines DEF Entries!Next
  <2>3. ASSUME NEW a \in saved, NEW registry \in Registries, NEW fault \in Faults,
               LoadCompiled(a, registry, fault)
        PROVE  Entries!Next
    BY <1>3, <2>3, LoadRefines DEF Entries!Next
  <2>4. CASE UNCHANGED vars
    BY <2>4 DEF vars, Shown, Runnable
  <2>5. QED BY <1>3, <2>1, <2>2, <2>3, <2>4 DEF Next
<1>4. QED BY <1>1, <1>2, <1>3, PTL DEF Spec, ImplementsEntries, Entries!Spec
=============================================================================
