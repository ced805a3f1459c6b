--------------------------- MODULE RegistryProofs ---------------------------
(***************************************************************************)
(* Theorems about FunctionRegistry for any names, functions and return     *)
(* types and any number of trailing pointers: a call passes what its       *)
(* function takes, and reaches the function registered for it, once an     *)
(* embedder that gave the context with RegisterFunc supplied the legacy    *)
(* signature.                                                              *)
(***************************************************************************)
EXTENDS FunctionRegistry, TLAPS

(* A C function takes the pointers of its signature and, if it asked for    *)
(* it, the context.                                                         *)
Takes(s, entry) ==
  IsC(entry) => entry.fn.ptrs = IF entry.needs_exec_ctx THEN s.ptrs + 1 ELSE s.ptrs

PointersFit == \A s \in DOMAIN funcs : Takes(s, funcs[s])

(* The registry holds what the embedder registered. *)
OwnersHeld == \A s \in DOMAIN owner : s \in DOMAIN funcs /\ funcs[s].fn = owner[s]

TypesKept == \A s \in DOMAIN owner \ overwritten : funcs[s].ret = owner[s].ret

(* The signature that a function's calls name belongs to it, and stays its  *)
(* own unless it is overwritten.  RegisterFunc does not see to that.        *)
Paired(s) ==
  /\ Legacy(s) \in DOMAIN owner
  /\ Legacy(s) \notin overwritten =>
       owner[Legacy(s)] = owner[s] /\ ~ funcs[Legacy(s)].needs_exec_ctx

SymbolsPaired == \A s \in DOMAIN owner \ unpaired : funcs[s].needs_exec_ctx => Paired(s)

RegistryInv == TypeOK /\ PointersFit /\ OwnersHeld /\ TypesKept /\ SymbolsPaired

(* What entering fn for sigs does to the table, one Insert or two. *)
Enters(sigs, fn, override) ==
  /\ override \/ sigs \cap DOMAIN funcs = {}
  /\ DOMAIN funcs' = DOMAIN funcs \cup sigs
  /\ \A s \in DOMAIN funcs \ sigs : funcs'[s] = funcs[s]
  /\ \A s \in sigs :
       /\ funcs'[s] \in Entry
       /\ funcs'[s].fn = fn
       /\ s \notin DOMAIN funcs => funcs'[s].ret = fn.ret
       /\ Takes(s, funcs'[s])
       /\ funcs'[s].needs_exec_ctx =>
            s \in unpaired' \/ (Legacy(s) \in sigs /\ ~ funcs'[Legacy(s)].needs_exec_ctx)
  /\ Record(sigs, fn, override)
  /\ unpaired \ sigs \subseteq unpaired' /\ unpaired' \subseteq unpaired \cup sigs
  /\ status' = "ok"

(* A signature is not its own legacy. *)
LEMMA LegacyDiffers ==
  ASSUME NEW s \in Sig
  PROVE  Legacy(s) # s /\ Legacy(s).ptrs = s.ptrs + 1
BY RegistryAssumption DEF Legacy, Sig

(* RegisterFunc refuses what is there, unless it may overwrite it, and      *)
(* otherwise changes one signature, whose first return type stays.          *)
Inserted(done, table, sig, entry, override) ==
  IF override \/ sig \notin DOMAIN table
    THEN /\ done.ok
         /\ DOMAIN done.table = DOMAIN table \cup {sig}
         /\ \A s \in DOMAIN table \ {sig} : done.table[s] = table[s]
         /\ sig \in DOMAIN table => done.table[sig] = [entry EXCEPT !.ret = table[sig].ret]
         /\ sig \notin DOMAIN table => done.table[sig] = entry
    ELSE ~ done.ok /\ done.table = table

(* Insert has exactly that effect: it refuses, or changes one signature. *)
LEMMA InsertEffect ==
  ASSUME NEW table, NEW sig, NEW entry, NEW override \in BOOLEAN
  PROVE  Inserted(Insert(table, sig, entry, override), table, sig, entry, override)
BY DEF Insert, Inserted

(* What is stored for a signature is an entry with what was given, the      *)
(* return type perhaps excepted.                                            *)
LEMMA StoredEntry ==
  ASSUME NEW table, NEW sig, NEW entry \in Entry, NEW override, NEW done,
         \A s \in DOMAIN table : table[s].ret \in RetTypes,
         Inserted(done, table, sig, entry, override),
         override \/ sig \notin DOMAIN table
  PROVE  /\ done.table[sig] \in Entry
         /\ done.table[sig].fn = entry.fn
         /\ done.table[sig].needs_exec_ctx = entry.needs_exec_ctx
         /\ sig \notin DOMAIN table => done.table[sig].ret = entry.ret
<1>1. CASE sig \in DOMAIN table
  <2>1. done.table[sig] = [entry EXCEPT !.ret = table[sig].ret] /\ table[sig].ret \in RetTypes
    BY <1>1 DEF Inserted
  <2>2. QED BY <1>1, <2>1 DEF Entry
<1>2. CASE sig \notin DOMAIN table
  BY <1>2 DEF Inserted
<1>3. QED BY <1>1, <1>2

(* A registration that goes through keeps the books and the table together. *)
LEMMA EntersKeepsInv ==
  ASSUME RegistryInv, NEW sigs \in SUBSET Sig, NEW fn \in CFunc \cup Intrinsic,
         NEW override \in BOOLEAN, Enters(sigs, fn, override)
  PROVE  RegistryInv'
<1>1. /\ DOMAIN owner' = DOMAIN owner \cup sigs
      /\ \A s \in sigs : owner'[s] = fn
      /\ \A s \in DOMAIN owner \ sigs : owner'[s] = owner[s]
      /\ overwritten \subseteq overwritten'
      /\ overwritten' \subseteq overwritten \cup sigs
      /\ sigs \cap DOMAIN funcs \subseteq overwritten'
  BY DEF Enters, Record
<1>2. /\ DOMAIN funcs \subseteq Sig
      /\ \A s \in DOMAIN funcs : funcs[s] \in Entry
      /\ DOMAIN owner \subseteq DOMAIN funcs
      /\ \A s \in DOMAIN owner : owner[s] \in CFunc \cup Intrinsic
      /\ overwritten \subseteq DOMAIN owner /\ unpaired \subseteq DOMAIN owner
  BY DEF RegistryInv, TypeOK, OwnersHeld
<1>3. DOMAIN funcs' = DOMAIN funcs \cup sigs
  BY DEF Enters
<1>4. \A s \in DOMAIN funcs \ sigs : funcs'[s] = funcs[s]
  BY DEF Enters
<1>5. TypeOK'
  <2>1. DOMAIN funcs' \subseteq Sig /\ \A s \in DOMAIN funcs' : funcs'[s] \in Entry
    BY <1>2, <1>3, <1>4 DEF Enters
  <2>2. DOMAIN owner' \subseteq Sig /\ \A s \in DOMAIN owner' : owner'[s] \in CFunc \cup Intrinsic
    BY <1>1, <1>2
  <2>3. overwritten' \subseteq DOMAIN owner' /\ unpaired' \subseteq DOMAIN owner'
    BY <1>1, <1>2 DEF Enters
  <2>4. QED BY <2>1, <2>2, <2>3 DEF TypeOK, Enters
<1>6. PointersFit'
  <2>1. SUFFICES ASSUME NEW s \in DOMAIN funcs' PROVE Takes(s, funcs'[s])
    BY DEF PointersFit, Takes, IsC
  <2>2. CASE s \in sigs
    BY <2>2 DEF Enters
  <2>3. CASE s \notin sigs
    BY <1>3, <1>4, <2>3 DEF RegistryInv, PointersFit
  <2>4. QED BY <2>2, <2>3
<1>7. OwnersHeld'
  <2>1. SUFFICES ASSUME NEW s \in DOMAIN owner'
                 PROVE  s \in DOMAIN funcs' /\ funcs'[s].fn = owner'[s]
    BY DEF OwnersHeld
  <2>2. CASE s \in sigs
    BY <1>1, <1>3, <2>2 DEF Enters
  <2>3. CASE s \notin sigs
    BY <1>1, <1>2, <1>3, <1>4, <2>3 DEF RegistryInv, OwnersHeld
  <2>4. QED BY <2>2, <2>3
<1>8. TypesKept'
  <2>1. SUFFICES ASSUME NEW s \in DOMAIN owner' \ overwritten'
                 PROVE  funcs'[s].ret = owner'[s].ret
    BY DEF TypesKept
  <2>2. CASE s \in sigs
    BY <1>1, <2>2 DEF Enters
  <2>3. CASE s \notin sigs
    BY <1>1, <1>2, <1>4, <2>3 DEF RegistryInv, TypesKept
  <2>4. QED BY <2>2, <2>3
<1>9. SymbolsPaired'
  <2>1. SUFFICES ASSUME NEW s \in DOMAIN owner' \ unpaired', funcs'[s].needs_exec_ctx
                 PROVE  /\ Legacy(s) \in DOMAIN owner'
                        /\ Legacy(s) \notin overwritten' =>
                             /\ owner'[Legacy(s)] = owner'[s]
                             /\ ~ funcs'[Legacy(s)].needs_exec_ctx
    BY DEF SymbolsPaired, Paired, Legacy
  <2>2. CASE s \in sigs
    BY <1>1, <2>1, <2>2 DEF Enters
  <2>3. CASE s \notin sigs
    <3>1. funcs[s].needs_exec_ctx /\ s \in DOMAIN owner \ unpaired
      BY <1>1, <1>2, <1>4, <2>1, <2>3 DEF Enters
    <3>2. Paired(s)
      BY <3>1 DEF RegistryInv, SymbolsPaired
    <3>3. CASE Legacy(s) \in sigs
      BY <1>1, <1>2, <3>2, <3>3 DEF Paired
    <3>4. CASE Legacy(s) \notin sigs
      BY <1>1, <1>2, <1>4, <2>3, <3>1, <3>2, <3>4 DEF Paired
    <3>5. QED BY <3>3, <3>4
  <2>4. QED BY <2>2, <2>3
<1>10. QED BY <1>5, <1>6, <1>7, <1>8, <1>9 DEF RegistryInv

(* A refused registration leaves the embedder's books alone.  What it may   *)
(* have entered is a signature the embedder does not own, and one that the  *)
(* linker is given no symbol for.                                           *)
Leaves(sig) ==
  /\ DOMAIN funcs \subseteq DOMAIN funcs' /\ DOMAIN funcs' \subseteq DOMAIN funcs \cup {sig}
  /\ \A s \in DOMAIN funcs : funcs'[s] = funcs[s]
  /\ sig \in DOMAIN funcs' \ DOMAIN funcs =>
       funcs'[sig] \in Entry /\ Takes(sig, funcs'[sig]) /\ funcs'[sig].needs_exec_ctx
  /\ UNCHANGED <<owner, overwritten, unpaired>>
  /\ status' = "error"

(* A refused registration keeps the books and the table together. *)
LEMMA LeavesKeepsInv ==
  ASSUME RegistryInv, NEW sig \in Sig, Leaves(sig)
  PROVE  RegistryInv'
<1>1. /\ \A s \in DOMAIN owner : s \in DOMAIN funcs /\ s \in DOMAIN funcs' /\ funcs'[s] = funcs[s]
      /\ owner' = owner /\ overwritten' = overwritten /\ unpaired' = unpaired
  BY DEF RegistryInv, OwnersHeld, Leaves
<1>2. TypeOK'
  BY <1>1 DEF RegistryInv, TypeOK, Leaves
<1>3. PointersFit'
  <2>1. SUFFICES ASSUME NEW s \in DOMAIN funcs' PROVE Takes(s, funcs'[s])
    BY DEF PointersFit, Takes, IsC
  <2>2. QED BY DEF RegistryInv, PointersFit, Leaves
<1>4. OwnersHeld'
  BY <1>1 DEF RegistryInv, OwnersHeld
<1>5. TypesKept'
  BY <1>1 DEF RegistryInv, TypesKept
<1>6. SymbolsPaired'
  <2>1. SUFFICES ASSUME NEW s \in DOMAIN owner \ unpaired, funcs[s].needs_exec_ctx
                 PROVE  /\ Legacy(s) \in DOMAIN owner
                        /\ Legacy(s) \notin overwritten =>
                             owner[Legacy(s)] = owner[s] /\ ~ funcs'[Legacy(s)].needs_exec_ctx
    BY <1>1 DEF SymbolsPaired, Paired, Legacy
  <2>2. Paired(s)
    BY <2>1 DEF RegistryInv, SymbolsPaired
  <2>3. QED BY <1>1, <2>2 DEF Paired
<1>7. QED BY <1>2, <1>3, <1>4, <1>5, <1>6 DEF RegistryInv

(* The signatures an embedder passes.                                       *)
Given == [name : Names, ptrs : 0..MaxPtrs]

(* The signature of a call and the legacy one of it have their type. *)
LEMMA GivenTyped ==
  ASSUME NEW sig \in Given
  PROVE  sig \in Sig /\ Legacy(sig) \in Sig /\ sig.ptrs \in Nat
BY RegistryAssumption DEF Given, Sig, Legacy

(* One signature goes in, or nothing happens. *)
LEMMA RegisterOneStep ==
  ASSUME RegistryInv, NEW sig \in Given, NEW fn \in CFunc \cup Intrinsic,
         NEW needs_exec_ctx \in BOOLEAN,
         fn.ptrs = IF needs_exec_ctx THEN sig.ptrs + 1 ELSE sig.ptrs,
         NEW override \in Overrides, RegisterOne(sig, fn, needs_exec_ctx, override)
  PROVE  Enters({sig}, fn, override) \/ Leaves(sig)
<1> DEFINE entry == [ret |-> fn.ret, fn |-> fn, needs_exec_ctx |-> needs_exec_ctx]
           done == Insert(funcs, sig, entry, override)
<1>1. override \in BOOLEAN
  BY RegistryAssumption
<1>2. Inserted(done, funcs, sig, entry, override)
  BY <1>1, InsertEffect
<1>3. /\ funcs' = done.table
      /\ status' = IF done.ok THEN "ok" ELSE "error"
      /\ IF done.ok
           THEN /\ Record({sig}, fn, override)
                /\ unpaired' = IF needs_exec_ctx THEN unpaired \cup {sig} ELSE unpaired \ {sig}
           ELSE UNCHANGED <<owner, overwritten, unpaired>>
  BY DEF RegisterOne
<1> HIDE DEF done
<1>4. \A s \in DOMAIN funcs : funcs[s].ret \in RetTypes
  BY DEF RegistryInv, TypeOK, Entry
<1>5. CASE ~ (override \/ sig \notin DOMAIN funcs)
  BY <1>2, <1>3, <1>5 DEF Inserted, Leaves
<1>6. CASE override \/ sig \notin DOMAIN funcs
  <2>1. /\ done.table[sig] \in Entry
        /\ done.table[sig].fn = fn
        /\ done.table[sig].needs_exec_ctx = needs_exec_ctx
        /\ sig \notin DOMAIN funcs => done.table[sig].ret = fn.ret
    <3>1. entry \in Entry
      BY DEF Entry, CFunc, Intrinsic
    <3>2. entry.fn = fn /\ entry.needs_exec_ctx = needs_exec_ctx /\ entry.ret = fn.ret
      OBVIOUS
    <3> HIDE DEF entry
    <3>3. QED BY <1>2, <1>4, <1>6, <3>1, <3>2, StoredEntry
  <2>2. /\ DOMAIN funcs' = DOMAIN funcs \cup {sig}
        /\ \A s \in DOMAIN funcs \ {sig} : funcs'[s] = funcs[s]
        /\ Record({sig}, fn, override)
        /\ status' = "ok"
    BY <1>2, <1>3, <1>6 DEF Inserted
  <2>3. Takes(sig, funcs'[sig])
    BY <1>3, <2>1 DEF Takes
  <2>4. /\ unpaired \ {sig} \subseteq unpaired' /\ unpaired' \subseteq unpaired \cup {sig}
        /\ needs_exec_ctx => sig \in unpaired'
    BY <1>2, <1>3, <1>6 DEF Inserted
  <2>5. QED BY <1>3, <1>6, <2>1, <2>2, <2>3, <2>4 DEF Enters
<1>7. QED BY <1>5, <1>6

(* Two signatures go in; or nothing does; or the first does and stays,      *)
(* unowned, when the second is refused.                                     *)
LEMMA RegisterWithExecCtxStep ==
  ASSUME RegistryInv, NEW sig \in Given, NEW fn \in CFunc,
         NEW override \in Overrides, RegisterCFuncWithExecCtx(sig, fn, override)
  PROVE  Enters({sig, Legacy(sig)}, fn, override) \/ Leaves(sig)
<1> DEFINE first == [ret |-> fn.ret, fn |-> fn, needs_exec_ctx |-> TRUE]
           modern == Insert(funcs, sig, first, override)
           second == [ret |-> fn.ret, fn |-> fn, needs_exec_ctx |-> FALSE]
           legacy == Insert(modern.table, Legacy(sig), second, override)
<1>1. override \in BOOLEAN
  BY RegistryAssumption
<1>2. Inserted(modern, funcs, sig, first, override)
  BY <1>1, InsertEffect
<1>3. Inserted(legacy, modern.table, Legacy(sig), second, override)
  BY <1>1, InsertEffect
<1>4. \/ ~ modern.ok /\ Refuse
      \/ /\ modern.ok
         /\ funcs' = legacy.table
         /\ status' = IF legacy.ok THEN "ok" ELSE "error"
         /\ IF legacy.ok
              THEN /\ Record({sig, Legacy(sig)}, fn, override)
                   /\ unpaired' = unpaired \ {sig, Legacy(sig)}
              ELSE UNCHANGED <<owner, overwritten, unpaired>>
  BY DEF RegisterCFuncWithExecCtx
<1> HIDE DEF modern, legacy
<1>5. /\ sig \in Sig /\ Legacy(sig) \in Sig
      /\ Legacy(sig) # sig /\ Legacy(sig).ptrs = sig.ptrs + 1
  BY GivenTyped, LegacyDiffers
<1>6. \A s \in DOMAIN funcs : funcs[s].ret \in RetTypes
  BY DEF RegistryInv, TypeOK, Entry
<1>7. CASE ~ modern.ok
  BY <1>4, <1>7 DEF Refuse, Leaves
<1>8. CASE modern.ok
  <2>1. override \/ sig \notin DOMAIN funcs
    BY <1>2, <1>8 DEF Inserted
  <2>2. /\ DOMAIN modern.table = DOMAIN funcs \cup {sig}
        /\ \A s \in DOMAIN funcs \ {sig} : modern.table[s] = funcs[s]
    BY <1>2, <2>1 DEF Inserted
  <2>3. /\ modern.table[sig] \in Entry
        /\ modern.table[sig].fn = fn
        /\ modern.table[sig].needs_exec_ctx = TRUE
        /\ sig \notin DOMAIN funcs => modern.table[sig].ret = fn.ret
    <3>1. first \in Entry
      BY DEF Entry, CFunc
    <3>2. first.fn = fn /\ first.needs_exec_ctx = TRUE /\ first.ret = fn.ret
      OBVIOUS
    <3> HIDE DEF first
    <3>3. /\ modern.table[sig] \in Entry
          /\ modern.table[sig].fn = first.fn
          /\ modern.table[sig].needs_exec_ctx = first.needs_exec_ctx
          /\ sig \notin DOMAIN funcs => modern.table[sig].ret = first.ret
      BY <1>2, <1>6, <2>1, <3>1, StoredEntry
    <3>4. QED BY <3>2, <3>3
  <2>4. Takes(sig, modern.table[sig])
    BY <2>3 DEF Takes, RegisterCFuncWithExecCtx
  <2>5. CASE ~ legacy.ok
    <3>1. ~ override /\ legacy.table = modern.table
      BY <1>3, <2>5 DEF Inserted
    <3>2. sig \notin DOMAIN funcs
      BY <2>1, <3>1
    <3>3. QED BY <1>4, <1>8, <2>2, <2>3, <2>4, <2>5, <3>1, <3>2 DEF Leaves
  <2>6. CASE legacy.ok
    <3>1. override \/ Legacy(sig) \notin DOMAIN modern.table
      BY <1>3, <2>6 DEF Inserted
    <3>2. /\ DOMAIN legacy.table = DOMAIN modern.table \cup {Legacy(sig)}
          /\ \A s \in DOMAIN modern.table \ {Legacy(sig)} : legacy.table[s] = modern.table[s]
      BY <1>3, <3>1 DEF Inserted
    <3>3. \A s \in DOMAIN modern.table : modern.table[s].ret \in RetTypes
      BY <1>6, <2>2, <2>3 DEF Entry
    <3>4. /\ legacy.table[Legacy(sig)] \in Entry
          /\ legacy.table[Legacy(sig)].fn = fn
          /\ legacy.table[Legacy(sig)].needs_exec_ctx = FALSE
          /\ Legacy(sig) \notin DOMAIN modern.table => legacy.table[Legacy(sig)].ret = fn.ret
      <4>1. second \in Entry
        BY DEF Entry, CFunc
      <4>2. second.fn = fn /\ second.needs_exec_ctx = FALSE /\ second.ret = fn.ret
        OBVIOUS
      <4> HIDE DEF second
      <4>3. /\ legacy.table[Legacy(sig)] \in Entry
            /\ legacy.table[Legacy(sig)].fn = second.fn
            /\ legacy.table[Legacy(sig)].needs_exec_ctx = second.needs_exec_ctx
            /\ Legacy(sig) \notin DOMAIN modern.table =>
                 legacy.table[Legacy(sig)].ret = second.ret
        BY <1>3, <3>1, <3>3, <4>1, StoredEntry
      <4>4. QED BY <4>2, <4>3
    <3>5. Takes(Legacy(sig), legacy.table[Legacy(sig)])
      BY <1>5, <3>4 DEF Takes, RegisterCFuncWithExecCtx
    <3>6. /\ DOMAIN funcs' = DOMAIN funcs \cup {sig, Legacy(sig)}
          /\ \A s \in DOMAIN funcs \ {sig, Legacy(sig)} : funcs'[s] = funcs[s]
          /\ funcs'[sig] = modern.table[sig]
          /\ override \/ {sig, Legacy(sig)} \cap DOMAIN funcs = {}
      BY <1>4, <1>5, <1>8, <2>1, <2>2, <3>1, <3>2
    <3>7. /\ Legacy(sig) \notin DOMAIN funcs => funcs'[Legacy(sig)].ret = fn.ret
          /\ funcs'[Legacy(sig)] = legacy.table[Legacy(sig)]
      BY <1>4, <1>5, <1>8, <2>2, <3>4
    <3>8. /\ Record({sig, Legacy(sig)}, fn, override) /\ status' = "ok"
          /\ unpaired' = unpaired \ {sig, Legacy(sig)}
      BY <1>4, <1>8, <2>6
    <3>9. QED BY <2>3, <2>4, <3>4, <3>5, <3>6, <3>7, <3>8 DEF Enters
  <2>7. QED BY <2>5, <2>6
<1>9. QED BY <1>7, <1>8

(* Every registration either goes in or leaves the books alone. *)
LEMMA StepShape ==
  ASSUME RegistryInv, Next
  PROVE  \/ \E sigs \in SUBSET Sig, fn \in CFunc \cup Intrinsic, override \in BOOLEAN :
              Enters(sigs, fn, override)
         \/ \E sig \in Sig : Leaves(sig)
         \/ Refuse
<1>1. CASE RegisterNothing
  BY <1>1 DEF RegisterNothing
<1>2. ASSUME NEW sig \in Given, NEW override \in Overrides, NEW ret \in RetTypes,
             RegisterLLVMIntrinicFunc(sig, ret, override)
      PROVE  \/ \E sigs \in SUBSET Sig, fn \in CFunc \cup Intrinsic, o \in BOOLEAN : Enters(sigs, fn, o)
             \/ \E s \in Sig : Leaves(s)
  <2> DEFINE fn == [id |-> "intrinsic", ptrs |-> sig.ptrs, ret |-> ret]
  <2>1. fn \in CFunc \cup Intrinsic /\ fn.ptrs = sig.ptrs /\ RegisterOne(sig, fn, FALSE, override)
    BY <1>2 DEF RegisterLLVMIntrinicFunc, Intrinsic, Given
  <2>2. Enters({sig}, fn, override) \/ Leaves(sig)
    <3> HIDE DEF fn
    <3>1. QED BY <2>1, RegisterOneStep
  <2>3. {sig} \in SUBSET Sig /\ sig \in Sig /\ override \in BOOLEAN
    BY GivenTyped, RegistryAssumption
  <2>4. QED BY <2>1, <2>2, <2>3
<1>3. ASSUME NEW sig \in Given, NEW override \in Overrides, NEW fn \in CFunc,
             RegisterCFunc(sig, fn, override)
      PROVE  \/ \E sigs \in SUBSET Sig, f \in CFunc \cup Intrinsic, o \in BOOLEAN : Enters(sigs, f, o)
             \/ \E s \in Sig : Leaves(s)
  <2>1. fn \in CFunc \cup Intrinsic /\ fn.ptrs = sig.ptrs /\ RegisterOne(sig, fn, FALSE, override)
    BY <1>3 DEF RegisterCFunc
  <2>2. Enters({sig}, fn, override) \/ Leaves(sig)
    BY <2>1, RegisterOneStep
  <2>3. {sig} \in SUBSET Sig /\ sig \in Sig /\ override \in BOOLEAN
    BY GivenTyped, RegistryAssumption
  <2>4. QED BY <2>1, <2>2, <2>3
<1>4. ASSUME NEW sig \in Given, NEW override \in Overrides, NEW fn \in CFunc,
             RegisterCFuncWithExecCtx(sig, fn, override)
      PROVE  \/ \E sigs \in SUBSET Sig, f \in CFunc \cup Intrinsic, o \in BOOLEAN : Enters(sigs, f, o)
             \/ \E s \in Sig : Leaves(s)
  <2>1. Enters({sig, Legacy(sig)}, fn, override) \/ Leaves(sig)
    BY <1>4, RegisterWithExecCtxStep
  <2>2. /\ {sig, Legacy(sig)} \in SUBSET Sig /\ sig \in Sig
        /\ override \in BOOLEAN /\ fn \in CFunc \cup Intrinsic
    BY GivenTyped, RegistryAssumption
  <2>3. QED BY <2>1, <2>2
<1>5. ASSUME NEW sig \in Given, NEW override \in Overrides, NEW fn \in CFunc,
             NEW needs_exec_ctx \in BOOLEAN, RegisterFunc(sig, fn, needs_exec_ctx, override)
      PROVE  \/ \E sigs \in SUBSET Sig, f \in CFunc \cup Intrinsic, o \in BOOLEAN : Enters(sigs, f, o)
             \/ \E s \in Sig : Leaves(s)
  <2>1. /\ fn \in CFunc \cup Intrinsic
        /\ fn.ptrs = IF needs_exec_ctx THEN sig.ptrs + 1 ELSE sig.ptrs
        /\ RegisterOne(sig, fn, needs_exec_ctx, override)
    BY <1>5 DEF RegisterFunc
  <2>2. Enters({sig}, fn, override) \/ Leaves(sig)
    BY <2>1, RegisterOneStep
  <2>3. {sig} \in SUBSET Sig /\ sig \in Sig /\ override \in BOOLEAN
    BY GivenTyped, RegistryAssumption
  <2>4. QED BY <2>1, <2>2, <2>3
<1>6. QED BY <1>1, <1>2, <1>3, <1>4, <1>5 DEF Next, Given

(* The invariant holds in every reachable state. *)
LEMMA Invariance == Spec => []RegistryInv
<1>1. Init => RegistryInv
  BY DEF Init, RegistryInv, TypeOK, PointersFit, OwnersHeld, TypesKept, SymbolsPaired
<1>2. RegistryInv /\ [Next]_vars => RegistryInv'
  <2>1. SUFFICES ASSUME RegistryInv, [Next]_vars PROVE RegistryInv'
    OBVIOUS
  <2>2. CASE Next
    <3>1. CASE \E sigs \in SUBSET Sig, fn \in CFunc \cup Intrinsic, override \in BOOLEAN :
                 Enters(sigs, fn, override)
      BY <2>1, <3>1, EntersKeepsInv
    <3>2. CASE \E sig \in Sig : Leaves(sig)
      BY <2>1, <3>2, LeavesKeepsInv
    <3>3. CASE Refuse
      BY <2>1, <3>3 DEF Refuse, RegistryInv, TypeOK, PointersFit, OwnersHeld, TypesKept,
        SymbolsPaired, Paired, Takes, IsC, Legacy
    <3>4. QED BY <2>1, <2>2, <3>1, <3>2, <3>3, StepShape
  <2>3. CASE UNCHANGED vars
    BY <2>1, <2>3 DEF vars, RegistryInv, TypeOK, PointersFit, OwnersHeld, TypesKept,
      SymbolsPaired, Paired, Takes, IsC, Legacy
  <2>4. QED BY <2>1, <2>2, <2>3
<1>3. QED BY <1>1, <1>2, PTL DEF Spec

(* Table, books and status keep their types: the second signature of a      *)
(* function that takes the context has at most MaxPtrs + 1 pointers, and    *)
(* nothing is overwritten that the embedder does not own afterwards.        *)
THEOREM RegistryTypeCorrect == Spec => []TypeOK
<1>1. RegistryInv => TypeOK
  BY DEF RegistryInv
<1>2. QED BY <1>1, Invariance, PTL

(* A call passes the context exactly when the function its symbol reaches   *)
(* expects it, after any registrations, overwriting ones included: the      *)
(* generated call has the arguments the C function was compiled with.       *)
THEOREM CallsPassWhatIsTaken == Spec => []ArgumentsMatch
<1>1. RegistryInv => ArgumentsMatch
  <2>1. SUFFICES ASSUME RegistryInv, NEW s \in CSigs, Symbol(s) \in Symbols
                 PROVE  Arguments(s) = Callee(s).ptrs
    BY DEF ArgumentsMatch
  <2>2. s \in DOMAIN funcs /\ s \in Sig
    BY <2>1 DEF CSigs, RegistryInv, TypeOK
  <2>3. Takes(Symbol(s), funcs[Symbol(s)]) /\ IsC(funcs[Symbol(s)]) /\ ~ funcs[Symbol(s)].needs_exec_ctx
    BY <2>1 DEF Symbols, RegistryInv, PointersFit
  <2>4. Callee(s).ptrs = Symbol(s).ptrs
    BY <2>3 DEF Takes, Callee
  <2>5. QED BY <2>2, <2>4, LegacyDiffers DEF Symbol, Arguments
<1>2. QED BY <1>1, Invariance, PTL

(* A call of a registered signature links, reaches the function registered  *)
(* for it and expects its return type, whatever else was registered or      *)
(* refused, unless the embedder overwrote one of the two signatures, or     *)
(* entered the signature with needs_exec_ctx through RegisterFunc and not   *)
(* its function for the legacy one.                                         *)
THEOREM CallsReachTheirOwner == Spec => []OwnerIsCalled
<1>1. RegistryInv => OwnerIsCalled
  <2>1. SUFFICES ASSUME RegistryInv, NEW s \in DOMAIN owner, {s, Symbol(s)} \cap overwritten = {}
                 PROVE  /\ CallRet(s) = owner[s].ret
                        /\ s \in CSigs /\ Supplied(s) => Symbol(s) \in Symbols /\ Callee(s) = owner[s]
    BY DEF OwnerIsCalled
  <2>2. s \in DOMAIN funcs /\ funcs[s].fn = owner[s]
    BY <2>1 DEF RegistryInv, OwnersHeld
  <2>3. CallRet(s) = owner[s].ret
    BY <2>1 DEF RegistryInv, TypesKept, CallRet
  <2>4. ASSUME s \in CSigs, Supplied(s) PROVE Symbol(s) \in Symbols /\ Callee(s) = owner[s]
    <3>1. IsC(funcs[s])
      BY <2>4 DEF CSigs
    <3>2. CASE ~ funcs[s].needs_exec_ctx
      BY <2>2, <3>1, <3>2 DEF Symbol, Symbols, Callee
    <3>3. CASE funcs[s].needs_exec_ctx
      <4>1. Symbol(s) = Legacy(s)
        BY <3>3 DEF Symbol
      <4>2. Legacy(s) \in DOMAIN owner /\ owner[Legacy(s)] = owner[s]
        BY <2>1, <2>4, <3>3, <4>1 DEF Supplied, RegistryInv, SymbolsPaired, Paired
      <4>3. Legacy(s) \in DOMAIN funcs /\ funcs[Legacy(s)].fn = owner[s]
        BY <2>1, <4>2 DEF RegistryInv, OwnersHeld
      <4>4. IsC(funcs[Legacy(s)])
        BY <2>2, <3>1, <4>3 DEF IsC
      <4>5. ~ funcs[Legacy(s)].needs_exec_ctx
        <5>1. s \in Sig /\ s.ptrs \in Nat /\ Legacy(s).ptrs = s.ptrs + 1
          BY <2>1, LegacyDiffers, RegistryAssumption DEF RegistryInv, TypeOK, Sig
        <5>2. funcs[s].fn.ptrs = s.ptrs + 1
          BY <2>1, <2>2, <3>1, <3>3 DEF RegistryInv, PointersFit, Takes
        <5>3. Takes(Legacy(s), funcs[Legacy(s)])
          BY <2>1, <4>3 DEF RegistryInv, PointersFit
        <5>4. QED BY <2>2, <4>3, <4>4, <5>1, <5>2, <5>3 DEF Takes
      <4>6. QED BY <4>1, <4>3, <4>4, <4>5 DEF Symbols, Callee
    <3>4. QED BY <3>2, <3>3
  <2>5. QED BY <2>3, <2>4
<1>2. QED BY <1>1, Invariance, PTL

(* A refused registration, half done or not, leaves the function and the    *)
(* return type of every signature the embedder owns as they were, and what  *)
(* their calls reach: a call that links reaches the same function, and one  *)
(* that has no symbol still has none.                                       *)
THEOREM RefusalsDisturbNobody == Spec => RefusalDisturbsNoOwner
<1> DEFINE Undisturbed ==
      status' = "error" =>
        \A s \in DOMAIN owner :
          funcs'[s] = funcs[s] /\ (IsC(funcs[s]) => Reached(s)' = Reached(s))
<1>1. RegistryInv /\ [Next]_vars => [Undisturbed]_vars
  <2>1. SUFFICES ASSUME RegistryInv, Next, status' = "error", NEW s \in DOMAIN owner
                 PROVE  funcs'[s] = funcs[s] /\ Reached(s)' = Reached(s)
    OBVIOUS
  <2>2. s \in DOMAIN funcs
    BY <2>1 DEF RegistryInv, OwnersHeld
  <2>3. /\ DOMAIN funcs \subseteq DOMAIN funcs'
        /\ \A t \in DOMAIN funcs : funcs'[t] = funcs[t]
        /\ \A t \in DOMAIN funcs' \ DOMAIN funcs : funcs'[t].needs_exec_ctx
    <3>1. CASE \E sig \in Sig : Leaves(sig)
      BY <3>1 DEF Leaves
    <3>2. CASE Refuse
      BY <3>2 DEF Refuse
    <3>3. QED BY <2>1, <3>1, <3>2, StepShape DEF Enters
  <2>4. Symbol(s)' = Symbol(s)
    BY <2>2, <2>3 DEF Symbol, Legacy
  <2>5. Symbols' = Symbols
    BY <2>3 DEF Symbols, IsC
  <2>6. ASSUME Symbol(s) \in Symbols PROVE Callee(s)' = Callee(s)
    BY <2>3, <2>4, <2>6 DEF Symbols, Callee
  <2>7. QED BY <2>2, <2>3, <2>4, <2>5, <2>6 DEF Reached
<1>2. QED BY <1>1, Invariance, PTL DEF Spec, RefusalDisturbsNoOwner
=============================================================================
