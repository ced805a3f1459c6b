-------------------------- MODULE FunctionRegistry --------------------------
(***************************************************************************)
(* The table of functions an expression may call: src/function_registry.cc *)
(* and the call FunctionNode's code generation emits from it,              *)
(* src/codegen/function_codegen.cc.                                        *)
(*                                                                         *)
(* A signature is a name with its parameter types.  Only what the registry *)
(* looks at is kept of the parameters: how many trailing kPtr there are,   *)
(* since RegisterXxxCFuncWithExecCtx enters a second, "legacy", signature  *)
(* that has one more.  The attribute setters of the three kinds of C       *)
(* function are left out: they change what LLVM may optimise, not what is  *)
(* called.                                                                 *)
(***************************************************************************)
EXTENDS Integers

CONSTANTS
  Names,          \* function names, each with fixed leading parameters
  MaxPtrs,        \* bound: trailing kPtr parameters in a registered signature
  Ids,            \* identities of the C functions
  RetTypes,       \* return types
  Overrides,      \* the values of allow_override the embedder uses
  IntrinsicPtrs   \* trailing kPtr of the signatures given to LLVM intrinsics

ASSUME RegistryAssumption ==
  /\ MaxPtrs \in Nat
  /\ Overrides \subseteq BOOLEAN
  /\ IntrinsicPtrs \subseteq 0..MaxPtrs

VARIABLES
  funcs,          \* signature2funcstruct_, the stored key's ret_type_ included
  owner,          \* the embedder's side: the function it last got registered
  overwritten,    \* the signatures it has ever overwritten
  unpaired,       \* those it gave the context to with RegisterFunc itself
  status          \* status of the last call: "ok" or "error"

vars == <<funcs, owner, overwritten, unpaired, status>>

----------------------------------------------------------------------------
(* What FunctionSignature::operator== and Hash() look at: not ret_type_. *)
Sig == [name : Names, ptrs : 0..MaxPtrs + 1]

(* The signature WithExecCtx adds for callers that pass the context. *)
Legacy(sig) == [sig EXCEPT !.ptrs = sig.ptrs + 1]

(* A C function with the trailing pointers it takes and what it returns. *)
CFunc == [id : Ids, ptrs : 0..MaxPtrs + 1, ret : RetTypes]

(* LLVM intrinsics generate code in place and have no symbol. *)
Intrinsic == [id : {"intrinsic"}, ptrs : 0..MaxPtrs, ret : RetTypes]

Entry == [ret : RetTypes, fn : CFunc \cup Intrinsic, needs_exec_ctx : BOOLEAN]

IsC(entry) == entry.fn.id # "intrinsic"

(* Mutants of Insert: the guard on allow_override is gone; a registration   *)
(* replaces what was there and reports an error.                            *)
InsertUnguarded(table, sig, entry, override) ==
  [ok |-> TRUE,
   table |-> [s \in DOMAIN table \cup {sig} |-> IF s = sig THEN entry ELSE table[s]]]

InsertThenCheck(table, sig, entry, override) ==
  [ok |-> override \/ sig \notin DOMAIN table,
   table |-> [s \in DOMAIN table \cup {sig} |-> IF s = sig THEN entry ELSE table[s]]]

(* RegisterFunc on a table.  signature2funcstruct_[sign] = struct keeps the *)
(* key that is already there, and with it the return type it was stored     *)
(* with.                                                                    *)
Insert(table, sig, entry, override) ==
  IF sig \in DOMAIN table /\ ~ override
  THEN [ok |-> FALSE, table |-> table]
  ELSE [ok |-> TRUE,
        table |-> [s \in DOMAIN table \cup {sig} |->
                     IF s # sig THEN table[s]
                     ELSE IF s \in DOMAIN table THEN [entry EXCEPT !.ret = table[s].ret]
                     ELSE entry]]

(* The embedder's books: it has got fn registered for sigs. *)
Record(sigs, fn, override) ==
  /\ owner' = [s \in DOMAIN owner \cup sigs |-> IF s \in sigs THEN fn ELSE owner[s]]
  /\ overwritten' = IF override THEN overwritten \cup (sigs \cap DOMAIN funcs) ELSE overwritten

----------------------------------------------------------------------------
Init ==
  /\ funcs = << >>
  /\ owner = << >>
  /\ overwritten = {} /\ unpaired = {}
  /\ status = "ok"

Refuse == status' = "error" /\ UNCHANGED <<funcs, owner, overwritten, unpaired>>

(* A null function pointer, or an intrinsic without a generator. *)
RegisterNothing == Refuse

(* One entry goes in.  One that takes the context has no legacy signature   *)
(* beside it: that is left to the embedder.                                 *)
RegisterOne(sig, fn, needs_exec_ctx, override) ==
  LET done == Insert(funcs, sig, [ret |-> fn.ret, fn |-> fn, needs_exec_ctx |-> needs_exec_ctx], override)
  IN  /\ funcs' = done.table
      /\ status' = IF done.ok THEN "ok" ELSE "error"
      /\ IF done.ok
           THEN /\ Record({sig}, fn, override)
                /\ unpaired' = IF needs_exec_ctx THEN unpaired \cup {sig} ELSE unpaired \ {sig}
           ELSE UNCHANGED <<owner, overwritten, unpaired>>

(* RegisterFunc as an embedder calls it, with a FunctionStructure of its    *)
(* own: needs_exec_ctx is a public field.  Of an intrinsic it is not read.  *)
RegisterFunc(sig, fn, needs_exec_ctx, override) ==
  /\ fn.ptrs = IF needs_exec_ctx THEN sig.ptrs + 1 ELSE sig.ptrs
  /\ RegisterOne(sig, fn, needs_exec_ctx, override)

RegisterLLVMIntrinicFunc(sig, ret, override) ==
  /\ sig.ptrs \in IntrinsicPtrs
  /\ RegisterOne(sig, [id |-> "intrinsic", ptrs |-> sig.ptrs, ret |-> ret], FALSE, override)

(* RegisterReadOnlyCFunc, RegisterStoreCFunc and RegisterCommutativeCFunc. *)
RegisterCFunc(sig, fn, override) ==
  /\ fn.ptrs = sig.ptrs
  /\ RegisterOne(sig, fn, FALSE, override)

(* RegisterReadOnlyCFuncWithExecCtx and RegisterCommutativeCFuncWithExecCtx: *)
(* the signature without the context, then the one with it.  When the second *)
(* is refused the first stays.                                               *)
RegisterCFuncWithExecCtx(sig, fn, override) ==
  LET modern == Insert(funcs, sig, [ret |-> fn.ret, fn |-> fn, needs_exec_ctx |-> TRUE], override)
      legacy == Insert(modern.table, Legacy(sig),
                       [ret |-> fn.ret, fn |-> fn, needs_exec_ctx |-> FALSE], override)
  IN  /\ fn.ptrs = sig.ptrs + 1
      /\ \/ /\ ~ modern.ok
            /\ Refuse
         \/ /\ modern.ok
            /\ funcs' = legacy.table
            /\ status' = IF legacy.ok THEN "ok" ELSE "error"
            /\ IF legacy.ok
                 THEN /\ Record({sig, Legacy(sig)}, fn, override)
                      /\ unpaired' = unpaired \ {sig, Legacy(sig)}
                 ELSE UNCHANGED <<owner, overwritten, unpaired>>

Next ==
  \/ RegisterNothing
  \/ \E sig \in [name : Names, ptrs : 0..MaxPtrs], override \in Overrides :
       \/ \E ret \in RetTypes : RegisterLLVMIntrinicFunc(sig, ret, override)
       \/ \E fn \in CFunc, needs_exec_ctx \in BOOLEAN : RegisterFunc(sig, fn, needs_exec_ctx, override)
       \/ \E fn \in CFunc : RegisterCFunc(sig, fn, override)
       \/ \E fn \in CFunc : RegisterCFuncWithExecCtx(sig, fn, override)

Spec == Init /\ [][Next]_vars

----------------------------------------------------------------------------
(* Compiling a call                                                        *)

(* MappingToJIT: the symbols the linker can resolve, and what they stand for. *)
Symbols == {s \in DOMAIN funcs : IsC(funcs[s]) /\ ~ funcs[s].needs_exec_ctx}

(* Signatures whose calls are calls of a C function. *)
CSigs == {s \in DOMAIN funcs : IsC(funcs[s])}

(* Visit(FunctionNode): with needs_exec_ctx the call carries the context as *)
(* one more pointer and names the legacy signature.                         *)
Symbol(sig) == IF funcs[sig].needs_exec_ctx THEN Legacy(sig) ELSE sig

(* Mutant of Arguments: the context is not injected. *)
ArgumentsAsWritten(sig) == sig.ptrs

(* The trailing pointers the call passes. *)
Arguments(sig) == IF funcs[sig].needs_exec_ctx THEN sig.ptrs + 1 ELSE sig.ptrs

(* The function the emitted call reaches once linked. *)
Callee(sig) == funcs[Symbol(sig)].fn

(* That function, or none if the linker has no such symbol. *)
Reached(sig) == IF Symbol(sig) \in Symbols THEN {Callee(sig)} ELSE {}

(* GetFuncBySign: the type the validator gives the call's result, and so    *)
(* the type the emitted call expects back.                                  *)
CallRet(sig) == funcs[sig].ret

----------------------------------------------------------------------------
(* Properties                                                              *)

TypeOK ==
  /\ DOMAIN funcs \subseteq Sig /\ \A s \in DOMAIN funcs : funcs[s] \in Entry
  /\ DOMAIN owner \subseteq Sig /\ \A s \in DOMAIN owner : owner[s] \in CFunc \cup Intrinsic
  /\ overwritten \subseteq DOMAIN owner /\ unpaired \subseteq DOMAIN owner
  /\ status \in {"ok", "error"}

(* The context is injected exactly when the function reached expects it,    *)
(* whichever registration the symbol came from.                             *)
ArgumentsMatch == \A s \in CSigs : Symbol(s) \in Symbols => Arguments(s) = Callee(s).ptrs

(* An embedder that gives a function the context through RegisterFunc has   *)
(* to register the function for the legacy signature too: without it there  *)
(* is no symbol, and the call does not link.                                *)
Supplied(s) == s \in unpaired => Legacy(s) \in DOMAIN owner /\ owner[Legacy(s)] = owner[s]

(* A call of a registered signature links, whatever was registered or       *)
(* refused for the signature with one pointer more since then; it reaches   *)
(* the function registered for it and expects the type that one returns.    *)
(* Only an embedder that overwrites the signature, or the one its symbol    *)
(* belongs to, can change that.  A signature entered with needs_exec_ctx    *)
(* through RegisterFunc links once the legacy one is supplied.              *)
OwnerIsCalled ==
  \A s \in DOMAIN owner :
    {s, Symbol(s)} \cap overwritten = {} =>
      /\ CallRet(s) = owner[s].ret
      /\ s \in CSigs /\ Supplied(s) => Symbol(s) \in Symbols /\ Callee(s) = owner[s]

(* A refused registration changes no call of a signature whose own          *)
(* registration succeeded: RegisterXxxWithExecCtx may leave the signature   *)
(* it was asked for behind, and nothing else; what links, links to the same *)
(* function, and what does not link still does not.                         *)
RefusalDisturbsNoOwner ==
  [][status' = "error" =>
       \A s \in DOMAIN owner : funcs'[s] = funcs[s] /\ (IsC(funcs[s]) => Reached(s)' = Reached(s))]_vars
=============================================================================
