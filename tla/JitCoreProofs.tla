---------------------------- MODULE JitCoreProofs ----------------------------
(***************************************************************************)
(* What BuildAndLink and LoadObject leave behind, for any expressions,     *)
(* registries and failures: the lemmas the proofs of both engines rest on. *)
(***************************************************************************)
EXTENDS JitCore, FiniteSetTheorems, TLAPS

IsCore(c) ==
  /\ c = [fp |-> c.fp, save |-> c.save, jit |-> c.jit, bytes |-> c.bytes]
  /\ c.jit = [id |-> c.jit.id, obj |-> c.jit.obj]
  /\ c.jit.id \in Nat

(* The code of a program a compiler accepted, in the order of the roots. *)
IsProgram(progs) ==
  /\ progs \in Seq(Roots) /\ progs # << >>
  /\ \A i \in DOMAIN progs : progs[i].ret # "unknown"

(* What this host generates. *)
CodeOf(nodes, fp) == [progs |-> nodes, fp |-> fp, differs |-> {}]

(* The JIT holds a program, and the object bytes, if kept, are this host's *)
(* code of the same.                                                       *)
Holds(c) ==
  /\ c.jit.id # 0
  /\ IsProgram(c.jit.obj.progs)
  /\ c.jit.obj.fp = c.fp
  /\ c.bytes # NoObject => c.bytes = c.jit.obj /\ c.jit.obj.differs = {}

(* What is kept was compiled here, linked or not. *)
Keeps(c, rets) ==
  c.bytes # NoObject =>
    /\ IsProgram(c.bytes.progs)
    /\ c.bytes.fp = c.fp /\ c.bytes.differs = {}
    /\ rets = RetTypesOf(c.bytes.progs)

NoCode(c) == c.jit.obj = NoObject /\ c.bytes = NoObject

(* The identity of a new JIT is no identity in use: pointers into the last  *)
(* JIT dangle rather than point into the new one.                           *)
LEMMA FreshJitIsFresh ==
  ASSUME NEW used, IsFiniteSet(used)
  PROVE  FreshJit(used) \in Nat \ {0} /\ FreshJit(used) \notin used
<1> DEFINE n == Cardinality(used) + 1
<1>1. Cardinality(used) \in Nat
  BY FS_CardinalityType
<1>2. \E i \in 1..n : i \notin used
  <2>1. SUFFICES ASSUME 1..n \subseteq used PROVE FALSE
    OBVIOUS
  <2>2. Cardinality(1..n) <= Cardinality(used)
    BY <2>1, FS_Subset
  <2>3. Cardinality(1..n) = n
    BY <1>1, FS_Interval
  <2>4. QED BY <1>1, <2>2, <2>3
<1>3. FreshJit(used) \in 1..n /\ FreshJit(used) \notin used
  BY <1>2 DEF FreshJit
<1>4. QED BY <1>3

(* What the updates of a core leave in its fields. *)
LEMMA CreatedFields ==
  ASSUME NEW c, IsCore(c), NEW id
  PROVE  /\ Reset(c) = [fp |-> c.fp, save |-> c.save, jit |-> NoJit, bytes |-> NoObject]
         /\ CreateJit(Reset(c), id)
              = [fp |-> c.fp, save |-> c.save, jit |-> [id |-> id, obj |-> NoObject], bytes |-> NoObject]
<1>1. Reset(c) = [fp |-> c.fp, save |-> c.save, jit |-> NoJit, bytes |-> NoObject]
  <2>1. /\ DOMAIN Reset(c) = DOMAIN c
        /\ Reset(c) = [f \in DOMAIN c |-> Reset(c)[f]]
        /\ Reset(c).fp = c.fp /\ Reset(c).save = c.save
        /\ Reset(c).jit = NoJit /\ Reset(c).bytes = NoObject
    BY DEF Reset, IsCore
  <2>2. DOMAIN c = {"fp", "save", "jit", "bytes"}
    BY DEF IsCore
  <2>3. QED BY <2>1, <2>2
<1>2. QED BY <1>1 DEF CreateJit

LEMMA CapturedFields ==
  ASSUME NEW c, IsCore(c), NEW id, NEW bytes
  PROVE  [CreateJit(Reset(c), id) EXCEPT !.bytes = bytes]
           = [fp |-> c.fp, save |-> c.save, jit |-> [id |-> id, obj |-> NoObject], bytes |-> bytes]
<1> DEFINE jit == CreateJit(Reset(c), id)
<1>1. jit = [fp |-> c.fp, save |-> c.save, jit |-> [id |-> id, obj |-> NoObject], bytes |-> NoObject]
  BY CreatedFields
<1> HIDE DEF jit
<1>2. [jit EXCEPT !.bytes = bytes]
        = [fp |-> c.fp, save |-> c.save, jit |-> [id |-> id, obj |-> NoObject], bytes |-> bytes]
  BY <1>1
<1>3. QED BY <1>2 DEF jit

LEMMA LinkedFields ==
  ASSUME NEW c, NEW fp, NEW save, NEW id, NEW bytes, NEW obj,
         c = [fp |-> fp, save |-> save, jit |-> [id |-> id, obj |-> NoObject], bytes |-> bytes]
  PROVE  [c EXCEPT !.jit.obj = obj]
           = [fp |-> fp, save |-> save, jit |-> [id |-> id, obj |-> obj], bytes |-> bytes]
OBVIOUS

(* One return type per root, unwritten ones included. *)
LEMMA RetTypesAreTypes ==
  ASSUME NEW nodes \in Seq(Roots)
  PROVE  /\ RetTypesOf(nodes) \in Seq(ValueTypes) /\ Len(RetTypesOf(nodes)) = Len(nodes)
         /\ \A k : RetTypesUpTo(nodes, k) \in Seq(ValueTypes)
<1>1. \A i \in DOMAIN nodes : nodes[i].ret \in ValueTypes
  BY DEF ValueTypes
<1>2. DOMAIN nodes = 1..Len(nodes) /\ Len(nodes) \in Nat
  OBVIOUS
<1>3. RetTypesOf(nodes) \in [1..Len(nodes) -> ValueTypes]
  BY <1>1, <1>2 DEF RetTypesOf
<1>4. \A k : RetTypesUpTo(nodes, k) \in [1..Len(nodes) -> ValueTypes]
  BY <1>1, <1>2 DEF RetTypesUpTo, ValueTypes
<1>5. \A s \in [1..Len(nodes) -> ValueTypes] : s \in Seq(ValueTypes) /\ Len(s) = Len(nodes)
  BY <1>2
<1>6. QED BY <1>3, <1>4, <1>5

LEMMA PointersAreMany ==
  ASSUME NEW id, NEW n \in Nat
  PROVE  /\ Len(EntryPointers(id, n)) = n /\ DOMAIN EntryPointers(id, n) = 1..n
         /\ Len(NullPointers(n)) = n /\ DOMAIN NullPointers(n) = 1..n
BY DEF EntryPointers, NullPointers

LEMMA NoPointers == NullPointers(0) = << >> /\ \A id : EntryPointers(id, 0) = << >>
<1>1. 1..0 = {}
  OBVIOUS
<1>2. QED BY <1>1 DEF EntryPointers, NullPointers

(* The outcome of a compilation that succeeded. *)
Built(r, fp, nodes, id) ==
  /\ IsCore(r.core) /\ Holds(r.core)
  /\ r.core.jit.id = id /\ r.core.jit.obj = CodeOf(nodes, fp)
  /\ r.core.fp = fp
  /\ r.ptrs = EntryPointers(id, Len(nodes))
  /\ r.rets = RetTypesOf(nodes)

(* A compilation that succeeds leaves its own program, pointers and types.  *)
LEMMA BuildSucceeds ==
  ASSUME NEW c, IsCore(c), NEW nodes \in Seq(Roots), NEW registry, NEW fault, NEW id \in Nat \ {0},
         NEW r, r = BuildAndLink(c, nodes, registry, fault, id), r.ok = TRUE
  PROVE  Built(r, c.fp, nodes, id)
<1> DEFINE n == Len(nodes)
           obj == [progs |-> nodes, fp |-> c.fp, differs |-> {}]
           built == [fp |-> c.fp, save |-> c.save, jit |-> [id |-> id, obj |-> obj],
                     bytes |-> Captured(c, obj)]
<1>1. /\ n # 0
      /\ \A i \in 1..n : Validates(nodes[i], registry) /\ nodes[i].rejected # "codegen"
      /\ r = Outcome(TRUE, [[CreateJit(Reset(c), id) EXCEPT !.bytes = Captured(c, obj)] EXCEPT !.jit.obj = obj],
                     EntryPointers(id, n), RetTypesOf(nodes))
  BY DEF BuildAndLink, Outcome
<1>2. [[CreateJit(Reset(c), id) EXCEPT !.bytes = Captured(c, obj)] EXCEPT !.jit.obj = obj] = built
  <2> DEFINE kept == [CreateJit(Reset(c), id) EXCEPT !.bytes = Captured(c, obj)]
  <2> HIDE DEF obj
  <2>1. kept = [fp |-> c.fp, save |-> c.save, jit |-> [id |-> id, obj |-> NoObject],
                bytes |-> Captured(c, obj)]
    BY CapturedFields
  <2> HIDE DEF kept
  <2>2. [kept EXCEPT !.jit.obj = obj] = built
    BY <2>1, LinkedFields
  <2>3. QED BY <2>2 DEF kept
<1>3. r.core = built /\ r.ptrs = EntryPointers(id, n) /\ r.rets = RetTypesOf(nodes)
  BY <1>1, <1>2 DEF Outcome
<1>4. IsProgram(nodes)
  <2>1. nodes # << >>
    BY <1>1
  <2>2. ASSUME NEW i \in DOMAIN nodes PROVE nodes[i].ret # "unknown"
    BY <1>1, JitCoreAssumption DEF Validates
  <2>3. QED BY <2>1, <2>2 DEF IsProgram
<1>5. IsCore(built) /\ Holds(built)
  BY <1>4 DEF IsCore, Holds, Captured, NoObject
<1>6. built.fp = c.fp /\ built.save = c.save /\ built.jit = [id |-> id, obj |-> obj]
  OBVIOUS
<1> HIDE DEF built
<1>7. QED BY <1>3, <1>5, <1>6 DEF Built, CodeOf

(* One that fails writes no pointer, or fails at the first lookup, where    *)
(* the pointers are null and the object bytes may have been captured.       *)
LEMMA BuildFails ==
  ASSUME NEW c, IsCore(c), NEW nodes \in Seq(Roots), NEW registry, NEW fault, NEW id \in Nat \ {0},
         NEW r, r = BuildAndLink(c, nodes, registry, fault, id), ~ r.ok
  PROVE  /\ IsCore(r.core) /\ r.core.fp = c.fp /\ r.rets \in Seq(ValueTypes)
         /\ \/ r.ptrs = << >>
            \/ /\ ~ Links(nodes, registry)
               /\ \A i \in 1..Len(nodes) : Validates(nodes[i], registry)
               /\ nodes # << >>
               /\ r.ptrs = NullPointers(Len(nodes)) /\ r.rets = RetTypesOf(nodes)
               /\ r.core.jit.obj = NoObject /\ Keeps(r.core, r.rets)
<1> DEFINE n == Len(nodes)
           obj == [progs |-> nodes, fp |-> c.fp, differs |-> {}]
           jit == CreateJit(Reset(c), id)
           built == [jit EXCEPT !.bytes = Captured(c, obj)]
<1>1. \/ /\ r.ptrs = << >> /\ r.core \in {c, Reset(c), jit}
         /\ \/ r.rets \in {<< >>, RetTypesOf(nodes)}
            \/ r.rets = RetTypesUpTo(nodes, FirstRejected(nodes))
      \/ /\ n # 0 /\ ~ Links(nodes, registry)
         /\ \A i \in 1..n : Validates(nodes[i], registry) /\ nodes[i].rejected # "codegen"
         /\ r = Outcome(FALSE, built, NullPointers(n), RetTypesOf(nodes))
  BY DEF BuildAndLink, Outcome
<1>2. /\ Reset(c) = [fp |-> c.fp, save |-> c.save, jit |-> NoJit, bytes |-> NoObject]
      /\ jit = [fp |-> c.fp, save |-> c.save, jit |-> [id |-> id, obj |-> NoObject], bytes |-> NoObject]
      /\ built = [fp |-> c.fp, save |-> c.save, jit |-> [id |-> id, obj |-> NoObject],
                  bytes |-> Captured(c, obj)]
  BY CreatedFields, CapturedFields
<1>3. /\ IsCore(Reset(c)) /\ IsCore(jit) /\ IsCore(built)
      /\ Reset(c).fp = c.fp /\ jit.fp = c.fp /\ built.fp = c.fp
  BY <1>2 DEF IsCore, NoJit
<1>4. CASE /\ r.ptrs = << >> /\ r.core \in {c, Reset(c), jit}
           /\ \/ r.rets \in {<< >>, RetTypesOf(nodes)}
              \/ r.rets = RetTypesUpTo(nodes, FirstRejected(nodes))
  <2>1. r.rets \in Seq(ValueTypes)
    <3>1. << >> \in Seq(ValueTypes)
      OBVIOUS
    <3>2. QED BY <1>4, <3>1, RetTypesAreTypes
  <2>2. QED BY <1>3, <1>4, <2>1
<1>5. CASE /\ n # 0 /\ ~ Links(nodes, registry)
           /\ \A i \in 1..n : Validates(nodes[i], registry) /\ nodes[i].rejected # "codegen"
           /\ r = Outcome(FALSE, built, NullPointers(n), RetTypesOf(nodes))
  <2>1. IsProgram(nodes)
    BY <1>5, JitCoreAssumption DEF IsProgram, Validates
  <2>2. built.jit.obj = NoObject /\ Keeps(built, RetTypesOf(nodes))
    BY <1>2, <2>1 DEF Keeps, Captured
  <2>3. r.core = built /\ r.ptrs = NullPointers(n) /\ r.rets = RetTypesOf(nodes)
    BY <1>5 DEF Outcome
  <2>4. /\ nodes # << >> /\ ~ Links(nodes, registry)
        /\ \A i \in 1..n : Validates(nodes[i], registry)
    BY <1>5
  <2> HIDE DEF built
  <2>5. IsCore(r.core) /\ r.core.fp = c.fp /\ r.core.jit.obj = NoObject /\ Keeps(r.core, r.rets)
    BY <1>3, <2>2, <2>3
  <2>6. r.rets \in Seq(ValueTypes)
    BY <2>3, RetTypesAreTypes
  <2>7. QED BY <2>3, <2>4, <2>5, <2>6
<1>6. QED BY <1>1, <1>4, <1>5

(* Loading never keeps bytes, and leaves the object's code or none. *)
LEMMA LoadLeaves ==
  ASSUME NEW c, IsCore(c), NEW obj, NEW n \in Nat, NEW registry, NEW fault, NEW id \in Nat \ {0},
         NEW r, r = LoadObject(c, obj, n, registry, fault, id)
  PROVE  /\ r.ok \in BOOLEAN
         /\ IsCore(r.core) /\ r.core.fp = c.fp /\ r.core.bytes = NoObject
         /\ r.ok => r.core.jit = [id |-> id, obj |-> obj] /\ r.ptrs = EntryPointers(id, n)
         /\ ~ r.ok => NoCode(r.core) /\ r.core.jit.id \in {0, id}
<1> DEFINE jit == CreateJit(Reset(c), id)
<1>1. \/ r.ok = FALSE /\ r.core \in {Reset(c), jit}
      \/ r = Outcome(TRUE, [jit EXCEPT !.jit.obj = obj], EntryPointers(id, n), << >>)
  BY DEF LoadObject, Outcome
<1>2. /\ Reset(c) = [fp |-> c.fp, save |-> c.save, jit |-> NoJit, bytes |-> NoObject]
      /\ jit = [fp |-> c.fp, save |-> c.save, jit |-> [id |-> id, obj |-> NoObject], bytes |-> NoObject]
      /\ [jit EXCEPT !.jit.obj = obj]
           = [fp |-> c.fp, save |-> c.save, jit |-> [id |-> id, obj |-> obj], bytes |-> NoObject]
  BY CreatedFields, LinkedFields
<1> HIDE DEF jit
<1>3. CASE r.ok = FALSE /\ r.core \in {Reset(c), jit}
  <2>1. \A d \in {Reset(c), jit} :
          IsCore(d) /\ d.fp = c.fp /\ d.bytes = NoObject /\ NoCode(d) /\ d.jit.id \in {0, id}
    BY <1>2 DEF IsCore, NoCode, NoJit
  <2>2. QED BY <1>3, <2>1
<1>4. CASE r = Outcome(TRUE, [jit EXCEPT !.jit.obj = obj], EntryPointers(id, n), << >>)
  <2>1. r.ok = TRUE /\ r.core = [jit EXCEPT !.jit.obj = obj] /\ r.ptrs = EntryPointers(id, n)
    BY <1>4 DEF Outcome
  <2>2. IsCore(r.core) /\ r.core.fp = c.fp /\ r.core.bytes = NoObject /\ r.core.jit = [id |-> id, obj |-> obj]
    BY <1>2, <2>1 DEF IsCore
  <2>3. QED BY <2>1, <2>2
<1>5. QED BY <1>1, <1>3, <1>4
=============================================================================
