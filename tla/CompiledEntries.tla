--------------------------- MODULE CompiledEntries ---------------------------
(***************************************************************************)
(* What an engine promises its caller: it holds the entries of one         *)
(* successful Compile or LoadCompiled, or nothing at all, and SaveCompiled *)
(* writes out those entries and no others.  ExecEngine and BatchExecEngine *)
(* implement it.                                                           *)
(***************************************************************************)
EXTENDS Sequences

CONSTANTS
  Roots,          \* the expressions there are
  Mode,           \* "single" or "batch": the kind of artifact the engine reads
  Tolerated       \* the host differences its caller accepts

VARIABLES
  entries,        \* [progs, rets, fp, differs]: what the caller can run
  saved           \* the artifacts that exist

Nothing == [progs |-> << >>, rets |-> << >>, fp |-> "none", differs |-> {}]

Loadable(a) == a.intact /\ a.mode = Mode /\ a.obj.differs \subseteq Tolerated

ContentOf(a) == [progs |-> a.obj.progs, rets |-> a.rets, fp |-> a.obj.fp, differs |-> a.obj.differs]

Init == entries = Nothing

(* A compilation reports each root's own type. *)
Compile ==
  /\ entries' # Nothing
  /\ \A i \in DOMAIN entries'.progs : entries'.progs[i] \in Roots
  /\ entries'.differs = {}
  /\ entries'.rets = [i \in DOMAIN entries'.progs |-> entries'.progs[i].ret]
  /\ UNCHANGED saved

(* A failed Compile, or a failed LoadCompiled that had replaced the core. *)
Drop == entries' = Nothing /\ UNCHANGED saved

Load ==
  /\ \E a \in saved : Loadable(a) /\ entries' = ContentOf(a)
  /\ UNCHANGED saved

Save ==
  /\ entries # Nothing
  /\ \E a \in saved' :
       /\ saved' = saved \cup {a}
       /\ ContentOf(a) = entries /\ a.fp = entries.fp /\ Loadable(a)
  /\ UNCHANGED entries

Next == Compile \/ Drop \/ Load \/ Save

Spec == Init /\ [][Next]_<<entries, saved>>
=============================================================================
