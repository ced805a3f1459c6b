----------------------------- MODULE RegionPool -----------------------------
(***************************************************************************)
(* What an arena promises its callers, with no chunks in sight: a pool of  *)
(* regions of memory that are aligned, never overlap, and live until the   *)
(* pool is emptied; and objects that live in those regions and are         *)
(* destroyed last-constructed first, each while every region is still      *)
(* there.  Arena.tla is shown to implement it.                             *)
(***************************************************************************)
EXTENDS Integers

VARIABLES
  regions,    \* the regions handed out: [addr, size, align]
  objects     \* the live objects: [addr, nth], nth growing with construction

Disjoint(a, b) == a.addr + a.size <= b.addr \/ b.addr + b.size <= a.addr

Init == regions = {} /\ objects = {}

(* A new region is aligned as asked and clear of every live one. *)
Extend(r) ==
  /\ r.addr % r.align = 0
  /\ \A s \in regions : Disjoint(r, s)
  /\ regions' = regions \cup {r}

Newest(o, others) == \A p \in others : p.nth < o.nth

Allocate == (\E r \in regions' : Extend(r)) /\ UNCHANGED objects

(* An object is constructed in a region of its own. *)
Create ==
  \E r \in regions', o \in objects' :
    /\ Extend(r)
    /\ o.addr = r.addr
    /\ Newest(o, objects)
    /\ objects' = objects \cup {o}

(* Destructors run in reverse order of construction. *)
DestroyNewest ==
  \E o \in objects :
    /\ Newest(o, objects \ {o})
    /\ objects' = objects \ {o}
    /\ UNCHANGED regions

(* Storage goes only once nothing lives in it. *)
Empty ==
  /\ objects = {}
  /\ regions' = {}
  /\ UNCHANGED objects

Next == Allocate \/ Create \/ DestroyNewest \/ Empty

vars == <<regions, objects>>

Spec == Init /\ [][Next]_vars
=============================================================================
