------------------------------ MODULE Partition ------------------------------
(***************************************************************************)
(* What a disjoint-set union promises: a partition of the keys seen so     *)
(* far, in which a key starts alone and Union merges two classes.          *)
(***************************************************************************)
VARIABLE classes

Seen == UNION classes

With(key) == IF key \in Seen THEN classes ELSE classes \cup {{key}}

Init == classes = {}

Find(x) == classes' = With(x)

Union(x, y) ==
  LET all == With(x) \cup (IF y \in Seen \cup {x} THEN {} ELSE {{y}})
      merged == {c \in all : x \in c \/ y \in c}
  IN  classes' = (all \ merged) \cup {UNION merged}

Next(keys) == \E x, y \in keys : Find(x) \/ Union(x, y)
=============================================================================
