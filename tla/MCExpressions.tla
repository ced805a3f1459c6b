--------------------------- MODULE MCExpressions ---------------------------
(***************************************************************************)
(* The numbers constants are made of.  Small ones are below the sign bit   *)
(* of every integer type; 3 is the largest U8 of the scaled widths, whose  *)
(* pattern is that of -1.                                                  *)
(***************************************************************************)
EXTENDS Expressions

SmallNumbers == {-1, 0, 1}
AllNumbers == {-1, 0, 1, 3}
=============================================================================
