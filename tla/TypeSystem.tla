----------------------------- MODULE TypeSystem -----------------------------
(***************************************************************************)
(* The value types of an expression and what src/type.cc says of them.  A  *)
(* type is a string; the list type of an element type t is List(t).        *)
(***************************************************************************)
EXTENDS Integers, Sequences, SequencesExt

UnsignedInts == {"U8", "U16", "U32", "U64"}
SignedInts == {"I8", "I16", "I32", "I64"}
IntegerTypes == UnsignedInts \cup SignedInts
FloatTypes == {"F32", "F64"}
NumericTypes == IntegerTypes \cup FloatTypes

(* IsSignedType counts the floating types. *)
SignedTypes == SignedInts \cup FloatTypes

List(t) == t \o "List"

ElementTypes == NumericTypes \cup {"String"}
ListTypes == {List(t) : t \in ElementTypes}
ComplexTypes == ListTypes \cup {"String"}

(* Every type a node may have after validation, kUnknown and kVoid aside. *)
ValueTypes == NumericTypes \cup ComplexTypes \cup {"Ptr"}

ElementType(l) == CHOOSE t \in ElementTypes : List(t) = l

BitWidth == [t \in NumericTypes |->
  CASE t \in {"U8", "I8"} -> 8
    [] t \in {"U16", "I16"} -> 16
    [] t \in {"U32", "I32", "F32"} -> 32
    [] OTHER -> 64]

(* The order of GetPromotedType's weights; a type outside it weighs -1. *)
PromotionOrder ==
  <<"I8", "U8", "I16", "U16", "I32", "U32", "I64", "U64", "F32", "F64", "String">>
    \o [i \in 1..10 |->
          List(<<"I8", "U8", "I16", "U16", "I32", "U32", "I64", "U64", "F32", "F64">>[i])]
    \o <<List("String")>>

Weight(t) == IF Contains(PromotionOrder, t) THEN CHOOSE i \in DOMAIN PromotionOrder :
                                                        PromotionOrder[i] = t
             ELSE -1

GetPromotedType(lhs, rhs) == IF Weight(lhs) > Weight(rhs) THEN lhs ELSE rhs

UnaryOps == {"+", "-", "!", "~"}
RelationalOps == {">", ">=", "==", "<", "<=", "!="}
LogicalOps == {"&&", "||"}
ShiftOps == {"<<", ">>"}
BitwiseOps == {"&", "|", "^"} \cup ShiftOps
ArithmeticOps == {"+", "-", "*", "/", "%"}
BinaryOps == RelationalOps \cup LogicalOps \cup BitwiseOps \cup ArithmeticOps
=============================================================================
