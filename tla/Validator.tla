------------------------------ MODULE Validator ------------------------------
(***************************************************************************)
(* The validator on programs of assignments, references, conditions,       *)
(* stores and `when` blocks: src/validator.cc.                             *)
(*                                                                         *)
(* Nodes are records named after the ExecNode classes:                     *)
(*   const    [val, type]        ConstantValueNode                         *)
(*   load     [name]             a condition read from the entry argument  *)
(*   ref      [name]             RefNode                                   *)
(*   logical  [op, left, right]  BinaryOPNode "and" / "or"                 *)
(*   store    [arg]              FunctionNode writing its argument out     *)
(*   noop     [isolated, items]  NoOPNode, an item being                   *)
(*                               [name, is_const, arg], name "" for none   *)
(*   ifblock  [args]             IfBlockNode: cond, body, ..., else        *)
(* A result is [ok, type, stack].                                          *)
(***************************************************************************)
EXTENDS ScopeStack

IsNumeric(type) == type \in {"u8", "i32"}

Fail(stack) == [ok |-> FALSE, type |-> "unknown", stack |-> stack]
Yields(type, stack) == [ok |-> TRUE, type |-> type, stack |-> stack]

Entry(type, is_const) == [type |-> type, is_const |-> is_const]

(* TrySetVar returns kOk: not a constant, not redeclared by let, same type. *)
MaySet(stack, name, type, is_const) ==
  Defined(stack, name) =>
    ~ Lookup(stack, name).is_const /\ ~ is_const /\ Lookup(stack, name).type = type

SetAll(stack, shadowed) ==
  [stack EXCEPT ![Len(stack)] =
     [n \in DOMAIN @ \cup DOMAIN shadowed |->
        IF n \in DOMAIN shadowed THEN Entry(shadowed[n].type, FALSE) ELSE @[n]]]

Merge(f, g) == [n \in DOMAIN f \cup DOMAIN g |-> IF n \in DOMAIN g THEN g[n] ELSE f[n]]

RECURSIVE Validate(_, _), ValidateItems(_, _, _), ValidateBranches(_, _, _, _)

(* Mutant of ValidateItems: isolation is ignored. *)
ValidateItemsTogether(node, i, stack) ==
  IF i > Len(node.items) THEN Yields("void", stack)
  ELSE LET item == node.items[i]
           r == Validate(item.arg, stack)
           set == IF item.name = "" THEN r.stack
                  ELSE Set(r.stack, item.name, Entry(r.type, item.is_const))
       IN  IF ~ r.ok \/ (item.name # "" /\ ~ MaySet(r.stack, item.name, r.type, item.is_const))
             THEN Fail(stack)
           ELSE ValidateItems(node, i + 1, set)

(* The children of a NoOPNode in order, each isolated one in its own scope. *)
ValidateItems(node, i, stack) ==
  IF i > Len(node.items) THEN Yields("void", stack)
  ELSE LET item == node.items[i]
           r == Validate(item.arg, IF node.isolated THEN PushScope(stack) ELSE stack)
           set == IF item.name = "" THEN r.stack
                  ELSE Set(r.stack, item.name, Entry(r.type, item.is_const))
       IN  IF ~ r.ok \/ (item.name # "" /\ ~ MaySet(r.stack, item.name, r.type, item.is_const))
             THEN Fail(stack)
           ELSE ValidateItems(node, i + 1, IF node.isolated THEN PopScope(set) ELSE set)

(* Branch i of an IfBlockNode, the else branch being one without condition. *)
ValidateBranches(args, i, stack, shadowed) ==
  IF i > Len(args) THEN Yields("void", SetAll(stack, shadowed))
  ELSE LET is_else == i = Len(args)
           cond == IF is_else THEN Yields("u8", stack) ELSE Validate(args[i], stack)
           body == Validate(args[IF is_else THEN i ELSE i + 1], PushScope(cond.stack))
       IN  IF ~ cond.ok \/ ~ IsNumeric(cond.type) THEN Fail(stack)
           ELSE IF ~ body.ok \/ body.type # "void" THEN Fail(stack)
           ELSE ValidateBranches(args, i + 2, PopScope(body.stack),
                                 Merge(shadowed, GetShadowed(body.stack)))

Validate(node, stack) ==
  CASE node.kind = "const" -> Yields(node.type, stack)
    [] node.kind = "load" -> Yields("u8", stack)
    [] node.kind = "ref" ->
         IF Defined(stack, node.name) THEN Yields(Lookup(stack, node.name).type, stack)
         ELSE Fail(stack)
    [] node.kind = "logical" ->
         LET l == Validate(node.left, stack)
             r == Validate(node.right, l.stack)
         IN  IF l.ok /\ r.ok /\ IsNumeric(l.type) /\ IsNumeric(r.type)
               THEN Yields("u8", r.stack) ELSE Fail(stack)
    [] node.kind = "store" ->
         LET r == Validate(node.arg, stack) IN IF r.ok /\ r.type # "void" THEN Yields("u8", r.stack) ELSE Fail(stack)
    [] node.kind = "noop" -> ValidateItems(node, 1, stack)
    [] node.kind = "ifblock" ->
         IF Len(node.args) < 2 THEN Fail(stack)
         ELSE ValidateBranches(node.args, 1, stack, NoScope)

(* BuildAndLink validates every root with one Validator, whose stack is     *)
(* never emptied between them.                                              *)
RECURSIVE ValidateAll(_, _)
ValidateAll(nodes, stack) ==
  nodes = << >> \/ LET r == Validate(Head(nodes), stack) IN r.ok /\ ValidateAll(Tail(nodes), r.stack)
=============================================================================
