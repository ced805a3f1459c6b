----------------------------- MODULE ScopeStack ------------------------------
(***************************************************************************)
(* ScopeStack<V>, src/scope_stack.h: the variables the validator and the   *)
(* code generator see, innermost scope last.  A stack is a sequence of     *)
(* functions from names to values.                                         *)
(***************************************************************************)
EXTENDS Integers, Sequences

NoScope == [n \in {} |-> 0]

NewStack == <<NoScope>>

PushScope(stack) == Append(stack, NoScope)
PopScope(stack) == SubSeq(stack, 1, Len(stack) - 1)

Bind(scope, name, value) ==
  [n \in DOMAIN scope \cup {name} |-> IF n = name THEN value ELSE scope[n]]

Set(stack, name, value) == [stack EXCEPT ![Len(stack)] = Bind(@, name, value)]

Defined(stack, name) == \E i \in DOMAIN stack : name \in DOMAIN stack[i]

(* The innermost binding. *)
Lookup(stack, name) ==
  LET i == CHOOSE i \in DOMAIN stack :
             /\ name \in DOMAIN stack[i]
             /\ \A j \in (i + 1)..Len(stack) : name \notin DOMAIN stack[j]
  IN  stack[i][name]

(* Mutant of GetShadowed: only the scope next to the innermost is searched. *)
ShadowedNextOnly(stack) ==
  LET top == stack[Len(stack)]
  IN  [n \in DOMAIN top \cap DOMAIN stack[Len(stack) - 1] |-> top[n]]

(* What the innermost scope rebinds of the scopes around it. *)
GetShadowed(stack) ==
  LET top == stack[Len(stack)]
  IN  [n \in {m \in DOMAIN top : Defined(PopScope(stack), m)} |-> top[n]]
=============================================================================
