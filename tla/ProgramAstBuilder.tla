-------------------------- MODULE ProgramAstBuilder --------------------------
(***************************************************************************)
(* ProgramAstBuilder, athena/ast_builder.cc, driven by the productions of  *)
(* athena/parser.yy: one state change per reduction of the parser.         *)
(*                                                                         *)
(* Source text is a sequence of statements.  A statement is                *)
(* [kind, name, expr]: "assign", "let", or "expr" (whose name is empty),   *)
(* or [kind |-> "when", parts], parts a sequence of [cond, block], where   *)
(* an else has the condition Nothing.  An expression is a tree             *)
(* [kind, name, args, vars], the form the nodes have too: "leaf", "ref",   *)
(* "node", or "null" where no node was built; vars are the variable infos  *)
(* of a NoOPNode.                                                          *)
(***************************************************************************)
EXTENDS ScopeStack, SequencesExt

VARIABLES
  build_mode_,      \* "expression" or "pipeline"
  statements_,      \* of the innermost block: [var_name, expression, is_const]
  var2index_,       \* from a variable to its statement
  block_stack_,     \* the enclosing blocks: [statements, var2index]
  custom_error_message_, \* whether one is set
  reductions,       \* what the parser has left to reduce
  values,           \* its stack of nodes
  status            \* "none", "parsing", "ok", "error" or "crash"

builderVars == <<build_mode_, statements_, var2index_, block_stack_,
                 custom_error_message_, reductions, values, status>>

Tree(kind, name, args, vars) == [kind |-> kind, name |-> name, args |-> args, vars |-> vars]
NullNode == Tree("null", "", << >>, << >>)
Nothing == NullNode
NoOPNode(stmts) ==
  Tree("node", "no_op", [i \in DOMAIN stmts |-> stmts[i].expression],
       [i \in DOMAIN stmts |-> [name |-> stmts[i].var_name, is_const |-> stmts[i].is_const]])

RECURSIVE ReducedExpr(_), ReducedBlock(_)

(* The reductions of an expression: operands before their operator. *)
ReducedExpr(e) ==
  CASE e.kind = "leaf" -> <<[op |-> "value", tree |-> e]>>
    [] e.kind = "ref" -> <<[op |-> "identifier", name |-> e.name]>>
    [] e.kind = "node" -> FlattenSeq([i \in DOMAIN e.args |-> ReducedExpr(e.args[i])])
                          \o <<[op |-> "operator", name |-> e.name, arity |-> Len(e.args)]>>

ReducedPart(part) ==
  (IF part.cond = Nothing THEN << >> ELSE ReducedExpr(part.cond))
  \o <<[op |-> "enter"]>> \o ReducedBlock(part.block) \o <<[op |-> "leave"]>>

ReducedStatement(s) ==
  IF s.kind = "when"
    THEN FlattenSeq([i \in DOMAIN s.parts |-> ReducedPart(s.parts[i])])
         \o <<[op |-> "when", arity |-> Cardinality({i \in DOMAIN s.parts : s.parts[i].cond # Nothing})
                                        + Len(s.parts)],
              [op |-> "statement", name |-> "", is_const |-> FALSE]>>
    ELSE ReducedExpr(s.expr)
         \o <<[op |-> "statement", name |-> s.name, is_const |-> s.kind = "let"]>>

ReducedBlock(stmts) == FlattenSeq([i \in DOMAIN stmts |-> ReducedStatement(stmts[i])])

(* A text [stmts, upto] that is no program is broken after upto reductions. *)
Whole(text) == text.upto = Len(ReducedBlock(text.stmts))
Reductions(text) ==
  IF Whole(text) THEN ReducedBlock(text.stmts)
  ELSE SubSeq(ReducedBlock(text.stmts), 1, text.upto) \o <<[op |-> "syntax error"]>>

BuilderInit ==
  /\ build_mode_ = "expression" /\ custom_error_message_ = FALSE
  /\ statements_ = << >> /\ var2index_ = NoScope /\ block_stack_ = << >>
  /\ reductions = << >> /\ values = << >> /\ status = "none"


(* BuildExpression and BuildPipeline up to the scan: block_stack_ is not    *)
(* cleared.                                                                 *)
Build(mode, text) ==
  /\ build_mode_' = mode
  /\ statements_' = << >> /\ var2index_' = NoScope /\ custom_error_message_' = FALSE
  /\ reductions' = Reductions(text) /\ values' = << >> /\ status' = "parsing"
  /\ UNCHANGED block_stack_

Reducing(op) == status = "parsing" /\ reductions # << >> /\ Head(reductions).op = op

(* The n topmost nodes, and the stack without them. *)
Popped(n) == SubSeq(values, Len(values) - n + 1, Len(values))
Below(n) == SubSeq(values, 1, Len(values) - n)

Shifted == reductions' = Tail(reductions) /\ UNCHANGED build_mode_

ReduceValue ==
  /\ Reducing("value") /\ Shifted
  /\ values' = Append(values, Head(reductions).tree)
  /\ UNCHANGED <<statements_, var2index_, block_stack_, custom_error_message_, status>>

ReduceOperator ==
  /\ Reducing("operator") /\ Shifted
  /\ LET r == Head(reductions)
     IN  values' = Append(Below(r.arity), Tree("node", r.name, Popped(r.arity), << >>))
  /\ UNCHANGED <<statements_, var2index_, block_stack_, custom_error_message_, status>>

RECURSIVE HasNull(_)
HasNull(tree) == tree.kind = "null" \/ \E i \in DOMAIN tree.args : HasNull(tree.args[i])

(* Where MakeRefNode finds a name: the block being parsed, then the ones    *)
(* around it from the inside out.                                           *)
Scopes == Append([i \in DOMAIN block_stack_ |-> block_stack_[i].var2index], var2index_)
StatementOf(name) ==
  LET i == CHOOSE i \in DOMAIN Scopes :
             name \in DOMAIN Scopes[i] /\ \A j \in DOMAIN Scopes : j > i => name \notin DOMAIN Scopes[j]
      stmts == IF i = Len(Scopes) THEN statements_ ELSE block_stack_[i].statements
  IN  stmts[Scopes[i][name] + 1]

(* A name of a pipeline becomes a RefNode, of an expression a clone of what *)
(* the variable was given, which reads every node below it.                 *)
MakeRefNode ==
  /\ Reducing("identifier") /\ Shifted
  /\ LET name == Head(reductions).name
     IN  IF ~ Defined(Scopes, name)
           THEN /\ custom_error_message_' = TRUE
                /\ values' = Append(values, NullNode) /\ UNCHANGED status
         ELSE IF build_mode_ = "pipeline"
           THEN /\ values' = Append(values, Tree("ref", name, << >>, << >>))
                /\ UNCHANGED <<custom_error_message_, status>>
         ELSE /\ values' = Append(values, StatementOf(name).expression)
              /\ status' = IF HasNull(StatementOf(name).expression) THEN "crash" ELSE status
              /\ UNCHANGED custom_error_message_
  /\ UNCHANGED <<statements_, var2index_, block_stack_>>

(* Mutant of Indexed: a variable given again keeps its first statement. *)
IndexedOnce(name, i) == IF name = "" \/ name \in DOMAIN var2index_ THEN var2index_ ELSE Bind(var2index_, name, i)

Indexed(name, i) == IF name = "" THEN var2index_ ELSE Bind(var2index_, name, i)

AddStatement ==
  /\ Reducing("statement") /\ Shifted
  /\ LET r == Head(reductions)
     IN  /\ statements_' = Append(statements_, [var_name |-> r.name, expression |-> Last(values),
                                                is_const |-> r.is_const])
         /\ var2index_' = Indexed(r.name, Len(statements_))
  /\ values' = Below(1)
  /\ UNCHANGED <<block_stack_, custom_error_message_, status>>

EnterBlock ==
  /\ Reducing("enter") /\ Shifted
  /\ block_stack_' = Append(block_stack_, [statements |-> statements_, var2index |-> var2index_])
  /\ statements_' = << >> /\ var2index_' = NoScope
  /\ UNCHANGED <<custom_error_message_, values, status>>

LeaveBlock ==
  /\ Reducing("leave") /\ Shifted
  /\ values' = Append(values, NoOPNode(statements_))
  /\ statements_' = Last(block_stack_).statements
  /\ var2index_' = Last(block_stack_).var2index
  /\ block_stack_' = Front(block_stack_)
  /\ UNCHANGED <<custom_error_message_, status>>

(* A when is refused in an expression, but only once it has been read. *)
ReduceWhen ==
  /\ Reducing("when") /\ Shifted
  /\ LET n == Head(reductions).arity
     IN  IF build_mode_ = "expression"
           THEN status' = "error" /\ UNCHANGED values
           ELSE values' = Append(Below(n), Tree("node", "if_block", Popped(n), << >>)) /\ UNCHANGED status
  /\ UNCHANGED <<statements_, var2index_, block_stack_, custom_error_message_>>

SyntaxError ==
  /\ Reducing("syntax error") /\ Shifted
  /\ status' = "error"
  /\ UNCHANGED <<statements_, var2index_, block_stack_, custom_error_message_, values>>

(* The rest of BuildExpression and BuildPipeline. *)
Built == IF build_mode_ = "expression" THEN Last(statements_).expression ELSE NoOPNode(statements_)

FinishBuild ==
  /\ status = "parsing" /\ reductions = << >>
  /\ status' = IF custom_error_message_ THEN "error" ELSE "ok"
  /\ UNCHANGED <<build_mode_, statements_, var2index_, block_stack_, custom_error_message_, reductions, values>>

Parse ==
  ReduceValue \/ ReduceOperator \/ MakeRefNode \/ AddStatement \/ EnterBlock \/ LeaveBlock
  \/ ReduceWhen \/ SyntaxError \/ FinishBuild

-----------------------------------------------------------------------------
(* What a text says, told from the text alone.                              *)
RECURSIVE Names(_)
Names(e) == (IF e.kind = "ref" THEN {e.name} ELSE {}) \cup UNION {Names(e.args[i]) : i \in DOMAIN e.args}

Assigned(stmts, i) == {stmts[j].name : j \in {k \in 1..(i - 1) : stmts[k].kind \in {"assign", "let"}}}

(* Every name is given a value above its use, in its block or around it. *)
RECURSIVE WellScoped(_, _)
WellScoped(stmts, around) ==
  \A i \in DOMAIN stmts :
    LET known == around \cup Assigned(stmts, i)
    IN  IF stmts[i].kind = "when"
          THEN \A k \in DOMAIN stmts[i].parts :
                 /\ Names(stmts[i].parts[k].cond) \subseteq known
                 /\ WellScoped(stmts[i].parts[k].block, known)
          ELSE Names(stmts[i].expr) \subseteq known

WellFormed(text, mode) ==
  /\ Whole(text) /\ WellScoped(text.stmts, {})
  /\ mode = "expression" => \A i \in DOMAIN text.stmts : text.stmts[i].kind # "when"

(* The text uses a variable whose latest value above names something that   *)
(* is not known there.                                                      *)
RECURSIVE Uses(_)
Uses(s) ==
  IF s.kind = "when"
    THEN UNION {Names(part.cond) \cup UNION {Uses(t) : t \in Range(part.block)} : part \in Range(s.parts)}
    ELSE Names(s.expr)

UsesUndefined(stmts) ==
  \E i \in DOMAIN stmts, j \in DOMAIN stmts :
    /\ j < i /\ stmts[j].name \in Uses(stmts[i]) \ Range([k \in (j + 1)..(i - 1) |-> stmts[k].name])
    /\ ~ (Names(stmts[j].expr) \subseteq Assigned(stmts, j))

(* A pipeline is the tree of its statements; an expression the value of its *)
(* last statement, each name replaced by what it was last given above.      *)
RECURSIVE WrittenBlock(_), Substituted(_, _, _)
WrittenWhen(s) ==
  Tree("node", "if_block",
       FlattenSeq([k \in DOMAIN s.parts |->
         (IF s.parts[k].cond = Nothing THEN << >> ELSE <<s.parts[k].cond>>)
         \o <<WrittenBlock(s.parts[k].block)>>]), << >>)
WrittenBlock(stmts) ==
  NoOPNode([i \in DOMAIN stmts |->
    IF stmts[i].kind = "when"
      THEN [var_name |-> "", expression |-> WrittenWhen(stmts[i]), is_const |-> FALSE]
      ELSE [var_name |-> stmts[i].name, expression |-> stmts[i].expr, is_const |-> stmts[i].kind = "let"]])

Substituted(stmts, i, e) ==
  IF e.kind = "ref"
    THEN LET givers == {j \in 1..(i - 1) : stmts[j].name = e.name}
             last == CHOOSE j \in givers : \A k \in givers : k <= j
         IN  Substituted(stmts, last, stmts[last].expr)
    ELSE [e EXCEPT !.args = [k \in DOMAIN e.args |-> Substituted(stmts, i, e.args[k])]]

Written(text, mode) ==
  IF mode = "pipeline" THEN WrittenBlock(text.stmts)
  ELSE Substituted(text.stmts, Len(text.stmts), Last(text.stmts).expr)
=============================================================================
