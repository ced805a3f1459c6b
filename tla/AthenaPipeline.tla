--------------------------- MODULE AthenaPipeline ----------------------------
(***************************************************************************)
(* AthenaPipeline::Compile and AthenaExpression::Compile, athena/athena.cc:*)
(* one builder reads the texts one after the other, up to the first that   *)
(* fails; the trees of a pipeline are grouped.  What the engines compile   *)
(* is the outcome.                                                         *)
(***************************************************************************)
EXTENDS ProgramAstBuilder, PipelineGrouper

CONSTANTS
  Pipelines,        \* the lists of texts given to AthenaPipeline
  Expressions       \* the texts given to AthenaExpression

VARIABLES
  code,             \* the texts of this call
  form,             \* "pipeline" or "expression"
  program_asts,     \* the trees built so far
  outcome           \* "building", "failed", "crashed" or "built"

vars == <<code, form, program_asts, outcome, builderVars, grouperVars>>

Init ==
  /\ \/ form = "pipeline" /\ code \in Pipelines
     \/ form = "expression" /\ code \in {<<text>> : text \in Expressions}
  /\ program_asts = << >> /\ outcome = "building"
  /\ BuilderInit /\ GrouperInit

BuildNext ==
  /\ outcome = "building" /\ status = "none" /\ Len(program_asts) < Len(code)
  /\ Build(form, code[Len(program_asts) + 1])
  /\ UNCHANGED <<code, form, program_asts, outcome, grouperVars>>

ParseStep ==
  /\ outcome = "building" /\ Parse
  /\ UNCHANGED <<code, form, program_asts, outcome, grouperVars>>

(* The tree is taken, or the first failure is returned. *)
TakeAst ==
  /\ outcome = "building" /\ status = "ok"
  /\ program_asts' = Append(program_asts, Built)
  /\ status' = "none"
  /\ UNCHANGED <<code, form, outcome, build_mode_, statements_, var2index_, block_stack_,
                 custom_error_message_, reductions, values, grouperVars>>

Fail ==
  /\ outcome = "building" /\ status \in {"error", "crash"}
  /\ outcome' = IF status = "error" THEN "failed" ELSE "crashed"
  /\ UNCHANGED <<code, form, program_asts, builderVars, grouperVars>>

(* An expression goes to the engine as it is; pipelines are grouped first. *)
HandOver ==
  /\ outcome = "building" /\ status = "none" /\ Len(program_asts) = Len(code)
  /\ outcome' = "built"
  /\ IF form = "pipeline" THEN Group(program_asts) ELSE UNCHANGED grouperVars
  /\ UNCHANGED <<code, form, program_asts, builderVars>>

GroupAsts == GroupStep /\ UNCHANGED <<code, form, program_asts, outcome, builderVars>>

Next == BuildNext \/ ParseStep \/ TakeAst \/ Fail \/ HandOver \/ GroupAsts

Spec == Init /\ [][Next]_vars

-----------------------------------------------------------------------------
(* What a compilation hands to the engine is what its texts say: statements *)
(* and blocks in their order and each in its place, and in an expression    *)
(* every name replaced by the value it was last given above.  (A pipeline   *)
(* keeps its names: which value they stand for is decided by the validator  *)
(* and the code generator.)                                                 *)
BuildsWhatIsWritten ==
  outcome = "built" =>
    /\ Len(program_asts) = Len(code)
    /\ \A i \in DOMAIN code : program_asts[i] = Written(code[i], form)

=============================================================================
