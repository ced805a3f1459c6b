------------------------------ MODULE MCBatch -------------------------------
(***************************************************************************)
(* An instance of BatchExecEngine for TLC: batches of a root that calls a  *)
(* function, one of another type, and one that code generation rejects,    *)
(* which leaves a prefix of the types behind.                              *)
(***************************************************************************)
EXTENDS BatchExecEngine, MCCore

MCRoots == {Calls, Text, Root("internal", "i32", "codegen", "nothing")}
MCRegistries == {Reg({"f"}, {"f"}), Reg({}, {})}
MCForeign ==
  {Artifact("batch", <<Calls, Text>>, <<"i32", "string">>, "strict", TRUE, {}),
   Artifact("batch", <<Text>>, <<"string">>, "strict", TRUE, {"cpu"}),
   Artifact("single", <<Text>>, <<"string">>, "strict", TRUE, {})}
=============================================================================
