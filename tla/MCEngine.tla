------------------------------ MODULE MCEngine -------------------------------
(***************************************************************************)
(* An instance of ExecEngine for TLC: MCCore's roots, and one for each     *)
(* step of the compiler that can reject it.                                *)
(***************************************************************************)
EXTENDS SavedBlobs, MCCore

MCRoots == {Plain, Calls, Text,
            Root("invalid", "i32", "validate", "nothing"),
            Root("internal", "string", "codegen", "nothing"),
            Root("malformed", "i32", "verify", "nothing")}

(* With f, without f, and with f known but its symbol never mapped. *)
MCRegistries == {Reg({"f"}, {"f"}), Reg({}, {}), Reg({"f"}, {})}

MCForeign ==
  {Artifact("single", <<Calls>>, <<"i32">>, "strict", TRUE, {}),
   Artifact("single", <<Text>>, <<"string">>, "fast", TRUE, {"cpu"}),
   Artifact("single", <<Plain>>, <<"i32">>, "fast", TRUE, {"llvm"}),
   Artifact("single", <<Plain>>, <<"i32">>, "fast", FALSE, {}),
   Artifact("batch", <<Plain>>, <<"i32">>, "fast", TRUE, {})}

MCHost == [llvm |-> <<1>>, triple |-> << >>, cpu |-> <<2, 0>>]
MCOther == <<3>>
MCRetByte == [unknown |-> 0, i32 |-> 1, string |-> 2]
MCHeaderMagic == <<3, 1>>
MCFooterMagic == <<3, 2>>

(* An object that holds both magics and looks like a length. *)
MCObjectBytes == <<3, 2, 3, 3, 1>>
MCExtensionLists == {<< >>, <<[tag |-> 1, payload |-> <<3>>]>>}

(* A size that wraps is met here, and never leads to a footer.              *)
ASSUME MCBlobsAssumption == WrapIsRefused
=============================================================================
