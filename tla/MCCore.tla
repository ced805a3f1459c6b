------------------------------- MODULE MCCore --------------------------------
(***************************************************************************)
(* Roots, registries and artifacts for the engines' instances: two roots   *)
(* of one type that call different functions or none, and one of another.  *)
(***************************************************************************)
Root(name, ret, rejected, calls) ==
  [name |-> name, ret |-> ret, rejected |-> rejected, calls |-> calls]

Plain == Root("plain", "i32", "nowhere", "nothing")
Calls == Root("calls", "i32", "nowhere", "f")
Text == Root("text", "string", "nowhere", "nothing")

Reg(known, mapped) == [known |-> known, mapped |-> mapped]

Artifact(mode, progs, rets, fp, intact, differs) ==
  [mode |-> mode, fp |-> fp, rets |-> rets, obj |-> [progs |-> progs, fp |-> fp, differs |-> differs],
   intact |-> intact, differs |-> differs]
=============================================================================
