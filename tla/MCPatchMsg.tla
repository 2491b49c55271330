----------------------------- MODULE MCPatchMsg -----------------------------
(* Small instances of PatchMsg for TLC: three presses of Patch, so that a    *)
(* message left over by one run can meet the next one.                       *)
EXTENDS PatchMsg

NoEarly  == {}
AllEarly == Runs
=============================================================================
