----------------------------- MODULE MCPatchRun -----------------------------
(* Small instances of PatchRun for TLC.                                      *)
EXTENDS PatchRun

\* One type per way the worker handles a patch, and the output names that
\* matter: none, the ROM's own stem (with the extension, its name), another.
MCKinds == {"dps", "aps", "ips", "nmp", "ecm"}
MCTyped == {<<"stem", 0>>, <<"other", 0>>}
=============================================================================
