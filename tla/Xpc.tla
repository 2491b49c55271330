-------------------------------- MODULE Xpc --------------------------------
(* xpcapply.c: the ROM is copied to the output, the whole patch is read, and *)
(* then the output is changed.  Every error is an exit(1), which ends the    *)
(* app.  The patch is the list of patches of its blocks.                     *)
EXTENDS PatchIO

CONSTANT PageLen          \* 8192
ASSUME XpcAssumption == /\ PageLen \in Nat \ {0}
                        /\ \A j \in Jobs("xpc") : j.recs \in Seq([page : Nat, address : Nat, data : File])

XpcInit == /\ job \in Jobs("xpc")
           /\ out = <<>> /\ disk = <<>> /\ at = 0               \* at: patches applied
           /\ loc = [n |-> 0] /\ pc = "copy" /\ ret = 0

\* The copy to the output; a write error may leave part of it.
XpcCopy == /\ pc = "copy"
           /\ \/ out' = job.rom /\ pc' = "readxpc" /\ UNCHANGED <<ret, disk>>
              \/ /\ \E n \in 0 .. Len(job.rom) : out' = Slice(job.rom, 0, n)
                 /\ disk' = out' /\ pc' = "done" /\ ret' = Crash
           /\ UNCHANGED <<job, at, loc>>

\* readxpc, and the check of the ROM's size.
readxpc == /\ pc = "readxpc"
           /\ \/ (~job.whole \/ (Len(out) % PageLen) # 0) /\ Close(Crash)
              \/ job.whole /\ (Len(out) % PageLen) = 0 /\ pc' = "patch" /\ UNCHANGED <<ret, disk>>
           /\ UNCHANGED <<job, out, at, loc>>

PlaceInPage(p) == p.address                                    \* mutant: the page is forgotten
Place(p) == p.page * PageLen + p.address
XpcPatch == /\ pc = "patch"
            /\ \/ /\ at < Len(job.recs) /\ at' = at + 1 /\ loc' = [n |-> at + 1]
                  /\ LET p == job.recs[at + 1] IN out' = Put(out, Place(p), p.data)
                  /\ UNCHANGED <<pc, ret, disk>>
               \/ /\ at < Len(job.recs) /\ at' = at /\ loc' = [n |-> at + 1]      \* a write fails
                  /\ LET p == job.recs[at + 1] IN
                     \E k \in 0 .. Len(p.data) : out' = Put(out, Place(p), Slice(p.data, 0, k))
                  /\ disk' = out' /\ pc' = "done" /\ ret' = Crash
               \/ at = Len(job.recs) /\ Close(0) /\ UNCHANGED <<out, at, loc>>
            /\ UNCHANGED job

XpcNext == XpcCopy \/ readxpc \/ XpcPatch
=============================================================================
