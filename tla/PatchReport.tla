----------------------------- MODULE PatchReport -----------------------------
(* What the user of the app is promised about one press of "Patch": a        *)
(* "Please wait" dialog for as long as the patch runs, and then one message, *)
(* the one that belongs to that run.  One run at a time.                     *)
EXTENDS Naturals

CONSTANT N                        \* runs

VARIABLES phase,                  \* [1..N -> "none", "working", "done", "freed", "told"]
          message                 \* [1..N -> 0..N], the run whose result was shown
rvars == <<phase, message>>

Init == phase = [r \in 1..N |-> "none"] /\ message = [r \in 1..N |-> 0]

Move(r, from, to) == phase[r] = from /\ phase' = [phase EXCEPT ![r] = to]

\* A run starts when every earlier one has been reported.
Start(r) == /\ \A q \in 1..N : phase[q] = IF q < r THEN "told" ELSE "none"
            /\ Move(r, "none", "working") /\ UNCHANGED message
Done(r)  == Move(r, "working", "done") /\ UNCHANGED message
Free(r)  == Move(r, "done", "freed") /\ UNCHANGED message
Tell(r)  == Move(r, "freed", "told") /\ message' = [message EXCEPT ![r] = r]

Next == \E r \in 1..N : Start(r) \/ Done(r) \/ Free(r) \/ Tell(r)
Safety == Init /\ [][Next]_rvars
Spec == /\ Safety
        /\ \A r \in 1..N : WF_rvars(Done(r) \/ Free(r) \/ Tell(r))
=============================================================================
