------------------------------ MODULE PatchMsg ------------------------------
(* How the result of a patch reaches the user: Globals.msg, the "Please      *)
(* wait" dialog, and the two threads that MainActivity.patch starts, a       *)
(* worker that patches and a watcher that polls Globals.msg, together with   *)
(* the UI thread and its queue of posted runnables.                          *)
(*                                                                           *)
(* A message is the number of the run that set it; 0 is the empty string.    *)
EXTENDS Naturals, Sequences

CONSTANTS N,          \* bound: presses of Patch
          Early,      \* runs of NMP patches, which set Globals.msg twice
          GapTaps     \* may the user press Patch between two posted runnables?
ASSUME NAssumption     == N \in Nat
ASSUME EarlyAssumption == Early \subseteq 1..N
ASSUME GapAssumption   == GapTaps \in BOOLEAN

Runs   == 1..N
NagMax == 5

VARIABLES msg,        \* Globals.msg
          dialog,     \* [Runs -> BOOLEAN], the run's progress dialog is showing
          worker,     \* [Runs -> "none", "busy", "late", "done"]
          watcher,    \* [Runs -> "none", "poll", "dismiss", "post", "check", "count", "done"]
          queue,      \* runnables posted to the UI thread, oldest first
          shown,      \* [Runs -> 0..N+1], what the run's toast said, N+1: no toast yet
          ok,         \* [Runs -> BOOLEAN], the run's message is R.string.success
          nag,        \* the preference "purchaseNag"
          seen        \* [Runs -> 0..NagMax], the watcher's copy of it
vars == <<msg, dialog, worker, watcher, queue, shown, ok, nag, seen>>

NoToast == N + 1
Started == {r \in Runs : worker[r] # "none"}

Init == /\ msg = 0 /\ queue = <<>> /\ nag = NagMax
        /\ dialog = [r \in Runs |-> FALSE]
        /\ worker = [r \in Runs |-> "none"] /\ watcher = [r \in Runs |-> "none"]
        /\ shown = [r \in Runs |-> NoToast]
        /\ ok = [r \in Runs |-> FALSE] /\ seen = [r \in Runs |-> 0]

\* The UI thread is between a run's dismiss and its toast.
InGap == \E r \in Runs : watcher[r] \in {"dismiss", "post"} \/ \E i \in 1..Len(queue) : queue[i][2] = r

\* patch(): possible when no modal dialog is in the way.
Apply(r, s) ==
    /\ Started = 1..(r - 1) /\ \A q \in Runs : ~dialog[q]
    /\ InGap => GapTaps
    /\ dialog' = [dialog EXCEPT ![r] = TRUE]
    /\ worker' = [worker EXCEPT ![r] = "busy"]
    /\ watcher' = [watcher EXCEPT ![r] = "poll"]
    /\ ok' = [ok EXCEPT ![r] = s]
    /\ UNCHANGED <<msg, queue, shown, nag, seen>>

Work(r, from, to) == /\ worker[r] = from /\ worker' = [worker EXCEPT ![r] = to]
                     /\ UNCHANGED <<dialog, watcher, queue, shown, nag, seen>>

\* The last statement of the worker, or one of its early returns.
FinishSilent(r) == Work(r, "busy", "done") /\ UNCHANGED <<msg, ok>>   \* mutant
Finish(r) == Work(r, "busy", "done") /\ msg' = r /\ UNCHANGED ok

\* An NMP patch that fails sets Globals.msg at once, and again at the end.
SetEarly(r) == r \in Early /\ Work(r, "busy", "late") /\ msg' = r /\ ok' = [ok EXCEPT ![r] = FALSE]
SetAgain(r) == Work(r, "late", "done") /\ msg' = r /\ UNCHANGED ok

Watch(r, from, to) == /\ watcher[r] = from /\ watcher' = [watcher EXCEPT ![r] = to]
                      /\ UNCHANGED <<msg, dialog, worker, shown, ok>>

\* while(Globals.msg.equals("")) sleep(25)
PollNow(r) == Watch(r, "poll", "dismiss") /\ UNCHANGED <<queue, nag, seen>>   \* mutant
Poll(r)    == Watch(r, "poll", "dismiss") /\ msg # 0 /\ UNCHANGED <<queue, nag, seen>>
\* Dialog.dismiss() off the UI thread posts the dismissal.
Dismiss(r) == Watch(r, "dismiss", "post") /\ queue' = Append(queue, <<"dismiss", r>>) /\ UNCHANGED <<nag, seen>>
Post(r)    == Watch(r, "post", "check") /\ queue' = Append(queue, <<"toast", r>>) /\ UNCHANGED <<nag, seen>>
\* Globals.msg is read again, though the runnable just posted may clear it.
IsSuccess  == msg # 0 /\ ok[msg]
\* mutant: the watcher clears the message it has read, not its runnable
CheckNagClear(r) == /\ watcher[r] = "check" /\ watcher' = [watcher EXCEPT ![r] = "done"] /\ msg' = 0
                    /\ UNCHANGED <<dialog, worker, shown, ok, queue, nag, seen>>
CheckNag(r) == /\ Watch(r, "check", IF IsSuccess THEN "count" ELSE "done")
               /\ seen' = IF IsSuccess THEN [seen EXCEPT ![r] = nag] ELSE seen
               /\ UNCHANGED <<queue, nag>>
\* -1 is put for owners of the paid apps, but never committed.
CountNoWrap(r) == /\ Watch(r, "count", "done")   \* mutant
                  /\ nag' = seen[r] + 1 /\ UNCHANGED <<queue, seen>>
CountNag(r) == /\ Watch(r, "count", "done")
               /\ nag' \in {nag, IF seen[r] >= NagMax THEN 0 ELSE seen[r] + 1}
               /\ UNCHANGED <<queue, seen>>

\* The UI thread runs the oldest posted runnable.
\* mutant: the toast does not clear the message
RunPostedKeep ==
    /\ queue # <<>> /\ queue' = Tail(queue)
    /\ LET r == Head(queue)[2] IN
       IF Head(queue)[1] = "dismiss"
       THEN dialog' = [dialog EXCEPT ![r] = FALSE] /\ shown' = shown
       ELSE shown' = [shown EXCEPT ![r] = msg] /\ dialog' = dialog
    /\ UNCHANGED <<msg, worker, watcher, ok, nag, seen>>
RunPosted ==
    /\ queue # <<>> /\ queue' = Tail(queue)
    /\ LET r == Head(queue)[2] IN
       \/ /\ Head(queue)[1] = "dismiss" /\ dialog' = [dialog EXCEPT ![r] = FALSE]
          /\ UNCHANGED <<msg, shown>>
       \/ /\ Head(queue)[1] = "toast" /\ shown' = [shown EXCEPT ![r] = msg] /\ msg' = 0
          /\ UNCHANGED dialog
    /\ UNCHANGED <<worker, watcher, ok, nag, seen>>

WorkerStep(r)  == Finish(r) \/ SetEarly(r) \/ SetAgain(r)
WatcherStep(r) == Poll(r) \/ Dismiss(r) \/ Post(r) \/ CheckNag(r) \/ CountNag(r)
Stopped == Started = Runs /\ (\A r \in Runs : worker[r] = "done" /\ watcher[r] \in {"poll", "done"})
           /\ queue = <<>> /\ UNCHANGED vars
Next == \/ \E r \in Runs : WorkerStep(r) \/ WatcherStep(r) \/ \E s \in BOOLEAN : Apply(r, s)
        \/ RunPosted \/ Stopped

(* A patcher returns, the scheduler runs every thread, and the UI thread     *)
(* handles what is posted to it.                                             *)
Fairness == /\ \A r \in Runs : WF_vars(WorkerStep(r)) /\ WF_vars(WatcherStep(r))
            /\ WF_vars(RunPosted)
Spec == Init /\ [][Next]_vars /\ Fairness

-----------------------------------------------------------------------------
\* Every variable keeps its type; the donation counter stays within 0..5.
TypeOK == /\ msg \in 0..N /\ nag \in 0..NagMax
          /\ dialog \in [Runs -> BOOLEAN] /\ ok \in [Runs -> BOOLEAN]
          /\ worker \in [Runs -> {"none", "busy", "late", "done"}]
          /\ watcher \in [Runs -> {"none", "poll", "dismiss", "post", "check", "count", "done"}]
          /\ queue \in Seq({"dismiss", "toast"} \X Runs)
          /\ shown \in [Runs -> 0..(N + 1)] /\ seen \in [Runs -> 0..NagMax]

(* The toast of a run shows the message that run's worker set, not an empty  *)
(* string and not another run's (Globals.msg is shared by all runs).         *)
OwnMessage == \A r \in Runs : shown[r] \in {r, NoToast}

(* strings.xml, wait_desc: "Patching rom..." - the dialog is on the screen   *)
(* for as long as the run's worker is at work, so no second run can start.   *)
DialogCoversWork == \A r \in Runs : worker[r] \in {"busy", "late"} => dialog[r]

(* No dialog is left behind: as long as it is showing, its dismissal is      *)
(* posted, or its watcher is about to post it, or its watcher polls and has  *)
(* a message to find - one is there, or the run's worker has still to set    *)
(* its own.  Whatever run cleared or left Globals.msg, NMP runs that set it  *)
(* early and go on working beside the next run included, the last message a  *)
(* polling watcher can get is not taken from it.  (With presses between a    *)
(* dismissal and its toast it is: DialogEventuallyGone.)                     *)
DialogHasDismisser ==
    \A r \in Runs : dialog[r] => \/ watcher[r] = "poll" /\ (worker[r] # "done" \/ msg # 0)
                                 \/ watcher[r] = "dismiss"
                                 \/ \E i \in 1..Len(queue) : queue[i] = <<"dismiss", r>>

(* Every press of Patch ends with the dialog gone and the run's own message  *)
(* shown.                                                                    *)
EveryRunReported == \A r \in Runs : worker[r] = "busy" ~> (~dialog[r] /\ shown[r] = r)

(* Every press of Patch ends with the dialog gone.                           *)
DialogEventuallyGone == \A r \in Runs : dialog[r] ~> ~dialog[r]

\* The promise of PatchReport, read off this module's state.
Phase(r) == IF worker[r] = "none" THEN "none"
            ELSE IF worker[r] # "done" THEN "working"
            ELSE IF dialog[r] THEN "done"
            ELSE IF shown[r] = NoToast THEN "freed" ELSE "told"
Report == INSTANCE PatchReport WITH phase <- [r \in Runs |-> Phase(r)],
                                    message <- [r \in Runs |-> shown[r] % (N + 1)]
(* The threads, the queue and Globals.msg implement PatchReport.             *)
Reported == Report!Spec
=============================================================================
