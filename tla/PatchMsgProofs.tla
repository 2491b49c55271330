--------------------------- MODULE PatchMsgProofs ---------------------------
(* The hand-off of results for every number of presses of Patch: types in    *)
(* every interleaving; where no press falls between a dismissal and its      *)
(* toast, the dismissal of every dialog, whatever messages are set early;    *)
(* and where none is, that runs follow each other and implement the safety   *)
(* part of PatchReport.                                                      *)
EXTENDS PatchMsg, SequenceTheorems, TLAPS

Posted == {"dismiss", "toast"} \X Runs

(* A runnable is a kind and a run.                                           *)
LEMMA PostedParts == ASSUME NEW e \in Posted
                     PROVE  e[1] \in {"dismiss", "toast"} /\ e[2] \in Runs /\ e = <<e[1], e[2]>>
  BY DEF Posted

(* What an oldest runnable is, and what remains behind it.                   *)
LEMMA QueueParts == ASSUME NEW q \in Seq(Posted), q # <<>>
                    PROVE  /\ Head(q) \in Posted /\ Tail(q) \in Seq(Posted)
                           /\ Len(q) \in Nat /\ Len(Tail(q)) = Len(q) - 1 /\ Head(q) = q[1]
                           /\ \A i \in 2 .. Len(q) : Tail(q)[i - 1] = q[i]
  OBVIOUS

(* Posting appends to the queue.                                             *)
LEMMA QueueGrows == ASSUME NEW q \in Seq(Posted), NEW e \in Posted
                    PROVE  /\ Append(q, e) \in Seq(Posted) /\ Len(q) \in Nat
                           /\ Len(Append(q, e)) = Len(q) + 1 /\ Append(q, e)[Len(q) + 1] = e
                           /\ \A i \in 1 .. Len(q) : Append(q, e)[i] = q[i]
  OBVIOUS

(* Each step keeps the type of every variable.                               *)
LEMMA TypeStep == TypeOK /\ [Next]_vars => TypeOK'
<1> SUFFICES ASSUME TypeOK, [Next]_vars PROVE TypeOK'
  OBVIOUS
<1> USE NAssumption DEF TypeOK, Runs
<1>q. queue \in Seq(Posted)
  BY DEF Posted
<1>1. ASSUME NEW r \in Runs, NEW s \in BOOLEAN, Apply(r, s) PROVE TypeOK'
  BY <1>1 DEF Apply
<1>2. ASSUME NEW r \in Runs, WorkerStep(r) PROVE TypeOK'
  <2>1. CASE Finish(r)
    BY <2>1 DEF Finish, Work
  <2>2. CASE SetEarly(r)
    BY <2>2 DEF SetEarly, Work
  <2>3. CASE SetAgain(r)
    BY <2>3 DEF SetAgain, Work
  <2> QED  BY <1>2, <2>1, <2>2, <2>3 DEF WorkerStep
<1>3. ASSUME NEW r \in Runs, WatcherStep(r) PROVE TypeOK'
  <2>1. CASE Poll(r)
    BY <2>1 DEF Poll, Watch
  <2>2. CASE Dismiss(r)
    BY <2>2 DEF Dismiss, Watch
  <2>3. CASE Post(r)
    BY <2>3 DEF Post, Watch
  <2>4. CASE CheckNag(r)
    BY <2>4 DEF CheckNag, Watch
  <2>5. CASE CountNag(r)
    <3>1. nag' \in 0 .. NagMax
      <4>1. seen[r] \in 0 .. 5 /\ nag \in 0 .. 5
        BY DEF NagMax
      <4>2. nag' = nag \/ nag' = IF seen[r] >= 5 THEN 0 ELSE seen[r] + 1
        BY <2>5 DEF CountNag, NagMax
      <4> QED  BY <4>1, <4>2 DEF NagMax
    <3> QED  BY <2>5, <3>1 DEF CountNag, Watch
  <2> QED  BY <1>3, <2>1, <2>2, <2>3, <2>4, <2>5 DEF WatcherStep
<1>4. CASE RunPosted
  <2>1. Head(queue)[2] \in Runs /\ Tail(queue) \in Seq(Posted)
    BY <1>4, <1>q, QueueParts, PostedParts DEF RunPosted
  <2>2. queue' \in Seq({"dismiss", "toast"} \X Runs)
    BY <1>4, <2>1 DEF RunPosted, Posted
  <2>3. CASE UNCHANGED <<msg, shown>> /\ dialog' = [dialog EXCEPT ![Head(queue)[2]] = FALSE]
    BY <1>4, <2>1, <2>2, <2>3 DEF RunPosted
  <2>4. CASE UNCHANGED dialog /\ msg' = 0 /\ shown' = [shown EXCEPT ![Head(queue)[2]] = msg]
    <3>1. msg' \in 0 .. N /\ shown' \in [Runs -> 0 .. (N + 1)]
      <4>1. msg \in 0 .. (N + 1)
        OBVIOUS
      <4> QED  BY <2>1, <2>4, <4>1
    <3> QED  BY <1>4, <2>2, <2>4, <3>1 DEF RunPosted
  <2> QED  BY <1>4, <2>3, <2>4 DEF RunPosted
<1>5. CASE Stopped \/ UNCHANGED vars
  BY <1>5 DEF Stopped, vars
<1> QED  BY <1>1, <1>2, <1>3, <1>4, <1>5 DEF Next

(* It holds before the first press of Patch.                                 *)
LEMMA TypeInit == Init => TypeOK
  BY NAssumption DEF Init, TypeOK, Runs, NoToast, NagMax

(* Types hold in every interleaving: the donation counter stays within its   *)
(* range whatever the watchers read and write of it.                         *)
THEOREM TypeCorrect == Spec => []TypeOK
  BY TypeInit, TypeStep, PTL DEF Spec

-----------------------------------------------------------------------------
\* The dismissal of the run's dialog is in the queue.
Pending(r) == \E i \in 1 .. Len(queue) : queue[i] = <<"dismiss", r>>

\* Each dialog's dismissal is posted or still before its watcher.
Watched == \A r \in Runs : dialog[r] => watcher[r] \in {"poll", "dismiss"} \/ Pending(r)

(* Each step leaves each dialog's dismissal to its watcher or in the queue.  *)
LEMMA WatchedStep == TypeOK /\ Watched /\ [Next]_vars => Watched'
<1> SUFFICES ASSUME TypeOK, Watched, [Next]_vars, NEW q \in Runs, dialog'[q]
             PROVE  watcher'[q] \in {"poll", "dismiss"} \/ Pending(q)'
  BY DEF Watched, Pending
<1>q. queue \in Seq(Posted)
  BY DEF TypeOK, Posted
<1>d. dialog[q] => watcher[q] \in {"poll", "dismiss"} \/ Pending(q)
  BY DEF Watched, Pending
<1>1. ASSUME NEW r \in Runs, NEW s \in BOOLEAN, Apply(r, s)
      PROVE  watcher'[q] \in {"poll", "dismiss"} \/ Pending(q)'
  <2>1. CASE q = r
    BY <1>1, <2>1 DEF Apply, TypeOK
  <2>2. CASE q # r
    BY <1>1, <1>d, <2>2 DEF Apply, TypeOK, Pending
  <2> QED  BY <2>1, <2>2
<1>2. ASSUME NEW r \in Runs, WorkerStep(r)
      PROVE  watcher'[q] \in {"poll", "dismiss"} \/ Pending(q)'
  <2>1. UNCHANGED <<dialog, watcher, queue>>
    BY <1>2 DEF WorkerStep, Finish, SetEarly, SetAgain, Work
  <2> QED  BY <1>d, <2>1 DEF Pending
<1>3. ASSUME NEW r \in Runs, WatcherStep(r)
      PROVE  watcher'[q] \in {"poll", "dismiss"} \/ Pending(q)'
  <2>1. dialog' = dialog
    BY <1>3 DEF WatcherStep, Poll, Dismiss, Post, CheckNag, CountNag, Watch
  <2>2. CASE Poll(r)
    BY <1>d, <2>1, <2>2 DEF Poll, Watch, TypeOK, Pending
  <2>3. CASE Dismiss(r)
    <3>1. <<"dismiss", r>> \in Posted /\ queue' = Append(queue, <<"dismiss", r>>)
      BY <2>3 DEF Dismiss, Posted
    <3>2. Pending(q) => Pending(q)'
      BY <1>q, <3>1, QueueGrows DEF Pending
    <3>3. Pending(r)'
      <4>1. Len(queue) + 1 \in 1 .. Len(queue') /\ queue'[Len(queue) + 1] = <<"dismiss", r>>
        BY <1>q, <3>1, QueueGrows
      <4> QED  BY <4>1 DEF Pending
    <3>4. q # r => watcher'[q] = watcher[q]
      BY <2>3 DEF Dismiss, Watch, TypeOK
    <3> QED  BY <1>d, <2>1, <3>2, <3>3, <3>4
  <2>4. CASE Post(r)
    <3>1. <<"toast", r>> \in Posted /\ queue' = Append(queue, <<"toast", r>>)
      BY <2>4 DEF Post, Posted
    <3>2. Pending(q) => Pending(q)'
      BY <1>q, <3>1, QueueGrows DEF Pending
    <3>3. watcher[q] \in {"poll", "dismiss"} => watcher'[q] = watcher[q]
      BY <2>4 DEF Post, Watch, TypeOK
    <3> QED  BY <1>d, <2>1, <3>2, <3>3
  <2>5. CASE CheckNag(r) \/ CountNag(r)
    <3>1. watcher[q] \in {"poll", "dismiss"} => watcher'[q] = watcher[q]
      BY <2>5 DEF CheckNag, CountNag, Watch, TypeOK
    <3>2. queue' = queue
      BY <2>5 DEF CheckNag, CountNag
    <3> QED  BY <1>d, <2>1, <3>1, <3>2 DEF Pending
  <2> QED  BY <1>3, <2>2, <2>3, <2>4, <2>5 DEF WatcherStep
<1>4. CASE RunPosted
  <2> DEFINE e == Head(queue)
  <2>1. queue # <<>> /\ queue' = Tail(queue) /\ watcher' = watcher
    BY <1>4 DEF RunPosted
  <2>2. e \in Posted /\ e = queue[1] /\ e[2] \in Runs /\ e = <<e[1], e[2]>>
    BY <1>q, <2>1, QueueParts, PostedParts
  <2>3. Pending(q) /\ e # <<"dismiss", q>> => Pending(q)'
    <3> SUFFICES ASSUME NEW i \in 1 .. Len(queue), queue[i] = <<"dismiss", q>>, e # <<"dismiss", q>>
                 PROVE  Pending(q)'
      BY DEF Pending
    <3>1. i \in 2 .. Len(queue)
      BY <1>q, <2>2
    <3>2. i - 1 \in 1 .. Len(queue') /\ queue'[i - 1] = queue[i]
      BY <1>q, <2>1, <3>1, QueueParts
    <3> QED  BY <3>2 DEF Pending
  <2>4. e # <<"dismiss", q>>
    <3>1. SUFFICES ASSUME e[1] = "dismiss", e[2] = q PROVE FALSE
      OBVIOUS
    <3>2. dialog' = [dialog EXCEPT ![q] = FALSE]
      BY <1>4, <3>1 DEF RunPosted
    <3> QED  BY <3>2 DEF TypeOK
  <2>5. dialog[q]
    <3>1. CASE dialog' = dialog
      BY <3>1
    <3>2. CASE dialog' = [dialog EXCEPT ![e[2]] = FALSE]
      BY <2>2, <3>2 DEF TypeOK
    <3> QED  BY <1>4, <3>1, <3>2 DEF RunPosted
  <2> QED  BY <1>d, <2>1, <2>3, <2>4, <2>5
<1>5. CASE Stopped \/ UNCHANGED vars
  BY <1>d, <1>5 DEF Stopped, vars, Pending
<1> QED  BY <1>1, <1>2, <1>3, <1>4, <1>5 DEF Next

\* A watcher polls beside no other run that is on its way to a toast.
Alone(r) == queue = <<>> /\ \A q \in Runs \ {r} : watcher[q] \notin {"poll", "dismiss", "post"}
\* A polling watcher has a message to find, and its dialog is up.
Attended == \A r \in Runs : /\ watcher[r] \in {"poll", "dismiss"} => dialog[r] /\ ~Pending(r)
                            /\ watcher[r] = "poll" => Alone(r)
                            /\ watcher[r] = "poll" /\ worker[r] = "done" => msg # 0

(* Outside the gap Patch is pressed with nothing on its way to a toast.      *)
LEMMA PressedAlone ==
    ASSUME TypeOK, Attended, GapTaps = FALSE, NEW r \in Runs, NEW s \in BOOLEAN, Apply(r, s)
    PROVE  queue = <<>> /\ \A q \in Runs : watcher[q] \notin {"poll", "dismiss", "post"}
<1>1. ~InGap /\ \A q \in Runs : ~dialog[q]
  BY DEF Apply
<1>2. queue \in Seq(Posted)
  BY DEF TypeOK, Posted
<1>3. queue = <<>>
  <2> SUFFICES ASSUME queue # <<>> PROVE FALSE
    OBVIOUS
  <2>1. 1 \in 1 .. Len(queue) /\ queue[1] \in Posted
    BY <1>2
  <2>2. queue[1][2] \in Runs
    BY <2>1, PostedParts
  <2> QED  BY <1>1, <2>1, <2>2 DEF InGap
<1>4. \A q \in Runs : watcher[q] \notin {"poll", "dismiss", "post"}
  BY <1>1 DEF InGap, Attended
<1> QED  BY <1>3, <1>4

(* No step takes the last message from a watcher that polls: only a toast    *)
(* clears it, and with a toast on its way nobody polls.                      *)
LEMMA AttendedStep == GapTaps = FALSE /\ TypeOK /\ Attended /\ [Next]_vars => Attended'
<1> SUFFICES ASSUME GapTaps = FALSE, TypeOK, Attended, [Next]_vars PROVE Attended'
  OBVIOUS
<1>q. queue \in Seq(Posted)
  BY DEF TypeOK, Posted
<1>1. ASSUME NEW r \in Runs, NEW s \in BOOLEAN, Apply(r, s) PROVE Attended'
  <2>1. queue = <<>> /\ \A q \in Runs : watcher[q] \notin {"poll", "dismiss", "post"}
    BY <1>1, PressedAlone
  <2>2. queue' = <<>> /\ dialog'[r] /\ worker'[r] = "busy"
        /\ \A q \in Runs \ {r} : watcher'[q] = watcher[q]
    BY <1>1, <2>1 DEF Apply, TypeOK
  <2>3. \A q \in Runs : ~Pending(q)'
    BY <2>2 DEF Pending
  <2> QED  BY <2>1, <2>2, <2>3 DEF Attended, Alone
<1>2. ASSUME NEW r \in Runs, WorkerStep(r) PROVE Attended'
  <2>1. msg' = r /\ r # 0 /\ UNCHANGED <<dialog, watcher, queue>>
    BY <1>2, NAssumption DEF WorkerStep, Finish, SetEarly, SetAgain, Work, Runs
  <2> QED  BY <2>1 DEF Attended, Alone, Pending
<1>3. ASSUME NEW r \in Runs, WatcherStep(r) PROVE Attended'
  <2>1. /\ UNCHANGED <<msg, dialog, worker>>
        /\ \A q \in Runs \ {r} : watcher'[q] = watcher[q]
    BY <1>3 DEF WatcherStep, Poll, Dismiss, Post, CheckNag, CountNag, Watch, TypeOK
  <2>2. CASE Poll(r)
    <3>1. watcher[r] = "poll" /\ watcher'[r] = "dismiss" /\ queue' = queue
      BY <2>2 DEF Poll, Watch, TypeOK
    <3> QED  BY <2>1, <3>1 DEF Attended, Alone, Pending
  <2>3. ASSUME NEW k \in {"dismiss", "toast"}, queue' = Append(queue, <<k, r>>),
               watcher[r] \in {"dismiss", "post"}, watcher'[r] \in {"post", "check"}
        PROVE  Attended'
    <3>1. \A q \in Runs : watcher[q] # "poll"
      BY <2>3 DEF Attended, Alone
    <3>2. <<k, r>> \in Posted
      BY DEF Posted
    <3>3. ASSUME NEW q \in Runs \ {r}, Pending(q)' PROVE Pending(q)
      <4>1. PICK i \in 1 .. Len(queue') : queue'[i] = <<"dismiss", q>>
        BY <3>3 DEF Pending
      <4>2. i # Len(queue) + 1
        BY <1>q, <2>3, <3>2, <4>1, QueueGrows
      <4>3. i \in 1 .. Len(queue) /\ queue[i] = <<"dismiss", q>>
        BY <1>q, <2>3, <3>2, <4>1, <4>2, QueueGrows
      <4> QED  BY <4>3 DEF Pending
    <3> QED  BY <2>1, <2>3, <3>1, <3>3 DEF Attended
  <2>4. CASE Dismiss(r)
    BY <2>3, <2>4 DEF Dismiss, Watch, TypeOK
  <2>5. CASE Post(r)
    BY <2>3, <2>5 DEF Post, Watch, TypeOK
  <2>6. CASE CheckNag(r) \/ CountNag(r)
    <3>1. watcher'[r] \in {"count", "done"} /\ queue' = queue
      BY <2>6 DEF CheckNag, CountNag, Watch, TypeOK
    <3> QED  BY <2>1, <3>1 DEF Attended, Alone, Pending
  <2> QED  BY <1>3, <2>2, <2>4, <2>5, <2>6 DEF WatcherStep
<1>4. CASE RunPosted
  <2>1. queue # <<>> /\ queue' = Tail(queue) /\ UNCHANGED <<worker, watcher>>
    BY <1>4 DEF RunPosted
  <2>2. \A q \in Runs : watcher[q] # "poll"
    BY <2>1 DEF Attended, Alone
  <2>3. ASSUME NEW q \in Runs, Pending(q)' PROVE Pending(q)
    <3>1. PICK i \in 1 .. Len(queue') : queue'[i] = <<"dismiss", q>>
      BY <2>3 DEF Pending
    <3>2. i + 1 \in 2 .. Len(queue) /\ Tail(queue)[(i + 1) - 1] = queue[i + 1]
      BY <1>q, <2>1, <3>1, QueueParts
    <3>3. i + 1 \in 1 .. Len(queue) /\ queue[i + 1] = <<"dismiss", q>>
      BY <1>q, <2>1, <3>1, <3>2
    <3> QED  BY <3>3 DEF Pending
  <2>4. ASSUME NEW q \in Runs, watcher[q] = "dismiss" PROVE dialog'[q]
    <3>1. dialog[q] /\ ~Pending(q)
      BY <2>4 DEF Attended
    <3>2. Head(queue) # <<"dismiss", q>>
      BY <1>q, <2>1, <3>1, QueueParts DEF Pending
    <3>3. /\ Head(queue)[2] \in Runs /\ Head(queue) = <<Head(queue)[1], Head(queue)[2]>>
      BY <1>q, <2>1, QueueParts, PostedParts
    <3>4. CASE dialog' = [dialog EXCEPT ![Head(queue)[2]] = FALSE] /\ Head(queue)[1] = "dismiss"
      BY <3>1, <3>2, <3>3, <3>4 DEF TypeOK
    <3> QED  BY <1>4, <3>1, <3>4 DEF RunPosted
  <2> QED  BY <2>1, <2>2, <2>3, <2>4 DEF Attended
<1>5. CASE Stopped \/ UNCHANGED vars
  BY <1>5 DEF Stopped, vars, Attended, Alone, Pending
<1> QED  BY <1>1, <1>2, <1>3, <1>4, <1>5 DEF Next

(* Where no press falls between a dismissal and its toast, no dialog is left *)
(* behind: its dismissal is posted or about to be, or its watcher polls with *)
(* a message there or still to come.  Messages set early, and workers that   *)
(* go on beside the next run, are included.                                  *)
THEOREM DialogsHaveDismissers == ASSUME GapTaps = FALSE PROVE Spec => []DialogHasDismisser
<1>1. Init => Watched /\ Attended
  BY DEF Init, Watched, Attended
<1>2. TypeOK /\ Attended /\ [Next]_vars => Attended'
  BY AttendedStep
<1>3. Watched /\ Attended => DialogHasDismisser
  BY DEF Watched, Attended, DialogHasDismisser, Pending
<1> QED  BY <1>1, <1>2, <1>3, TypeInit, TypeStep, WatchedStep, PTL DEF Spec

-----------------------------------------------------------------------------
(* One run after the other: where the dialog, the message and the queue are  *)
(* at each stage of the one run that is not over.                            *)
D(r) == <<"dismiss", r>>
T(r) == <<"toast", r>>
Later == {"check", "count", "done"}
Unused(r) == worker[r] = "none" /\ watcher[r] = "none" /\ ~dialog[r] /\ shown[r] = NoToast
Over(r)   == worker[r] = "done" /\ watcher[r] \in Later /\ ~dialog[r] /\ shown[r] = r
Working(r) == worker[r] = "busy" /\ watcher[r] = "poll" /\ dialog[r] /\ queue = <<>> /\ msg = 0
Finished(r) == worker[r] = "done" /\ watcher[r] \in {"poll", "dismiss"} /\ dialog[r] /\ queue = <<>> /\ msg = r
Leaving(r) == worker[r] = "done" /\ watcher[r] = "post" /\ msg = r
              /\ ((dialog[r] /\ queue = <<D(r)>>) \/ (~dialog[r] /\ queue = <<>>))
Telling(r) == worker[r] = "done" /\ watcher[r] \in Later /\ msg = r
              /\ ((dialog[r] /\ queue = <<D(r), T(r)>>) \/ (~dialog[r] /\ queue = <<T(r)>>))
Current(r) == shown[r] = NoToast /\ (Working(r) \/ Finished(r) \/ Leaving(r) \/ Telling(r))
Others(r)  == \A q \in Runs \ {r} : Unused(q) \/ Over(q)
Quiet      == msg = 0 /\ queue = <<>> /\ \A q \in Runs : Unused(q) \/ Over(q)
Serial     == Quiet \/ \E r \in Runs : Current(r) /\ Others(r)

(* Appending to a queue of one.                                              *)
LEMMA AppendSecond == ASSUME NEW a, NEW b PROVE Append(<<a>>, b) = <<a, b>>
<1> DEFINE s == Append(<<a>>, b)
<1>1. <<a>> \in Seq({a, b}) /\ <<a, b>> \in Seq({a, b}) /\ b \in {a, b} /\ Len(<<a>>) = 1
  OBVIOUS
<1>2. s \in Seq({a, b}) /\ Len(s) = 2 /\ s[1] = a /\ s[2] = b
  BY <1>1, AppendProperties
<1>3. Len(<<a, b>>) = 2 /\ <<a, b>>[1] = a /\ <<a, b>>[2] = b
  OBVIOUS
<1> HIDE DEF s
<1>4. s = <<a, b>>
  BY <1>1, <1>2, <1>3, SeqEqual
<1> QED  BY <1>4 DEF s

(* Queues of up to two runnables.                                            *)
LEMMA ShortQueues == ASSUME NEW a, NEW b
                     PROVE  /\ Append(<<>>, a) = <<a>> /\ Append(<<a>>, b) = <<a, b>>
                            /\ Head(<<a>>) = a /\ Tail(<<a>>) = <<>> /\ <<a>> # <<>>
                            /\ Head(<<a, b>>) = a /\ Tail(<<a, b>>) = <<b>> /\ <<a, b>> # <<>>
<1>1. Append(<<>>, a) = <<a>>
  OBVIOUS
<1>2. Head(<<a>>) = a /\ <<a>> # <<>> /\ Head(<<a, b>>) = a /\ <<a, b>> # <<>>
  OBVIOUS
<1>3. Tail(<<a>>) = <<>>
  OBVIOUS
<1>4. Tail(<<a, b>>) = <<b>>
  OBVIOUS
<1> QED  BY <1>1, <1>2, <1>3, <1>4, AppendSecond

(* A run is not at two stages, and only one run is current.                  *)
LEMMA OneStage ==
    ASSUME Serial, NEW r \in Runs
    PROVE  /\ worker[r] # "late"
           /\ worker[r] = "busy" => Current(r) /\ Others(r) /\ Working(r)
           /\ watcher[r] \in {"poll", "dismiss"} => Current(r) /\ Others(r) /\ (Working(r) \/ Finished(r))
           /\ watcher[r] = "post" => Current(r) /\ Others(r) /\ Leaving(r)
           /\ watcher[r] \in Later => Over(r) \/ (Current(r) /\ Others(r) /\ Telling(r))
<1>1. CASE Quiet
  BY <1>1 DEF Quiet, Unused, Over, Later
<1>2. ASSUME NEW a \in Runs, Current(a), Others(a), a # r PROVE Unused(r) \/ Over(r)
  BY <1>2 DEF Others
<1>3. CASE Unused(r) \/ Over(r)
  BY <1>3 DEF Unused, Over, Later
<1>4. CASE Current(r) /\ Others(r)
  BY <1>4 DEF Current, Working, Finished, Leaving, Telling, Later
<1> QED  BY <1>1, <1>2, <1>3, <1>4 DEF Serial

(* What changes at one run leaves the others where they are.                 *)
LEMMA OthersStay ==
    ASSUME NEW r \in Runs, Others(r),
           \A q \in Runs \ {r} : /\ worker'[q] = worker[q] /\ watcher'[q] = watcher[q]
                                 /\ dialog'[q] = dialog[q] /\ shown'[q] = shown[q]
    PROVE  Others(r)'
  BY DEF Others, Unused, Over

(* Patch can be pressed only when no run is current.                         *)
LEMMA PressedWhenQuiet ==
    ASSUME TypeOK, Serial, GapTaps = FALSE, NEW r \in Runs, NEW s \in BOOLEAN, Apply(r, s)
    PROVE  Quiet
<1> SUFFICES ASSUME NEW a \in Runs, Current(a) PROVE FALSE
  BY DEF Serial
<1>1. ~dialog[a] /\ ~InGap
  BY DEF Apply
<1>2. CASE Leaving(a)
  BY <1>1, <1>2 DEF Leaving, InGap
<1>3. CASE Telling(a)
  <2>1. queue = <<T(a)>>
    BY <1>1, <1>3 DEF Telling
  <2>2. 1 \in 1 .. Len(queue) /\ queue[1] = T(a) /\ T(a)[2] = a
    BY <2>1 DEF T
  <2> QED  BY <1>1, <2>2 DEF InGap
<1> QED  BY <1>1, <1>2, <1>3 DEF Current, Working, Finished

(* Runs follow each other, whatever their threads do in between.             *)
LEMMA SerialStep == Early = {} /\ GapTaps = FALSE /\ TypeOK /\ Serial /\ [Next]_vars => Serial'
<1> SUFFICES ASSUME Early = {}, GapTaps = FALSE, TypeOK, Serial, [Next]_vars PROVE Serial'
  OBVIOUS
<1>1. ASSUME NEW r \in Runs, NEW s \in BOOLEAN, Apply(r, s) PROVE Serial'
  <2>1. Quiet
    BY <1>1, PressedWhenQuiet
  <2>2. Unused(r)
    <3>1. r \notin Started
      BY <1>1, NAssumption DEF Apply, Runs
    <3> QED  BY <2>1, <3>1 DEF Started, Quiet, Over
  <2>3. Current(r)'
    BY <1>1, <2>1, <2>2 DEF Apply, Current, Working, Unused, Quiet, TypeOK, NoToast
  <2>4. Others(r)'
    <3>1. Others(r)
      BY <2>1 DEF Quiet, Others
    <3> QED  BY <1>1, <3>1, OthersStay DEF Apply, TypeOK
  <2> QED  BY <2>3, <2>4 DEF Serial
<1>2. ASSUME NEW r \in Runs, WorkerStep(r) PROVE Serial'
  <2>1. Finish(r)
    BY <1>2, OneStage DEF WorkerStep, SetEarly, SetAgain, Work
  <2>2. Current(r) /\ Others(r) /\ Working(r)
    BY <2>1, OneStage DEF Finish, Work
  <2>3. Current(r)'
    BY <2>1, <2>2 DEF Finish, Work, Current, Working, Finished, TypeOK, NoToast
  <2>4. Others(r)'
    BY <2>1, <2>2, OthersStay DEF Finish, Work, TypeOK
  <2> QED  BY <2>3, <2>4 DEF Serial
<1>3. ASSUME NEW r \in Runs, WatcherStep(r) PROVE Serial'
  <2>1. /\ UNCHANGED <<msg, dialog, worker, shown>>
        /\ \A q \in Runs \ {r} : watcher'[q] = watcher[q]
    BY <1>3 DEF WatcherStep, Poll, Dismiss, Post, CheckNag, CountNag, Watch, TypeOK
  <2>2. Others(r) => Others(r)'
    BY <2>1, OthersStay
  <2>3. CASE Poll(r)
    <3>1. Current(r) /\ Others(r) /\ (Working(r) \/ Finished(r)) /\ msg # 0
      BY <2>3, OneStage DEF Poll, Watch
    <3>2. Current(r)'
      BY <2>3, <2>1, <3>1 DEF Poll, Watch, Current, Working, Finished, TypeOK, NoToast
    <3> QED  BY <2>2, <3>1, <3>2 DEF Serial
  <2>4. CASE Dismiss(r)
    <3>1. Current(r) /\ Others(r) /\ Finished(r)
      BY <2>4, OneStage DEF Dismiss, Watch, Working
    <3>2. queue' = <<D(r)>>
      BY <2>4, <3>1, ShortQueues DEF Dismiss, Finished, D
    <3>3. Current(r)'
      BY <2>4, <2>1, <3>1, <3>2 DEF Dismiss, Watch, Current, Finished, Leaving, TypeOK, NoToast
    <3> QED  BY <2>2, <3>1, <3>3 DEF Serial
  <2>5. CASE Post(r)
    <3>1. Current(r) /\ Others(r) /\ Leaving(r)
      BY <2>5, OneStage DEF Post, Watch
    <3>2. (dialog[r] /\ queue' = <<D(r), T(r)>>) \/ (~dialog[r] /\ queue' = <<T(r)>>)
      BY <2>5, <3>1, ShortQueues DEF Post, Leaving, T
    <3>3. watcher'[r] \in Later
      BY <2>5 DEF Post, Watch, TypeOK, Later
    <3>4. Current(r)'
      BY <2>1, <3>1, <3>2, <3>3 DEF Current, Leaving, Telling, NoToast
    <3> QED  BY <2>2, <3>1, <3>4 DEF Serial
  <2>6. CASE CheckNag(r) \/ CountNag(r)
    <3>1. watcher[r] \in Later /\ watcher'[r] \in Later /\ queue' = queue
      BY <2>6 DEF CheckNag, CountNag, Watch, TypeOK, Later
    <3>2. CASE Over(r)
      <4>1. Over(r)'
        BY <2>1, <3>1, <3>2 DEF Over
      <4>2. \A q \in Runs : Unused(q) \/ Over(q) => (Unused(q) \/ Over(q))'
        BY <2>1, <4>1 DEF Unused, Over, NoToast
      <4>3. Quiet => Quiet'
        BY <2>1, <3>1, <4>2 DEF Quiet
      <4>4. ASSUME NEW a \in Runs, Current(a), Others(a) PROVE Current(a)' /\ Others(a)'
        <5>1. a # r
          BY <3>2, <4>4, NAssumption DEF Over, Current, NoToast, Runs
        <5>2. Current(a)'
          BY <2>1, <3>1, <4>4, <5>1 DEF Current, Working, Finished, Leaving, Telling, NoToast
        <5> QED  BY <4>2, <4>4, <5>2 DEF Others
      <4> QED  BY <4>3, <4>4 DEF Serial
    <3>3. CASE Current(r) /\ Others(r) /\ Telling(r)
      <4>1. Current(r)'
        BY <2>1, <3>1, <3>3 DEF Current, Telling, NoToast
      <4> QED  BY <2>2, <3>3, <4>1 DEF Serial
    <3> QED  BY <3>1, <3>2, <3>3, OneStage
  <2> QED  BY <1>3, <2>3, <2>4, <2>5, <2>6 DEF WatcherStep
<1>4. CASE RunPosted
  <2>1. PICK r \in Runs : Current(r) /\ Others(r) /\ queue # <<>>
    BY <1>4 DEF RunPosted, Serial, Quiet
  <2>2. UNCHANGED <<worker, watcher>>
    BY <1>4 DEF RunPosted
  <2>3. CASE Leaving(r)
    <3>1. dialog[r] /\ queue = <<D(r)>> /\ msg = r
      BY <2>1, <2>3 DEF Leaving
    <3>2. Head(queue) = D(r) /\ queue' = <<>>
      BY <1>4, <3>1, ShortQueues DEF RunPosted
    <3>3. dialog' = [dialog EXCEPT ![r] = FALSE] /\ UNCHANGED <<msg, shown>>
      BY <1>4, <3>2 DEF RunPosted, D
    <3>4. Current(r)'
      BY <2>1, <2>2, <2>3, <3>1, <3>2, <3>3 DEF Current, Leaving, TypeOK, NoToast
    <3>5. Others(r)'
      BY <2>1, <2>2, <3>3, OthersStay DEF TypeOK
    <3> QED  BY <3>4, <3>5 DEF Serial
  <2>4. CASE Telling(r) /\ dialog[r]
    <3>1. queue = <<D(r), T(r)>> /\ msg = r
      BY <2>4 DEF Telling
    <3>2. Head(queue) = D(r) /\ queue' = <<T(r)>>
      BY <1>4, <3>1, ShortQueues DEF RunPosted
    <3>3. dialog' = [dialog EXCEPT ![r] = FALSE] /\ UNCHANGED <<msg, shown>>
      BY <1>4, <3>2 DEF RunPosted, D
    <3>4. Current(r)'
      BY <2>1, <2>2, <2>4, <3>1, <3>2, <3>3 DEF Current, Telling, TypeOK, NoToast
    <3>5. Others(r)'
      BY <2>1, <2>2, <3>3, OthersStay DEF TypeOK
    <3> QED  BY <3>4, <3>5 DEF Serial
  <2>5. CASE Telling(r) /\ ~dialog[r]
    <3>1. queue = <<T(r)>> /\ msg = r
      BY <2>5 DEF Telling
    <3>2. Head(queue) = T(r) /\ queue' = <<>>
      BY <1>4, <3>1, ShortQueues DEF RunPosted
    <3>3. shown' = [shown EXCEPT ![r] = r] /\ msg' = 0 /\ UNCHANGED dialog
      BY <1>4, <3>1, <3>2 DEF RunPosted, T
    <3>4. Over(r)'
      BY <2>2, <2>5, <3>3 DEF Telling, Over, TypeOK
    <3>5. Others(r)'
      BY <2>1, <2>2, <3>3, OthersStay DEF TypeOK
    <3> QED  BY <3>2, <3>3, <3>4, <3>5 DEF Serial, Quiet, Others
  <2> QED  BY <2>1, <2>3, <2>4, <2>5 DEF Current, Working, Finished
<1>5. CASE Stopped \/ UNCHANGED vars
  BY <1>5 DEF Stopped, vars, Serial, Quiet, Current, Others, Unused, Over, Working, Finished, Leaving, Telling, NoToast
<1> QED  BY <1>1, <1>2, <1>3, <1>4, <1>5 DEF Next

(* No run is current before the first press.                                 *)
LEMMA SerialInit == Init => Serial
  BY DEF Init, Serial, Quiet, Unused

(* With no press in the gap and no early message, every toast shows the      *)
(* message of its own run, for every number of runs.                         *)
THEOREM OwnMessageShown == ASSUME Early = {}, GapTaps = FALSE PROVE Spec => []OwnMessage
<1>1. Serial => OwnMessage
  BY DEF Serial, Quiet, Others, Current, Unused, Over, OwnMessage
<1>2. TypeOK /\ Serial /\ [Next]_vars => Serial'
  BY SerialStep
<1> QED  BY <1>1, <1>2, TypeInit, TypeStep, SerialInit, PTL DEF Spec

(* And the dialog of a run is on the screen as long as its worker is.        *)
THEOREM DialogAlwaysCoversWork == ASSUME Early = {}, GapTaps = FALSE PROVE Spec => []DialogCoversWork
<1>1. Serial => DialogCoversWork
  BY DEF Serial, Quiet, Others, Current, Unused, Over, Working, Finished, Leaving, Telling, DialogCoversWork
<1>2. TypeOK /\ Serial /\ [Next]_vars => Serial'
  BY SerialStep
<1> QED  BY <1>1, <1>2, TypeInit, TypeStep, SerialInit, PTL DEF Spec

-----------------------------------------------------------------------------
(* The refinement of PatchReport's safety part.  Modulo N + 1 a toast that   *)
(* has not been shown counts as 0, and a run's number as itself.             *)
PhaseF   == [r \in Runs |-> Phase(r)]
MessageF == [r \in Runs |-> shown[r] % (N + 1)]
LEMMA ToastNumbers == NoToast % (N + 1) = 0 /\ \A r \in Runs : r % (N + 1) = r
<1>1. N \in Nat /\ N + 1 > 0
  BY NAssumption
<1>2. (N + 1) % (N + 1) = 0
  BY <1>1
<1>3. ASSUME NEW r \in Runs PROVE r % (N + 1) = r
  BY <1>1 DEF Runs
<1> QED  BY <1>2, <1>3 DEF NoToast

(* A step that moves one run's phase moves the mapped phases at that place.  *)
LEMMA MappedPhase ==
    ASSUME NEW r \in Runs, NEW to, Phase(r)' = to, \A q \in Runs \ {r} : Phase(q)' = Phase(q)
    PROVE  PhaseF' = [PhaseF EXCEPT ![r] = to]
  BY DEF PhaseF, Runs

(* The phases of a run that is not current.                                  *)
LEMMA RestingPhases ==
    ASSUME NEW q \in Runs
    PROVE  (Unused(q) => Phase(q) = "none") /\ (Over(q) => Phase(q) = "told")
  BY NAssumption DEF Phase, Unused, Over, NoToast, Runs

(* The initial states of the threads are initial states of the promise.      *)
LEMMA ReportInit == Init => Report!Init
<1> SUFFICES ASSUME Init PROVE Report!Init
  OBVIOUS
<1>1. \A r \in Runs : Phase(r) = "none" /\ shown[r] % (N + 1) = 0
  BY ToastNumbers DEF Init, Phase
<1> QED  BY <1>1 DEF Report!Init, Runs

(* What the mapped variables do when one run moves on without a message.     *)
LEMMA MappedMove ==
    ASSUME NEW r \in Runs, NEW from, NEW to, Phase(r) = from, Phase(r)' = to,
           \A q \in Runs \ {r} : Phase(q)' = Phase(q)
    PROVE  Report!Move(r, from, to)
<1>1. PhaseF' = [PhaseF EXCEPT ![r] = to] /\ PhaseF[r] = from
  BY MappedPhase DEF PhaseF
<1> QED  BY <1>1 DEF Report!Move, PhaseF

(* A press of Patch starts a run in the promise: the runs before it are told.*)
LEMMA StartMapped ==
    ASSUME TypeOK, Serial, GapTaps = FALSE, NEW r \in Runs, NEW s \in BOOLEAN, Apply(r, s)
    PROVE  Report!Start(r)
<1>1. Quiet
  BY PressedWhenQuiet
<1>2. ASSUME NEW q \in Runs PROVE Phase(q) = IF q < r THEN "told" ELSE "none"
  <2>1. q < r <=> q \in Started
    BY NAssumption DEF Apply, Runs
  <2>2. q \in Started => Over(q)
    BY <1>1 DEF Quiet, Started, Unused
  <2>3. q \notin Started => Unused(q)
    BY <1>1 DEF Quiet, Started, Over
  <2> QED  BY <2>1, <2>2, <2>3, RestingPhases
<1>3. Phase(r) = "none" /\ Phase(r)' = "working"
  <2>1. Phase(r) = "none"
    BY <1>2, NAssumption DEF Runs
  <2> QED  BY <2>1 DEF Apply, Phase, TypeOK
<1>4. \A q \in Runs \ {r} : Phase(q)' = Phase(q)
  BY DEF Apply, Phase, TypeOK, NoToast
<1>5. Report!Move(r, "none", "working")
  BY <1>3, <1>4, MappedMove
<1>6. \A q \in 1 .. N : PhaseF[q] = IF q < r THEN "told" ELSE "none"
  BY <1>2 DEF PhaseF, Runs
<1>7. UNCHANGED MessageF
  BY DEF Apply, MessageF
<1> QED  BY <1>5, <1>6, <1>7 DEF Report!Start, PhaseF, MessageF

(* A worker's last statement ends the patching.                              *)
LEMMA DoneMapped ==
    ASSUME TypeOK, Serial, NEW r \in Runs, Finish(r) PROVE Report!Done(r)
<1>1. Working(r)
  BY OneStage DEF Finish, Work
<1>2. Phase(r) = "working" /\ Phase(r)' = "done"
  BY <1>1 DEF Working, Finish, Work, Phase, TypeOK
<1>3. \A q \in Runs \ {r} : Phase(q)' = Phase(q)
  BY DEF Finish, Work, Phase, TypeOK, NoToast
<1>4. UNCHANGED MessageF
  BY DEF Finish, Work, MessageF
<1> QED  BY <1>2, <1>3, <1>4, MappedMove DEF Report!Done, MessageF

(* The oldest runnable is the current run's: it frees the screen or it tells *)
(* the result.                                                               *)
LEMMA PostedMapped ==
    ASSUME TypeOK, Serial, RunPosted
    PROVE  \E r \in Runs : Report!Free(r) \/ Report!Tell(r)
<1>1. PICK r \in Runs : Current(r) /\ queue # <<>>
  BY DEF RunPosted, Serial, Quiet
<1>2. (Leaving(r) \/ Telling(r)) /\ worker[r] = "done" /\ msg = r /\ shown[r] = NoToast
  BY <1>1 DEF Current, Working, Finished, Leaving, Telling
<1>3. CASE dialog[r]
  <2>1. Head(queue) = D(r)
    BY <1>1, <1>2, <1>3, ShortQueues DEF Leaving, Telling
  <2>2. dialog' = [dialog EXCEPT ![r] = FALSE] /\ UNCHANGED <<shown, worker>>
    BY <2>1 DEF RunPosted, D
  <2>3. Phase(r) = "done" /\ Phase(r)' = "freed"
    BY <1>2, <1>3, <2>2 DEF Phase, TypeOK, NoToast
  <2>4. \A q \in Runs \ {r} : Phase(q)' = Phase(q)
    BY <2>2 DEF Phase, TypeOK, NoToast
  <2>5. UNCHANGED MessageF
    BY <2>2 DEF MessageF
  <2> QED  BY <2>3, <2>4, <2>5, MappedMove DEF Report!Free, MessageF
<1>4. CASE ~dialog[r]
  <2>1. Head(queue) = T(r)
    BY <1>1, <1>2, <1>4, ShortQueues DEF Leaving, Telling
  <2>2. shown' = [shown EXCEPT ![r] = r] /\ UNCHANGED <<dialog, worker>>
    BY <1>2, <2>1 DEF RunPosted, T
  <2>3. Phase(r) = "freed" /\ Phase(r)' = "told"
    BY <1>2, <1>4, <2>2, NAssumption DEF Phase, TypeOK, NoToast, Runs
  <2>4. \A q \in Runs \ {r} : Phase(q)' = Phase(q)
    BY <2>2 DEF Phase, TypeOK, NoToast
  <2>5. MessageF' = [MessageF EXCEPT ![r] = r]
    <3>1. \A q \in Runs : shown'[q] % (N + 1) = IF q = r THEN r ELSE shown[q] % (N + 1)
      BY <2>2, ToastNumbers DEF TypeOK
    <3> QED  BY <3>1 DEF MessageF
  <2> QED  BY <2>3, <2>4, <2>5, MappedMove DEF Report!Tell, MessageF
<1> QED  BY <1>3, <1>4

(* Every step of the threads is a step of the promise, or leaves it alone.   *)
LEMMA ReportStep ==
    Early = {} /\ GapTaps = FALSE /\ TypeOK /\ Serial /\ [Next]_vars => [Report!Next]_(Report!rvars)
<1> SUFFICES ASSUME Early = {}, GapTaps = FALSE, TypeOK, Serial, [Next]_vars
             PROVE  Report!Next \/ UNCHANGED <<PhaseF, MessageF>>
  BY DEF PhaseF, MessageF, Report!rvars
<1>n. \A r \in Runs : Report!Start(r) \/ Report!Done(r) \/ Report!Free(r) \/ Report!Tell(r) => Report!Next
  BY DEF Report!Next, Runs
<1>s. UNCHANGED <<worker, dialog, shown>> => UNCHANGED <<PhaseF, MessageF>>
  BY DEF PhaseF, MessageF, Phase, NoToast
<1>1. ASSUME NEW r \in Runs, NEW s \in BOOLEAN, Apply(r, s) PROVE Report!Next
  BY <1>1, <1>n, StartMapped
<1>2. ASSUME NEW r \in Runs, WorkerStep(r) PROVE Report!Next
  <2>1. Finish(r)
    BY <1>2, OneStage DEF WorkerStep, SetEarly, SetAgain, Work
  <2> QED  BY <2>1, <1>n, DoneMapped
<1>3. ASSUME NEW r \in Runs, WatcherStep(r) PROVE UNCHANGED <<PhaseF, MessageF>>
  BY <1>3, <1>s DEF WatcherStep, Poll, Dismiss, Post, CheckNag, CountNag, Watch
<1>4. CASE RunPosted
  BY <1>4, <1>n, PostedMapped
<1>5. CASE Stopped \/ UNCHANGED vars
  BY <1>5, <1>s DEF Stopped, vars
<1> QED  BY <1>1, <1>2, <1>3, <1>4, <1>5 DEF Next

(* The threads, the queue and Globals.msg implement the safety part of what  *)
(* PatchReport promises: one run at a time, dialog, work, dismissal and the  *)
(* run's own message in that order, and no message twice.                    *)
THEOREM ImplementsReport == ASSUME Early = {}, GapTaps = FALSE PROVE Spec => Report!Safety
<1>1. TypeOK /\ Serial /\ [Next]_vars => Serial'
  BY SerialStep
<1>2. TypeOK /\ Serial /\ [Next]_vars => [Report!Next]_(Report!rvars)
  BY ReportStep
<1> QED  BY <1>1, <1>2, TypeInit, TypeStep, SerialInit, ReportInit, PTL DEF Spec, Report!Safety
=============================================================================
