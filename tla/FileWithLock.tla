---------------------------- MODULE FileWithLock ----------------------------
(* The edit lock of a file of the DS file system (FileWithLock.java) and the *)
(* two writers it guards (PhysicalFile.replace and replaceInterval): a file  *)
(* is edited as a whole by one editor, or in disjoint intervals.  A call     *)
(* that throws changes nothing.  replace accepts null as its editor when     *)
(* nobody edits the whole file, whatever intervals are open; endEdit rejects *)
(* null.  beginEdit(null), which no caller does, is left out.                *)
EXTENDS Naturals

CONSTANTS Editors,    \* the objects passed as editor
          Null,       \* Java's null
          MaxSize,    \* bound: largest file
          MaxOpen     \* bound: how often one interval is opened at a time
ASSUME EditorsAssumption == Null \notin Editors
ASSUME SizeAssumption    == MaxSize \in Nat /\ MaxOpen \in Nat

Offsets   == 0 .. MaxSize
Intervals == Offsets \X Offsets     \* <<start, end>>, end excluded
NoWrite   == <<MaxSize + 1, 0>>

VARIABLES fileSize,         \* fileSizeP
          editedBy,
          editedIntervals,  \* [Intervals -> Nat], how often each is in the list
          editions,         \* calls of startEdition minus calls of endEdition
          written,          \* history: the interval written last
          unlocked          \* history: the intervals that were open when
                            \* replace(data, null) went through
vars == <<fileSize, editedBy, editedIntervals, editions, written, unlocked>>

NoIntervals == \A i \in Intervals : editedIntervals[i] = 0
Open(i)     == editedIntervals[i] > 0
Overlap(i, j) == i[1] < j[2] /\ j[1] < i[2]
\* validateInterval
Valid(i)    == i[1] <= i[2] /\ i[2] <= fileSize

isAGoodEditor(e) == e = editedBy

Init == /\ fileSize \in Offsets /\ editedBy = Null /\ editions = 0
        /\ editedIntervals = [i \in Intervals |-> 0]
        /\ written = NoWrite /\ unlocked = {}

beginEdit(e) ==
    /\ editedBy = Null /\ NoIntervals
    /\ editions' = editions + 1 /\ editedBy' = e
    /\ UNCHANGED <<fileSize, editedIntervals, written, unlocked>>

endEditAny(e) ==                                 \* mutant: any editor
    /\ editions' = editions - 1 /\ editedBy' = Null
    /\ UNCHANGED <<fileSize, editedIntervals, written, unlocked>>

endEdit(e) ==
    /\ e = editedBy
    /\ editions' = editions - 1 /\ editedBy' = Null
    /\ UNCHANGED <<fileSize, editedIntervals, written, unlocked>>

beginEditHalfTest(i) ==                          \* mutant: only the start is tested
    /\ Valid(i) /\ editedBy = Null
    /\ \A j \in Intervals : Open(j) => ~(j[1] <= i[1] /\ i[1] < j[2])
    /\ editedIntervals[i] < MaxOpen
    /\ editedIntervals' = [editedIntervals EXCEPT ![i] = @ + 1]
    /\ editions' = IF NoIntervals THEN editions + 1 ELSE editions
    /\ UNCHANGED <<fileSize, editedBy, written, unlocked>>

beginEditInterval(i) ==
    /\ Valid(i) /\ editedBy = Null
    /\ \A j \in Intervals : Open(j) => ~Overlap(j, i)
    /\ editedIntervals[i] < MaxOpen
    /\ editedIntervals' = [editedIntervals EXCEPT ![i] = @ + 1]
    /\ editions' = IF NoIntervals THEN editions + 1 ELSE editions
    /\ UNCHANGED <<fileSize, editedBy, written, unlocked>>

endEditEach(i) ==                                \* mutant: endEdition every time
    /\ Valid(i) /\ Open(i)
    /\ editedIntervals' = [editedIntervals EXCEPT ![i] = @ - 1]
    /\ editions' = editions - 1
    /\ unlocked' = {j \in unlocked : editedIntervals'[j] > 0}
    /\ UNCHANGED <<fileSize, editedBy, written>>

endEditInterval(i) ==
    /\ Valid(i) /\ Open(i)
    /\ editedIntervals' = [editedIntervals EXCEPT ![i] = @ - 1]
    /\ editions' = IF \A j \in Intervals : editedIntervals'[j] = 0 THEN editions - 1 ELSE editions
    /\ unlocked' = {j \in unlocked : editedIntervals'[j] > 0}
    /\ UNCHANGED <<fileSize, editedBy, written>>

unlockedBy(e) == IF e = Null THEN {i \in Intervals : Open(i)} ELSE {}

replaceAny(e, n) ==                              \* mutant: the editor is not checked
    /\ fileSize' = n /\ written' = <<0, n>>
    /\ unlocked' = unlocked \cup unlockedBy(e)
    /\ UNCHANGED <<editedBy, editedIntervals, editions>>

\* PhysicalFile.replace: the whole file, which may change its size.
replace(e, n) ==
    /\ isAGoodEditor(e)
    /\ fileSize' = n /\ written' = <<0, n>>
    /\ unlocked' = unlocked \cup unlockedBy(e)
    /\ UNCHANGED <<editedBy, editedIntervals, editions>>

replaceNear(i) ==                                \* mutant: touching an open interval is enough
    /\ Valid(i) /\ (editedBy # Null \/ \E j \in Intervals : Open(j) /\ Overlap(i, j))
    /\ written' = i
    /\ UNCHANGED <<fileSize, editedBy, editedIntervals, editions, unlocked>>

\* PhysicalFile.replaceInterval: an interval that is open exactly as given,
\* or any one while the file is edited as a whole.
replaceInterval(i) ==
    /\ Valid(i) /\ (Open(i) \/ editedBy # Null)
    /\ written' = i
    /\ UNCHANGED <<fileSize, editedBy, editedIntervals, editions, unlocked>>

Next == \/ \E e \in Editors : beginEdit(e) \/ endEdit(e)
        \/ \E e \in Editors \cup {Null}, n \in Offsets : replace(e, n)
        \/ \E i \in Intervals : beginEditInterval(i) \/ endEditInterval(i) \/ replaceInterval(i)
Spec == Init /\ [][Next]_vars

-----------------------------------------------------------------------------
\* Every variable keeps its type; the hooks are never closed more than opened.
TypeOK == /\ fileSize \in Offsets /\ editedBy \in Editors \cup {Null}
          /\ editedIntervals \in [Intervals -> Nat] /\ editions \in Nat
          /\ written \in Intervals \cup {NoWrite}
          /\ unlocked \in SUBSET Intervals

(* FileWithLock.java, "Invariants: editedBy == null ||                       *)
(* editedIntervals.count == 0; No two intervals in editedIntervals have      *)
(* intersection" (the same interval twice is two intervals).                 *)
LockInvariants ==
    /\ editedBy = Null \/ NoIntervals
    /\ \A i, j \in Intervals : Open(i) /\ Open(j) /\ i # j => ~Overlap(i, j)
    /\ \A i \in Intervals : editedIntervals[i] > 1 => ~Overlap(i, i)

(* An open interval can be closed: validateInterval, run again by            *)
(* endEditInterval against the current size, rejects it only if the whole    *)
(* file was replaced while it was open, and only replace(data, null) does    *)
(* that.  A replace by an editor never shrinks the file below an interval.   *)
OpenCanClose == \A i \in Intervals : Open(i) /\ i \notin unlocked => Valid(i)

(* startEdition and endEdition bracket every edit: between the calls the     *)
(* file is locked in one way or the other, outside them it is not.           *)
EditionsBracketed == editions = IF editedBy = Null /\ NoIntervals THEN 0 ELSE 1

(* A write touches no open interval, except the one that is its own range    *)
(* and, when it is replace(data, null), all of them.  The code keeps no      *)
(* owner of an interval: whoever names the range of an open one may write it.*)
WritesRespectIntervals ==
    [][written' # written =>
         \A j \in Intervals : Open(j) /\ j # written' /\ Overlap(j, written')
                             => j \in unlocked' /\ written' = <<0, fileSize'>>]_vars
=============================================================================
