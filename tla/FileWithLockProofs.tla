------------------------- MODULE FileWithLockProofs -------------------------
(* The documented invariants of FileWithLock for every set of editors and    *)
(* every file size.                                                          *)
EXTENDS FileWithLock, TLAPS

LockIInv == TypeOK /\ LockInvariants /\ OpenCanClose /\ EditionsBracketed

(* Two intervals overlap or not whichever is named first.                    *)
LEMMA OverlapSymmetric == \A i, j \in Intervals : Overlap(i, j) <=> Overlap(j, i)
  BY DEF Overlap

(* The lock starts open.                                                     *)
LEMMA LockInit == Init => LockIInv
  BY SizeAssumption
  DEF Init, LockIInv, TypeOK, LockInvariants, OpenCanClose, EditionsBracketed, NoIntervals, Open, Offsets, Intervals

(* Each operation that succeeds keeps all four invariants.                   *)
LEMMA LockStep == LockIInv /\ [Next]_vars => LockIInv'
<1> SUFFICES ASSUME LockIInv, [Next]_vars PROVE LockIInv'
  OBVIOUS
<1> USE DEF LockIInv
<1>1. ASSUME NEW e \in Editors, beginEdit(e) PROVE LockIInv'
  BY <1>1, EditorsAssumption
  DEF beginEdit, TypeOK, LockInvariants, OpenCanClose, EditionsBracketed, NoIntervals, Open, Valid
<1>2. ASSUME NEW e \in Editors, endEdit(e) PROVE LockIInv'
  BY <1>2, EditorsAssumption
  DEF endEdit, TypeOK, LockInvariants, OpenCanClose, EditionsBracketed, NoIntervals, Open, Valid
<1>3. ASSUME NEW e \in Editors, NEW n \in Offsets, replace(e, n) PROVE LockIInv'
  <2>1. NoIntervals /\ unlockedBy(e) = {}
    BY <1>3, EditorsAssumption DEF replace, isAGoodEditor, LockInvariants, unlockedBy
  <2>2. <<0, n>> \in Intervals
    BY SizeAssumption DEF Offsets, Intervals
  <2> QED  BY <1>3, <2>1, <2>2
           DEF replace, TypeOK, LockInvariants, OpenCanClose, EditionsBracketed, NoIntervals, Open, Valid
<1>4. ASSUME NEW n \in Offsets, replace(Null, n) PROVE LockIInv'
  <2>1. /\ <<0, n>> \in Intervals
        /\ \A i \in Intervals : Open(i) => i \in unlocked'
        /\ unlocked' \in SUBSET Intervals
    BY <1>4, SizeAssumption DEF replace, unlockedBy, Offsets, Intervals, TypeOK
  <2>2. OpenCanClose'
    BY <1>4, <2>1 DEF replace, OpenCanClose, Open
  <2> QED  BY <1>4, <2>1, <2>2
           DEF replace, TypeOK, LockInvariants, EditionsBracketed, NoIntervals, Open
<1>5. ASSUME NEW i \in Intervals, beginEditInterval(i) PROVE LockIInv'
  <2>1. TypeOK'
    BY <1>5 DEF beginEditInterval, TypeOK
  <2>2. /\ editedBy' = Null /\ fileSize' = fileSize
        /\ editedIntervals'[i] = editedIntervals[i] + 1
        /\ \A j \in Intervals \ {i} : editedIntervals'[j] = editedIntervals[j]
    BY <1>5 DEF beginEditInterval, TypeOK
  <2>3. \A j \in Intervals : Open(j) => ~Overlap(i, j) /\ ~Overlap(j, i)
    BY <1>5, OverlapSymmetric DEF beginEditInterval
  <2>4. LockInvariants'
    <3>1. ASSUME NEW j \in Intervals, NEW k \in Intervals, Open(j)', Open(k)', j # k PROVE ~Overlap(j, k)
      BY <2>2, <2>3, <3>1 DEF LockInvariants, Open
    <3>2. ASSUME NEW j \in Intervals, editedIntervals'[j] > 1 PROVE ~Overlap(j, j)
      <4>1. CASE j = i
        BY <2>1, <2>2, <2>3, <3>2, <4>1 DEF Open, TypeOK
      <4>2. CASE j # i
        BY <2>2, <3>2, <4>2 DEF LockInvariants
      <4> QED  BY <4>1, <4>2
    <3> QED  BY <2>2, <3>1, <3>2 DEF LockInvariants, Overlap
  <2>5. OpenCanClose'
    BY <1>5, <2>2 DEF beginEditInterval, OpenCanClose, Open, Valid
  <2>6. EditionsBracketed'
    BY <1>5, <2>2 DEF beginEditInterval, EditionsBracketed, NoIntervals, TypeOK
  <2> QED  BY <2>1, <2>4, <2>5, <2>6
<1>6. ASSUME NEW i \in Intervals, endEditInterval(i) PROVE LockIInv'
  <2>1. /\ editedBy' = editedBy /\ fileSize' = fileSize /\ written' = written
        /\ editedIntervals' \in [Intervals -> Nat]
        /\ editedIntervals'[i] = editedIntervals[i] - 1
        /\ \A j \in Intervals : editedIntervals'[j] <= editedIntervals[j]
        /\ unlocked' = {j \in unlocked : editedIntervals'[j] > 0}
    BY <1>6 DEF endEditInterval, TypeOK, Open
  <2>2. editedBy = Null /\ editions = 1
    BY <1>6 DEF endEditInterval, LockInvariants, EditionsBracketed, NoIntervals, Open
  <2>3. EditionsBracketed' /\ editions' \in Nat
    BY <1>6, <2>1, <2>2 DEF endEditInterval, EditionsBracketed, NoIntervals
  <2>4. LockInvariants'
    BY <2>1, <2>2 DEF LockInvariants, Open, TypeOK, Overlap
  <2>5. OpenCanClose'
    BY <2>1 DEF OpenCanClose, Open, Valid, TypeOK
  <2> QED  BY <2>1, <2>3, <2>4, <2>5 DEF TypeOK
<1>7. ASSUME NEW i \in Intervals, replaceInterval(i) PROVE LockIInv'
  BY <1>7
  DEF replaceInterval, TypeOK, LockInvariants, OpenCanClose, EditionsBracketed, NoIntervals, Open, Valid
<1>8. CASE UNCHANGED vars
  BY <1>8 DEF vars, TypeOK, LockInvariants, OpenCanClose, EditionsBracketed, NoIntervals, Open, Valid
<1> QED  BY <1>1, <1>2, <1>3, <1>4, <1>5, <1>6, <1>7, <1>8 DEF Next

(* Counts, interval tables and the edition count keep their types: no        *)
(* sequence of calls drives a count below zero.                              *)
THEOREM TypeCorrect == Spec => []TypeOK
<1>1. LockIInv => TypeOK
  BY DEF LockIInv
<1> QED  BY <1>1, LockInit, LockStep, PTL DEF Spec

(* FileWithLock.java's documented invariants hold in every reachable state.  *)
THEOREM LockInvariantsHold == Spec => []LockInvariants
<1>1. LockIInv => LockInvariants
  BY DEF LockIInv
<1> QED  BY <1>1, LockInit, LockStep, PTL DEF Spec

(* The file shrinks below an open interval only in replace(data, null): an   *)
(* interval over which no such call was made can always be closed.           *)
THEOREM OpenAlwaysCanClose == Spec => []OpenCanClose
<1>1. LockIInv => OpenCanClose
  BY DEF LockIInv
<1> QED  BY <1>1, LockInit, LockStep, PTL DEF Spec

(* The edition hooks bracket every edit.                                     *)
THEOREM EditionsAlwaysBracketed == Spec => []EditionsBracketed
<1>1. LockIInv => EditionsBracketed
  BY DEF LockIInv
<1> QED  BY <1>1, LockInit, LockStep, PTL DEF Spec

(* A write reaches into an open interval only as a write of exactly that     *)
(* interval, or as replace(data, null).                                      *)
THEOREM WritesAlwaysRespectIntervals == Spec => WritesRespectIntervals
<1> DEFINE Respects == \A j \in Intervals : Open(j) /\ j # written' /\ Overlap(j, written')
                                            => j \in unlocked' /\ written' = <<0, fileSize'>>
<1>1. ASSUME LockIInv, Next, written' # written PROVE Respects
  <2>1. ASSUME NEW e \in Editors \cup {Null}, NEW n \in Offsets, replace(e, n) PROVE Respects
    <3>1. CASE e = Null
      BY <2>1, <3>1 DEF replace, unlockedBy
    <3>2. CASE e # Null
      <4>1. NoIntervals
        BY <1>1, <2>1, <3>2 DEF LockIInv, replace, isAGoodEditor, LockInvariants
      <4> QED  BY <4>1 DEF NoIntervals, Open
    <3> QED  BY <3>1, <3>2
  <2>2. ASSUME NEW i \in Intervals, replaceInterval(i) PROVE Respects
    BY <1>1, <2>2 DEF LockIInv, replaceInterval, LockInvariants, NoIntervals, Open
  <2>3. \/ \E e \in Editors \cup {Null}, n \in Offsets : replace(e, n)
        \/ \E i \in Intervals : replaceInterval(i)
    BY <1>1 DEF Next, beginEdit, endEdit, beginEditInterval, endEditInterval
  <2> QED  BY <2>1, <2>2, <2>3
<1>2. LockIInv /\ [Next]_vars => [written' # written => Respects]_vars
  BY <1>1 DEF vars
<1> QED  BY <1>2, LockInit, LockStep, PTL DEF Spec, WritesRespectIntervals
=============================================================================
