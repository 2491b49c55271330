--------------------------- MODULE PatchRunProofs ---------------------------
(* What a press of Patch does to the files, for every set of patch types,    *)
(* every set of typed names and every bound on runs and extensions.          *)
EXTENDS PatchRun, TLAPS

(* The fixed names of a run are paths, and no two of them are the same.      *)
LEMMA Names ==
    /\ Rom \in Paths /\ Bak \in Paths /\ New \in Paths /\ Dir \in Paths
    /\ Patch \in Paths /\ Decoded \in Paths
    /\ Rom # Bak /\ Rom # New /\ Rom # Dir /\ Rom # Decoded /\ Bak # New /\ Bak # Dir
    /\ New # Dir /\ Bak # Decoded /\ Decoded # Dir
    /\ \A t \in Texts : In(t) \in Paths /\ Beside(t) \in Paths
<1>1. /\ Rom # Bak /\ Rom # New /\ Rom # Dir /\ Rom # Decoded /\ Bak # New /\ Bak # Dir
      /\ New # Dir /\ Bak # Decoded /\ Decoded # Dir
  BY DEF Rom, Bak, New, Dir, Decoded, In
<1>2. {0, 1} \subseteq 0 .. MaxExts
  BY BoundAssumption
<1>3. Dir \in Paths
  BY <1>2 DEF Dir, In, Paths, Texts, Bases
<1>4. /\ Rom \in Paths /\ Bak \in Paths /\ New \in Paths /\ Patch \in Paths /\ Decoded \in Paths
  BY <1>2 DEF Rom, Bak, New, Patch, Decoded, In, Paths, Texts, Bases
<1>5. ASSUME NEW t \in Texts PROVE In(t) \in Paths /\ Beside(t) \in Paths
  BY <1>3 DEF In, Beside, Paths
<1> QED  BY <1>1, <1>3, <1>4, <1>5

(* java.io.File.renameTo keeps the shape of the file system.                 *)
LEMMA RenameType ==
    ASSUME NEW f \in [Paths -> Nat], f[Dir] = Absent, NEW p \in Paths, NEW q \in Paths
    PROVE  renameTo(f, p, q) \in [Paths -> Nat] /\ renameTo(f, p, q)[Dir] = Absent
  BY Names DEF renameTo, Absent

(* Deleting or writing one file does, too.                                   *)
LEMMA WriteType ==
    ASSUME NEW f \in [Paths -> Nat], f[Dir] = Absent, NEW p \in Paths, NEW x \in Nat
    PROVE  /\ Delete(f, p) \in [Paths -> Nat] /\ Delete(f, p)[Dir] = Absent
           /\ p # Dir => [f EXCEPT ![p] = x] \in [Paths -> Nat] /\ [f EXCEPT ![p] = x][Dir] = Absent
  BY DEF Delete, Absent

(* What a rename leaves where.                                               *)
LEMMA RenameEffect ==
    ASSUME NEW f \in [Paths -> Nat], NEW p \in Paths, NEW q \in Paths, p # q, f[p] # Absent, q # Dir
    PROVE  /\ renameTo(f, p, q)[q] = f[p] /\ renameTo(f, p, q)[p] = Absent
           /\ \A r \in Paths \ {p, q} : renameTo(f, p, q)[r] = f[r]
  BY DEF renameTo, Absent

(* Whatever a rename does, the other files stay, and a failed one changes    *)
(* nothing.                                                                  *)
LEMMA RenameFrame ==
    ASSUME NEW f \in [Paths -> Nat], NEW p \in Paths, NEW q \in Paths
    PROVE  /\ \A r \in Paths \ {p, q} : renameTo(f, p, q)[r] = f[r]
           /\ f[p] = Absent \/ q = Dir => renameTo(f, p, q) = f
  BY DEF renameTo

(* The contents a run can produce are contents.                              *)
LEMMA Contents == ASSUME TypeOK PROVE Good \in Nat /\ Bad \in Nat /\ runs \in Nat
  BY BoundAssumption DEF TypeOK, Good, Bad

(* The three flags stay Boolean.                                            *)
LEMMA FlagStep == ASSUME FlagsOK, Next PROVE FlagsOK'
<1> USE DEF FlagsOK
<1>1. ASSUME NEW t \in Typed, Type(t) PROVE FlagsOK'
  BY <1>1, Zenon DEF Type
<1>2. ASSUME NEW k \in Kinds, NEW c \in BOOLEAN, NEW d \in BOOLEAN, NEW e \in BOOLEAN, Apply(k, c, d, e)
      PROVE  FlagsOK'
  BY <1>2, Zenon DEF Apply
<1>3. CASE Confirm \/ Cancel
  BY <1>3, Zenon DEF Confirm, Cancel
<1>4. CASE Prepare
  BY <1>4, Zenon DEF Prepare, NotFound, Unwritable, Dispatch, Copy, PatchUnreadable, NoFileIO
<1>5. CASE PatchNew
  <2>1. failed' \in BOOLEAN
    BY <1>5, Zenon DEF PatchNew
  <2> QED  BY <1>5, <2>1, Zenon DEF PatchNew
<1>6. CASE PatchInPlace \/ IpsReject \/ IpsBackup
  BY <1>6, Zenon DEF PatchInPlace, IpsReject, IpsBackup
<1>7. CASE EcmDecode
  <2>1. myError' \in BOOLEAN
    BY <1>7, Zenon DEF EcmDecode
  <2> QED  BY <1>7, <2>1, Zenon DEF EcmDecode
<1>8. CASE Tail
  BY <1>8, Zenon DEF Tail, NmpRename1, NmpRename2, Swap1, Swap2, DropBackup, KeepBackup, Rename1,
     Rename2, Report, OnlyFiles, NoFileIO
<1>9. CASE Killed
  BY <1>9, Zenon DEF Killed
<1> QED  BY <1>1, <1>2, <1>3, <1>4, <1>5, <1>6, <1>7, <1>8, <1>9 DEF Next, User, Native

(* Every step keeps every variable's type.                                   *)
LEMMA TypeStep == ASSUME OriginalIInv, Next PROVE TypeOK'
<1> USE Names DEF OriginalIInv
<1>t. TypeOK
  OBVIOUS
<1>g. Good \in Nat /\ Bad \in Nat /\ runs \in Nat
  BY <1>t, Contents
<1>f. FlagsOK'
  BY <1>t, FlagStep DEF TypeOK
<1>n. <<"", 0>> \in Texts
  <2>1. 0 \in 0 .. MaxExts
    BY BoundAssumption
  <2> QED  BY <2>1 DEF Texts, Bases
<1>o. In(opt.typed) \in Paths /\ EcmOut \in Paths
  BY <1>t DEF TypeOK, Options, EcmOut
<1>1. ASSUME NEW t \in Typed, Type(t) PROVE TypeOK'
  BY <1>t, <1>f, <1>1, TypedAssumption DEF TypeOK, Type
<1>2. ASSUME NEW k \in Kinds, NEW c \in BOOLEAN, NEW d \in BOOLEAN, NEW e \in BOOLEAN, Apply(k, c, d, e)
      PROVE  TypeOK'
  <2>1. AddExt(ed) \in Texts
    BY <1>t, <1>2, BoundAssumption DEF TypeOK, Apply, AddExt, Texts
  <2>2. opt' \in Options
    BY <1>t, <1>2, <2>1 DEF TypeOK, Apply, Options
  <2>3. ed' \in Texts /\ pc' \in Labels
    BY <1>t, <1>2, <2>1, Zenon DEF TypeOK, Apply, Goto, AppendExt, Labels
  <2>4. runs' \in 0 .. MaxRuns
    BY <1>t, <1>2, BoundAssumption DEF TypeOK, Apply
  <2> QED  BY <1>t, <1>f, <1>2, <2>2, <2>3, <2>4 DEF TypeOK, Apply
<1>3. CASE Confirm
  <2> DEFINE f0 == Delete(fs, Bak)
             f1 == Delete(f0, New)
             f2 == IF opt.kind = "ecm" THEN Delete(f1, Decoded) ELSE f1
  <2>1. AddExt(ed) \in Texts
    BY <1>t, <1>3, BoundAssumption DEF TypeOK, Confirm, AddExt, Texts
  <2>2. f0 \in [Paths -> Nat] /\ f0[Dir] = Absent
    BY <1>t, WriteType DEF TypeOK
  <2>3. f1 \in [Paths -> Nat] /\ f1[Dir] = Absent
    BY <2>2, WriteType
  <2>4. f2 \in [Paths -> Nat] /\ f2[Dir] = Absent
    BY <2>3, WriteType
  <2>5. fs' = Delete(f2, In(opt.typed))
    BY <1>3 DEF Confirm
  <2>6. fs' \in [Paths -> Nat] /\ fs'[Dir] = Absent
    <3> HIDE DEF f2
    <3> QED  BY <2>4, <2>5, <1>o, WriteType
  <2> QED  BY <1>t, <1>f, <1>3, <2>1, <2>6 DEF TypeOK, Confirm, Goto, AppendExt, Labels
<1>4. CASE Cancel \/ NotFound \/ Unwritable \/ PatchUnreadable \/ Report
  BY <1>t, <1>f, <1>4 DEF TypeOK, Cancel, NotFound, Unwritable, PatchUnreadable, Report, Finish, NoFileIO, Labels
<1>5. CASE Dispatch \/ IpsReject
  BY <1>t, <1>f, <1>5 DEF TypeOK, Dispatch, IpsReject, Goto, Labels
<1>6. CASE Copy \/ IpsBackup
  <2>1. fs' \in [Paths -> Nat] /\ fs'[Dir] = Absent
    BY <1>t, <1>g, <1>6, WriteType DEF TypeOK, Copy, IpsBackup
  <2> QED  BY <1>t, <1>f, <1>6, <2>1 DEF TypeOK, Copy, IpsBackup, Goto, Labels
<1>7. CASE PatchNew
  <2>1. PICK x \in Nat : fs' = [fs EXCEPT ![New] = x]
    BY <1>t, <1>g, <1>7 DEF TypeOK, PatchNew
  <2>2. fs' \in [Paths -> Nat] /\ fs'[Dir] = Absent
    BY <1>t, <2>1, WriteType DEF TypeOK
  <2>3. made' \in Nat
    <3>1. 0 \in Nat
      OBVIOUS
    <3> QED  BY <1>g, <1>7, <3>1, Zenon DEF PatchNew
  <2> QED  BY <1>t, <1>f, <1>7, <2>2, <2>3 DEF TypeOK, PatchNew, Goto, Labels
<1>8. CASE PatchInPlace
  <2>1. PICK x \in Nat : fs' = [fs EXCEPT ![Rom] = x]
    BY <1>t, <1>g, <1>8 DEF TypeOK, PatchInPlace
  <2>2. fs' \in [Paths -> Nat] /\ fs'[Dir] = Absent
    BY <1>t, <2>1, WriteType DEF TypeOK
  <2>3. made' \in Nat
    BY <1>t, <1>g, <1>8 DEF PatchInPlace, TypeOK
  <2> QED  BY <1>t, <1>f, <1>8, <2>2, <2>3 DEF TypeOK, PatchInPlace, Goto, Labels
<1>10. CASE EcmDecode
  <2>0. fs' = fs \/ (EcmOut # Dir /\ \E x \in Nat : fs' = [fs EXCEPT ![EcmOut] = x])
    BY <1>g, <1>10, Zenon DEF EcmDecode, Exists
  <2>1. fs' \in [Paths -> Nat] /\ fs'[Dir] = Absent
    BY <1>t, <1>o, <2>0, WriteType DEF TypeOK
  <2>2. made' \in Nat
    BY <1>g, <1>10 DEF EcmDecode
  <2> QED  BY <1>t, <1>f, <1>10, <2>1, <2>2 DEF TypeOK, EcmDecode, Goto, Labels
<1>11. CASE NmpRename1 \/ NmpRename2 \/ Swap1 \/ Swap2 \/ Rename1 \/ Rename2
  <2>1. fs' \in [Paths -> Nat] /\ fs'[Dir] = Absent
    BY <1>t, <1>11, <1>o, RenameType DEF TypeOK, NmpRename1, NmpRename2, Swap1, Swap2, Rename1, Rename2
  <2> QED  BY <1>t, <1>f, <1>11, <2>1
           DEF TypeOK, NmpRename1, NmpRename2, Swap1, Swap2, Rename1, Rename2, OnlyFiles, Goto, Labels
<1>12. CASE DropBackup \/ KeepBackup
  <2>1. fs' \in [Paths -> Nat] /\ fs'[Dir] = Absent
    BY <1>t, <1>12, WriteType DEF TypeOK, DropBackup, KeepBackup
  <2> QED  BY <1>t, <1>f, <1>12, <2>1 DEF TypeOK, DropBackup, KeepBackup, OnlyFiles, Goto, Labels
<1>13. CASE Killed
  BY <1>t, <1>f, <1>n, <1>13 DEF TypeOK, Killed, Finish, Labels
<1> QED  BY <1>1, <1>2, <1>3, <1>4, <1>5, <1>6, <1>7, <1>8, <1>10, <1>11, <1>12, <1>13
         DEF Next, User, Prepare, Native, Tail

(* Each step leaves the original where WhereOriginal says.                   *)
LEMMA WhereStep == ASSUME OriginalIInv, Next, TypeOK', Preserving' PROVE WhereOriginal'
<1> USE Names
<1>t. TypeOK /\ TypeOK'
  BY DEF OriginalIInv
<1>d. fs \in [Paths -> Nat] /\ fs[Dir] = Absent /\ fs' \in [Paths -> Nat] /\ fs'[Dir] = Absent
  BY <1>t DEF TypeOK
<1>o. In(opt.typed) \in Paths /\ EcmOut \in Paths
  BY <1>t DEF TypeOK, Options, EcmOut
<1>1. ASSUME NEW t \in Typed, Type(t) PROVE WhereOriginal'
  BY <1>1 DEF OriginalIInv, Type, Idle, Preserving, IsEcm, WhereOriginal, Somewhere, Before
<1>2. ASSUME NEW k \in Kinds, NEW c \in BOOLEAN, NEW d \in BOOLEAN, NEW e \in BOOLEAN, Apply(k, c, d, e)
      PROVE  WhereOriginal'
  <2>1. fs'[Rom] = Before'
    BY <1>2 DEF Apply, Before
  <2>2. pc' = "dialog" \/ (pc' = "begin" /\ ~Exists(Bak))
    BY <1>2 DEF Apply, Goto, Conflict
  <2>3. fs' = fs
    BY <1>2 DEF Apply
  <2> QED  BY <2>1, <2>2, <2>3 DEF WhereOriginal, Exists
<1> SUFFICES ASSUME ~(\E t \in Typed : Type(t)),
                    ~(\E k \in Kinds, c, d, e \in BOOLEAN : Apply(k, c, d, e))
             PROVE  WhereOriginal'
  BY <1>1, <1>2
<1>p. opt' = opt /\ Before' = Before /\ IsEcm' = IsEcm
  BY DEF Before, IsEcm, Next, User, Prepare, Native, Tail, Confirm, Cancel, NotFound, Unwritable, Dispatch,
     Copy, PatchUnreadable, PatchNew, PatchInPlace, IpsReject, IpsBackup, EcmDecode, NmpRename1,
     NmpRename2, Swap1, Swap2, DropBackup, KeepBackup, Rename1, Rename2, Report, Killed, NoFileIO, OnlyFiles
<1>q. Preserving
  <2>1. CASE Copy \/ IpsBackup
    BY <1>p, <2>1 DEF OriginalIInv, Copy, IpsBackup, Preserving, IsEcm
  <2>2. CASE ~(Copy \/ IpsBackup)
    <3>1. copied' = copied
      BY <2>2 DEF Next, User, Prepare, Native, Tail, Confirm, Cancel, NotFound, Unwritable, Dispatch,
         PatchUnreadable, PatchNew, PatchInPlace, IpsReject, EcmDecode, NmpRename1, NmpRename2, Swap1,
         Swap2, DropBackup, KeepBackup, Rename1, Rename2, Report, Killed, NoFileIO, OnlyFiles
    <3> QED  BY <1>p, <3>1 DEF Preserving, IsEcm
  <2> QED  BY <2>1, <2>2
<1>w. WhereOriginal
  BY <1>q DEF OriginalIInv
<1>e. IsEcm => pc \in {"idle", "dialog", "begin", "ecm", "report"}
  BY DEF OriginalIInv
<1>n. In(opt.typed) # Rom /\ In(opt.typed) # Bak /\ (opt.c \/ IsEcm)
  BY <1>q DEF Preserving
<1>3. CASE Confirm
  <2>1. fs[Rom] = Before /\ pc' = "begin"
    BY <1>w, <1>3 DEF WhereOriginal, Confirm, Goto
  <2>2. fs'[Rom] = fs[Rom] /\ fs'[Bak] = Absent
    BY <1>3, <1>d, <1>o, <1>n DEF Confirm, Delete
  <2> QED  BY <1>p, <2>1, <2>2 DEF WhereOriginal
<1>4. CASE Cancel \/ NotFound \/ Unwritable \/ PatchUnreadable \/ Report \/ Killed
  <2>1. fs' = fs /\ pc' = "idle"
    BY <1>4 DEF Cancel, NotFound, Unwritable, PatchUnreadable, Report, Killed, Finish, NoFileIO
  <2>2. Somewhere
    BY <1>t, <1>w DEF WhereOriginal, Somewhere, TypeOK, Labels
  <2> QED  BY <1>p, <2>1, <2>2 DEF WhereOriginal, Somewhere
<1>5. CASE Dispatch
  <2>1. fs' = fs /\ fs[Rom] = Before /\ fs[Bak] = Absent
    BY <1>w, <1>5 DEF WhereOriginal, Dispatch
  <2>2. IsEcm \/ Before # Absent
    BY <1>5, <2>1 DEF Dispatch, FilesThere, Exists
  <2>3. \/ pc' = "ecm" /\ IsEcm
        \/ pc' = "native" /\ opt.kind \in NewKinds
        \/ pc' = "copy" \/ pc' = "ipsOpen"  \/ pc' = "tail"
    BY <1>5, <1>n DEF Dispatch, Goto, IsEcm
  <2>4. pc' # "ecm" => ~IsEcm
    BY <1>5 DEF Dispatch, Goto, IsEcm, NewKinds, CopyKinds
  <2> QED  BY <1>p, <2>1, <2>2, <2>3, <2>4 DEF WhereOriginal
<1>6. CASE Copy \/ IpsBackup
  <2>1. copied' = "ok" /\ fs' = [fs EXCEPT ![Bak] = fs[Rom]]
    BY <1>6 DEF Copy, IpsBackup, Preserving
  <2>2. fs[Rom] = Before /\ Before # Absent /\ pc' \in {"native", "ipsRecords"}
    BY <1>w, <1>6 DEF Copy, IpsBackup, WhereOriginal, Goto
  <2>3. fs'[Bak] = Before
    BY <1>d, <2>1, <2>2
  <2>4. pc' = "native" => opt.kind \notin NewKinds
    BY <1>6 DEF OriginalIInv, Copy, IpsBackup, Goto
  <2> QED  BY <1>p, <2>2, <2>3, <2>4 DEF WhereOriginal
<1>7. CASE PatchNew
  <2>1. fs[Rom] = Before /\ Before # Absent /\ pc' = "swap1"
    BY <1>w, <1>7, Zenon DEF PatchNew, WhereOriginal, Goto
  <2>2. \E x : fs' = [fs EXCEPT ![New] = x]
    BY <1>7, Zenon DEF PatchNew
  <2> QED  BY <1>p, <1>d, <2>1, <2>2 DEF WhereOriginal
<1>8. CASE PatchInPlace
  <2>1. fs[Bak] = Before /\ Before # Absent /\ pc' \in {"nmpRen1", "tail"}
    BY <1>w, <1>8 DEF PatchInPlace, WhereOriginal, Goto, CopyKinds, NewKinds
  <2>2. \E x : fs' = [fs EXCEPT ![Rom] = x]
    BY <1>d, <1>8 DEF PatchInPlace
  <2> QED  BY <1>p, <1>d, <2>1, <2>2 DEF WhereOriginal
<1>9. CASE IpsReject
  BY <1>p, <1>w, <1>9 DEF IpsReject, WhereOriginal, Goto
<1>10. CASE EcmDecode
  <2>1. fs[Rom] = Before /\ pc' = "report"
    BY <1>w, <1>10, Zenon DEF EcmDecode, WhereOriginal, Goto
  <2>2. fs' = fs \/ (fs[Rom] # Absent /\ fs[EcmOut] = Absent /\ \E x : fs' = [fs EXCEPT ![EcmOut] = x])
    BY <1>10, Zenon DEF EcmDecode, Exists
  <2>3. fs'[Rom] = Before
    BY <1>d, <1>o, <2>1, <2>2
  <2> QED  BY <1>p, <2>1, <2>3 DEF WhereOriginal, Somewhere
<1>11. CASE NmpRename1
  <2>1. fs[Bak] = Before /\ Before # Absent /\ pc' = "nmpRen2"
    BY <1>w, <1>11 DEF NmpRename1, WhereOriginal, Goto
  <2>2. fs'[Bak] = fs[Bak]
    BY <1>d, <1>o, <1>n, <1>11, RenameFrame DEF NmpRename1
  <2> QED  BY <1>p, <2>1, <2>2 DEF WhereOriginal
<1>12. CASE NmpRename2
  <2>1. fs[Bak] = Before /\ Before # Absent /\ pc' = "tail"
    BY <1>w, <1>12 DEF NmpRename2, WhereOriginal, Goto
  <2>2. fs'[Rom] = Before /\ fs'[Bak] = Absent
    BY <1>d, <1>12, <2>1, RenameEffect DEF NmpRename2
  <2> QED  BY <1>p, <2>1, <2>2 DEF WhereOriginal
<1>13. CASE Swap1
  <2>1. fs[Rom] = Before /\ Before # Absent /\ pc' = "swap2"
    BY <1>w, <1>13 DEF Swap1, WhereOriginal, Goto
  <2>2. fs'[Bak] = Before
    BY <1>d, <1>13, <2>1, RenameEffect DEF Swap1
  <2> QED  BY <1>p, <2>1, <2>2 DEF WhereOriginal
<1>14. CASE Swap2
  <2>1. fs[Bak] = Before /\ Before # Absent /\ pc' = "tail"
    BY <1>w, <1>14 DEF Swap2, WhereOriginal, Goto
  <2>2. fs'[Bak] = fs[Bak]
    BY <1>d, <1>14, RenameFrame DEF Swap2
  <2> QED  BY <1>p, <2>1, <2>2 DEF WhereOriginal
<1>15. CASE DropBackup
  BY <1>e, <1>n, <1>15 DEF DropBackup
<1>16. CASE KeepBackup
  BY <1>p, <1>w, <1>16 DEF KeepBackup, WhereOriginal, Somewhere, Goto
<1>17. CASE Rename1
  <2>1. pc' = "rename2" /\ Before # Absent /\ (fs[Bak] = Before \/ (fs[Bak] = Absent /\ fs[Rom] = Before))
    BY <1>w, <1>17 DEF Rename1, WhereOriginal, Goto
  <2>2. fs'[Bak] = fs[Bak]
    BY <1>d, <1>o, <1>n, <1>17, RenameFrame DEF Rename1
  <2>3. fs[Rom] = Before => \E p \in Paths : fs'[p] = Before
    <3>1. CASE In(opt.typed) = Dir
      BY <1>d, <1>o, <1>17, <3>1, RenameFrame DEF Rename1
    <3>2. CASE In(opt.typed) # Dir /\ fs[Rom] = Before
      <4>1. fs'[In(opt.typed)] = fs[Rom]
        BY <1>d, <1>o, <1>n, <1>17, <2>1, <3>2, RenameEffect DEF Rename1
      <4> QED  BY <1>o, <3>2, <4>1
    <3> QED  BY <3>1, <3>2
  <2> QED  BY <1>p, <2>1, <2>2, <2>3 DEF WhereOriginal, Somewhere
<1>18. CASE Rename2
  <2>1. pc' = "report" /\ Before # Absent /\ (fs[Bak] = Before \/ (fs[Bak] = Absent /\ Somewhere))
    BY <1>w, <1>18 DEF Rename2, WhereOriginal, Goto
  <2>2. CASE fs[Bak] = Before
    <3>1. fs'[Rom] = Before
      BY <1>d, <1>18, <2>1, <2>2, RenameEffect DEF Rename2
    <3> QED  BY <1>p, <2>1, <3>1 DEF WhereOriginal, Somewhere
  <2>3. CASE fs[Bak] = Absent /\ Somewhere
    <3>1. fs' = fs
      BY <1>d, <1>18, <2>3, RenameFrame DEF Rename2
    <3> QED  BY <1>p, <2>1, <2>3, <3>1 DEF WhereOriginal, Somewhere
  <2> QED  BY <2>1, <2>2, <2>3
<1> QED  BY <1>3, <1>4, <1>5, <1>6, <1>7, <1>8, <1>9, <1>10, <1>11, <1>12, <1>13, <1>14, <1>15, <1>16,
            <1>17, <1>18 DEF Next, User, Prepare, Native, Tail

(* The strengthened invariant is inductive.                                  *)
LEMMA IInvStep == OriginalIInv /\ [Next]_vars => OriginalIInv'
<1>1. CASE OriginalIInv /\ Next
  <2>1. TypeOK'
    BY <1>1, TypeStep
  <2>2. /\ (pc = "dialog" => ed[2] < MaxExts)'
        /\ (pc \in {"dialog", "begin", "copy", "ipsOpen"} => copied = "none")'
        /\ (pc = "copy" => opt.kind \notin NewKinds)'
        /\ (IsEcm => pc \in {"idle", "dialog", "begin", "ecm", "report"})'
    BY <1>1, ZenonT(40) DEF OriginalIInv, IsEcm, Next, User, Prepare, Native, Tail, Confirm, Cancel, NotFound,
       Unwritable, Dispatch, Copy, PatchUnreadable, PatchNew, PatchInPlace, IpsReject, IpsBackup,
       EcmDecode, NmpRename1, NmpRename2, Swap1, Swap2, DropBackup, KeepBackup, Rename1, Rename2,
       Report, Killed, NoFileIO, OnlyFiles, Goto, Finish, Type, Apply, Idle, NewKinds, CopyKinds
  <2> QED  BY <1>1, <2>1, <2>2, WhereStep DEF OriginalIInv
<1>2. CASE OriginalIInv /\ UNCHANGED vars
  BY <1>2 DEF OriginalIInv, vars, TypeOK, FlagsOK, IsEcm, Preserving, WhereOriginal, Somewhere, Before
<1> QED  BY <1>1, <1>2

(* It holds before the first press of Patch.                                 *)
LEMMA IInvInit == Init => OriginalIInv
<1> SUFFICES ASSUME Init PROVE OriginalIInv
  OBVIOUS
<1> USE Names
<1>1. fs \in [Paths -> Nat] /\ fs[Dir] = Absent
  <2>1. PICK L \in SUBSET Leftovers :
          fs = [p \in Paths |-> IF p = Rom THEN 1 ELSE IF p \in L \cup {Patch} THEN 2 ELSE Absent]
    BY DEF Init
  <2>2. Dir \notin L /\ Dir # Patch
    BY DEF Leftovers, Dir, Patch, Bak, In
  <2> QED  BY <2>1, <2>2 DEF Absent
<1>2. <<"", 0>> \in Texts /\ In(<<"", 0>>) = Dir
  <2>1. 0 \in 0 .. MaxExts
    BY BoundAssumption
  <2> QED  BY <2>1 DEF Texts, Bases, Dir
<1>3. PICK k \in Kinds : opt = [kind |-> k, c |-> TRUE, d |-> FALSE, e |-> FALSE,
                                typed |-> <<"", 0>>, old |-> fs]
  BY Zenon DEF Init
<1>4. opt \in Options
  BY <1>1, <1>2, <1>3 DEF Options
<1>5. FlagsOK
  BY Zenon DEF Init, FlagsOK
<1>6. TypeOK
  <2>1. runs \in 0 .. MaxRuns /\ made \in Nat
    <3>1. runs = 0 /\ made = 0
      BY Zenon DEF Init
    <3> QED  BY <3>1, BoundAssumption
  <2>2. ed \in Texts /\ pc \in Labels /\ copied \in {"none", "ok", "bad"}
        /\ outcome \in {"none", "success", "error", "fnf", "killed", "canceled"}
    BY <1>2, Zenon DEF Init, Labels
  <2> QED  BY <1>1, <1>4, <1>5, <2>1, <2>2 DEF TypeOK
<1>7. Somewhere
  BY <1>3 DEF Somewhere, Before
<1>8. pc = "idle"
  BY Zenon DEF Init
<1> QED  BY <1>6, <1>7, <1>8 DEF OriginalIInv, IsEcm, WhereOriginal

(* Every behaviour of the specification keeps the types of its variables.    *)
THEOREM TypeCorrect == Spec => []TypeOK
<1>1. OriginalIInv => TypeOK
  BY DEF OriginalIInv
<1> QED  BY <1>1, IInvInit, IInvStep, PTL DEF Spec

(* The strengthened invariant says where the original is.                    *)
LEMMA SurvivesFromIInv == OriginalIInv => OriginalSurvives
  BY Names DEF OriginalIInv, OriginalSurvives, Preserving, WhereOriginal, Somewhere, TypeOK, Labels

(* With a backup asked for, no step of patch(), no native failure and no     *)
(* process death loses the original (MainActivity.patch, worker thread).     *)
THEOREM OriginalAlwaysSurvives == Spec => []OriginalSurvives
  BY SurvivesFromIInv, IInvInit, IInvStep, PTL DEF Spec

-----------------------------------------------------------------------------
(* OnlyAskedOverwrites: when no question was asked, none of the names that   *)
(* the worker writes without a test of its own was taken when Patch was      *)
(* pressed.                                                                  *)
NamesWereFree == opt.old[Bak] = Absent /\ opt.old[New] = Absent /\ (Renames => opt.old[In(opt.typed)] = Absent)
AskedIInv == /\ pc = "nmpRen1" => Renames
             /\ pc = "dialog" => fs = opt.old
             /\ ~asked /\ pc \notin {"idle", "dialog"} => NamesWereFree
             /\ OnlyAskedOverwrites

\* One press of Patch.
Pressed == \E k \in Kinds, c, d, e \in BOOLEAN : Apply(k, c, d, e)

(* A run keeps what it was started with.                                     *)
LEMMA SameRun == ASSUME Next, ~Pressed PROVE opt' = opt /\ runs' = runs
  BY DEF Pressed, Next, User, Prepare, Native, Tail, Type, Confirm, Cancel, NotFound, Unwritable,
     Dispatch, Copy, PatchUnreadable, PatchNew, PatchInPlace, IpsReject, IpsBackup, EcmDecode,
     NmpRename1, NmpRename2, Swap1, Swap2, DropBackup, KeepBackup, Rename1, Rename2, Report, Killed,
     NoFileIO, OnlyFiles

(* Only the answer to the dialog sets asked.                                 *)
LEMMA SameAnswer == ASSUME Next, ~Pressed, ~Confirm PROVE asked' = asked
  BY DEF Pressed, Next, User, Prepare, Native, Tail, Type, Cancel, NotFound, Unwritable,
     Dispatch, Copy, PatchUnreadable, PatchNew, PatchInPlace, IpsReject, IpsBackup, EcmDecode,
     NmpRename1, NmpRename2, Swap1, Swap2, DropBackup, KeepBackup, Rename1, Rename2, Report, Killed,
     NoFileIO, OnlyFiles

(* A step of the worker that was not preceded by a question changes only the *)
(* ROM, names that were free, and an .ecm output that does not exist.        *)
LEMMA Touched ==
    ASSUME TypeOK, AskedIInv, Next, ~Pressed, ~Confirm, ~asked,
           NEW p \in Paths, p # Rom, opt.old[p] # Absent
    PROVE  fs'[p] = fs[p]
<1> USE Names
<1>t. fs \in [Paths -> Nat] /\ In(opt.typed) \in Paths /\ EcmOut \in Paths
  BY DEF TypeOK, Options, EcmOut
<1>f. pc \notin {"idle", "dialog"} => NamesWereFree
  BY DEF AskedIInv
<1>k. fs[p] # Absent
  BY DEF AskedIInv, OnlyAskedOverwrites
<1>1. CASE fs' = fs
  BY <1>1
<1>2. CASE \E q \in {Bak, New} : \E x : fs' = [fs EXCEPT ![q] = x] /\ pc \notin {"idle", "dialog"}
  BY <1>2, <1>t, <1>f DEF NamesWereFree
<1>3. CASE \E x : fs' = [fs EXCEPT ![Rom] = x]
  BY <1>3, <1>t
<1>4. CASE EcmDecode
  <2>1. fs' = fs \/ (fs[EcmOut] = Absent /\ \E x : fs' = [fs EXCEPT ![EcmOut] = x])
    BY <1>4, Zenon DEF EcmDecode, Exists
  <2> QED  BY <2>1, <1>t, <1>k
<1>5. CASE \E a \in {Bak, New} : /\ pc \notin {"idle", "dialog"}
                                 /\ fs' = renameTo(fs, a, Rom) \/ fs' = renameTo(fs, Rom, a)
  BY <1>5, <1>t, <1>f, RenameFrame, SMTT(20) DEF NamesWereFree
<1>6. CASE NmpRename1 \/ Rename1
  <2>1. fs' = renameTo(fs, Rom, In(opt.typed)) /\ pc \notin {"idle", "dialog"} /\ Renames
    BY <1>6 DEF NmpRename1, Rename1, AskedIInv
  <2> QED  BY <2>1, <1>t, <1>f, RenameFrame DEF NamesWereFree
<1>7. CASE Copy \/ IpsBackup \/ PatchNew \/ DropBackup
  <2>1. pc \notin {"idle", "dialog"}
    BY <1>7 DEF Copy, IpsBackup, PatchNew, DropBackup
  <2>2. \E q \in {Bak, New} : \E x : fs' = [fs EXCEPT ![q] = x]
    BY <1>7, Zenon DEF Copy, IpsBackup, PatchNew, DropBackup, Delete
  <2> QED  BY <1>2, <2>1, <2>2
<1>8. CASE PatchInPlace
  BY <1>1, <1>3, <1>8 DEF PatchInPlace
<1>9. CASE NmpRename2 \/ Swap1 \/ Swap2 \/ Rename2
  <2>1. pc \notin {"idle", "dialog"}
    BY <1>9 DEF NmpRename2, Swap1, Swap2, Rename2
  <2> QED  BY <1>5, <1>9, <2>1 DEF NmpRename2, Swap1, Swap2, Rename2
<1>10. \/ fs' = fs \/ EcmDecode \/ NmpRename1 \/ Rename1 \/ Copy \/ IpsBackup \/ PatchNew \/ DropBackup
       \/ PatchInPlace \/ NmpRename2 \/ Swap1 \/ Swap2 \/ Rename2
  BY DEF Pressed, Next, User, Prepare, Native, Tail, Type, Cancel, NotFound, Unwritable, Dispatch,
     PatchUnreadable, IpsReject, KeepBackup, Report, Killed, NoFileIO, OnlyFiles
<1> QED  BY <1>1, <1>4, <1>6, <1>7, <1>8, <1>9, <1>10

(* Each step keeps the invariant.                                            *)
LEMMA AskedStep == ASSUME OriginalIInv, AskedIInv, Next PROVE AskedIInv'
<1>t. TypeOK /\ FlagsOK
  BY DEF OriginalIInv, TypeOK
<1>1. ASSUME NEW k \in Kinds, NEW c \in BOOLEAN, NEW d \in BOOLEAN, NEW e \in BOOLEAN, Apply(k, c, d, e)
      PROVE  AskedIInv'
  <2> DEFINE t == IF e THEN AddExt(ed) ELSE ed
  <2>1. opt' = [kind |-> k, c |-> c, d |-> d, e |-> e, typed |-> t, old |-> fs] /\ fs' = fs
    BY <1>1 DEF Apply
  <2>2. pc' = "dialog" \/ (pc' = "begin" /\ ~Conflict(k, c, d, t))
    BY <1>1 DEF Apply, Goto
  <2>3. opt'.old = fs /\ opt'.typed = t /\ opt'.c = c /\ opt'.d = d
    BY <2>1
  <2>4. ~Conflict(k, c, d, t) => NamesWereFree'
    BY <2>3 DEF Conflict, Exists, NamesWereFree, Renames
  <2> QED  BY <2>1, <2>2, <2>3, <2>4 DEF AskedIInv, OnlyAskedOverwrites
<1>2. CASE Confirm
  <2>1. asked' = TRUE /\ pc' = "begin"
    BY <1>2 DEF Confirm, Goto
  <2> QED  BY <2>1 DEF AskedIInv, OnlyAskedOverwrites
<1>3. CASE ~Pressed /\ ~Confirm
  <2>1. opt' = opt /\ asked' = asked
    BY <1>3, SameRun, SameAnswer
  <2>2. pc' = "nmpRen1" => Renames'
    BY <1>3, <2>1 DEF AskedIInv, Pressed, Next, User, Prepare, Native, Tail, Type, Cancel, NotFound, Unwritable,
       Dispatch, Copy, PatchUnreadable, PatchNew, PatchInPlace, IpsReject, IpsBackup, EcmDecode,
       NmpRename1, NmpRename2, Swap1, Swap2, DropBackup, KeepBackup, Rename1, Rename2, Report, Killed,
       Goto, Finish, Idle, NmpRenames, Renames
  <2>3. pc' # "dialog"
    BY <1>3 DEF Pressed, Next, User, Prepare, Native, Tail, Type, Cancel, NotFound, Unwritable,
       Dispatch, Copy, PatchUnreadable, PatchNew, PatchInPlace, IpsReject, IpsBackup, EcmDecode,
       NmpRename1, NmpRename2, Swap1, Swap2, DropBackup, KeepBackup, Rename1, Rename2, Report, Killed,
       Goto, Finish, Idle
  <2>4. pc' \notin {"idle", "dialog"} => pc \notin {"idle", "dialog"}
    BY <1>3 DEF Pressed, Next, User, Prepare, Native, Tail, Type, Cancel, NotFound, Unwritable,
       Dispatch, Copy, PatchUnreadable, PatchNew, PatchInPlace, IpsReject, IpsBackup, EcmDecode,
       NmpRename1, NmpRename2, Swap1, Swap2, DropBackup, KeepBackup, Rename1, Rename2, Report, Killed,
       Goto, Finish, Idle
  <2>5. NamesWereFree => NamesWereFree'
    BY <2>1 DEF NamesWereFree, Renames
  <2>6. OnlyAskedOverwrites'
    BY <1>t, <1>3, <2>1, Touched DEF AskedIInv, OnlyAskedOverwrites
  <2> QED  BY <2>1, <2>2, <2>3, <2>4, <2>5, <2>6 DEF AskedIInv
<1> QED  BY <1>1, <1>2, <1>3 DEF Pressed

(* It holds before the first press of Patch.                                 *)
LEMMA AskedInit == Init => AskedIInv
<1> SUFFICES ASSUME Init PROVE AskedIInv
  OBVIOUS
<1>1. PICK k \in Kinds : opt = [kind |-> k, c |-> TRUE, d |-> FALSE, e |-> FALSE,
                                typed |-> <<"", 0>>, old |-> fs]
  BY Zenon DEF Init
<1>2. opt.old = fs /\ pc = "idle"
  BY <1>1, Zenon DEF Init
<1> QED  BY <1>2 DEF AskedIInv, OnlyAskedOverwrites

(* It holds where nothing changes.                                           *)
LEMMA AskedStutter == AskedIInv /\ UNCHANGED vars => AskedIInv'
  BY DEF vars, AskedIInv, OnlyAskedOverwrites, NamesWereFree, Renames

(* patchCheck asks before any file but the ROM is changed or removed, for    *)
(* every patch type and every output name.                                   *)
THEOREM OverwritesOnlyWhenAsked == Spec => []OnlyAskedOverwrites
<1>1. OriginalIInv /\ AskedIInv /\ [Next]_vars => AskedIInv'
  BY AskedStep, AskedStutter
<1>2. AskedIInv => OnlyAskedOverwrites
  BY DEF AskedIInv
<1> QED  BY <1>1, <1>2, AskedInit, IInvInit, IInvStep, PTL DEF Spec

-----------------------------------------------------------------------------
(* PatchedNeverLosesBoth: without a backup the output is the ROM once the    *)
(* swaps are done; with one, the original exists and is not empty.           *)
MadeSomewhere == \E p \in Paths : fs[p] = made
Unpatched == {"dialog", "begin", "copy", "native", "ipsOpen", "ipsRecords", "ecm"}
MadeIInv ==
    /\ pc \in Unpatched => made = 0
    /\ pc \in {"rename2", "nmpRen1", "nmpRen2"} => opt.c
    /\ pc = "ecm" => IsEcm
    /\ made # 0 /\ Preserving /\ ~IsEcm => Before # Absent
    /\ made # 0 /\ (IsEcm \/ ~opt.c) =>
         /\ MadeSomewhere
         /\ pc \in {"swap1", "swap2"} => fs[New] = made
         /\ pc = "tail" => fs[Rom] = made

(* A patcher's good output is a file.                                        *)
LEMMA GoodIsSome == ASSUME TypeOK PROVE Good \in Nat /\ Good # 0
  BY BoundAssumption DEF TypeOK, Good

(* Which steps set made, and to what.                                        *)
LEMMA MadeBy ==
    ASSUME Next, ~Pressed
    PROVE  \/ made' = made
           \/ PatchNew /\ (made' = 0 \/ (made' = Good /\ fs' = [fs EXCEPT ![New] = Good]))
           \/ PatchInPlace /\ (made' = 0 \/ (made' = Good /\ fs' = [fs EXCEPT ![Rom] = Good]))
           \/ EcmDecode /\ (made' = 0 \/ (made' = Good /\ fs' = [fs EXCEPT ![EcmOut] = Good]))
<1>1. CASE PatchNew
  BY <1>1, Zenon DEF PatchNew
<1>2. CASE PatchInPlace
  BY <1>2, Zenon DEF PatchInPlace
<1>3. CASE EcmDecode
  BY <1>3, Zenon DEF EcmDecode
<1>4. CASE ~PatchNew /\ ~PatchInPlace /\ ~EcmDecode
  BY <1>4 DEF Pressed, Next, User, Prepare, Native, Tail, Type, Confirm, Cancel, NotFound, Unwritable,
     Dispatch, Copy, PatchUnreadable, IpsReject, IpsBackup, NmpRename1, NmpRename2, Swap1, Swap2,
     DropBackup, KeepBackup, Rename1, Rename2, Report, Killed, NoFileIO, OnlyFiles
<1> QED  BY <1>1, <1>2, <1>3, <1>4

(* The first three parts: what a run's place says of its output and options.   *)
LEMMA MadePlaces ==
    ASSUME OriginalIInv, AskedIInv, MadeIInv, Next
    PROVE  /\ (pc \in Unpatched => made = 0)'
           /\ (pc \in {"rename2", "nmpRen1", "nmpRen2"} => opt.c)'
           /\ (pc = "ecm" => IsEcm)'
  BY DEF IsEcm, AskedIInv, MadeIInv, Unpatched, Next, User, Prepare, Native, Tail, Type, Apply, Confirm, Cancel,
     NotFound, Unwritable, Dispatch, Copy, PatchUnreadable, PatchNew, PatchInPlace, IpsReject, IpsBackup,
     EcmDecode, NmpRename1, NmpRename2, Swap1, Swap2, DropBackup, KeepBackup, Rename1, Rename2, Report,
     Killed, NoFileIO, OnlyFiles, Goto, Finish, Idle, NmpRenames, Renames

(* The original that a run with a backup patched was not empty.              *)
LEMMA MadeFromSome ==
    ASSUME OriginalIInv, MadeIInv, Next, made' # 0, Preserving', ~IsEcm'
    PROVE  Before' # Absent
<1>1. ~Pressed
  BY DEF Pressed, Apply
<1>2. opt' = opt /\ Before' = Before /\ ~IsEcm
  BY <1>1, SameRun DEF Before, IsEcm
<1>3. Preserving
  <2>1. copied' = copied \/ pc \in {"copy", "ipsOpen"}
    BY <1>1 DEF Pressed, Next, User, Prepare, Native, Tail, Type, Confirm, Cancel, NotFound, Unwritable,
       Dispatch, Copy, PatchUnreadable, PatchNew, PatchInPlace, IpsReject, IpsBackup, EcmDecode,
       NmpRename1, NmpRename2, Swap1, Swap2, DropBackup, KeepBackup, Rename1, Rename2, Report, Killed,
       NoFileIO, OnlyFiles
  <2>2. pc \in {"copy", "ipsOpen"} => copied = "none"
    BY DEF OriginalIInv
  <2> QED  BY <1>2, <2>1, <2>2 DEF Preserving, IsEcm
<1>4. CASE made' = made
  BY <1>2, <1>3, <1>4 DEF MadeIInv
<1>5. CASE PatchNew \/ PatchInPlace
  <2>1. pc \in {"native", "ipsRecords"}
    BY <1>5, Zenon DEF PatchNew, PatchInPlace
  <2> QED  BY <1>2, <1>3, <2>1 DEF OriginalIInv, WhereOriginal
<1>6. CASE EcmDecode
  BY <1>2, <1>6, Zenon DEF EcmDecode, MadeIInv
<1> QED  BY <1>1, <1>4, <1>5, <1>6, MadeBy

(* Without a backup, or for an .ecm, the output stays in a file.             *)
LEMMA MadeStays ==
    ASSUME OriginalIInv, MadeIInv, AskedIInv, Next, TypeOK', made' # 0, IsEcm' \/ ~opt'.c
    PROVE  /\ MadeSomewhere'
           /\ pc' \in {"swap1", "swap2"} => fs'[New] = made'
           /\ pc' = "tail" => fs'[Rom] = made'
<1> USE Names
<1>t. fs \in [Paths -> Nat] /\ fs' \in [Paths -> Nat] /\ In(opt.typed) \in Paths /\ EcmOut \in Paths /\ pc \in Labels
  BY DEF OriginalIInv, TypeOK, Options, EcmOut
<1>1. ~Pressed
  BY DEF Pressed, Apply
<1>2. opt' = opt /\ (IsEcm \/ ~opt.c)
  BY <1>1, SameRun DEF IsEcm
<1>3. CASE made' # made /\ PatchNew
  <2>1. fs'[New] = made' /\ pc' = "swap1"
    BY <1>t, <1>1, <1>3, MadeBy, Zenon DEF PatchNew, Goto
  <2> QED  BY <2>1 DEF MadeSomewhere
<1>4. CASE made' # made /\ PatchInPlace
  <2>1. fs'[Rom] = made' /\ pc' \in {"nmpRen1", "tail"}
    BY <1>t, <1>1, <1>4, MadeBy, Zenon DEF PatchInPlace, Goto
  <2> QED  BY <2>1 DEF MadeSomewhere
<1>5. CASE made' # made /\ EcmDecode
  <2>1. fs'[EcmOut] = made' /\ pc' = "report"
    BY <1>t, <1>1, <1>5, MadeBy, Zenon DEF EcmDecode, Goto
  <2> QED  BY <1>t, <2>1 DEF MadeSomewhere
<1>6. CASE made' = made
  <2>1. pc \in {"idle", "report"} \/ (~IsEcm /\ ~opt.c /\ pc \in {"swap1", "swap2", "tail"})
    BY <1>t, <1>2, <1>6 DEF OriginalIInv, MadeIInv, Unpatched, Labels
  <2>2. /\ MadeSomewhere /\ (pc \in {"swap1", "swap2"} => fs[New] = made)
        /\ (pc = "tail" => fs[Rom] = made)
    BY <1>2, <1>6 DEF MadeIInv
  <2>3. CASE fs' = fs /\ pc' = "idle"
    BY <1>6, <2>2, <2>3 DEF MadeSomewhere
  <2>4. CASE Swap1
    <3>1. fs'[New] = fs[New] /\ pc = "swap1" /\ pc' = "swap2"
      BY <1>t, <2>4, RenameFrame DEF Swap1, Goto
    <3> QED  BY <1>6, <2>2, <3>1 DEF MadeSomewhere
  <2>5. CASE Swap2
    <3>1. fs[New] = made /\ fs[New] # Absent /\ pc' = "tail"
      BY <1>6, <2>2, <2>5 DEF Swap2, Absent, Goto
    <3>2. fs'[Rom] = made
      BY <1>t, <2>5, <3>1, RenameEffect DEF Swap2
    <3> QED  BY <1>6, <3>1, <3>2 DEF MadeSomewhere
  <2>6. CASE DropBackup
    <3>1. fs'[Rom] = fs[Rom] /\ fs[Rom] = made /\ pc' = "report"
      BY <1>t, <2>2, <2>6 DEF DropBackup, Delete, Goto
    <3> QED  BY <1>6, <3>1 DEF MadeSomewhere
  <2>7. (fs' = fs /\ pc' = "idle") \/ Swap1 \/ Swap2 \/ DropBackup
    BY <1>1, <2>1 DEF Pressed, Next, User, Prepare, Native, Tail, Type, Confirm, Cancel, NotFound, Unwritable,
       Dispatch, Copy, PatchUnreadable, PatchNew, PatchInPlace, IpsReject, IpsBackup, EcmDecode,
       NmpRename1, NmpRename2, KeepBackup, Rename1, Rename2, Report, Killed, NoFileIO, Finish, Idle, Renames
  <2> QED  BY <2>3, <2>4, <2>5, <2>6, <2>7
<1> QED  BY <1>1, <1>3, <1>4, <1>5, <1>6, MadeBy

(* Once a patcher has produced a good output, no later step and no death of  *)
(* the process loses both the original and the output (MainActivity.patch).  *)
THEOREM NeverLosesBoth == Spec => []PatchedNeverLosesBoth
<1>1. Init => AskedIInv /\ MadeIInv
  <2>1. Init => pc = "idle" /\ made = 0
    BY Zenon DEF Init
  <2> QED  BY <2>1, AskedInit DEF MadeIInv, Unpatched
<1>2. OriginalIInv /\ AskedIInv /\ MadeIInv /\ [Next]_vars => AskedIInv' /\ MadeIInv'
  <2>1. CASE OriginalIInv /\ AskedIInv /\ MadeIInv /\ UNCHANGED vars
    BY <2>1, AskedStutter DEF vars, MadeIInv, MadeSomewhere, Preserving, IsEcm, Before
  <2>2. CASE OriginalIInv /\ AskedIInv /\ MadeIInv /\ Next
    <3>1. AskedIInv' /\ TypeOK'
      BY <2>2, AskedStep, TypeStep
    <3> QED  BY <2>2, <3>1, MadePlaces, MadeFromSome, MadeStays DEF MadeIInv
  <2> QED  BY <2>1, <2>2
<1>3. OriginalIInv /\ MadeIInv => PatchedNeverLosesBoth
  <2> SUFFICES ASSUME OriginalIInv, MadeIInv, made # 0, copied # "bad", In(opt.typed) \notin {Rom, Bak}
               PROVE  \E p \in Paths : fs[p] \in {Before, made} \ {Absent}
    BY DEF PatchedNeverLosesBoth
  <2>1. CASE IsEcm \/ ~opt.c
    BY <2>1 DEF MadeIInv, MadeSomewhere, Absent
  <2>2. CASE ~IsEcm /\ opt.c
    <3>1. Preserving /\ Before # Absent
      BY <2>2 DEF Preserving, MadeIInv
    <3>2. OriginalSurvives
      BY SurvivesFromIInv
    <3> QED  BY <2>2, <3>1, <3>2 DEF OriginalSurvives
  <2> QED  BY <2>1, <2>2
<1> QED  BY <1>1, <1>2, <1>3, IInvInit, IInvStep, PTL DEF Spec

-----------------------------------------------------------------------------
(* SuccessLayout: where the three files are at each step of a run that has   *)
(* not failed.                                                               *)
Usable  == opt.kind \notin {"nmp", "ecm"} /\ copied # "bad" /\ In(opt.typed) \notin {Rom, Bak, New, Dir}
At(n, r, b) == fs[New] = n /\ fs[Rom] = r /\ fs[Bak] = b
Settled == /\ fs[New] = Absent
           /\ IF Renames THEN fs[In(opt.typed)] = made /\ fs[Rom] = Before /\ fs[Bak] = Absent
              ELSE fs[Rom] = made /\ fs[Bak] = IF opt.c THEN Before ELSE Absent
Layout ==
    /\ pc = "dialog" => fs[Rom] = Before
    /\ pc \in {"begin", "copy", "ipsOpen"} => At(Absent, Before, Absent)
    /\ pc = "native" => At(Absent, Before, IF opt.kind \in NewKinds THEN Absent ELSE Before)
    /\ pc = "ipsRecords" => At(Absent, Before, Before)
    /\ pc \notin {"idle", "dialog", "begin", "report"} => Before # Absent
    /\ ~failed => /\ pc = "swap1" => At(made, Before, Absent)
                  /\ pc = "swap2" => At(made, Absent, Before)
                  /\ pc = "tail" => At(Absent, made, Before)
                  /\ pc = "rename2" => At(Absent, Absent, Before) /\ fs[In(opt.typed)] = made
                  /\ pc = "report" => Settled
                  /\ pc \in {"swap1", "swap2", "tail", "rename2"} => made # 0
    /\ outcome = "success" => Settled
LayoutIInv == /\ pc # "idle" => outcome = "none"
              /\ pc = "rename2" => Renames
              /\ pc \in {"nmpRen1", "nmpRen2"} => opt.kind = "nmp"
              /\ pc = "ecm" => opt.kind = "ecm"
              /\ Usable => Layout

(* What a run's place says of its outcome and its type.                      *)
LEMMA LayoutPlaces ==
    ASSUME LayoutIInv, Next
    PROVE  /\ (pc # "idle" => outcome = "none")'
           /\ (pc = "rename2" => Renames)'
           /\ (pc \in {"nmpRen1", "nmpRen2"} => opt.kind = "nmp")'
           /\ (pc = "ecm" => opt.kind = "ecm")'
  BY DEF IsEcm, LayoutIInv, Next, User, Prepare, Native, Tail, Type, Apply, Confirm, Cancel, NotFound,
     Unwritable, Dispatch, Copy, PatchUnreadable, PatchNew, PatchInPlace, IpsReject, IpsBackup,
     EcmDecode, NmpRename1, NmpRename2, Swap1, Swap2, DropBackup, KeepBackup, Rename1, Rename2, Report,
     Killed, NoFileIO, OnlyFiles, Goto, Finish, Idle, NmpRenames, Renames

(* Each step leaves the three files where Layout says.                       *)
LEMMA LayoutStep == ASSUME OriginalIInv, LayoutIInv, Next, TypeOK', Usable' PROVE Layout'
<1> USE Names
<1>t. /\ fs \in [Paths -> Nat] /\ fs' \in [Paths -> Nat] /\ pc \in Labels /\ opt \in Options
      /\ In(opt.typed) \in Paths /\ TypeOK /\ Good # 0
  BY GoodIsSome DEF OriginalIInv, TypeOK, Options
<1>1. ASSUME NEW k \in Kinds, NEW c \in BOOLEAN, NEW d \in BOOLEAN, NEW e \in BOOLEAN, Apply(k, c, d, e)
      PROVE  Layout'
  <2>1. fs'[Rom] = Before' /\ outcome' = "none" /\ fs' = fs
    BY <1>1 DEF Apply, Before
  <2>2. pc' = "dialog" \/ (pc' = "begin" /\ ~Exists(Bak) /\ ~Exists(New))
    BY <1>1 DEF Apply, Goto, Conflict
  <2> QED  BY <2>1, <2>2 DEF Layout, At, Exists
<1> SUFFICES ASSUME ~Pressed PROVE Layout'
  BY <1>1 DEF Pressed
<1>p. opt' = opt /\ Before' = Before /\ Renames' = Renames
  BY SameRun DEF Before, Renames
<1>u. Usable
  <2>1. copied' = copied \/ pc \in {"copy", "ipsOpen"}
    BY DEF Pressed, Next, User, Prepare, Native, Tail, Type, Confirm, Cancel, NotFound, Unwritable,
       Dispatch, Copy, PatchUnreadable, PatchNew, PatchInPlace, IpsReject, IpsBackup, EcmDecode,
       NmpRename1, NmpRename2, Swap1, Swap2, DropBackup, KeepBackup, Rename1, Rename2, Report, Killed,
       NoFileIO, OnlyFiles
  <2>2. pc \in {"copy", "ipsOpen"} => copied = "none"
    BY DEF OriginalIInv
  <2> QED  BY <1>p, <2>1, <2>2 DEF Usable
<1>w. Layout /\ (pc # "idle" => outcome = "none")
  BY <1>u DEF LayoutIInv
<1>n. /\ In(opt.typed) \notin {Rom, Bak, New, Dir} /\ opt.kind \notin {"nmp", "ecm"}
      /\ pc \notin {"nmpRen1", "nmpRen2"} /\ (pc = "rename2" => Renames)
  BY <1>u DEF Usable, LayoutIInv
<1>s. ASSUME UNCHANGED <<fs, made>> PROVE Settled' = Settled
  BY <1>s, <1>p DEF Settled
<1>2. ASSUME NEW t \in Typed, Type(t) PROVE Layout'
  BY <1>2, <1>p, <1>s, <1>w DEF Type, Idle, Layout
<1>3. CASE Confirm
  <2>1. fs'[Rom] = fs[Rom] /\ fs'[Bak] = Absent /\ fs'[New] = Absent
    BY <1>3, <1>t, <1>n DEF Confirm, Delete
  <2>2. pc' = "begin" /\ outcome' = "none" /\ fs[Rom] = Before
    BY <1>3, <1>w DEF Confirm, Goto, Layout
  <2> QED  BY <1>p, <2>1, <2>2 DEF Layout, At
<1>4. CASE Cancel \/ NotFound \/ Unwritable \/ PatchUnreadable \/ Killed
  <2>1. pc' = "idle" /\ outcome' # "success"
    BY <1>4 DEF Cancel, NotFound, Unwritable, PatchUnreadable, Killed, Finish
  <2> QED  BY <2>1 DEF Layout
<1>5. CASE Report
  <2>1. pc = "report" /\ UNCHANGED <<fs, made>> /\ pc' = "idle" /\ (outcome' = "success" => ~failed)
    BY <1>5 DEF Report, Finish, NoFileIO
  <2>2. outcome' = "success" => Settled
    BY <1>w, <2>1 DEF Layout
  <2> QED  BY <1>s, <2>1, <2>2 DEF Layout
<1>6. CASE Dispatch
  <2>1. fs' = fs /\ outcome' = "none" /\ At(Absent, Before, Absent)
    BY <1>w, <1>6 DEF Dispatch, Layout
  <2>2. Before # Absent
    BY <1>n, <1>6, <2>1 DEF Dispatch, IsEcm, FilesThere, Exists, At
  <2>3. (pc' = "native" /\ opt.kind \in NewKinds) \/ pc' \in {"copy", "ipsOpen"}
    BY <1>6, <1>n DEF Dispatch, Goto, IsEcm
  <2> QED  BY <1>p, <2>1, <2>2, <2>3 DEF Layout, At
<1>7. CASE Copy \/ IpsBackup
  <2>1. At(Absent, Before, Absent) /\ Before # Absent /\ outcome' = "none"
    BY <1>w, <1>7 DEF Copy, IpsBackup, Layout
  <2>2. fs' = [fs EXCEPT ![Bak] = fs[Rom]]
    BY <1>7 DEF Copy, IpsBackup, Usable
  <2>3. (pc' = "native" /\ opt.kind \notin NewKinds) \/ pc' = "ipsRecords"
    BY <1>7 DEF Copy, IpsBackup, Goto, OriginalIInv
  <2>4. fs'[New] = Absent /\ fs'[Rom] = Before /\ fs'[Bak] = Before
    BY <1>t, <2>1, <2>2 DEF At
  <2> QED  BY <1>p, <2>1, <2>3, <2>4 DEF Layout, At
<1>8. CASE PatchNew
  <2>1. At(Absent, Before, Absent) /\ Before # Absent /\ outcome' = "none" /\ pc' = "swap1"
    BY <1>w, <1>8, Zenon DEF PatchNew, Layout, Goto
  <2>2. failed' = TRUE \/ (made' = Good /\ fs' = [fs EXCEPT ![New] = Good])
    BY <1>8, Zenon DEF PatchNew
  <2>3. ~failed' => fs'[New] = made' /\ fs'[Rom] = Before /\ fs'[Bak] = Absent /\ made' # 0
    BY <1>t, <2>1, <2>2 DEF At
  <2> QED  BY <1>p, <2>1, <2>3 DEF Layout, At
<1>9. CASE PatchInPlace
  <2>1. At(Absent, Before, Before) /\ Before # Absent /\ outcome' = "none" /\ pc' = "tail"
    BY <1>w, <1>n, <1>9 DEF PatchInPlace, Layout, Goto, NmpRenames, CopyKinds, NewKinds
  <2>2. failed' = TRUE \/ (made' = Good /\ fs' = [fs EXCEPT ![Rom] = Good])
    BY <1>9, <1>n DEF PatchInPlace
  <2>3. ~failed' => fs'[New] = Absent /\ fs'[Rom] = made' /\ fs'[Bak] = Before /\ made' # 0
    BY <1>t, <2>1, <2>2 DEF At
  <2> QED  BY <1>p, <2>1, <2>3 DEF Layout, At
<1>10. CASE IpsReject
  <2>1. failed' = TRUE /\ pc' = "tail" /\ outcome' = "none" /\ Before # Absent
    BY <1>w, <1>10 DEF IpsReject, Goto, Layout
  <2> QED  BY <1>p, <2>1 DEF Layout
<1>11. CASE Swap1
  <2>1. /\ pc' = "swap2" /\ outcome' = "none" /\ Before # Absent /\ UNCHANGED <<failed, made>>
        /\ ~failed => At(made, Before, Absent) /\ made # 0
    BY <1>w, <1>11 DEF Swap1, Goto, OnlyFiles, Layout
  <2>2. ~failed => fs'[New] = made /\ fs'[Rom] = Absent /\ fs'[Bak] = Before
    BY <1>t, <1>11, <2>1, RenameEffect DEF Swap1, At
  <2> QED  BY <1>p, <2>1, <2>2 DEF Layout, At
<1>12. CASE Swap2
  <2>1. /\ pc' = "tail" /\ outcome' = "none" /\ Before # Absent /\ UNCHANGED <<failed, made>>
        /\ ~failed => At(made, Absent, Before) /\ made # 0
    BY <1>w, <1>12 DEF Swap2, Goto, OnlyFiles, Layout
  <2>2. ~failed => fs'[New] = Absent /\ fs'[Rom] = made /\ fs'[Bak] = Before
    BY <1>t, <1>12, <2>1, RenameEffect DEF Swap2, At, Absent
  <2> QED  BY <1>p, <2>1, <2>2 DEF Layout, At
<1>13. CASE DropBackup \/ KeepBackup
  <2>1. /\ pc' = "report" /\ outcome' = "none" /\ UNCHANGED <<failed, made>> /\ ~Renames
        /\ ~failed => At(Absent, made, Before)
    BY <1>w, <1>13 DEF DropBackup, KeepBackup, Goto, OnlyFiles, Layout, Renames
  <2>2. ~failed => fs'[New] = Absent /\ fs'[Rom] = made /\ fs'[Bak] = IF opt.c THEN Before ELSE Absent
    BY <1>t, <1>13, <2>1 DEF DropBackup, KeepBackup, Delete, At
  <2> QED  BY <1>p, <2>1, <2>2 DEF Layout, Settled
<1>14. CASE Rename1
  <2>1. /\ pc' = "rename2" /\ outcome' = "none" /\ Before # Absent /\ UNCHANGED <<failed, made>>
        /\ ~failed => At(Absent, made, Before) /\ made # 0
    BY <1>w, <1>14 DEF Rename1, Goto, OnlyFiles, Layout
  <2>2. ~failed => /\ fs'[New] = Absent /\ fs'[Rom] = Absent /\ fs'[Bak] = Before
                   /\ fs'[In(opt.typed)] = made
    BY <1>t, <1>n, <1>14, <2>1, RenameEffect DEF Rename1, At, Absent
  <2> QED  BY <1>p, <2>1, <2>2 DEF Layout, At
<1>15. CASE Rename2
  <2>1. /\ pc' = "report" /\ outcome' = "none" /\ Before # Absent /\ UNCHANGED <<failed, made>> /\ Renames
        /\ ~failed => At(Absent, Absent, Before) /\ fs[In(opt.typed)] = made
    BY <1>w, <1>n, <1>15 DEF Rename2, Goto, OnlyFiles, Layout
  <2>2. ~failed => /\ fs'[New] = Absent /\ fs'[Rom] = Before /\ fs'[Bak] = Absent
                   /\ fs'[In(opt.typed)] = made
    BY <1>t, <1>n, <1>15, <2>1, RenameEffect DEF Rename2, At
  <2> QED  BY <1>p, <2>1, <2>2 DEF Layout, Settled
<1>16. ~NmpRename1 /\ ~NmpRename2
  BY <1>n DEF NmpRename1, NmpRename2
<1>17. ~EcmDecode
  BY <1>n, Zenon DEF EcmDecode, OriginalIInv, IsEcm, LayoutIInv
<1> QED  BY <1>2, <1>3, <1>4, <1>5, <1>6, <1>7, <1>8, <1>9, <1>10, <1>11, <1>12, <1>13, <1>14, <1>15,
            <1>16, <1>17 DEF Pressed, Next, User, Prepare, Native, Tail

(* "Patching successful." means that every file is where the check boxes     *)
(* say, for every type that patches through ROMname.new or in place.         *)
THEOREM SuccessLeavesLayout == Spec => []SuccessLayout
<1>1. Init => LayoutIInv
  <2>1. Init => pc = "idle" /\ outcome = "none"
    BY Zenon DEF Init
  <2> QED  BY <2>1 DEF LayoutIInv, Layout
<1>2. OriginalIInv /\ LayoutIInv /\ [Next]_vars => LayoutIInv'
  <2>1. CASE OriginalIInv /\ LayoutIInv /\ UNCHANGED vars
    BY <2>1 DEF vars, LayoutIInv, Usable, Layout, At, Settled, Renames, Before
  <2>2. CASE OriginalIInv /\ LayoutIInv /\ Next
    BY <2>2, TypeStep, LayoutPlaces, LayoutStep DEF LayoutIInv
  <2> QED  BY <2>1, <2>2
<1>3. LayoutIInv => SuccessLayout
  BY DEF LayoutIInv, Layout, Usable, Settled, SuccessLayout
<1> QED  BY <1>1, <1>2, <1>3, IInvInit, IInvStep, PTL DEF Spec
=============================================================================
