----------------------------- MODULE DsFsProofs -----------------------------
(* Proofs about DsFs: replacing files never makes two of them overlap, and   *)
(* every single write leaves the other files intact.  The key fact is        *)
(* FreeSpace, about findFreeSpace; the inductive invariant is RomIInv.       *)
EXTENDS DsFs, TLAPS

(* A remainder is smaller than the alignment.                                *)
LEMMA ModRange == ASSUME NEW x \in Nat PROVE (x % Align) \in Nat /\ (x % Align) < Align /\ (x % Align) <= x
BY BoundAssumption

(* The files of the FAT are files.                                           *)
LEMMA FilesInAll == \A f \in Files : f \in All
BY DEF All

(* A part of a bounded sum is bounded.                                       *)
LEMMA SumBound ==
    ASSUME NEW a \in Nat, NEW b \in Nat, NEW m \in Nat, a + b <= m
    PROVE  a <= m
OBVIOUS

(* No number is in a range of length 0.                                      *)
LEMMA EmptyRange ==
    ASSUME NEW a \in Nat, NEW s \in Nat, NEW p \in Nat, p = 0
    PROVE  ~(s <= a /\ a < s + p)
OBVIOUS

(* alignDown rounds down.                                                    *)
LEMMA AlignDown == ASSUME NEW x \in Nat PROVE alignDown(x) \in Nat /\ alignDown(x) <= x
BY ModRange DEF alignDown

(* alignUp rounds up, ...                                                    *)
LEMMA AlignUp == ASSUME NEW x \in Nat PROVE alignUp(x) \in Nat /\ x <= alignUp(x)
BY ModRange, BoundAssumption DEF alignUp

(* ... to a multiple.                                                        *)
LEMMA Aligned == ASSUME NEW x \in Nat PROVE alignUp(x) % Align = 0
<1> DEFINE q == x \div Align
           r == x % Align
<1>1. q \in Nat /\ x = Align * q + r
  BY BoundAssumption
<1>2. CASE r = 0
  BY <1>2 DEF alignUp
<1>3. CASE r # 0
  <2>1. alignUp(x) = Align * (q + 1)
    BY <1>1, <1>3, ModRange, BoundAssumption DEF alignUp
  <2> HIDE DEF q
  <2>2. \A k \in Nat : (Align * k) % Align = 0
    BY BoundAssumption
  <2> QED BY <1>1, <2>1, <2>2
<1> QED BY <1>2, <1>3

(* The sorted order of two disjoint files is the order of their bytes.       *)
LEMMA SortedEnds ==
    ASSUME TypeOK, NoOverlap, NEW f \in All, NEW g \in All, ~Before(f, g)
    PROVE  End(g) <= End(f)
<1>1. begin[f] \in Nat /\ size[f] \in Nat /\ begin[g] \in Nat /\ size[g] \in Nat
  BY BoundAssumption DEF TypeOK, Addr
<1>2. f # g => Apart(begin[f], End(f), begin[g], End(g))
  BY DEF NoOverlap
<1> QED  BY <1>1, <1>2 DEF Apart, End, Before

(* findFreeSpace returns an aligned place behind the fnt that no file uses.  *)
LEMMA FreeSpace ==
    ASSUME TypeOK, NoOverlap, NEW n \in Nat, NEW s \in findFreeSpace(n)
    PROVE  /\ s \in Nat /\ s % Align = 0 /\ s >= End(Fnt)
           /\ \A g \in All : Apart(s, s + n, begin[g], End(g))
<1>1. \A f \in All : begin[f] \in Nat /\ size[f] \in Nat /\ End(f) \in Nat /\ begin[f] <= End(f)
  BY BoundAssumption DEF TypeOK, Addr, End
<1>2. Fnt \in All
  BY FilesAssumption DEF All
<1>3. CASE Fits(n) # {}
  <2>1. PICK p \in Fits(n) : s = SpBegin(p)
    BY <1>3 DEF findFreeSpace
  <2>2. /\ p[1] \in All /\ p[2] \in All /\ ~Before(p[1], Fnt)
        /\ \A c \in All : ~(Before(p[1], c) /\ Before(c, p[2]))
        /\ SpBegin(p) + n <= SpEnd(p)
    BY <2>1 DEF Fits, Neighbours
  <2>3. s \in Nat /\ s % Align = 0 /\ End(p[1]) <= s
    BY <1>1, <2>1, <2>2, AlignUp, Aligned DEF SpBegin
  <2>4. s + n <= begin[p[2]]
    BY <1>1, <2>1, <2>2, <2>3, AlignDown DEF SpEnd
  <2>5. s >= End(Fnt)
    BY <1>1, <1>2, <2>2, <2>3, SortedEnds
  <2>6. ASSUME NEW g \in All
        PROVE  Apart(s, s + n, begin[g], End(g))
    <3>1. CASE ~Before(p[1], g)
      BY <1>1, <2>2, <2>3, <3>1, SortedEnds DEF Apart
    <3>2. CASE ~Before(g, p[2])
      BY <1>1, <2>2, <2>3, <2>4, <3>2 DEF Apart, Before
    <3> QED  BY <2>2, <3>1, <3>2
  <2> QED  BY <2>3, <2>5, <2>6
<1>4. CASE Fits(n) = {}
  <2>1. PICK l \in Last : s = alignUp(End(l))
    BY <1>4 DEF findFreeSpace
  <2>2. l \in All /\ \A g \in All : ~Before(l, g)
    BY DEF Last
  <2>3. s \in Nat /\ s % Align = 0 /\ End(l) <= s
    BY <1>1, <2>1, <2>2, AlignUp, Aligned
  <2>4. \A g \in All : End(g) <= s
    BY <1>1, <2>2, <2>3, SortedEnds
  <2> QED  BY <1>1, <1>2, <2>3, <2>4 DEF Apart
<1> QED  BY <1>3, <1>4

\* Steps that move no file and write no byte of one.
Quiet == /\ UNCHANGED <<begin, size, fatBegin, fatEnd, disk, version>>
         /\ pc \notin {"write", "end"} /\ pc' \notin {"write", "end"}

(* Such a step keeps the invariant.                                          *)
LEMMA QuietStep == ASSUME RomIInv, TypeOK', Quiet PROVE RomIInv'
<1> USE DEF Quiet
<1>1. NoOverlap' /\ PlaceInv' /\ WrittenInv'
  BY DEF RomIInv, NoOverlap, PlaceInv, WrittenInv, End
<1>2. FatInv'
  BY DEF RomIInv, FatInv, End
<1>3. DataInv'
  BY DEF RomIInv, DataInv, Torn, Holds, End
<1> QED  BY <1>1, <1>2, <1>3 DEF RomIInv

(* Every step keeps the types: a place found is within the ROM, the file     *)
(* being replaced is one of the FAT.                                         *)
LEMMA TypeStep == ASSUME RomIInv, Next PROVE TypeOK'
<1> USE BoundAssumption DEF RomIInv, Locals, Layouted, Header
<1>1. All = Files \cup System /\ Files \subseteq All
  BY DEF All
<1>2. ASSUME NEW f \in Files, NEW n \in Addr, Replace(f, n) PROVE TypeOK'
  <2>1. newStart' \in Nat
    <3>1. CASE n > size[f]
      <4>1. newStart' \in findFreeSpace(n) /\ n \in Nat
        BY <1>2, <3>1 DEF Replace, Addr
      <4> QED  BY <4>1, FreeSpace
    <3>2. CASE ~(n > size[f])
      BY <1>1, <1>2, <3>2 DEF Replace, TypeOK, Addr
    <3> QED  BY <3>1, <3>2
  <2>2. newStart' \in Addr /\ newLen' \in Addr /\ pos' \in 0 .. newLen' /\ records' \in 0 .. MaxRecords
    <3>1. newStart' + n <= MaxAddr /\ newLen' = n /\ pos' = 0
          /\ records < MaxRecords /\ records' = records + 1
      BY <1>2 DEF Replace
    <3>2. n \in Nat /\ records \in 0 .. MaxRecords
      BY DEF TypeOK, Addr
    <3>3. newStart' \in Addr /\ newLen' \in Addr
      <4>1. newStart' <= MaxAddr
        <5>1. newStart' + n <= MaxAddr
          BY <3>1
        <5>2. n \in Nat
          BY <3>2
        <5> QED  BY <2>1, <5>1, <5>2, SumBound
      <4> QED  BY <2>1, <3>1, <4>1 DEF Addr
    <3>4. pos' \in 0 .. newLen'
      BY <3>1, <3>2
    <3>5. records' \in 0 .. MaxRecords
      BY <3>1, <3>2
    <3> QED  BY <3>3, <3>4, <3>5
  <2> QED  BY <1>1, <1>2, <2>2 DEF Replace, TypeOK
<1>3. CASE Skip
  BY <1>3 DEF Skip, TypeOK
<1>4. CASE Stop \/ SortThrows
  BY <1>4 DEF Stop, SortThrows, TypeOK
<1>5. CASE WriteByte
  <2>1. pos' \in 0 .. newLen
    BY <1>5 DEF WriteByte, TypeOK, Addr
  <2>2. <<cur, version[cur] + 1>> \in All \X Nat
    BY <1>1 DEF TypeOK
  <2>3. disk' \in [Addr -> (All \X Nat) \cup {Free}]
    BY <1>5, <2>2 DEF WriteByte, TypeOK
  <2> QED  BY <1>5, <2>1, <2>3 DEF WriteByte, TypeOK
<1>6. CASE SaveBegin
  BY <1>1, <1>6 DEF SaveBegin, TypeOK
<1>7. CASE SaveEnd
  <2>1. End(cur) \in Addr
    BY <1>1 DEF NoOverlap, TypeOK, End, Addr
  <2> QED  BY <1>1, <1>7, <2>1 DEF SaveEnd, TypeOK
<1>8. CASE SaveUsedSize
  <2>1. \A f \in Last : End(f) \in Addr
    BY DEF NoOverlap, TypeOK, End, Addr, Last
  <2> QED  BY <1>8, <2>1 DEF SaveUsedSize, TypeOK
<1>9. CASE UpdateCRC16
  BY <1>9 DEF UpdateCRC16, TypeOK
<1> QED  BY <1>2, <1>3, <1>4, <1>5, <1>6, <1>7, <1>8, <1>9 DEF Next

(* The steps that place, write and enter a file keep the invariant.  First:  *)
(* the place is the old one, or free.                                        *)
LEMMA ReplaceStep ==
    ASSUME RomIInv, TypeOK', NEW f \in Files, NEW n \in Addr, Replace(f, n)
    PROVE  RomIInv'
<1> USE DEF RomIInv
<1>1. /\ UNCHANGED <<begin, size, fatBegin, fatEnd, disk, version>> /\ pc = "read" /\ pc' = "write"
      /\ cur' = f /\ newLen' = n /\ pos' = 0 /\ newStart' + n <= MaxAddr
      /\ newStart' \in (IF n > size[f] THEN findFreeSpace(n) ELSE {begin[f]})
  BY DEF Replace, Layouted
<1>2. f \in All /\ n \in Nat /\ \A g \in All : begin[g] \in Nat /\ size[g] \in Nat
  <2>1. f \in All
    BY DEF All
  <2>2. \A g \in All : begin[g] \in Nat /\ size[g] \in Nat
    BY BoundAssumption DEF Addr, TypeOK
  <2> QED  BY <2>1, <2>2, BoundAssumption DEF Addr
<1>3. NoOverlap' /\ FatInv'
  BY <1>1 DEF NoOverlap, FatInv, End
<1>4. PlaceInv'
  <2>1. CASE n > size[f]
    BY <1>1, <1>2, <2>1, FreeSpace DEF PlaceInv, PlaceApart, End
  <2>2. CASE ~(n > size[f])
    <3>1. newStart' = begin[f]
      BY <1>1, <2>2
    <3>2. \A g \in All : g # f => Apart(begin[f], begin[f] + n, begin[g], End(g))
      BY <1>2, <2>2 DEF NoOverlap, Apart, End
    <3> QED  BY <1>1, <3>1, <3>2 DEF PlaceInv, PlaceApart, End
  <2> QED  BY <2>1, <2>2
<1>5. DataInv'
  BY <1>1 DEF DataInv, Torn, Holds, End
<1>6. WrittenInv'
  <2>1. newStart' \in Nat
    BY DEF TypeOK, Addr
  <2>2. ASSUME NEW a \in Addr PROVE ~(newStart' <= a /\ a < newStart' + pos')
    <3>1. a \in Nat /\ pos' = 0
      BY <1>1 DEF Addr
    <3> QED  BY <2>1, <3>1, EmptyRange
  <2> QED  BY <1>1, <2>2 DEF WrittenInv
<1> QED  BY <1>3, <1>4, <1>5, <1>6

(* A byte is written where no other file is.                                 *)
LEMMA WriteStep == ASSUME RomIInv, TypeOK', WriteByte PROVE RomIInv'
<1> USE DEF RomIInv
<1>1. /\ UNCHANGED <<begin, size, fatBegin, fatEnd, version, pc, cur, newStart, newLen>>
      /\ pc = "write" /\ pos < newLen /\ pos' = pos + 1
      /\ disk' = [disk EXCEPT ![newStart + pos] = <<cur, version[cur] + 1>>]
  BY DEF WriteByte, Layouted
<1>2. /\ newStart \in Nat /\ newLen \in Nat /\ pos \in Nat /\ newStart + newLen <= MaxAddr
      /\ \A g \in All : begin[g] \in Nat /\ size[g] \in Nat
  BY <1>1, BoundAssumption DEF TypeOK, Addr, PlaceInv
<1>3. NoOverlap' /\ FatInv' /\ PlaceInv'
  BY <1>1 DEF NoOverlap, FatInv, PlaceInv, PlaceApart, End
<1>4. DataInv'
  <2>1. ASSUME NEW g \in All, NEW a \in Addr, ~Torn(g), Holds(g, a)
        PROVE  disk'[a] = <<g, version[g]>>
    <3>1. PlaceApart(g)
      BY <1>1, <2>1 DEF PlaceInv, Torn
    <3>2. a # newStart + pos
      BY <1>1, <1>2, <2>1, <3>1 DEF PlaceApart, Apart, Holds, End, Addr
    <3> QED  BY <1>1, <2>1, <3>2 DEF DataInv, TypeOK
  <2> QED  BY <1>1, <2>1 DEF DataInv, Torn, Holds, End
<1>5. WrittenInv'
  <2>1. ASSUME NEW a \in Addr, newStart <= a, a < newStart + pos'
        PROVE  disk'[a] = <<cur, version[cur] + 1>>
    <3>1. CASE a = newStart + pos
      BY <1>1, <3>1 DEF TypeOK
    <3>2. CASE a # newStart + pos
      <4>1. a < newStart + pos
        BY <1>1, <1>2, <2>1, <3>2 DEF Addr
      <4> QED  BY <1>1, <2>1, <3>2, <4>1 DEF WrittenInv, TypeOK
    <3> QED  BY <3>1, <3>2
  <2> QED  BY <1>1, <2>1 DEF WrittenInv
<1> QED  BY <1>3, <1>4, <1>5

(* The file moves into the room it was written to.                           *)
LEMMA SaveBeginStep == ASSUME RomIInv, TypeOK', SaveBegin PROVE RomIInv'
<1> USE DEF RomIInv
<1>1. /\ UNCHANGED <<fatEnd, disk, version, cur, newStart, newLen>>
      /\ pc = "write" /\ pos = newLen /\ pc' = "end" /\ cur \in Files
      /\ begin' = [begin EXCEPT ![cur] = newStart] /\ size' = [size EXCEPT ![cur] = newLen]
      /\ fatBegin' = [fatBegin EXCEPT ![cur] = newStart]
  BY DEF SaveBegin, Locals, TypeOK
<1>2. /\ newStart \in Nat /\ newLen \in Nat /\ newStart + newLen <= MaxAddr /\ cur \in All
      /\ \A g \in All : begin[g] \in Nat /\ size[g] \in Nat
  BY <1>1, BoundAssumption DEF TypeOK, Addr, PlaceInv, All
<1>3. /\ begin'[cur] = newStart /\ size'[cur] = newLen
      /\ \A g \in All : g # cur => begin'[g] = begin[g] /\ size'[g] = size[g]
      /\ \A g \in Files : g # cur => fatBegin'[g] = fatBegin[g]
  BY <1>1, <1>2 DEF TypeOK
<1>4. NoOverlap'
  <2>1. \A g \in All : g # cur => Apart(newStart, newStart + newLen, begin[g], End(g))
    BY <1>1 DEF PlaceInv, PlaceApart
  <2>2. \A g \in All : End(g)' <= MaxAddr
    BY <1>2, <1>3 DEF NoOverlap, End
  <2>3. ASSUME NEW g \in All, NEW h \in All, g # h
        PROVE  Apart(begin[g], End(g), begin[h], End(h))'
    BY <1>2, <1>3, <2>1, <2>3 DEF NoOverlap, Apart, End
  <2> QED  BY <2>2, <2>3 DEF NoOverlap
<1>5. FatInv'
  BY <1>1, <1>3, FilesInAll DEF FatInv, End, TypeOK
<1>6. DataInv' /\ PlaceInv'
  BY <1>1, <1>3 DEF DataInv, PlaceInv, Torn, Holds, End
<1>7. WrittenInv'
  BY <1>1, <1>3 DEF WrittenInv, Holds, End
<1> QED  BY <1>4, <1>5, <1>6, <1>7

(* The FAT entry is complete and finds the new bytes.                        *)
LEMMA SaveEndStep == ASSUME RomIInv, TypeOK', SaveEnd PROVE RomIInv'
<1> USE DEF RomIInv
<1>1. /\ UNCHANGED <<begin, size, fatBegin, disk, cur>> /\ pc = "end" /\ pc' = "moved" /\ cur \in Files
      /\ fatEnd' = [fatEnd EXCEPT ![cur] = End(cur)]
      /\ version' = [version EXCEPT ![cur] = version[cur] + 1]
  BY DEF SaveEnd, Locals, TypeOK
<1>2. cur \in All /\ cur \notin System
  BY <1>1, FilesAssumption DEF All
<1>3. NoOverlap' /\ PlaceInv' /\ WrittenInv'
  BY <1>1 DEF NoOverlap, PlaceInv, WrittenInv, End
<1>4. DataInv'
  BY <1>1, <1>2 DEF DataInv, WrittenInv, TypeOK, Torn, Holds, End, All
<1>5. FatInv'
  BY <1>1, <1>2 DEF FatInv, TypeOK, End
<1> QED  BY <1>3, <1>4, <1>5

(* A ROM as it is loaded satisfies the invariant.                            *)
LEMMA IInvInit == Init => RomIInv
<1> SUFFICES ASSUME Init PROVE RomIInv
  OBVIOUS
<1>1. PICK l \in Layouts :
        /\ begin = l.begin /\ size = l.size
        /\ fatBegin = [f \in Files |-> l.begin[f]]
        /\ fatEnd   = [f \in Files |-> l.begin[f] + l.size[f]]
        /\ usedSize = l.used /\ crc = l.used
  BY Zenon DEF Init
<1>2. /\ disk = [a \in Addr |-> IF \E f \in All : Holds(f, a)
                               THEN <<CHOOSE f \in All : Holds(f, a), 0>> ELSE Free]
      /\ version = [f \in All |-> 0]
      /\ pc = "read" /\ cur = Fnt /\ newStart = 0 /\ newLen = 0 /\ pos = 0 /\ records = 0
  BY Zenon DEF Init
<1>3. l \in Layout /\ DisjointLayout(l)
  BY LayoutsAssumption
<1>4. NoOverlap
  BY <1>1, <1>3 DEF DisjointLayout, NoOverlap, End
<1>5. begin \in [All -> Addr] /\ size \in [All -> Addr] /\ usedSize \in Addr /\ crc \in Addr
  BY <1>1, <1>3 DEF Layout
<1>6. \A f \in Files : fatBegin[f] = begin[f] /\ fatEnd[f] = End(f)
  BY <1>1 DEF End
<1>7. \A a \in Addr : (\E f \in All : Holds(f, a)) =>
        (CHOOSE f \in All : Holds(f, a)) \in All /\ Holds(CHOOSE f \in All : Holds(f, a), a)
  BY Zenon
<1>8. \A f \in All, a \in Addr : Holds(f, a) => disk[a] = <<f, 0>>
  <2> SUFFICES ASSUME NEW f \in All, NEW a \in Addr, Holds(f, a) PROVE disk[a] = <<f, 0>>
    OBVIOUS
  <2>1. PICK g : g = CHOOSE x \in All : Holds(x, a)
    OBVIOUS
  <2>2. g \in All /\ Holds(g, a)
    BY <1>7, <2>1
  <2>3. g = f
    <3>1. begin[f] \in Nat /\ size[f] \in Nat /\ begin[g] \in Nat /\ size[g] \in Nat /\ a \in Nat
      BY <1>5, <2>2, BoundAssumption DEF Addr
    <3>2. f # g => Apart(begin[f], End(f), begin[g], End(g))
      BY <1>4, <2>2 DEF NoOverlap
    <3> QED  BY <2>2, <3>1, <3>2 DEF Apart, Holds, End
  <2> QED  BY <1>2, <2>1, <2>3
<1>9. disk \in [Addr -> (All \X Nat) \cup {Free}]
  <2> SUFFICES ASSUME NEW a \in Addr PROVE disk[a] \in (All \X Nat) \cup {Free}
    BY <1>2
  <2>1. CASE \E f \in All : Holds(f, a)
    BY <1>8, <2>1
  <2>2. CASE ~\E f \in All : Holds(f, a)
    BY <1>2, <2>2
  <2> QED  BY <2>1, <2>2
<1>10. fatBegin \in [Files -> Addr] /\ fatEnd \in [Files -> Addr]
  <2>1. ASSUME NEW f \in Files PROVE begin[f] \in Addr /\ End(f) \in Addr
    <3>1. f \in All
      BY FilesInAll
    <3>2. begin[f] \in Nat /\ size[f] \in Nat /\ End(f) <= MaxAddr
      BY <1>4, <1>5, <3>1, BoundAssumption DEF NoOverlap, Addr
    <3> QED  BY <1>5, <3>1, <3>2, BoundAssumption DEF End, Addr
  <2> QED  BY <1>1, <1>6, <2>1
<1>11. TypeOK
  <2>1. Fnt \in All
    BY FilesAssumption DEF All
  <2> QED  BY <1>2, <1>5, <1>9, <1>10, <2>1, BoundAssumption DEF TypeOK, Addr
<1>12. FatInv /\ PlaceInv /\ WrittenInv
  BY <1>2, <1>6 DEF FatInv, PlaceInv, WrittenInv
<1>13. DataInv
  BY <1>2, <1>8 DEF DataInv, All
<1> QED  BY <1>4, <1>11, <1>12, <1>13 DEF RomIInv

(* One step of the patcher keeps it.                                         *)
LEMMA IInvStep == RomIInv /\ [Next]_vars => RomIInv'
<1> SUFFICES ASSUME RomIInv, [Next]_vars PROVE RomIInv'
  OBVIOUS
<1>1. CASE Next
  <2>1. TypeOK'
    BY <1>1, TypeStep
  <2>2. ASSUME NEW f \in Files, NEW n \in Addr, Replace(f, n) PROVE RomIInv'
    BY <2>1, <2>2, ReplaceStep
  <2>3. CASE Skip \/ Stop \/ SaveUsedSize \/ SortThrows \/ UpdateCRC16
    <3>1. Quiet
      BY <2>3 DEF Quiet, Skip, Stop, SaveUsedSize, SortThrows, UpdateCRC16, Layouted
    <3> QED  BY <2>1, <3>1, QuietStep
  <2> QED  BY <1>1, <2>1, <2>2, <2>3, WriteStep, SaveBeginStep, SaveEndStep DEF Next
<1>2. CASE UNCHANGED vars
  BY <1>2 DEF vars, RomIInv, TypeOK, NoOverlap, PlaceInv, PlaceApart, FatInv, DataInv, WrittenInv,
              Torn, Holds, End
<1> QED  BY <1>1, <1>2

(* Every variable keeps its type and no file reaches past the ROM.           *)
THEOREM TypeCorrect == Spec => []TypeOK
<1>1. RomIInv => TypeOK
  BY DEF RomIInv
<1> QED  BY <1>1, IInvInit, IInvStep, PTL DEF Spec

(* Replacing files (PhysicalFile.replace, findFreeSpace) never makes two     *)
(* files of the ROM overlap.                                                 *)
THEOREM FilesNeverOverlap == Spec => []NoOverlap
<1>1. RomIInv => NoOverlap
  BY DEF RomIInv
<1> QED  BY <1>1, IInvInit, IInvStep, PTL DEF Spec

(* The place a file is written to is its own or free room behind the fnt.    *)
THEOREM PlaceAlwaysFree == Spec => []PlaceIsFree
<1>1. RomIInv => PlaceIsFree
  BY DEF RomIInv, PlaceInv, PlaceApart, PlaceIsFree
<1> QED  BY <1>1, IInvInit, IInvStep, PTL DEF Spec

(* Wherever the process dies, every file but the one being replaced is still *)
(* found through the FAT with its bytes.                                     *)
THEOREM OthersAlwaysIntact == Spec => []OthersIntact
<1>1. ASSUME RomIInv PROVE OthersIntact
  <2>1. ASSUME NEW f \in Files, NEW a \in Addr, ~Torn(f), fatBegin[f] <= a, a < fatEnd[f]
        PROVE  disk[a] = <<f, version[f]>>
    <3>1. fatBegin[f] = begin[f] /\ fatEnd[f] = End(f)
      BY <1>1, <2>1 DEF RomIInv, FatInv, Torn
    <3>2. f \in All /\ Holds(f, a)
      BY <2>1, <3>1, FilesInAll DEF Holds
    <3> QED  BY <1>1, <2>1, <3>2 DEF RomIInv, DataInv
  <2>2. ASSUME NEW f \in System, NEW a \in Addr, Holds(f, a)
        PROVE  disk[a] = <<f, 0>>
    <3>1. f \in All /\ ~Torn(f)
      BY <1>1, <2>2, FilesAssumption DEF RomIInv, TypeOK, Torn, All
    <3> QED  BY <1>1, <2>2, <3>1 DEF RomIInv, DataInv
  <2> QED  BY <2>1, <2>2 DEF OthersIntact
<1> QED  BY <1>1, IInvInit, IInvStep, PTL DEF Spec

(* HeaderInv is inductive relative to RomIInv.                               *)
LEMMA HeaderInit == Init => HeaderInv
<1> SUFFICES ASSUME Init PROVE HeaderInv
  OBVIOUS
<1>1. pc = "read" /\ version = [f \in All |-> 0]
  BY Zenon DEF Init
<1>2. crc = usedSize
  BY Zenon DEF Init
<1> QED  BY <1>1, <1>2 DEF HeaderInv

(* The end of the last file in sorted order is the end of all of them.       *)
LEMMA HeaderStep == RomIInv /\ HeaderInv /\ [Next]_vars => HeaderInv'
<1> SUFFICES ASSUME RomIInv, HeaderInv, [Next]_vars PROVE HeaderInv'
  OBVIOUS
<1> USE DEF HeaderInv, Covered, Header, Layouted, Locals
<1>1. ASSUME NEW f \in Files, NEW n \in Addr, Replace(f, n) PROVE HeaderInv'
  BY <1>1 DEF Replace
<1>2. CASE Skip \/ Stop \/ WriteByte
  BY <1>2 DEF Skip, Stop, WriteByte, End
<1>3. CASE SaveBegin \/ SaveEnd
  BY <1>3 DEF SaveBegin, SaveEnd
<1>4. CASE SaveUsedSize
  <2>1. PICK f \in Last : usedSize' = End(f)
    BY <1>4 DEF SaveUsedSize
  <2>2. \A g \in All : End(g) <= End(f)
    BY SortedEnds DEF Last, RomIInv
  <2> QED  BY <1>4, <2>1, <2>2 DEF SaveUsedSize, End
<1>5. CASE SortThrows \/ UpdateCRC16
  BY <1>5 DEF SortThrows, UpdateCRC16, End
<1>6. CASE UNCHANGED vars
  BY <1>6 DEF vars, End
<1> QED  BY <1>1, <1>2, <1>3, <1>4, <1>5, <1>6 DEF Next

(* Between two records FAT, header size and header CRC agree with the files. *)
THEOREM RomAlwaysConsistent == Spec => []RomConsistent
<1>1. ASSUME RomIInv, HeaderInv PROVE RomConsistent
  BY <1>1 DEF RomIInv, FatInv, HeaderInv, Covered, RomConsistent
<1> QED  BY <1>1, IInvInit, IInvStep, HeaderInit, HeaderStep, PTL DEF Spec
=============================================================================
