-------------------------------- MODULE DsFs --------------------------------
(* How an NMP patch changes a DS ROM in place: the loop of RealPatch.patch   *)
(* and, for each file it replaces, PhysicalFile.replace with findFreeSpace,  *)
(* saveOffsets and DSFileMoved, one action per write to the ROM, so that the *)
(* process may be killed (or an exception leave the loop) between any two.   *)
(*                                                                           *)
(* A byte of the ROM is <<file, version>>: the file whose data was written   *)
(* there last and which version of it, or Free.                              *)
EXTENDS Naturals

CONSTANTS Files,       \* the files of the FAT, which a patch may replace
          System,      \* header, fnt, fat, arm9, ...: never replaced by a patch
          Fnt,         \* freeSpaceDelimiter
          Free,        \* a byte of no file
          Align,       \* PhysicalFile.alignment of the files of the FAT
          Layouts,     \* where the files of a ROM are when it is loaded
          MaxAddr,     \* bound: largest ROM
          MaxRecords   \* bound: records of one patch

All  == Files \cup System
Addr == 0 .. MaxAddr
Layout == [begin : [All -> Addr], size : [All -> Addr], used : Addr]

Apart(b1, e1, b2, e2) == e1 <= b2 \/ e2 <= b1
DisjointLayout(l) ==
    /\ \A f \in All : l.begin[f] + l.size[f] <= MaxAddr
    /\ \A f, g \in All : f # g => Apart(l.begin[f], l.begin[f] + l.size[f],
                                        l.begin[g], l.begin[g] + l.size[g])

ASSUME FilesAssumption   == Files \cap System = {} /\ Fnt \in System /\ Free \notin All \X Nat
ASSUME BoundAssumption   == Align \in Nat \ {0} /\ MaxAddr \in Nat /\ MaxRecords \in Nat
ASSUME LayoutsAssumption == \A l \in Layouts : l \in Layout /\ DisjointLayout(l)

VARIABLES begin, size,     \* fileBeginP, fileSizeP
          fatBegin, fatEnd,\* the entries of fat.bin on the ROM
          disk,            \* [Addr -> byte], the data part of the ROM
          usedSize,        \* header 0x80
          crc,             \* the value of usedSize that header 0x15E covers
          version,         \* [All -> Nat], how often a file was replaced
          pc,
          cur,             \* the file being replaced
          newStart, newLen, pos,   \* replace's locals; pos: bytes written so far
          records          \* records read
vars == <<begin, size, fatBegin, fatEnd, disk, usedSize, crc, version,
          pc, cur, newStart, newLen, pos, records>>

End(f) == begin[f] + size[f]
Holds(f, a) == begin[f] <= a /\ a < End(f)

\* DSFilesystem.alignUp, alignDown
alignUpDown(x) == x - (x % Align)                              \* mutant
alignUp(x)   == IF (x % Align) # 0 THEN x + (Align - (x % Align)) ELSE x
alignDown(x) == x - (x % Align)

Init ==
    /\ \E l \in Layouts :
         /\ begin = l.begin /\ size = l.size
         /\ fatBegin = [f \in Files |-> l.begin[f]]
         /\ fatEnd   = [f \in Files |-> l.begin[f] + l.size[f]]
         /\ usedSize = l.used /\ crc = l.used
    /\ disk = [a \in Addr |-> IF \E f \in All : Holds(f, a)
                              THEN <<CHOOSE f \in All : Holds(f, a), 0>> ELSE Free]
    /\ version = [f \in All |-> 0]
    /\ pc = "read" /\ cur = Fnt /\ newStart = 0 /\ newLen = 0 /\ pos = 0 /\ records = 0

-----------------------------------------------------------------------------
(* The order of dcomp: by begin, then by size.  Two files that agree in both *)
(* (empty files at one offset) may come in either order; there is no room    *)
(* between them.                                                             *)
Before(f, g) == begin[f] < begin[g] \/ (begin[f] = begin[g] /\ size[f] < size[g])

\* Neighbours <<a, b>> in the sorted list, from freeSpaceDelimiter on.
NeighboursAll == {p \in All \X All :                            \* mutant: from the first file on
                    /\ Before(p[1], p[2])
                    /\ \A c \in All : ~(Before(p[1], c) /\ Before(c, p[2]))}
Neighbours == {p \in All \X All : /\ ~Before(p[1], Fnt) /\ Before(p[1], p[2])
                                  /\ \A c \in All : ~(Before(p[1], c) /\ Before(c, p[2]))}
SpBegin(p)  == alignUp(End(p[1]))
SpEnd(p)    == alignDown(begin[p[2]])
Fits(n)     == {p \in Neighbours : SpBegin(p) + n <= SpEnd(p)}
SpLeft(p)   == SpEnd(p) - SpBegin(p)

\* A last file of the sorted list.
Last == {f \in All : \A g \in All : ~Before(f, g)}

\* findFreeSpace: the smallest room that fits, the first one of equals, else
\* the end of the last file.
findFreeSpace(n) ==
    IF Fits(n) # {}
    THEN {SpBegin(p) : p \in {p \in Fits(n) : \A q \in Fits(n) :
             \/ SpLeft(p) < SpLeft(q)
             \/ SpLeft(p) = SpLeft(q) /\ SpBegin(p) <= SpBegin(q)}}
    ELSE {alignUp(End(f)) : f \in Last}

\* Two files dcomp orders both ways: sorting them may throw.
Tie == \E f, g \in All : f # g /\ begin[f] = begin[g] /\ size[f] = size[g]

Layouted == <<begin, size, fatBegin, fatEnd>>
Header   == <<usedSize, crc>>
Locals   == <<cur, newStart, newLen, pos, records>>

ReplaceStay(f, n) ==                                           \* mutant: grows where it is
    /\ pc = "read" /\ records < MaxRecords
    /\ newStart' = begin[f] /\ newStart' + n <= MaxAddr
    /\ pc' = "write" /\ cur' = f /\ newLen' = n /\ pos' = 0 /\ records' = records + 1
    /\ UNCHANGED <<Layouted, disk, Header, version>>

(* A record of the patch whose file exists and is not a system file:         *)
(* beginEdit and the placement part of replace.                              *)
Replace(f, n) ==
    /\ pc = "read" /\ records < MaxRecords
    /\ newStart' \in (IF n > size[f] THEN findFreeSpace(n) ELSE {begin[f]})
    /\ newStart' + n <= MaxAddr
    /\ pc' = "write" /\ cur' = f /\ newLen' = n /\ pos' = 0 /\ records' = records + 1
    /\ UNCHANGED <<Layouted, disk, Header, version>>

\* A record that names no file of the ROM, or a system file, is skipped.
Skip == /\ pc = "read" /\ records < MaxRecords /\ records' = records + 1
        /\ UNCHANGED <<Layouted, disk, Header, version, pc, cur, newStart, newLen, pos>>

\* The end mark, the end of a truncated file (EOFException, before the record
\* it cuts is applied), or a sort that throws.
Stop == /\ pc = "read" /\ pc' = "stopped"
        /\ UNCHANGED <<Layouted, disk, Header, version, Locals>>

WriteByteOver == /\ pc = "write" /\ pos <= newLen               \* mutant
                 /\ disk' = [disk EXCEPT ![newStart + pos] = <<cur, version[cur] + 1>>]
                 /\ pos' = pos + 1
                 /\ UNCHANGED <<Layouted, Header, version, pc, cur, newStart, newLen, records>>
WriteByte == /\ pc = "write" /\ pos < newLen
             /\ disk' = [disk EXCEPT ![newStart + pos] = <<cur, version[cur] + 1>>]
             /\ pos' = pos + 1
             /\ UNCHANGED <<Layouted, Header, version, pc, cur, newStart, newLen, records>>

\* fileBeginP, fileSizeP, then the two words of the FAT.
SaveBegin == /\ pc = "write" /\ pos = newLen /\ pc' = "end"
             /\ begin' = [begin EXCEPT ![cur] = newStart]
             /\ size' = [size EXCEPT ![cur] = newLen]
             /\ fatBegin' = [fatBegin EXCEPT ![cur] = newStart]
             /\ UNCHANGED <<fatEnd, disk, Header, version, Locals>>
SaveEnd == /\ pc = "end" /\ pc' = "moved"
           /\ fatEnd' = [fatEnd EXCEPT ![cur] = End(cur)]
           /\ version' = [version EXCEPT ![cur] = @ + 1]
           /\ UNCHANGED <<begin, size, fatBegin, disk, Header, Locals>>

\* mutant: the used size is taken from the replaced file
SaveUsedSizeCur == /\ pc = "moved" /\ pc' = "crc" /\ usedSize' = End(cur)
                   /\ UNCHANGED <<Layouted, disk, crc, version, Locals>>
\* DSFileMoved: getFilesystemEnd, whose sort may throw as well.
SaveUsedSize == /\ pc = "moved" /\ pc' = "crc"
                /\ \E f \in Last : usedSize' = End(f)
                /\ UNCHANGED <<Layouted, disk, crc, version, Locals>>
SortThrows == /\ pc = "moved" /\ Tie /\ pc' = "stopped"
              /\ UNCHANGED <<Layouted, disk, Header, version, Locals>>
UpdateCRC16 == /\ pc = "crc" /\ pc' = "read" /\ crc' = usedSize
               /\ UNCHANGED <<Layouted, disk, usedSize, version, Locals>>

Next == \/ \E f \in Files, n \in Addr : Replace(f, n)
        \/ Skip \/ Stop \/ WriteByte \/ SaveBegin \/ SaveEnd
        \/ SaveUsedSize \/ SortThrows \/ UpdateCRC16
Spec == Init /\ [][Next]_vars

-----------------------------------------------------------------------------
\* Every variable keeps its type; no file reaches past the ROM.
TypeOK ==
    /\ begin \in [All -> Addr] /\ size \in [All -> Addr]
    /\ fatBegin \in [Files -> Addr] /\ fatEnd \in [Files -> Addr]
    /\ disk \in [Addr -> (All \X Nat) \cup {Free}] /\ version \in [All -> Nat]
    /\ usedSize \in Addr /\ crc \in Addr
    /\ pc \in {"read", "write", "end", "moved", "crc", "stopped"}
    /\ cur \in All /\ (pc \in {"write", "end", "moved", "crc"} => cur \in Files)
    /\ newStart \in Addr /\ newLen \in Addr /\ pos \in 0 .. newLen /\ records \in 0 .. MaxRecords

(* No two files of the ROM share a byte, however often files grow, shrink,   *)
(* become empty and move into the room others left.                          *)
NoOverlap == /\ \A f \in All : End(f) <= MaxAddr
             /\ \A f, g \in All : f # g => Apart(begin[f], End(f), begin[g], End(g))

(* findFreeSpace: "Tries to find LEN bytes of continuous unused space AFTER  *)
(* the freeSpaceDelimiter" - the place of a replaced file is its old one or  *)
(* an aligned one behind the fnt, and no other file has a byte of it.        *)
PlaceIsFree ==
    pc = "write" =>
      /\ \A g \in All \ {cur} : Apart(newStart, newStart + newLen, begin[g], End(g))
      /\ newStart = begin[cur] \/ (newStart >= End(Fnt) /\ newStart % Align = 0)

(* After every single write to the ROM, so also when the process is killed   *)
(* there: each file but the one being replaced is found through the FAT and  *)
(* has the bytes last given to it, and no byte of a system file is hit.  A   *)
(* file that moves is still found at its old place until its FAT entry is    *)
(* rewritten.                                                                *)
Torn(f) == f = cur /\ (pc = "end" \/ (pc = "write" /\ newStart = begin[f]))
OthersIntact ==
    /\ \A f \in Files, a \in Addr :
         ~Torn(f) /\ fatBegin[f] <= a /\ a < fatEnd[f] => disk[a] = <<f, version[f]>>
    /\ \A f \in System, a \in Addr : Holds(f, a) => disk[a] = <<f, 0>>

(* Between two records the FAT on the ROM, the header's used size and its    *)
(* CRC agree with the files.                                                 *)
RomConsistent ==
    pc = "read" =>
      /\ \A f \in Files : fatBegin[f] = begin[f] /\ fatEnd[f] = End(f)
      /\ crc = usedSize
      /\ (\E f \in All : version[f] > 0) => \A f \in All : End(f) <= usedSize

-----------------------------------------------------------------------------
(* What makes these inductive: where the FAT and the bytes of the file being *)
(* replaced are at each step.                                                *)
PlaceApart(f) == Apart(newStart, newStart + newLen, begin[f], End(f))
PlaceInv ==
    pc = "write" =>
      /\ newStart + newLen <= MaxAddr
      /\ \A g \in All : g # cur \/ newStart # begin[cur] => PlaceApart(g)
      /\ newStart = begin[cur] \/ (newStart >= End(Fnt) /\ newStart % Align = 0)
FatInv ==
    \A f \in Files : /\ fatBegin[f] = begin[f]
                     /\ f # cur \/ pc # "end" => fatEnd[f] = End(f)
DataInv ==
    /\ \A f \in All, a \in Addr : ~Torn(f) /\ Holds(f, a) => disk[a] = <<f, version[f]>>
    /\ \A f \in System : version[f] = 0
WrittenInv ==
    /\ pc = "write" => \A a \in Addr : newStart <= a /\ a < newStart + pos => disk[a] = <<cur, version[cur] + 1>>
    /\ pc = "end" => \A a \in Addr : Holds(cur, a) => disk[a] = <<cur, version[cur] + 1>>
RomIInv == TypeOK /\ NoOverlap /\ PlaceInv /\ FatInv /\ DataInv /\ WrittenInv
Covered == \A f \in All : End(f) <= usedSize
HeaderInv ==
    /\ pc \in {"read", "write", "end", "moved"} => crc = usedSize
    /\ pc = "crc" => Covered
    /\ pc = "read" /\ (\E f \in All : version[f] > 0) => Covered
=============================================================================
