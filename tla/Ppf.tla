-------------------------------- MODULE Ppf --------------------------------
(* ppfpatcher/nativelink.cpp: PPF 1, 2 and 3 patches, applied to the ROM in  *)
(* place.  The switch over the version has no break, so a PPF1 patch is read *)
(* as PPF1, then as PPF2, then as PPF3, and a PPF2 patch as PPF2 and PPF3.   *)
(* The ROM's stream is never closed: what fwrite left in its buffer after    *)
(* the last fseeko does not reach the disk.                                  *)
EXTENDS PatchIO

CONSTANTS HeadLen,        \* 56: magic, encoding and description
          FlagLen,        \* 4: size of the ROM in PPF2, flags in PPF3
          BlockLen,       \* 1024: the ROM block a patch carries for validation
          BlockAt(_),     \* 0x9320, or 0x80A0 for image type 1
          PosLen,         \* 4: int, and off_t in the 32-bit builds
          OffsetLen,      \* 8: bytes of an offset in PPF3
          IdMagic,        \* ".DIZ"
          IdOver,         \* 34: the marks around a file_id.diz
          LenIdx(_),      \* 4 in PPF2, 2 in PPF3: its length field
          Turns,          \* 2^32: the range of a count
          Spills,         \* what may lie behind offset on the stack
          OldBlocks       \* what earlier calls may have left in binblock

ASSUME PpfAssumption ==
    /\ HeadLen \in Nat /\ FlagLen \in 3 .. 4 /\ BlockLen \in Nat /\ \A b \in Byte : BlockAt(b) \in Nat
    /\ PosLen \in 1 .. 4 /\ OffsetLen \in PosLen .. (2 * PosLen)
    /\ IdMagic \in File /\ IdOver \in Nat /\ \A v \in {2, 3} : LenIdx(v) \in 1 .. 4
    /\ Turns \in Nat \ {0} /\ (\A j \in Jobs("ppf") : Len(j.patch) < Turns) /\ Spills \subseteq {"dead", "count", "undo"}
    /\ OldBlocks \subseteq [1 .. BlockLen -> Byte]

PatchByte(p, k) == IF k < Len(p) THEN p[k + 1] ELSE 0
Wrap(n) == n % Turns

\* Length of the file_id.diz, 0 if there is none; it is not among the records.
ShowFileId(p, v) ==
    LET n == Len(p) IN
    IF n >= LenIdx(v) + Len(IdMagic) /\ Slice(p, n - LenIdx(v) - Len(IdMagic), Len(IdMagic)) = IdMagic
    THEN LE(Slice(p, n - LenIdx(v), LenIdx(v))) ELSE 0
IdPart(p, v) == IF ShowFileId(p, v) # 0 THEN ShowFileId(p, v) + IdOver + LenIdx(v) ELSE 0

\* How a patch of each version was made; the undo data of a PPF3 patch, as
\* long as the record's own, follow it.  It fits a ROM with the size and the
\* block it names, if the version or its flags name them.
PpfVersions == {"PPF1", "PPF2", "PPF3"}
Flag(j, i) == IF j.magic = "PPF3" THEN PatchByte(j.patch, HeadLen + i) ELSE 0
Checked(j) == j.magic = "PPF2" \/ Flag(j, 1) # 0
PpfMade(j) ==
    LET n == Len(j.recs)
        width == IF j.magic = "PPF3" THEN OffsetLen ELSE PosLen
        head == HeadLen + IF j.magic = "PPF1" THEN 0 ELSE FlagLen + IF Checked(j) THEN BlockLen ELSE 0
        id == IF j.magic = "PPF1" THEN 0 ELSE IdPart(j.patch, IF j.magic = "PPF2" THEN 2 ELSE 3)
    IN /\ j.magic \in PpfVersions /\ j.recs \in Seq([offset : Nat, data : File]) /\ n > 0 /\ Laid(j, j.rom)
       /\ j.pos[1] = head /\ j.pos[n + 1] = Len(j.patch) - id
       /\ \A k \in 1 .. n : LET p == j.pos[k] + width
                                size == Len(j.recs[k].data)
            IN /\ j.pos[k] < j.pos[n + 1] /\ j.pos[k + 1] <= j.pos[n + 1]
               /\ j.pos[k + 1] = p + 1 + size + IF Flag(j, 2) # 0 THEN size ELSE 0
               /\ LE(Slice(j.patch, j.pos[k], PosLen)) = j.recs[k].offset
               /\ j.patch[p + 1] = size /\ Slice(j.patch, p + 1, size) = j.recs[k].data
PpfFits(j) ==
    /\ j.magic = "PPF2" => LE(Slice(j.patch, HeadLen, FlagLen)) = Len(j.rom)
    /\ Checked(j) /\ (j.magic = "PPF3" => ~j.ignore) =>
         Slice(j.patch, HeadLen + FlagLen, BlockLen) = Slice(j.rom, BlockAt(Flag(j, 0)), BlockLen)
ASSUME PpfMadeAssumption == \A j \in Jobs("ppf") : (j.whole => PpfMade(j)) /\ (j.fits => PpfFits(j))

\* Locals for a loop over the records from k on, the last id bytes left out.
RecordsAll(l, k, id) == [l EXCEPT !.count = Wrap(Len(job.patch) - k), !.pos = <<>>, !.anz = 0]          \* mutant
Records(l, k, id) == [l EXCEPT !.count = Wrap(Len(job.patch) - k - id), !.pos = <<>>, !.anz = 0]

PpfInit == /\ job \in Jobs("ppf") /\ out = job.rom /\ disk = job.rom /\ at = 0 /\ pc = "PPFVersion" /\ ret = 1
           /\ \E b \in OldBlocks, s \in Spills :
                loc = [count |-> 0, pos |-> <<>>, anz |-> 0, mem |-> Fill(Base - 1, 0),
                       binblock |-> b, ppfblock |-> b, undo |-> 0, spill |-> s]

\* OpenFiles' result is ignored: without both files the process dies.  A
\* file that is no PPF patch returns e as it was initialised.
PPFVersion == /\ pc = "PPFVersion"
              /\ \/ Abandon(Crash)
                 \/ job.magic \notin PpfVersions /\ Abandon(1)
                 \/ job.magic = "PPF1" /\ pc' = "ApplyPPF1Patch" /\ UNCHANGED <<ret, disk>>
                 \/ job.magic = "PPF2" /\ pc' = "ApplyPPF2Patch" /\ UNCHANGED <<ret, disk>>
                 \/ job.magic = "PPF3" /\ pc' = "ApplyPPF3Patch" /\ UNCHANGED <<ret, disk>>
              /\ UNCHANGED <<job, out, at, loc>>

ApplyPPF1Patch == /\ pc = "ApplyPPF1Patch" /\ pc' = "Record1" /\ at' = HeadLen
                  /\ loc' = Records(loc, HeadLen, 0) /\ UNCHANGED <<job, out, disk, ret>>

\* The two blocks of a validation, in globals that keep what earlier calls
\* left where the patch or the ROM is too short.
ReadBlocks(image) == [loc EXCEPT !.ppfblock = Put(@, 0, Slice(job.patch, HeadLen + FlagLen, BlockLen)),
                             !.binblock = Put(@, 0, Slice(out, BlockAt(image), BlockLen))]
Valid(image) == ReadBlocks(image).ppfblock = ReadBlocks(image).binblock

\* Its result, -1, -2 or 0, is assigned to e and then assigned over.
ApplyPPF2Patch ==
    LET first == HeadLen + FlagLen + BlockLen IN
    /\ pc = "ApplyPPF2Patch" /\ disk' = out
    /\ \E obinlen \in Into(<<>>, Slice(job.patch, HeadLen, FlagLen), FlagLen) :
         \/ LE(obinlen) # Len(out) /\ pc' = "ApplyPPF3Patch" /\ UNCHANGED <<at, loc>>
         \/ LE(obinlen) = Len(out) /\ ~Valid(0) /\ pc' = "ApplyPPF3Patch" /\ loc' = ReadBlocks(0) /\ at' = at
         \/ /\ LE(obinlen) = Len(out) /\ Valid(0)
            /\ pc' = "Record2" /\ loc' = Records(ReadBlocks(0), first, IdPart(job.patch, 2)) /\ at' = first
    /\ UNCHANGED <<job, out, ret>>

\* One turn of the loop of ApplyPPF1Patch and ApplyPPF2Patch, which are the
\* same but for what comes after.
Record12 ==
    /\ pc \in {"Record1", "Record2"}
    /\ \E pos \in Into(loc.pos, Slice(job.patch, at, PosLen), PosLen),
          size \in Into(IF loc.pos = <<>> THEN <<>> ELSE <<loc.anz>>, Slice(job.patch, at + PosLen, 1), 1) :
         LET anz == size[1]
             mem == Put(loc.mem, 0, Slice(job.patch, at + PosLen + 1, anz))
             count == Wrap(loc.count - (PosLen + 1) - anz)
         IN /\ loc' = [loc EXCEPT !.pos = pos, !.anz = anz, !.mem = mem, !.count = count]
            /\ out' = Put(out, LE(pos), SubSeq(mem, 1, anz)) /\ disk' = out
            /\ at' = Wrap(at + PosLen + 1 + anz)
            /\ \/ count # 0 /\ pc' = pc
               \/ count = 0 /\ pc' = IF pc = "Record1" THEN "ApplyPPF2Patch" ELSE "ApplyPPF3Patch"
    /\ UNCHANGED <<job, ret>>

ApplyPPF3Patch ==
    LET image == PatchByte(job.patch, HeadLen)
        checked == PatchByte(job.patch, HeadLen + 1) # 0
        first == HeadLen + FlagLen + IF checked THEN BlockLen ELSE 0
        failed == checked /\ ~Valid(image) /\ ~job.ignore
        read == IF checked THEN ReadBlocks(image) ELSE loc
    IN /\ pc = "ApplyPPF3Patch" /\ disk' = IF checked THEN out ELSE disk
       /\ \/ failed /\ pc' = "done" /\ ret' = -3 /\ loc' = read /\ at' = at
          \/ /\ ~failed /\ pc' = "Record3" /\ at' = first /\ UNCHANGED ret
             /\ loc' = [Records(read, first, IdPart(job.patch, 3)) EXCEPT !.undo = PatchByte(job.patch, HeadLen + 2)]
       /\ UNCHANGED <<job, out>>

\* One turn of the loop of ApplyPPF3Patch: the bytes of an offset that its
\* variable has no room for are written over what lies behind it.
Record3 ==
    LET got == Slice(job.patch, at, OffsetLen)
        high == IF Len(got) > PosLen THEN SubSeq(got, PosLen + 1, Len(got)) ELSE <<>>
        undo == IF loc.spill = "undo" /\ high # <<>> THEN high[1] ELSE loc.undo
        left == IF loc.spill = "count" /\ high # <<>> THEN LE(high) ELSE loc.count
        k == at + Len(got)
        anz == IF k < Len(job.patch) THEN PatchByte(job.patch, k) ELSE loc.anz
        data == Slice(job.patch, k + 1, anz)
        mem == Put(loc.mem, 0, data)
        count == Wrap(left - (OffsetLen + 1) - anz - IF undo # 0 THEN anz ELSE 0)
    IN /\ pc = "Record3"
       /\ \E pos \in Into(loc.pos, got, PosLen) :
            /\ loc' = [loc EXCEPT !.pos = pos, !.anz = anz, !.mem = mem, !.count = count, !.undo = undo]
            /\ out' = Put(out, LE(pos), SubSeq(mem, 1, anz)) /\ disk' = out
       /\ at' = LET next == (IF k < Len(job.patch) THEN k + 1 ELSE k) + Len(data) + IF undo # 0 THEN anz ELSE 0
                IN IF next < Len(job.patch) THEN next ELSE Len(job.patch)
       /\ \/ count # 0 /\ pc' = pc /\ ret' = ret
          \/ count = 0 /\ pc' = "done" /\ ret' = 0
       /\ UNCHANGED job

PpfNext == PPFVersion \/ ApplyPPF1Patch \/ ApplyPPF2Patch \/ Record12 \/ ApplyPPF3Patch \/ Record3

-----------------------------------------------------------------------------
(* A patch of any of the three versions, made for this ROM, has laid all its *)
(* records over it, and no byte of its file_id.diz, by the time the loop of  *)
(* its own version ends: the count of bytes left reaches zero exactly.  For  *)
(* PPF1 and PPF2 that is before the code reads the patch a second time.      *)
PpfOwnPass ==
    job.fmt = "ppf" /\ job.whole /\ job.fits /\ loc.spill = "dead" =>
      /\ job.magic = "PPF1" /\ pc = "ApplyPPF2Patch" => out = job.want
      /\ job.magic = "PPF2" /\ pc = "ApplyPPF3Patch" => out = job.want
      /\ job.magic = "PPF3" /\ pc = "done" /\ ret # Crash => ret = 0 /\ out = job.want

(* "Patching successful." (res/values/strings.xml): when a PPF3 patch made   *)
(* for this ROM has been reported as applied, the file on the disk is the    *)
(* patched one.                                                              *)
PpfSuccessOnDisk ==
    job.fmt = "ppf" /\ job.magic = "PPF3" /\ job.whole /\ job.fits /\ loc.spill = "dead"
      /\ pc = "done" /\ ret = 0 => disk = job.want
=============================================================================
