------------------------------- MODULE ApsGba -------------------------------
(* APSGBAPatcher.java: a patch is a list of chunks, each with the CRCs of    *)
(* the chunk in the original and in the modified file and the exclusive or   *)
(* of the two, and is meant to work in both directions, in place.  A CRC is  *)
(* the chunk it is the CRC of (no collisions).                               *)
EXTENDS PatchIO

CONSTANTS lChunkBytes,    \* 65536
          ChunkHead       \* 8: offset and CRCs of a chunk

\* A chunk of a file, as its CRC is meant.
ChunkOf(f, c) == [i \in 1 .. lChunkBytes |-> IF c.offset + i <= Len(f) THEN f[c.offset + i] ELSE 0]

\* How a patch was made: its chunks do not overlap, the data turns one file's
\* chunk into the other's, and an intact patch has the CRCs of from.
GbaChunks == [offset : Nat, data : [1 .. lChunkBytes -> Byte],
              crc1 : [1 .. lChunkBytes -> Byte], crc2 : [1 .. lChunkBytes -> Byte]]
GbaApart(a, b) == a.offset + lChunkBytes <= b.offset \/ b.offset + lChunkBytes <= a.offset
GbaMade(j) ==
    /\ j.chunks \in Seq(GbaChunks) /\ j.cut \in Nat /\ j.size1 \in Nat /\ j.size2 \in Nat
    /\ (j.whole => j.cut = 0 /\ j.magic = "APS1")
    /\ \A k \in 1 .. Len(j.chunks) : LET c == j.chunks[k] IN
         /\ j.whole => ChunkOf(j.from, c) = c.crc1
         /\ \A i \in 1 .. lChunkBytes : Xor(c.crc1[i], c.data[i]) = c.crc2[i] /\ Xor(c.crc2[i], c.data[i]) = c.crc1[i]
         /\ \A l \in 1 .. Len(j.chunks) : l # k => GbaApart(c, j.chunks[l])
ASSUME ApsGbaAssumption == /\ lChunkBytes \in Nat \ {0} /\ ChunkHead \in Nat
                           /\ \A j \in Jobs("apsgba") : GbaMade(j)

ApsGbaInit == /\ job \in Jobs("apsgba")
              /\ out = job.rom /\ disk = job.rom /\ at = 0      \* at: chunks read
              /\ loc = [lBytesLeft |-> 0, bByteArray1 |-> Fill(lChunkBytes, 0),
                        fIsOriginal |-> FALSE, fIsModified |-> FALSE]
              /\ pc = "ApplyPatch" /\ ret = 0

\* An IOException makes the caller report -5.
ApplyPatch == /\ pc = "ApplyPatch"
              /\ \/ Close(-5) /\ loc' = loc
                 \/ job.magic # "APS1" /\ Close(-1) /\ loc' = loc
                 \/ /\ job.magic = "APS1" /\ pc' = "chunk" /\ UNCHANGED <<ret, disk>>
                    /\ loc' = [loc EXCEPT !.lBytesLeft = Len(job.chunks) * (ChunkHead + lChunkBytes) - job.cut]
              /\ UNCHANGED <<job, out, at>>

\* The chunk of the ROM as its CRC is taken: a short read leaves the rest of
\* the chunk before, and then everything from index left on is zeroed.
SeenUnzeroed(left) ==                                          \* mutant: nothing is zeroed
    Put(loc.bByteArray1, 0, Slice(out, job.chunks[at + 1].offset, lChunkBytes))
Seen(left) ==
    LET got == Put(loc.bByteArray1, 0, Slice(out, job.chunks[at + 1].offset, lChunkBytes))
    IN [i \in 1 .. lChunkBytes |-> IF left < lChunkBytes /\ i > left THEN 0 ELSE got[i]]

\* A chunk with neither CRC is taken for the original's.
AssumedAlways == TRUE                                          \* mutant
Assumed == job.ignore

\* One turn of the loop.  A chunk the patch ends within makes the index
\* negative: ArrayIndexOutOfBoundsException, which nobody catches.
ApplyChunk ==
    LET c == job.chunks[at + 1]
        left == loc.lBytesLeft - lChunkBytes - ChunkHead
        seen == Seen(left)
        new == [i \in 1 .. lChunkBytes |-> Xor(seen[i], c.data[i])]
        both == loc.fIsOriginal /\ loc.fIsModified
        write(flags) == /\ out' = Put(out, c.offset, new) /\ at' = at + 1
                        /\ loc' = [flags EXCEPT !.lBytesLeft = left, !.bByteArray1 = new]
                        /\ UNCHANGED <<pc, ret, disk>>
        stop(r) == Close(r) /\ UNCHANGED <<out, at, loc>>
    IN /\ pc = "chunk" /\ loc.lBytesLeft > 0 /\ UNCHANGED job
       /\ \/ left < 0 /\ stop(Crash)
          \/ left >= 0 /\ seen = c.crc1 /\ both /\ stop(-2)
          \/ left >= 0 /\ seen = c.crc1 /\ ~both /\ write([loc EXCEPT !.fIsOriginal = TRUE])
          \/ left >= 0 /\ seen # c.crc1 /\ seen = c.crc2 /\ both /\ stop(-3)
          \/ left >= 0 /\ seen # c.crc1 /\ seen = c.crc2 /\ ~both /\ write([loc EXCEPT !.fIsModified = TRUE])
          \/ left >= 0 /\ seen \notin {c.crc1, c.crc2} /\ Assumed /\ write([loc EXCEPT !.fIsOriginal = TRUE])
          \/ left >= 0 /\ seen \notin {c.crc1, c.crc2} /\ ~Assumed /\ stop(-4)

\* TruncateFile, to the size that goes with the direction.
TruncateFile == /\ pc = "chunk" /\ loc.lBytesLeft <= 0
                /\ out' = Slice(out, 0, IF loc.fIsOriginal THEN job.size1 ELSE job.size2)
                /\ disk' = out' /\ pc' = "done" /\ ret' = 0
                /\ UNCHANGED <<job, at, loc>>

ApsGbaNext == ApplyPatch \/ ApplyChunk \/ TruncateFile

-----------------------------------------------------------------------------
(* Without "ignore checksums" every chunk of the ROM is at any time what it  *)
(* was, or the original's, or the modified file's, whatever the ROM, and     *)
(* although a short read leaves bytes of the chunk before in the buffer.     *)
ApsGbaKnownChunks ==
    job.fmt = "apsgba" /\ ~job.ignore /\ (pc # "done" \/ ret # 0) =>
      \A k \in DOMAIN job.chunks : LET c == job.chunks[k] IN
        ChunkOf(out, c) \in {ChunkOf(job.rom, c), c.crc1, c.crc2}

(* An intact patch on the file it was made for, which all chunks but the     *)
(* last lie within (behind its end the buffer holds the chunk before): all   *)
(* chunks but the last are patched, and the last one, which the code zeroes  *)
(* before it takes the CRC, is refused with -4 unless it is all zeros in one *)
(* of the two files.                                                         *)
ApsGbaLastChunk ==
    job.fmt = "apsgba" /\ job.whole /\ job.rom = job.from /\ ~job.ignore /\ job.chunks # <<>>
      /\ (\A k \in 1 .. (Len(job.chunks) - 1) : job.chunks[k].offset + lChunkBytes <= Len(job.rom))
      /\ pc = "done" /\ ret # -5 =>
      LET n == Len(job.chunks) IN
      /\ ret = IF Fill(lChunkBytes, 0) \in {job.chunks[n].crc1, job.chunks[n].crc2} THEN 0 ELSE -4
      /\ ret = -4 => \A k \in 1 .. n : ChunkOf(disk, job.chunks[k]) = IF k < n THEN job.chunks[k].crc2
                                                                               ELSE job.chunks[k].crc1
=============================================================================
