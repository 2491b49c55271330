------------------------------- MODULE ApsN64 -------------------------------
(* n64aps.c, run as main("-f", ROM, patch): the ROM is resized, then changed *)
(* in place.  The headers are a field of the job: match is "same" if they    *)
(* describe the ROM, "other" if its country or CRC differ, "wrong" if the    *)
(* patch is none or is for another cartridge.  The patch is what follows the *)
(* headers, the new size included.  Every rejection is an exit(1).           *)
EXTENDS PatchIO

CONSTANTS LongLen         \* 4: a long in the 32-bit builds

\* The stream of an intact patch: the new size and the records.
N64Records == [offset : Nat, data : File, rle : BOOLEAN]
N64Made(j) ==
    LET n == Len(j.recs)
        long(k) == LE(Slice(j.patch, k, LongLen))
    IN /\ j.size \in Nat /\ j.recs \in Seq(N64Records)
       /\ Laid(j, [i \in 1 .. j.size |-> IF i <= Len(j.rom) THEN j.rom[i] ELSE 0])
       /\ LongLen <= Len(j.patch) /\ long(0) = j.size
       /\ j.pos[1] = LongLen /\ j.pos[n + 1] = Len(j.patch)
       /\ \A k \in 1 .. n : LET r == j.recs[k]
                                p == j.pos[k] + LongLen + 1
            IN /\ j.pos[k + 1] <= Len(j.patch) /\ long(j.pos[k]) = r.offset
               /\ \/ /\ ~r.rle /\ j.patch[p] = Len(r.data) /\ r.data # <<>> /\ j.pos[k + 1] = p + Len(r.data)
                     /\ \A i \in 1 .. Len(r.data) : r.data[i] = j.patch[p + i]
                  \/ /\ r.rle /\ j.patch[p] = 0 /\ j.patch[p + 2] = Len(r.data) /\ j.pos[k + 1] = p + 2
                     /\ \A i \in 1 .. Len(r.data) : r.data[i] = j.patch[p + 1]
ASSUME N64Assumption == LongLen \in 1 .. 4 /\ \A j \in Jobs("apsn64") : j.whole => N64Made(j)

\* optind is a global nobody resets: in a later call of the same process
\* getopt starts behind "-f" and Force stays 0.
N64Init == /\ job \in Jobs("apsn64")
           /\ out = job.rom /\ disk = job.rom /\ at = 0
           /\ \E b \in Byte : loc = [Force |-> ~job.again, Size |-> <<>>, Buffer |-> Fill(Base - 1, b), n |-> 0]
           /\ pc = "ReadHeaders" /\ ret = 0

\* CheckFile, ReadStdHeader and ReadN64Header.
ReadHeaders == /\ pc = "ReadHeaders"
               /\ \/ Close(1)
                  \/ (job.match = "wrong" \/ (job.match = "other" /\ ~loc.Force)) /\ Close(Crash)
                  \/ /\ job.match = "same" \/ (job.match = "other" /\ loc.Force)
                     /\ pc' = "ReadSizeHeader" /\ UNCHANGED <<ret, disk>>
               /\ UNCHANGED <<job, out, at, loc>>

\* The ROM cut, or padded with zeros, to n bytes.
SizedUp(n) == [i \in 1 .. Max({n, Len(out)}) |-> IF i <= Len(out) THEN out[i] ELSE 0]      \* mutant: never cut
Sized(n) == [i \in 1 .. n |-> IF i <= Len(out) THEN out[i] ELSE 0]
ReadSizeHeader ==
    /\ pc = "ReadSizeHeader" /\ pc' = "ReadPatch"
    /\ \E s \in Into(<<>>, Slice(job.patch, 0, LongLen), LongLen) :
         out' = Sized(LE(s))
    /\ at' = Len(Slice(job.patch, 0, LongLen))
    /\ UNCHANGED <<job, disk, loc, ret>>

\* One turn of the loop.  Only the offset's read is checked; the others leave
\* what the variables held.
ReadPatch ==
    LET o == Slice(job.patch, at, LongLen)
        s == at + LongLen
        k == s + 1
    IN /\ pc = "ReadPatch" /\ UNCHANGED job
       /\ \/ Len(o) < LongLen /\ Close(0) /\ UNCHANGED <<out, at, loc>>
          \/ /\ Len(o) = LongLen /\ UNCHANGED <<disk, pc, ret>>
             /\ \E size \in Into(loc.Size, Slice(job.patch, s, 1), 1) :
                  \/ LET got == Slice(job.patch, k, size[1])
                         buffer == Put(loc.Buffer, 0, got)
                     IN /\ size[1] # 0
                        /\ out' = Put(out, LE(o), SubSeq(buffer, 1, size[1]))
                        /\ loc' = [loc EXCEPT !.Size = size, !.Buffer = buffer, !.n = @ + 1]
                        /\ at' = at + LongLen + Len(Slice(job.patch, s, 1)) + Len(got)
                  \/ \E data \in Into(<<>>, Slice(job.patch, k, 1), 1), len \in Into(<<>>, Slice(job.patch, k + 1, 1), 1) :
                       /\ size[1] = 0
                       /\ out' = Put(out, LE(o), Fill(len[1], data[1]))
                       /\ loc' = [loc EXCEPT !.Size = size, !.n = @ + 1]
                       /\ at' = at + LongLen + Len(Slice(job.patch, s, 3))

N64Next == ReadHeaders \/ ReadSizeHeader \/ ReadPatch

-----------------------------------------------------------------------------
(* An intact patch for this cartridge resizes the ROM, lays its records over *)
(* it and is reported as applied; for another country or CRC only in the     *)
(* first call of the process, where "-f" is seen.                            *)
N64Exact ==
    job.fmt = "apsn64" /\ job.whole /\ pc = "done" /\ ret # 1
      /\ (job.match = "same" \/ (job.match = "other" /\ ~job.again)) => ret = 0 /\ disk = job.want
=============================================================================
