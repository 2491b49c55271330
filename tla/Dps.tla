-------------------------------- MODULE Dps --------------------------------
(* dpspatcher.c: the output is written anew, from pieces of the patch and of *)
(* the ROM.  The patch is the stream behind its header, whose flag and size  *)
(* are fields of the job.  The output's stream is not closed on success.     *)
EXTENDS PatchIO

CONSTANTS FieldLen,       \* 4: an unsigned int
          MaxJunk         \* bound on what an uninitialised field may hold

ENCLOSED_DATA == 1
COPY_DATA == 0

\* The stream of an intact patch for this ROM: the records of DpsRecords.
DpsRecords == [mode : {ENCLOSED_DATA, COPY_DATA}, offset : Nat, x : Nat, data : File]
DpsMade(j) ==
    LET n == Len(j.recs)
        field(k) == LE(Slice(j.patch, k, FieldLen))
    IN /\ j.recs \in Seq(DpsRecords) /\ Laid(j, <<>>)
       /\ j.pos[1] = 0 /\ j.pos[n + 1] = Len(j.patch)
       /\ \A k \in 1 .. n : LET r == j.recs[k]
                                p == j.pos[k] + 1 + FieldLen
            IN /\ j.pos[k + 1] <= Len(j.patch)
               /\ j.patch[j.pos[k] + 1] = r.mode /\ field(j.pos[k] + 1) = r.offset
               /\ \/ /\ r.mode = ENCLOSED_DATA /\ field(p) = Len(r.data)
                     /\ j.pos[k + 1] = p + FieldLen + Len(r.data)
                     /\ \A i \in 1 .. Len(r.data) : r.data[i] = j.patch[p + FieldLen + i]
                  \/ /\ r.mode = COPY_DATA /\ field(p) = r.x /\ field(p + FieldLen) = Len(r.data)
                     /\ j.pos[k + 1] = p + 2 * FieldLen /\ r.x + Len(r.data) <= Len(j.rom)
                     /\ \A i \in 1 .. Len(r.data) : r.data[i] = j.rom[r.x + i]
ASSUME DpsAssumption == /\ FieldLen \in 1 .. 4 /\ MaxJunk \in Nat
                        /\ Base > 2                    \* 0xff is no mode
                        /\ \A j \in Jobs("dps") : j.whole => DpsMade(j)

DpsInit == /\ job \in Jobs("dps")
           /\ out = <<>> /\ disk = <<>> /\ at = 0
           /\ loc = [feof |-> FALSE] /\ pc = "dpspatch" /\ ret = 0

\* A file that does not open is not noticed: the process dies.
dpspatch == /\ pc = "dpspatch"
            /\ \/ Abandon(Crash)
               \/ Len(job.rom) # job.size /\ Close(-2)
               \/ /\ Len(job.rom) = job.size /\ pc' = "record" /\ disk' = disk
                  /\ ret' = IF job.unstable THEN -3 ELSE 0
            /\ UNCHANGED <<job, out, at, loc>>

\* fread of an int: junk if the patch ends within it.
Field(k) == LET s == Slice(job.patch, k, FieldLen) IN
            IF Len(s) = FieldLen THEN {LE(s)} ELSE 0 .. MaxJunk
\* length times fputc(fgetc(f)): 0xff past the end of f.
Copied(f, k, length) == [i \in 1 .. length |-> IF k + i <= Len(f) THEN f[k + i] ELSE Base - 1]
EndsAtLast(k) == k >= Len(job.patch)   \* mutant: the end is seen with the last byte
Ends(k) == k > Len(job.patch)          \* a read up to k met the end of the patch
Stop(k) == IF Ends(k) THEN Len(job.patch) ELSE k

\* One turn of the loop; its fseek flushes what the turn before wrote.
DpsRecord ==
    LET mode == IF at < Len(job.patch) THEN job.patch[at + 1] ELSE Base - 1
        k == at + 1 + FieldLen
    IN /\ pc = "record" /\ ~loc.feof /\ disk' = out
       /\ \E offset \in Field(at + 1), x \in Field(k), y \in Field(k + FieldLen) :
            \/ /\ mode = ENCLOSED_DATA
               /\ out' = Put(out, offset, Copied(job.patch, k + FieldLen, x))
               /\ loc' = [feof |-> Ends(k + FieldLen + x)] /\ at' = Stop(k + FieldLen + x)
            \/ /\ mode = COPY_DATA
               /\ out' = Put(out, offset, Copied(job.rom, x, y))
               /\ loc' = [feof |-> Ends(k + 2 * FieldLen)] /\ at' = Stop(k + 2 * FieldLen)
            \/ /\ mode \notin {ENCLOSED_DATA, COPY_DATA} /\ out' = out
               /\ loc' = [feof |-> Ends(k)] /\ at' = Stop(k)
       /\ UNCHANGED <<job, pc, ret>>

DpsFinish == /\ pc = "record" /\ loc.feof /\ Abandon(ret)
             /\ UNCHANGED <<job, out, at, loc>>

DpsNext == dpspatch \/ DpsRecord \/ DpsFinish

-----------------------------------------------------------------------------
(* An intact patch for a ROM of this size leaves the file it describes, and  *)
(* all of it on the disk although nobody closes it, and is reported as       *)
(* applied, or as unstable.                                                  *)
DpsExact == job.fmt = "dps" /\ job.whole /\ Len(job.rom) = job.size /\ pc = "done" /\ ret # Crash =>
              disk = job.want /\ ret = (IF job.unstable THEN -3 ELSE 0)
=============================================================================
