------------------------------- MODULE Bsdiff -------------------------------
(* bspatch.c and its JNI wrapper: the output is built in memory from control *)
(* triples and written at the end.  The three bzip2 streams are what they    *)
(* decompress to: triples, diff bytes, extra bytes.                          *)
EXTENDS PatchIO

Triples == [x : Int, y : Int, z : Int]

\* What bsdiff makes of two files: marks[k] is where triple k starts in the
\* new and the old file and in the two streams.
BsMarks == [new : Nat, oldpos : Int, diff : Nat, extra : Nat]
BsMade(j) ==
    LET n == Len(j.ctrl) IN
    /\ j.magic = "BSDIFF40" /\ j.newsize = Len(j.want)
    /\ j.marks \in [1 .. (n + 1) -> BsMarks]
    /\ j.marks[1] = [new |-> 0, oldpos |-> 0, diff |-> 0, extra |-> 0] /\ j.marks[n + 1].new = Len(j.want)
    /\ \A k \in 1 .. n : LET c == j.ctrl[k]
                             m == j.marks[k]
         IN /\ m.new < Len(j.want) /\ c.x \in Nat /\ c.y \in Nat
            /\ m.diff + c.x <= Len(j.diff) /\ m.extra + c.y <= Len(j.extra)
            /\ j.marks[k + 1] = [new |-> m.new + c.x + c.y, oldpos |-> m.oldpos + c.x + c.z,
                                 diff |-> m.diff + c.x, extra |-> m.extra + c.y]
            /\ m.new + c.x + c.y <= Len(j.want)
            /\ \A i \in 1 .. c.x : LET o == m.oldpos + i IN
                 j.want[m.new + i] = (j.diff[m.diff + i] + IF o \in 1 .. Len(j.rom) THEN j.rom[o] ELSE 0) % Base
            /\ \A i \in 1 .. c.y : j.want[m.new + c.x + i] = j.extra[m.extra + i]
ASSUME BsAssumption == \A j \in Jobs("bsdiff") :
    /\ j.newsize \in Int /\ j.diff \in File /\ j.extra \in File /\ j.ctrl \in Seq(Triples)
    /\ j.whole => BsMade(j)

\* The wrapper has emptied the output before the patch is looked at.
BsInit == /\ job \in Jobs("bsdiff")
          /\ out = <<>> /\ disk = <<>> /\ at = 0                \* at: triples read
          /\ loc = [new |-> <<>>, oldpos |-> 0, diff |-> 0, extra |-> 0]
          /\ pc = "header" /\ ret = 0

\* 1: a file operation fails; 2: the header is short, or not one.
bspatch_header == /\ pc = "header"
                  /\ \/ \E r \in {1, Crash} : Close(r)
                     \/ (job.magic # "BSDIFF40" \/ job.newsize < 0) /\ Close(2)
                     \/ /\ job.magic = "BSDIFF40" /\ job.newsize >= 0
                        /\ pc' = "control" /\ UNCHANGED <<ret, disk>>
                  /\ UNCHANGED <<job, out, at, loc>>

\* BZ2_bzRead of n bytes at k of a stream: a negative n is an error.
Readable(s, k, n) == n >= 0 /\ k + n <= Len(s)

FitsAlways(n) == TRUE                                          \* mutant
Fits(n) == n <= job.newsize
\* Byte i of the old file; where it has none nothing is added.
OldByteNearest(i) == job.rom[Max({1, Min({i, Len(job.rom)})})]   \* mutant
OldByte(i) == IF i \in 1 .. Len(job.rom) THEN job.rom[i] ELSE 0

\* One triple: x bytes of diff added to the old file, where it has bytes,
\* then y bytes of extra, then z forwards in the old file.
Control ==
    LET c == job.ctrl[at + 1]
        newpos == Len(loc.new)
        read == /\ at < Len(job.ctrl)
                /\ Fits(newpos + c.x) /\ Readable(job.diff, loc.diff, c.x)
                /\ Fits(newpos + c.x + c.y) /\ Readable(job.extra, loc.extra, c.y)
        sum == [i \in 1 .. c.x |-> (job.diff[loc.diff + i] + OldByte(loc.oldpos + i)) % Base]
    IN /\ pc = "control" /\ newpos < job.newsize
       /\ \/ ~read /\ Close(2) /\ UNCHANGED <<at, loc>>
          \/ /\ read /\ at' = at + 1 /\ UNCHANGED <<pc, ret, disk>>
             /\ loc' = [new |-> loc.new \o sum \o Slice(job.extra, loc.extra, c.y),
                        oldpos |-> loc.oldpos + c.x + c.z,
                        diff |-> loc.diff + c.x, extra |-> loc.extra + c.y]
       /\ UNCHANGED <<job, out>>

\* Write the new file; a failure may leave part of it.
WriteNew == /\ pc = "control" /\ Len(loc.new) >= job.newsize /\ pc' = "done"
            /\ \/ out' = loc.new /\ ret' = 0
               \/ (\E n \in 0 .. job.newsize : out' = Slice(loc.new, 0, n)) /\ ret' = 1
            /\ disk' = out' /\ UNCHANGED <<job, at, loc>>

BsNext == bspatch_header \/ Control \/ WriteNew

-----------------------------------------------------------------------------
(* A patch that describes the two files, applied to the first, gives the     *)
(* second unless a file operation fails; triples that step back before the   *)
(* start of the old file or past its end included.                           *)
BsExact ==
    job.fmt = "bsdiff" /\ job.whole /\ pc = "done" /\ ret \notin {1, Crash} => ret = 0 /\ disk = job.want

(* Whatever the triples say, negative lengths included, the new file never   *)
(* outgrows the buffer that newsize allocated, and what is reported as       *)
(* success has exactly that size.                                            *)
BsFits == job.fmt = "bsdiff" => /\ Len(loc.new) <= (IF job.newsize < 0 THEN 0 ELSE job.newsize)
                                /\ pc = "done" /\ ret = 0 => Len(disk) = job.newsize
=============================================================================
