-------------------------------- MODULE Bps --------------------------------
(* bpspatch of nall/bps/patch.hpp and its JNI wrapper: the output is built   *)
(* byte by byte from the ROM, from the patch and from itself.  The patch is  *)
(* its list of commands (the variable-length numbers are those of Ups) with  *)
(* the sizes and checksums it carries; a checksum is the content it is the   *)
(* checksum of.  ROM, patch and output are memory-mapped.  The wrapper       *)
(* ignores whether they could be: what was not mapped is then a pointer and  *)
(* a size nobody set (readable, Unopened).                                   *)
EXTENDS PatchIO

CONSTANT BpsLeft        \* what a call on members nobody set may leave as output

Modes == {"SourceRead", "TargetRead", "SourceCopy", "TargetCopy"}
Commands == [mode : Modes, length : Nat, offset : Int, data : File]

\* What a maker of patches writes for the files from and want: marks[k] is
\* where command k starts in the target and where the copies before it ended.
BpsMarks == [pos : Nat, source : Int, target : Int]
\* Byte i of a command is what the target has there.
BpsMakes(j, c, m, i) ==
    LET s == m.source + c.offset + i
        t == m.target + c.offset + i
        b == j.want[m.pos + i]
    IN \/ c.mode = "SourceRead" /\ m.pos + i <= Len(j.from) /\ b = j.from[m.pos + i]
       \/ c.mode = "TargetRead" /\ i <= Len(c.data) /\ b = c.data[i]
       \/ c.mode = "SourceCopy" /\ s \in 1 .. Len(j.from) /\ b = j.from[s]
       \/ c.mode = "TargetCopy" /\ t \in 1 .. (m.pos + i - 1) /\ b = j.want[t]
BpsMade(j) ==
    LET n == Len(j.cmds) IN
    /\ j.magic = "BPS1" /\ ~j.small /\ j.intact
    /\ j.from \in File /\ j.sourceSize = Len(j.from) /\ j.targetSize = Len(j.want)
    /\ j.marks \in [1 .. (n + 1) -> BpsMarks]
    /\ j.marks[1] = [pos |-> 0, source |-> 0, target |-> 0] /\ j.marks[n + 1].pos = Len(j.want)
    /\ \A k \in 1 .. n : LET c == j.cmds[k]
                             m == j.marks[k]
         IN /\ m.pos + c.length <= Len(j.want)
            /\ j.marks[k + 1] = [pos |-> m.pos + c.length,
                 source |-> IF c.mode = "SourceCopy" THEN m.source + c.offset + c.length ELSE m.source,
                 target |-> IF c.mode = "TargetCopy" THEN m.target + c.offset + c.length ELSE m.target]
            /\ \A i \in 1 .. c.length : BpsMakes(j, c, m, i)
ASSUME BpsLeftAssumption == BpsLeft \subseteq File
ASSUME BpsAssumption == \A j \in Jobs("bps") :
    /\ j.small \in BOOLEAN
    /\ j.readable \in BOOLEAN          \* source can map the ROM
    /\ j.targetSize \in Nat /\ j.sourceSize \in Nat /\ j.cmds \in Seq(Commands)
    /\ j.whole => BpsMade(j)

BpsInit == /\ job \in Jobs("bps")
           /\ out = <<>> /\ disk = <<>> /\ at = 0               \* at: commands read
           /\ loc = [mode |-> "none", length |-> 0, outputOffset |-> 0, sourceRelativeOffset |-> 0,
                     targetRelativeOffset |-> 0, written |-> <<>>]
           /\ pc = "modify" /\ ret = 1

\* modify, source and target, whose results are ignored.  A patch that is too
\* small or not there, or an output that cannot be mapped, leaves members that
\* apply reads and writes through unset: any of its results, with any output.
Unopened == \E r \in (-7 .. 0) \cup {Crash}, f \in BpsLeft :
                pc' = "done" /\ ret' = r /\ out' = f /\ disk' = f
\* target gives the output its size.
Modify == /\ pc = "modify"
          /\ \/ Unopened /\ loc' = [loc EXCEPT !.mode = "unopened"]
             \/ ~job.small /\ pc' = "apply" /\ out' = Fill(job.targetSize, 0) /\ UNCHANGED <<ret, disk, loc>>
          /\ UNCHANGED <<job, at>>

\* Without the ROM the size compared is one nobody set.
Apply == /\ pc = "apply"
         /\ \/ job.magic # "BPS1" /\ Close(-2)
            \/ job.magic = "BPS1" /\ (~job.readable \/ job.sourceSize > Len(job.rom)) /\ Close(-3)
            \/ /\ job.magic = "BPS1" /\ (~job.readable \/ job.sourceSize <= Len(job.rom))
               /\ pc' = "command" /\ UNCHANGED <<ret, disk>>
         /\ UNCHANGED <<job, out, at, loc>>

\* The head of a command: the relative offsets are kept between commands.
CommandAbsolute ==                                             \* mutant: offsets from the start
    LET c == job.cmds[at + 1] IN
    /\ pc = "command" /\ at < Len(job.cmds) /\ pc' = "byte" /\ at' = at + 1
    /\ loc' = [loc EXCEPT !.mode = c.mode, !.length = c.length,
                 !.sourceRelativeOffset = IF c.mode = "SourceCopy" THEN c.offset ELSE @,
                 !.targetRelativeOffset = IF c.mode = "TargetCopy" THEN c.offset ELSE @]
    /\ UNCHANGED <<job, out, disk, ret>>
Command ==
    LET c == job.cmds[at + 1] IN
    /\ pc = "command" /\ at < Len(job.cmds) /\ pc' = "byte" /\ at' = at + 1
    /\ loc' = [loc EXCEPT !.mode = c.mode, !.length = c.length,
                 !.sourceRelativeOffset = IF c.mode = "SourceCopy" THEN @ + c.offset ELSE @,
                 !.targetRelativeOffset = IF c.mode = "TargetCopy" THEN @ + c.offset ELSE @]
    /\ UNCHANGED <<job, out, disk, ret>>

\* A byte of a mapped file; behind its end anything.
Mapped(f, k) == IF k \in 0 .. (Len(f) - 1) THEN {f[k + 1]} ELSE Byte
\* Of a ROM that is not mapped no byte is inside.
sourceData == IF job.readable THEN job.rom ELSE <<>>
Sources == LET c == job.cmds[at] IN
           [SourceRead |-> <<sourceData, loc.outputOffset>>,
            TargetRead |-> <<c.data, c.length - loc.length>>,
            SourceCopy |-> <<sourceData, loc.sourceRelativeOffset>>,
            TargetCopy |-> <<out, loc.targetRelativeOffset>>][loc.mode]
Outside(f, k) == k \notin 0 .. (Len(f) - 1)

\* One byte of a command.  An access behind the end of a mapping kills the
\* process, or within its last page is lost.
BpsByte ==
    LET s == Sources IN
    /\ pc = "byte"
    /\ \/ loc.length = 0 /\ pc' = "command" /\ UNCHANGED <<out, disk, loc, ret>>
       \/ /\ loc.length > 0 /\ (Outside(s[1], s[2]) \/ Outside(out, loc.outputOffset))
          /\ Close(Crash) /\ UNCHANGED <<out, loc>>
       \/ /\ loc.length > 0 /\ UNCHANGED <<pc, disk, ret>>
          /\ \E b \in Mapped(s[1], s[2]) :
               /\ out' = IF Outside(out, loc.outputOffset) THEN out
                         ELSE [out EXCEPT ![loc.outputOffset + 1] = b]
               /\ loc' = [loc EXCEPT !.length = @ - 1, !.outputOffset = @ + 1, !.written = Append(@, b),
                            !.sourceRelativeOffset = IF loc.mode = "SourceCopy" THEN @ + 1 ELSE @,
                            !.targetRelativeOffset = IF loc.mode = "TargetCopy" THEN @ + 1 ELSE @]
    /\ UNCHANGED <<job, at>>

\* The three checksums, in the order in which they are compared.
ChecksumNone == /\ pc = "command" /\ at = Len(job.cmds) /\ Close(0)      \* mutant
                /\ UNCHANGED <<job, out, at, loc>>
SourceSums == IF job.readable THEN {Slice(job.rom, 0, job.sourceSize) = job.from} ELSE BOOLEAN
Checksum ==
    LET target == loc.written = job.want
    IN /\ pc = "command" /\ at = Len(job.cmds)
       /\ \/ ~job.readable /\ Close(Crash)
          \/ \E source \in SourceSums :
               \/ ~job.ignore /\ ~source /\ Close(-5)
               \/ ~job.ignore /\ source /\ ~target /\ Close(-6)
               \/ ~job.ignore /\ source /\ target /\ ~job.intact /\ Close(-7)
               \/ (job.ignore \/ (source /\ target /\ job.intact)) /\ Close(0)
       /\ UNCHANGED <<job, out, at, loc>>

BpsNext == Modify \/ Apply \/ Command \/ BpsByte \/ Checksum

-----------------------------------------------------------------------------
(* A patch that describes the two files, applied to the first one (or to a   *)
(* longer file that starts with it), gives the second, whatever mixture of   *)
(* commands it is, those that copy from output they are still writing        *)
(* included, if the three files could be mapped.                             *)
BpsExact ==
    job.fmt = "bps" /\ job.whole /\ job.readable /\ pc = "done" /\ loc.mode # "unopened"
      /\ Slice(job.rom, 0, job.sourceSize) = job.from => ret = 0 /\ disk = job.want

(* Without "ignore checksums" a success means that the output file is the    *)
(* one the patch was made for, for any list of commands, even when the       *)
(* ignored failure was that of opening the ROM and what is read in its place *)
(* is anything: the checksum of the bytes written stands in for it.  When    *)
(* patch or output was not opened nothing is promised: such a call may       *)
(* report a success over any output.                                         *)
BpsChecked ==
    job.fmt = "bps" /\ loc.mode # "unopened" /\ pc = "done" /\ ret = 0 /\ ~job.ignore
      /\ job.targetSize = Len(job.want) => disk = job.want
=============================================================================
