--------------------------- MODULE RebuildProofs ---------------------------
(* The patchers that build the output anew, bsdiff and BPS, give the file a  *)
(* patch was made for, and UPS patches either of two files into the other:   *)
(* for every intact patch, whatever its length, and every ROM it was made    *)
(* for.                                                                      *)
EXTENDS FormatProofs, SequenceTheorems

(* Files of one length with the same bytes are the same.                     *)
LEMMA SameFile == ASSUME NEW f \in File, NEW g \in File, Len(f) = Len(g), \A i \in 1 .. Len(f) : f[i] = g[i]
                  PROVE  f = g
  BY SeqEqual DEF File

(* Where a byte of two files in a row comes from.                            *)
LEMMA ConcatBytes == ASSUME NEW f \in File, NEW g \in File, NEW i \in 1 .. (Len(f) + Len(g))
                     PROVE  (f \o g)[i] = IF i <= Len(f) THEN f[i] ELSE g[i - Len(f)]
  BY DEF File

(* The bytes of a read that the file can satisfy.                            *)
LEMMA SliceBytes == ASSUME NEW f \in File, NEW k \in Nat, NEW n \in Nat, k + n <= Len(f), NEW i \in 1 .. n
                    PROVE  Slice(f, k, n)[i] = f[k + i]
<1>1. Slice(f, k, n) = SubSeq(f, k + 1, k + n)
  BY DEF Slice, File
<1> QED  BY <1>1 DEF File

(* A file that agrees with w as far as it goes still does when the bytes of  *)
(* w that come next are appended.                                            *)
IsPrefixOf(f, w) == Len(f) <= Len(w) /\ \A i \in 1 .. Len(f) : f[i] = w[i]
LEMMA PrefixGrows ==
    ASSUME NEW f \in File, NEW g \in File, NEW w \in File, IsPrefixOf(f, w),
           Len(f) + Len(g) <= Len(w), \A i \in 1 .. Len(g) : g[i] = w[Len(f) + i]
    PROVE  f \o g \in File /\ Len(f \o g) = Len(f) + Len(g) /\ IsPrefixOf(f \o g, w)
<1>1. f \o g \in File /\ Len(f \o g) = Len(f) + Len(g) /\ Len(f) \in Nat /\ Len(g) \in Nat
  BY ConcatFile DEF File
<1>2. ASSUME NEW i \in 1 .. (Len(f) + Len(g)) PROVE (f \o g)[i] = w[i]
  <2>1. CASE i <= Len(f)
    BY <1>1, <2>1, ConcatBytes DEF IsPrefixOf
  <2>2. CASE i > Len(f)
    <3>1. i - Len(f) \in 1 .. Len(g) /\ Len(f) + (i - Len(f)) = i
      BY <1>1, <2>2
    <3> QED  BY <1>1, <2>2, <3>1, ConcatBytes
  <2> QED  BY <1>1, <2>1, <2>2
<1> QED  BY <1>1, <1>2 DEF IsPrefixOf

-----------------------------------------------------------------------------
(* bsdiff: after each triple the new file is the target up to where the next *)
(* triple starts, and so are the positions in the old file and the streams.  *)
BsPrefix == /\ Len(loc.new) = job.marks[at + 1].new /\ loc.oldpos = job.marks[at + 1].oldpos
            /\ loc.diff = job.marks[at + 1].diff /\ loc.extra = job.marks[at + 1].extra
            /\ \A i \in 1 .. Len(loc.new) : loc.new[i] = job.want[i]
BsExactIInv == /\ job.whole /\ pc \in {"header", "control"} => BsPrefix
               /\ BsExact

(* What the marks of an intact patch say of the triple that is read next.    *)
LEMMA BsNextMark ==
    ASSUME BsIInv, job.whole, BsPrefix, Len(loc.new) < job.newsize, NEW c, c = job.ctrl[at + 1]
    PROVE  /\ at < Len(job.ctrl) /\ at + 1 \in 1 .. Len(job.ctrl)
           /\ c.x \in Nat /\ c.y \in Nat /\ c.z \in Int
           /\ Fits(Len(loc.new) + c.x) /\ Readable(job.diff, loc.diff, c.x)
           /\ Fits(Len(loc.new) + c.x + c.y) /\ Readable(job.extra, loc.extra, c.y)
           /\ Len(loc.new) + c.x + c.y <= Len(job.want)
           /\ job.marks[at + 2] = [new |-> Len(loc.new) + c.x + c.y, oldpos |-> loc.oldpos + c.x + c.z,
                                   diff |-> loc.diff + c.x, extra |-> loc.extra + c.y]
           /\ \A i \in 1 .. c.x : job.want[Len(loc.new) + i] = (job.diff[loc.diff + i] + OldByte(loc.oldpos + i)) % Base
           /\ \A i \in 1 .. c.y : job.want[Len(loc.new) + c.x + i] = job.extra[loc.extra + i]
<1>1. job \in Jobs("bsdiff") /\ at \in 0 .. Len(job.ctrl) /\ loc.new \in File
  BY DEF BsIInv, BsType
<1>2. BsMade(job) /\ job.ctrl \in Seq(Triples) /\ job.want \in File
  BY <1>1, BsAssumption, JobAssumption DEF AllFormats, IsJob
<1>3. Len(job.ctrl) \in Nat /\ Len(loc.new) \in Nat /\ Len(job.want) \in Nat
  BY <1>1, <1>2 DEF File
<1>4. at # Len(job.ctrl)
  <2>1. job.marks[Len(job.ctrl) + 1].new = Len(job.want) /\ job.newsize = Len(job.want)
    BY <1>2, Zenon DEF BsMade
  <2>2. Len(loc.new) = job.marks[at + 1].new
    BY DEF BsPrefix
  <2>3. Len(loc.new) # job.newsize
    BY <1>3, <2>1
  <2> QED  BY <2>1, <2>2, <2>3
<1>5. at + 1 \in 1 .. Len(job.ctrl) /\ at + 1 + 1 = at + 2
  BY <1>1, <1>3, <1>4
<1>6. c.z \in Int
  <2>1. c \in Triples
    BY <1>2, <1>5
  <2> QED  BY <2>1 DEF Triples
<1> DEFINE m == job.marks[at + 1]
<1>7. /\ c.x \in Nat /\ c.y \in Nat /\ m.diff + c.x <= Len(job.diff) /\ m.extra + c.y <= Len(job.extra)
      /\ job.marks[at + 2] = [new |-> m.new + c.x + c.y, oldpos |-> m.oldpos + c.x + c.z,
                              diff |-> m.diff + c.x, extra |-> m.extra + c.y]
      /\ m.new + c.x + c.y <= Len(job.want)
      /\ \A i \in 1 .. c.x : job.want[m.new + i] = (job.diff[m.diff + i] + OldByte(m.oldpos + i)) % Base
      /\ \A i \in 1 .. c.y : job.want[m.new + c.x + i] = job.extra[m.extra + i]
  BY <1>2, <1>5, ZenonT(40), SMTT(30) DEF BsMade, OldByte
<1>8. m.new = Len(loc.new) /\ m.oldpos = loc.oldpos /\ m.diff = loc.diff /\ m.extra = loc.extra
  BY DEF BsPrefix
<1>9. job.newsize = Len(job.want)
  BY <1>2 DEF BsMade
<1>10. at < Len(job.ctrl)
  BY <1>1, <1>3, <1>4
<1>11. Readable(job.diff, loc.diff, c.x) /\ Readable(job.extra, loc.extra, c.y)
  BY <1>7, <1>8 DEF Readable
<1>12. Len(loc.new) + c.x + c.y <= Len(job.want)
  BY <1>7, <1>8
<1>13. Fits(Len(loc.new) + c.x) /\ Fits(Len(loc.new) + c.x + c.y)
  <2>1. PICK x \in Nat, y \in Nat : x = c.x /\ y = c.y
    BY <1>7, Zenon
  <2>2. Len(loc.new) + x + y <= job.newsize
    BY <1>9, <1>12, <2>1
  <2>3. Len(loc.new) + x <= job.newsize
    <3>1. job.newsize \in Nat
      BY <1>3, <1>9
    <3> QED  BY <1>3, <2>2, <3>1
  <2> QED  BY <2>1, <2>2, <2>3, Zenon DEF Fits
<1>14. /\ job.marks[at + 2] = [new |-> Len(loc.new) + c.x + c.y, oldpos |-> loc.oldpos + c.x + c.z,
                               diff |-> loc.diff + c.x, extra |-> loc.extra + c.y]
       /\ \A i \in 1 .. c.x : job.want[Len(loc.new) + i] = (job.diff[loc.diff + i] + OldByte(loc.oldpos + i)) % Base
       /\ \A i \in 1 .. c.y : job.want[Len(loc.new) + c.x + i] = job.extra[loc.extra + i]
  BY <1>7, <1>8, ZenonT(40), SMTT(30)
<1>15. c.x \in Nat /\ c.y \in Nat
  BY <1>7, Zenon
<1> QED  BY <1>5, <1>6, <1>10, <1>11, <1>12, <1>13, <1>14, <1>15, Zenon

(* The new file after a triple.                                              *)
LEMMA BsTriple ==
    ASSUME BsIInv, job.whole, BsPrefix, Control
    PROVE  BsPrefix' /\ pc' = "control" /\ ret' = ret /\ job' = job
<1>c. SUFFICES ASSUME NEW c, c = job.ctrl[at + 1], NEW L, L = Len(loc.new)
               PROVE  BsPrefix' /\ pc' = "control" /\ ret' = ret /\ job' = job
  OBVIOUS
<1>1. pc = "control" /\ L < job.newsize
  BY <1>c DEF Control
<1>2. /\ at < Len(job.ctrl) /\ Fits(L + c.x) /\ Readable(job.diff, loc.diff, c.x)
      /\ Fits(L + c.x + c.y) /\ Readable(job.extra, loc.extra, c.y)
      /\ job.marks[at + 2] = [new |-> L + c.x + c.y, oldpos |-> loc.oldpos + c.x + c.z,
                              diff |-> loc.diff + c.x, extra |-> loc.extra + c.y]
  BY <1>c, <1>1, BsNextMark
<1>n. c.x \in Nat /\ c.y \in Nat /\ L + c.x + c.y <= Len(job.want)
  BY <1>c, <1>1, BsNextMark
<1>w. /\ \A i \in 1 .. c.x : job.want[L + i] = (job.diff[loc.diff + i] + OldByte(loc.oldpos + i)) % Base
      /\ \A i \in 1 .. c.y : job.want[L + c.x + i] = job.extra[loc.extra + i]
  BY <1>c, <1>1, BsNextMark
<1>d. SUFFICES ASSUME NEW sum, sum = [i \in 1 .. c.x |-> (job.diff[loc.diff + i] + OldByte(loc.oldpos + i)) % Base],
                      NEW tail, tail = Slice(job.extra, loc.extra, c.y)
               PROVE  BsPrefix' /\ pc' = "control" /\ ret' = ret /\ job' = job
  OBVIOUS
<1>3. /\ UNCHANGED <<job, pc, ret>> /\ at' = at + 1
      /\ loc' = [new |-> loc.new \o sum \o tail, oldpos |-> loc.oldpos + c.x + c.z,
                 diff |-> loc.diff + c.x, extra |-> loc.extra + c.y]
  BY <1>c, <1>d, <1>2 DEF Control
<1>4. /\ loc.new \in File /\ loc.diff \in Nat /\ loc.extra \in Nat /\ at \in Nat
      /\ job.want \in File /\ job.extra \in File /\ job.diff \in File /\ job.rom \in File
  <2>1. job \in Jobs("bsdiff")
    BY DEF BsIInv, BsType
  <2> QED  BY <2>1, BsJob, JobAssumption DEF BsIInv, BsType, AllFormats, IsJob
<1>5. L \in Nat /\ Len(job.want) \in Nat
  BY <1>c, <1>4 DEF File
<1>6. sum \in File /\ Len(sum) = c.x /\ \A i \in 1 .. c.x : sum[i] = job.want[L + i]
  <2>1. \A i \in 1 .. c.x : sum[i] = job.want[L + i]
    BY <1>d, <1>w
  <2>2. \A i \in 1 .. c.x : L + i \in 1 .. Len(job.want)
    BY <1>n, <1>5
  <2>3. \A i \in 1 .. c.x : sum[i] \in Byte
    BY <1>4, <2>1, <2>2, FileBytes
  <2>4. sum \in [1 .. c.x -> Byte]
    BY <1>d, <2>3
  <2> QED  BY <1>n, <2>1, <2>4 DEF File
<1>7. tail \in File /\ Len(tail) = c.y /\ \A i \in 1 .. c.y : tail[i] = job.want[L + c.x + i]
  <2>1. loc.extra + c.y <= Len(job.extra)
    BY <1>2 DEF Readable
  <2>2. tail \in File /\ Len(tail) = c.y
    BY <1>d, <1>n, <1>4, <2>1, SliceFile
  <2>3. \A i \in 1 .. c.y : tail[i] = job.extra[loc.extra + i]
    BY <1>d, <1>n, <1>4, <2>1, SliceBytes
  <2> QED  BY <1>w, <2>2, <2>3
<1>8. IsPrefixOf(loc.new, job.want)
  <2>1. Len(loc.new) <= Len(job.want)
    BY <1>c, <1>n, <1>5
  <2> QED  BY <2>1 DEF IsPrefixOf, BsPrefix
<1>f. PICK f : f = loc.new \o sum
  OBVIOUS
<1>9. f \in File /\ Len(f) = L + c.x /\ IsPrefixOf(f, job.want)
  <2>1. Len(loc.new) + Len(sum) <= Len(job.want)
    BY <1>c, <1>n, <1>5, <1>6, SMTT(30), ZenonT(30)
  <2>2. \A i \in 1 .. Len(sum) : sum[i] = job.want[Len(loc.new) + i]
    BY <1>c, <1>6
  <2>3. /\ loc.new \o sum \in File /\ Len(loc.new \o sum) = Len(loc.new) + Len(sum)
        /\ IsPrefixOf(loc.new \o sum, job.want)
    BY <1>4, <1>6, <1>8, <2>1, <2>2, PrefixGrows
  <2> QED  BY <1>c, <1>f, <1>6, <2>3
<1>10. Len(loc'.new) = L + c.x + c.y /\ IsPrefixOf(loc'.new, job.want)
  <2>1. Len(f) + Len(tail) <= Len(job.want)
    BY <1>n, <1>5, <1>7, <1>9
  <2>2. loc'.new = f \o tail
    BY <1>f, <1>3
  <2>3. \A i \in 1 .. Len(tail) : tail[i] = job.want[Len(f) + i]
    BY <1>7, <1>9
  <2>4. Len(f \o tail) = Len(f) + Len(tail) /\ IsPrefixOf(f \o tail, job.want)
    BY <1>4, <1>7, <1>9, <2>1, <2>3, PrefixGrows
  <2> QED  BY <1>7, <1>9, <2>2, <2>4
<1>11. job'.marks[at' + 1] = job.marks[at + 2]
  <2>1. at' + 1 = at + 2
    BY <1>3, <1>4
  <2> QED  BY <1>3, <2>1
<1>12. /\ loc'.oldpos = loc.oldpos + c.x + c.z /\ loc'.diff = loc.diff + c.x /\ loc'.extra = loc.extra + c.y
       /\ job'.want = job.want
  BY <1>3
<1>13. BsPrefix'
  BY <1>2, <1>10, <1>11, <1>12 DEF BsPrefix, IsPrefixOf
<1> QED  BY <1>1, <1>3, <1>13

(* Each step of bspatch follows the marks.                                   *)
LEMMA BsExactStep == BsIInv /\ BsExactIInv /\ [BsNext \/ Done]_vars => BsExactIInv'
<1> SUFFICES ASSUME BsIInv, BsExactIInv, [BsNext \/ Done]_vars PROVE BsExactIInv'
  OBVIOUS
<1>1. CASE bspatch_header
  <2>1. job \in Jobs("bsdiff")
    BY DEF BsIInv, BsType
  <2>2. job.whole => job.magic = "BSDIFF40" /\ job.newsize >= 0
    <3>1. job.want \in File
      BY <2>1, JobAssumption DEF AllFormats, IsJob
    <3>2. Len(job.want) >= 0
      BY <3>1 DEF File
    <3> QED  BY <2>1, <3>2, BsAssumption DEF BsMade
  <2>3. UNCHANGED <<job, out, at, loc>>
    BY <1>1 DEF bspatch_header
  <2>4. CASE pc' = "control"
    BY <1>1, <2>3, <2>4 DEF bspatch_header, BsExactIInv, BsExact, BsPrefix
  <2>5. CASE pc' = "done" /\ ret' \in {1, Crash}
    BY <2>5 DEF BsExactIInv, BsExact
  <2>6. CASE ~job.whole /\ pc' = "done"
    BY <2>3, <2>6 DEF BsExactIInv, BsExact
  <2>7. job.newsize < 0 => ~(job.newsize >= 0)
    BY <2>1, BsJob
  <2> QED  BY <1>1, <2>2, <2>4, <2>5, <2>6, <2>7 DEF bspatch_header, Close
<1>2. CASE Control
  <2>1. CASE job.whole
    <3>1. BsPrefix' /\ pc' = "control" /\ job' = job
      BY <1>2, <2>1, BsTriple DEF BsExactIInv, Control
    <3> QED  BY <3>1 DEF BsExactIInv, BsExact
  <2>2. CASE ~job.whole
    BY <1>2, <2>2 DEF Control, BsExactIInv, BsExact
  <2> QED  BY <2>1, <2>2
<1>3. CASE WriteNew
  <2>1. pc = "control" /\ pc' = "done" /\ job' = job /\ (ret' = 0 => disk' = loc.new) /\ ret' \in {0, 1}
    BY <1>3 DEF WriteNew
  <2>2. job.whole => loc.new = job.want
    <3> SUFFICES ASSUME job.whole PROVE loc.new = job.want
      OBVIOUS
    <3>1. job \in Jobs("bsdiff") /\ loc.new \in File /\ at \in 0 .. Len(job.ctrl)
      BY DEF BsIInv, BsType
    <3>2. job.want \in File /\ BsMade(job) /\ job.fmt = "bsdiff"
      BY <3>1, BsAssumption, JobAssumption DEF AllFormats, IsJob
    <3>3. BsPrefix
      BY <2>1 DEF BsExactIInv
    <3>4. Len(loc.new) = Len(job.want)
      <4>1. Len(loc.new) >= Len(job.want)
        BY <1>3, <3>2 DEF WriteNew, BsMade
      <4>2. Len(loc.new) <= Len(job.want)
        <5>1. Len(loc.new) <= IF job.newsize < 0 THEN 0 ELSE job.newsize
          BY <3>2, Zenon DEF BsIInv, BsFits
        <5>2. job.newsize = Len(job.want)
          BY <3>2, Zenon DEF BsMade
        <5>3. Len(job.want) \in Nat /\ Len(loc.new) \in Nat
          BY <3>1, <3>2 DEF File
        <5> QED  BY <5>1, <5>2, <5>3
      <4> QED  BY <3>1, <3>2, <4>1, <4>2 DEF File
    <3> QED  BY <3>1, <3>2, <3>3, <3>4, SameFile DEF BsPrefix
  <2> QED  BY <2>1, <2>2 DEF BsExactIInv, BsExact
<1>4. CASE Done \/ UNCHANGED vars
  BY <1>4 DEF Done, vars, BsExactIInv, BsExact, BsPrefix
<1> QED  BY <1>1, <1>2, <1>3, <1>4 DEF BsNext

(* bspatch starts in it.                                                     *)
LEMMA BsExactStarts == BsInit => BsExactIInv
<1> SUFFICES ASSUME BsInit PROVE BsExactIInv
  OBVIOUS
<1>1. job \in Jobs("bsdiff") /\ at = 0 /\ loc = [new |-> <<>>, oldpos |-> 0, diff |-> 0, extra |-> 0] /\ pc = "header"
  BY DEF BsInit
<1>2. job.whole => job.marks[1] = [new |-> 0, oldpos |-> 0, diff |-> 0, extra |-> 0]
  BY <1>1, BsAssumption DEF BsMade
<1> QED  BY <1>1, <1>2 DEF BsExactIInv, BsExact, BsPrefix

-----------------------------------------------------------------------------
(* BPS: between two commands the offsets are where the next command starts,  *)
(* within one they have gone as far as its bytes, and what is written is the *)
(* target as far as it goes.                                                 *)
BpsFor == job.whole /\ job.readable /\ Slice(job.rom, 0, job.sourceSize) = job.from
BpsBetween == LET m == job.marks[at + 1] IN
              /\ loc.outputOffset = m.pos /\ loc.sourceRelativeOffset = m.source
              /\ loc.targetRelativeOffset = m.target
BpsWithin == LET c == job.cmds[at]
                 m == job.marks[at]
                 d == c.length - loc.length
             IN /\ loc.mode = c.mode /\ loc.length <= c.length /\ loc.outputOffset = m.pos + d
                /\ loc.sourceRelativeOffset = IF c.mode = "SourceCopy" THEN m.source + c.offset + d ELSE m.source
                /\ loc.targetRelativeOffset = IF c.mode = "TargetCopy" THEN m.target + c.offset + d ELSE m.target
BpsExactIInv == /\ BpsFor /\ pc \in {"modify", "apply", "command"} => BpsBetween
                /\ BpsFor /\ pc = "byte" => BpsWithin
                /\ BpsFor /\ pc # "done" => IsPrefixOf(loc.written, job.want)
                /\ BpsExact

(* A ROM that starts with a file has its bytes.                              *)
LEMMA StartsWith == ASSUME NEW f \in File, NEW g \in File, Slice(f, 0, Len(g)) = g
                    PROVE  Len(g) <= Len(f) /\ \A i \in 1 .. Len(g) : g[i] = f[i]
<1>1. Len(f) \in Nat /\ Len(g) \in Nat
  BY DEF File
<1>2. Len(g) <= Len(f)
  <2>1. CASE Len(g) < Len(f)
    BY <1>1, <2>1
  <2>2. CASE ~(Len(g) < Len(f))
    <3>1. SubSeq(f, 1, Len(f)) = g
      BY <1>1, <2>2 DEF Slice
    <3>2. Len(SubSeq(f, 1, Len(f))) = Len(f)
      BY <1>1 DEF File
    <3> QED  BY <1>1, <3>1, <3>2
  <2> QED  BY <2>1, <2>2
<1>3. \A i \in 1 .. Len(g) : Slice(f, 0, Len(g))[i] = f[0 + i]
  BY <1>1, <1>2, SliceBytes
<1> QED  BY <1>1, <1>2, <1>3

(* What an intact BPS patch for this ROM is.                                 *)
LEMMA BpsGiven ==
    ASSUME BpsIInv, BpsFor
    PROVE  /\ BpsMade(job) /\ job.from \in File /\ job.rom \in File /\ job.want \in File
           /\ Len(job.from) <= Len(job.rom) /\ \A i \in 1 .. Len(job.from) : job.from[i] = job.rom[i]
<1>1. job \in Jobs("bps")
  BY DEF BpsIInv, BpsType
<1>2. BpsMade(job) /\ job.rom \in File /\ job.want \in File
  BY <1>1, BpsAssumption, BpsJob DEF BpsFor
<1>3. job.from \in File /\ Slice(job.rom, 0, Len(job.from)) = job.from
  BY <1>2 DEF BpsMade, BpsFor
<1> QED  BY <1>2, <1>3, StartsWith

(* What the marks of an intact patch say of a command.                       *)
LEMMA BpsMark ==
    ASSUME BpsIInv, BpsFor, NEW k \in 1 .. Len(job.cmds), NEW c, c = job.cmds[k], NEW m, m = job.marks[k]
    PROVE  /\ c.length \in Nat /\ c.offset \in Int /\ c.data \in File /\ c.mode \in Modes
           /\ m.pos \in Nat /\ m.source \in Int /\ m.target \in Int
           /\ m.pos + c.length <= Len(job.want)
           /\ job.marks[k + 1] = [pos |-> m.pos + c.length,
                                  source |-> IF c.mode = "SourceCopy" THEN m.source + c.offset + c.length ELSE m.source,
                                  target |-> IF c.mode = "TargetCopy" THEN m.target + c.offset + c.length ELSE m.target]
           /\ \A i \in 1 .. c.length : BpsMakes(job, c, m, i)
<1>1. job \in Jobs("bps")
  BY DEF BpsIInv, BpsType
<1>2. BpsMade(job)
  BY BpsGiven
<1>3. c \in Commands
  <2>1. job.cmds \in Seq(Commands)
    BY <1>1, BpsJob
  <2> QED  BY <2>1
<1>4. m \in BpsMarks
  <2>1. Len(job.cmds) \in Nat
    BY <1>1, BpsJob
  <2>2. k \in 1 .. (Len(job.cmds) + 1)
    BY <2>1
  <2> QED  BY <1>2, <2>2 DEF BpsMade
<1>5. /\ c.length \in Nat /\ c.offset \in Int /\ c.data \in File /\ c.mode \in Modes
      /\ m.pos \in Nat /\ m.source \in Int /\ m.target \in Int
  BY <1>3, <1>4 DEF Commands, BpsMarks
<1> QED  BY <1>2, <1>5 DEF BpsMade

(* The byte a command is about to copy is the next byte of the target, and   *)
(* neither it nor its place lies outside its file.                           *)
LEMMA BpsNextByte ==
    ASSUME BpsIInv, BpsFor, BpsWithin, pc = "byte", loc.length > 0, IsPrefixOf(loc.written, job.want)
    PROVE  /\ ~Outside(Sources[1], Sources[2]) /\ ~Outside(out, loc.outputOffset)
           /\ Sources[1][Sources[2] + 1] = job.want[Len(loc.written) + 1]
           /\ Len(loc.written) + 1 <= Len(job.want)
<1>0. BpsType /\ Tracks /\ job \in Jobs("bps")
  BY DEF BpsIInv, BpsType
<1>1. at \in 1 .. Len(job.cmds) /\ loc \in BpsLocals /\ out \in File
  <2>1. Len(job.cmds) \in Nat
    BY <1>0, BpsJob
  <2> QED  BY <1>0, <2>1 DEF BpsType
<1>2. PICK c, m : c = job.cmds[at] /\ m = job.marks[at]
  OBVIOUS
<1>3. PICK i : i = c.length - loc.length + 1
  OBVIOUS
<1>4. /\ c.length \in Nat /\ c.offset \in Int /\ c.data \in File /\ c.mode \in Modes
      /\ m.pos \in Nat /\ m.source \in Int /\ m.target \in Int
      /\ m.pos + c.length <= Len(job.want)
  BY <1>1, <1>2, BpsMark
<1>5. loc.length \in Nat /\ loc.written \in File /\ loc.outputOffset \in Nat
  BY <1>1 DEF BpsLocals
<1>6. loc.mode = c.mode /\ loc.length <= c.length /\ loc.outputOffset = m.pos + (c.length - loc.length)
  BY <1>2 DEF BpsWithin
<1>o. /\ loc.sourceRelativeOffset = IF c.mode = "SourceCopy" THEN m.source + c.offset + (c.length - loc.length) ELSE m.source
      /\ loc.targetRelativeOffset = IF c.mode = "TargetCopy" THEN m.target + c.offset + (c.length - loc.length) ELSE m.target
  BY <1>2 DEF BpsWithin
<1>7. i \in 1 .. c.length /\ loc.outputOffset + 1 = m.pos + i
  BY <1>3, <1>4, <1>5, <1>6, SMTT(30), ZenonT(30)
<1>8. Len(job.want) \in Nat /\ Len(out) = Len(job.want) /\ Len(loc.written) = loc.outputOffset
  <2>1. BpsMade(job) /\ job.want \in File
    BY BpsGiven
  <2> QED  BY <1>0, <2>1 DEF Tracks, BpsMade, File
<1>9. Len(loc.written) + 1 = m.pos + i /\ m.pos + i <= Len(job.want)
  BY <1>4, <1>7, <1>8
<1>10. ~Outside(out, loc.outputOffset)
  BY <1>5, <1>8, <1>9 DEF Outside
<1>u. PICK u \in Int : u = m.source + c.offset
  BY <1>4
<1>v. PICK v \in Int : v = m.target + c.offset
  BY <1>4
<1>s. PICK s \in Int : s = u + i
  BY <1>4, <1>7
<1>t. PICK t \in Int : t = v + i
  BY <1>4, <1>7
<1>11. LET b == job.want[m.pos + i] IN
         \/ c.mode = "SourceRead" /\ m.pos + i <= Len(job.from) /\ b = job.from[m.pos + i]
         \/ c.mode = "TargetRead" /\ i <= Len(c.data) /\ b = c.data[i]
         \/ /\ c.mode = "SourceCopy" /\ s \in 1 .. Len(job.from)
            /\ b = job.from[s]
         \/ /\ c.mode = "TargetCopy" /\ t \in 1 .. (m.pos + i - 1)
            /\ b = job.want[t]
  <2>1. BpsMakes(job, c, m, i)
    BY <1>1, <1>2, <1>7, BpsMark
  <2> QED  BY <1>s, <1>t, <1>u, <1>v, <2>1 DEF BpsMakes
<1>12. /\ Len(job.from) \in Nat /\ Len(job.rom) \in Nat /\ Len(job.from) <= Len(job.rom)
       /\ \A k \in 1 .. Len(job.from) : job.from[k] = job.rom[k]
  <2>1. job.from \in File /\ job.rom \in File
    BY BpsGiven
  <2> QED  BY <2>1, BpsGiven DEF File
<1> SUFFICES ~Outside(Sources[1], Sources[2]) /\ Sources[1][Sources[2] + 1] = job.want[m.pos + i]
  BY <1>9, <1>10
<1>13. CASE c.mode = "SourceRead"
  <2>1. Sources[1] = job.rom /\ Sources[2] = loc.outputOffset
    BY <1>6, <1>13 DEF Sources, sourceData, BpsFor
  <2>2. m.pos + i \in 1 .. Len(job.from) /\ job.want[m.pos + i] = job.from[m.pos + i]
    BY <1>4, <1>7, <1>11, <1>12, <1>13, SMTT(30), ZenonT(30)
  <2> QED  BY <1>5, <1>7, <1>12, <2>1, <2>2 DEF Outside
<1>14. CASE c.mode = "TargetRead"
  <2>1. Sources[1] = c.data /\ Sources[2] = i - 1
    BY <1>2, <1>3, <1>4, <1>5, <1>6, <1>14, SMTT(30), ZenonT(30) DEF Sources
  <2>2. i <= Len(c.data) /\ job.want[m.pos + i] = c.data[i] /\ Len(c.data) \in Nat
    BY <1>4, <1>11, <1>14 DEF File
  <2> QED  BY <1>4, <1>7, <2>1, <2>2 DEF Outside
<1>15. CASE c.mode = "SourceCopy"
  <2>1. Sources[1] = job.rom /\ Sources[2] = s - 1
    <3>1. Sources[1] = job.rom /\ Sources[2] = loc.sourceRelativeOffset
      BY <1>6, <1>15 DEF Sources, sourceData, BpsFor
    <3>2. loc.sourceRelativeOffset = u + (c.length - loc.length)
      BY <1>o, <1>u, <1>15
    <3>3. c.length - loc.length = i - 1
      BY <1>3, <1>4, <1>5
    <3>4. u + (i - 1) = s - 1
      BY <1>s, <1>7
    <3> QED  BY <3>1, <3>2, <3>3, <3>4
  <2>2. s \in 1 .. Len(job.from) /\ job.want[m.pos + i] = job.from[s]
    BY <1>11, <1>15
  <2>3. Sources[2] + 1 = s /\ Sources[2] \in 0 .. (Len(job.rom) - 1)
    BY <1>t, <1>12, <2>1, <2>2
  <2> QED  BY <1>12, <2>1, <2>2, <2>3 DEF Outside
<1>16. CASE c.mode = "TargetCopy"
  <2>1. Sources[1] = out /\ Sources[2] = t - 1
    <3>1. Sources[1] = out /\ Sources[2] = loc.targetRelativeOffset
      BY <1>6, <1>16 DEF Sources
    <3>2. loc.targetRelativeOffset = v + (c.length - loc.length)
      BY <1>o, <1>v, <1>16
    <3>3. c.length - loc.length = i - 1
      BY <1>3, <1>4, <1>5
    <3>4. v + (i - 1) = t - 1
      BY <1>t, <1>7
    <3> QED  BY <3>1, <3>2, <3>3, <3>4
  <2>2. t \in 1 .. (m.pos + i - 1) /\ job.want[m.pos + i] = job.want[t]
    BY <1>11, <1>16
  <2>3. t \in 1 .. Len(loc.written) /\ t \in 1 .. Len(out)
    <3>1. t \in 1 .. loc.outputOffset
      BY <1>4, <1>5, <1>7, <1>t, <2>2, SMTT(30), ZenonT(30)
    <3> QED  BY <1>8, <1>9, <3>1, SMTT(30), ZenonT(30)
  <2>4. out[t] = loc.written[t]
    BY <1>0, <2>3 DEF Tracks
  <2>5. loc.written[t] = job.want[t]
    BY <2>3 DEF IsPrefixOf
  <2>6. Sources[2] + 1 = t /\ Sources[2] \in 0 .. (Len(out) - 1)
    BY <1>t, <1>8, <2>1, <2>3
  <2> QED  BY <2>1, <2>2, <2>4, <2>5, <2>6 DEF Outside
<1> QED  BY <1>4, <1>13, <1>14, <1>15, <1>16 DEF Modes

(* The head of a command: the offsets are where the marks have them.         *)
LEMMA BpsHead ==
    ASSUME BpsIInv, BpsFor, BpsBetween, Command
    PROVE  BpsWithin'
<1>1. at \in 0 .. Len(job.cmds) /\ Len(job.cmds) \in Nat /\ at < Len(job.cmds) /\ loc \in BpsLocals
  BY BpsJob DEF BpsIInv, BpsType, Command
<1>2. at + 1 \in 1 .. Len(job.cmds) /\ at' = at + 1 /\ job' = job
  BY <1>1 DEF Command
<1>3. PICK c, m : c = job.cmds[at + 1] /\ m = job.marks[at + 1]
  OBVIOUS
<1>4. /\ c.length \in Nat /\ c.offset \in Int /\ m.pos \in Nat /\ m.source \in Int /\ m.target \in Int
  BY <1>2, <1>3, BpsMark
<1>5. loc.outputOffset = m.pos /\ loc.sourceRelativeOffset = m.source /\ loc.targetRelativeOffset = m.target
  BY <1>3 DEF BpsBetween
<1>6. /\ loc'.mode = c.mode /\ loc'.length = c.length /\ loc'.outputOffset = loc.outputOffset
      /\ loc'.sourceRelativeOffset = IF c.mode = "SourceCopy" THEN loc.sourceRelativeOffset + c.offset ELSE loc.sourceRelativeOffset
      /\ loc'.targetRelativeOffset = IF c.mode = "TargetCopy" THEN loc.targetRelativeOffset + c.offset ELSE loc.targetRelativeOffset
  BY <1>1, <1>3 DEF Command, BpsLocals
<1>7. c.length - c.length = 0 /\ m.pos + 0 = m.pos /\ m.source + c.offset + 0 = m.source + c.offset
      /\ m.target + c.offset + 0 = m.target + c.offset
  BY <1>4
<1>8. job'.cmds[at'] = c /\ job'.marks[at'] = m
  BY <1>2, <1>3
<1>9. loc'.mode = c.mode /\ loc'.length <= c.length /\ loc'.outputOffset = m.pos + (c.length - loc'.length)
  BY <1>4, <1>5, <1>6, <1>7
<1>10. /\ loc'.sourceRelativeOffset = IF c.mode = "SourceCopy" THEN m.source + c.offset + (c.length - loc'.length) ELSE m.source
       /\ loc'.targetRelativeOffset = IF c.mode = "TargetCopy" THEN m.target + c.offset + (c.length - loc'.length) ELSE m.target
  BY <1>5, <1>6, <1>7
<1> QED  BY <1>8, <1>9, <1>10 DEF BpsWithin

(* The end of a command: the offsets are where the next one starts.          *)
LEMMA BpsEnd ==
    ASSUME BpsIInv, BpsFor, BpsWithin, pc = "byte", loc.length = 0
    PROVE  BpsBetween
<1>1. at \in 1 .. Len(job.cmds)
  <2>1. Len(job.cmds) \in Nat
    BY BpsJob DEF BpsIInv, BpsType
  <2> QED  BY <2>1 DEF BpsIInv, BpsType
<1>2. PICK c, m : c = job.cmds[at] /\ m = job.marks[at]
  OBVIOUS
<1>3. /\ c.length \in Nat /\ c.offset \in Int /\ m.pos \in Nat /\ m.source \in Int /\ m.target \in Int
      /\ job.marks[at + 1] = [pos |-> m.pos + c.length,
                              source |-> IF c.mode = "SourceCopy" THEN m.source + c.offset + c.length ELSE m.source,
                              target |-> IF c.mode = "TargetCopy" THEN m.target + c.offset + c.length ELSE m.target]
  BY <1>1, <1>2, BpsMark, SMTT(30), ZenonT(30)
<1>4. c.length - loc.length = c.length
  BY <1>3
<1> QED  BY <1>2, <1>3, <1>4 DEF BpsWithin, BpsBetween

(* One byte of a command, whichever of the four it is.                       *)
LEMMA BpsCopied ==
    ASSUME BpsIInv, BpsFor, BpsWithin, pc = "byte", loc.length > 0, IsPrefixOf(loc.written, job.want), BpsByte
    PROVE  BpsWithin' /\ IsPrefixOf(loc'.written, job'.want) /\ pc' = "byte" /\ job' = job
<1>0. loc \in BpsLocals
  BY DEF BpsIInv, BpsType
<1>1. /\ ~Outside(Sources[1], Sources[2]) /\ ~Outside(out, loc.outputOffset)
      /\ Sources[1][Sources[2] + 1] = job.want[Len(loc.written) + 1]
      /\ Len(loc.written) + 1 <= Len(job.want)
  BY BpsNextByte
<1>2. Mapped(Sources[1], Sources[2]) = {job.want[Len(loc.written) + 1]}
  BY <1>1 DEF Mapped, Outside
<1>3. PICK b : b = job.want[Len(loc.written) + 1]
  OBVIOUS
<1>4. /\ UNCHANGED <<pc, job, at>>
      /\ loc' = [loc EXCEPT !.length = @ - 1, !.outputOffset = @ + 1, !.written = Append(@, b),
                            !.sourceRelativeOffset = IF loc.mode = "SourceCopy" THEN @ + 1 ELSE @,
                            !.targetRelativeOffset = IF loc.mode = "TargetCopy" THEN @ + 1 ELSE @]
  <2>1. ~(loc.length = 0)
    BY <1>0 DEF BpsLocals
  <2> QED  BY <1>1, <1>2, <1>3, <2>1 DEF BpsByte
<1>5. /\ loc'.mode = loc.mode /\ loc'.length = loc.length - 1 /\ loc'.outputOffset = loc.outputOffset + 1
      /\ loc'.written = Append(loc.written, b)
      /\ loc'.sourceRelativeOffset = IF loc.mode = "SourceCopy" THEN loc.sourceRelativeOffset + 1 ELSE loc.sourceRelativeOffset
      /\ loc'.targetRelativeOffset = IF loc.mode = "TargetCopy" THEN loc.targetRelativeOffset + 1 ELSE loc.targetRelativeOffset
  BY <1>0, <1>4 DEF BpsLocals
<1>6. IsPrefixOf(loc'.written, job.want)
  <2>1. loc.written \in File /\ job.want \in File
    BY <1>0, BpsGiven DEF BpsLocals
  <2>2. /\ Len(loc'.written) = Len(loc.written) + 1
        /\ \A i \in 1 .. Len(loc'.written) : loc'.written[i] = IF i = Len(loc.written) + 1 THEN b ELSE loc.written[i]
    <3>1. b \in Byte
      <4>1. Len(loc.written) \in Nat /\ Len(job.want) \in Nat
        BY <2>1 DEF File
      <4>2. Len(loc.written) + 1 \in 1 .. Len(job.want)
        BY <1>1, <4>1
      <4> QED  BY <1>3, <2>1, <4>2, FileBytes
    <3> QED  BY <1>5, <2>1, <3>1 DEF File
  <2>3. Len(loc.written) \in Nat
    BY <2>1 DEF File
  <2>4. ASSUME NEW i \in 1 .. Len(loc'.written) PROVE loc'.written[i] = job.want[i]
    <3>1. CASE i = Len(loc.written) + 1
      BY <1>3, <2>2, <3>1
    <3>2. CASE i # Len(loc.written) + 1
      <4>1. i \in 1 .. Len(loc.written)
        BY <2>2, <2>3, <3>2
      <4> QED  BY <2>2, <3>2, <4>1 DEF IsPrefixOf
    <3> QED  BY <3>1, <3>2
  <2> QED  BY <1>1, <2>2, <2>4 DEF IsPrefixOf
<1>7. at \in 1 .. Len(job.cmds)
  <2>1. Len(job.cmds) \in Nat
    BY BpsJob DEF BpsIInv, BpsType
  <2> QED  BY <2>1 DEF BpsIInv, BpsType
<1>8. PICK c, m : c = job.cmds[at] /\ m = job.marks[at]
  OBVIOUS
<1>9. c.length \in Nat /\ c.offset \in Int /\ m.pos \in Nat /\ m.source \in Int /\ m.target \in Int
  BY <1>7, <1>8, BpsMark
<1>10. loc.length \in Nat /\ loc.mode = c.mode /\ loc.length <= c.length /\ loc.outputOffset = m.pos + (c.length - loc.length)
  BY <1>0, <1>8 DEF BpsWithin, BpsLocals
<1>11. /\ loc.sourceRelativeOffset = IF c.mode = "SourceCopy" THEN m.source + c.offset + (c.length - loc.length) ELSE m.source
       /\ loc.targetRelativeOffset = IF c.mode = "TargetCopy" THEN m.target + c.offset + (c.length - loc.length) ELSE m.target
  BY <1>8 DEF BpsWithin
<1>12. c.length - loc'.length = (c.length - loc.length) + 1 /\ c.length - loc.length \in Int
  BY <1>5, <1>9, <1>10, SMTT(30), ZenonT(30)
<1>13. loc'.mode = c.mode /\ loc'.length <= c.length /\ loc'.outputOffset = m.pos + (c.length - loc'.length)
  BY <1>5, <1>9, <1>10
<1>14. \A a \in Int : a + ((c.length - loc.length) + 1) = (a + (c.length - loc.length)) + 1
  BY <1>12
<1>15. loc'.sourceRelativeOffset = IF c.mode = "SourceCopy" THEN m.source + c.offset + (c.length - loc'.length) ELSE m.source
  <2>1. PICK a \in Int : a = m.source + c.offset
    BY <1>9
  <2> QED  BY <1>5, <1>10, <1>11, <1>12, <1>14, <2>1
<1>16. loc'.targetRelativeOffset = IF c.mode = "TargetCopy" THEN m.target + c.offset + (c.length - loc'.length) ELSE m.target
  <2>1. PICK a \in Int : a = m.target + c.offset
    BY <1>9
  <2> QED  BY <1>5, <1>10, <1>11, <1>12, <1>14, <2>1
<1>17. job'.cmds[at'] = c /\ job'.marks[at'] = m
  BY <1>4, <1>8
<1> QED  BY <1>4, <1>6, <1>13, <1>15, <1>16, <1>17 DEF BpsWithin

(* Behind the last command the output is the target.                         *)
LEMMA BpsLast ==
    ASSUME BpsIInv, BpsFor, BpsBetween, IsPrefixOf(loc.written, job.want), pc = "command", at = Len(job.cmds)
    PROVE  loc.written = job.want /\ out = job.want
<1>1. Tracks /\ out \in File /\ loc.written \in File
  BY DEF BpsIInv, BpsType, BpsLocals
<1>2. job.want \in File /\ job.targetSize = Len(job.want) /\ job.marks[Len(job.cmds) + 1].pos = Len(job.want)
  BY BpsGiven DEF BpsMade
<1>3. Len(loc.written) = Len(job.want) /\ Len(out) = Len(job.want)
  BY <1>1, <1>2 DEF BpsBetween, Tracks
<1>4. loc.written = job.want
  BY <1>1, <1>2, <1>3, SameFile DEF IsPrefixOf
<1>5. Len(out) \in Nat
  BY <1>1 DEF File
<1>6. \A i \in 1 .. Len(out) : out[i] = loc.written[i]
  BY <1>1, <1>3, <1>5 DEF Tracks
<1> QED  BY <1>1, <1>2, <1>3, <1>4, <1>6, SameFile

(* Each step of bpspatch follows the marks.                                  *)
LEMMA BpsExactStep == BpsIInv /\ BpsExactIInv /\ [BpsNext \/ Done]_vars => BpsExactIInv'
<1> SUFFICES ASSUME BpsIInv, BpsExactIInv, [BpsNext \/ Done]_vars PROVE BpsExactIInv'
  OBVIOUS
<1>0. job' = job
  BY DEF BpsNext, Modify, Apply, Command, BpsByte, Checksum, Done, vars
<1>f. BpsFor' => BpsFor
  BY <1>0 DEF BpsFor
<1>1. CASE Modify
  <2>1. CASE pc' = "done"
    <3>1. loc'.mode = "unopened"
      BY <1>1, <2>1 DEF Modify, BpsIInv, BpsType, BpsLocals
    <3> QED  BY <2>1, <3>1 DEF BpsExactIInv, BpsExact
  <2>2. CASE pc' = "apply"
    <3>1. UNCHANGED <<job, at, loc>> /\ pc = "modify"
      BY <1>1, <2>2 DEF Modify, Unopened
    <3> QED  BY <2>2, <3>1, <1>f DEF BpsExactIInv, BpsExact, BpsBetween
  <2> QED  BY <1>1, <2>1, <2>2 DEF Modify, Unopened
<1>2. CASE Apply
  <2>1. UNCHANGED <<job, at, loc>> /\ pc = "apply"
    BY <1>2 DEF Apply
  <2>2. CASE BpsFor
    <3>1. job.magic = "BPS1" /\ job.sourceSize <= Len(job.rom) /\ ~(job.sourceSize > Len(job.rom))
      <4>1. /\ BpsMade(job) /\ Len(job.from) <= Len(job.rom) /\ job.from \in File /\ job.rom \in File
        BY <2>2, BpsGiven
      <4>2. Len(job.from) \in Nat /\ Len(job.rom) \in Nat
        BY <4>1 DEF File
      <4> QED  BY <4>1, <4>2 DEF BpsMade
    <3>2. pc' = "command"
      BY <1>2, <2>2, <3>1 DEF Apply, BpsFor
    <3> QED  BY <1>f, <2>1, <3>2 DEF BpsExactIInv, BpsExact, BpsBetween
  <2>3. CASE ~BpsFor
    BY <1>f, <1>0, <2>3 DEF BpsExactIInv, BpsExact, BpsFor
  <2> QED  BY <2>2, <2>3
<1>3. CASE Command
  <2>1. pc = "command" /\ pc' = "byte" /\ loc'.written = loc.written
    BY <1>3 DEF Command, BpsIInv, BpsType, BpsLocals
  <2>2. BpsFor => BpsWithin'
    BY <1>3, <2>1, BpsHead DEF BpsExactIInv
  <2> QED  BY <1>0, <1>f, <2>1, <2>2 DEF BpsExactIInv, BpsExact
<1>4. CASE BpsByte
  <2>1. pc = "byte"
    BY <1>4 DEF BpsByte
  <2>2. CASE ~BpsFor
    BY <1>f, <1>0, <2>2 DEF BpsExactIInv, BpsExact, BpsFor
  <2>3. CASE BpsFor /\ loc.length = 0
    <3>1. BpsBetween
      BY <2>1, <2>3, BpsEnd DEF BpsExactIInv
    <3>2. pc' = "command" /\ UNCHANGED <<job, at, loc>>
      BY <1>4, <2>3 DEF BpsByte
    <3> QED  BY <2>1, <2>3, <3>1, <3>2 DEF BpsExactIInv, BpsExact, BpsBetween
  <2>4. CASE BpsFor /\ loc.length > 0
    <3>1. BpsWithin' /\ IsPrefixOf(loc'.written, job'.want) /\ pc' = "byte"
      BY <1>4, <2>1, <2>4, BpsCopied DEF BpsExactIInv
    <3> QED  BY <3>1 DEF BpsExactIInv, BpsExact
  <2>5. loc.length = 0 \/ loc.length > 0
    BY DEF BpsIInv, BpsType, BpsLocals
  <2> QED  BY <2>2, <2>3, <2>4, <2>5
<1>5. CASE Checksum
  <2>1. pc = "command" /\ at = Len(job.cmds) /\ pc' = "done" /\ disk' = out
    BY <1>5 DEF Checksum, Close
  <2>2. CASE BpsFor
    <3>1. loc.written = job.want /\ out = job.want
      BY <2>1, <2>2, BpsLast DEF BpsExactIInv
    <3>2. job.intact
      BY <2>2, BpsGiven DEF BpsMade
    <3>3. ret' = 0
      <4>1. job.readable /\ SourceSums = {TRUE}
        BY <2>2 DEF SourceSums, BpsFor
      <4> QED  BY <1>5, <3>1, <3>2, <4>1 DEF Checksum, Close
    <3> QED  BY <1>0, <2>1, <3>1, <3>3 DEF BpsExactIInv, BpsExact
  <2>3. CASE ~BpsFor
    BY <1>f, <1>0, <2>3 DEF BpsExactIInv, BpsExact, BpsFor
  <2> QED  BY <2>2, <2>3
<1>6. CASE Done \/ UNCHANGED vars
  BY <1>6 DEF Done, vars, BpsExactIInv, BpsExact, BpsBetween, BpsWithin, BpsFor
<1> QED  BY <1>1, <1>2, <1>3, <1>4, <1>5, <1>6 DEF BpsNext

(* A BPS call starts in it.                                                  *)
LEMMA BpsExactStarts == BpsInit => BpsExactIInv
<1> SUFFICES ASSUME BpsInit PROVE BpsExactIInv
  OBVIOUS
<1>1. /\ job \in Jobs("bps") /\ at = 0 /\ pc = "modify" /\ loc.outputOffset = 0
      /\ loc.sourceRelativeOffset = 0 /\ loc.targetRelativeOffset = 0 /\ loc.written = <<>>
  BY DEF BpsInit
<1>2. BpsFor => BpsBetween
  BY <1>1, BpsAssumption DEF BpsMade, BpsFor, BpsBetween
<1>3. IsPrefixOf(loc.written, job.want)
  <2>1. job.want \in File
    BY <1>1, BpsJob
  <2>2. Len(job.want) \in Nat /\ Len(<<>>) = 0
    BY <2>1 DEF File
  <2> QED  BY <1>1, <2>2 DEF IsPrefixOf
<1> QED  BY <1>1, <1>2, <1>3 DEF BpsExactIInv, BpsExact

-----------------------------------------------------------------------------
(* UPS: an output that is the other file, y, up to r and the ROM, x, from    *)
(* there on.                                                                 *)
Mixed(o, y, x, r) == \A i \in Nat : i < Len(y) => o[i + 1] = Padded(IF i < r THEN y ELSE x, i)

(* It is the other file when r is at its end.                                *)
LEMMA MixedWhole ==
    ASSUME NEW o \in File, NEW y \in File, NEW x, NEW r \in Nat, Mixed(o, y, x, r), Len(o) = Len(y), r >= Len(y)
    PROVE  o = y
<1>1. ASSUME NEW i \in 1 .. Len(o) PROVE o[i] = y[i]
  <2>1. i - 1 \in Nat /\ i - 1 < Len(y) /\ i - 1 < r /\ (i - 1) + 1 = i
    BY DEF File
  <2> QED  BY <2>1 DEF Mixed, Padded
<1> QED  BY <1>1, SameFile

(* Where the files are the same, r may move on without a change.             *)
LEMMA MixedOn ==
    ASSUME NEW o, NEW y \in File, NEW x, NEW r \in Nat, NEW s \in Nat, r <= s, Mixed(o, y, x, r),
           \A i \in r .. (s - 1) : i < Len(y) => Padded(x, i) = Padded(y, i)
    PROVE  Mixed(o, y, x, s)
<1> SUFFICES ASSUME NEW i \in Nat, i < Len(y) PROVE o[i + 1] = Padded(IF i < s THEN y ELSE x, i)
  BY DEF Mixed
<1>1. o[i + 1] = Padded(IF i < r THEN y ELSE x, i)
  BY DEF Mixed
<1>2. CASE i < r \/ i >= s
  BY <1>1, <1>2
<1>3. CASE i >= r /\ i < s
  <2>1. i \in r .. (s - 1)
    BY <1>3
  <2> QED  BY <1>1, <1>3, <2>1
<1> QED  BY <1>2, <1>3

(* The next byte of the other file is written.                               *)
LEMMA MixedPut ==
    ASSUME NEW o \in File, NEW y \in File, NEW x, NEW r \in Nat, Mixed(o, y, x, r), Len(o) = Len(y), r < Len(y)
    PROVE  Mixed(WriteAt(o, r, Padded(y, r)), y, x, r + 1)
<1>1. WriteAt(o, r, Padded(y, r)) = [o EXCEPT ![r + 1] = Padded(y, r)]
  BY DEF WriteAt
<1> SUFFICES ASSUME NEW i \in Nat, i < Len(y)
             PROVE  [o EXCEPT ![r + 1] = Padded(y, r)][i + 1] = Padded(IF i < r + 1 THEN y ELSE x, i)
  BY <1>1 DEF Mixed
<1>2. o[i + 1] = Padded(IF i < r THEN y ELSE x, i) /\ i + 1 \in DOMAIN o
  BY DEF Mixed, File
<1>3. CASE i = r
  BY <1>2, <1>3
<1>4. CASE i # r
  BY <1>2, <1>4
<1> QED  BY <1>3, <1>4

(* The ROM cut or padded to the size of the other file.                      *)
LEMMA MixedStarts ==
    ASSUME NEW y \in File, NEW x \in File
    PROVE  Mixed([k \in 1 .. Len(y) |-> IF k <= Len(x) THEN ReadAt(x, k - 1) ELSE 0], y, x, 0)
<1> SUFFICES ASSUME NEW i \in Nat, i < Len(y)
             PROVE  [k \in 1 .. Len(y) |-> IF k <= Len(x) THEN ReadAt(x, k - 1) ELSE 0][i + 1] = Padded(x, i)
  BY DEF Mixed
<1>1. i + 1 \in 1 .. Len(y) /\ (i + 1) - 1 = i /\ (i + 1 <= Len(x) <=> i < Len(x))
  BY DEF File
<1> QED  BY <1>1 DEF ReadAt, Padded

(* A byte of a file that is padded with zeros.                               *)
LEMMA PaddedByte == ASSUME NEW f \in File, NEW i \in Nat PROVE Padded(f, i) \in Byte
<1>1. 0 \in Byte
  BY BaseAssumption DEF Byte
<1>2. CASE i < Len(f)
  <2>1. i + 1 \in 1 .. Len(f)
    BY <1>2 DEF File
  <2> QED  BY <1>2, <2>1, FileBytes DEF Padded
<1> QED  BY <1>1, <1>2 DEF Padded

-----------------------------------------------------------------------------
(* UPS: while a patch is applied to one of its two files, the loop is in     *)
(* step with the maker of the patch, the output being the other file up to   *)
(* relative; or relative has passed the end of the output, which then is the *)
(* other file, and every block that is read, wherever, is skipped.           *)
Paired == job.whole /\ Len(job.patch) >= MinLen /\ (job.rom = job.crcx \/ job.rom = job.crcy)
Goal == Chosen /\ loc.sizex = Len(job.rom) /\ loc.sizey = Len(loc.rcrcy)
Past == loc.relative >= loc.sizey /\ out = loc.rcrcy
AtBlock(k) == at = job.marks[k].pos /\ loc.relative = job.marks[k].rel
InBlock(k) == LET b == job.blocks[k] IN
              /\ loc.i = loc.relative /\ loc.i >= b.start /\ loc.i <= b.start + b.len
              /\ at = After(job.patch, job.marks[k].pos) + (loc.i - b.start)
UpsPlace == /\ pc = "open" => loc.relative = 0
            /\ pc = "copy" => Goal /\ at = FirstBlock(job.patch) /\ loc.relative = 0
            /\ pc = "block" => /\ Goal
                               /\ \/ Past
                                  \/ /\ Mixed(out, loc.rcrcy, job.rom, loc.relative)
                                     /\ \E k \in 1 .. (Len(job.blocks) + 1) : AtBlock(k)
            /\ pc = "xor" => /\ Goal /\ Mixed(out, loc.rcrcy, job.rom, loc.relative)
                             /\ \E k \in 1 .. Len(job.blocks) : InBlock(k)
BothIInv == /\ UpsType /\ SizeKept /\ BothWays
            /\ Paired => UpsPlace

(* The call's files, and what is known of an intact patch.                   *)
LEMMA UpsFiles ==
    ASSUME UpsType
    PROVE  /\ job.fmt = "ups" /\ job.rom \in File /\ job.patch \in File /\ job.crcx \in File /\ job.crcy \in File
           /\ out \in File /\ loc.sizex \in Nat /\ loc.sizey \in Nat /\ loc.relative \in Nat /\ loc.i \in Nat
           /\ Len(job.patch) \in Nat /\ at \in 0 .. Len(job.patch) /\ (Chosen => loc.rcrcy \in File)
           /\ job.whole => UpsMade(job)
<1>1. job \in Jobs("ups")
  BY DEF UpsType
<1>2. /\ job.fmt = "ups" /\ job.rom \in File /\ job.patch \in File /\ job.crcx \in File /\ job.crcy \in File
      /\ job.whole => UpsMade(job)
  BY <1>1, UpsAssumption, JobAssumption DEF AllFormats, IsJob
<1> QED  BY <1>2 DEF UpsType, UpsLocals, Chosen, File

(* Where X and Y are the same, so are the ROM and the other file.            *)
LEMMA SameHere == ASSUME Chosen, NEW i, Same(job, i) PROVE Padded(job.rom, i) = Padded(loc.rcrcy, i)
  BY DEF Chosen, Same

(* A byte of a block turns the byte of either file into the other's.         *)
LEMMA XorBack ==
    ASSUME UpsType, Chosen, NEW i \in Nat
    PROVE  Xor(Xor(Padded(job.crcx, i), Padded(job.crcy, i)), Padded(job.rom, i)) = Padded(loc.rcrcy, i)
<1>1. Padded(job.crcx, i) \in Byte /\ Padded(job.crcy, i) \in Byte
  BY UpsFiles, PaddedByte
<1>2. PICK a \in Byte, b \in Byte : a = Padded(job.crcx, i) /\ b = Padded(job.crcy, i)
  BY <1>1
<1>3. Xor(Xor(a, b), b) = a /\ Xor(Xor(b, a), a) = b /\ Xor(a, b) = Xor(b, a)
  BY BaseAssumption
<1> QED  BY <1>2, <1>3 DEF Chosen

(* The marks of an intact patch, and of one of its blocks.                   *)
LEMMA UpsBlockOf ==
    ASSUME UpsType, job.whole
    PROVE  /\ Len(job.blocks) \in Nat /\ job.marks[1] = [pos |-> FirstBlock(job.patch), rel |-> 0]
           /\ \A k \in 1 .. (Len(job.blocks) + 1) : job.marks[k].rel \in Nat
           /\ job.marks[Len(job.blocks) + 1].pos = Len(job.patch) - FootLen
           /\ \A i \in job.marks[Len(job.blocks) + 1].rel .. (Len(job.crcx) + Len(job.crcy)) : Same(job, i)
           /\ \A k \in 1 .. Len(job.blocks) :
                /\ job.blocks[k].start \in Nat /\ job.blocks[k].len \in Nat
                /\ UpsBlockMade(job, job.blocks[k], job.marks[k], job.marks[k + 1])
                /\ After(job.patch, job.marks[k].pos) \in Nat
<1>1. UpsMade(job)
  BY UpsFiles
<1>2. job.blocks \in Seq([start : Nat, len : Nat]) /\ job.marks \in [1 .. (Len(job.blocks) + 1) -> UpsMarks]
  BY <1>1 DEF UpsMade
<1>3. \A k \in 1 .. (Len(job.blocks) + 1) : job.marks[k].rel \in Nat
  BY <1>2 DEF UpsMarks
<1>4. PICK S : S = [start : Nat, len : Nat]
  OBVIOUS
<1>a. job.blocks \in Seq(S)
  BY <1>2, <1>4
<1>b. \A k \in 1 .. Len(job.blocks) : job.blocks[k] \in S
  BY <1>a, ElementOfSeq
<1>5. \A k \in 1 .. Len(job.blocks) : job.blocks[k].start \in Nat /\ job.blocks[k].len \in Nat
  BY <1>4, <1>b
<1>c. Len(job.blocks) \in Nat
  BY <1>2
<1>6. ASSUME NEW k \in 1 .. Len(job.blocks) PROVE After(job.patch, job.marks[k].pos) \in Nat
  <2>1. job.marks[k].pos \in Nat
    <3>1. k \in 1 .. (Len(job.blocks) + 1)
      BY <1>c
    <3> QED  BY <1>2, <3>1 DEF UpsMarks
  <2>2. job.marks[k].pos < Len(job.patch) - FootLen
    <3>1. UpsBlockMade(job, job.blocks[k], job.marks[k], job.marks[k + 1])
      BY <1>1, Zenon DEF UpsMade
    <3> QED  BY <3>1 DEF UpsBlockMade
  <2>3. PICK p \in 0 .. Len(job.patch) : p = job.marks[k].pos
    BY <2>1, <2>2, UpsFiles, UpsAssumption
  <2>4. After(job.patch, p) \in p .. Len(job.patch)
    BY UpsFiles, StopIs
  <2> QED  BY <2>3, <2>4
<1>7. /\ job.marks[1] = [pos |-> FirstBlock(job.patch), rel |-> 0]
      /\ job.marks[Len(job.blocks) + 1].pos = Len(job.patch) - FootLen
      /\ \A i \in job.marks[Len(job.blocks) + 1].rel .. (Len(job.crcx) + Len(job.crcy)) : Same(job, i)
      /\ \A k \in 1 .. Len(job.blocks) : UpsBlockMade(job, job.blocks[k], job.marks[k], job.marks[k + 1])
  BY <1>1, Zenon DEF UpsMade
<1> QED  BY <1>c, <1>3, <1>5, <1>6, <1>7, Zenon

(* The head of the loop finds the block that was made there, if any.         *)
LEMMA UpsBlockFound ==
    ASSUME UpsType, SizeKept, UpsPlace, Paired, Block
    PROVE  UpsPlace'
<1>1. /\ pc = "block" /\ Goal /\ Len(out) = loc.sizey /\ job' = job /\ out' = out
      /\ loc.rcrcy \in File /\ at < Len(job.patch) - FootLen /\ job.whole
  BY UpsFiles DEF Block, UpsPlace, SizeKept, More, Paired, Goal
<1>2. decptr(job.patch, at) \in Nat
  BY UpsFiles, OffsetIs
<1>3. PICK r \in Nat : r = loc.relative + decptr(job.patch, at)
  BY <1>2, UpsFiles
<1>4. /\ loc' = [loc EXCEPT !.relative = r, !.i = r] /\ at' = After(job.patch, at)
      /\ (r < loc.sizey /\ pc' = "xor") \/ (r >= loc.sizey /\ pc' = "block")
  BY <1>1, <1>3 DEF Block
<1>5. loc'.relative = r /\ loc'.i = r /\ loc'.sizey = loc.sizey /\ loc'.sizex = loc.sizex /\ loc'.rcrcy = loc.rcrcy
  BY <1>4 DEF UpsType, UpsLocals
<1>6. Goal'
  BY <1>1, <1>5 DEF Goal, Chosen
<1>7. r >= loc.relative
  BY <1>2, <1>3, UpsFiles
<1>8. CASE Past
  <2>1. pc' = "block" /\ Past'
    BY <1>1, <1>4, <1>5, <1>7, <1>8, UpsFiles DEF Past
  <2> QED  BY <1>6, <2>1 DEF UpsPlace
<1>9. CASE ~Past
  <2>1. Mixed(out, loc.rcrcy, job.rom, loc.relative) /\ \E k \in 1 .. (Len(job.blocks) + 1) : AtBlock(k)
    BY <1>1, <1>9 DEF UpsPlace
  <2>2. PICK k \in 1 .. (Len(job.blocks) + 1) : AtBlock(k)
    BY <2>1
  <2>3. k \in 1 .. Len(job.blocks)
    <3>1. k # Len(job.blocks) + 1
      <4>1. job.marks[Len(job.blocks) + 1].pos = Len(job.patch) - FootLen
        BY <1>1, UpsBlockOf
      <4>2. job.marks[Len(job.blocks) + 1].pos # at
        BY <1>1, <4>1, UpsFiles, UpsAssumption
      <4> QED  BY <2>2, <4>2, Zenon DEF AtBlock
    <3>2. Len(job.blocks) \in Nat
      BY <1>1, UpsBlockOf
    <3> QED  BY <3>1, <3>2
  <2> DEFINE b == job.blocks[k]
             m == job.marks[k]
  <2>4. /\ b.start \in Nat /\ b.len \in Nat /\ UpsBlockMade(job, b, m, job.marks[k + 1])
        /\ at = m.pos /\ loc.relative = m.rel
    BY <1>1, <2>2, <2>3, UpsBlockOf DEF AtBlock
  <2>5. r = b.start /\ \A i \in loc.relative .. (r - 1) : Same(job, i)
    BY <1>3, <2>4 DEF UpsBlockMade
  <2>6. Mixed(out, loc.rcrcy, job.rom, r)
    <3>1. \A i \in loc.relative .. (r - 1) : Padded(job.rom, i) = Padded(loc.rcrcy, i)
      BY <1>1, <2>5, SameHere DEF Goal
    <3> QED  BY <1>1, <1>7, <2>1, <3>1, UpsFiles, MixedOn
  <2>7. CASE pc' = "block"
    <3>1. r >= Len(loc.rcrcy) /\ Len(out) = Len(loc.rcrcy)
      BY <1>1, <1>4, <2>7 DEF Goal
    <3>2. out = loc.rcrcy
      BY <1>1, <2>6, <3>1, UpsFiles, MixedWhole
    <3>3. Past'
      BY <1>1, <1>4, <1>5, <2>7, <3>2 DEF Past
    <3> QED  BY <1>6, <2>7, <3>3 DEF UpsPlace
  <2>8. CASE pc' = "xor"
    <3>1. Mixed(out, loc.rcrcy, job.rom, loc.relative)'
      BY <1>1, <1>5, <2>6 DEF Mixed
    <3>2. After(job.patch, m.pos) \in Nat
      BY <1>1, <2>3, UpsBlockOf
    <3>3. InBlock(k)'
      BY <1>1, <1>4, <1>5, <2>4, <2>5, <3>2 DEF InBlock
    <3> QED  BY <1>1, <1>6, <2>3, <2>8, <3>1, <3>3 DEF UpsPlace
  <2> QED  BY <1>4, <2>7, <2>8
<1> QED  BY <1>8, <1>9

(* A byte of the block is written, or the block ends where it was made to.   *)
LEMMA UpsByteFound ==
    ASSUME UpsType, SizeKept, UpsPlace, Paired, XorByte
    PROVE  UpsPlace'
<1>1. /\ pc = "xor" /\ Goal /\ Len(out) = loc.sizey /\ job' = job /\ job.whole
      /\ loc.rcrcy \in File /\ loc.i < Len(loc.rcrcy) /\ Mixed(out, loc.rcrcy, job.rom, loc.relative)
  BY UpsFiles DEF XorByte, InOutput, UpsPlace, SizeKept, Paired, Goal
<1>2. PICK k \in 1 .. Len(job.blocks) : InBlock(k)
  BY <1>1 DEF UpsPlace
<1> DEFINE b == job.blocks[k]
           m == job.marks[k]
<1>3. /\ b.start \in Nat /\ b.len \in Nat /\ UpsBlockMade(job, b, m, job.marks[k + 1])
      /\ loc.i = loc.relative /\ loc.i >= b.start /\ loc.i <= b.start + b.len
      /\ at = After(job.patch, m.pos) + (loc.i - b.start)
  BY <1>1, <1>2, UpsBlockOf DEF InBlock
<1>4. PICK d \in Nat, n \in Nat : /\ d = After(job.patch, m.pos) /\ n = loc.i - b.start
                                  /\ at = d + n /\ n <= b.len /\ loc.i = b.start + n
  <2>1. loc.i - b.start \in Nat /\ loc.i = b.start + (loc.i - b.start) /\ loc.i - b.start <= b.len
    BY <1>3, UpsFiles, SMTT(30), ZenonT(30)
  <2>2. After(job.patch, m.pos) \in Nat
    BY <1>1, <1>2, UpsBlockOf
  <2> QED  BY <1>3, <2>1, <2>2
<1>5. d + b.len < Len(job.patch) /\ at < Len(job.patch) /\ at' = at + 1
  <2>1. d + b.len < Len(job.patch)
    BY <1>3, <1>4 DEF UpsBlockMade
  <2>2. at < Len(job.patch)
    BY <1>3, <1>4, <2>1, UpsFiles, SMTT(30), ZenonT(30)
  <2>3. at' = Next1(job.patch, at)
    BY DEF XorByte
  <2> QED  BY <2>1, <2>2, <2>3 DEF Next1
<1>6. PICK z : z = ReadAt(job.patch, at)
  OBVIOUS
<1>7. PICK r \in Nat : r = loc.relative + 1 /\ r = loc.i + 1
  BY <1>3, UpsFiles
<1>8. CASE n = b.len
  <2>1. z = 0
    BY <1>3, <1>4, <1>6, <1>8 DEF UpsBlockMade
  <2>2. pc' = "block" /\ out' = out /\ loc' = [loc EXCEPT !.relative = r]
    BY <1>6, <1>7, <2>1 DEF XorByte
  <2>3. loc'.relative = r /\ loc'.sizey = loc.sizey /\ loc'.sizex = loc.sizex /\ loc'.rcrcy = loc.rcrcy
    BY <2>2 DEF UpsType, UpsLocals
  <2>4. Goal'
    BY <1>1, <2>3 DEF Goal, Chosen
  <2>5. job.marks[k + 1] = [pos |-> d + b.len + 1, rel |-> b.start + b.len + 1] /\ Same(job, b.start + b.len)
    BY <1>3, <1>4 DEF UpsBlockMade
  <2>6. AtBlock(k + 1)'
    <3>1. job.marks[k + 1].pos = d + b.len + 1 /\ job.marks[k + 1].rel = b.start + b.len + 1
      BY <2>5
    <3>2. at' = d + b.len + 1 /\ r = b.start + b.len + 1
      BY <1>4, <1>5, <1>7, <1>8
    <3>3. job' = job /\ at' = job.marks[k + 1].pos /\ loc'.relative = job.marks[k + 1].rel
      BY <1>1, <2>3, <3>1, <3>2, Zenon
    <3> QED  BY <3>3, Zenon DEF AtBlock
  <2>7. Mixed(out, loc.rcrcy, job.rom, r)
    <3>1. Padded(job.rom, loc.relative) = Padded(loc.rcrcy, loc.relative)
      BY <1>1, <1>3, <1>4, <1>8, <2>5, SameHere DEF Goal
    <3>2. \A i \in loc.relative .. (r - 1) : Padded(job.rom, i) = Padded(loc.rcrcy, i)
      <4>1. \A i \in loc.relative .. (r - 1) : i = loc.relative
        BY <1>7, UpsFiles
      <4> QED  BY <3>1, <4>1
    <3>3. loc.relative \in Nat /\ loc.relative <= r
      BY <1>7, UpsFiles
    <3> QED  BY <1>1, <3>2, <3>3, MixedOn
  <2>8. Mixed(out, loc.rcrcy, job.rom, loc.relative)'
    BY <1>1, <2>2, <2>3, <2>7 DEF Mixed
  <2>9. k + 1 \in 1 .. (Len(job.blocks) + 1)
    BY <1>1, UpsBlockOf
  <2> QED  BY <1>1, <2>2, <2>4, <2>6, <2>8, <2>9 DEF UpsPlace
<1>9. CASE n # b.len
  <2>1. n \in 0 .. (b.len - 1)
    BY <1>3, <1>4, <1>9
  <2>2. z # 0 /\ z = Xor(Padded(job.crcx, loc.i), Padded(job.crcy, loc.i))
    BY <1>3, <1>4, <1>6, <2>1 DEF UpsBlockMade
  <2>3. pc' = "xor" /\ out' = WriteAt(out, loc.i, Xored(z)) /\ loc' = [loc EXCEPT !.relative = r, !.i = r]
    BY <1>1, <1>6, <1>7, <2>2 DEF XorByte
  <2>4. loc'.relative = r /\ loc'.i = r /\ loc'.sizey = loc.sizey /\ loc'.sizex = loc.sizex /\ loc'.rcrcy = loc.rcrcy
    BY <2>3 DEF UpsType, UpsLocals
  <2>5. Goal'
    BY <1>1, <2>4 DEF Goal, Chosen
  <2>6. Xored(z) = Xor(z, Padded(job.rom, loc.i))
    BY <1>1 DEF Xored, ReadAt, Padded, Goal
  <2>7. Xored(z) = Padded(loc.rcrcy, loc.i)
    BY <1>1, <2>2, <2>6, UpsFiles, XorBack DEF Goal
  <2>8. Mixed(out', loc.rcrcy, job.rom, loc.i + 1)
    BY <1>1, <1>3, <2>3, <2>7, UpsFiles, MixedPut DEF Goal
  <2>9. Mixed(out, loc.rcrcy, job.rom, loc.relative)'
    BY <1>1, <1>7, <2>4, <2>8 DEF Mixed
  <2>10. InBlock(k)'
    <3>1. r >= b.start /\ r <= b.start + b.len /\ at' = d + (r - b.start)
      <4>1. PICK u \in Nat, v \in Nat : u = b.start /\ v = b.len
        BY <1>3
      <4>2. r = u + n + 1
        BY <1>4, <1>7, <4>1
      <4>3. n + 1 <= v
        BY <2>1, <4>1
      <4>4. at' = d + n + 1
        BY <1>4, <1>5
      <4>5. r >= u /\ r <= u + v /\ at' = d + (r - u)
        BY <4>2, <4>3, <4>4
      <4> QED  BY <4>1, <4>5
    <3>2. /\ loc'.i = loc'.relative /\ loc'.i >= b.start /\ loc'.i <= b.start + b.len
          /\ at' = After(job.patch, m.pos) + (loc'.i - b.start)
      BY <1>4, <2>4, <3>1
    <3> QED  BY <1>1, <3>2 DEF InBlock
  <2> QED  BY <1>1, <2>3, <2>5, <2>9, <2>10 DEF UpsPlace
<1> QED  BY <1>8, <1>9

(* When no block is left, the output is the other file.                      *)
LEMMA UpsBlocksOver ==
    ASSUME UpsType, SizeKept, UpsPlace, Paired, pc = "block", ~More
    PROVE  Goal /\ out = loc.rcrcy
<1>1. Goal /\ Len(out) = Len(loc.rcrcy) /\ loc.rcrcy \in File /\ job.whole
  BY UpsFiles DEF UpsPlace, SizeKept, Goal, Paired
<1>2. CASE ~Past
  <2>1. Mixed(out, loc.rcrcy, job.rom, loc.relative) /\ \E k \in 1 .. (Len(job.blocks) + 1) : AtBlock(k)
    BY <1>2 DEF UpsPlace
  <2>2. PICK k \in 1 .. (Len(job.blocks) + 1) : AtBlock(k)
    BY <2>1
  <2>3. k \notin 1 .. Len(job.blocks)
    BY <1>1, <2>2, UpsBlockOf DEF UpsBlockMade, More, AtBlock
  <2>4. k = Len(job.blocks) + 1
    BY <1>1, <2>3, UpsBlockOf
  <2>5. PICK s \in Nat : s >= loc.relative /\ s >= Len(loc.rcrcy)
    <3>1. Len(loc.rcrcy) \in Nat
      BY <1>1 DEF File
    <3>2. loc.relative + Len(loc.rcrcy) \in Nat
      BY <3>1, UpsFiles
    <3> QED  BY <3>1, <3>2, UpsFiles
  <2>6. \A i \in loc.relative .. (s - 1) : i < Len(loc.rcrcy) => Padded(job.rom, i) = Padded(loc.rcrcy, i)
    <3> TAKE i \in loc.relative .. (s - 1)
    <3>1. i < Len(loc.rcrcy) => i \in loc.relative .. (Len(job.crcx) + Len(job.crcy))
      <4>1. PICK u \in Nat, v \in Nat : u = Len(job.crcx) /\ v = Len(job.crcy)
        BY UpsFiles DEF File
      <4>2. Len(loc.rcrcy) = u \/ Len(loc.rcrcy) = v
        BY <1>1, <4>1 DEF Goal, Chosen
      <4>3. i \in Nat /\ i >= loc.relative
        BY <2>5, UpsFiles
      <4>4. Len(loc.rcrcy) <= u + v
        BY <4>2
      <4>5. i < Len(loc.rcrcy) => i \in loc.relative .. (u + v)
        BY <4>2, <4>3, <4>4, UpsFiles
      <4> QED  BY <4>1, <4>5
    <3>2. loc.relative = job.marks[Len(job.blocks) + 1].rel
      BY <2>2, <2>4 DEF AtBlock
    <3>3. i < Len(loc.rcrcy) => Same(job, i)
      BY <1>1, <3>1, <3>2, UpsBlockOf
    <3> QED  BY <1>1, <3>3, SameHere DEF Goal
  <2>7. Mixed(out, loc.rcrcy, job.rom, s)
    BY <1>1, <2>1, <2>5, <2>6, UpsFiles, MixedOn
  <2> QED  BY <1>1, <2>5, <2>7, UpsFiles, MixedWhole
<1> QED  BY <1>1, <1>2 DEF Past

(* The direction, and the copy of the ROM the blocks are laid over.          *)
LEMMA UpsPlaced ==
    ASSUME UpsType, SizeKept, UpsPlace, Paired, Direction \/ Copy
    PROVE  UpsPlace' /\ pc' # "done"
<1>0. /\ job' = job /\ job.signed /\ job.intact /\ decptr(job.patch, 0) = Len(job.crcx)
      /\ decptr(job.patch, After(job.patch, 0)) = Len(job.crcy)
  BY UpsFiles DEF Paired, UpsMade, Direction, Copy
<1>1. CASE Direction
  <2>1. IsX \/ IsY
    BY <1>0 DEF Paired, IsX, IsY
  <2>2. pc' = "copy" /\ at' = FirstBlock(job.patch) /\ loc.relative = 0
    BY <1>1, <2>1 DEF Direction, UpsPlace
  <2>3. (~IsX /\ IsY /\ loc' = Swapped) \/ (IsX /\ loc' = Files(decptr(job.patch, 0), decptr(job.patch, After(job.patch, 0)), job.crcy))
    BY <1>1, <2>1 DEF Direction
  <2>4. /\ loc'.relative = 0
        /\ \/ IsY /\ loc'.sizex = Len(job.crcy) /\ loc'.sizey = Len(job.crcx) /\ loc'.rcrcy = job.crcx
           \/ IsX /\ loc'.sizex = Len(job.crcx) /\ loc'.sizey = Len(job.crcy) /\ loc'.rcrcy = job.crcy
    BY <1>0, <2>2, <2>3 DEF Swapped, Files, UpsType, UpsLocals
  <2>5. Goal'
    BY <1>0, <2>4 DEF Goal, Chosen, IsX, IsY
  <2> QED  BY <1>0, <2>2, <2>4, <2>5 DEF UpsPlace
<1>2. CASE Copy
  <2>1. /\ Goal /\ at = FirstBlock(job.patch) /\ loc.relative = 0 /\ loc.rcrcy \in File
        /\ at' = at /\ loc' = loc /\ pc' = "block"
    BY <1>2, UpsFiles DEF Copy, UpsPlace, Goal
  <2>2. out' = [k \in 1 .. Len(loc.rcrcy) |-> IF k <= Len(job.rom) THEN ReadAt(job.rom, k - 1) ELSE 0]
    BY <1>2, <2>1 DEF Copy, Goal
  <2>3. Mixed(out', loc.rcrcy, job.rom, loc.relative)
    BY <2>1, <2>2, UpsFiles, MixedStarts
  <2>4. AtBlock(1)
    BY <2>1, UpsBlockOf DEF AtBlock, Paired
  <2>5. (Goal /\ Mixed(out, loc.rcrcy, job.rom, loc.relative) /\ AtBlock(1))'
    BY <1>0, <2>1, <2>3, <2>4 DEF Goal, Chosen, AtBlock, Mixed
  <2>6. 1 \in 1 .. (Len(job.blocks) + 1)
    BY UpsBlockOf DEF Paired
  <2> QED  BY <1>0, <2>1, <2>5, <2>6 DEF UpsPlace
<1> QED  BY <1>1, <1>2

(* Each step of UPS::apply keeps in step with the maker of the patch.        *)
LEMMA UpsBothStep == BothIInv /\ [UpsNext \/ Done]_vars => BothIInv'
<1> SUFFICES ASSUME BothIInv, [UpsNext \/ Done]_vars PROVE BothIInv'
  OBVIOUS
<1>0. UpsType /\ SizeKept /\ (UpsType /\ SizeKept)'
  BY UpsTypeStep DEF BothIInv
<1>s. SUFFICES (Paired => UpsPlace)' /\ BothWays'
  BY <1>0 DEF BothIInv
<1>1. CASE OpenFails
  BY <1>1 DEF OpenFails, Close, BothWays, UpsPlace
<1>2. CASE BadPatch
  <2>1. ~Paired /\ job' = job
    <3>1. job.whole => job.signed /\ job.intact
      BY <1>0, UpsFiles DEF UpsMade
    <3>2. Len(job.patch) >= MinLen => ~(Len(job.patch) < MinLen)
      BY <1>0, UpsFiles, UpsAssumption
    <3> QED  BY <1>2, <3>1, <3>2 DEF BadPatch, Paired
  <2> QED  BY <2>1 DEF Paired, BothWays
<1>3. CASE Direction \/ Copy
  <2>1. job' = job /\ (Paired => UpsPlace' /\ pc' # "done")
    BY <1>0, <1>3, UpsPlaced DEF Direction, Copy, BothIInv
  <2> QED  BY <2>1 DEF Paired, BothWays
<1>4. CASE Block
  <2>1. job' = job /\ (Paired => UpsPlace') /\ pc' # "done"
    BY <1>0, <1>4, UpsBlockFound DEF Block, BothIInv
  <2> QED  BY <2>1 DEF Paired, BothWays
<1>5. CASE XorByte
  <2>1. job' = job /\ (Paired => UpsPlace') /\ pc' # "done"
    BY <1>0, <1>5, UpsByteFound DEF XorByte, BothIInv
  <2> QED  BY <2>1 DEF Paired, BothWays
<1>6. CASE BlockFull
  <2>1. ASSUME Paired PROVE UpsPlace'
    <3>1. /\ Goal /\ Len(out) = Len(loc.rcrcy) /\ loc.rcrcy \in File /\ job.whole
          /\ Mixed(out, loc.rcrcy, job.rom, loc.relative) /\ \E k \in 1 .. Len(job.blocks) : InBlock(k)
      BY <1>0, <1>6, <2>1, UpsFiles DEF BothIInv, UpsPlace, SizeKept, Goal, Paired, BlockFull
    <3>2. loc.relative >= Len(loc.rcrcy) /\ loc.relative >= loc.sizey
      BY <1>0, <1>6, <3>1, UpsFiles DEF InBlock, BlockFull, InOutput, Goal
    <3>3. Past
      BY <1>0, <3>1, <3>2, UpsFiles, MixedWhole DEF Past
    <3> QED  BY <1>6, <3>1, <3>3 DEF BlockFull, UpsPlace, Goal, Chosen, Past
  <2> QED  BY <1>6, <2>1 DEF BlockFull, Paired, BothWays
<1>7. CASE Verify
  <2>1. Paired => Goal /\ out = loc.rcrcy
    BY <1>0, <1>7, UpsBlocksOver DEF BothIInv, Verify
  <2>2. job' = job /\ pc' = "done" /\ disk' = out /\ (out = loc.rcrcy => ret' = 0)
    BY <1>7 DEF Verify, Close
  <2> QED  BY <2>1, <2>2 DEF Paired, Goal, Chosen, BothWays, UpsPlace
<1>8. CASE Done \/ UNCHANGED vars
  <2>1. UNCHANGED vars
    BY <1>8 DEF Done
  <2>2. Paired' = Paired /\ UpsPlace' = UpsPlace /\ BothWays' = BothWays
    BY <2>1 DEF vars, Paired, UpsPlace, Goal, Chosen, Past, AtBlock, InBlock, Mixed, BothWays
  <2> QED  BY <2>2 DEF BothIInv
<1> QED  BY <1>1, <1>2, <1>3, <1>4, <1>5, <1>6, <1>7, <1>8 DEF UpsNext

(* A call starts before the first block.                                     *)
LEMMA UpsBothStarts == UpsInit => BothIInv
<1> SUFFICES ASSUME UpsInit PROVE BothIInv
  OBVIOUS
<1>1. UpsType /\ SizeKept
  BY UpsTypeStarts
<1> QED  BY <1>1 DEF UpsInit, BothIInv, BothWays, UpsPlace

=============================================================================
