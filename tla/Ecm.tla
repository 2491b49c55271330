-------------------------------- MODULE Ecm --------------------------------
(* ecm.c, run as unecm: a CD image is rebuilt from literal bytes and from    *)
(* sectors whose redundant parts (sync, mode, copy of the flags, EDC, ECC)   *)
(* were left out.  The ECM file is the list of its segments: a type, the     *)
(* digits of the count (5 bits, then 7 bits each) and the bytes that follow; *)
(* the EDC behind them is the image it was computed from (no collisions).    *)
EXTENDS PatchIO

CONSTANTS Sync,           \* the 12 bytes every sector starts with
          AddrLen,        \* 3: minute, second, frame
          DataLen,        \* 0x800
          EcmFlagLen,     \* 4: the flags of a mode 2 sector, stored twice
          EdcLen,         \* 4
          EccLen,         \* 0x114
          Edc(_), Ecc(_, _),
          First, More7,   \* 32 and 128: the range of the first digit of a count and of the others
          Counts          \* 2^32: the range of a count

\* Places in the sector buffer.
AddrAt == Len(Sync)
ModeAt == AddrAt + AddrLen                \* 0xF
BodyAt == ModeAt + 1                      \* 0x10
EccAt == BodyAt + 2 * EcmFlagLen + DataLen + EdcLen      \* 0x81C
SectorLen == EccAt + EccLen               \* 2352

\* The number of a segment's digits, low first, and whether it is in range
\* and no digit lies beyond the range.
EcmWeight(k) == IF k = 1 THEN 1 ELSE First * More7 ^ (k - 2)
EcmCount(digits) ==
    LET sum[k \in 0 .. Len(digits)] == IF k = 0 THEN 0 ELSE sum[k - 1] + digits[k] * EcmWeight(k)
    IN sum[Len(digits)]
EcmFits(digits) == EcmCount(digits) \in 0 .. (Counts - 1) /\ EcmWeight(Len(digits)) < Counts

\* What is stored of a sector.
Stored(type) == CASE type = 1 -> AddrLen + DataLen [] type = 2 -> EcmFlagLen + DataLen
                  [] type = 3 -> SectorLen - EdcLen - BodyAt - EcmFlagLen

\* The sector of which d was stored, as the image has it: in mode 2 without
\* the frame.
Framed(d) == Sync \o Slice(d, 0, AddrLen) \o <<1>> \o Slice(d, AddrLen, DataLen)
Summed(d) == Slice(d, AddrLen, DataLen) \o Edc(Framed(d)) \o Fill(2 * EcmFlagLen, 0)
Flagged(d) == Slice(d, 0, EcmFlagLen) \o d
SectorOf(d, type) ==
    CASE type = 1 -> Sync \o Slice(d, 0, AddrLen) \o <<1>> \o Summed(d) \o Ecc(Slice(d, 0, AddrLen) \o <<1>>, Summed(d))
      [] type = 2 -> Flagged(d) \o Edc(Flagged(d)) \o Ecc(Fill(AddrLen + 1, 0), Flagged(d) \o Edc(Flagged(d)))
      [] type = 3 -> Flagged(d) \o Edc(Flagged(d))
ImageLen(type) == IF type = 1 THEN SectorLen ELSE SectorLen - BodyAt

\* What the encoder makes of an image: segment k stands for the image from
\* marks[k] on, and the one behind the last is the end mark.
EcmMade(j) ==
    LET n == Len(j.segs) - 1
        last == j.segs[n + 1]
    IN /\ j.magic = "ECM" /\ ~j.noEdc /\ n \in Nat
       /\ EcmFits(last.digits) /\ EcmCount(last.digits) = Counts - 1
       /\ j.marks \in [1 .. (n + 1) -> Nat] /\ j.marks[1] = 0 /\ j.marks[n + 1] = Len(j.want)
       /\ \A k \in 1 .. n : LET c == j.segs[k]
                                num == EcmCount(c.digits) + 1
                                size == Stored(c.type)
                                image == ImageLen(c.type)
            IN /\ EcmFits(c.digits) /\ num \in 1 .. (Counts - 1) /\ j.marks[k + 1] <= Len(j.want)
               /\ \/ /\ c.type = 0 /\ num <= Len(c.data) /\ j.marks[k + 1] = j.marks[k] + num
                     /\ \A i \in 1 .. num : j.want[j.marks[k] + i] = c.data[i]
                  \/ /\ c.type # 0 /\ num * size <= Len(c.data) /\ j.marks[k + 1] = j.marks[k] + num * image
                     /\ \A q \in 0 .. (num - 1) :
                          Slice(j.want, j.marks[k] + q * image, image) = SectorOf(Slice(c.data, q * size, size), c.type)

EcmSegments == [type : 0 .. 3, digits : Seq(Nat), data : File]
ASSUME EcmAssumption ==
    /\ Sync \in File /\ AddrLen \in Nat /\ DataLen \in Nat /\ EcmFlagLen \in Nat /\ EdcLen \in Nat /\ EccLen \in Nat
    /\ First \in Nat \ {0} /\ More7 \in Nat \ {0} /\ Counts \in Nat \ {0} /\ Base > 2
    /\ \A j \in Jobs("ecm") : j.segs \in Seq(EcmSegments) /\ j.before \in Int /\ (j.whole => EcmMade(j))
\* The sums have the size of their fields.
ASSUME EcmSums ==
    /\ \A n \in {BodyAt + DataLen, 2 * EcmFlagLen + DataLen, SectorLen - EdcLen - BodyAt} :
         \A s \in [1 .. n -> Byte] : Edc(s) \in [1 .. EdcLen -> Byte]
    /\ \A a \in [1 .. (AddrLen + 1) -> Byte], s \in [1 .. (EccAt - BodyAt) -> Byte] : Ecc(a, s) \in [1 .. EccLen -> Byte]

EcmInit == /\ job \in Jobs("ecm")
           /\ out = <<>> /\ disk = <<>> /\ at = 0                 \* at: segments begun
           /\ \E b \in Byte : loc = [sector |-> Fill(SectorLen, b), num |-> 0, pos |-> 0, myError |-> job.before, io |-> FALSE]
           /\ pc = "unecmify" /\ ret = 0

\* error: both files are closed.  main then makes a 5 of the 4, in a global
\* that no call resets.
EcmError(io) == Close(5) /\ loc' = [loc EXCEPT !.myError = 5, !.io = io]

\* The output must not exist; the input opens and has the header.  (out and
\* disk are what this call wrote: a file that exists already stays.)
EcmOpen == /\ pc = "unecmify"
           /\ \/ EcmError(TRUE)
              \/ (job.exists \/ job.magic # "ECM") /\ EcmError(FALSE)
              \/ ~job.exists /\ job.magic = "ECM" /\ pc' = "segment" /\ UNCHANGED <<ret, disk, loc>>
           /\ UNCHANGED <<job, out, at>>

\* The head of a segment.
EcmSegment ==
    LET c == job.segs[at + 1] IN
    /\ pc = "segment"
    /\ \/ at = Len(job.segs) /\ EcmError(FALSE) /\ at' = at
       \/ at < Len(job.segs) /\ ~EcmFits(c.digits) /\ EcmError(FALSE) /\ at' = at
       \/ /\ at < Len(job.segs) /\ EcmFits(c.digits) /\ at' = at + 1
          /\ \/ EcmCount(c.digits) = Counts - 1 /\ pc' = "verify" /\ loc' = loc
             \/ /\ EcmCount(c.digits) # Counts - 1
                /\ pc' = IF c.type = 0 THEN "literal" ELSE "sector"
                /\ loc' = [loc EXCEPT !.num = EcmCount(c.digits) + 1, !.pos = 0]
          /\ UNCHANGED <<ret, disk>>
    /\ UNCHANGED <<job, out>>

\* Output of s: a write error may leave part of it.
EcmWrite(s, l) == \/ out' = out \o s /\ loc' = l /\ UNCHANGED <<pc, ret, disk>>
                  \/ /\ \E n \in 0 .. Len(s) : out' = out \o Slice(s, 0, n)
                     /\ loc' = [l EXCEPT !.myError = 5, !.io = TRUE]
                     /\ disk' = out' /\ pc' = "done" /\ ret' = 5

\* Literal bytes go through the sector buffer, at most a buffer at a time.
EcmLiteral ==
    LET b == Min({loc.num, SectorLen})
        got == Slice(job.segs[at].data, loc.pos, b)
    IN /\ pc = "literal" /\ UNCHANGED <<job, at>>
       /\ \/ loc.num = 0 /\ pc' = "segment" /\ UNCHANGED <<out, disk, loc, ret>>
          \/ loc.num > 0 /\ Len(got) < b /\ EcmError(FALSE) /\ out' = out
          \/ /\ loc.num > 0 /\ Len(got) = b
             /\ EcmWrite(got, [loc EXCEPT !.num = @ - b, !.pos = @ + b, !.sector = Put(@, 0, got)])

\* reconstruct_sector, on a buffer that holds what the sector before left.
Body(s, n) == Slice(s, BodyAt, n)
WithFrame(s, type) == Put(Put(s, 0, Sync), ModeAt, <<IF type = 1 THEN 1 ELSE 2>>)
WithReservedKept(s, type) == Put(s, BodyAt, IF type = 1 THEN <<>> ELSE Slice(s, BodyAt + EcmFlagLen, EcmFlagLen))        \* mutant
WithReserved(s, type) == IF type = 1 THEN Put(s, BodyAt + DataLen + EdcLen, Fill(2 * EcmFlagLen, 0))
                         ELSE Put(s, BodyAt, Slice(s, BodyAt + EcmFlagLen, EcmFlagLen))
WithEdc(s, type) == CASE type = 1 -> Put(s, BodyAt + DataLen, Edc(Slice(s, 0, BodyAt + DataLen)))
                      [] type = 2 -> Put(s, EccAt - EdcLen, Edc(Body(s, 2 * EcmFlagLen + DataLen)))
                      [] type = 3 -> Put(s, SectorLen - EdcLen, Edc(Body(s, SectorLen - EdcLen - BodyAt)))
WithEcc(s, type) == CASE type = 1 -> Put(s, EccAt, Ecc(Slice(s, AddrAt, AddrLen + 1), Body(s, EccAt - BodyAt)))
                      [] type = 2 -> Put(s, EccAt, Ecc(Fill(AddrLen + 1, 0), Body(s, EccAt - BodyAt)))
                      [] type = 3 -> s
\* The one buffer that results, as a set: TLC evaluates each part once.
reconstruct_sector(s, type) ==
    {WithEcc(c, type) : c \in {WithEdc(b, type) : b \in {WithReserved(a, type) : a \in {WithFrame(s, type)}}}}

\* What is read of a sector goes into the buffer, and what of it is written.
ReadSector(s, got, type) ==
    IF type = 1 THEN Put(Put(s, AddrAt, Slice(got, 0, AddrLen)), BodyAt, Slice(got, AddrLen, DataLen))
    ELSE Put(s, BodyAt + EcmFlagLen, got)
Written(s, type) == IF type = 1 THEN s ELSE Slice(s, BodyAt, SectorLen - BodyAt)

EcmSector ==
    LET c == job.segs[at]
        got == Slice(c.data, loc.pos, Stored(c.type))
    IN /\ pc = "sector" /\ UNCHANGED <<job, at>>
       /\ \/ loc.num = 0 /\ pc' = "segment" /\ UNCHANGED <<out, disk, loc, ret>>
          \/ loc.num > 0 /\ Len(got) < Stored(c.type) /\ EcmError(FALSE) /\ out' = out
          \/ /\ loc.num > 0 /\ Len(got) = Stored(c.type)
             /\ \E new \in reconstruct_sector(ReadSector(loc.sector, got, c.type), c.type) :
                  EcmWrite(Written(new, c.type), [loc EXCEPT !.num = @ - 1, !.pos = @ + Stored(c.type), !.sector = new])

\* The EDC of the image; the result is the global, not this call's.
EcmVerify == /\ pc = "verify"
             /\ \/ (job.noEdc \/ out # job.want) /\ EcmError(FALSE)
                \/ ~job.noEdc /\ out = job.want /\ Close(loc.myError) /\ loc' = loc
             /\ UNCHANGED <<job, out, at>>

EcmNext == EcmOpen \/ EcmSegment \/ EcmLiteral \/ EcmSector \/ EcmVerify

-----------------------------------------------------------------------------
(* An intact ECM file gives the image it was made from, in whatever order    *)
(* sectors of the three types and literal bytes follow each other in the one *)
(* static buffer, with counts of any number of digits; it is reported as     *)
(* decoded if no earlier call of the process has failed.  And whatever the   *)
(* file holds, a success leaves the image its checksum belongs to.           *)
EcmExact == job.fmt = "ecm" /\ pc = "done" =>
              /\ job.whole /\ ~job.exists /\ ~loc.io => disk = job.want /\ ret = job.before
              /\ ret = 0 => disk = job.want
=============================================================================
