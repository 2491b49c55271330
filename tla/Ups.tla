-------------------------------- MODULE Ups --------------------------------
(* UPS::apply of libups.cpp, which patches in both directions: a patch of X  *)
(* and Y turns a ROM that is X into Y and one that is Y into X.              *)
(*                                                                           *)
(* A byte has one stop bit and Low values below it (7 bits in the code); the *)
(* patch is its byte stream behind the signature, and a CRC is the content   *)
(* it is the CRC of (no collisions).  The last FootLen bytes of the stream   *)
(* are the three CRCs, which the loop may read as if they were data.         *)
EXTENDS PatchIO

CONSTANTS FootLen,        \* 12 in the code
          MinLen          \* 16 in the code: 20 bytes less the signature
Low == Base \div 2        \* 128 in the code

\* file::read: past the end every read returns 0xff and does not advance.
ReadAt(f, k) == IF k < Len(f) THEN f[k + 1] ELSE Base - 1
Next1(p, k) == IF k < Len(p) THEN k + 1 ELSE k
\* file::write, at the end of the file or within it.
WriteAt(f, k, b) == IF k < Len(f) THEN [f EXCEPT ![k + 1] = b] ELSE Append(f, b)

\* decptr: digits of base Low, low first, up to the byte with the stop bit;
\* every further digit adds its weight, shift, once more.
StopAt(p, k) == Min({j \in k .. Len(p) : ReadAt(p, j) >= Low})
decptr(p, k) ==
    LET last == StopAt(p, k) - k
        loop[n \in 0 .. last] ==
          LET digit == ReadAt(p, k + n) % Low IN
          IF n = 0 THEN [offset |-> digit, shift |-> 1]
          ELSE LET before == loop[n - 1]
                   shift == before.shift * Low
               IN [offset |-> before.offset + shift + digit * shift, shift |-> shift]
    IN loop[last].offset
After(p, k) == Next1(p, StopAt(p, k))
FirstBlock(p) == After(p, After(p, 0))

\* How a patch was made of X and Y: both are padded with zeros, relative is
\* marks[k].rel at block k, and its bytes are where the files differ.
Padded(f, i) == IF i < Len(f) THEN f[i + 1] ELSE 0
Same(j, i) == Padded(j.crcx, i) = Padded(j.crcy, i)
UpsMarks == [pos : Nat, rel : Nat]
UpsBlockMade(j, b, m, next) ==
    LET data == After(j.patch, m.pos) IN
       /\ m.pos < Len(j.patch) - FootLen /\ m.rel + decptr(j.patch, m.pos) = b.start
       /\ next = [pos |-> data + b.len + 1, rel |-> b.start + b.len + 1]
       /\ data + b.len < Len(j.patch) /\ ReadAt(j.patch, data + b.len) = 0 /\ Same(j, b.start + b.len)
       /\ \A i \in m.rel .. (b.start - 1) : Same(j, i)
       /\ \A i \in 0 .. (b.len - 1) :
            /\ ReadAt(j.patch, data + i) # 0
            /\ ReadAt(j.patch, data + i) = Xor(Padded(j.crcx, b.start + i), Padded(j.crcy, b.start + i))
UpsMade(j) ==
    LET n == Len(j.blocks) IN
    /\ j.signed /\ j.intact
    /\ decptr(j.patch, 0) = Len(j.crcx) /\ decptr(j.patch, After(j.patch, 0)) = Len(j.crcy)
    /\ j.blocks \in Seq([start : Nat, len : Nat]) /\ j.marks \in [1 .. (n + 1) -> UpsMarks]
    /\ j.marks[1] = [pos |-> FirstBlock(j.patch), rel |-> 0] /\ j.marks[n + 1].pos = Len(j.patch) - FootLen
    /\ \A i \in j.marks[n + 1].rel .. (Len(j.crcx) + Len(j.crcy)) : Same(j, i)
    /\ \A k \in 1 .. n : UpsBlockMade(j, j.blocks[k], j.marks[k], j.marks[k + 1])
ASSUME UpsAssumption == /\ FootLen \in Nat /\ MinLen \in Nat /\ MinLen > FootLen
                        /\ \A j \in Jobs("ups") : j.crcx \in File /\ j.crcy \in File /\ (j.whole => UpsMade(j))

UpsInit == /\ job \in Jobs("ups") /\ out = <<>> /\ disk = <<>> /\ at = 0 /\ pc = "open" /\ ret = 0
           /\ loc = [sizex |-> 0, sizey |-> 0, rcrcy |-> <<>>, relative |-> 0, i |-> 0]

\* A file cannot be opened.
OpenFails == /\ pc = "open" /\ (\E r \in {-1, -2, -3} : Close(r)) /\ UNCHANGED <<job, out, at, loc>>

\* The patch is rejected for its size, its CRC or its signature.
BadPatch ==
    /\ pc = "open"
    /\ \/ Len(job.patch) < MinLen /\ Close(-4)
       \/ Len(job.patch) >= MinLen /\ ~job.intact /\ ~job.ignore /\ Close(-5)
       \/ Len(job.patch) >= MinLen /\ (job.intact \/ job.ignore) /\ ~job.signed /\ Close(-6)
    /\ UNCHANGED <<job, out, at, loc>>

\* The ROM is the patch's X, or its Y (then sizes and CRCs are swapped); if
\* it is neither, only "ignore checksums" goes on, as if it were X.
IsX == Len(job.rom) = decptr(job.patch, 0) /\ job.rom = job.crcx
IsY == Len(job.rom) = decptr(job.patch, After(job.patch, 0)) /\ job.rom = job.crcy
Files(x, y, crc) == [loc EXCEPT !.sizex = x, !.sizey = y, !.rcrcy = crc]
SwappedKeepsCRC == Files(decptr(job.patch, After(job.patch, 0)), decptr(job.patch, 0), job.crcy)          \* mutant
Swapped == Files(decptr(job.patch, After(job.patch, 0)), decptr(job.patch, 0), job.crcx)
Direction ==
    /\ pc = "open" /\ Len(job.patch) >= MinLen /\ (job.intact \/ job.ignore) /\ job.signed
    /\ \/ ~IsX /\ IsY /\ loc' = Swapped
       \/ (IsX \/ ~IsY) /\ loc' = Files(decptr(job.patch, 0), decptr(job.patch, After(job.patch, 0)), job.crcy)
    /\ at' = FirstBlock(job.patch)
    /\ \/ (IsX \/ IsY \/ job.ignore) /\ pc' = "copy" /\ UNCHANGED <<ret, disk>>
       \/ ~(IsX \/ IsY \/ job.ignore) /\ Close(-7)
    /\ UNCHANGED <<job, out>>

\* The output starts as the input, cut or padded with zeros to sizey.
Copy == /\ pc = "copy" /\ pc' = "block"
        /\ out' = [k \in 1 .. loc.sizey |-> IF k <= loc.sizex THEN ReadAt(job.rom, k - 1) ELSE 0]
        /\ UNCHANGED <<job, disk, at, loc, ret>>

More == at < Len(job.patch) - FootLen

\* The head of the loop over the blocks; one that starts past the output is
\* skipped, and with it only the bytes its offset took.
BlockStuck == /\ pc = "block" /\ More                          \* mutant: a skipped block is read again
              /\ LET r == loc.relative + decptr(job.patch, at) IN
                 /\ loc' = [loc EXCEPT !.relative = r, !.i = r]
                 /\ IF r < loc.sizey THEN pc' = "xor" /\ at' = After(job.patch, at) ELSE pc' = pc /\ at' = at
              /\ UNCHANGED <<job, out, disk, ret>>
Block == /\ pc = "block" /\ More
         /\ LET r == loc.relative + decptr(job.patch, at) IN
            /\ loc' = [loc EXCEPT !.relative = r, !.i = r]
            /\ \/ r < loc.sizey /\ pc' = "xor"
               \/ r >= loc.sizey /\ pc' = pc
         /\ at' = After(job.patch, at) /\ UNCHANGED <<job, out, disk, ret>>

\* One byte of a block: 0 ends it, and so does the end of the output.
InOutputOver == loc.i <= loc.sizey                             \* mutant: one byte too far
InOutput == loc.i < loc.sizey
XoredSum(z) == z + IF loc.i < loc.sizex THEN ReadAt(job.rom, loc.i) ELSE 0          \* mutant
Xored(z) == Xor(z, IF loc.i < loc.sizex THEN ReadAt(job.rom, loc.i) ELSE 0)
XorByte ==
    LET z == ReadAt(job.patch, at) IN
    /\ pc = "xor" /\ InOutput
    /\ \/ z = 0 /\ pc' = "block" /\ out' = out /\ loc' = [loc EXCEPT !.relative = @ + 1]
       \/ z # 0 /\ pc' = pc /\ out' = WriteAt(out, loc.i, Xored(z)) /\ loc' = [loc EXCEPT !.relative = @ + 1, !.i = @ + 1]
    /\ at' = Next1(job.patch, at) /\ UNCHANGED <<job, disk, ret>>
BlockFull == /\ pc = "xor" /\ ~InOutput /\ pc' = "block" /\ UNCHANGED <<job, out, disk, at, loc, ret>>

\* The CRC of the output.
VerifyNone == pc = "block" /\ ~More /\ Close(0) /\ UNCHANGED <<job, out, at, loc>>          \* mutant
Verify == /\ pc = "block" /\ ~More
          /\ \/ (out = loc.rcrcy \/ job.ignore) /\ Close(0)
             \/ ~(out = loc.rcrcy \/ job.ignore) /\ Close(-8)
          /\ UNCHANGED <<job, out, at, loc>>

UpsNext == OpenFails \/ BadPatch \/ Direction \/ Copy \/ Block \/ XorByte \/ BlockFull \/ Verify

-----------------------------------------------------------------------------
(* A patch made from X and Y turns X into Y and Y into X, with whatever      *)
(* bytes its CRCs have: the terminator of a block that reaches the end of    *)
(* the output is left unread and taken for the start of another block, which *)
(* may run into the CRCs, and in the shrinking direction whole blocks are.   *)
(* (A patch without a block, of files that differ in trailing zeros only, is *)
(* below the smallest size apply accepts.)                                   *)
BothWays ==
    job.fmt = "ups" /\ job.whole /\ Len(job.patch) >= MinLen /\ pc = "done" /\ ret \notin {-1, -2, -3} =>
      /\ job.rom = job.crcx \/ job.rom = job.crcy => ret = 0
      /\ job.rom = job.crcx => disk = job.crcy
      /\ job.rom = job.crcy => disk = job.crcx

(* Without "ignore checksums" a success means that the ROM was one of the    *)
(* two files of the patch and the output is the other, for any patch file.   *)
SuccessMatches ==
    job.fmt = "ups" /\ pc = "done" /\ ret = 0 /\ ~job.ignore =>
      \/ job.rom = job.crcx /\ disk = job.crcy
      \/ job.rom = job.crcy /\ disk = job.crcx

(* Once it is laid out, the output never changes its size: no block of any   *)
(* patch, damaged ones under "ignore checksums" included, writes past it.    *)
SizeKept == job.fmt = "ups" /\ pc \in {"block", "xor"} => Len(out) = loc.sizey
=============================================================================
