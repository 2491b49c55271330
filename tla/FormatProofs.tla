---------------------------- MODULE FormatProofs ----------------------------
(* What patchers with checks promise for every patch file whatever its size, *)
(* for every ROM and every number of values of a byte.                       *)
EXTENDS Ups, Bps, Bsdiff, WellFoundedInduction, TLAPS

-----------------------------------------------------------------------------
(* Natural numbers have a least one among any of them.                       *)
LEMMA Least == ASSUME NEW S, S \subseteq Nat, S # {}
               PROVE  \E x \in S : \A y \in S : x <= y
<1> DEFINE Less == {p \in Nat \X Nat : p[1] < p[2]}
<1>1. IsWellFoundedOn(Less, Nat)
  BY NatLessThanWellFounded DEF OpToRel
<1>3. \A x, y \in Nat : x < y => <<x, y>> \in Less
  OBVIOUS
<1> HIDE DEF Less
<1>2. \E x \in S : \A y \in S : ~ (<<y, x>> \in Less)
  BY <1>1, WFMin
<1>4. PICK x \in S : \A y \in S : ~ (<<y, x>> \in Less)
  BY <1>2
<1>5. \A y \in S : x <= y
  <2> TAKE y \in S
  <2>1. x \in Nat /\ y \in Nat
    OBVIOUS
  <2>2. ~ (y < x)
    BY <1>3, <1>4, <2>1
  <2> QED  BY <2>1, <2>2
<1> QED  BY <1>5

(* Induction up to a bound.                                                  *)
LEMMA UpTo == ASSUME NEW m \in Nat, NEW P, 0 \in P, \A n \in 0 .. (m - 1) : n \in P => n + 1 \in P
              PROVE  \A n \in 0 .. m : n \in P
<1> SUFFICES ASSUME (0 .. m) \ P # {} PROVE FALSE
  OBVIOUS
<1>1. PICK x \in (0 .. m) \ P : \A y \in (0 .. m) \ P : x <= y
  <2>1. (0 .. m) \ P \subseteq Nat
    OBVIOUS
  <2> QED  BY <2>1, Least
<1>2. x # 0 /\ x - 1 \in 0 .. (m - 1) /\ (x - 1) + 1 = x
  BY <1>1
<1>3. x - 1 \in P
  BY <1>1, <1>2
<1> QED  BY <1>1, <1>2, <1>3

(* A loop of m turns, of which turn n makes T[n][s] of s, can be run.        *)
IsLoop(T, m, S) == T \in [1 .. m -> [S -> S]]
IsRun(f, T, m, S, s0) == f \in [0 .. m -> S] /\ f[0] = s0 /\ \A n \in 1 .. m : f[n] = T[n][f[n - 1]]
LEMMA LoopRuns ==
    ASSUME NEW S, NEW m \in Nat, NEW s0 \in S, NEW T, IsLoop(T, m, S)
    PROVE  \E f : IsRun(f, T, m, S, s0)
<1> DEFINE Runs(q) == \E f \in [0 .. q -> S] : f[0] = s0 /\ \A n \in 1 .. q : f[n] = T[n][f[n - 1]]
           P == {q \in 0 .. m : Runs(q)}
<1>1. 0 \in P
  <2> DEFINE f == [n \in 0 .. 0 |-> s0]
  <2>1. f \in [0 .. 0 -> S] /\ f[0] = s0 /\ \A n \in 1 .. 0 : f[n] = T[n][f[n - 1]]
    OBVIOUS
  <2>2. Runs(0)
    BY <2>1
  <2> QED  BY <2>2
<1>2. ASSUME NEW q \in 0 .. (m - 1), q \in P PROVE q + 1 \in P
  <2>1. PICK f \in [0 .. q -> S] : f[0] = s0 /\ \A n \in 1 .. q : f[n] = T[n][f[n - 1]]
    BY <1>2
  <2>2. f[q] \in S /\ q + 1 \in 1 .. m /\ T[q + 1] \in [S -> S]
    BY <2>1 DEF IsLoop
  <2>3. PICK s \in S : s = T[q + 1][f[q]]
    BY <2>2
  <2> DEFINE g == [n \in 0 .. (q + 1) |-> IF n = q + 1 THEN s ELSE f[n]]
  <2>4. g \in [0 .. (q + 1) -> S] /\ g[0] = s0
    BY <2>1, <2>3
  <2>5. ASSUME NEW n \in 1 .. (q + 1) PROVE g[n] = T[n][g[n - 1]]
    <3>1. CASE n = q + 1
      <4>1. g[n] = s /\ n - 1 = q /\ g[n - 1] = f[q]
        BY <3>1
      <4> QED  BY <2>3, <3>1, <4>1
    <3>2. CASE n # q + 1
      <4>1. n \in 1 .. q /\ g[n] = f[n] /\ g[n - 1] = f[n - 1]
        BY <3>2
      <4> QED  BY <2>1, <4>1
    <3> QED  BY <3>1, <3>2
  <2>6. Runs(q + 1)
    BY <2>4, <2>5
  <2> QED  BY <2>2, <2>6
<1> HIDE DEF P
<1>3. \A n \in 0 .. m : n \in P
  BY <1>1, <1>2, UpTo
<1>4. m \in P
  BY <1>3
<1> QED  BY <1>4 DEF P, IsRun

-----------------------------------------------------------------------------
(* UPS: from the moment a direction is chosen until the call returns, the    *)
(* ROM is one file of the patch and the CRC to be compared is the other's.   *)
Chosen == \/ job.rom = job.crcx /\ loc.rcrcy = job.crcy
          \/ job.rom = job.crcy /\ loc.rcrcy = job.crcx
UpsIInv == /\ "rcrcy" \in DOMAIN loc /\ ret \in Int
           /\ pc \in {"copy", "block", "xor"} /\ ~job.ignore => Chosen
           /\ SuccessMatches

(* A call starts without a result.                                           *)
LEMMA UpsStarts == UpsInit => UpsIInv
  BY DEF UpsInit, UpsIInv, SuccessMatches

(* Each step of UPS::apply keeps the direction and the CRC.                  *)
LEMMA UpsStep == UpsIInv /\ [UpsNext \/ Done]_vars => UpsIInv'
<1> SUFFICES ASSUME UpsIInv, [UpsNext \/ Done]_vars PROVE UpsIInv'
  OBVIOUS
<1>1. CASE OpenFails
  BY <1>1 DEF OpenFails, Close, UpsIInv, SuccessMatches
<1>2. CASE BadPatch
  BY <1>2 DEF BadPatch, Close, UpsIInv, SuccessMatches
<1>3. CASE Direction
  <2>1. /\ UNCHANGED job /\ "rcrcy" \in DOMAIN loc'
        /\ (~IsX /\ IsY /\ loc'.rcrcy = job.crcx) \/ ((IsX \/ ~IsY) /\ loc'.rcrcy = job.crcy)
    BY <1>3 DEF Direction, Swapped, Files, UpsIInv
  <2>2. CASE (IsX \/ IsY \/ job.ignore) /\ pc' = "copy" /\ UNCHANGED <<ret, disk>>
    BY <2>1, <2>2 DEF IsX, IsY, UpsIInv, SuccessMatches, Chosen
  <2>3. CASE Close(-7)
    BY <2>1, <2>3 DEF Close, UpsIInv, SuccessMatches
  <2> QED  BY <1>3, <2>2, <2>3 DEF Direction
<1>4. CASE Copy
  BY <1>4 DEF Copy, UpsIInv, SuccessMatches, Chosen
<1>5. CASE Block
  BY <1>5 DEF Block, UpsIInv, SuccessMatches, Chosen
<1>6. CASE XorByte
  BY <1>6 DEF XorByte, UpsIInv, SuccessMatches, Chosen
<1>7. CASE BlockFull
  BY <1>7 DEF BlockFull, UpsIInv, SuccessMatches, Chosen
<1>8. CASE Verify
  BY <1>8 DEF Verify, Close, UpsIInv, SuccessMatches, Chosen
<1>9. CASE Done \/ UNCHANGED vars
  BY <1>9 DEF Done, vars, UpsIInv, SuccessMatches, Chosen
<1> QED  BY <1>1, <1>2, <1>3, <1>4, <1>5, <1>6, <1>7, <1>8, <1>9 DEF UpsNext

(* The end of an offset: the first byte with the stop bit, or the end.       *)
LEMMA StopIs ==
    ASSUME NEW p \in File, NEW k \in 0 .. Len(p)
    PROVE  StopAt(p, k) \in k .. Len(p) /\ After(p, k) \in k .. Len(p)
<1> DEFINE S == {j \in k .. Len(p) : ReadAt(p, j) >= Low}
<1>1. Len(p) \in Nat
  BY DEF File
<1>2. Base - 1 >= Low
  BY BaseAssumption DEF Low
<1>3. Len(p) \in S
  BY <1>1, <1>2 DEF ReadAt
<1>4. S \subseteq Nat
  BY <1>1
<1>5. \E x \in S : \A y \in S : x <= y
  BY <1>3, <1>4, Least
<1>6. Min(S) \in S
  BY <1>5 DEF Min
<1>7. StopAt(p, k) \in k .. Len(p)
  BY <1>6 DEF StopAt
<1> QED  BY <1>1, <1>7 DEF After, Next1

(* decptr gives a natural number, whatever the patch holds.                  *)
Decoded == [offset : Nat, shift : Nat]
LEMMA OffsetIs ==
    ASSUME NEW p \in File, NEW k \in 0 .. Len(p)
    PROVE  decptr(p, k) \in Nat
<1>1. PICK last \in Nat : last = StopAt(p, k) - k
  BY StopIs DEF File
<1>2. PICK D \in [0 .. last -> Nat] : \A n \in 0 .. last : D[n] = ReadAt(p, k + n) % Low
  <2>1. Low \in Nat /\ Low > 0
    BY BaseAssumption DEF Low
  <2>2. ASSUME NEW n \in 0 .. last PROVE ReadAt(p, k + n) % Low \in Nat
    <3>1. k + n \in Nat /\ Len(p) \in Nat
      BY DEF File
    <3>2. CASE k + n < Len(p)
      <4>1. k + n + 1 \in 1 .. Len(p)
        BY <3>1, <3>2
      <4>2. p[k + n + 1] \in Byte
        BY <4>1 DEF File
      <4>3. PICK b \in Int : b = ReadAt(p, k + n)
        BY <3>2, <4>2 DEF ReadAt, Byte
      <4> QED  BY <2>1, <4>3
    <3>3. CASE ~(k + n < Len(p))
      <4>1. PICK b \in Int : b = ReadAt(p, k + n)
        BY <3>3, BaseAssumption DEF ReadAt
      <4> QED  BY <2>1, <4>1
    <3> QED  BY <3>2, <3>3
  <2> DEFINE d == [n \in 0 .. last |-> ReadAt(p, k + n) % Low]
  <2>3. d \in [0 .. last -> Nat] /\ \A n \in 0 .. last : d[n] = ReadAt(p, k + n) % Low
    BY <2>2
  <2> HIDE DEF d
  <2> QED  BY <2>3
<1> DEFINE Turn(n, s) == [offset |-> s.offset + s.shift * Low + D[n] * (s.shift * Low), shift |-> s.shift * Low]
           T == [n \in 1 .. last |-> [s \in Decoded |-> Turn(n, s)]]
           s0 == [offset |-> D[0], shift |-> 1]
<1>3. s0 \in Decoded
  BY <1>2 DEF Decoded
<1>4. T \in [1 .. last -> [Decoded -> Decoded]]
  <2> SUFFICES ASSUME NEW n \in 1 .. last, NEW s \in Decoded PROVE Turn(n, s) \in Decoded
    OBVIOUS
  <2>1. s.offset \in Nat /\ s.shift \in Nat /\ D[n] \in Nat /\ Low \in Nat
    BY BaseAssumption DEF Decoded, Low
  <2>2. PICK w \in Nat : w = s.shift * Low
    BY <2>1
  <2>3. PICK q \in Nat : q = D[n] * w
    BY <2>1
  <2>o. PICK o \in Nat : o = s.offset
    BY <2>1
  <2>4. o + w + q \in Nat
    OBVIOUS
  <2>5. Turn(n, s) = [offset |-> o + w + q, shift |-> w]
    BY <2>2, <2>3, <2>o
  <2> HIDE DEF Turn
  <2> QED  BY <2>4, <2>5 DEF Decoded
<1> HIDE DEF T, s0
<1>5. PICK g \in [0 .. last -> Decoded] : g[0] = s0 /\ \A n \in 1 .. last : g[n] = T[n][g[n - 1]]
  <2> HIDE DEF Turn
  <2>1. PICK a \in Decoded : a = s0
    BY <1>3
  <2>2. IsLoop(T, last, Decoded)
    BY <1>4 DEF IsLoop
  <2>3. \E f : IsRun(f, T, last, Decoded, a)
    BY <2>2, LoopRuns
  <2> QED  BY <2>1, <2>3 DEF IsRun
<1> DEFINE body(f) == [n \in 0 .. last |-> IF n = 0 THEN [offset |-> ReadAt(p, k + n) % Low, shift |-> 1]
                        ELSE [offset |-> f[n - 1].offset + f[n - 1].shift * Low
                                         + (ReadAt(p, k + n) % Low) * (f[n - 1].shift * Low),
                              shift |-> f[n - 1].shift * Low]]
           loop == CHOOSE f : f = body(f)
<1>6. g = body(g)
  <2>1. ASSUME NEW n \in 0 .. last PROVE g[n] = body(g)[n]
    <3>1. CASE n = 0
      BY <1>2, <1>5, <3>1 DEF s0
    <3>2. CASE n # 0
      <4>1. n \in 1 .. last /\ n - 1 \in 0 .. last /\ g[n - 1] \in Decoded
        BY <1>5, <3>2
      <4>2. g[n] = Turn(n, g[n - 1])
        BY <1>5, <4>1 DEF T
      <4> QED  BY <1>2, <3>2, <4>2
    <3> QED  BY <3>1, <3>2
  <2>2. g = [n \in 0 .. last |-> g[n]]
    BY <1>5
  <2>3. body(g) = [n \in 0 .. last |-> body(g)[n]]
    OBVIOUS
  <2> HIDE DEF body
  <2> QED  BY <2>1, <2>2, <2>3
<1>7. loop = body(loop)
  <2> HIDE DEF body
  <2> QED  BY <1>6
<1>8. decptr(p, k) = loop[last].offset
  BY <1>1 DEF decptr
<1> HIDE DEF loop
<1>9. \A n \in 0 .. last : loop[n] \in Decoded
  <2> DEFINE P == {n \in 0 .. last : loop[n] \in Decoded}
  <2>1. 0 \in P
    <3>1. loop[0] = body(loop)[0]
      BY <1>7
    <3>2. body(loop)[0] = s0
      BY <1>2 DEF s0
    <3> QED  BY <1>3, <3>1, <3>2
  <2>2. ASSUME NEW n \in 0 .. (last - 1), n \in P PROVE n + 1 \in P
    <3>1. loop[n] \in Decoded /\ n + 1 \in 1 .. last /\ n + 1 \in 0 .. last /\ (n + 1) - 1 = n /\ n + 1 # 0
      BY <2>2
    <3>2. loop[n + 1] = body(loop)[n + 1]
      BY <1>7
    <3>3. body(loop)[n + 1] = Turn(n + 1, loop[n])
      BY <1>2, <3>1
    <3>4. Turn(n + 1, loop[n]) = T[n + 1][loop[n]]
      BY <3>1 DEF T
    <3> QED  BY <1>4, <3>1, <3>2, <3>3, <3>4
  <2> HIDE DEF P
  <2>3. \A n \in 0 .. last : n \in P
    BY <2>1, <2>2, UpTo
  <2> QED  BY <2>3 DEF P
<1>10. loop[last] \in Decoded
  BY <1>1, <1>9
<1> QED  BY <1>8, <1>10 DEF Decoded

(* UPS: the locals, and the size of the output once it is laid out.          *)
UpsLocals == [sizex : Nat, sizey : Nat, rcrcy : {<<>>, job.crcx, job.crcy}, relative : Nat, i : Nat]
UpsType == /\ job \in Jobs("ups") /\ job.patch \in File /\ job.rom \in File
           /\ out \in File /\ disk \in File /\ at \in 0 .. Len(job.patch)
           /\ loc \in UpsLocals /\ ret \in Int

(* A read of a file or behind its end gives a byte.                          *)
LEMMA ReadByte == ASSUME NEW f \in File, NEW k \in Nat PROVE ReadAt(f, k) \in Byte
<1>1. Len(f) \in Nat /\ Base - 1 \in Byte
  BY BaseAssumption DEF File, Byte
<1>2. CASE k < Len(f)
  <2>1. k + 1 \in 1 .. Len(f)
    BY <1>1, <1>2
  <2> QED  BY <1>2, <2>1 DEF ReadAt, File
<1>3. CASE ~(k < Len(f))
  BY <1>1, <1>3 DEF ReadAt
<1> QED  BY <1>2, <1>3

(* A byte written within a file changes that byte and not its size.          *)
LEMMA WriteByte == ASSUME NEW f \in File, NEW k \in Nat, k < Len(f), NEW b \in Byte
                   PROVE  WriteAt(f, k, b) \in File /\ Len(WriteAt(f, k, b)) = Len(f)
  BY DEF WriteAt, File

(* The step from the patch's header to the copy of the ROM.                  *)
LEMMA UpsDirected ==
    ASSUME UpsType, Direction
    PROVE  loc' \in UpsLocals' /\ at' \in 0 .. Len(job.patch)
<1>1. Len(job.patch) \in Nat /\ 0 \in 0 .. Len(job.patch) /\ job.patch \in File
  BY DEF UpsType, File
<1>2. After(job.patch, 0) \in 0 .. Len(job.patch)
  BY <1>1, StopIs
<1>3. decptr(job.patch, 0) \in Nat /\ decptr(job.patch, After(job.patch, 0)) \in Nat
  BY <1>1, <1>2, OffsetIs
<1>4. PICK k \in 0 .. Len(job.patch) : k = After(job.patch, 0)
  BY <1>2
<1>5. After(job.patch, k) \in k .. Len(job.patch)
  BY <1>1, StopIs
<1>6. at' \in 0 .. Len(job.patch)
  BY <1>1, <1>4, <1>5 DEF Direction, FirstBlock
<1>7. loc' \in UpsLocals
  BY <1>3 DEF Direction, Swapped, Files, UpsType, UpsLocals
<1> QED  BY <1>6, <1>7 DEF Direction, UpsLocals

(* The copy of the ROM has the size of the output.                           *)
LEMMA UpsCopied ==
    ASSUME UpsType, Copy
    PROVE  out' \in File /\ Len(out') = loc.sizey
<1>1. loc.sizey \in Nat /\ job.rom \in File
  BY DEF UpsType, UpsLocals
<1>2. 0 \in Byte
  BY BaseAssumption DEF Byte
<1>3. ASSUME NEW k \in 1 .. loc.sizey PROVE (IF k <= loc.sizex THEN ReadAt(job.rom, k - 1) ELSE 0) \in Byte
  <2>1. k - 1 \in Nat
    BY <1>1
  <2> QED  BY <1>1, <1>2, <2>1, ReadByte
<1>4. out' \in [1 .. loc.sizey -> Byte]
  BY <1>3 DEF Copy
<1> QED  BY <1>1, <1>4 DEF File

(* The block at the position of the patch starts behind the one before.      *)
LEMMA UpsBlockStarts ==
    ASSUME UpsType, Block
    PROVE  loc' \in UpsLocals' /\ at' \in 0 .. Len(job.patch) /\ loc'.sizey = loc.sizey
<1>1. at \in 0 .. Len(job.patch) /\ job.patch \in File /\ Len(job.patch) \in Nat
  BY DEF UpsType, File
<1>2. After(job.patch, at) \in at .. Len(job.patch) /\ decptr(job.patch, at) \in Nat
  BY <1>1, StopIs, OffsetIs
<1>3. PICK r \in Nat : r = loc.relative + decptr(job.patch, at)
  BY <1>2 DEF UpsType, UpsLocals
<1>4. loc' = [loc EXCEPT !.relative = r, !.i = r] /\ at' = After(job.patch, at) /\ job' = job
  BY <1>3 DEF Block
<1>5. loc' \in UpsLocals /\ loc'.sizey = loc.sizey
  BY <1>4 DEF UpsType, UpsLocals
<1> QED  BY <1>1, <1>2, <1>4, <1>5 DEF UpsLocals

(* One byte of a block stays within the output.                              *)
LEMMA UpsByteWritten ==
    ASSUME UpsType, Len(out) = loc.sizey, XorByte
    PROVE  /\ loc' \in UpsLocals' /\ at' \in 0 .. Len(job.patch) /\ loc'.sizey = loc.sizey
           /\ out' \in File /\ Len(out') = loc.sizey
<1>1. at \in 0 .. Len(job.patch) /\ job.patch \in File /\ Len(job.patch) \in Nat
  BY DEF UpsType, File
<1>2. at' \in 0 .. Len(job.patch) /\ job' = job
  BY <1>1 DEF XorByte, Next1
<1>3. loc.relative \in Nat /\ loc.i \in Nat /\ loc.i < Len(out)
  BY DEF UpsType, UpsLocals, XorByte, InOutput
<1>4. loc' \in UpsLocals /\ loc'.sizey = loc.sizey
  <2>1. PICK r \in Nat : r = loc.relative + 1
    BY <1>3
  <2>2. PICK i \in Nat : i = loc.i + 1
    BY <1>3
  <2>3. \/ loc' = [loc EXCEPT !.relative = r]
        \/ loc' = [loc EXCEPT !.relative = r, !.i = i]
    BY <2>1, <2>2 DEF XorByte, UpsType, UpsLocals
  <2> QED  BY <2>3 DEF UpsType, UpsLocals
<1>5. PICK z \in Byte : z = ReadAt(job.patch, at)
  BY <1>1, ReadByte
<1>6. Xored(z) \in Byte
  <2>1. 0 \in Byte
    BY BaseAssumption DEF Byte
  <2>2. ReadAt(job.rom, loc.i) \in Byte
    BY <1>3, ReadByte DEF UpsType
  <2>3. \A b \in Byte : Xor(z, b) \in Byte
    BY BaseAssumption
  <2> QED  BY <2>1, <2>2, <2>3 DEF Xored
<1>7. out' = out \/ out' = WriteAt(out, loc.i, Xored(z))
  BY <1>5 DEF XorByte
<1>8. out' \in File /\ Len(out') = loc.sizey
  BY <1>3, <1>6, <1>7, WriteByte DEF UpsType
<1> QED  BY <1>2, <1>4, <1>8 DEF UpsLocals

(* A call starts with an empty output.                                       *)
LEMMA UpsTypeStarts == UpsInit => UpsType /\ SizeKept
<1> SUFFICES ASSUME UpsInit PROVE UpsType /\ SizeKept
  OBVIOUS
<1>1. job \in Jobs("ups") /\ job.patch \in File /\ job.rom \in File /\ Len(job.patch) \in Nat
  BY JobAssumption DEF UpsInit, AllFormats, IsJob, File
<1> QED  BY <1>1 DEF UpsInit, UpsType, UpsLocals, SizeKept, File

(* Each step of UPS::apply keeps the types and the size of the output.       *)
LEMMA UpsTypeStep == UpsType /\ SizeKept /\ [UpsNext \/ Done]_vars => (UpsType /\ SizeKept)'
<1> SUFFICES ASSUME UpsType, SizeKept, [UpsNext \/ Done]_vars PROVE (UpsType /\ SizeKept)'
  OBVIOUS
<1>0. job.fmt = "ups"
  BY JobAssumption DEF UpsType, AllFormats
<1>1. CASE OpenFails \/ BadPatch \/ Verify
  BY <1>1 DEF OpenFails, BadPatch, Verify, Close, UpsType, UpsLocals, SizeKept
<1>2. CASE Direction
  <2>1. loc' \in UpsLocals' /\ at' \in 0 .. Len(job.patch)
    BY <1>2, UpsDirected
  <2> QED  BY <1>2, <2>1 DEF Direction, Close, UpsType, SizeKept
<1>3. CASE Copy
  <2>1. out' \in File /\ Len(out') = loc.sizey
    BY <1>3, UpsCopied
  <2> QED  BY <1>3, <2>1 DEF Copy, UpsType, UpsLocals, SizeKept
<1>4. CASE Block
  <2>1. loc' \in UpsLocals' /\ at' \in 0 .. Len(job.patch) /\ loc'.sizey = loc.sizey
    BY <1>4, UpsBlockStarts
  <2>2. Len(out) = loc.sizey
    BY <1>0, <1>4 DEF Block, SizeKept
  <2> QED  BY <1>4, <2>1, <2>2 DEF Block, UpsType, SizeKept
<1>5. CASE XorByte
  <2>1. Len(out) = loc.sizey
    BY <1>0, <1>5 DEF XorByte, SizeKept
  <2>2. /\ loc' \in UpsLocals' /\ at' \in 0 .. Len(job.patch) /\ loc'.sizey = loc.sizey
        /\ out' \in File /\ Len(out') = loc.sizey
    BY <1>5, <2>1, UpsByteWritten
  <2> QED  BY <1>5, <2>2 DEF XorByte, UpsType, SizeKept
<1>6. CASE BlockFull
  BY <1>0, <1>6 DEF BlockFull, UpsType, UpsLocals, SizeKept
<1>7. CASE Done \/ UNCHANGED vars
  BY <1>7 DEF Done, vars, UpsType, UpsLocals, SizeKept
<1> QED  BY <1>1, <1>2, <1>3, <1>4, <1>5, <1>6, <1>7 DEF UpsNext

-----------------------------------------------------------------------------
(* BPS: as long as commands are carried out, the output has the size the     *)
(* patch names and holds, as far as it reaches, the bytes that went into the *)
(* checksum.                                                                 *)
BpsLocals == [mode : Modes \cup {"none", "unopened"}, length : Nat, outputOffset : Nat,
              sourceRelativeOffset : Int, targetRelativeOffset : Int, written : File]
BpsType == /\ job \in Jobs("bps") /\ out \in File /\ loc \in BpsLocals
           /\ at \in 0 .. Len(job.cmds)
           /\ pc = "byte" => at > 0 /\ loc.mode \in Modes
Tracks == /\ Len(out) = job.targetSize /\ loc.outputOffset = Len(loc.written)
          /\ \A i \in 1 .. Len(loc.written) : i <= Len(out) => out[i] = loc.written[i]
BpsIInv == /\ BpsType /\ BpsChecked
           /\ pc = "modify" => loc.outputOffset = 0 /\ loc.written = <<>>
           /\ pc \in {"apply", "command", "byte"} => Tracks

(* What a call of the BPS patcher is given.                                  *)
LEMMA BpsJob == ASSUME NEW j \in Jobs("bps")
                PROVE  /\ j.targetSize \in Nat /\ j.rom \in File /\ j.want \in File
                       /\ j.cmds \in Seq(Commands) /\ j.readable \in BOOLEAN
  BY BpsAssumption, JobAssumption DEF AllFormats, IsJob

(* A file of n zeros.                                                        *)
LEMMA FillFile == ASSUME NEW n \in Nat PROVE Fill(n, 0) \in File /\ Len(Fill(n, 0)) = n
  BY BaseAssumption DEF Fill, File, Byte

(* A command takes its bytes from a file.                                    *)
LEMMA BpsSources == ASSUME BpsType, pc = "byte"
                    PROVE  Sources[1] \in File /\ Sources[2] \in Int
<1>1. job.cmds \in Seq(Commands) /\ sourceData \in File
  BY BpsJob DEF BpsType, sourceData, File
<1>2. at \in 1 .. Len(job.cmds) /\ loc.mode \in Modes
  BY <1>1 DEF BpsType
<1>3. job.cmds[at] \in Commands
  BY <1>1, <1>2
<1>4. job.cmds[at].data \in File /\ job.cmds[at].length \in Nat
  BY <1>3 DEF Commands
<1>5. /\ out \in File /\ loc.outputOffset \in Int /\ loc.length \in Int
      /\ loc.sourceRelativeOffset \in Int /\ loc.targetRelativeOffset \in Int
  BY DEF BpsType, BpsLocals
<1>6. PICK d \in File, n \in Int : d = job.cmds[at].data /\ n = job.cmds[at].length - loc.length
  BY <1>4, <1>5
<1>7. \/ Sources = <<sourceData, loc.outputOffset>> \/ Sources = <<d, n>>
      \/ Sources = <<sourceData, loc.sourceRelativeOffset>> \/ Sources = <<out, loc.targetRelativeOffset>>
  <2>1. CASE loc.mode = "SourceRead"
    BY <2>1 DEF Sources
  <2>2. CASE loc.mode = "TargetRead"
    BY <1>6, <2>2 DEF Sources
  <2>3. CASE loc.mode = "SourceCopy"
    BY <2>3 DEF Sources
  <2>4. CASE loc.mode = "TargetCopy"
    BY <2>4 DEF Sources
  <2> QED  BY <1>2, <2>1, <2>2, <2>3, <2>4 DEF Modes
<1> QED  BY <1>1, <1>5, <1>6, <1>7

(* Whatever it reads, it reads bytes.                                        *)
LEMMA MappedBytes == ASSUME NEW f \in File, NEW k \in Int PROVE Mapped(f, k) \subseteq Byte
  BY DEF Mapped, File

(* Locals that are set keep their types.                                     *)
LEMMA BpsSet ==
    \A l \in BpsLocals, n, p \in Nat, sro, tro \in Int, w \in File :
      [l EXCEPT !.length = n, !.outputOffset = p, !.written = w, !.sourceRelativeOffset = sro, !.targetRelativeOffset = tro]
        \in BpsLocals
  BY DEF BpsLocals

(* A call starts with nothing written.                                       *)
LEMMA BpsStarts == BpsInit => BpsIInv
  BY BpsJob DEF BpsInit, BpsIInv, BpsType, BpsLocals, BpsChecked, File

(* Each step of bpspatch keeps output and checksummed bytes together.        *)
LEMMA BpsStep == BpsIInv /\ [BpsNext \/ Done]_vars => BpsIInv'
<1> SUFFICES ASSUME BpsIInv, [BpsNext \/ Done]_vars PROVE BpsIInv'
  OBVIOUS
<1>0. /\ job.targetSize \in Nat /\ job.want \in File
      /\ job.cmds \in Seq(Commands)
  BY BpsJob DEF BpsIInv, BpsType
<1>1. CASE Modify
  <2>1. CASE ~job.small /\ pc' = "apply" /\ out' = Fill(job.targetSize, 0) /\ UNCHANGED <<ret, disk, loc>>
    <3>1. out' \in File /\ Len(out') = job.targetSize
      BY <1>0, <2>1, FillFile
    <3>2. loc.outputOffset = 0 /\ loc.written = <<>>
      BY <1>1 DEF Modify, BpsIInv
    <3>3. BpsType' /\ job' = job
      BY <1>1, <2>1, <3>1 DEF Modify, BpsIInv, BpsType
    <3> QED  BY <2>1, <3>1, <3>2, <3>3 DEF BpsIInv, BpsChecked, Tracks
  <2>2. CASE Unopened /\ loc' = [loc EXCEPT !.mode = "unopened"]
    <3>1. loc' \in BpsLocals /\ loc'.mode = "unopened"
      BY <2>2 DEF BpsIInv, BpsType, BpsLocals
    <3>2. pc' = "done" /\ out' \in File /\ UNCHANGED <<job, at>>
      BY <1>1, <2>2, BpsLeftAssumption DEF Modify, Unopened
    <3> QED  BY <3>1, <3>2 DEF BpsIInv, BpsType, BpsChecked
  <2> QED  BY <1>1, <2>1, <2>2 DEF Modify
<1>2. CASE Apply
  BY <1>2 DEF Apply, Close, BpsIInv, BpsType, BpsChecked, Tracks
<1>3. CASE Command
  <2>1. job.cmds[at + 1] \in Commands
    <3>1. at + 1 \in 1 .. Len(job.cmds)
      BY <1>0, <1>3 DEF Command, BpsIInv, BpsType
    <3> QED  BY <1>0, <3>1
  <2>2. loc' \in BpsLocals /\ loc'.mode \in Modes
    <3>1. /\ job.cmds[at + 1].mode \in Modes /\ job.cmds[at + 1].length \in Nat
          /\ job.cmds[at + 1].offset \in Int
      BY <2>1 DEF Commands
    <3>2. loc \in BpsLocals
      BY DEF BpsIInv, BpsType
    <3> DEFINE c == job.cmds[at + 1]
               sro == IF c.mode = "SourceCopy" THEN loc.sourceRelativeOffset + c.offset ELSE loc.sourceRelativeOffset
               tro == IF c.mode = "TargetCopy" THEN loc.targetRelativeOffset + c.offset ELSE loc.targetRelativeOffset
    <3>3. sro \in Int /\ tro \in Int
      BY <3>1, <3>2 DEF BpsLocals
    <3>4. loc' = [loc EXCEPT !.mode = c.mode, !.length = c.length, !.sourceRelativeOffset = sro, !.targetRelativeOffset = tro]
      BY <1>3 DEF Command
    <3>5. c.mode \in Modes /\ c.length \in Nat
      BY <3>1
    <3> HIDE DEF c, sro, tro
    <3> QED  BY <3>2, <3>3, <3>4, <3>5 DEF BpsLocals
  <2>3. BpsType'
    BY <1>0, <1>3, <2>2 DEF Command, BpsIInv, BpsType
  <2>4. loc'.outputOffset = loc.outputOffset /\ loc'.written = loc.written
    BY <1>3 DEF Command, BpsIInv, BpsType, BpsLocals
  <2> QED  BY <1>3, <2>3, <2>4 DEF Command, BpsIInv, Tracks, BpsChecked
<1>4. CASE BpsByte
  <2>1. CASE loc.length = 0 /\ pc' = "command" /\ UNCHANGED <<out, disk, loc, ret>>
    BY <1>4, <2>1 DEF BpsByte, BpsIInv, BpsType, Tracks, BpsChecked
  <2>2. CASE Close(Crash) /\ UNCHANGED <<out, loc>>
    BY <1>4, <2>2 DEF BpsByte, Close, Crash, BpsIInv, BpsType, BpsChecked
  <2>3. ASSUME NEW b \in Mapped(Sources[1], Sources[2]), loc.length > 0, UNCHANGED <<pc, disk, ret, job, at>>,
               out' = IF Outside(out, loc.outputOffset) THEN out ELSE [out EXCEPT ![loc.outputOffset + 1] = b],
               loc' = [loc EXCEPT !.length = @ - 1, !.outputOffset = @ + 1, !.written = Append(@, b),
                            !.sourceRelativeOffset = IF loc.mode = "SourceCopy" THEN @ + 1 ELSE @,
                            !.targetRelativeOffset = IF loc.mode = "TargetCopy" THEN @ + 1 ELSE @]
        PROVE  BpsIInv'
    <3>0. pc = "byte" /\ BpsType /\ Tracks
      BY <1>4 DEF BpsByte, BpsIInv
    <3>1. b \in Byte
      BY <2>3, <3>0, BpsSources, MappedBytes
    <3>2. /\ loc' \in BpsLocals /\ loc'.mode = loc.mode
          /\ loc'.outputOffset = loc.outputOffset + 1 /\ loc'.written = Append(loc.written, b)
      <4>1. loc \in BpsLocals /\ Append(loc.written, b) \in File
        BY <3>0, <3>1 DEF BpsType, BpsLocals, File
      <4> DEFINE n == loc.length - 1
                 p == loc.outputOffset + 1
                 w == Append(loc.written, b)
                 sro == IF loc.mode = "SourceCopy" THEN loc.sourceRelativeOffset + 1 ELSE loc.sourceRelativeOffset
                 tro == IF loc.mode = "TargetCopy" THEN loc.targetRelativeOffset + 1 ELSE loc.targetRelativeOffset
      <4>2. n \in Nat /\ p \in Nat /\ sro \in Int /\ tro \in Int /\ w \in File
        BY <2>3, <4>1 DEF BpsLocals
      <4>3. loc' = [loc EXCEPT !.length = n, !.outputOffset = p, !.written = w,
                               !.sourceRelativeOffset = sro, !.targetRelativeOffset = tro]
        BY <2>3
      <4>4. loc' \in BpsLocals /\ loc'.mode = loc.mode /\ loc'.outputOffset = p /\ loc'.written = w
        <5> HIDE DEF n, p, w, sro, tro
        <5>1. loc' \in BpsLocals
          BY <4>1, <4>2, <4>3, BpsSet, Zenon
        <5>2. loc'.mode = loc.mode /\ loc'.outputOffset = p /\ loc'.written = w
          BY <4>1, <4>3 DEF BpsLocals
        <5> QED  BY <5>1, <5>2
      <4> QED  BY <4>4
    <3>3. /\ out' \in File /\ Len(out') = Len(out)
          /\ \A i \in 1 .. Len(out) : out'[i] = IF i = loc.outputOffset + 1 THEN b ELSE out[i]
      BY <2>3, <3>0, <3>1 DEF BpsType, BpsLocals, File, Outside
    <3>4. loc.written \in Seq(Byte)
      BY <3>0 DEF BpsType, BpsLocals, File
    <3>5. /\ Len(loc'.written) = Len(loc.written) + 1
          /\ \A i \in 1 .. Len(loc'.written) :
               loc'.written[i] = IF i = Len(loc.written) + 1 THEN b ELSE loc.written[i]
      BY <3>1, <3>2, <3>4
    <3>6. Tracks'
      BY <2>3, <3>0, <3>2, <3>3, <3>4, <3>5 DEF Tracks, BpsType, File
    <3>7. BpsType'
      BY <2>3, <3>0, <3>2, <3>3 DEF BpsType
    <3> QED  BY <2>3, <3>0, <3>6, <3>7 DEF BpsIInv, BpsChecked
  <2> QED  BY <1>4, <2>1, <2>2, <2>3 DEF BpsByte
<1>5. CASE Checksum
  <2>1. pc = "command" /\ Tracks /\ BpsType /\ BpsType'
    BY <1>5 DEF Checksum, Close, BpsIInv, BpsType
  <2>2. ASSUME ret' = 0, ~job.ignore, job.targetSize = Len(job.want) PROVE disk' = job.want
    <3>1. loc.written = job.want /\ disk' = out
      BY <1>5, <2>2 DEF Checksum, Close, Crash
    <3>2. Len(out) = Len(loc.written) /\ \A i \in 1 .. Len(out) : out[i] = loc.written[i]
      BY <1>0, <2>1, <2>2, <3>1 DEF Tracks, BpsType, File
    <3>3. out \in Seq(Byte) /\ loc.written \in Seq(Byte)
      BY <2>1 DEF BpsType, BpsLocals, File
    <3>4. out = loc.written
      BY <3>2, <3>3
    <3> QED  BY <3>1, <3>4
  <2>3. pc' = "done" /\ job' = job
    BY <1>5 DEF Checksum, Close
  <2> QED  BY <2>1, <2>2, <2>3 DEF BpsIInv, BpsChecked
<1>6. CASE Done \/ UNCHANGED vars
  BY <1>6 DEF Done, vars, BpsIInv, BpsType, Tracks, BpsChecked
<1> QED  BY <1>1, <1>2, <1>3, <1>4, <1>5, <1>6 DEF BpsNext

-----------------------------------------------------------------------------
(* bsdiff: the streams are read forwards only and the new file stays within  *)
(* what was allocated for it.                                                *)
BsType == /\ job \in Jobs("bsdiff") /\ at \in 0 .. Len(job.ctrl)
          /\ loc \in [new : File, oldpos : Int, diff : Nat, extra : Nat]
          /\ pc = "header" => Len(loc.new) = 0
          /\ pc = "control" => job.newsize >= 0
BsIInv == BsType /\ BsFits

(* What a call of bspatch is given.                                          *)
LEMMA BsJob == ASSUME NEW j \in Jobs("bsdiff")
               PROVE  /\ j.newsize \in Int /\ j.diff \in File /\ j.extra \in File /\ j.rom \in File
                      /\ j.ctrl \in Seq(Triples)
  BY BsAssumption, JobAssumption DEF AllFormats, IsJob

(* A read that the stream can satisfy has the length that was asked for.     *)
LEMMA SliceFile == ASSUME NEW f \in File, NEW k \in Nat, NEW n \in Nat, k + n <= Len(f)
                   PROVE  Slice(f, k, n) \in File /\ Len(Slice(f, k, n)) = n
<1>1. Slice(f, k, n) = SubSeq(f, k + 1, k + n)
  BY DEF Slice, File
<1> QED  BY <1>1 DEF File

(* The bytes of a file are numbers.                                          *)
LEMMA FileBytes == ASSUME NEW f \in File, NEW i \in 1 .. Len(f) PROVE f[i] \in Byte /\ f[i] \in Nat
<1>1. f[i] \in Byte
  BY DEF File
<1> QED  BY <1>1, BaseAssumption DEF Byte

(* One file behind the other.                                                *)
LEMMA ConcatFile == ASSUME NEW f \in File, NEW g \in File
                    PROVE  f \o g \in File /\ Len(f \o g) = Len(f) + Len(g) /\ Len(f) \in Nat
  BY DEF File

(* A call starts with an empty new file.                                     *)
LEMMA BsStarts == BsInit => BsIInv
  BY BsJob DEF BsInit, BsIInv, BsType, BsFits, File

(* Each step of bspatch keeps the new file within newsize.                   *)
LEMMA BsStep == BsIInv /\ [BsNext \/ Done]_vars => BsIInv'
<1> SUFFICES ASSUME BsIInv, [BsNext \/ Done]_vars PROVE BsIInv'
  OBVIOUS
<1>0. /\ job.newsize \in Int /\ job.diff \in File /\ job.extra \in File /\ job.rom \in File
      /\ job.ctrl \in Seq(Triples)
  BY BsJob DEF BsIInv, BsType
<1>1. CASE bspatch_header
  BY <1>0, <1>1 DEF bspatch_header, Close, Crash, BsIInv, BsType, BsFits
<1>2. CASE Control
  <2>1. CASE Close(2) /\ UNCHANGED <<at, loc>>
    BY <1>0, <1>2, <2>1 DEF Control, Close, BsIInv, BsType, BsFits
  <2>2. ASSUME NEW c, c = job.ctrl[at + 1], at < Len(job.ctrl), UNCHANGED <<job, pc, ret, disk>>, at' = at + 1,
               Fits(Len(loc.new) + c.x), Readable(job.diff, loc.diff, c.x),
               Fits(Len(loc.new) + c.x + c.y), Readable(job.extra, loc.extra, c.y),
               loc' = [new |-> loc.new \o [i \in 1 .. c.x |-> (job.diff[loc.diff + i] + OldByte(loc.oldpos + i)) % Base]
                                      \o Slice(job.extra, loc.extra, c.y),
                       oldpos |-> loc.oldpos + c.x + c.z, diff |-> loc.diff + c.x, extra |-> loc.extra + c.y]
        PROVE  BsIInv'
    <3>1. pc = "control"
      BY <1>2 DEF Control
    <3>2. at + 1 \in 1 .. Len(job.ctrl)
      <4>1. at \in 0 .. Len(job.ctrl)
        BY DEF BsIInv, BsType
      <4>2. Len(job.ctrl) \in Nat
        BY <1>0
      <4>3. at < Len(job.ctrl)
        BY <2>2
      <4> QED  BY <4>1, <4>2, <4>3
    <3>3. c.x \in Nat /\ c.y \in Nat /\ c.z \in Int
      <4>1. c \in Triples
        <5>1. job.ctrl \in Seq(Triples) /\ c = job.ctrl[at + 1]
          BY <1>0, <2>2
        <5> QED  BY <3>2, <5>1, SMTT(30), ZenonT(30)
      <4>2. c.x \in Int /\ c.y \in Int /\ c.z \in Int
        BY <4>1 DEF Triples
      <4>3. c.x >= 0 /\ c.y >= 0
        BY <2>2, Zenon DEF Readable
      <4> QED  BY <4>2, <4>3
    <3>4. loc.new \in File /\ loc.oldpos \in Int /\ loc.diff \in Nat /\ loc.extra \in Nat
      BY DEF BsIInv, BsType
    <3> DEFINE sum == [i \in 1 .. c.x |-> (job.diff[loc.diff + i] + OldByte(loc.oldpos + i)) % Base]
               tail == Slice(job.extra, loc.extra, c.y)
    <3>5. sum \in File /\ Len(sum) = c.x
      <4>1. \A i \in 1 .. c.x : job.diff[loc.diff + i] \in Nat
        <5>1. Len(job.diff) \in Nat /\ loc.diff + c.x <= Len(job.diff)
          BY <1>0, <2>2, ConcatFile DEF Readable
        <5>2. \A i \in 1 .. c.x : loc.diff + i \in 1 .. Len(job.diff)
          BY <3>3, <3>4, <5>1
        <5> QED  BY <1>0, <5>2, FileBytes
      <4>2. \A k \in Int : OldByte(k) \in Nat
        BY <1>0, FileBytes DEF OldByte
      <4>3. \A i \in 1 .. c.x : (job.diff[loc.diff + i] + OldByte(loc.oldpos + i)) % Base \in Byte
        <5>1. \A m \in Nat : m % Base \in Byte
          BY BaseAssumption DEF Byte
        <5>2. ASSUME NEW i \in 1 .. c.x PROVE job.diff[loc.diff + i] + OldByte(loc.oldpos + i) \in Nat
          BY <3>3, <3>4, <4>1, <4>2
        <5> QED  BY <5>1, <5>2
      <4> QED  BY <3>3, <4>3 DEF File
    <3>6. tail \in File /\ Len(tail) = c.y
      BY <1>0, <2>2, <3>3, <3>4, SliceFile DEF Readable
    <3>7. loc'.new = loc.new \o sum \o tail
      BY <2>2
    <3>8. loc'.new \in File /\ Len(loc'.new) = Len(loc.new) + c.x + c.y
      <4> HIDE DEF sum, tail
      <4>1. loc.new \o sum \in File /\ Len(loc.new \o sum) = Len(loc.new) + c.x
        BY <3>4, <3>5, ConcatFile
      <4> QED  BY <3>6, <3>7, <4>1, ConcatFile
    <3>9. loc' \in [new : File, oldpos : Int, diff : Nat, extra : Nat]
      <4>1. loc.oldpos + c.x + c.z \in Int /\ loc.diff + c.x \in Nat /\ loc.extra + c.y \in Nat
        BY <3>3, <3>4
      <4>2. loc' = [new |-> loc'.new, oldpos |-> loc.oldpos + c.x + c.z, diff |-> loc.diff + c.x, extra |-> loc.extra + c.y]
        BY <2>2
      <4> QED  BY <3>8, <4>1, <4>2
    <3>10. Len(loc'.new) <= job.newsize
      BY <2>2, <3>8 DEF Fits
    <3>11. job.newsize >= 0 /\ job' = job /\ pc' = "control" /\ at' \in 0 .. Len(job.ctrl) /\ job \in Jobs("bsdiff")
      <4>1. job \in Jobs("bsdiff") /\ job.newsize >= 0
        BY <3>1 DEF BsIInv, BsType
      <4>2. job' = job /\ pc' = "control" /\ at' = at + 1
        BY <2>2, <3>1
      <4> QED  BY <1>0, <3>2, <4>1, <4>2
    <3> QED  BY <1>0, <3>9, <3>10, <3>11 DEF BsIInv, BsType, BsFits
  <2> QED
    <3> DEFINE c == job.ctrl[at + 1]
    <3>1. \/ Close(2) /\ UNCHANGED <<at, loc>>
          \/ /\ at < Len(job.ctrl) /\ UNCHANGED <<job, pc, ret, disk>> /\ at' = at + 1
             /\ Fits(Len(loc.new) + c.x) /\ Readable(job.diff, loc.diff, c.x)
             /\ Fits(Len(loc.new) + c.x + c.y) /\ Readable(job.extra, loc.extra, c.y)
             /\ loc' = [new |-> loc.new \o [i \in 1 .. c.x |-> (job.diff[loc.diff + i] + OldByte(loc.oldpos + i)) % Base]
                                      \o Slice(job.extra, loc.extra, c.y),
                        oldpos |-> loc.oldpos + c.x + c.z, diff |-> loc.diff + c.x, extra |-> loc.extra + c.y]
      BY <1>2 DEF Control
    <3> QED  BY <2>1, <2>2, <3>1
<1>3. CASE WriteNew
  <2>1. loc.new \in File /\ Len(loc.new) = job.newsize
    <3>1. loc.new \in File /\ pc = "control" /\ job.newsize >= 0 /\ Len(loc.new) >= job.newsize
      BY <1>3 DEF WriteNew, BsIInv, BsType
    <3>2. job \in Jobs("bsdiff") /\ job.fmt = "bsdiff"
      BY JobAssumption DEF BsIInv, BsType, AllFormats
    <3>3. Len(loc.new) <= job.newsize /\ Len(loc.new) \in Nat
      BY <1>0, <3>1, <3>2, ConcatFile DEF BsIInv, BsFits
    <3> QED  BY <1>0, <3>1, <3>3
  <2>2. pc' = "done" /\ UNCHANGED <<job, at, loc>> /\ (ret' = 0 => disk' = loc.new)
    BY <1>3 DEF WriteNew
  <2> QED  BY <2>1, <2>2 DEF BsIInv, BsType, BsFits
<1>4. CASE Done \/ UNCHANGED vars
  BY <1>4 DEF Done, vars, BsIInv, BsType, BsFits
<1> QED  BY <1>1, <1>2, <1>3, <1>4 DEF BsNext

=============================================================================
