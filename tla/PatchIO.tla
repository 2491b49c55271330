------------------------------ MODULE PatchIO ------------------------------
(* One call of a native or Java patcher: its arguments, the files it works   *)
(* on and the C (or Java) file operations every patcher is written with.     *)
(* Each format is a module of its own that extends this one.                 *)
EXTENDS FileOps, FiniteSetsExt

CONSTANTS Base,         \* values of a byte: 256 in the code
          Xor(_, _),
          Jobs(_)       \* the calls of a format: arguments, how the patch was made

Byte == 0 .. (Base - 1)
File == Seq(Byte)

(* fmt     which patcher runs                                                *)
(* rom     the ROM's content, patch the patch file's                         *)
(* magic   the signature the patch file starts with                          *)
(* ignore  "ignore checksums" is ticked                                      *)
(* want    the file the maker of the patch had: what the call should leave   *)
(* whole   the patch file is as it was made: not cut, not damaged            *)
AllFormats == {"ips", "ips32", "ppf", "dps", "apsgba", "apsn64", "bps", "bsdiff", "xpc", "ups", "ecm", "dldi"}
IsJob(j) == /\ j.rom \in File /\ j.patch \in File /\ j.want \in File
            /\ j.ignore \in BOOLEAN /\ j.whole \in BOOLEAN

\* How a patch made of records was made: record k starts at pos[k] of the
\* stream and is laid over layers[k].
Laid(j, first) ==
    LET n == Len(j.recs) IN
    /\ j.pos \in [1 .. (n + 1) -> Nat] /\ j.layers \in [1 .. (n + 1) -> File]
    /\ j.layers[1] = first /\ j.layers[n + 1] = j.want
    /\ \A k \in 1 .. n : j.layers[k + 1] = Put(j.layers[k], j.recs[k].offset, j.recs[k].data)

ASSUME BaseAssumption == /\ Base \in Nat /\ Base > 1
                         /\ \A a, b \in Byte : Xor(a, b) \in Byte /\ Xor(Xor(a, b), b) = a /\ Xor(a, b) = Xor(b, a)
ASSUME JobAssumption == \A f \in AllFormats : \A j \in Jobs(f) : j.fmt = f /\ IsJob(j)

VARIABLES job,
          out,      \* the output as the patcher's own stream sees it
          disk,     \* the output on the disk, exact once the call has ended
          at,       \* position of the patch stream
          loc,      \* the call's locals
          pc, ret
vars == <<job, out, disk, at, loc, pc, ret>>

-----------------------------------------------------------------------------
\* A read that is shorter than its variable leaves the variable's other bytes
\* (old), whatever they are if it has none yet.
Into(old, got, n) ==
    IF Len(got) >= n THEN {SubSeq(got, 1, n)}
    ELSE {got \o SubSeq(o, Len(got) + 1, n) : o \in IF old = <<>> THEN [1 .. n -> Byte] ELSE {old}}

\* The number of a field of up to four bytes, high byte first or low first.
Digit(s, i) == IF i \in 1 .. Len(s) THEN s[i] ELSE 0
LE(s) == Digit(s, 1) + Base * (Digit(s, 2) + Base * (Digit(s, 3) + Base * Digit(s, 4)))
BE(s) == LET n == Len(s) IN
         Digit(s, n) + Base * (Digit(s, n - 1) + Base * (Digit(s, n - 2) + Base * Digit(s, n - 3)))

\* The call ends with the output closed, or abandoned with its buffer.
Close(r) == pc' = "done" /\ ret' = r /\ disk' = out
Abandon(r) == pc' = "done" /\ ret' = r /\ disk' = disk
Crash == 99            \* the process dies, by a signal, exit or an uncaught exception
Done == pc = "done" /\ UNCHANGED vars
=============================================================================
