------------------------------ MODULE FileOps ------------------------------
(* A file is the sequence of its bytes; positions count from 0.              *)
EXTENDS Integers, Sequences

\* fread of n bytes at k: fewer at the end of the file.
Slice(f, k, n) == SubSeq(f, k + 1, IF k + n < Len(f) THEN k + n ELSE Len(f))

\* n copies of a byte.
Fill(n, b) == [i \in 1 .. n |-> b]

\* fseek to k and fwrite of d: a gap reads as zeros.
Put(f, k, d) == IF d = <<>> THEN f
                ELSE Slice(f, 0, k) \o Fill(IF k > Len(f) THEN k - Len(f) ELSE 0, 0) \o d \o SubSeq(f, k + Len(d) + 1, Len(f))
=============================================================================
