--------------------------- MODULE MCFileWithLock ---------------------------
(* FileWithLock with two editors on a file of up to three bytes: empty,      *)
(* adjacent, nested and overlapping intervals all occur.                     *)
EXTENDS FileWithLock
=============================================================================
