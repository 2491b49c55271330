---------------------------- MODULE RecordPatch ----------------------------
(* What a patch made of records promises: the records are laid over the      *)
(* file one after the other, success is reported when all of them are, and   *)
(* a failure may leave only some of them, the last one perhaps damaged but   *)
(* within its own place.                                                     *)
EXTENDS FileOps

CONSTANT Byte

VARIABLES file, todo,       \* the records still to be laid over the file
          spoiled,          \* the last one was damaged
          result
rvars == <<file, todo, spoiled, result>>

RInit == spoiled = FALSE /\ result = "running"

ApplyRecord == /\ result = "running" /\ ~spoiled /\ todo # <<>>
               /\ file' = Put(file, Head(todo).offset, Head(todo).data)
               /\ todo' = Tail(todo) /\ UNCHANGED <<spoiled, result>>

SpoilRecord == /\ result = "running" /\ ~spoiled /\ todo # <<>>
               /\ \E n \in 0 .. Len(Head(todo).data) :
                    \E d \in [1 .. n -> Byte] : file' = Put(file, Head(todo).offset, d)
               /\ todo' = Tail(todo) /\ spoiled' = TRUE /\ result' \in {"running", "failed"}

Succeed == /\ result = "running" /\ ~spoiled /\ todo = <<>> /\ result' = "patched"
           /\ UNCHANGED <<file, todo, spoiled>>
Fail == /\ result = "running" /\ result' = "failed" /\ UNCHANGED <<file, todo, spoiled>>

RNext == ApplyRecord \/ SpoilRecord \/ Succeed \/ Fail
RSpec == RInit /\ [][RNext]_rvars
=============================================================================
