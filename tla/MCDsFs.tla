------------------------------- MODULE MCDsFs -------------------------------
(* A small ROM: a header, room for one aligned word, the fnt, and behind it  *)
(* three files of up to two bytes in every disjoint arrangement, files named *)
(* in order of their offsets.                                                *)
EXTENDS DsFs, TLC

CONSTANTS f, g, h, header, fnt

MCFiles  == {f, g, h}
MCSystem == {header, fnt}
Arranged == {l \in [begin : {b \in [MCFiles -> 5 .. 8] : b[f] <= b[g] /\ b[g] <= b[h]},
                     size : [MCFiles -> 0 .. 2]] :
               \A x, y \in MCFiles : x # y => Apart(l.begin[x], l.begin[x] + l.size[x],
                                                    l.begin[y], l.begin[y] + l.size[y])}
MCLayouts == {[begin |-> l.begin @@ header :> 0 @@ fnt :> 4,
               size |-> l.size @@ header :> 1 @@ fnt :> 1, used |-> 5] : l \in Arranged}
=============================================================================
