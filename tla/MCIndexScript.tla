--------------------------- MODULE MCIndexScript ---------------------------
(* Instances of IndexScript for TLC.                                       *)
EXTENDS IndexScript

CONSTANTS k1, k1b, k2

(* Under k1 or k1b it is the same event.                                   *)
Event == [k \in Keys |-> IF k = k2 THEN 2 ELSE 1]
=============================================================================
