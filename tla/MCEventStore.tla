---------------------------- MODULE MCEventStore ----------------------------
(* Instances of EventStore and StaticIndex for TLC.                        *)
EXTENDS StaticIndex

CONSTANTS k1, k1b, k2, c1, c2, w1, w2

(* Under k1 or k1b it is the same event.                                   *)
Event == [k \in Keys |-> IF k = k2 THEN 2 ELSE 1]

AllMatch == [c \in Contexts |-> Keys]

(* Two scan contexts of one contract: c1 selects everything, c2 a part.    *)
TwoContexts == [c \in Contexts |-> IF c = c1 THEN Keys ELSE {k2}]

(* Two attestations of one document; in a block that holds both that of k2 *)
(* is between the two places where the other one may be.                   *)
OneDocument == [k \in Keys |-> 7]
Places == [k \in Keys |-> CASE k = k1 -> 3 [] k = k2 -> 2 [] OTHER -> 1]
=============================================================================
