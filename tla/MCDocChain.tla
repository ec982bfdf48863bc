----------------------------- MODULE MCDocChain -----------------------------
(* Instances of DocChain for TLC: one with every signature path and single *)
(* attestations, one with batches.                                         *)
EXTENDS DocChain

CONSTANTS alice, bob, d1, d2, short, long

MCUriBytes(uri) == IF uri = long THEN 2 ELSE 1

Att(attester, docBlock, uri, deadline) ==
    [attester |-> attester, onBehalfOf |-> ZeroAddress, docBlock |-> docBlock,
     uri |-> uri, deadline |-> deadline]

(* Two attestations of one claim that differ in the deadline only, and one *)
(* on behalf of somebody else.                                             *)
SingleAttestations ==
    {Att(alice, d1, short, 0), Att(alice, d1, short, 1),
     [Att(alice, d1, short, 1) EXCEPT !.onBehalfOf = bob]}

(* A claim with two deadlines, a second claim, one with a uri that is too  *)
(* long, and one of nobody.                                                *)
BatchAttestations ==
    {Att(alice, d1, short, 0), Att(alice, d1, short, 1),
     Att(alice, d2, short, 1), Att(alice, d2, long, 1), Att(ZeroAddress, d1, short, 1)}

Shape(length, v, highS) == [length |-> length, v |-> v, highS |-> highS]

Honest == Shape(65, 27, FALSE)
Malleated == Shape(65, 28, TRUE)

AllShapes ==
    {Honest, Shape(65, 0, FALSE), Shape(64, 0, FALSE), Malleated,
     Shape(65, 29, FALSE), Shape(63, 0, FALSE)}

BatchShapes == {Honest}
=============================================================================
