----------------------------- MODULE MCAbiWire ------------------------------
(* Instances of AbiWire for TLC.  No two fields of an item or an event     *)
(* hold the same value, and the strings end before, on and after words.    *)
EXTENDS AbiWire

CONSTANT UriBytes       \* byte values in uris

Text(n, byte) == [i \in 1 .. n |-> IF i = n THEN byte ELSE 97 + i]

MCItems ==
    {[attester |-> k, onBehalfOf |-> 10 + k, docChainId |-> 20 + k, docRef |-> 300 + k,
      parentHash |-> 30 + k, contentHash |-> 40 + k, uri |-> Text(n, 97),
      deadline |-> 500 + k, signature |-> Text(m, k)] :
         k \in 1 .. 2, n \in {0, 1, 32, 33}, m \in {64, 65}}

MCEvents ==
    {[docChainId |-> 20 + k, attester |-> k, docRef |-> 300 + k, onBehalfOf |-> 10 + k,
      submitter |-> 50 + k, parentHash |-> 30 + k, blockHash |-> 60 + k,
      contentHash |-> 40 + k, uriHash |-> 70 + k, uri |-> Text(n, b)] :
         k \in 1 .. 2, n \in {0, 1, 32, 33}, b \in UriBytes}

MCFilters ==
    [docChainId : {None, 21}, attester : {None, 1, 2}, docRef : {None, 301, 302}]
=============================================================================
