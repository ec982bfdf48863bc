---------------------------- MODULE MCRangeScan -----------------------------
(* Instances of RangeScan for TLC: a scan of three chunks, the last one    *)
(* short, against every small provider.                                    *)
EXTENDS RangeScan

AllProviders ==
    [span : 0 .. 5, named : (1 .. 5) \cup {NoLimit},
     dense : {{}, {2, 3}, {FromBlock, ToBlock}}, events : 0 .. 1]

=============================================================================
