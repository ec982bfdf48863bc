--------------------------- MODULE ContiguousScan ---------------------------
(***************************************************************************)
(* What a consumer of iter_doc_attested_chunks relies on: the pieces come  *)
(* in ascending order, each begins with the block after the one before,    *)
(* and none is longer than the chunk size or goes beyond the last block.   *)
(* Whoever has consumed the pieces up to block b has seen every block from *)
(* the first to b, once.                                                   *)
(***************************************************************************)
EXTENDS Integers

CONSTANTS FromBlock, ToBlock, ChunkSize

VARIABLE next           \* the first block not yielded

Init == next = FromBlock

(* A piece next .. last is yielded.                                        *)
Yield ==
    \E last \in next .. ToBlock :
        /\ last < next + ChunkSize
        /\ next' = last + 1

Next == Yield

Spec == Init /\ [][Next]_next
=============================================================================
