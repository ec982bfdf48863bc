----------------------------- MODULE RangeScan ------------------------------
(***************************************************************************)
(* reference/docchain/indexer.py: iter_doc_attested_chunks, block_ranges   *)
(* and _iter_doc_attested_range, against a provider that rejects ranges.   *)
(*                                                                         *)
(* The generators recurse: a rejected range is scanned as a sequence of    *)
(* smaller ones before the generator of the outer range goes on.  `work'   *)
(* is what all suspended generators still have to scan, the innermost      *)
(* first.                                                                  *)
(***************************************************************************)
EXTENDS Integers, SequencesExt

CONSTANTS
    FromBlock, ToBlock, ChunkSize,
    Providers,          \* the providers the scan may meet, see Answer
    NoLimit,            \* its error message names no limit
    RecursionLimit,     \* how deep the interpreter lets generators nest
    MaxFaults           \* bound: calls that fail for other reasons

ASSUME RangeAssumption ==
    /\ FromBlock \in Nat /\ ToBlock \in Nat /\ ChunkSize \in Nat \ {0}
    /\ MaxFaults \in Nat /\ RecursionLimit \in Nat \ {0} /\ NoLimit \notin Nat
    /\ Providers \subseteq [span : Nat, named : (Nat \ {0}) \cup {NoLimit},
                           dense : SUBSET (FromBlock .. ToBlock), events : Nat]

VARIABLES
    work,               \* ranges to request, in the order of the requests
    yielded,            \* ranges handed to the consumer
    status,             \* "scanning", "done" or "raised"
    faults,
    provider            \* the provider at hand

vars == <<work, yielded, status, faults, provider>>

Size(r) == r.to - r.from + 1

Piece(from, to, depth) == [from |-> from, to |-> to, depth |-> depth]

PiecesUpTo(last, from, to, size, depth) ==
    [i \in 1 .. (to - from + size) \div size |->
        Piece(from + (i - 1) * size,
              IF from + i * size - 1 < last THEN from + i * size - 1 ELSE last, depth)]

(* Seeded fault: the last piece is not cut off at the end.                 *)
BlockRangesUncut(from, to, size, depth) == PiecesUpTo(to + size, from, to, size, depth)

(* block_ranges: pieces of a size, the last one cut off at the end; depth  *)
(* is how many generators the request for a piece is nested in.            *)
BlockRanges(from, to, size, depth) == PiecesUpTo(to, from, to, size, depth)

-----------------------------------------------------------------------------
(* The provider's answer to eth_getLogs, after EthereumRpc.call has retried *)
(* and classified it: it serves at most `span' blocks at a time, with an    *)
(* error that names a limit or not, and at most `events' dense blocks.      *)

Answer(r) ==
    IF Size(r) > provider.span
    THEN IF provider.named = NoLimit THEN "RpcError" ELSE "BlockRangeLimitError"
    ELSE IF Cardinality(provider.dense \cap (r.from .. r.to)) > provider.events
    THEN "RpcError"
    ELSE "logs"

Working == status = "scanning" /\ work # << >>
range == Head(work)
Single == range.from >= range.to

Raise == status' = "raised" /\ UNCHANGED <<work, yielded>>

(* A rejected range is scanned by generators one level down, or not at all *)
(* when that is too deep (RecursionError).                                 *)
Split(pieces) ==
    IF range.depth = RecursionLimit
    THEN Raise
    ELSE work' = pieces \o Tail(work) /\ UNCHANGED <<yielded, status>>

YieldRange ==
    /\ Working /\ Answer(range) = "logs"
    /\ yielded' = Append(yielded, range)
    /\ work' = Tail(work)
    /\ UNCHANGED <<status, faults, provider>>

(* Seeded faults: a named limit is not acted upon; the request is repeated *)
(* as it was.                                                              *)
RaiseOnBlockRangeLimit ==
    /\ Working /\ Answer(range) = "BlockRangeLimitError"
    /\ Raise
    /\ UNCHANGED <<faults, provider>>

RepeatOnBlockRangeLimit ==
    /\ Working /\ Answer(range) = "BlockRangeLimitError"
    /\ IF Single THEN Raise ELSE UNCHANGED <<work, yielded, status>>
    /\ UNCHANGED <<faults, provider>>

(* The provider named its limit: split into pieces of that size.           *)
OnBlockRangeLimit ==
    /\ Working /\ Answer(range) = "BlockRangeLimitError"
    /\ IF Single
       THEN Raise
       ELSE Split(BlockRanges(range.from, range.to, provider.named, range.depth + 1))
    /\ UNCHANGED <<faults, provider>>

Halves(gap) ==
    LET mid == (range.from + range.to) \div 2
    IN  <<Piece(range.from, mid, range.depth + 1),
          Piece(mid + gap, range.to, range.depth + 1)>>

BisectInto(pieces) == IF Single THEN Raise ELSE Split(pieces)

(* Seeded faults: a block falls between the halves; the halves are         *)
(* scanned in the wrong order.                                             *)
BisectWithoutMiddle == BisectInto(Halves(2))
BisectBackwards == BisectInto(Reverse(Halves(1)))

(* Any other RPC error: bisect.                                            *)
Bisect == BisectInto(Halves(1))

OnRpcError ==
    /\ Working /\ Answer(range) = "RpcError"
    /\ Bisect
    /\ UNCHANGED <<faults, provider>>

(* A call may fail though the range is fine.  A rate limit that outlasts   *)
(* the retries, and logs that do not decode, are not met by splitting.     *)
TransientError ==
    /\ Working /\ faults < MaxFaults /\ faults' = faults + 1
    /\ Bisect
    /\ UNCHANGED provider

UnsplitError ==
    /\ Working /\ faults < MaxFaults /\ faults' = faults + 1
    /\ Raise
    /\ UNCHANGED provider

Finish ==
    /\ status = "scanning" /\ work = << >>
    /\ status' = "done"
    /\ UNCHANGED <<work, yielded, faults, provider>>

-----------------------------------------------------------------------------
Init ==
    /\ work = BlockRanges(FromBlock, ToBlock, ChunkSize, 1)
    /\ yielded = << >> /\ status = "scanning" /\ faults = 0
    /\ provider \in Providers

Scan == YieldRange \/ OnBlockRangeLimit \/ OnRpcError \/ Finish

Next == Scan \/ TransientError \/ UnsplitError

(* The generators run as long as the consumer iterates.                    *)
Spec == Init /\ [][Next]_vars
FairSpec == Spec /\ WF_vars(Scan)

-----------------------------------------------------------------------------
(* Properties.                                                             *)

Ranges == [from : FromBlock .. ToBlock, to : FromBlock .. ToBlock,
           depth : 1 .. RecursionLimit]

(* Every variable has its type, and no range leaves the requested blocks.  *)
TypeOK ==
    /\ work \in Seq(Ranges) /\ yielded \in Seq(Ranges)
    /\ status \in {"scanning", "done", "raised"}
    /\ faults \in 0 .. MaxFaults
    /\ provider \in Providers

(* A sequence of ranges that covers from .. to without gap or overlap.     *)
Tiles(ranges, from, to) ==
    /\ \A i \in DOMAIN ranges :
          /\ ranges[i].from <= ranges[i].to
          /\ ranges[i].from = IF i = 1 THEN from ELSE ranges[i - 1].to + 1
    /\ to = IF ranges = << >> THEN from - 1 ELSE ranges[Len(ranges)].to

(* However the provider makes ranges split, and split again, what has been *)
(* yielded and what is still to do cover the requested blocks in order,    *)
(* each once; so a scan that is done has yielded every block.              *)
NoBlockLost ==
    FromBlock <= ToBlock + 1 =>
        /\ Tiles(yielded \o work, FromBlock, ToBlock)
        /\ status = "done" => Tiles(yielded, FromBlock, ToBlock)

nextBlock == IF yielded = << >> THEN FromBlock ELSE yielded[Len(yielded)].to + 1

Consumer == INSTANCE ContiguousScan WITH next <- nextBlock

(* The consumer sees a contiguous scan, piece by piece.                    *)
ImplementsContiguousScan == Consumer!Spec

(* The scan ends, whatever the provider: no rejection makes it request     *)
(* ranges for ever.                                                        *)
ScanEnds == <>(status \in {"done", "raised"})

(* It gives up only for a fault or for a block that is not served even     *)
(* alone, given a provider that serves the ranges it says it serves.       *)
SplittingSucceeds ==
    (/\ faults = 0 /\ provider.events > 0 /\ provider.span > 0
     /\ provider.named = NoLimit \/ provider.named <= provider.span) =>
        status # "raised"

(* docs/ethereum.md 146-147: the indexer "splits block ranges for          *)
(* non-rate-limit RPC errors such as provider range limits": the ranges    *)
(* requested in place of a rejected one are smaller than it.               *)
RejectedRangesShrink ==
    [][Working /\ work' # Tail(work) /\ status' # "raised" =>
          Size(Head(work')) < Size(range)]_vars
=============================================================================
