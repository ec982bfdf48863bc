----------------------------- MODULE Blockchain -----------------------------
(***************************************************************************)
(* The chain as an indexer sees it through eth_blockNumber and eth_getLogs: *)
(* a sequence of blocks, block n a set of events of the contract under     *)
(* their keys, which are the transaction's hash and the log's index in the *)
(* block.  The head may fall back, by a reorganisation or because the      *)
(* provider answers from a node that lags, but never to more than Depth    *)
(* blocks below the highest head there was; an event that fell out may be  *)
(* mined again, in the same block or another one and under the same key or *)
(* another one, as its log may get another index there.                    *)
(***************************************************************************)
EXTENDS Integers, SequencesExt

CONSTANTS
    Keys,               \* transaction hashes with log indices
    EventOf,            \* EventOf[key]: the event that has the key, if mined
    Depth,              \* how far the head may fall back
    MaxBlock            \* bound: height of the chain

ASSUME ChainAssumption == Depth \in Nat /\ MaxBlock \in Nat
ASSUME KeysAssumption == IsFiniteSet(Keys) /\ DOMAIN EventOf = Keys

VARIABLES
    chain,              \* chain[n] is the set of keys in block n
    tip                 \* the highest head so far

chainVars == <<chain, tip>>

head == Len(chain)

Blocks == Seq(SUBSET Keys)

(* A log: its event_key and the block it names.                            *)
Logs == [key : Keys, block : Nat \ {0}]

(* eth_getLogs over an inclusive block range.                              *)
LogsIn(from, to) ==
    {log \in [key : Keys, block : from .. to] :
        log.block \in DOMAIN chain /\ log.key \in chain[log.block]}

(* The blocks that no fall-back can reach any more.                        *)
settled == tip - Depth

EventsAt(keys) == {EventOf[k] : k \in keys}

OneKeyEach(keys) == \A k, l \in keys : EventOf[k] = EventOf[l] => k = l

ChainInit == chain = << >> /\ tip = 0

(* The contract emits an event of a claim once.                            *)
Mine ==
    /\ head < MaxBlock
    /\ \E keys \in SUBSET Keys :
          /\ OneKeyEach(keys) /\ EventsAt(keys) \cap EventsAt(UNION Range(chain)) = {}
          /\ chain' = Append(chain, keys)
    /\ tip' = IF head + 1 > tip THEN head + 1 ELSE tip

FallBack ==
    /\ \E h \in 0 .. head - 1 :
          h >= settled /\ chain' = SubSeq(chain, 1, h)
    /\ tip' = tip

(* The two heights hang together, and no event is mined twice.             *)
ChainTypeOK ==
    /\ chain \in Blocks
    /\ tip \in 0 .. MaxBlock
    /\ settled <= head /\ head <= tip
    /\ \A m, n \in DOMAIN chain : \A k \in chain[m], l \in chain[n] :
          EventOf[k] = EventOf[l] => m = n /\ k = l
=============================================================================
