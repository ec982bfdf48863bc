---------------------------- MODULE StaticIndex -----------------------------
(***************************************************************************)
(* reference/docchain/store.py: build_docchain_index, the static index     *)
(* made of what load_event_cache finds in the cache of EventStore.tla.     *)
(***************************************************************************)
EXTENDS EventStore

CONSTANTS
    DocRef,             \* DocRef[key]: the document its event is about
    Content,            \* Content[key]: the content hash it attests
    LogOrder            \* LogOrder[key]: log index and transaction hash

ASSUME IndexAssumption ==
    /\ DocRef \in [Keys -> Nat] /\ LogOrder \in [Keys -> Nat] /\ DOMAIN Content = Keys
    /\ \A t, u \in Keys : LogOrder[t] = LogOrder[u] => t = u

(* The elements of a finite set one after the other; `order' is the pairs  *)
(* of which the first element goes before the second.                      *)
InOrder(S, order) ==
    [n \in 1 .. Cardinality(S) |->
        CHOOSE x \in S : Cardinality({y \in S : <<y, x>> \in order}) = n - 1]

(* What a sequence has at some of its places, those places in an order.    *)
Taken(s, places, order) ==
    LET at == InOrder(places, order) IN [n \in DOMAIN at |-> s[at[n]]]

(* The same in the order of the sequence.                                  *)
Only(s, places) == Taken(s, places, {p \in places \X places : p[1] < p[2]})

(* The places of a stable sort: what compares equal stays as it was.       *)
Stable(s, order) ==
    {p \in (DOMAIN s) \X (DOMAIN s) :
        \/ <<s[p[1]], s[p[2]]>> \in order
        \/ <<s[p[2]], s[p[1]]>> \notin order /\ p[1] < p[2]}

(* sort_events: by block and log.                                          *)
Before(a, b) ==
    \/ a.block < b.block
    \/ a.block = b.block /\ LogOrder[a.key] < LogOrder[b.key]

ChainOrder(S) == {p \in S \X S : Before(p[1], p[2])}

SortEvents(events) == Taken(events, DOMAIN events, Stable(events, ChainOrder(Range(events))))

(* Seeded fault: only a repetition of the line before is left out.         *)
DedupeNeighbours(events) ==
    SortEvents(Only(events, {i \in DOMAIN events : i = 1 \/ events[i - 1] # events[i]}))

(* dedupe_events: the first event with each key.                           *)
Dedupe(events) ==
    LET sorted == SortEvents(events)
    IN  Only(sorted, {i \in DOMAIN sorted : \A j \in 1 .. i - 1 : sorted[j].key # sorted[i].key})

(* records.sort: by document, then as before.                              *)
ByDocument(a, b) ==
    \/ DocRef[a.key] < DocRef[b.key]
    \/ DocRef[a.key] = DocRef[b.key] /\ Before(a, b)

DocumentOrder(S) == {p \in S \X S : ByDocument(p[1], p[2])}

SortRecords(records) ==
    Taken(records, DOMAIN records, Stable(records, DocumentOrder(Range(records))))

Group(records, ref) == Only(records, {i \in DOMAIN records : DocRef[records[i].key] = ref})

Entry(group) == [candidateCount |-> Len(group), events |-> group,
                 contentHashes |-> {Content[r.key] : r \in Range(group)}]

Index(lines) ==
    LET records == SortRecords(Dedupe(lines))
        refs == {DocRef[r.key] : r \in Range(records)}
    IN  [eventCount |-> Len(records), docRefCount |-> Cardinality(refs), events |-> records,
         docRefs |-> [ref \in refs |-> Entry(Group(records, ref))]]

-----------------------------------------------------------------------------
(* The index is a function of the chain: whatever order and however often  *)
(* runs that overlapped, failed or resumed put the events into the cache,  *)
(* and whatever runs of other contexts put there as well (the cache keeps  *)
(* no context), the index made of it has every event that the checkpoint   *)
(* covers once, under its document and in chain order, and counts what it  *)
(* has.                                                                    *)
IndexIsOfChain ==
    (Confirmations >= Depth /\ Loadable /\ checkpoint \in Checkpoints) =>
        LET index == Index(cache)
            context == checkpoint.context
            last == checkpoint.last_block
            Events(ref) == IF ref \in DOMAIN index.docRefs THEN index.docRefs[ref].events
                                                           ELSE << >>
            Claimed(from, r) == r.key \in Matches[context] /\ r.block \in from .. last
            OnChain(from, ref) == {log \in Expected(context, from, last) : DocRef[log.key] = ref}
        IN  /\ index.eventCount = Cardinality(Records(cache))
            /\ \A from \in FromBlocks, ref \in Range(DocRef) :
                  (\A f \in FromBlocks : f <= from) =>
                      Only(Events(ref), {i \in DOMAIN Events(ref) : Claimed(from, Events(ref)[i])})
                          = InOrder(OnChain(from, ref), ChainOrder(OnChain(from, ref)))
=============================================================================
