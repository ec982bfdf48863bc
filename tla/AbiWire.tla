------------------------------ MODULE AbiWire -------------------------------
(***************************************************************************)
(* The two hand-written ABI codecs between the Python code and the         *)
(* contract: reference/docchain/attestation.py encodes calldata (scripts/  *)
(* submit_attestation.py holds a copy of the same functions), and          *)
(* reference/docchain/logs.py decodes the logs of DocAttested.  The other  *)
(* ends, which the Solidity compiler generates, follow the ABI             *)
(* specification.                                                          *)
(*                                                                         *)
(* Data is a sequence of bytes.  An address or a bytes32 is one byte value *)
(* repeated; numbers on the wire stay below 2^16.                          *)
(***************************************************************************)
EXTENDS Integers, SequencesExt

CONSTANTS
    Items,              \* attestations with their signatures
    Events, Versions,   \* events, and the event shapes that were deployed
    Filters,            \* filters of a scan
    None,               \* a filter field that is not set
    MaxItems            \* bound: items in a batch

Byte == 0 .. 255
TooLarge == 65536       \* bound: numbers from here on are all alike
Numbers == 0 .. TooLarge - 1

ASSUME WireAssumption ==
    /\ Items \subseteq [attester : Byte, onBehalfOf : Byte, docChainId : Byte, docRef : Numbers,
                        parentHash : Byte, contentHash : Byte, uri : Seq(Byte),
                        deadline : Numbers, signature : Seq(Byte)]
    /\ Events \subseteq [docChainId : Byte, attester : Byte, docRef : Numbers, onBehalfOf : Byte,
                         submitter : Byte, parentHash : Byte, blockHash : Byte,
                         contentHash : Byte, uriHash : Byte, uri : Seq(Byte)]
    /\ Filters \subseteq [docChainId : Byte \cup {None}, attester : Byte \cup {None},
                          docRef : Numbers \cup {None}]
    /\ Versions \subseteq {"current", "legacy"} /\ MaxItems \in Nat

VARIABLES
    sent,               \* what was put on the wire: items, or an event
    wire,               \* how it looks there
    whole,              \* nothing of it has been lost
    got                 \* None before it is read; then << >> when it was turned
                        \* away, and <<what was read>> else

vars == <<sent, wire, whole, got>>

-----------------------------------------------------------------------------
(* Words and byte strings.                                                 *)

Fill(byte, n) == [i \in 1 .. n |-> byte]
Word(n) == Fill(0, 30) \o <<n \div 256, n % 256>>
AddressWord(a) == Fill(0, 12) \o Fill(a, 20)
Bytes32(b) == Fill(b, 32)

ASSUME NoneIsNoTopic ==
    /\ \A b \in Byte : None \notin {{AddressWord(b)}, {Bytes32(b)}}
    /\ \A n \in Numbers : None # {Word(n)}

(* Seeded fault: strings are not padded.                                   *)
EncodeBytesUnpadded(payload) == Word(Len(payload)) \o payload

EncodeBytes(payload) ==
    Word(Len(payload)) \o payload \o Fill(0, (32 - (Len(payload) % 32)) % 32)

EncodeArrayFrom(start, tails) ==
    LET Offset(i) == start + 32 * Len(tails) + Len(FlattenSeq(SubSeq(tails, 1, i - 1)))
    IN  Word(Len(tails)) \o FlattenSeq([i \in DOMAIN tails |-> Word(Offset(i))])
                         \o FlattenSeq(tails)

(* Seeded fault: offsets relative to the length word itself.               *)
EncodeArrayFromLength(tails) == EncodeArrayFrom(32, tails)

(* Offsets are relative to the first byte after the length word.           *)
EncodeDynamicArray(tails) == EncodeArrayFrom(0, tails)

(* Reading, on either side: what lies beyond the data does not read.       *)
Fits(data, offset, n) == offset + n <= Len(data)
WordAt(data, offset) == SubSeq(data, offset + 1, offset + 32)
Number(word) ==
    IF SubSeq(word, 1, 30) = Fill(0, 30) THEN word[31] * 256 + word[32] ELSE TooLarge
NumberAt(data, offset) ==
    IF Fits(data, offset, 32) THEN Number(WordAt(data, offset)) ELSE TooLarge
Smaller(a, b) == IF a < b THEN a ELSE b
BytesAt(data, offset) ==
    SubSeq(data, offset + 33, Smaller(offset + 32 + NumberAt(data, offset), Len(data)))
HoldsBytes(data, offset) ==
    Fits(data, offset, 32) /\ Fits(data, offset + 32, NumberAt(data, offset))
IsAddress(word) == SubSeq(word, 1, 12) = Fill(0, 12)
IsUint64(word) == \A i \in 1 .. 24 : word[i] = 0

-----------------------------------------------------------------------------
(* Calldata.                                                               *)

EncodeAttestation(a) ==
    AddressWord(a.attester) \o AddressWord(a.onBehalfOf)
    \o Bytes32(a.docChainId) \o Word(a.docRef)
    \o Bytes32(a.parentHash) \o Bytes32(a.contentHash)
    \o Word(8 * 32) \o Word(a.deadline) \o EncodeBytes(a.uri)

AttestDocCalldata(a) ==
    LET attestation == EncodeAttestation(a)
    IN  [function |-> "attestDoc",
         data |-> Word(64) \o Word(64 + Len(attestation)) \o attestation
                  \o EncodeBytes(a.signature)]

AttestBatchCalldata(items) ==
    LET attestations == EncodeDynamicArray([i \in DOMAIN items |-> EncodeAttestation(items[i])])
        signatures == EncodeDynamicArray([i \in DOMAIN items |-> EncodeBytes(items[i].signature)])
    IN  [function |-> "attestBatch",
         data |-> Word(64) \o Word(64 + Len(attestations)) \o attestations \o signatures]

(* How the contract reads an attestation at one offset and its signature   *)
(* at another.                                                             *)
Readable(data, att, sig) ==
    /\ Fits(data, att, 8 * 32)
    /\ IsAddress(WordAt(data, att)) /\ IsAddress(WordAt(data, att + 32))
    /\ HoldsBytes(data, att + NumberAt(data, att + 6 * 32))
    /\ HoldsBytes(data, sig)

ReadItem(data, att, sig) ==
    [attester |-> WordAt(data, att)[32], onBehalfOf |-> WordAt(data, att + 32)[32],
     docChainId |-> WordAt(data, att + 64)[1], docRef |-> NumberAt(data, att + 96),
     parentHash |-> WordAt(data, att + 128)[1], contentHash |-> WordAt(data, att + 160)[1],
     uri |-> BytesAt(data, att + NumberAt(data, att + 192)),
     deadline |-> NumberAt(data, att + 224), signature |-> BytesAt(data, sig)]

ReadCall(call) ==
    LET data == call.data
        one == NumberAt(data, 0)
        two == NumberAt(data, 32)
        Element(base, i) == base + 32 + NumberAt(data, base + 32 * i)
        count == IF call.function = "attestDoc" THEN 1 ELSE NumberAt(data, one)
        At(base, i) == IF call.function = "attestDoc" THEN base ELSE Element(base, i)
    IN  IF /\ count <= Len(data)
           /\ call.function = "attestDoc" \/ count = NumberAt(data, two)
           /\ \A i \in 1 .. count : Readable(data, At(one, i), At(two, i))
        THEN <<[i \in 1 .. count |-> ReadItem(data, At(one, i), At(two, i))]>>
        ELSE << >>

-----------------------------------------------------------------------------
(* Logs.                                                                   *)

Topic0(version) == Bytes32(IF version = "current" THEN 165 ELSE 3)

(* What the contract emits; the first release had no onBehalfOf.           *)
EmittedLog(e, version) ==
    LET current == version = "current"
    IN  [topics |-> <<Topic0(version), Bytes32(e.docChainId), AddressWord(e.attester),
                      Word(e.docRef)>>,
         data |-> (IF current THEN AddressWord(e.onBehalfOf) ELSE << >>)
                  \o AddressWord(e.submitter) \o Bytes32(e.parentHash)
                  \o Bytes32(e.blockHash) \o Bytes32(e.contentHash) \o Bytes32(e.uriHash)
                  \o Word(IF current THEN 7 * 32 ELSE 6 * 32) \o EncodeBytes(e.uri)]

(* The bytes of a string are UTF-8 unless one is 255, as far as the events *)
(* here go: their other bytes are ASCII.                                   *)
IsUtf8(payload) == 255 \notin Range(payload)

(* Seeded fault: the length of the string is not compared with the data.   *)
HoldsStringHead(data, offset) ==
    offset % 32 = 0 /\ Fits(data, offset, 32)

(* _string_from_data; whether the string is there at all, and the string.  *)
HoldsString(data, offset) ==
    offset % 32 = 0 /\ HoldsBytes(data, offset) /\ IsUtf8(BytesAt(data, offset))

(* decode_doc_attested_log.  (The node's own fields beside topics and      *)
(* data, such as the block's number, are taken to be there.)               *)
Decode(log) ==
    LET current == log.topics[1] = Topic0("current")
        data == log.data
        first == IF current THEN 32 ELSE 0      \* where the shapes agree again
        uri == NumberAt(data, first + 160)
    IN  IF /\ Len(log.topics) >= 1 /\ log.topics[1] \in {Topic0("current"), Topic0("legacy")}
           /\ Len(log.topics) = 4
           /\ IsAddress(log.topics[3]) /\ IsUint64(log.topics[4])
           /\ Fits(data, 0, first + 192)
           /\ current => IsAddress(WordAt(data, 0))
           /\ IsAddress(WordAt(data, first))
           /\ HoldsString(data, uri)
        THEN <<[docChainId |-> log.topics[2][1], attester |-> log.topics[3][32],
                docRef |-> Number(log.topics[4]),
                onBehalfOf |-> IF current THEN WordAt(data, 0)[32] ELSE 0,
                submitter |-> WordAt(data, first)[32],
                parentHash |-> WordAt(data, first + 32)[1],
                blockHash |-> WordAt(data, first + 64)[1],
                contentHash |-> WordAt(data, first + 96)[1],
                uriHash |-> WordAt(data, first + 128)[1],
                uri |-> BytesAt(data, uri)]>>
        ELSE << >>

TopicsWith(f, attester) ==
    <<{Topic0("current"), Topic0("legacy")},
      IF f.docChainId = None THEN None ELSE {Bytes32(f.docChainId)},
      IF f.attester = None THEN None ELSE {attester},
      IF f.docRef = None THEN None ELSE {Word(f.docRef)}>>

(* Seeded fault: the attester's topic is not padded on the left.           *)
TopicsUnpadded(f) == TopicsWith(f, Fill(f.attester, 20) \o Fill(0, 12))

(* doc_attested_topics: at each place a set of topics, or None for any.    *)
Topics(f) == TopicsWith(f, AddressWord(f.attester))

(* eth_getLogs selects by topics.                                          *)
Selected(filter, topics) ==
    \A i \in DOMAIN topics : filter[i] # None => topics[i] \in filter[i]

-----------------------------------------------------------------------------
(* One exchange.                                                           *)

Put(items, event, message) ==
    /\ wire = None /\ Len(message.data) < TooLarge
    /\ sent' = [items |-> items, event |-> event] /\ wire' = message
    /\ UNCHANGED <<whole, got>>

SubmitDoc == \E a \in Items : Put(<<a>>, << >>, AttestDocCalldata(a))

SubmitBatch ==
    \E items \in BoundedSeq(Items, MaxItems) :
        items # << >> /\ Put(items, << >>, AttestBatchCalldata(items))

Emit ==
    \E e \in Events, version \in Versions :
        LET event == IF version = "legacy" THEN [e EXCEPT !.onBehalfOf = 0] ELSE e
        IN  Put(<< >>, <<event>>, EmittedLog(event, version))

(* A provider hands out a part of a log.                                   *)
Lose ==
    /\ wire # None /\ sent.event # << >> /\ whole /\ got = None
    /\ \/ \E n \in 0 .. Len(wire.data) - 1 : wire' = [wire EXCEPT !.data = SubSeq(@, 1, n)]
       \/ \E n \in 1 .. 3 : wire' = [wire EXCEPT !.topics = SubSeq(@, 1, n)]
    /\ whole' = FALSE
    /\ UNCHANGED <<sent, got>>

ReadCalldata ==
    /\ wire # None /\ sent.items # << >> /\ got = None
    /\ got' = ReadCall(wire)
    /\ UNCHANGED <<sent, wire, whole>>

ReadLog ==
    /\ wire # None /\ sent.event # << >> /\ got = None
    /\ got' = Decode(wire)
    /\ UNCHANGED <<sent, wire, whole>>

Init == sent = [items |-> << >>, event |-> << >>] /\ wire = None /\ whole = TRUE /\ got = None

Next == SubmitDoc \/ SubmitBatch \/ Emit \/ Lose \/ ReadCalldata \/ ReadLog

Spec == Init /\ [][Next]_vars

-----------------------------------------------------------------------------
(* Properties.                                                             *)

(* Data on the wire is whole words as long as nothing has been lost, and   *)
(* no exchange carries items and an event.                                 *)
TypeOK ==
    /\ whole \in BOOLEAN
    /\ sent.items \in Seq(Items) /\ Len(sent.event) <= 1
    /\ sent.items = << >> \/ sent.event = << >>
    /\ wire # None /\ whole => Len(wire.data) % 32 = 0

(* The contract reads from the calldata the very attestations and          *)
(* signatures that went in, in their order, whatever the lengths of their  *)
(* uris and signatures: no offset is off and no padding runs over.         *)
CallCarriesItems ==
    sent.items # << >> /\ got # None => got = <<sent.items>>

(* A log decodes to the event it was emitted for or does not decode, also  *)
(* when a part of it is missing; a whole one, of either shape, decodes     *)
(* (given that its string is text).                                        *)
DecodesOrRejects ==
    sent.event # << >> /\ got # None =>
        /\ got \in {<< >>, sent.event}
        /\ whole /\ IsUtf8(sent.event[1].uri) => got # << >>

(* The topics asked for select exactly the events with the fields asked    *)
(* for, of both shapes.                                                    *)
FiltersSelect ==
    sent.event # << >> /\ whole =>
        \A f \in Filters :
            Selected(Topics(f), wire.topics) <=>
                LET e == sent.event[1]
                IN  /\ f.docChainId \in {None, e.docChainId}
                    /\ f.attester \in {None, e.attester}
                    /\ f.docRef \in {None, e.docRef}

(* What the documentation says and the code does not do.                   *)

(* README.md 117-118: "The decoder accepts the current `DocAttested` event *)
(* shape and the original event shape".                                    *)
EmittedLogsDecode ==
    sent.event # << >> /\ whole /\ got # None => got # << >>
=============================================================================
