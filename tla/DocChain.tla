------------------------------ MODULE DocChain ------------------------------
(***************************************************************************)
(* The DocChain contract (contracts/src/DocChain.sol) and the chain that   *)
(* executes it.                                                            *)
(*                                                                         *)
(* A transaction runs in a frame, `tx', that holds its own writes: each    *)
(* turn of attestBatch's loop is one step on the frame, Return commits the *)
(* frame to storage and to the log, and a revert drops it.  Transactions   *)
(* are serial, so everybody else (signers, wallets, the clock, a fork that *)
(* changes the chain id) moves only between transactions.                  *)
(*                                                                         *)
(* keccak256 is modelled as injective: a hash is the tuple of what is      *)
(* hashed.                                                                 *)
(***************************************************************************)
EXTENDS Integers, FiniteSets, SequencesExt

CONSTANTS
    Addresses,          \* accounts that can sign
    Wallets,            \* those of them that may have code
    ZeroAddress,        \* address(0)
    Stranger,           \* what ecrecover yields for a signature it does not fit
    Couriers,           \* accounts that pay for transactions (msg.sender)
    Attestations,       \* the attestations anyone may prepare
    UriBytes(_),        \* length of a uri in bytes
    MAX_URI_BYTES,
    ChainIds, CachedChainId,
    SignatureShapes,    \* encodings a signature can arrive in
    MaxTime,            \* bound: last block timestamp
    MaxSigned,          \* bound: signatures ever made
    MaxApproved,        \* bound: digests the wallets accept at a time
    MaxBatch            \* bound: items in a batch

ASSUME AddressAssumption ==
    /\ Wallets \subseteq Addresses
    /\ ZeroAddress \notin Addresses
    /\ Stranger \notin Addresses \cup {ZeroAddress}
ASSUME AttestationAssumption ==
    \A a \in Attestations :
        /\ DOMAIN a = {"attester", "onBehalfOf", "docBlock", "uri", "deadline"}
        /\ a.attester \in Addresses \cup {ZeroAddress}
        /\ a.deadline \in Nat
ASSUME UriAssumption ==
    MAX_URI_BYTES \in Nat /\ \A a \in Attestations : UriBytes(a.uri) \in Nat
ASSUME ShapeAssumption ==
    SignatureShapes \subseteq [length : Nat, v : Nat, highS : BOOLEAN]
ASSUME ChainAssumption == CachedChainId \in ChainIds
ASSUME BoundAssumption == MaxTime \in Nat /\ MaxBatch \in Nat

VARIABLES
    attested,           \* mapping attested: the keys recorded
    logs,               \* DocAttested events, oldest first
    now, chainid,       \* block.timestamp and block.chainid
    code,               \* addresses with code: EIP-1271 wallets
    signatures,         \* <<signer, digest>> pairs that were really signed
    approvals,          \* <<wallet, digest>> pairs the wallet now accepts
    tx,                 \* the transaction frame in flight
    receipt             \* how the last transaction ended

storage == <<attested, logs>>
world == <<now, chainid, code, signatures, approvals>>
vars == <<storage, world, tx, receipt>>

-----------------------------------------------------------------------------
(* Hashes.  The key leaves the deadline out and the digest has it in; both *)
(* commit to every other field.                                            *)

HashDocBlock(docBlock) == <<"DocBlock", docBlock>>
UriHash(uri) == <<"uri", uri>>

Key(a) == [attester |-> a.attester, onBehalfOf |-> a.onBehalfOf,
           docBlock |-> a.docBlock, uriHash |-> UriHash(a.uri)]

HashAttestation(a) == <<a.attester, a.onBehalfOf, HashDocBlock(a.docBlock),
                        UriHash(a.uri), a.deadline>>

BuildDomainSeparator(c) == <<"Doc Chain", "1", c>>

(* Seeded fault: the separator of the deployment, whatever the chain id.   *)
AlwaysCachedSeparator == BuildDomainSeparator(CachedChainId)

DOMAIN_SEPARATOR == IF chainid = CachedChainId
                    THEN BuildDomainSeparator(CachedChainId)
                    ELSE BuildDomainSeparator(chainid)

Digest(a) == <<DOMAIN_SEPARATOR, HashAttestation(a)>>

(* The DocAttested event of an attestation carried by a courier.           *)
Event(a, sender) == [attester |-> a.attester, onBehalfOf |-> a.onBehalfOf,
                     docBlock |-> a.docBlock, blockHash |-> HashDocBlock(a.docBlock),
                     uri |-> a.uri, uriHash |-> UriHash(a.uri), submitter |-> sender]

(* The claim an event witnesses: the fields of its attestation key.        *)
ClaimOf(e) == [attester |-> e.attester, onBehalfOf |-> e.onBehalfOf,
               docBlock |-> e.docBlock, uriHash |-> e.uriHash]

Keys == {Key(a) : a \in Attestations}
Digests == {<<BuildDomainSeparator(c), HashAttestation(a)>> :
                c \in ChainIds, a \in Attestations}
Events == {Event(a, s) : a \in Attestations, s \in Couriers}

(***************************************************************************)
(* A signature is who signed which digest and the shape of its encoding:   *)
(* its length, its v (for 64 bytes the parity bit EIP-2098 keeps in s) and *)
(* whether s is above half the curve order.  The honest parity is 0; the   *)
(* malleated twin of a signature has a high s and the other parity.        *)
(***************************************************************************)
SignaturesOn(signed) == {[signer |-> p[1], digest |-> p[2], shape |-> sh] :
                             p \in signed, sh \in SignatureShapes}
Signatures == SignaturesOn(Addresses \X Digests)

-----------------------------------------------------------------------------
(* Signature checks.                                                       *)

ecrecover(digest, v, sig) ==
    IF sig.digest = digest /\ v = (IF sig.shape.highS THEN 28 ELSE 27)
    THEN sig.signer
    ELSE Stranger

(* Seeded fault: no check that s is in the lower half.                     *)
RecoverAnyS(digest, sig) ==
    LET v == IF sig.shape.length = 64 \/ sig.shape.v < 27
             THEN sig.shape.v + 27
             ELSE sig.shape.v
    IN  IF v \notin {27, 28} THEN ZeroAddress ELSE ecrecover(digest, v, sig)

RecoverSigner(digest, sig) ==
    LET v == IF sig.shape.length = 64 \/ sig.shape.v < 27
             THEN sig.shape.v + 27
             ELSE sig.shape.v
    IN  IF v \notin {27, 28} \/ sig.shape.highS
        THEN ZeroAddress
        ELSE ecrecover(digest, v, sig)

(* What isValidSignature may give back: the magic value when the wallet    *)
(* accepts the digest, and otherwise a revert (whose data may be anything, *)
(* the magic value included), too few bytes, or another value.             *)
WalletAnswers(wallet, digest) ==
    IF <<wallet, digest>> \in approvals
    THEN {[ok |-> TRUE, length |-> 32, magic |-> TRUE]}
    ELSE {[ok |-> FALSE, length |-> 32, magic |-> TRUE],
          [ok |-> TRUE, length |-> 0, magic |-> TRUE],
          [ok |-> TRUE, length |-> 32, magic |-> FALSE]}

RequireValidSignature(a, sig, answer) ==
    IF a.attester \notin code
    THEN IF sig.shape.length \notin {64, 65} THEN "InvalidSignatureLength"
         ELSE IF RecoverSigner(Digest(a), sig) # a.attester THEN "InvalidSignature"
         ELSE "valid"
    ELSE IF ~answer.ok \/ answer.length < 4 \/ ~answer.magic
         THEN "InvalidSignature"
         ELSE "valid"

-----------------------------------------------------------------------------
(* _attestOne: the checks in the order of the code.  A duplicate is settled *)
(* before the deadline, the uri and the signature are looked at.            *)

Idle == [kind |-> "none", items |-> << >>, sigs |-> << >>, sender |-> ZeroAddress,
         written |-> {}, emitted |-> << >>, stored |-> 0, skipped |-> 0]

Running == tx.kind # "none"
pos == tx.stored + tx.skipped + 1           \* the loop index i, from 1
Item == tx.items[pos]

(* Seeded fault: a batch does not see the keys it has recorded itself.     *)
RecordedBefore(key) == key \in attested

Recorded(key) == key \in attested \cup tx.written

(* Seeded fault: the deadline check is missing.                            *)
VerdictAtAnyTime(a, sig, answer) ==
    IF a.attester = ZeroAddress THEN "InvalidAttester"
    ELSE IF Recorded(Key(a))
         THEN IF tx.kind = "attestBatch" THEN "skipped" ELSE "DuplicateAttestation"
    ELSE IF UriBytes(a.uri) > MAX_URI_BYTES THEN "UriTooLong"
    ELSE RequireValidSignature(a, sig, answer)

(* Seeded fault: the deadline of a duplicate is checked first.             *)
VerdictDeadlineFirst(a, sig, answer) ==
    IF a.attester = ZeroAddress THEN "InvalidAttester"
    ELSE IF now > a.deadline THEN "DeadlineExpired"
    ELSE IF Recorded(Key(a))
         THEN IF tx.kind = "attestBatch" THEN "skipped" ELSE "DuplicateAttestation"
    ELSE IF UriBytes(a.uri) > MAX_URI_BYTES THEN "UriTooLong"
    ELSE RequireValidSignature(a, sig, answer)

Verdict(a, sig, answer) ==
    IF a.attester = ZeroAddress THEN "InvalidAttester"
    ELSE IF Recorded(Key(a))
         THEN IF tx.kind = "attestBatch" THEN "skipped" ELSE "DuplicateAttestation"
    ELSE IF now > a.deadline THEN "DeadlineExpired"
    ELSE IF UriBytes(a.uri) > MAX_URI_BYTES THEN "UriTooLong"
    ELSE RequireValidSignature(a, sig, answer)

(* One call of _attestOne comes to the given verdict.                      *)
AttestOne(verdict) ==
    /\ Running /\ pos <= Len(tx.items)
    /\ \E answer \in WalletAnswers(Item.attester, Digest(Item)) :
            Verdict(Item, tx.sigs[pos], answer) = verdict

(* Seeded faults: the key is not marked as attested; the event is not      *)
(* counted.                                                                *)
StoreUnmarked ==
    /\ AttestOne("valid")
    /\ tx' = [tx EXCEPT !.emitted = Append(@, Event(Item, tx.sender)),
                        !.stored = @ + 1]
    /\ UNCHANGED <<storage, world, receipt>>

StoreUncounted ==
    /\ AttestOne("valid")
    /\ tx' = [tx EXCEPT !.written = @ \cup {Key(Item)},
                        !.emitted = Append(@, Event(Item, tx.sender))]
    /\ UNCHANGED <<storage, world, receipt>>

Store ==
    /\ AttestOne("valid")
    /\ tx' = [tx EXCEPT !.written = @ \cup {Key(Item)},
                        !.emitted = Append(@, Event(Item, tx.sender)),
                        !.stored = @ + 1]
    /\ UNCHANGED <<storage, world, receipt>>

SkipDuplicate ==
    /\ AttestOne("skipped")
    /\ tx' = [tx EXCEPT !.skipped = @ + 1]
    /\ UNCHANGED <<storage, world, receipt>>

(* A revert drops the frame.                                               *)
RevertWith(reason) ==
    /\ tx' = Idle
    /\ receipt' = reason
    /\ UNCHANGED <<storage, world>>

Reasons == {"InvalidAttester", "DuplicateAttestation", "DeadlineExpired", "UriTooLong",
            "InvalidSignature", "InvalidSignatureLength"}

Revert == \E reason \in Reasons : AttestOne(reason) /\ RevertWith(reason)

(* A batch, or a wallet it calls, may need more gas than the block has.    *)
OutOfGas == Running /\ RevertWith("OutOfGas")

Return ==
    /\ Running /\ pos > Len(tx.items)
    /\ attested' = attested \cup tx.written
    /\ logs' = logs \o tx.emitted
    /\ tx' = Idle
    /\ receipt' = "ok"
    /\ UNCHANGED world

-----------------------------------------------------------------------------
(* Entry points.                                                           *)

Begin(kind, items, sigs, sender) ==
    /\ tx' = [Idle EXCEPT !.kind = kind, !.items = items, !.sigs = sigs,
                          !.sender = sender]
    /\ receipt' = "none"
    /\ UNCHANGED <<storage, world>>

attestDoc ==
    /\ ~Running
    /\ \E a \in Attestations, sig \in SignaturesOn(signatures), sender \in Couriers :
            Begin("attestDoc", <<a>>, <<sig>>, sender)

(* Seeded fault: a batch may come with more or fewer signatures.           *)
attestUnpairedBatch ==
    /\ ~Running
    /\ \E items \in BoundedSeq(Attestations, MaxBatch),
          sigs \in BoundedSeq(SignaturesOn(signatures), MaxBatch),
          sender \in Couriers :
            \/ items = << >> /\ RevertWith("EmptyBatch")
            \/ items # << >> /\ Begin("attestBatch", items, sigs, sender)

(* attestBatch turns an empty or unpaired batch away and starts the loop   *)
(* over any other.                                                         *)
attestBatch ==
    /\ ~Running
    /\ \E items \in BoundedSeq(Attestations, MaxBatch),
          sigs \in BoundedSeq(SignaturesOn(signatures), MaxBatch),
          sender \in Couriers :
            \/ items = << >> /\ RevertWith("EmptyBatch")
            \/ items # << >> /\ Len(items) # Len(sigs) /\ RevertWith("BatchLengthMismatch")
            \/ items # << >> /\ Len(items) = Len(sigs)
               /\ Begin("attestBatch", items, sigs, sender)

-----------------------------------------------------------------------------
(* The world around the contract, between transactions.                    *)

(* Anyone signs any attestation, under the domain of the current chain.    *)
Sign ==
    /\ ~Running /\ Cardinality(signatures) < MaxSigned
    /\ \E signer \in Addresses, a \in Attestations :
            signatures' = signatures \cup {<<signer, Digest(a)>>}
    /\ UNCHANGED <<storage, now, chainid, code, approvals, tx, receipt>>

(* A wallet starts or stops accepting the digest of a claim of its own.    *)
Approve ==
    /\ ~Running
    /\ \E a \in Attestations :
          LET pair == <<a.attester, Digest(a)>>
          IN  /\ a.attester \in code
              /\ \/ Cardinality(approvals) < MaxApproved /\ approvals' = approvals \cup {pair}
                 \/ approvals' = approvals \ {pair}
    /\ UNCHANGED <<storage, now, chainid, code, signatures, tx, receipt>>

(* An account gains code (deployment, EIP-7702 delegation) or loses it.    *)
SetCode ==
    /\ ~Running
    /\ \E w \in Wallets : code' \in {code \cup {w}, code \ {w}}
    /\ UNCHANGED <<storage, now, chainid, signatures, approvals, tx, receipt>>

Tick ==
    /\ ~Running /\ now < MaxTime
    /\ now' = now + 1
    /\ UNCHANGED <<storage, chainid, code, signatures, approvals, tx, receipt>>

(* A fork gives the branch this contract runs on a new chain id.           *)
Fork ==
    /\ ~Running /\ chainid = CachedChainId
    /\ chainid' \in ChainIds \ {CachedChainId}
    /\ UNCHANGED <<storage, now, code, signatures, approvals, tx, receipt>>

-----------------------------------------------------------------------------
Init ==
    /\ attested = {} /\ logs = << >>
    /\ now = 0 /\ chainid = CachedChainId
    /\ code = {} /\ signatures = {} /\ approvals = {}
    /\ tx = Idle /\ receipt = "none"

Contract == attestDoc \/ attestBatch \/ Store \/ SkipDuplicate \/ Revert \/ Return
World == Sign \/ Approve \/ SetCode \/ Tick \/ Fork \/ OutOfGas

Next == Contract \/ World

Spec == Init /\ [][Next]_vars

-----------------------------------------------------------------------------
(* Properties.                                                             *)

Frames == [kind : {"none", "attestDoc", "attestBatch"}, items : Seq(Attestations),
           sigs : Seq(Signatures), sender : Couriers \cup {ZeroAddress},
           written : SUBSET Keys, emitted : Seq(Events), stored : Nat, skipped : Nat]

(* Every variable has its type, and a frame has a signature for each item, *)
(* an event for each item it stored, and no more turns than items.         *)
TypeOK ==
    /\ attested \subseteq Keys
    /\ logs \in Seq(Events)
    /\ now \in 0..MaxTime /\ chainid \in ChainIds
    /\ code \subseteq Wallets
    /\ signatures \subseteq Addresses \X Digests
    /\ approvals \subseteq Addresses \X Digests
    /\ tx \in Frames
    /\ Running => tx.sender \in Couriers
    /\ Len(tx.sigs) = Len(tx.items)
    /\ Len(tx.emitted) = tx.stored
    /\ tx.stored + tx.skipped <= Len(tx.items)
    /\ receipt \in Reasons \cup {"none", "ok", "OutOfGas", "EmptyBatch",
                                 "BatchLengthMismatch"}

Claims(events) == {ClaimOf(events[i]) : i \in DOMAIN events}
Distinct(events) == \A i, j \in DOMAIN events :
                        ClaimOf(events[i]) = ClaimOf(events[j]) => i = j

(* The storage and the log agree: a key reads as attested exactly when one *)
(* DocAttested event carries its claim, and no claim has two events, even  *)
(* when a batch repeats a claim, a revert drops half of a batch, or the    *)
(* same claim comes back signed with another deadline.                     *)
LogMatchesStorage == attested = Claims(logs) /\ Distinct(logs)

(* What must hold of an item for it to be witnessed now: its attester      *)
(* authorised this very attestation for the chain the contract now runs on *)
(* (a signature in canonical form for an account without code, the         *)
(* wallet's current consent for one with code), in time and in size.       *)
Authorised(a, sig) ==
    LET digest == <<BuildDomainSeparator(chainid), HashAttestation(a)>>
    IN  /\ a.attester # ZeroAddress
        /\ now <= a.deadline
        /\ UriBytes(a.uri) <= MAX_URI_BYTES
        /\ IF a.attester \in code
           THEN <<a.attester, digest>> \in approvals
           ELSE /\ sig.signer = a.attester /\ sig.digest = digest
                /\ ~sig.shape.highS
                /\ sig.shape \in {[length |-> 65, v |-> 27, highS |-> FALSE],
                                  [length |-> 65, v |-> 0, highS |-> FALSE],
                                  [length |-> 64, v |-> 0, highS |-> FALSE]}

NewEventsAuthorised ==
    \A i \in Len(logs) + 1 .. Len(logs') :
       \E n \in DOMAIN tx.items :
          /\ Key(tx.items[n]) = ClaimOf(logs'[i])
          /\ Authorised(tx.items[n], tx.sigs[n])

(* Nothing is witnessed that its attester did not authorise: each event a  *)
(* step adds is the claim of an item of the transaction that was           *)
(* authorised with its own signature at that moment.  A signature for the  *)
(* chain before a fork, for another deadline or claim, malleated, made by  *)
(* somebody else, or for a wallet that has withdrawn its consent, never    *)
(* puts an event in the log.                                               *)
OnlyAuthorisedClaims == [][NewEventsAuthorised]_vars

(* An item the batch may skip: its key was recorded before the batch, or   *)
(* an earlier item of the same batch carries the same claim.               *)
Repeated(n) ==
    \/ Key(tx.items[n]) \in attested
    \/ \E m \in 1 .. n - 1 : Key(tx.items[m]) = Key(tx.items[n])

(* attestBatch is all-or-nothing on validity and idempotent on duplicates: *)
(* it succeeds exactly when every item repeats a recorded or an earlier    *)
(* claim or is authorised itself, whatever the deadline and the signature  *)
(* of a repeated one; then every claim is recorded and the counts are the  *)
(* numbers of new and of repeated items.  Otherwise nothing changes.  Only *)
(* running out of gas excuses it.                                          *)
BatchOutcome ==
    [][tx.kind = "attestBatch" /\ tx'.kind = "none" /\ receipt' # "OutOfGas" =>
         LET new == {Key(tx.items[n]) : n \in DOMAIN tx.items} \ attested
             ok == \A n \in DOMAIN tx.items :
                      /\ tx.items[n].attester # ZeroAddress
                      /\ Repeated(n) \/ Authorised(tx.items[n], tx.sigs[n])
         IN  /\ (receipt' = "ok") <=> ok
             /\ ok => /\ attested' = attested \cup new
                      /\ tx.stored = Cardinality(new)
                      /\ tx.skipped = Len(tx.items) - tx.stored
                      /\ Len(logs') = Len(logs) + tx.stored
             /\ ~ok => UNCHANGED storage]_vars

(* attestDoc records an authorised new claim and nothing else, and it      *)
(* reports a recorded claim as a duplicate even after the deadline of the  *)
(* copy has passed or its signature has become worthless.                  *)
SingleOutcome ==
    [][tx.kind = "attestDoc" /\ tx'.kind = "none" /\ receipt' # "OutOfGas" =>
         LET key == Key(tx.items[1])
         IN  IF key \in attested
             THEN receipt' = "DuplicateAttestation" /\ UNCHANGED storage
             ELSE /\ (receipt' = "ok") <=> Authorised(tx.items[1], tx.sigs[1])
                  /\ attested' = IF receipt' = "ok" THEN attested \cup {key}
                                 ELSE attested]_vars

(* The contract implements the append-only witness log: its log only grows *)
(* at the end, and never repeats a claim.                                  *)
record == [i \in DOMAIN logs |-> ClaimOf(logs[i])]
Log == INSTANCE WitnessLog WITH Claim <- Keys

ImplementsWitnessLog == Log!Spec
=============================================================================
