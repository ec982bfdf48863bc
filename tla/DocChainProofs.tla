--------------------------- MODULE DocChainProofs ---------------------------
(* Proofs about DocChain, for every choice of its constants.               *)
EXTENDS DocChain, SequenceTheorems, FiniteSetTheorems, TLAPS

(* The event of an attestation carries the claim of its key.               *)
LEMMA EventCarriesKey ==
    ASSUME NEW a, NEW s
    PROVE  ClaimOf(Event(a, s)) = Key(a)
BY DEF ClaimOf, Event, Key

(* Appending an event adds its claim, and keeps the claims distinct if it  *)
(* is a new one.                                                           *)
LEMMA AppendClaim ==
    ASSUME NEW s \in Seq(Events), NEW e \in Events
    PROVE  /\ Claims(Append(s, e)) = Claims(s) \cup {ClaimOf(e)}
           /\ Distinct(s) /\ ClaimOf(e) \notin Claims(s) => Distinct(Append(s, e))
<1> DEFINE t == Append(s, e)
<1>1. /\ DOMAIN s = 1 .. Len(s) /\ DOMAIN t = 1 .. Len(s) + 1
      /\ Len(s) \in Nat
      /\ \A i \in 1 .. Len(s) : t[i] = s[i]
      /\ t[Len(s) + 1] = e
  OBVIOUS
<1> HIDE DEF t
<1>2. Claims(t) = Claims(s) \cup {ClaimOf(e)}
  <2>1. ASSUME NEW i \in DOMAIN t PROVE ClaimOf(t[i]) \in Claims(s) \cup {ClaimOf(e)}
    BY <1>1 DEF Claims
  <2>2. ASSUME NEW i \in DOMAIN s PROVE ClaimOf(s[i]) \in Claims(t)
    BY <1>1 DEF Claims
  <2>3. ClaimOf(e) \in Claims(t)
    <3>1. Len(s) + 1 \in DOMAIN t
      BY <1>1
    <3>2. QED BY <3>1, <1>1 DEF Claims
  <2>4. QED BY <2>1, <2>2, <2>3 DEF Claims
<1>3. ASSUME Distinct(s), ClaimOf(e) \notin Claims(s) PROVE Distinct(t)
  <2>1. SUFFICES ASSUME NEW i \in DOMAIN t, NEW j \in DOMAIN t,
                        ClaimOf(t[i]) = ClaimOf(t[j])
                 PROVE  i = j
    BY DEF Distinct
  <2>2. \A k \in 1 .. Len(s) : ClaimOf(s[k]) # ClaimOf(e)
    BY <1>1, <1>3 DEF Claims
  <2>3. CASE i \in 1 .. Len(s) /\ j \in 1 .. Len(s)
    BY <2>1, <2>3, <1>1, <1>3 DEF Distinct
  <2>4. CASE i = Len(s) + 1 \/ j = Len(s) + 1
    BY <2>1, <2>2, <2>4, <1>1
  <2>5. QED BY <2>3, <2>4, <1>1
<1>4. QED BY <1>2, <1>3 DEF t

(* Concatenating two logs unites their claims, and keeps the claims        *)
(* distinct if the two have none in common.                                *)
LEMMA ConcatClaims ==
    ASSUME NEW s \in Seq(Events), NEW t \in Seq(Events)
    PROVE  /\ Claims(s \o t) = Claims(s) \cup Claims(t)
           /\ Distinct(s) /\ Distinct(t) /\ Claims(s) \cap Claims(t) = {} =>
                Distinct(s \o t)
<1> DEFINE u == s \o t
<1>1. /\ DOMAIN s = 1 .. Len(s) /\ DOMAIN t = 1 .. Len(t)
      /\ DOMAIN u = 1 .. Len(s) + Len(t)
      /\ Len(s) \in Nat /\ Len(t) \in Nat
      /\ \A i \in 1 .. Len(s) : u[i] = s[i]
      /\ \A i \in 1 .. Len(s) + Len(t) : i > Len(s) => u[i] = t[i - Len(s)]
  OBVIOUS
<1> HIDE DEF u
<1>2. \A i \in DOMAIN u : \/ i \in DOMAIN s /\ u[i] = s[i]
                          \/ i > Len(s) /\ i - Len(s) \in DOMAIN t /\ u[i] = t[i - Len(s)]
  BY <1>1
<1>3. Claims(u) = Claims(s) \cup Claims(t)
  <2>1. ASSUME NEW i \in DOMAIN u PROVE ClaimOf(u[i]) \in Claims(s) \cup Claims(t)
    BY <1>2 DEF Claims
  <2>2. ASSUME NEW i \in DOMAIN s PROVE ClaimOf(s[i]) \in Claims(u)
    BY <1>1 DEF Claims
  <2>3. ASSUME NEW i \in DOMAIN t PROVE ClaimOf(t[i]) \in Claims(u)
    <3>1. Len(s) + i \in DOMAIN u /\ u[Len(s) + i] = t[i]
      BY <1>1
    <3>2. QED BY <3>1 DEF Claims
  <2>4. QED BY <2>1, <2>2, <2>3 DEF Claims
<1>4. ASSUME Distinct(s), Distinct(t), Claims(s) \cap Claims(t) = {}
      PROVE  Distinct(u)
  <2>1. SUFFICES ASSUME NEW i \in DOMAIN u, NEW j \in DOMAIN u,
                        ClaimOf(u[i]) = ClaimOf(u[j])
                 PROVE  i = j
    BY DEF Distinct
  <2>2. \A k \in DOMAIN s, l \in DOMAIN t : ClaimOf(s[k]) # ClaimOf(t[l])
    BY <1>4 DEF Claims
  <2>3. CASE i \in DOMAIN s /\ u[i] = s[i] /\ j \in DOMAIN s /\ u[j] = s[j]
    BY <2>1, <2>3, <1>4 DEF Distinct
  <2>4. CASE i > Len(s) /\ j > Len(s)
    <3>1. /\ i - Len(s) \in DOMAIN t /\ u[i] = t[i - Len(s)]
          /\ j - Len(s) \in DOMAIN t /\ u[j] = t[j - Len(s)]
      BY <2>4, <1>1
    <3>2. i - Len(s) = j - Len(s)
      BY <3>1, <2>1, <1>4 DEF Distinct
    <3>3. QED BY <3>2, <1>1
  <2>5. QED BY <1>2, <2>1, <2>2, <2>3, <2>4
<1>5. QED BY <1>3, <1>4 DEF u

-----------------------------------------------------------------------------
(* Type correctness.                                                       *)

LEMMA KeyInKeys == \A a \in Attestations : Key(a) \in Keys
BY DEF Keys

LEMMA DigestInDigests ==
    ASSUME chainid \in ChainIds, NEW a \in Attestations
    PROVE  Digest(a) \in Digests
<1>1. DOMAIN_SEPARATOR = BuildDomainSeparator(chainid)
  BY DEF DOMAIN_SEPARATOR
<1>2. QED BY <1>1 DEF Digest, Digests

(* Signatures on pairs that were signed are signatures.                    *)
LEMMA SignaturesAreTyped ==
    ASSUME TypeOK
    PROVE  SignaturesOn(signatures) \subseteq Signatures
BY DEF TypeOK, SignaturesOn, Signatures

(* The loop's item is one of the attestations, with a signature beside it. *)
LEMMA ItemIsAttestation ==
    ASSUME TypeOK, Running, pos <= Len(tx.items)
    PROVE  /\ Item \in Attestations
           /\ pos \in DOMAIN tx.items
           /\ tx.sigs[pos] \in Signatures
<1>1. /\ tx.items \in Seq(Attestations) /\ tx.sigs \in Seq(Signatures)
      /\ Len(tx.sigs) = Len(tx.items)
      /\ tx.stored \in Nat /\ tx.skipped \in Nat
  BY DEF TypeOK, Frames
<1>2. pos \in 1 .. Len(tx.items)
  BY <1>1 DEF pos
<1>3. QED BY <1>1, <1>2 DEF Item

LEMMA IdleIsFrame == Idle \in Frames
BY DEF Idle, Frames

(* BoundedSeq enumerates sequences over the set.                           *)
LEMMA BoundedSeqIsSeq ==
    ASSUME NEW S, NEW n \in Nat
    PROVE  BoundedSeq(S, n) \subseteq Seq(S)
BY DEF BoundedSeq, SeqOf

LEMMA BeginTyped ==
    ASSUME NEW kind \in {"attestDoc", "attestBatch"},
           NEW items \in Seq(Attestations), NEW sigs \in Seq(Signatures),
           NEW sender \in Couriers, Len(sigs) = Len(items),
           TypeOK, Begin(kind, items, sigs, sender)
    PROVE  TypeOK'
<1>1. tx' = [kind |-> kind, items |-> items, sigs |-> sigs, sender |-> sender,
             written |-> {}, emitted |-> << >>, stored |-> 0, skipped |-> 0]
  BY DEF Begin, Idle
<1>2. tx' \in Frames
  BY <1>1 DEF Frames
<1>3. /\ Len(tx'.sigs) = Len(tx'.items) /\ tx'.sender \in Couriers
      /\ Len(tx'.emitted) = tx'.stored
      /\ tx'.stored + tx'.skipped <= Len(tx'.items)
  <2>1. Len(items) \in Nat
    OBVIOUS
  <2>2. QED BY <1>1, <2>1
<1>4. QED BY <1>2, <1>3 DEF TypeOK, Begin, storage, world

LEMMA RevertTyped ==
    ASSUME NEW reason \in Reasons \cup {"OutOfGas", "EmptyBatch", "BatchLengthMismatch"},
           TypeOK, RevertWith(reason)
    PROVE  TypeOK'
<1>1. tx' = Idle /\ Idle \in Frames
  BY IdleIsFrame DEF RevertWith
<1>2. /\ Idle.kind = "none" /\ Len(Idle.sigs) = Len(Idle.items) /\ Len(Idle.emitted) = Idle.stored
      /\ Idle.stored + Idle.skipped <= Len(Idle.items)
  BY DEF Idle
<1>3. QED BY <1>1, <1>2 DEF TypeOK, Running, RevertWith, storage, world

LEMMA TypeStep == TypeOK /\ [Next]_vars => TypeOK'
<1> SUFFICES ASSUME TypeOK, [Next]_vars PROVE TypeOK'
  OBVIOUS
<1>1. CASE attestDoc
  <2>1. PICK a \in Attestations, sig \in SignaturesOn(signatures), sender \in Couriers :
            Begin("attestDoc", <<a>>, <<sig>>, sender)
    BY <1>1 DEF attestDoc
  <2>2. <<a>> \in Seq(Attestations) /\ <<sig>> \in Seq(Signatures)
        /\ Len(<<a>>) = Len(<<sig>>)
    BY SignaturesAreTyped
  <2>3. QED BY <2>1, <2>2, BeginTyped
<1>2. CASE attestBatch
  <2>1. PICK items \in BoundedSeq(Attestations, MaxBatch),
             sigs \in BoundedSeq(SignaturesOn(signatures), MaxBatch),
             sender \in Couriers :
            \/ items = << >> /\ RevertWith("EmptyBatch")
            \/ items # << >> /\ Len(items) # Len(sigs) /\ RevertWith("BatchLengthMismatch")
            \/ items # << >> /\ Len(items) = Len(sigs)
               /\ Begin("attestBatch", items, sigs, sender)
    BY <1>2 DEF attestBatch
  <2>2. items \in Seq(Attestations) /\ sigs \in Seq(SignaturesOn(signatures))
    BY BoundedSeqIsSeq, BoundAssumption
  <2>3. sigs \in Seq(Signatures)
    BY <2>2, SignaturesAreTyped
  <2>4. CASE RevertWith("EmptyBatch") \/ RevertWith("BatchLengthMismatch")
    BY <2>4, RevertTyped
  <2>5. CASE Len(items) = Len(sigs) /\ Begin("attestBatch", items, sigs, sender)
    BY <2>2, <2>3, <2>5, BeginTyped
  <2>6. QED BY <2>1, <2>4, <2>5
<1>3. CASE Store
  <2>1. Running /\ pos <= Len(tx.items)
    BY <1>3 DEF Store, AttestOne
  <2>2. /\ Item \in Attestations /\ Key(Item) \in Keys
        /\ Event(Item, tx.sender) \in Events
    <3>1. tx.sender \in Couriers
      BY <2>1 DEF TypeOK
    <3>2. QED BY <2>1, <3>1, ItemIsAttestation, KeyInKeys DEF Events
  <2>3. tx' = [tx EXCEPT !.written = tx.written \cup {Key(Item)},
                         !.emitted = Append(tx.emitted, Event(Item, tx.sender)),
                         !.stored = tx.stored + 1]
    BY <1>3 DEF Store
  <2>4. /\ tx'.kind = tx.kind /\ tx'.sender = tx.sender
        /\ tx'.items = tx.items /\ tx'.sigs = tx.sigs
        /\ tx'.emitted = Append(tx.emitted, Event(Item, tx.sender))
        /\ tx'.stored = tx.stored + 1 /\ tx'.skipped = tx.skipped
    BY <2>3 DEF TypeOK, Frames
  <2>5. tx' \in Frames
    <3>1. tx.written \cup {Key(Item)} \in SUBSET Keys
      BY <2>2 DEF TypeOK, Frames
    <3>2. Append(tx.emitted, Event(Item, tx.sender)) \in Seq(Events)
      BY <2>2 DEF TypeOK, Frames
    <3>3. tx \in Frames /\ tx.stored + 1 \in Nat
      BY DEF TypeOK, Frames
    <3>4. QED BY <3>1, <3>2, <3>3, <2>3 DEF Frames
  <2>6. /\ Len(tx'.emitted) = tx'.stored
        /\ tx'.stored + tx'.skipped <= Len(tx'.items)
    <3>1. tx.emitted \in Seq(Events) /\ Len(tx.emitted) = tx.stored
          /\ tx.stored \in Nat /\ tx.skipped \in Nat
          /\ Len(tx.items) \in Nat
      BY DEF TypeOK, Frames
    <3>2. QED BY <2>1, <2>2, <2>4, <3>1 DEF pos
  <2>7. QED BY <1>3, <2>4, <2>5, <2>6 DEF Store, TypeOK, Running, storage, world
<1>4. CASE SkipDuplicate
  <2>1. Running /\ pos <= Len(tx.items) /\ tx' = [tx EXCEPT !.skipped = tx.skipped + 1]
    BY <1>4 DEF SkipDuplicate, AttestOne
  <2>2. tx \in Frames /\ tx.stored \in Nat /\ tx.skipped \in Nat /\ Len(tx.items) \in Nat
    BY DEF TypeOK, Frames
  <2>3. /\ tx' \in Frames
        /\ tx'.kind = tx.kind /\ tx'.sender = tx.sender
        /\ tx'.items = tx.items /\ tx'.sigs = tx.sigs /\ tx'.emitted = tx.emitted
        /\ tx'.stored = tx.stored /\ tx'.skipped = tx.skipped + 1
    <3>1. tx.skipped + 1 \in Nat
      BY <2>2
    <3>2. QED BY <2>1, <2>2, <3>1 DEF Frames
  <2>4. tx'.stored + tx'.skipped <= Len(tx'.items)
    BY <2>1, <2>2, <2>3 DEF pos
  <2>5. QED BY <1>4, <2>3, <2>4 DEF SkipDuplicate, TypeOK, Running, storage, world
<1>5. CASE Revert
  BY <1>5, RevertTyped DEF Revert
<1>6. CASE Return
  <2>1. tx.written \subseteq Keys /\ tx.emitted \in Seq(Events)
    BY DEF TypeOK, Frames
  <2>2. attested' \subseteq Keys /\ logs' \in Seq(Events)
    BY <1>6, <2>1 DEF Return, TypeOK
  <2>3. /\ Idle.kind = "none" /\ Len(Idle.sigs) = Len(Idle.items) /\ Len(Idle.emitted) = Idle.stored
        /\ Idle.stored + Idle.skipped <= Len(Idle.items)
    BY DEF Idle
  <2>4. QED BY <1>6, <2>2, <2>3, IdleIsFrame DEF Return, TypeOK, Running, world
<1>7. CASE Sign
  BY <1>7, DigestInDigests DEF Sign, TypeOK, Running, storage
<1>8. CASE Approve
  <2>1. PICK a \in Attestations :
            /\ a.attester \in code
            /\ approvals' \subseteq approvals \cup {<<a.attester, Digest(a)>>}
    BY <1>8 DEF Approve
  <2>2. <<a.attester, Digest(a)>> \in Addresses \X Digests
    BY <2>1, DigestInDigests, AddressAssumption DEF TypeOK
  <2>3. QED BY <1>8, <2>1, <2>2 DEF Approve, TypeOK, Running, storage
<1>9. CASE SetCode
  BY <1>9 DEF SetCode, TypeOK, Running, storage
<1>10. CASE Tick
  BY <1>10, BoundAssumption DEF Tick, TypeOK, Running, storage
<1>11. CASE Fork
  BY <1>11 DEF Fork, TypeOK, Running, storage
<1>12. CASE OutOfGas
  BY <1>12, RevertTyped DEF OutOfGas
<1>13. CASE UNCHANGED vars
  BY <1>13 DEF vars, storage, world, TypeOK, Running
<1>14. QED
  BY <1>1, <1>2, <1>3, <1>4, <1>5, <1>6, <1>7, <1>8, <1>9, <1>10, <1>11, <1>12, <1>13
     DEF Next, Contract, World

(* Every variable keeps its type, and every frame its shape.               *)
THEOREM TypeCorrect == Spec => []TypeOK
<1>1. Init => TypeOK
  <2>1. /\ Idle.kind = "none" /\ Len(Idle.sigs) = Len(Idle.items)
        /\ Len(Idle.emitted) = Idle.stored
        /\ Idle.stored + Idle.skipped <= Len(Idle.items)
    BY DEF Idle
  <2>2. QED BY <2>1, IdleIsFrame, ChainAssumption, BoundAssumption
            DEF Init, TypeOK, Running
<1>2. QED BY <1>1, TypeStep, PTL DEF Spec

-----------------------------------------------------------------------------
(* The storage and the log.                                                *)

(* Authorised is stated of the state it is read in.  An event waiting in   *)
(* the frame was authorised when its item was stored, and since the world  *)
(* stands still during a transaction it still is.                          *)
FrameInv ==
    /\ ~Running => tx = Idle
    /\ tx.written = Claims(tx.emitted) /\ Distinct(tx.emitted)
    /\ tx.written \cap attested = {}
    /\ \A i \in DOMAIN tx.emitted :
          \E n \in DOMAIN tx.items :
             /\ Key(tx.items[n]) = ClaimOf(tx.emitted[i])
             /\ Authorised(tx.items[n], tx.sigs[n])

(* The inductive invariant: what the frame will commit is in step with     *)
(* itself and disjoint from what is recorded.                              *)
IInv == TypeOK /\ LogMatchesStorage /\ FrameInv

(* A frame without events satisfies the frame invariant.                   *)
LEMMA EmptyFrame ==
    ASSUME (~Running => tx = Idle), tx.written = {}, tx.emitted = << >>
    PROVE  FrameInv
BY DEF FrameInv, Claims, Distinct

(* A signature that passes the contract's checks is authorised.            *)
LEMMA ValidIsAuthorised ==
    ASSUME TypeOK, NEW a \in Attestations, NEW sig \in Signatures,
           NEW answer \in WalletAnswers(a.attester, Digest(a)),
           Verdict(a, sig, answer) = "valid"
    PROVE  Authorised(a, sig) /\ ~Recorded(Key(a))
<1>1. /\ a.attester # ZeroAddress /\ ~Recorded(Key(a))
      /\ ~(now > a.deadline) /\ ~(UriBytes(a.uri) > MAX_URI_BYTES)
      /\ RequireValidSignature(a, sig, answer) = "valid"
  BY DEF Verdict
<1>2. now <= a.deadline
  BY <1>1, AttestationAssumption, BoundAssumption DEF TypeOK
<1>3. UriBytes(a.uri) <= MAX_URI_BYTES
  BY <1>1, UriAssumption
<1>4. Digest(a) = <<BuildDomainSeparator(chainid), HashAttestation(a)>>
  BY DEF Digest, DOMAIN_SEPARATOR
<1>5. CASE a.attester \in code
  <2>1. answer.ok /\ answer.length >= 4 /\ answer.magic
    BY <1>1, <1>5 DEF RequireValidSignature, WalletAnswers
  <2>2. <<a.attester, Digest(a)>> \in approvals
    BY <2>1 DEF WalletAnswers
  <2>3. QED BY <1>1, <1>2, <1>3, <1>4, <1>5, <2>2 DEF Authorised
<1>6. CASE a.attester \notin code
  <2>1. /\ sig.shape.length \in {64, 65}
        /\ RecoverSigner(Digest(a), sig) = a.attester
    BY <1>1, <1>6 DEF RequireValidSignature
  <2>2. a.attester # Stranger
    BY <1>1, AttestationAssumption, AddressAssumption
  <2>3. sig.shape \in [length : Nat, v : Nat, highS : BOOLEAN]
    BY ShapeAssumption DEF Signatures, SignaturesOn
  <2>4. /\ ~sig.shape.highS
        /\ sig.digest = Digest(a) /\ sig.signer = a.attester
        /\ 27 = (IF sig.shape.length = 64 \/ sig.shape.v < 27
                 THEN sig.shape.v + 27 ELSE sig.shape.v)
    BY <1>1, <2>1, <2>2 DEF RecoverSigner, ecrecover
  <2>5. \/ sig.shape.length = 64 /\ sig.shape.v = 0
        \/ sig.shape.length = 65 /\ sig.shape.v \in {0, 27}
    BY <2>1, <2>3, <2>4
  <2>6. sig.shape \in {[length |-> 65, v |-> 27, highS |-> FALSE],
                       [length |-> 65, v |-> 0, highS |-> FALSE],
                       [length |-> 64, v |-> 0, highS |-> FALSE]}
    BY <2>3, <2>4, <2>5
  <2>7. QED BY <1>1, <1>2, <1>3, <1>4, <1>6, <2>4, <2>6 DEF Authorised
<1>7. QED BY <1>1, <1>5, <1>6

(* An action that leaves the storage alone and leaves an empty frame.      *)
LEMMA EmptyFrameStep ==
    ASSUME IInv, UNCHANGED storage, (~Running => tx = Idle)',
           tx'.written = {}, tx'.emitted = << >>
    PROVE  (LogMatchesStorage /\ FrameInv)'
<1>1. LogMatchesStorage'
  BY DEF IInv, LogMatchesStorage, storage, Claims, Distinct
<1>2. FrameInv'
  BY DEF FrameInv, Claims, Distinct
<1>3. QED BY <1>1, <1>2

LEMMA StoreStep == IInv /\ TypeOK' /\ Store => (LogMatchesStorage /\ FrameInv)'
<1> SUFFICES ASSUME IInv, TypeOK', Store PROVE (LogMatchesStorage /\ FrameInv)'
  OBVIOUS
<1>1. Running /\ pos <= Len(tx.items) /\ UNCHANGED <<storage, world, receipt>>
  BY DEF Store, AttestOne
<1>2. /\ Item \in Attestations /\ pos \in DOMAIN tx.items
      /\ tx.sigs[pos] \in Signatures
  BY <1>1, ItemIsAttestation DEF IInv
<1>3. /\ Authorised(Item, tx.sigs[pos]) /\ ~Recorded(Key(Item))
      /\ Item = tx.items[pos]
  <2>1. PICK answer \in WalletAnswers(Item.attester, Digest(Item)) :
            Verdict(Item, tx.sigs[pos], answer) = "valid"
    BY DEF Store, AttestOne
  <2>2. QED BY <1>2, <2>1, ValidIsAuthorised DEF IInv, Item
<1> DEFINE e == Event(Item, tx.sender)
<1>4. /\ tx'.kind = tx.kind /\ tx'.items = tx.items /\ tx'.sigs = tx.sigs
      /\ tx'.written = tx.written \cup {Key(Item)}
      /\ tx'.emitted = Append(tx.emitted, e)
  BY DEF Store, IInv, TypeOK, Frames
<1>5. /\ tx.emitted \in Seq(Events) /\ e \in Events /\ ClaimOf(e) = Key(Item)
  BY <1>1, <1>2, EventCarriesKey DEF IInv, TypeOK, Frames, Events
<1> HIDE DEF e
<1>6. /\ Claims(tx'.emitted) = Claims(tx.emitted) \cup {Key(Item)}
      /\ Key(Item) \notin Claims(tx.emitted) => Distinct(tx'.emitted)
  BY <1>4, <1>5, AppendClaim DEF IInv, FrameInv
<1>7. LogMatchesStorage'
  BY <1>1 DEF IInv, LogMatchesStorage, storage, Claims, Distinct
<1>8. (~Running => tx = Idle)'
  BY <1>1, <1>4 DEF Running
<1>9. tx'.written = Claims(tx'.emitted) /\ Distinct(tx'.emitted)
  BY <1>3, <1>4, <1>6 DEF IInv, FrameInv, Recorded
<1>10. tx'.written \cap attested' = {}
  BY <1>1, <1>3, <1>4 DEF IInv, FrameInv, Recorded, storage
<1>11. ASSUME NEW i \in DOMAIN tx'.emitted
       PROVE  (\E n \in DOMAIN tx.items :
                 /\ Key(tx.items[n]) = ClaimOf(tx.emitted[i])
                 /\ Authorised(tx.items[n], tx.sigs[n]))'
  <2>1. \A a, sig : Authorised(a, sig)' <=> Authorised(a, sig)
    BY <1>1 DEF Authorised, world
  <2>2. \/ i \in DOMAIN tx.emitted /\ tx'.emitted[i] = tx.emitted[i]
        \/ tx'.emitted[i] = e
    <3>1. i \in 1 .. Len(tx.emitted) + 1
      BY <1>4, <1>5
    <3>2. QED BY <3>1, <1>4, <1>5
  <2>3. CASE i \in DOMAIN tx.emitted /\ tx'.emitted[i] = tx.emitted[i]
    <3>1. PICK n \in DOMAIN tx.items :
              Key(tx.items[n]) = ClaimOf(tx.emitted[i]) /\ Authorised(tx.items[n], tx.sigs[n])
      BY <2>3 DEF IInv, FrameInv
    <3>2. QED BY <1>4, <2>1, <2>3, <3>1
  <2>4. CASE tx'.emitted[i] = e
    BY <1>2, <1>3, <1>4, <1>5, <2>1, <2>4
  <2>5. QED BY <2>2, <2>3, <2>4
<1>12. QED BY <1>7, <1>8, <1>9, <1>10, <1>11 DEF FrameInv

LEMMA ReturnStep == IInv /\ Return => (LogMatchesStorage /\ FrameInv)'
<1> SUFFICES ASSUME IInv, Return PROVE (LogMatchesStorage /\ FrameInv)'
  OBVIOUS
<1>1. /\ tx' = Idle /\ logs' = logs \o tx.emitted
      /\ attested' = attested \cup tx.written
  BY DEF Return
<1>2. logs \in Seq(Events) /\ tx.emitted \in Seq(Events)
  BY DEF IInv, TypeOK, Frames
<1>3. Claims(logs') = Claims(logs) \cup Claims(tx.emitted) /\ Distinct(logs')
  BY <1>1, <1>2, ConcatClaims DEF IInv, LogMatchesStorage, FrameInv
<1>4. LogMatchesStorage'
  BY <1>1, <1>3 DEF IInv, LogMatchesStorage, FrameInv
<1>5. FrameInv'
  BY <1>1 DEF Idle, FrameInv, Claims, Distinct
<1>6. QED BY <1>4, <1>5

LEMMA InvStep == IInv /\ [Next]_vars => IInv'
<1> SUFFICES ASSUME IInv, [Next]_vars PROVE IInv'
  OBVIOUS
<1>1. TypeOK'
  BY TypeStep DEF IInv
<1>2. \A kind, items, sigs, sender :
         kind # "none" /\ Begin(kind, items, sigs, sender) =>
            (LogMatchesStorage /\ FrameInv)'
  <2>1. SUFFICES ASSUME NEW kind, NEW items, NEW sigs, NEW sender,
                        kind # "none", Begin(kind, items, sigs, sender)
                 PROVE  (LogMatchesStorage /\ FrameInv)'
    OBVIOUS
  <2>2. /\ tx'.kind # "none" /\ tx'.written = {} /\ tx'.emitted = << >>
        /\ UNCHANGED storage
    BY <2>1 DEF Begin, Idle
  <2>3. QED BY <2>2, EmptyFrameStep DEF Running
<1>3. \A reason : RevertWith(reason) => (LogMatchesStorage /\ FrameInv)'
  <2>1. SUFFICES ASSUME NEW reason, RevertWith(reason)
                 PROVE  (LogMatchesStorage /\ FrameInv)'
    OBVIOUS
  <2>2. tx' = Idle /\ tx'.written = {} /\ tx'.emitted = << >> /\ UNCHANGED storage
    BY <2>1 DEF RevertWith, Idle
  <2>3. QED BY <2>2, EmptyFrameStep
<1>4. ~Running /\ UNCHANGED <<storage, tx>> => (LogMatchesStorage /\ FrameInv)'
  <2>1. SUFFICES ASSUME ~Running, UNCHANGED <<storage, tx>>
                 PROVE  (LogMatchesStorage /\ FrameInv)'
    OBVIOUS
  <2>2. tx' = Idle /\ tx'.written = {} /\ tx'.emitted = << >>
    BY <2>1 DEF IInv, FrameInv, Idle
  <2>3. QED BY <2>1, <2>2, EmptyFrameStep
<1>5. CASE attestDoc
  BY <1>1, <1>2, <1>5 DEF attestDoc, IInv
<1>6. CASE attestBatch
  BY <1>1, <1>2, <1>3, <1>6 DEF attestBatch, IInv
<1>7. CASE Store
  BY <1>1, <1>7, StoreStep DEF IInv
<1>8. CASE SkipDuplicate
  <2>1. /\ UNCHANGED <<storage, world>> /\ Running
        /\ tx'.kind = tx.kind /\ tx'.items = tx.items /\ tx'.sigs = tx.sigs
        /\ tx'.written = tx.written /\ tx'.emitted = tx.emitted
    BY <1>8 DEF SkipDuplicate, AttestOne, IInv, TypeOK, Frames
  <2>2. \A a, sig : Authorised(a, sig)' <=> Authorised(a, sig)
    BY <2>1 DEF Authorised, world
  <2>3. LogMatchesStorage'
    BY <2>1 DEF IInv, LogMatchesStorage, storage, Claims, Distinct
  <2>4. FrameInv'
    BY <2>1, <2>2 DEF IInv, FrameInv, storage, Claims, Distinct, Running
  <2>5. QED BY <1>1, <2>3, <2>4 DEF IInv
<1>9. CASE Revert
  BY <1>1, <1>3, <1>9 DEF Revert, IInv
<1>10. CASE Return
  BY <1>1, <1>10, ReturnStep DEF IInv
<1>11. CASE OutOfGas
  BY <1>1, <1>3, <1>11 DEF OutOfGas, IInv
<1>12. CASE Sign \/ Approve \/ SetCode \/ Tick \/ Fork
  BY <1>1, <1>4, <1>12 DEF Sign, Approve, SetCode, Tick, Fork, IInv
<1>13. CASE UNCHANGED vars
  <2>1. \A a, sig : Authorised(a, sig)' <=> Authorised(a, sig)
    BY <1>13 DEF Authorised, vars, world
  <2>2. QED BY <1>1, <1>13, <2>1 DEF vars, storage, IInv, LogMatchesStorage, FrameInv,
                                  Claims, Distinct, Running
<1>14. QED
  BY <1>5, <1>6, <1>7, <1>8, <1>9, <1>10, <1>11, <1>12, <1>13 DEF Next, Contract, World

LEMMA Invariant == Spec => []IInv
<1>1. Init => IInv
  <2>1. SUFFICES ASSUME Init PROVE IInv
    OBVIOUS
  <2>2. TypeOK
    <3>1. /\ Idle.kind = "none" /\ Len(Idle.sigs) = Len(Idle.items)
          /\ Len(Idle.emitted) = Idle.stored
          /\ Idle.stored + Idle.skipped <= Len(Idle.items)
      BY DEF Idle
    <3>2. QED BY <2>1, <3>1, IdleIsFrame, ChainAssumption, BoundAssumption
              DEF Init, TypeOK, Running
  <2>3. LogMatchesStorage
    BY <2>1 DEF Init, LogMatchesStorage, Claims, Distinct
  <2>4. FrameInv
    BY <2>1, EmptyFrame DEF Init, Idle
  <2>5. QED BY <2>2, <2>3, <2>4 DEF IInv
<1>2. QED BY <1>1, InvStep, PTL DEF Spec

(* The keys recorded are the claims of the log, each with one event.       *)
THEOREM StorageMatchesLog == Spec => []LogMatchesStorage
<1>1. IInv => LogMatchesStorage
  BY DEF IInv
<1>2. QED BY <1>1, Invariant, PTL

-----------------------------------------------------------------------------
(* Authorisation and the abstract log.                                     *)

(* Only Return appends to the log, and only what the frame emitted.        *)
LEMMA LogStep ==
    ASSUME IInv, [Next]_vars
    PROVE  \/ UNCHANGED logs
           \/ logs' = logs \o tx.emitted
BY DEF Next, Contract, World, vars, storage, world, attestDoc, attestBatch, Begin,
       RevertWith, Store, SkipDuplicate, Revert, Return, OutOfGas, Sign, Approve,
       SetCode, Tick, Fork

(* No step witnesses a claim that its attester did not authorise, for the  *)
(* chain it is on and at the time it happens.                              *)
THEOREM WitnessedIsAuthorised == Spec => OnlyAuthorisedClaims
<1>1. IInv /\ [Next]_vars => [NewEventsAuthorised]_vars
  <2>1. SUFFICES ASSUME IInv, [Next]_vars,
                        NEW i \in Len(logs) + 1 .. Len(logs')
                 PROVE  \E n \in DOMAIN tx.items :
                           /\ Key(tx.items[n]) = ClaimOf(logs'[i])
                           /\ Authorised(tx.items[n], tx.sigs[n])
    BY DEF NewEventsAuthorised
  <2>2. logs \in Seq(Events) /\ tx.emitted \in Seq(Events)
    BY <2>1 DEF IInv, TypeOK, Frames
  <2>3. logs' = logs \o tx.emitted
    BY <2>1, <2>2, LogStep
  <2>4. /\ i - Len(logs) \in DOMAIN tx.emitted
        /\ logs'[i] = tx.emitted[i - Len(logs)]
    BY <2>1, <2>2, <2>3
  <2>5. QED BY <2>1, <2>4 DEF IInv, FrameInv
<1>2. QED BY <1>1, Invariant, PTL DEF Spec, OnlyAuthorisedClaims

(* Mapping each event to its claim, the contract is an append-only log     *)
(* that witnesses no claim twice.                                          *)
THEOREM Refinement == Spec => ImplementsWitnessLog
<1>1. Init => Log!Init
  BY DEF Init, Log!Init, record
<1>2. IInv /\ [Next]_vars /\ IInv' => [Log!Next]_record
  <2>1. SUFFICES ASSUME IInv, [Next]_vars, IInv', logs' # logs
                 PROVE  Log!Next
    BY DEF record
  <2>2. logs \in Seq(Events) /\ tx.emitted \in Seq(Events) /\ logs' \in Seq(Events)
    BY <2>1 DEF IInv, TypeOK, Frames
  <2>3. logs' = logs \o tx.emitted
    BY <2>1, LogStep
  <2>4. Len(logs) < Len(logs') /\ \A i \in DOMAIN logs : logs'[i] = logs[i]
    <3>1. tx.emitted # << >>
      BY <2>1, <2>2, <2>3
    <3>2. QED BY <3>1, <2>2, <2>3
  <2>5. \A e \in Events : ClaimOf(e) \in Keys
    BY EventCarriesKey DEF Events, Keys
  <2>6. /\ record' = [i \in 1 .. Len(logs') |-> ClaimOf(logs'[i])]
        /\ record = [i \in 1 .. Len(logs) |-> ClaimOf(logs[i])]
    BY <2>2 DEF record
  <2>7. record' \in Seq(Keys) /\ Len(record') = Len(logs') /\ Len(record) = Len(logs)
    BY <2>2, <2>5, <2>6
  <2>8. \A i \in DOMAIN record : record'[i] = record[i]
    BY <2>2, <2>4, <2>6
  <2>9. IsInjective(record')
    BY <2>1, <2>2, <2>6 DEF IInv, LogMatchesStorage, Distinct, IsInjective
  <2>10. QED BY <2>4, <2>7, <2>8, <2>9
            DEF Log!Next, Log!Witness, IsInjective, Log!IsInjective
<1>3. QED BY <1>1, <1>2, Invariant, PTL DEF Spec, ImplementsWitnessLog, Log!Spec

-----------------------------------------------------------------------------
(* What a transaction comes to.                                            *)

(* An item that cannot make its batch fail.                                *)
Settled(n) ==
    /\ tx.items[n].attester # ZeroAddress
    /\ Repeated(n) \/ Authorised(tx.items[n], tx.sigs[n])

(* The items before the loop index are settled and recorded, in storage or *)
(* in the frame; the frame records nothing else, and counts what it        *)
(* records.  attestDoc has one item and skips none.  No claim of the zero  *)
(* address is recorded.                                                    *)
PassedInv ==
    /\ \A key \in attested \cup tx.written : key.attester # ZeroAddress
    /\ tx.kind = "attestDoc" => Len(tx.items) = 1 /\ tx.skipped = 0
    /\ \A n \in DOMAIN tx.items :
          n < pos => Settled(n) /\ Recorded(Key(tx.items[n]))
    /\ \A key \in tx.written :
          \E n \in DOMAIN tx.items : n < pos /\ Key(tx.items[n]) = key
    /\ IsFiniteSet(tx.written) /\ Cardinality(tx.written) = tx.stored

(* An authorised claim that is new passes the contract's checks.           *)
LEMMA AuthorisedIsValid ==
    ASSUME TypeOK, NEW a \in Attestations, NEW sig \in Signatures,
           NEW answer \in WalletAnswers(a.attester, Digest(a)),
           Authorised(a, sig), ~Recorded(Key(a))
    PROVE  Verdict(a, sig, answer) = "valid"
<1>1. Digest(a) = <<BuildDomainSeparator(chainid), HashAttestation(a)>>
  BY DEF Digest, DOMAIN_SEPARATOR
<1>2. /\ a.attester # ZeroAddress
      /\ ~(now > a.deadline) /\ ~(UriBytes(a.uri) > MAX_URI_BYTES)
  BY AttestationAssumption, UriAssumption, BoundAssumption DEF Authorised, TypeOK
<1>3. CASE a.attester \in code
  <2>1. <<a.attester, Digest(a)>> \in approvals
    BY <1>1, <1>3 DEF Authorised
  <2>2. answer = [ok |-> TRUE, length |-> 32, magic |-> TRUE]
    BY <2>1 DEF WalletAnswers
  <2>3. RequireValidSignature(a, sig, answer) = "valid"
    BY <1>3, <2>2 DEF RequireValidSignature
  <2>4. QED BY <1>2, <2>3 DEF Verdict
<1>4. CASE a.attester \notin code
  <2>1. /\ sig.signer = a.attester /\ sig.digest = Digest(a)
        /\ sig.shape \in {[length |-> 65, v |-> 27, highS |-> FALSE],
                          [length |-> 65, v |-> 0, highS |-> FALSE],
                          [length |-> 64, v |-> 0, highS |-> FALSE]}
    BY <1>1, <1>4 DEF Authorised
  <2>2. sig.shape.length \in {64, 65} /\ RecoverSigner(Digest(a), sig) = a.attester
    BY <2>1 DEF RecoverSigner, ecrecover
  <2>3. RequireValidSignature(a, sig, answer) = "valid"
    BY <1>4, <2>2 DEF RequireValidSignature
  <2>4. QED BY <1>2, <2>3 DEF Verdict
<1>5. QED BY <1>3, <1>4

(* A repeated item is recorded when the loop comes to it, and an item      *)
(* recorded by then is a repeated one.                                     *)
LEMMA RepeatedIsRecorded ==
    ASSUME TypeOK, PassedInv, Running, pos <= Len(tx.items)
    PROVE  Repeated(pos) <=> Recorded(Key(Item))
<1>1. /\ tx.items \in Seq(Attestations) /\ pos \in DOMAIN tx.items /\ pos \in Nat
      /\ Item = tx.items[pos] /\ DOMAIN tx.items = 1 .. Len(tx.items)
      /\ Len(tx.items) \in Nat
  BY ItemIsAttestation DEF TypeOK, Frames, Item, pos
<1>2. 1 .. pos - 1 = {n \in DOMAIN tx.items : n < pos}
  BY <1>1
<1>3. ASSUME Repeated(pos) PROVE Recorded(Key(Item))
  <2>1. CASE Key(tx.items[pos]) \in attested
    BY <1>1, <2>1 DEF Recorded
  <2>2. CASE \E m \in 1 .. pos - 1 : Key(tx.items[m]) = Key(tx.items[pos])
    <3>1. PICK m \in 1 .. pos - 1 : Key(tx.items[m]) = Key(tx.items[pos])
      BY <2>2
    <3>2. m \in DOMAIN tx.items /\ m < pos
      BY <1>2
    <3>3. QED BY <1>1, <3>1, <3>2 DEF PassedInv
  <2>3. QED BY <1>3, <2>1, <2>2 DEF Repeated
<1>4. ASSUME Recorded(Key(Item)) PROVE Repeated(pos)
  <2>1. CASE Key(Item) \in attested
    BY <1>1, <2>1 DEF Repeated
  <2>2. CASE Key(Item) \in tx.written
    <3>1. PICK n \in DOMAIN tx.items : n < pos /\ Key(tx.items[n]) = Key(Item)
      BY <2>2 DEF PassedInv
    <3>2. QED BY <1>1, <1>2, <3>1 DEF Repeated
  <2>3. QED BY <1>4, <2>1, <2>2 DEF Recorded
<1>5. QED BY <1>3, <1>4

(* A turn of the loop that settles its item and counts it as stored, with  *)
(* a new key, or as skipped.                                               *)
LEMMA TurnStep ==
    ASSUME IInv, PassedInv, Running, pos <= Len(tx.items), TypeOK',
           UNCHANGED <<storage, world>>, Settled(pos),
           tx'.kind = tx.kind, tx'.items = tx.items, tx'.sigs = tx.sigs,
           \/ /\ ~Recorded(Key(Item))
              /\ tx'.written = tx.written \cup {Key(Item)}
              /\ tx'.stored = tx.stored + 1 /\ tx'.skipped = tx.skipped
           \/ /\ Recorded(Key(Item)) /\ tx.kind = "attestBatch"
              /\ tx'.written = tx.written
              /\ tx'.stored = tx.stored /\ tx'.skipped = tx.skipped + 1
    PROVE  PassedInv'
<1>1. /\ pos \in Nat /\ pos' = pos + 1 /\ pos \in DOMAIN tx.items
      /\ Item = tx.items[pos] /\ DOMAIN tx.items \subseteq Nat
      /\ tx.stored \in Nat /\ tx.skipped \in Nat
  <2>1. /\ tx.stored \in Nat /\ tx.skipped \in Nat
        /\ tx.items \in Seq(Attestations)
    BY DEF IInv, TypeOK, Frames
  <2>2. pos \in DOMAIN tx.items
    BY ItemIsAttestation DEF IInv
  <2>3. pos \in Nat /\ pos' = pos + 1
    BY <2>1 DEF pos
  <2>4. QED BY <2>1, <2>2, <2>3 DEF Item
<1>2. \A a, sig : Authorised(a, sig)' <=> Authorised(a, sig)
  BY DEF Authorised, world
<1>3. ASSUME NEW n \in DOMAIN tx.items PROVE Settled(n) => Settled(n)'
  <2>1. Repeated(n) => Repeated(n)'
    BY DEF Repeated, storage
  <2>2. QED BY <1>2, <2>1 DEF Settled
<1>4. \A key : Recorded(key) \/ key = Key(Item) => Recorded(key)'
  BY DEF Recorded, storage
<1>5. ASSUME NEW n \in DOMAIN tx'.items, n < pos'
      PROVE  (Settled(n) /\ Recorded(Key(tx.items[n])))'
  <2>1. n \in DOMAIN tx.items /\ (n < pos \/ n = pos)
    BY <1>1, <1>5
  <2>2. Settled(n) /\ (Recorded(Key(tx.items[n])) \/ n = pos)
    BY <2>1 DEF PassedInv
  <2>3. QED BY <1>1, <1>3, <1>4, <2>1, <2>2
<1>6. ASSUME NEW key \in tx'.written
      PROVE  \E n \in DOMAIN tx'.items : n < pos' /\ Key(tx'.items[n]) = key
  <2>1. CASE key = Key(Item)
    BY <1>1, <2>1
  <2>2. CASE key \in tx.written
    <3>1. PICK n \in DOMAIN tx.items : n < pos /\ Key(tx.items[n]) = key
      BY <2>2 DEF PassedInv
    <3>2. n < pos'
      BY <1>1, <3>1
    <3>3. QED BY <3>1, <3>2
  <2>3. QED BY <1>6, <2>1, <2>2
<1>7. IsFiniteSet(tx'.written) /\ Cardinality(tx'.written) = tx'.stored
  <2>1. IsFiniteSet(tx.written) /\ Cardinality(tx.written) = tx.stored
    BY DEF PassedInv
  <2>2. ~Recorded(Key(Item)) => Key(Item) \notin tx.written
    BY DEF Recorded
  <2>3. QED BY <2>1, <2>2, FS_AddElement
<1>8. tx'.kind = "attestDoc" => Len(tx'.items) = 1 /\ tx'.skipped = 0
  BY DEF PassedInv
<1>9. \A key \in attested' \cup tx'.written : key.attester # ZeroAddress
  <2>1. Key(Item).attester # ZeroAddress
    BY <1>1 DEF Settled, Key
  <2>2. QED BY <2>1 DEF PassedInv, storage
<1>10. QED BY <1>5, <1>6, <1>7, <1>8, <1>9 DEF PassedInv

(* The frame of a transaction that begins, and the empty one.              *)
LEMMA FreshFrame ==
    ASSUME PassedInv, IInv', attested' \subseteq attested \cup tx.written,
           tx'.written = {}, tx'.stored = 0, tx'.skipped = 0,
           tx'.kind = "attestDoc" => Len(tx'.items) = 1
    PROVE  PassedInv'
<1>1. pos' = 1 /\ tx'.items \in Seq(Attestations)
  BY DEF pos, IInv, TypeOK, Frames
<1>2. \A n \in DOMAIN tx'.items : ~(n < pos')
  BY <1>1
<1>3. IsFiniteSet(tx'.written) /\ Cardinality(tx'.written) = 0
  BY FS_EmptySet
<1>4. \A key \in attested' \cup tx'.written : key.attester # ZeroAddress
  BY DEF PassedInv
<1>5. QED BY <1>2, <1>3, <1>4 DEF PassedInv

LEMMA PassedStep == IInv /\ IInv' /\ PassedInv /\ [Next]_vars => PassedInv'
<1> SUFFICES ASSUME IInv, IInv', PassedInv, [Next]_vars PROVE PassedInv'
  OBVIOUS
<1>1. \A kind, items, sigs, sender :
         Begin(kind, items, sigs, sender) /\ (kind = "attestDoc" => Len(items) = 1)
            => PassedInv'
  BY FreshFrame DEF Begin, Idle, storage
<1>2. tx' = Idle /\ attested' \subseteq attested \cup tx.written => PassedInv'
  BY FreshFrame DEF Idle
<1>3. CASE attestDoc
  BY <1>1, <1>3 DEF attestDoc
<1>4. CASE attestBatch
  BY <1>1, <1>2, <1>4 DEF attestBatch, RevertWith, storage
<1>5. CASE Store
  <2>1. Running /\ pos <= Len(tx.items) /\ UNCHANGED <<storage, world>>
    BY <1>5 DEF Store, AttestOne
  <2>2. /\ Item \in Attestations /\ tx.sigs[pos] \in Signatures
        /\ Item = tx.items[pos]
    BY <2>1, ItemIsAttestation DEF IInv, Item
  <2>3. Authorised(Item, tx.sigs[pos]) /\ ~Recorded(Key(Item))
    <3>1. PICK answer \in WalletAnswers(Item.attester, Digest(Item)) :
              Verdict(Item, tx.sigs[pos], answer) = "valid"
      BY <1>5 DEF Store, AttestOne
    <3>2. QED BY <2>2, <3>1, ValidIsAuthorised DEF IInv
  <2>4. Settled(pos)
    BY <2>2, <2>3 DEF Settled, Authorised
  <2>5. /\ tx'.kind = tx.kind /\ tx'.items = tx.items /\ tx'.sigs = tx.sigs
        /\ tx'.written = tx.written \cup {Key(Item)}
        /\ tx'.stored = tx.stored + 1 /\ tx'.skipped = tx.skipped
    BY <1>5 DEF Store, IInv, TypeOK, Frames
  <2>6. QED BY <2>1, <2>3, <2>4, <2>5, TurnStep DEF IInv
<1>6. CASE SkipDuplicate
  <2>1. Running /\ pos <= Len(tx.items) /\ UNCHANGED <<storage, world>>
    BY <1>6 DEF SkipDuplicate, AttestOne
  <2>2. /\ Item.attester # ZeroAddress /\ Recorded(Key(Item))
        /\ tx.kind = "attestBatch"
    BY <1>6 DEF SkipDuplicate, AttestOne, Verdict, RequireValidSignature
  <2>3. Settled(pos)
    BY <2>1, <2>2, RepeatedIsRecorded DEF Settled, Item, IInv
  <2>4. /\ tx'.kind = tx.kind /\ tx'.items = tx.items /\ tx'.sigs = tx.sigs
        /\ tx'.written = tx.written
        /\ tx'.stored = tx.stored /\ tx'.skipped = tx.skipped + 1
    BY <1>6 DEF SkipDuplicate, IInv, TypeOK, Frames
  <2>5. QED BY <2>1, <2>2, <2>3, <2>4, TurnStep DEF IInv
<1>7. CASE Revert \/ Return \/ OutOfGas
  BY <1>2, <1>7 DEF Revert, Return, OutOfGas, RevertWith, storage
<1>8. CASE Sign \/ Approve \/ SetCode \/ Tick \/ Fork
  BY <1>2, <1>8 DEF Sign, Approve, SetCode, Tick, Fork, IInv, FrameInv, storage
<1>9. CASE UNCHANGED vars
  BY <1>9 DEF vars, storage, world, PassedInv, Settled, Repeated, Authorised,
              Recorded, pos
<1>10. QED
  BY <1>3, <1>4, <1>5, <1>6, <1>7, <1>8, <1>9 DEF Next, Contract, World

LEMMA PassedInvariant == Spec => []PassedInv
<1>1. Init => PassedInv
  BY FS_EmptySet DEF Init, Idle, PassedInv, pos
<1>2. QED BY <1>1, PassedStep, Invariant, PTL DEF Spec

(* A transaction that ends, with gas enough, returns or reverts.           *)
LEMMA HowItEnds ==
    ASSUME IInv, [Next]_vars, Running, tx'.kind = "none", receipt' # "OutOfGas"
    PROVE  Return \/ Revert
<1>1. Store \/ SkipDuplicate => tx'.kind = tx.kind
  BY DEF Store, SkipDuplicate, IInv, TypeOK, Frames
<1>2. QED BY <1>1 DEF Running, Next, Contract, World, attestDoc, attestBatch, OutOfGas,
                      RevertWith, Sign, Approve, SetCode, Tick, Fork, vars

(* A transaction that reverts does so on an item that is not settled: a    *)
(* batch on one that is neither repeated nor authorised.                   *)
LEMMA RevertCause ==
    ASSUME IInv, PassedInv, Revert
    PROVE  /\ Running /\ pos \in DOMAIN tx.items
           /\ receipt' \in Reasons /\ UNCHANGED storage
           /\ ~Authorised(tx.items[pos], tx.sigs[pos]) \/ Recorded(Key(tx.items[pos]))
           /\ tx.kind = "attestBatch" => ~Settled(pos)
           /\ Recorded(Key(tx.items[pos])) /\ tx.items[pos].attester # ZeroAddress
                => receipt' = "DuplicateAttestation"
<1>1. PICK reason \in Reasons : AttestOne(reason) /\ RevertWith(reason)
  BY DEF Revert
<1>2. /\ Running /\ pos <= Len(tx.items)
      /\ receipt' = reason /\ UNCHANGED storage
  BY <1>1 DEF AttestOne, RevertWith
<1>3. /\ pos \in DOMAIN tx.items /\ Item \in Attestations
      /\ tx.sigs[pos] \in Signatures /\ Item = tx.items[pos]
  BY <1>2, ItemIsAttestation DEF IInv, Item
<1>4. PICK answer \in WalletAnswers(Item.attester, Digest(Item)) :
          Verdict(Item, tx.sigs[pos], answer) = reason
  BY <1>1 DEF AttestOne
<1>5. Authorised(Item, tx.sigs[pos]) => Recorded(Key(Item))
  BY <1>3, <1>4, AuthorisedIsValid DEF IInv, Reasons
<1>6. Recorded(Key(Item)) /\ Item.attester # ZeroAddress =>
        reason = "DuplicateAttestation" /\ tx.kind # "attestBatch"
  BY <1>4 DEF Verdict, Reasons
<1>7. tx.kind = "attestBatch" => ~Settled(pos)
  BY <1>2, <1>3, <1>5, <1>6, RepeatedIsRecorded DEF Settled, IInv
<1>8. QED BY <1>2, <1>3, <1>5, <1>6, <1>7

(* A batch succeeds exactly when each of its items repeats a claim or is   *)
(* authorised; then it records them all, counts the new and the repeated   *)
(* ones and emits an event for each new one, and otherwise it does nothing.*)
THEOREM BatchIsAtomic == Spec => BatchOutcome
<1> DEFINE New == {Key(tx.items[n]) : n \in DOMAIN tx.items} \ attested
           Ok == \A n \in DOMAIN tx.items :
                    /\ tx.items[n].attester # ZeroAddress
                    /\ Repeated(n) \/ Authorised(tx.items[n], tx.sigs[n])
<1>1. ASSUME IInv, PassedInv, [Next]_vars,
             tx.kind = "attestBatch", tx'.kind = "none", receipt' # "OutOfGas"
      PROVE  /\ (receipt' = "ok") <=> Ok
             /\ Ok => /\ attested' = attested \cup New
                      /\ tx.stored = Cardinality(New)
                      /\ tx.skipped = Len(tx.items) - tx.stored
                      /\ Len(logs') = Len(logs) + tx.stored
             /\ ~Ok => UNCHANGED storage
  <2>1. Running
    BY <1>1 DEF Running
  <2>2. CASE Return
    <3>1. /\ tx.stored \in Nat /\ tx.skipped \in Nat /\ Len(tx.items) \in Nat
          /\ DOMAIN tx.items = 1 .. Len(tx.items)
          /\ tx.stored + tx.skipped <= Len(tx.items)
          /\ Len(tx.emitted) = tx.stored /\ tx.emitted \in Seq(Events)
          /\ logs \in Seq(Events) /\ tx.written \cap attested = {}
      BY <1>1 DEF IInv, TypeOK, Frames, FrameInv
    <3>2. /\ pos = Len(tx.items) + 1 /\ tx.skipped = Len(tx.items) - tx.stored
          /\ attested' = attested \cup tx.written /\ receipt' = "ok"
          /\ logs' = logs \o tx.emitted
      <4>1. /\ tx.stored + tx.skipped + 1 > Len(tx.items)
            /\ attested' = attested \cup tx.written /\ receipt' = "ok"
            /\ logs' = logs \o tx.emitted
        BY <2>2 DEF Return, pos
      <4>2. /\ tx.stored \in Nat /\ tx.skipped \in Nat /\ Len(tx.items) \in Nat
            /\ tx.stored + tx.skipped <= Len(tx.items)
        BY <3>1
      <4>3. pos = Len(tx.items) + 1 /\ tx.skipped = Len(tx.items) - tx.stored
        <5>1. \A i, j, n \in Nat :
                 i + j <= n /\ i + j + 1 > n => i + j + 1 = n + 1 /\ j = n - i
          OBVIOUS
        <5>2. QED BY <4>1, <4>2, <5>1 DEF pos
      <4>4. QED BY <4>1, <4>3
    <3>3. \A n \in DOMAIN tx.items : Settled(n) /\ Recorded(Key(tx.items[n]))
      BY <1>1, <3>1, <3>2 DEF PassedInv
    <3>4. Ok
      BY <3>3 DEF Settled
    <3>5. tx.written = New
      <4>1. tx.written \subseteq New
        BY <1>1, <3>1 DEF PassedInv
      <4>2. New \subseteq tx.written
        BY <3>3 DEF Recorded
      <4>3. QED BY <4>1, <4>2
    <3>6. Cardinality(New) = tx.stored
      BY <1>1, <3>5 DEF PassedInv
    <3>7. Len(logs') = Len(logs) + tx.stored
      BY <3>1, <3>2
    <3> HIDE DEF New, Ok
    <3>8. QED BY <3>2, <3>4, <3>5, <3>6, <3>7
  <2>3. CASE Revert
    <3>1. ~Ok /\ receipt' # "ok" /\ UNCHANGED storage
      BY <1>1, <2>3, RevertCause DEF Settled, Reasons
    <3> HIDE DEF New, Ok
    <3>2. QED BY <3>1
  <2> HIDE DEF New, Ok
  <2>4. QED BY <1>1, <2>1, <2>2, <2>3, HowItEnds
<1>2. QED BY <1>1, Invariant, PassedInvariant, PTL DEF Spec, BatchOutcome

(* attestDoc records an authorised new claim and nothing else, and calls a *)
(* recorded one a duplicate whatever its deadline and signature are worth. *)
THEOREM SingleIsRecorded == Spec => SingleOutcome
<1> DEFINE key == Key(tx.items[1])
<1>1. ASSUME IInv, PassedInv, [Next]_vars,
             tx.kind = "attestDoc", tx'.kind = "none", receipt' # "OutOfGas"
      PROVE  IF key \in attested
             THEN receipt' = "DuplicateAttestation" /\ UNCHANGED storage
             ELSE /\ (receipt' = "ok") <=> Authorised(tx.items[1], tx.sigs[1])
                  /\ attested' = IF receipt' = "ok" THEN attested \cup {key}
                                 ELSE attested
  <2>1. /\ Running /\ tx.items \in Seq(Attestations) /\ Len(tx.items) = 1
        /\ tx.stored \in Nat /\ tx.skipped = 0 /\ tx.stored <= 1
        /\ DOMAIN tx.items = 1 .. 1
    BY <1>1 DEF Running, IInv, TypeOK, Frames, PassedInv
  <2>2. CASE Return
    <3>1. /\ pos = 2 /\ attested' = attested \cup tx.written /\ receipt' = "ok"
      BY <2>1, <2>2 DEF Return, pos
    <3>2. Settled(1) /\ Recorded(key)
      BY <1>1, <2>1, <3>1 DEF PassedInv
    <3>3. tx.written = {key}
      <4>1. tx.written \subseteq {key}
        BY <1>1, <2>1 DEF PassedInv
      <4>2. tx.stored = 1
        BY <2>1, <3>1 DEF pos
      <4>3. tx.written # {}
        BY <1>1, <4>2, FS_EmptySet DEF PassedInv
      <4>4. QED BY <4>1, <4>3
    <3>4. key \notin attested
      BY <1>1, <3>3 DEF IInv, FrameInv
    <3>5. Authorised(tx.items[1], tx.sigs[1])
      <4>1. ~Repeated(1)
        BY <3>4 DEF Repeated
      <4>2. QED BY <3>2, <4>1 DEF Settled
    <3> HIDE DEF key
    <3>6. QED BY <3>1, <3>3, <3>4, <3>5
  <2>3. CASE Revert
    <3>1. pos = 1 /\ tx.stored = 0
      BY <1>1, <2>1, <2>3, RevertCause DEF pos
    <3>2. tx.written = {}
      BY <1>1, <3>1, FS_EmptySet DEF PassedInv
    <3>3. Recorded(key) <=> key \in attested
      BY <3>2 DEF Recorded
    <3>4. receipt' # "ok" /\ attested' = attested /\ UNCHANGED storage
      BY <1>1, <2>3, RevertCause DEF Reasons, storage
    <3>5. key \notin attested => ~Authorised(tx.items[1], tx.sigs[1])
      BY <1>1, <2>3, <3>1, <3>3, RevertCause
    <3>6. key \in attested => receipt' = "DuplicateAttestation"
      <4>1. key \in attested => tx.items[1].attester # ZeroAddress
        BY <1>1 DEF PassedInv, Key
      <4>2. QED BY <1>1, <2>3, <3>1, <3>3, <4>1, RevertCause
    <3> HIDE DEF key
    <3>7. QED BY <3>3, <3>4, <3>5, <3>6
  <2> HIDE DEF key
  <2>4. QED BY <1>1, <2>1, <2>2, <2>3, HowItEnds
<1>2. QED BY <1>1, Invariant, PassedInvariant, PTL DEF Spec, SingleOutcome
=============================================================================
