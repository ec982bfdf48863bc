------------------------ MODULE AttestationFlowProofs ------------------------
(***************************************************************************)
(* What AttestationFlow promises, proved for all keys, files, deployments  *)
(* and numbers of preparations.                                            *)
(*                                                                         *)
(* Flow follows an artifact through the files: what the prepared file, the *)
(* signer and the signed files hold was asked for, and a signature in a    *)
(* file is over the artifact next to it.  What the contract records is     *)
(* what the signature of an item is over, so it was asked for as well.     *)
(*                                                                         *)
(* Typed adds the types; Registered that what was prepared without an      *)
(* override names a deployment; Compared that an artifact whose wallet was *)
(* compared is signed by its attester.  With them the last three theorems  *)
(* look at all submissions a state allows: of a claim that a transaction   *)
(* repeats it is the first copy that counts (lemma First).                 *)
(***************************************************************************)
EXTENDS AttestationFlow, FiniteSetTheorems, TLAPS

Signers == [at : {"address", "sign"}, wallet : Keys \cup {Keystore},
            compared : BOOLEAN, prepared : asked]

OfOne(artifact) ==
    artifact.signature.data = artifact.prepared /\ artifact.prepared \in asked

Flow ==
    /\ prepared # Nothing => prepared \in asked
    /\ signer = NoSigner \/ signer \in Signers
    /\ signed = [f \in SignedFiles |-> signed[f]]
    /\ \A f \in SignedFiles : signed[f] # Nothing => OfOne(signed[f])
    /\ records \subseteq asked

LEMMA FlowInit == Init => Flow
BY DEF Init, Flow

LEMMA PrepareKeeps == ASSUME Flow, Prepare PROVE Flow'
<1>1. asked \subseteq asked' /\ (prepared' # Nothing => prepared' \in asked')
  BY DEF Prepare
<1>2. signer' = signer /\ signed' = signed /\ records' = records
  BY DEF Prepare, signVars
<1>3. signer' = NoSigner \/ signer' \in Signers'
  BY <1>1, <1>2 DEF Flow, Signers, NoSigner
<1>4. QED BY <1>1, <1>2, <1>3 DEF Flow, OfOne

LEMMA ReadKeeps == ASSUME Flow, Read PROVE Flow'
<1>1. asked' = asked /\ prepared' = prepared /\ signed' = signed /\ records' = records
  BY DEF Read, prepareVars
<1>2. signer' \in Signers
  <2>1. prepared \in asked
    BY DEF Flow, Read
  <2>2. PICK wallet \in Keys \cup {Keystore}, at \in {"address", "sign"} :
           signer' = [NoSigner EXCEPT !.at = at, !.wallet = wallet, !.prepared = prepared]
    BY DEF Read
  <2>3. QED BY <2>1, <2>2 DEF Signers, NoSigner
<1>3. Signers' = Signers
  BY <1>1 DEF Signers
<1>4. QED BY <1>1, <1>2, <1>3 DEF Flow, OfOne

LEMMA CheckAddressKeeps == ASSUME Flow, CheckAddress PROVE Flow'
<1>1. asked' = asked /\ prepared' = prepared /\ signed' = signed /\ records' = records
  BY DEF CheckAddress, CheckAddressAgainst, prepareVars
<1>2. signer \in Signers
  BY DEF Flow, NoSigner, CheckAddress, CheckAddressAgainst
<1>3. signer' = [signer EXCEPT !.at = "sign", !.compared = signer.wallet # Keystore]
  BY DEF CheckAddress, CheckAddressAgainst
<1>4. signer' \in Signers
  BY <1>2, <1>3 DEF Signers
<1>5. Signers' = Signers
  BY <1>1 DEF Signers
<1>6. QED BY <1>1, <1>4, <1>5 DEF Flow, OfOne

LEMMA SignKeeps == ASSUME Flow, Sign PROVE Flow'
<1>1. asked' = asked /\ prepared' = prepared /\ signer' = NoSigner /\ records' = records
  BY DEF Sign, SignInto, prepareVars
<1>2. signer \in Signers
  BY DEF Flow, NoSigner, Sign, SignInto
<1>3. PICK file \in SignedFiles, key \in KeysOf(signer.wallet) :
         \/ signed' = [signed EXCEPT ![file] = Nothing]
         \/ signed' = [signed EXCEPT ![file] =
               [prepared |-> signer.prepared,
                signature |-> [key |-> key, data |-> signer.prepared],
                compared |-> signer.compared]]
  BY DEF Sign, SignInto
<1>4. \A f \in SignedFiles : signed'[f] # Nothing => OfOne(signed'[f])
  BY <1>2, <1>3 DEF Flow, OfOne, Signers
<1>5. signed' = [f \in SignedFiles |-> signed'[f]]
  BY <1>3 DEF Flow
<1>6. QED BY <1>1, <1>4, <1>5 DEF Flow, OfOne

(* A transaction that the script may send: signed artifacts in some order, *)
(* the address given or the only one they name, attestDoc for one item.    *)
Sends(tx, n, address) ==
    /\ n \in Nat \ {0}
    /\ tx.items \in [1 .. n -> {signed[f] : f \in SignedFiles} \ {Nothing}]
    /\ tx.chain \in Chains
    /\ tx.contract \in Targets(Range(tx.items), address)
    /\ tx.explicit = (address # Nothing)
    /\ tx.batch \/ n = 1

LEMMA SubmissionIsSent ==
    ASSUME NEW tx \in Submissions
    PROVE  \E n \in Nat \ {0}, address \in Contracts \cup {Nothing} : Sends(tx, n, address)
<1> DEFINE artifacts == {signed[f] : f \in SignedFiles} \ {Nothing}
           lists == UNION {[1 .. n -> artifacts] : n \in 1 .. Cardinality(SignedFiles)}
           sending(items, address, batch) ==
             [chain : Chains, contract : Targets(Range(items), address),
              explicit : {address # Nothing}, batch : {ToBatch(items, batch)}, items : {items}]
<1>1. PICK items \in lists, address \in Contracts \cup {Nothing}, batch \in BOOLEAN :
         tx \in sending(items, address, batch)
  <2>1. Submissions = UNION {sending(items, address, batch) :
          items \in lists, address \in Contracts \cup {Nothing}, batch \in BOOLEAN}
    BY DEF Submissions
  <2> HIDE DEF lists, sending
  <2>2. QED BY <2>1
<1>2. PICK n \in 1 .. Cardinality(SignedFiles) : items \in [1 .. n -> artifacts]
  BY <1>1
<1>3. n \in Nat \ {0}
  BY <1>2
<1>4. tx.items = items /\ tx.chain \in Chains /\ tx.contract \in Targets(Range(items), address)
  BY <1>1
<1>5. tx.explicit = (address # Nothing)
  BY <1>1
<1>6. tx.batch = ToBatch(items, batch)
  BY <1>1
<1>7. ToBatch(items, batch) \/ n = 1
  <2>1. Len(items) = n
    BY <1>2, <1>3
  <2>2. QED BY <2>1 DEF ToBatch
<1>8. tx.batch \/ n = 1
  BY <1>6, <1>7
<1>9. Sends(tx, n, address)
  BY <1>2, <1>3, <1>4, <1>5, <1>8 DEF Sends
<1>10. QED BY <1>3, <1>9

(* The items of a submission are artifacts of signed files.                *)
LEMMA SubmittedItems ==
    ASSUME NEW tx \in Submissions, NEW i \in DOMAIN tx.items
    PROVE  \E f \in SignedFiles : signed[f] # Nothing /\ tx.items[i] = signed[f]
BY SubmissionIsSent DEF Sends

LEMMA SubmitKeeps == ASSUME Flow, Submit PROVE Flow'
<1>1. UNCHANGED <<asked, prepared, signer, signed>>
  BY DEF Submit, prepareVars, signVars
<1>2. PICK tx \in Submissions : records' \subseteq records \cup New(tx)
  BY DEF Submit, RecordsAfter
<1>3. New(tx) \subseteq asked
  <2> SUFFICES ASSUME NEW i \in DOMAIN tx.items, Valid(tx, tx.items[i])
               PROVE  Recording(tx, tx.items[i]) \in asked
    BY DEF New
  <2>1. PICK f \in SignedFiles : signed[f] # Nothing /\ tx.items[i] = signed[f]
    BY SubmittedItems
  <2>2. OfOne(tx.items[i])
    BY <2>1 DEF Flow
  <2>3. QED BY <2>2 DEF OfOne, Valid
<1>4. QED BY <1>1, <1>2, <1>3 DEF Flow, OfOne, Signers

LEMMA FlowStep == ASSUME Flow, [Next]_vars PROVE Flow'
<1>1. CASE EndSigner
  BY <1>1 DEF EndSigner, Flow, OfOne, prepareVars
<1>2. CASE Tick
  BY <1>2 DEF Tick, Flow, OfOne, Signers, prepareVars, signVars
<1>3. CASE UNCHANGED vars
  BY <1>3 DEF vars, Flow, OfOne, Signers, prepareVars, signVars
<1>4. QED
  BY <1>1, <1>2, <1>3, PrepareKeeps, ReadKeeps, CheckAddressKeeps, SignKeeps, SubmitKeeps
     DEF Next

LEMMA FlowAlways == Spec => []Flow
BY FlowInit, FlowStep, PTL DEF Spec

(* A signature is stored with the artifact it is over, whoever writes the  *)
(* prepared file while sign_attestation.py runs.                           *)
THEOREM OfOnePrepared == Spec => []SignedIsOfOnePrepared
<1>1. Flow => SignedIsOfOnePrepared
  BY DEF Flow, OfOne, SignedIsOfOnePrepared
<1>2. QED BY <1>1, FlowAlways, PTL

(* What a contract records was prepared for it, whatever submit_attestation *)
(* is told to send and where.                                              *)
THEOREM Recorded == Spec => []RecordedAsPrepared
<1>1. Flow => RecordedAsPrepared
  BY DEF Flow, RecordedAsPrepared
<1>2. QED BY <1>1, FlowAlways, PTL

-----------------------------------------------------------------------------
(* Types.  What was prepared is typed data, and what is in the files and   *)
(* on the chains was prepared, by Flow; so there are few things to follow. *)

Typed ==
    /\ now \in 0 .. MaxTime /\ asked \subseteq TypedData
    /\ \A f \in SignedFiles : signed[f] # Nothing => signed[f] \in Artifacts
    /\ signer # NoSigner => signer.wallet \in Keys \cup {Keystore}

LEMMA TypedInit == Init => Typed
BY FlowAssumption DEF Init, Typed

LEMMA PreparedIsTyped == ASSUME Prepare, asked \subseteq TypedData PROVE asked' \subseteq TypedData
<1>1. PICK registry \in Deployed, chain_id \in Chains \cup {Nothing},
           address \in Contracts \cup {Nothing}, attester \in Keys, doc \in Docs,
           deadline \in Deadlines :
         asked' = asked \cup {[chain |-> Default(chain_id, registry[1]),
                               contract |-> Default(address, registry[2]),
                               message |-> [attester |-> attester, doc |-> doc,
                                            deadline |-> deadline]]}
  BY DEF Prepare
<1>2. registry[1] \in Chains /\ registry[2] \in Contracts /\ deadline \in Nat
  BY FlowAssumption
<1>3. Default(chain_id, registry[1]) \in Chains /\ Default(address, registry[2]) \in Contracts
  BY <1>2 DEF Default
<1>4. QED BY <1>1, <1>2, <1>3 DEF TypedData, Attestations

LEMMA SignedIsTyped ==
    ASSUME Flow, Typed, Sign
    PROVE  \A f \in SignedFiles : signed'[f] # Nothing => signed'[f] \in Artifacts
<1>1. signer \in Signers /\ signer # NoSigner
  BY DEF Flow, NoSigner, Sign, SignInto
<1>2. PICK file \in SignedFiles, key \in KeysOf(signer.wallet) :
         \/ signed' = [signed EXCEPT ![file] = Nothing]
         \/ signed' = [signed EXCEPT ![file] =
               [prepared |-> signer.prepared,
                signature |-> [key |-> key, data |-> signer.prepared],
                compared |-> signer.compared]]
  BY DEF Sign, SignInto
<1>3. key \in Keys
  BY <1>1, <1>2 DEF Typed, KeysOf
<1>4. signer.prepared \in TypedData /\ signer.compared \in BOOLEAN
  BY <1>1 DEF Typed, Signers
<1>5. [prepared |-> signer.prepared, signature |-> [key |-> key, data |-> signer.prepared],
       compared |-> signer.compared] \in Artifacts
  BY <1>3, <1>4 DEF Artifacts, Signatures
<1>6. QED BY <1>2, <1>5 DEF Typed, Flow

LEMMA TypedStep == ASSUME Flow, Typed, [Next]_vars PROVE Typed'
<1>1. CASE Prepare
  <2>1. now' = now /\ signed' = signed /\ signer' = signer
    BY <1>1 DEF Prepare, signVars
  <2>2. QED BY <1>1, <2>1, PreparedIsTyped DEF Typed, NoSigner
<1>2. CASE Read
  <2>1. now' = now /\ asked' = asked /\ signed' = signed
    BY <1>2 DEF Read, prepareVars
  <2>2. signer'.wallet \in Keys \cup {Keystore}
    BY <1>2 DEF Read, NoSigner
  <2>3. QED BY <2>1, <2>2 DEF Typed
<1>3. CASE CheckAddress
  <2>1. now' = now /\ asked' = asked /\ signed' = signed
    BY <1>3 DEF CheckAddress, CheckAddressAgainst, prepareVars
  <2>2. signer # NoSigner /\ signer \in Signers
    BY <1>3 DEF Flow, NoSigner, CheckAddress, CheckAddressAgainst
  <2>3. signer'.wallet = signer.wallet
    BY <1>3, <2>2 DEF CheckAddress, CheckAddressAgainst, Signers
  <2>4. QED BY <2>1, <2>2, <2>3 DEF Typed
<1>4. CASE Sign
  <2>1. now' = now /\ asked' = asked /\ signer' = NoSigner
    BY <1>4 DEF Sign, SignInto, prepareVars
  <2>2. QED BY <1>4, <2>1, SignedIsTyped DEF Typed, NoSigner
<1>5. CASE EndSigner
  BY <1>5 DEF EndSigner, Typed, prepareVars, NoSigner
<1>6. CASE Submit
  BY <1>6 DEF Submit, Typed, prepareVars, signVars, NoSigner
<1>7. CASE Tick
  BY <1>7, FlowAssumption DEF Tick, Typed, prepareVars, signVars, NoSigner
<1>8. CASE UNCHANGED vars
  BY <1>8 DEF vars, Typed, prepareVars, signVars, NoSigner
<1>9. QED
  BY <1>1, <1>2, <1>3, <1>4, <1>5, <1>6, <1>7, <1>8 DEF Next

LEMMA TypedAlways == Spec => []Typed
<1>1. Flow /\ Typed /\ [Next]_vars => Typed'
  BY TypedStep
<1>2. QED BY <1>1, TypedInit, FlowAlways, PTL DEF Spec

LEMMA SubmissionsAreTyped ==
    ASSUME Typed, NEW tx \in Submissions
    PROVE  IsTx(tx)
<1>1. PICK n \in Nat \ {0}, address \in Contracts \cup {Nothing} : Sends(tx, n, address)
  BY SubmissionIsSent
<1>2. \A i \in DOMAIN tx.items : tx.items[i] \in Artifacts
  BY <1>1 DEF Sends, Typed
<1>3. Len(tx.items) = n
  BY <1>1 DEF Sends
<1>4. tx.batch \/ Len(tx.items) = 1
  BY <1>1, <1>3 DEF Sends
<1>5. tx.explicit \in BOOLEAN
  BY <1>1 DEF Sends
<1>6. tx.contract \in Contracts
  <2>1. CASE address # Nothing
    BY <1>1, <2>1 DEF Sends, Targets
  <2>2. CASE address = Nothing
    <3>1. tx.contract \in {a.prepared.contract : a \in Range(tx.items)}
      BY <1>1, <2>2 DEF Sends, Targets
    <3>2. PICK i \in DOMAIN tx.items : tx.contract = tx.items[i].prepared.contract
      BY <3>1 DEF Range
    <3>3. QED BY <1>2, <3>2 DEF Artifacts, TypedData
  <2>3. QED BY <2>1, <2>2
<1>7. tx.chain \in Chains
  BY <1>1 DEF Sends
<1>8. QED BY <1>2, <1>4, <1>5, <1>6, <1>7 DEF IsTx

(* An artifact of the registry names a deployment.                         *)
Registered ==
    /\ registered \subseteq asked
    /\ \A data \in registered : <<data.chain, data.contract>> \in Deployed

LEMMA RegisteredInit == Init => Registered
BY DEF Init, Registered

LEMMA PrepareRegisters == ASSUME Registered, Prepare PROVE Registered'
<1>1. PICK registry \in Deployed, chain_id \in Chains \cup {Nothing},
           address \in Contracts \cup {Nothing}, attester \in Keys, doc \in Docs,
           deadline \in Deadlines :
         LET artifact == [chain |-> Default(chain_id, registry[1]),
                          contract |-> Default(address, registry[2]),
                          message |-> [attester |-> attester, doc |-> doc,
                                       deadline |-> deadline]]
         IN  /\ asked' = asked \cup {artifact}
             /\ registered' = registered \cup
                   {x \in {artifact} : chain_id = Nothing /\ address = Nothing}
  BY DEF Prepare
<1>2. registry = <<registry[1], registry[2]>>
  BY FlowAssumption
<1>3. ASSUME chain_id = Nothing, address = Nothing
      PROVE  <<Default(chain_id, registry[1]), Default(address, registry[2])>> \in Deployed
  BY <1>2, <1>3 DEF Default
<1>4. QED BY <1>1, <1>3 DEF Registered

LEMMA RegisteredStep == ASSUME Registered, [Next]_vars PROVE Registered'
<1>1. CASE Prepare
  BY <1>1, PrepareRegisters
<1>2. CASE UNCHANGED <<asked, registered>>
  BY <1>2 DEF Registered
<1>3. Next => Prepare \/ UNCHANGED <<asked, registered>>
  BY DEF Next, Read, CheckAddress, CheckAddressAgainst, Sign, SignInto, EndSigner, Submit,
         Tick, prepareVars
<1>4. QED BY <1>1, <1>2, <1>3 DEF vars, prepareVars

LEMMA RegisteredAlways == Spec => []Registered
BY RegisteredInit, RegisteredStep, PTL DEF Spec

(* Every variable has its type, whichever files are written over, and what *)
(* may be submitted is well-formed: attestDoc is called with one item.     *)
THEOREM TypeCorrect == Spec => []TypeOK
<1>1. Flow /\ Typed /\ registered \subseteq asked => TypeOK
  <2> SUFFICES ASSUME Flow, Typed, registered \subseteq asked PROVE TypeOK
    OBVIOUS
  <2>1. \A tx \in Submissions : IsTx(tx)
    BY SubmissionsAreTyped
  <2>2. signed \in [SignedFiles -> Artifacts \cup {Nothing}]
    <3>1. signed = [f \in SignedFiles |-> signed[f]]
      BY DEF Flow
    <3>2. QED BY <3>1 DEF Typed
  <2>3. signer.at \in {"idle", "address", "sign"}
    BY DEF Flow, Signers, NoSigner
  <2>4. QED BY <2>1, <2>2, <2>3 DEF TypeOK, Typed, Flow
<1>2. Registered => registered \subseteq asked
  BY DEF Registered
<1>3. QED BY <1>1, <1>2, FlowAlways, TypedAlways, RegisteredAlways, PTL

-----------------------------------------------------------------------------
(* Success means a record.                                                 *)

(* Every set of positions has a first one.                                 *)
LEMMA First ==
    ASSUME NEW T, T \subseteq Nat, T # {}
    PROVE  \E x \in T : \A y \in T : x <= y
<1> DEFINE below(x) == 0 .. x - 1
           belows == {below(x) : x \in T}
<1>1. belows \subseteq FiniteSubsetsOf(Nat)
  <2> SUFFICES ASSUME NEW x \in T PROVE below(x) \in FiniteSubsetsOf(Nat)
    OBVIOUS
  <2>1. x \in Nat /\ below(x) \subseteq Nat
    OBVIOUS
  <2>2. IsFiniteSet(below(x))
    BY <2>1, FS_Interval
  <2>3. QED BY <2>1, <2>2 DEF FiniteSubsetsOf
<1>2. \E b \in belows : \A c \in belows : <<c, b>> \notin StrictSubsetOrdering(Nat)
  <2>1. belows # {}
    OBVIOUS
  <2> HIDE DEF belows
  <2>2. QED BY <1>1, <2>1, FS_StrictSubsetOrderingWellFounded, WFMin
<1>3. PICK x \in T : \A y \in T : <<below(y), below(x)>> \notin StrictSubsetOrdering(Nat)
  BY <1>2
<1>4. ASSUME NEW y \in T, y < x PROVE FALSE
  <2>1. x \in Nat /\ y \in Nat
    OBVIOUS
  <2>2. below(y) \in SUBSET Nat /\ below(x) \in SUBSET Nat
    BY <2>1
  <2>3. below(y) \subseteq below(x) /\ y \in below(x) /\ y \notin below(y)
    BY <1>4, <2>1
  <2>4. <<below(y), below(x)>> \in StrictSubsetOrdering(Nat)
    BY <2>2, <2>3 DEF StrictSubsetOrdering
  <2>5. QED BY <1>3, <2>4
<1>5. QED BY <1>4

LEMMA AcceptedIsRecorded ==
    ASSUME NEW tx \in Submissions, Accepted(tx), NEW i \in DOMAIN tx.items
    PROVE  \E r \in records \cup New(tx) :
              /\ r.chain = tx.chain /\ r.contract = tx.contract
              /\ <<r.message.attester, r.message.doc>> = Claim(tx.items[i])
<1>1. PICK n \in Nat \ {0}, address \in Contracts \cup {Nothing} : Sends(tx, n, address)
  BY SubmissionIsSent
<1>2. DOMAIN tx.items = 1 .. n
  BY <1>1 DEF Sends
<1> DEFINE same == {j \in 1 .. n : Claim(tx.items[j]) = Claim(tx.items[i])}
<1>3. PICK k \in same : \A j \in same : k <= j
  <2>1. same \subseteq Nat /\ i \in same
    BY <1>2
  <2> HIDE DEF same
  <2>2. QED BY <2>1, First
<1>4. ~ \E j \in 1 .. k - 1 : Claim(tx.items[j]) = Claim(tx.items[k])
  BY <1>2, <1>3
<1>5. Seen(tx, k) \/ Valid(tx, tx.items[k])
  <2>1. CASE tx.batch
    BY <1>2, <1>3, <2>1 DEF Accepted
  <2>2. CASE ~tx.batch
    BY <1>1, <1>2, <1>3, <2>2 DEF Accepted, Sends
  <2>3. QED BY <2>1, <2>2
<1>6. CASE Seen(tx, k)
  <2>1. PICK r \in records : /\ r.chain = tx.chain /\ r.contract = tx.contract
                             /\ <<r.message.attester, r.message.doc>> = Claim(tx.items[k])
    BY <1>4, <1>6 DEF Seen
  <2>2. QED BY <1>3, <2>1
<1>7. CASE ~Seen(tx, k)
  <2> DEFINE r == Recording(tx, tx.items[k])
  <2>1. r \in New(tx)
    BY <1>2, <1>3, <1>5, <1>7 DEF New
  <2>2. r.chain = tx.chain /\ r.contract = tx.contract
        /\ <<r.message.attester, r.message.doc>> = Claim(tx.items[k])
    BY DEF Recording, Claim
  <2>3. QED BY <1>3, <2>1, <2>2
<1>8. QED BY <1>6, <1>7

(* Without an address given, a submission goes where its items name.       *)
LEMMA NamedIsTarget ==
    ASSUME NEW tx \in Submissions, ~tx.explicit, NEW i \in DOMAIN tx.items
    PROVE  tx.contract = tx.items[i].prepared.contract
<1>1. PICK n \in Nat \ {0}, address \in Contracts \cup {Nothing} : Sends(tx, n, address)
  BY SubmissionIsSent
<1>2. address = Nothing /\ DOMAIN tx.items = 1 .. n
  BY <1>1 DEF Sends
<1> DEFINE named == {a.prepared.contract : a \in Range(tx.items)}
           contract == [j \in 1 .. n |-> tx.items[j].prepared.contract]
<1>3. named = {contract[j] : j \in 1 .. n}
  BY <1>2 DEF Range
<1>4. IsFiniteSet(named)
  <2>1. contract \in Surjection(1 .. n, named)
    BY <1>3 DEF Surjection
  <2>2. IsFiniteSet(1 .. n)
    BY FS_Interval
  <2>3. QED BY <2>1, <2>2, FS_Surjection
<1>5. Cardinality(named) = 1 /\ tx.contract \in named
  BY <1>1, <1>2 DEF Sends, Targets
<1>6. PICK c : named = {c}
  BY <1>4, <1>5, FS_Singleton
<1>7. tx.items[i].prepared.contract \in named
  BY <1>2 DEF Range
<1>8. QED BY <1>5, <1>6, <1>7

(* A transaction that succeeds leaves a record of each claim in it that    *)
(* was prepared for a deployment of the registry and goes there.  By the   *)
(* rule for the contract's address an item goes to the contract it names;  *)
(* with the registry's own values there is one; and of the items of a      *)
(* claim the first is recorded unless a record is there.                   *)
THEOREM SuccessIsRecord == Spec => []SuccessMeansRecorded
<1>1. Registered => SuccessMeansRecorded
  <2> SUFFICES ASSUME Registered, NEW tx \in Submissions, Succeeds(tx),
                      NEW i \in DOMAIN tx.items,
                      tx.items[i].prepared \in registered,
                      tx.explicit => tx.contract = tx.items[i].prepared.contract,
                      tx.chain = tx.items[i].prepared.chain
               PROVE  \E r \in RecordsAfter(tx) :
                         /\ r.chain = tx.items[i].prepared.chain
                         /\ r.contract = tx.items[i].prepared.contract
                         /\ <<r.message.attester, r.message.doc>> = Claim(tx.items[i])
    BY DEF SuccessMeansRecorded
  <2>1. tx.contract = tx.items[i].prepared.contract
    BY NamedIsTarget
  <2>2. Deploys(tx)
    BY <2>1 DEF Registered, Deploys
  <2>3. Accepted(tx) /\ RecordsAfter(tx) = records \cup New(tx)
    BY <2>2 DEF Succeeds, RecordsAfter
  <2>4. QED BY <2>1, <2>3, AcceptedIsRecorded
<1>2. QED BY <1>1, RegisteredAlways, PTL

-----------------------------------------------------------------------------
(* Refusals.  A wallet that was compared and cannot change is the          *)
(* attester's; so is the key of a signature made with it.                  *)

Compared ==
    /\ signer.compared => signer.wallet # Keystore
                          /\ signer.wallet = signer.prepared.message.attester
    /\ \A f \in SignedFiles : signed[f] # Nothing /\ signed[f].compared =>
          signed[f].signature.key = signed[f].prepared.message.attester

LEMMA ComparedInit == Init => Compared
BY DEF Init, Compared, NoSigner

LEMMA ComparedStep == ASSUME Flow, Compared, [Next]_vars PROVE Compared'
<1>1. CASE Prepare
  BY <1>1 DEF Prepare, signVars, Compared
<1>2. CASE Read
  BY <1>2 DEF Read, NoSigner, Compared
<1>3. CASE CheckAddress
  <2>1. signed' = signed /\ signer \in Signers
    BY <1>3 DEF Flow, NoSigner, CheckAddress, CheckAddressAgainst
  <2>2. /\ signer'.compared = (signer.wallet # Keystore)
        /\ signer'.wallet = signer.wallet /\ signer'.prepared = signer.prepared
    BY <1>3, <2>1 DEF CheckAddress, CheckAddressAgainst, Signers
  <2>3. signer.wallet # Keystore => signer.wallet = signer.prepared.message.attester
    BY <1>3 DEF CheckAddress, CheckAddressAgainst, KeysOf
  <2>4. QED BY <2>1, <2>2, <2>3 DEF Compared
<1>4. CASE Sign
  <2>1. signer \in Signers /\ signer' = NoSigner
    BY <1>4 DEF Flow, NoSigner, Sign, SignInto
  <2>2. PICK file \in SignedFiles, key \in KeysOf(signer.wallet) :
           \/ signed' = [signed EXCEPT ![file] = Nothing]
           \/ signed' = [signed EXCEPT ![file] =
                 [prepared |-> signer.prepared,
                  signature |-> [key |-> key, data |-> signer.prepared],
                  compared |-> signer.compared]]
    BY <1>4 DEF Sign, SignInto
  <2>3. signer.compared => key = signer.prepared.message.attester
    BY <2>2 DEF Compared, KeysOf
  <2>4. ASSUME NEW f \in SignedFiles, signed'[f] # Nothing, signed'[f].compared
        PROVE  signed'[f].signature.key = signed'[f].prepared.message.attester
    <3>1. CASE f # file
      BY <2>2, <2>4, <3>1 DEF Flow, Compared
    <3>2. CASE f = file
      BY <2>2, <2>3, <2>4, <3>2 DEF Flow
    <3>3. QED BY <3>1, <3>2
  <2>5. QED BY <2>1, <2>4 DEF Compared, NoSigner
<1>5. CASE EndSigner
  BY <1>5 DEF EndSigner, NoSigner, Compared
<1>6. CASE Submit
  BY <1>6 DEF Submit, signVars, Compared
<1>7. CASE Tick
  BY <1>7 DEF Tick, signVars, Compared
<1>8. CASE UNCHANGED vars
  BY <1>8 DEF vars, signVars, Compared
<1>9. QED
  BY <1>1, <1>2, <1>3, <1>4, <1>5, <1>6, <1>7, <1>8 DEF Next

LEMMA ComparedAlways == Spec => []Compared
<1>1. Flow /\ Compared /\ [Next]_vars => Compared'
  BY ComparedStep
<1>2. QED BY <1>1, ComparedInit, FlowAlways, PTL DEF Spec

LEMMA InvalidForCause ==
    ASSUME Flow, Typed, Compared, NEW tx \in Submissions, NEW i \in DOMAIN tx.items,
           ~Valid(tx, tx.items[i])
    PROVE  LET item == tx.items[i]
           IN  \/ tx.explicit /\ tx.contract # item.prepared.contract
               \/ tx.chain # item.prepared.chain
               \/ now > item.prepared.message.deadline
               \/ ~item.compared /\ item.signature.key # item.prepared.message.attester
<1> DEFINE item == tx.items[i]
<1>1. PICK f \in SignedFiles : signed[f] # Nothing /\ item = signed[f]
  BY SubmittedItems
<1>2. item \in Artifacts /\ item.signature.data = item.prepared
  BY <1>1 DEF Typed, Flow, OfOne
<1>3. item.compared => item.signature.key = item.prepared.message.attester
  BY <1>1 DEF Compared
<1>4. CASE ~(now <= item.prepared.message.deadline)
  <2>1. now \in Int /\ item.prepared.message.deadline \in Int
    BY <1>2 DEF Typed, Artifacts, TypedData, Attestations
  <2>2. now > item.prepared.message.deadline
    BY <1>4, <2>1
  <2>3. QED BY <2>2
<1>5. CASE item.signature.key # item.prepared.message.attester
  BY <1>3, <1>5
<1>6. CASE item.signature.data # Recording(tx, item)
  <2>1. item.prepared = [chain |-> item.prepared.chain, contract |-> item.prepared.contract,
                         message |-> item.prepared.message]
    BY <1>2 DEF Artifacts, TypedData
  <2>2. tx.chain # item.prepared.chain \/ tx.contract # item.prepared.contract
    BY <1>2, <1>6, <2>1 DEF Recording
  <2>3. QED BY <2>2, NamedIsTarget
<1>7. QED BY <1>4, <1>5, <1>6 DEF Valid

(* The contract refuses what the scripts send only for a cause outside     *)
(* them.  The theorem rests on the comparison of the wallet's address, on  *)
(* the rule for the contract's address, and on Flow for the digest.        *)
THEOREM RefusalHasCause == Spec => []RefusedForCause
<1>1. Flow /\ Typed /\ Compared => RefusedForCause
  <2> SUFFICES ASSUME Flow, Typed, Compared, NEW tx \in Submissions, ~Accepted(tx),
                      ~(~tx.batch /\ Seen(tx, 1))
               PROVE  \E i \in DOMAIN tx.items :
                         LET item == tx.items[i]
                         IN  \/ tx.explicit /\ tx.contract # item.prepared.contract
                             \/ tx.chain # item.prepared.chain
                             \/ now > item.prepared.message.deadline
                             \/ /\ ~item.compared
                                /\ item.signature.key # item.prepared.message.attester
    BY DEF RefusedForCause
  <2>1. \E i \in DOMAIN tx.items : ~Valid(tx, tx.items[i])
    <3>1. CASE tx.batch
      BY <3>1 DEF Accepted
    <3>2. CASE ~tx.batch
      <4>1. 1 \in DOMAIN tx.items
        BY SubmissionIsSent DEF Sends
      <4>2. QED BY <3>2, <4>1 DEF Accepted
    <3>3. QED BY <3>1, <3>2
  <2>2. QED BY <2>1, InvalidForCause
<1>2. QED BY <1>1, FlowAlways, TypedAlways, ComparedAlways, PTL
=============================================================================
