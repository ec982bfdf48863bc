-------------------------- MODULE AttestationFlow --------------------------
(***************************************************************************)
(* From a document to its record: scripts/prepare_attestation.py, then     *)
(* sign_attestation.py or reference/docchain/attestation.py with a wallet, *)
(* then submit_attestation.py, which share files and nothing else.         *)
(*                                                                         *)
(* A key stands for its address and hex text for its value.  write_json    *)
(* truncates a file before it fills it; what a reader finds in between, or *)
(* after a kill, does not parse and stops it, like a file that is not      *)
(* there: both are Nothing.  Of submit_attestation.py only the broadcast   *)
(* is an action: --dry-run and --no-send change nothing.                   *)
(***************************************************************************)
EXTENDS Integers, Functions, Sequences, FiniteSets

CONSTANTS
    Keys, Keystore, Docs, Chains, Contracts,
    Deployed,           \* <<chain, contract>> where there is a Doc Chain
    SignedFiles,        \* paths of signed artifacts
    Deadlines,          \* --deadline, or the time of preparing plus --ttl
    Nothing,            \* no argument; no file, or one that does not parse
    MaxTime, MaxAsked   \* bounds: the clock, preparations

ASSUME FlowAssumption ==
    /\ Keystore \notin Keys /\ Deployed \subseteq Chains \X Contracts
    /\ Deadlines \subseteq Nat /\ {MaxTime, MaxAsked} \subseteq Nat

VARIABLES
    now,                \* the clock, the chains' as well
    asked,              \* history: what was prepared, for which deployment
    registered,         \* history: what of it was for a deployment of the registry
    prepared,               \* the prepared file
    signer,             \* the process that signs
    signed,             \* the signed files
    records                 \* the events on the chains

prepareVars == <<asked, registered, prepared>>
signVars == <<signer, signed>>
vars == <<now, prepareVars, signVars, records>>

Attestations == [attester : Keys, doc : Docs, deadline : Nat]
TypedData == [chain : Chains, contract : Contracts, message : Attestations]
Signatures == [key : Keys, data : TypedData]

Default(argument, default) == IF argument = Nothing THEN default ELSE argument

-----------------------------------------------------------------------------
(* prepare_attestation: the typed data is the whole of the artifact, which *)
(* repeats its parts.  --chain-id and --contract-address (or the           *)
(* environment's DOCCHAIN_ADDRESS) each take precedence over the registry. *)
Prepare ==
    /\ \E registry \in Deployed, chain_id \in Chains \cup {Nothing},
          address \in Contracts \cup {Nothing}, attester \in Keys, doc \in Docs,
          deadline \in Deadlines :
          LET artifact == [chain |-> Default(chain_id, registry[1]),
                           contract |-> Default(address, registry[2]),
                           message |-> [attester |-> attester, doc |-> doc,
                                        deadline |-> deadline]]
          IN  /\ asked' = asked \cup {artifact} /\ prepared' \in {artifact, Nothing}
              /\ registered' = registered \cup
                    {x \in {artifact} : chain_id = Nothing /\ address = Nothing}
    /\ Cardinality(asked') <= MaxAsked
    /\ UNCHANGED <<now, signVars, records>>

-----------------------------------------------------------------------------
(* Signing.  A wallet is what the environment holds (a raw key, or a       *)
(* keystore as JSON) or the Keystore it names (a file or an account), which *)
(* others may replace and cast reads anew each time it is run.             *)

NoSigner == [at |-> "idle", wallet |-> Nothing, compared |-> FALSE, prepared |-> Nothing]

KeysOf(wallet) == IF wallet = Keystore THEN Keys ELSE {wallet}

(* sign_attestation.py takes a raw key and signs; sign_prepared_with_cast  *)
(* takes any wallet and begins with its address.                           *)
Read ==
    /\ signer = NoSigner /\ prepared # Nothing
    /\ \E wallet \in Keys \cup {Keystore}, at \in {"address", "sign"} :
          /\ at = "sign" => wallet # Keystore
          /\ signer' = [NoSigner EXCEPT !.at = at, !.wallet = wallet, !.prepared = prepared]
    /\ UNCHANGED <<now, prepareVars, signed, records>>

CheckAddressAgainst(keys) ==
    /\ signer.at = "address"
    /\ KeysOf(signer.wallet) \cap keys # {}
    /\ signer' = [signer EXCEPT !.at = "sign", !.compared = signer.wallet # Keystore]
    /\ UNCHANGED <<now, prepareVars, signed, records>>

(* Seeded fault: the wallet's address is not compared.                     *)
CheckNoAddress == CheckAddressAgainst(Keys)

(* The first run of cast: whose wallet is it?  (As history: was it one     *)
(* that cannot change any more?)                                           *)
CheckAddress == CheckAddressAgainst({signer.prepared.message.attester})

SignInto(file, artifact) ==
    /\ signer.at = "sign"
    /\ \E key \in KeysOf(signer.wallet) :
          signed' \in {[signed EXCEPT ![file] = content] : content \in {Nothing,
              [prepared |-> artifact, signature |-> [key |-> key, data |-> signer.prepared],
               compared |-> signer.compared]}}
    /\ signer' = NoSigner
    /\ UNCHANGED <<now, prepareVars, records>>

(* Seeded fault: the prepared file is read again for the signed artifact.  *)
SignAndReread == prepared # Nothing /\ \E file \in SignedFiles : SignInto(file, prepared)

(* The second run of cast; the signed artifact holds what was read.        *)
Sign == \E file \in SignedFiles : SignInto(file, signer.prepared)

(* The addresses differ, cast fails, or the process is killed.             *)
EndSigner ==
    /\ signer # NoSigner /\ signer' = NoSigner
    /\ UNCHANGED <<now, prepareVars, signed, records>>

-----------------------------------------------------------------------------
(* Submitting.                                                             *)

(* Seeded fault: artifacts of different contracts are not told apart.      *)
TargetsOfAny(artifacts, address) ==
    IF address # Nothing THEN {address} ELSE {a.prepared.contract : a \in artifacts}

(* An explicit address, or the one that all artifacts name.                *)
Targets(artifacts, address) ==
    LET named == {a.prepared.contract : a \in artifacts}
    IN  IF address # Nothing THEN {address} ELSE IF Cardinality(named) = 1 THEN named ELSE {}

(* Seeded fault: several artifacts may go to attestDoc.                    *)
ToBatchOnRequest(items, batch) == batch

(* attestBatch for several artifacts, and for one if --batch is given.     *)
ToBatch(items, batch) == Len(items) # 1 \/ batch

(* What submit_attestation.py may send as things stand.                    *)
Submissions ==
    LET artifacts == {signed[f] : f \in SignedFiles} \ {Nothing}
        lists == UNION {[1 .. n -> artifacts] : n \in 1 .. Cardinality(SignedFiles)}
        sending(items, address, batch) ==
            [chain : Chains, contract : Targets(Range(items), address),
             explicit : {address # Nothing}, batch : {ToBatch(items, batch)}, items : {items}]
    IN  UNION {sending(items, address, batch) :
            items \in lists, address \in Contracts \cup {Nothing}, batch \in BOOLEAN}

(* What the contract makes of an item (DocChain.tla has the details).      *)
Claim(item) == <<item.prepared.message.attester, item.prepared.message.doc>>

Seen(tx, i) ==
    \/ \E r \in records : r.chain = tx.chain /\ r.contract = tx.contract
                          /\ <<r.message.attester, r.message.doc>> = Claim(tx.items[i])
    \/ \E j \in 1 .. i - 1 : Claim(tx.items[j]) = Claim(tx.items[i])

Recording(tx, item) ==
    [chain |-> tx.chain, contract |-> tx.contract, message |-> item.prepared.message]

(* Seeded fault: the digest leaves out the domain.                         *)
ValidAnywhere(tx, item) ==
    /\ now <= item.prepared.message.deadline
    /\ item.signature.key = item.prepared.message.attester
    /\ item.signature.data.message = item.prepared.message

Valid(tx, item) ==
    /\ now <= item.prepared.message.deadline
    /\ item.signature.key = item.prepared.message.attester
    /\ item.signature.data = Recording(tx, item)

(* attestDoc refuses a duplicate, attestBatch skips it.                    *)
Accepted(tx) ==
    IF tx.batch
    THEN \A i \in DOMAIN tx.items : Seen(tx, i) \/ Valid(tx, tx.items[i])
    ELSE ~Seen(tx, 1) /\ Valid(tx, tx.items[1])

Deploys(tx) == <<tx.chain, tx.contract>> \in Deployed

New(tx) == {Recording(tx, tx.items[i]) :
               i \in {j \in DOMAIN tx.items : ~Seen(tx, j) /\ Valid(tx, tx.items[j])}}

(* What the courier is told, and the records there are then.  The scripts  *)
(* do not ask whether there is a contract at the address: a transaction to *)
(* where there is none succeeds, and changes nothing.                      *)
Succeeds(tx) == Deploys(tx) => Accepted(tx)

RecordsAfter(tx) == IF Deploys(tx) THEN records \cup New(tx) ELSE records

(* A transaction lands.  One that is lost or refused changes nothing; one  *)
(* that lands late could as well have been sent late, as nothing in it     *)
(* depends on the chain or the clock.                                      *)
Submit ==
    /\ \E tx \in Submissions : Succeeds(tx) /\ records' = RecordsAfter(tx)
    /\ UNCHANGED <<now, prepareVars, signVars>>

Tick == now < MaxTime /\ now' = now + 1 /\ UNCHANGED <<prepareVars, signVars, records>>

-----------------------------------------------------------------------------
Init ==
    /\ now = 0 /\ asked = {} /\ registered = {} /\ prepared = Nothing
    /\ signer = NoSigner /\ signed = [f \in SignedFiles |-> Nothing]
    /\ records = {}

Next == Prepare \/ Read \/ CheckAddress \/ Sign
        \/ EndSigner \/ Submit \/ Tick

Spec == Init /\ [][Next]_vars

-----------------------------------------------------------------------------
(* Properties.                                                             *)

Artifacts == [prepared : TypedData, signature : Signatures, compared : BOOLEAN]

IsTx(tx) ==
    /\ tx.chain \in Chains /\ tx.contract \in Contracts /\ tx.explicit \in BOOLEAN
    /\ \A i \in DOMAIN tx.items : tx.items[i] \in Artifacts
    /\ tx.batch \/ Len(tx.items) = 1

(* Every variable has its type, and attestDoc is called with one item.     *)
TypeOK ==
    /\ now \in 0 .. MaxTime /\ asked \subseteq TypedData /\ registered \subseteq asked
    /\ prepared \in TypedData \cup {Nothing}
    /\ signed \in [SignedFiles -> Artifacts \cup {Nothing}]
    /\ signer.at \in {"idle", "address", "sign"}
    /\ \A tx \in Submissions : IsTx(tx)
    /\ records \subseteq TypedData

(* A signed artifact is of one piece: its signature is over the typed data *)
(* of the artifact in it, though sign_attestation.py takes time and the    *)
(* prepared file it was given may be written again meanwhile.              *)
SignedIsOfOnePrepared ==
    \A f \in SignedFiles : signed[f] # Nothing =>
        signed[f].signature.data = signed[f].prepared

(* Whatever the environment overrides, wherever a transaction is sent, and *)
(* whichever files were written over in between: what is recorded with a   *)
(* contract was prepared for it, on that chain, in the same words.         *)
RecordedAsPrepared == records \subseteq asked

(* A courier may believe a success, although one without a contract looks  *)
(* like any other: each claim sent is recorded where its artifact was      *)
(* prepared for, be it by an earlier transaction, unless that artifact was *)
(* prepared with an override, the courier gave another address, or the RPC *)
(* endpoint is of another chain.  This is what the rule for the address of *)
(* several artifacts is for.                                               *)
SuccessMeansRecorded ==
    \A tx \in Submissions : Succeeds(tx) =>
        \A i \in DOMAIN tx.items :
            LET item == tx.items[i]
            IN  \/ item.prepared \notin registered
                \/ tx.explicit /\ tx.contract # item.prepared.contract
                \/ tx.chain # item.prepared.chain
                \/ \E r \in RecordsAfter(tx) :
                      /\ r.chain = item.prepared.chain
                      /\ r.contract = item.prepared.contract
                      /\ <<r.message.attester, r.message.doc>> = Claim(item)

(* What the scripts themselves decide never makes the contract refuse: if  *)
(* it does, the address was given, the RPC endpoint is of another chain,   *)
(* time has passed, a single claim was recorded before, or the wallet was  *)
(* one that nobody compared (sign_attestation.py) or that was replaced     *)
(* between the two runs of cast.                                           *)
RefusedForCause ==
    \A tx \in Submissions : Deploys(tx) /\ ~Accepted(tx) =>
        \/ ~tx.batch /\ Seen(tx, 1)
        \/ \E i \in DOMAIN tx.items :
             LET item == tx.items[i]
             IN  \/ tx.explicit /\ tx.contract # item.prepared.contract
                 \/ tx.chain # item.prepared.chain
                 \/ now > item.prepared.message.deadline
                 \/ ~item.compared /\ item.signature.key # item.prepared.message.attester
=============================================================================
