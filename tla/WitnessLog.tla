----------------------------- MODULE WitnessLog -----------------------------
(***************************************************************************)
(* What the Doc Chain contract promises its readers: an append-only log of *)
(* publication claims in which a claim is witnessed at most once.  How a   *)
(* claim is authorised, and how several reach the log in one transaction,  *)
(* is left to DocChain.tla, which implements this specification.           *)
(***************************************************************************)
EXTENDS Naturals, SequencesExt

CONSTANT Claim          \* the claims that can be witnessed at all

VARIABLE record         \* the witnessed claims, oldest first

Init == record = << >>

(***************************************************************************)
(* One transaction witnesses one or more new claims.  The next log is any  *)
(* one that keeps every old entry at its place and repeats no claim; it is *)
(* written as a condition on record' so that it can be checked of a step   *)
(* without enumerating the logs.                                           *)
(***************************************************************************)
Witness ==
    /\ record' \in Seq(Claim)
    /\ Len(record) < Len(record')
    /\ \A i \in DOMAIN record : record'[i] = record[i]
    /\ IsInjective(record')

Next == Witness

Spec == Init /\ [][Next]_record
=============================================================================
