------------------------- MODULE MCAttestationFlow -------------------------
(* Instances of AttestationFlow for TLC.                                   *)
EXTENDS AttestationFlow, TLC

CONSTANTS k1, k2, a, b, f1, f2

(* One address on two chains; the other address has no contract anywhere.  *)
Registry == {<<1, a>>, <<2, a>>}

Symmetry == Permutations(Keys) \cup Permutations(SignedFiles)
=============================================================================
