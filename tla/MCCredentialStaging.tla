------------------------ MODULE MCCredentialStaging ------------------------
(***************************************************************************)
(* Model checking of CredentialStaging: one request has a credential, the  *)
(* other one has its credential in a header still.                         *)
(***************************************************************************)
EXTENDS CredentialStaging, TLC

CONSTANTS w1, w2, q1, q2, s1, s2, s3

CredentialAndHeader == {[r \in Requests |-> IF r = q1 THEN s1 ELSE "header"]}

\* What the initial document leaves interchangeable.
Symmetry == Permutations(Windows) \cup Permutations(Refs \ {s1})
=============================================================================
