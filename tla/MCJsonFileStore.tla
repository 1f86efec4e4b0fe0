-------------------------- MODULE MCJsonFileStore --------------------------
(***************************************************************************)
(* Model checking of JsonFileStore: two windows are enough for one to work *)
(* from a state the other has replaced.  One kept backup is pruned by the  *)
(* second overwrite, two kept ones by the third.                           *)
(***************************************************************************)
EXTENDS JsonFileStore, TLC

CONSTANTS w1, w2

Symmetry == Permutations(Windows)

LegacyDoc == [kind |-> "legacy", rev |-> 0, data |-> 1]
OldDoc    == [kind |-> "outdated", rev |-> 1, data |-> 1]

VersionedOrNone == {Absent, OldDoc, Envelope(1, 1)}
LegacyOrVersioned == {LegacyDoc, Envelope(1, 1)}

DamageFaults == {"prune", "commit", "quarantine", "restore"}
=============================================================================
