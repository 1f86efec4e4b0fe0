----------------------------- MODULE MCLibrary -----------------------------
(***************************************************************************)
(* Model checking of Library: two environments and one file with two       *)
(* contents; three previews of a Postman export; four responses of two     *)
(* requests, kept two at a time.                                           *)
(***************************************************************************)
EXTENDS Library, TLC

CONSTANTS e1, e2, v1, v2

MCSymmetry == Permutations({e1, e2}) \cup Permutations({v1, v2})
=============================================================================
