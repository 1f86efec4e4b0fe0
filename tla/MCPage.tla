------------------------------- MODULE MCPage -------------------------------
(***************************************************************************)
(* Model checking of Page: one collection and the global variables, each   *)
(* edited twice; one tab for a stored request and a draft, with a choice   *)
(* of two collections.                                                     *)
(***************************************************************************)
EXTENDS Page, TLC

CONSTANTS g, t1, r1, r2, c1, c2

MCHome == r1 :> c1
=============================================================================
