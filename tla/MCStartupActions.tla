-------------------------- MODULE MCStartupActions --------------------------
(***************************************************************************)
(* Model checking of StartupActions: two actions are enough for one to be  *)
(* sent while another waits, and the third view replaces one that itself   *)
(* replaced another.                                                       *)
(***************************************************************************)
EXTENDS StartupActions, TLC

CONSTANTS a1, a2
=============================================================================
