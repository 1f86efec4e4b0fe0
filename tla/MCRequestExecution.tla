------------------------- MODULE MCRequestExecution -------------------------
(***************************************************************************)
(* Model checking of RequestExecution: two tabs compete for the one body   *)
(* the host keeps, and two executions let one tab send again while its     *)
(* first execution is still under way in the host.                         *)
(***************************************************************************)
EXTENDS RequestExecution, TLC

CONSTANTS t1, t2, e1, e2

Symmetry == Permutations(Tabs) \cup Permutations(Executions)
=============================================================================
