--------------------------- MODULE MCStorageLock ---------------------------
(***************************************************************************)
(* Model checking of StorageLock: three windows are the smallest number    *)
(* where one dies and two contend for its lock file.                       *)
(***************************************************************************)
EXTENDS StorageLock, TLC

CONSTANTS w1, w2, w3
=============================================================================
