---------------------------- MODULE StorageLock ----------------------------
(***************************************************************************)
(* The lock file .storage.lock that serialises the JSON storage directory  *)
(* between VS Code windows: withLock, acquireLock, reclaimStaleLock and    *)
(* releaseLock of src/storage/JsonFileStore.ts.                            *)
(*                                                                         *)
(* A window is one extension-host process with one JsonFileStore, whose    *)
(* operationQueue runs one operation at a time, so a window has at most    *)
(* one locked operation.  A window that dies stays dead: a reopened window *)
(* is another process, with another pid, another element of Processes.     *)
(*                                                                         *)
(* A lock record holds the owner's pid and a random token.  A window draws *)
(* its next token only with a new exclusive create, when no file of its    *)
(* own is left, so a file carries a window's current token exactly when    *)
(* that window created it: the owner stands for both fields.               *)
(*                                                                         *)
(* Each await of the code is a place where other windows take steps.  The  *)
(* age test on the lock file (staleLockMs) and the acquisition deadline    *)
(* (lockTimeoutMs) depend on wall-clock time, so both outcomes are open    *)
(* whenever the code evaluates them.                                       *)
(***************************************************************************)
CONSTANTS
  Processes,    \* the processes that ever use the storage directory
  MayCrash,     \* the windows that may die at any step
  WriteFaults,  \* the windows whose write of the lock record may fail
  UnlinkFaults  \* the windows whose unlink of a lock file may fail

ASSUME WindowSets ==
  /\ MayCrash \subseteq Processes
  /\ WriteFaults \subseteq Processes
  /\ UnlinkFaults \subseteq Processes

(***************************************************************************)
(* The owner of a real lock file is a process, never "none".               *)
(***************************************************************************)
ASSUME NoneIsNoProcess == "none" \notin Processes

VARIABLES
  lockFile, \* NoFile, or the lock file: who created it, and whether its JSON
            \* record (pid and token) has been written
  pc,       \* where each window is in its locked operation
  orphans   \* history: windows that died while the lock file was theirs

lockVars == <<lockFile, pc, orphans>>

NoFile == [owner |-> "none", written |-> FALSE]

LockFile == [owner : Processes, written : BOOLEAN]

Locations == {"idle", "open", "write", "unlinkFailed", "critical",
              "release", "unlinkOwn", "inspect", "reclaim", "retry", "dead"}

LockTypeOK ==
  /\ lockFile \in LockFile \cup {NoFile}
  /\ pc \in [Processes -> Locations]
  /\ orphans \subseteq Processes

-----------------------------------------------------------------------------

Alive(w) == pc[w] # "dead"

Exists == lockFile # NoFile

Owns(w) == lockFile.owner = w

(***************************************************************************)
(* The file can be read and carries the token of this window's lock.       *)
(***************************************************************************)
HasToken(w) == Owns(w) /\ lockFile.written

Goto(w, l) == pc' = [pc EXCEPT ![w] = l]

-----------------------------------------------------------------------------

LockInit ==
  /\ lockFile = NoFile
  /\ pc = [w \in Processes |-> "idle"]
  /\ orphans = {}

(***************************************************************************)
(* A queued storage operation starts: withLock calls acquireLock.          *)
(***************************************************************************)
Request(w) ==
  /\ pc[w] = "idle"
  /\ Goto(w, "open")
  /\ UNCHANGED <<lockFile, orphans>>

(***************************************************************************)
(* One round of acquireLock draws a fresh token and opens the file with    *)
(* the exclusive flag 'wx'.  The open creates the file empty, or fails     *)
(* with EEXIST and the round goes on to look at the existing lock.         *)
(***************************************************************************)
OpenCreates(w) ==
  /\ pc[w] = "open"
  /\ ~Exists
  /\ lockFile' = [owner |-> w, written |-> FALSE]
  /\ Goto(w, "write")
  /\ UNCHANGED orphans

OpenFindsLock(w) ==
  /\ pc[w] = "open"
  /\ Exists
  /\ Goto(w, "inspect")
  /\ UNCHANGED <<lockFile, orphans>>

(***************************************************************************)
(* The record is written and synced through the open handle, so it reaches *)
(* the path only if the path still is the file this window created.        *)
(***************************************************************************)
WriteRecord(w) ==
  /\ pc[w] = "write"
  /\ lockFile' = IF Owns(w) THEN [lockFile EXCEPT !.written = TRUE] ELSE lockFile
  /\ Goto(w, "critical")
  /\ UNCHANGED orphans

(***************************************************************************)
(* Writing or syncing the record fails: the catch block unlinks the lock   *)
(* by path, ignoring an error, and the operation fails with LOCK_TIMEOUT.  *)
(***************************************************************************)
WriteFails(w) ==
  /\ pc[w] = "write"
  /\ w \in WriteFaults
  /\ Goto(w, "unlinkFailed")
  /\ UNCHANGED <<lockFile, orphans>>

UnlinkFailed(w) ==
  /\ pc[w] = "unlinkFailed"
  /\ \/ lockFile' = NoFile
     \/ w \in UnlinkFaults /\ UNCHANGED lockFile
  /\ Goto(w, "idle")
  /\ UNCHANGED orphans

(***************************************************************************)
(* Faults of the inspection: an old lock is taken for stale although its   *)
(* owner lives (for ExclusionUnlessOrphaned); only locks of the own        *)
(* process are reclaimed (for CompleteOrphanReclaimed); a lock in use is   *)
(* tried again without a look at the deadline (for EveryRequestEnds).      *)
(***************************************************************************)
JudgeStaleByAge(w) ==
  /\ pc[w] = "inspect"
  /\ Exists
  /\ lockFile.written
  /\ Goto(w, "reclaim")
  /\ UNCHANGED <<lockFile, orphans>>

JudgeStaleOwn(w) ==
  /\ pc[w] = "inspect"
  /\ HasToken(w)
  /\ Goto(w, "reclaim")
  /\ UNCHANGED <<lockFile, orphans>>

JudgeInUseForever(w) ==
  /\ pc[w] = "inspect"
  /\ Goto(w, "open")
  /\ UNCHANGED <<lockFile, orphans>>

(***************************************************************************)
(* reclaimStaleLock up to its verdict: the file must be old enough, hold a *)
(* parsable record, and name a process that no longer exists.  An absent   *)
(* file, a young one, an unparsable one or a live owner end the inspection *)
(* without an unlink.                                                      *)
(***************************************************************************)
JudgeStale(w) ==
  /\ pc[w] = "inspect"
  /\ Exists
  /\ lockFile.written
  /\ ~Alive(lockFile.owner)
  /\ Goto(w, "reclaim")
  /\ UNCHANGED <<lockFile, orphans>>

JudgeInUse(w) ==
  /\ pc[w] = "inspect"
  /\ Goto(w, "retry")
  /\ UNCHANGED <<lockFile, orphans>>

(***************************************************************************)
(* The unlink of reclaimStaleLock removes whatever file is at the path by  *)
(* now; an error is swallowed.                                             *)
(***************************************************************************)
Reclaim(w) ==
  /\ pc[w] = "reclaim"
  /\ \/ lockFile' = NoFile
     \/ w \in UnlinkFaults /\ UNCHANGED lockFile
  /\ Goto(w, "retry")
  /\ UNCHANGED orphans

(***************************************************************************)
(* A fault for OnlyOwnerUnlinks: a window that has waited long enough      *)
(* breaks the lock.                                                        *)
(***************************************************************************)
TimeOutBreaksLock(w) ==
  /\ pc[w] = "retry"
  /\ lockFile' = NoFile
  /\ Goto(w, "idle")
  /\ UNCHANGED orphans

(***************************************************************************)
(* After the inspection: past the deadline the operation fails with        *)
(* LOCK_TIMEOUT, otherwise it sleeps and tries again.                      *)
(***************************************************************************)
TimeOut(w) ==
  /\ pc[w] = "retry"
  /\ Goto(w, "idle")
  /\ UNCHANGED <<lockFile, orphans>>

Retry(w) ==
  /\ pc[w] = "retry"
  /\ Goto(w, "open")
  /\ UNCHANGED <<lockFile, orphans>>

(***************************************************************************)
(* The operation is over (with a result or an exception): the finally      *)
(* block runs releaseLock, which reads the file and unlinks it only when   *)
(* it carries this lock's token.                                           *)
(***************************************************************************)
FinishOperation(w) ==
  /\ pc[w] = "critical"
  /\ Goto(w, "release")
  /\ UNCHANGED <<lockFile, orphans>>

CheckToken(w) ==
  /\ pc[w] = "release"
  /\ Goto(w, IF HasToken(w) THEN "unlinkOwn" ELSE "idle")
  /\ UNCHANGED <<lockFile, orphans>>

UnlinkOwn(w) ==
  /\ pc[w] = "unlinkOwn"
  /\ \/ lockFile' = NoFile
     \/ w \in UnlinkFaults /\ UNCHANGED lockFile
  /\ Goto(w, "idle")
  /\ UNCHANGED orphans

(***************************************************************************)
(* The window's process dies (crash, kill, power loss).                    *)
(***************************************************************************)
Crash(w) ==
  /\ w \in MayCrash
  /\ Alive(w)
  /\ Goto(w, "dead")
  /\ orphans' = IF Owns(w) THEN orphans \cup {w} ELSE orphans
  /\ UNCHANGED lockFile

Inspect(w) == JudgeStale(w) \/ JudgeInUse(w)

LockStep(w) ==
  \/ OpenCreates(w) \/ OpenFindsLock(w)
  \/ WriteRecord(w) \/ WriteFails(w) \/ UnlinkFailed(w)
  \/ Inspect(w) \/ Reclaim(w) \/ TimeOut(w) \/ Retry(w)
  \/ FinishOperation(w) \/ CheckToken(w) \/ UnlinkOwn(w)

LockNext == \E w \in Processes : Request(w) \/ LockStep(w) \/ Crash(w)

LockSpec == LockInit /\ [][LockNext]_lockVars

(***************************************************************************)
(* A live window's event loop keeps running its pending continuation (WF), *)
(* and the deadline is a wall-clock test made on every round, so a loop    *)
(* that keeps reaching it eventually takes the timeout (SF).  Nothing says *)
(* that a window crashes, or that a file is ever judged stale.             *)
(***************************************************************************)
Fairness ==
  \A w \in Processes : WF_lockVars(LockStep(w)) /\ SF_lockVars(TimeOut(w))

(***************************************************************************)
(* Windows that keep issuing operations: users keep working in a live      *)
(* window, and a file older than staleLockMs stays older, so the           *)
(* inspection is not answered "too young" for ever.                        *)
(***************************************************************************)
BusyFairness ==
  \A w \in Processes : WF_lockVars(Request(w)) /\ SF_lockVars(JudgeStale(w))

FairSpec == LockSpec /\ Fairness

BusySpec == FairSpec /\ BusyFairness
-----------------------------------------------------------------------------
(* Properties *)

InCriticalSection(w) == pc[w] = "critical"

(***************************************************************************)
(* "Writes are serialized, locked" (README.md): two live windows never run *)
(* a storage operation at the same time.                                   *)
(***************************************************************************)
MutualExclusion ==
  \A v, w \in Processes :
    InCriticalSection(v) /\ InCriticalSection(w) => v = w

(***************************************************************************)
(* What the code does guarantee, with any delay, timeout, failed write and *)
(* with windows dying anywhere else: as long as no window died leaving its *)
(* lock file behind, storage operations exclude each other.                *)
(***************************************************************************)
ExclusionUnlessOrphaned == orphans = {} => MutualExclusion

(***************************************************************************)
(* While nobody died holding the lock, the lock file of a live window is   *)
(* removed by that window only: neither reclaimStaleLock nor another       *)
(* window's release or failed acquisition takes it away.                   *)
(***************************************************************************)
OnlyOwnerUnlinks ==
  [][orphans = {} /\ Exists =>
       \/ lockFile'.owner = lockFile.owner
       \/ pc'[lockFile.owner] # pc[lockFile.owner]]_lockVars

(***************************************************************************)
(* Bounded waiting: an operation that asked for the lock gets it or fails  *)
(* with LOCK_TIMEOUT, whatever the other windows do and wherever they die. *)
(***************************************************************************)
EveryRequestEnds ==
  \A w \in Processes : pc[w] = "open" ~> pc[w] \in {"critical", "idle", "dead"}

(***************************************************************************)
(* A lock file left by a window that died inside a storage operation, its  *)
(* record complete, does not outlive it for ever while other windows keep  *)
(* working: one of them reclaims it.                                       *)
(***************************************************************************)
CompleteOrphanReclaimed ==
  \A w \in Processes :
    (Owns(w) /\ lockFile.written /\ ~Alive(w)) ~> ~Owns(w)
=============================================================================
