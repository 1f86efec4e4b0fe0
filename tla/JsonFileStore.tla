---------------------------- MODULE JsonFileStore ----------------------------
(***************************************************************************)
(* src/storage/JsonFileStore.ts for one storage key shared by the windows  *)
(* of an editor: reads, revision-checked writes, migration of legacy       *)
(* documents, runtime backups, recovery of an unreadable document,         *)
(* read-only mode, and windows that die between any two file operations.   *)
(*                                                                         *)
(* The lock is taken as exclusive here (module StorageLock says when it    *)
(* is), and a dead holder's lock as reclaimed.  A document's data is an    *)
(* abstract content; every write of an application produces a new one, so  *)
(* two different states of the application's data are never confused.     *)
(* Timestamps, checksums and file names only matter for what they decide:  *)
(* which backup is the newest and whether it is intact.  Documents whose   *)
(* data fails domain validation (a throwing dataTransform) and a damaged   *)
(* journal are left out.                                                   *)
(***************************************************************************)
EXTENDS Integers, Sequences, FiniteSets, SequencesExt

CONSTANTS
  Windows,          \* the windows sharing the storage directory
  InitialDocs,      \* what the file may be when the first window opens
  MaximumBackups,   \* STORAGE_LIMITS.maximumRuntimeBackups
  Faults,           \* file operations that may fail, a subset of FaultKinds
  PeekingWindows,   \* windows that also read without showing the result
  BlindWriters,     \* windows that may write although their load failed
  DyingWindows,     \* windows that may die inside an operation
  ClockStepsBack,   \* whether the wall clock may repeat or step back
  MaxWrites,        \* bound: writes the applications request
  MaxDamage,        \* bound: times the file becomes unreadable
  MaxBackupFiles,   \* bound: backups the journal lists
  MaxMissing        \* bound: kept backups that may be missing when a prune fails

FaultKinds == {"backup", "prune", "commit", "verify", "quarantine", "restore",
               "moveBack"}

Nothing == 0   \* no content: what a read of an absent document returns
Never   == -1  \* knownRevisions has no entry for the key

Contents == 0 .. MaxWrites + 1

Kinds == {"absent", "legacy", "outdated", "envelope", "corrupt", "future"}

(***************************************************************************)
(* ParsedDocument: absent; legacy data without an envelope; an envelope    *)
(* whose data the domain's dataTransform would change ("outdated") or not; *)
(* an unreadable document; one of a newer schema.                          *)
(***************************************************************************)
Document == [kind : Kinds, rev : Nat, data : Contents]

Absent        == [kind |-> "absent", rev |-> 0, data |-> Nothing]
Corrupt       == [kind |-> "corrupt", rev |-> 0, data |-> Nothing]
Envelope(r, d) == [kind |-> "envelope", rev |-> r, data |-> d]

Versioned(doc) == doc.kind \in {"outdated", "envelope"}
Readable(doc)  == doc.kind \in {"absent", "legacy", "outdated", "envelope"}

ASSUME InitialDocsReadable ==
  InitialDocs \subseteq {doc \in Document : Readable(doc) /\ doc.data \in {0, 1}
                           /\ (Versioned(doc) <=> doc.rev = 1)
                           /\ (~Versioned(doc) <=> doc.rev = 0)
                           /\ (doc.kind = "absent" <=> doc.data = Nothing)}

ASSUME NoneIsNoWindow == "none" \notin Windows

ASSUME Parameters ==
  /\ MaximumBackups \in Nat \ {0}
  /\ MaxWrites \in Nat
  /\ MaxDamage \in Nat
  /\ MaxBackupFiles \in Nat
  /\ MaxMissing \in Nat
  /\ Faults \subseteq FaultKinds
  /\ PeekingWindows \subseteq Windows
  /\ BlindWriters \subseteq Windows
  /\ DyingWindows \subseteq Windows
  /\ ClockStepsBack \in BOOLEAN

(***************************************************************************)
(* BackupJournalEntry, and whether its file is there with its checksum.    *)
(***************************************************************************)
Backup == [rev : Nat, data : Contents, versioned : BOOLEAN,
           reason : {"commit", "migration"}, intact : BOOLEAN]

Tasks  == {"none", "write", "migrate", "normalise"}
Calls  == {"none", "load", "peek", "write"}
Stages == {"check", "compare", "backup", "unlink", "prune", "commit", "verify",
           "failed", "recover", "restore"}

(***************************************************************************)
(* The locked operation of a window: what was called, how far it is, the   *)
(* document it works from, the one it is about to commit and why, the      *)
(* content a write stores, the place of its backup in the journal, and     *)
(* whether it is already bound to fail once recovery is over.              *)
(***************************************************************************)
Operation == [kind : Calls, stage : Stages, cur : Document, next : Document,
              task : Tasks, data : Contents, slot : Nat, failing : BOOLEAN]

NoOp == [kind |-> "none", stage |-> "check", cur |-> Absent, next |-> Absent,
         task |-> "none", data |-> Nothing, slot |-> 0, failing |-> FALSE]

VARIABLES
  primary,    \* the document on disk
  backups,    \* the entries of the journal, in order of createdAt
  holder,     \* the window holding the lock, or "none"
  op,         \* the locked operation of each window
  known,      \* knownRevisions of each window
  cache,      \* cache of each window: the content known belongs to
  view,       \* the content each window's application state was built from
  readOnly,   \* the windows whose readOnlyKeys holds the key
  used,       \* number of contents produced so far
  damage,     \* number of times the file became unreadable
  last,       \* history: the last readable document the file held
  before,     \* history: the content that one replaced
  past,       \* history: every <<revision, content>> the file has held
  includes    \* history: the contents each content was derived from

vars == <<primary, backups, holder, op, known, cache, view, readOnly, used,
          damage, last, before, past, includes>>

windowVars == <<known, cache, view, readOnly>>

history == <<last, before, past>>

TypeOK ==
  /\ primary \in Document
  /\ backups \in Seq(Backup)
  /\ holder \in Windows \cup {"none"}
  /\ op \in [Windows -> Operation]
  /\ known \in [Windows -> Nat \cup {Never}]
  /\ cache \in [Windows -> Contents]
  /\ view \in [Windows -> Contents \cup {Never}]
  /\ readOnly \subseteq Windows
  /\ used \in 0 .. MaxWrites
  /\ damage \in 0 .. MaxDamage
  /\ last \in Document
  /\ before \in Contents
  /\ past \subseteq Nat \X Contents
  /\ includes \in [Contents -> SUBSET Contents]

Init ==
  /\ primary \in InitialDocs
  /\ backups = <<>>
  /\ holder = "none"
  /\ op = [w \in Windows |-> NoOp]
  /\ known = [w \in Windows |-> Never]
  /\ cache = [w \in Windows |-> Nothing]
  /\ view = [w \in Windows |-> Never]
  /\ readOnly = {}
  /\ used = 0
  /\ damage = 0
  /\ last = primary
  /\ before = Nothing
  /\ past = {<<primary.rev, primary.data>>}
  /\ includes = [d \in Contents |-> {d, Nothing}]

-----------------------------------------------------------------------------
(* Helpers of the locked operation *)

At(w, stage) == op[w].kind # "none" /\ op[w].stage = stage

Reading(w) == op[w].kind \in {"load", "peek"}

Continue(w, o) == op' = [op EXCEPT ![w] = o] /\ UNCHANGED holder

(***************************************************************************)
(* The operation returns or throws, and withLock releases the lock.        *)
(***************************************************************************)
Finish(w) ==
  /\ op' = [op EXCEPT ![w] = NoOp]
  /\ holder' = "none"

EnterReadOnly(w) == readOnly' = readOnly \cup {w}

RememberEnvelope(w, doc) ==
  /\ known' = [known EXCEPT ![w] = doc.rev]
  /\ cache' = [cache EXCEPT ![w] = doc.data]

(***************************************************************************)
(* The caller receives content d.  The result of a load becomes its        *)
(* application state; a peek's result is used and forgotten.               *)
(***************************************************************************)
Return(w, d) ==
  /\ Finish(w)
  /\ view' = IF op[w].kind = "peek" THEN view ELSE [view EXCEPT ![w] = d]

(***************************************************************************)
(* A write throws; a read that could not recover returns null.             *)
(***************************************************************************)
GiveUp(w) == IF Reading(w) THEN Return(w, Nothing) ELSE Finish(w) /\ UNCHANGED view

Throw(w) == Finish(w) /\ UNCHANGED windowVars

Replace(doc) ==
  /\ primary' = doc
  /\ last' = doc
  /\ before' = IF doc.data = last.data THEN before ELSE last.data
  /\ past' = past \cup {<<doc.rev, doc.data>>}

-----------------------------------------------------------------------------
(* Calls *)

(***************************************************************************)
(* A queued operation gets the lock.  "load" is a read whose result the    *)
(* application adopts; "peek" is one it does not (the read that resolves   *)
(* variables for a request); a write stores content derived from the       *)
(* application's state, which normally has been loaded.                    *)
(***************************************************************************)
Begin(w, kind) ==
  /\ holder = "none"
  /\ op[w].kind = "none"
  /\ holder' = w
  /\ op' = [op EXCEPT ![w] = [NoOp EXCEPT !.kind = kind,
                                !.data = IF kind = "write" THEN used + 2 ELSE Nothing]]
  /\ UNCHANGED <<primary, backups, windowVars, damage, history>>

BeginLoad(w) == Begin(w, "load") /\ UNCHANGED <<used, includes>>

BeginPeek(w) ==
  w \in PeekingWindows /\ Begin(w, "peek") /\ UNCHANGED <<used, includes>>

BeginWrite(w) ==
  /\ view[w] # Never \/ w \in BlindWriters
  /\ used < MaxWrites
  /\ used' = used + 1
  /\ includes' = [includes EXCEPT ![used + 2] =
                     @ \cup (IF view[w] = Never THEN {} ELSE includes[view[w]])]
  /\ Begin(w, "write")

(***************************************************************************)
(* A read of a readable document in the current format, or of none.        *)
(***************************************************************************)
ReadCurrent(w) ==
  /\ At(w, "check") /\ Reading(w)
  /\ primary.kind \in {"absent", "envelope"}
  /\ RememberEnvelope(w, primary)
  /\ Return(w, primary.data)
  /\ UNCHANGED <<primary, backups, readOnly, used, damage, includes, history>>

(***************************************************************************)
(* A read of an outdated envelope, or any operation on a legacy document,  *)
(* first commits the transformed data.                                     *)
(***************************************************************************)
ReadOutdated(w) ==
  /\ At(w, "check") /\ Reading(w)
  /\ primary.kind = "outdated"
  /\ Continue(w, [op[w] EXCEPT !.stage = "backup", !.task = "normalise",
                    !.cur = primary, !.next = Envelope(primary.rev + 1, primary.data)])
  /\ UNCHANGED <<primary, backups, windowVars, used, damage, includes, history>>

ReadLegacy(w) ==
  /\ At(w, "check")
  /\ primary.kind = "legacy" /\ (Reading(w) \/ w \notin readOnly)
  /\ Continue(w, [op[w] EXCEPT !.stage = "backup", !.task = "migrate",
                    !.cur = primary, !.next = Envelope(1, primary.data)])
  /\ UNCHANGED <<primary, backups, windowVars, used, damage, includes, history>>

(***************************************************************************)
(* An unreadable document is recovered; one of a newer schema is not.      *)
(***************************************************************************)
FindCorrupt(w) ==
  /\ At(w, "check")
  /\ primary.kind = "corrupt" /\ (Reading(w) \/ w \notin readOnly)
  /\ Continue(w, [op[w] EXCEPT !.stage = "recover"])
  /\ UNCHANGED <<primary, backups, windowVars, used, damage, includes, history>>

FindFuture(w) ==
  /\ At(w, "check")
  /\ primary.kind = "future" /\ (Reading(w) \/ w \notin readOnly)
  /\ EnterReadOnly(w)
  /\ GiveUp(w)
  /\ UNCHANGED <<primary, backups, known, cache, used, damage, includes, history>>

(***************************************************************************)
(* writeInternal: refused in read-only mode; otherwise go on to compare    *)
(* revisions.                                                              *)
(***************************************************************************)
RefuseWrite(w) ==
  /\ At(w, "check") /\ op[w].kind = "write"
  /\ w \in readOnly
  /\ Throw(w)
  /\ UNCHANGED <<primary, backups, used, damage, includes, history>>

CheckWrite(w) ==
  /\ At(w, "check") /\ op[w].kind = "write"
  /\ w \notin readOnly
  /\ primary.kind \in {"absent", "outdated", "envelope"}
  /\ Continue(w, [op[w] EXCEPT !.stage = "compare", !.cur = primary])
  /\ UNCHANGED <<primary, backups, windowVars, used, damage, includes, history>>

(***************************************************************************)
(* Faults of the revision check: an older known revision is accepted too   *)
(* (for NoLostUpdate); the new revision is the one found, not the next one *)
(* (for KnownMeansSeen).                                                   *)
(***************************************************************************)
RevisionNotAhead(w) == known[w] <= op[w].cur.rev

CompareRevisionSame(w) ==
  /\ At(w, "compare")
  /\ known[w] \in {Never, op[w].cur.rev}
  /\ Continue(w, [op[w] EXCEPT !.task = "write",
                    !.stage = IF Versioned(op[w].cur) THEN "backup" ELSE "commit",
                    !.next = Envelope(op[w].cur.rev, op[w].data)])
  /\ UNCHANGED <<primary, backups, windowVars, used, damage, includes, history>>

(***************************************************************************)
(* The revision the window knows, if any, must be the one found; otherwise *)
(* the window becomes read-only.  The content to be replaced is backed up  *)
(* first, when there is one.                                               *)
(***************************************************************************)
RevisionMatches(w) == known[w] \in {Never, op[w].cur.rev}

CompareRevision(w) ==
  /\ At(w, "compare")
  /\ RevisionMatches(w)
  /\ Continue(w, [op[w] EXCEPT !.task = "write",
                    !.stage = IF Versioned(op[w].cur) THEN "backup" ELSE "commit",
                    !.next = Envelope(op[w].cur.rev + 1, op[w].data)])
  /\ UNCHANGED <<primary, backups, windowVars, used, damage, includes, history>>

Conflict(w) ==
  /\ At(w, "compare")
  /\ ~RevisionMatches(w)
  /\ EnterReadOnly(w)
  /\ Finish(w)
  /\ UNCHANGED <<primary, backups, known, cache, view, used, damage, includes, history>>

-----------------------------------------------------------------------------
(* createBackup, pruneRuntimeBackups and atomicWriteEnvelope *)

IsCommit(i) == backups[i].reason = "commit"

(***************************************************************************)
(* A fault for RecoveryLosesAtMostOne: the newest commit backups are       *)
(* taken for obsolete.                                                     *)
(***************************************************************************)
ObsoleteNewest ==
  {i \in DOMAIN backups :
     /\ IsCommit(i)
     /\ Cardinality({j \in DOMAIN backups : j < i /\ IsCommit(j)}) >= MaximumBackups}

(***************************************************************************)
(* pruneRuntimeBackups keeps the newest commit backups that are listed,    *)
(* whether their files are there or not, and every migration backup.       *)
(***************************************************************************)
Obsolete ==
  {i \in DOMAIN backups :
     /\ IsCommit(i)
     /\ Cardinality({j \in DOMAIN backups : j > i /\ IsCommit(j)}) >= MaximumBackups}

Kept == DOMAIN backups \ Obsolete

(***************************************************************************)
(* A new backup is the newest when the clock has advanced since the last   *)
(* one; with an equal or earlier timestamp it sorts before older ones.     *)
(***************************************************************************)
BackupPositions ==
  IF ClockStepsBack THEN 1 .. Len(backups) + 1 ELSE {Len(backups) + 1}

(***************************************************************************)
(* createBackup writes and verifies the file, then lists it.  Only commit  *)
(* backups are pruned.                                                     *)
(***************************************************************************)
CreateBackup(w) ==
  /\ At(w, "backup")
  /\ Len(backups) < MaxBackupFiles
  /\ LET reason == IF op[w].task = "migrate" THEN "migration" ELSE "commit"
         entry  == [rev |-> op[w].cur.rev, data |-> op[w].cur.data,
                    versioned |-> Versioned(op[w].cur), reason |-> reason,
                    intact |-> TRUE]
     IN \E i \in BackupPositions :
          /\ backups' = InsertAt(backups, i, entry)
          /\ Continue(w, [op[w] EXCEPT !.stage = IF reason = "commit" THEN "unlink" ELSE "commit",
                                       !.slot = i])
  /\ UNCHANGED <<primary, windowVars, used, damage, includes, history>>

(***************************************************************************)
(* The files of the obsolete backups go first, while the journal still     *)
(* lists them; then the journal is written without them.                   *)
(***************************************************************************)
UnlinkObsolete(w) ==
  /\ At(w, "unlink")
  /\ backups' = [i \in DOMAIN backups |->
                   [backups[i] EXCEPT !.intact = @ /\ i \notin Obsolete]]
  /\ Continue(w, [op[w] EXCEPT !.stage = IF Obsolete = {} THEN "commit" ELSE "prune"])
  /\ UNCHANGED <<primary, windowVars, used, damage, includes, history>>

PruneJournal(w) ==
  /\ At(w, "prune")
  /\ \E f \in [1 .. Cardinality(Kept) -> Kept] :
       /\ \A i, j \in DOMAIN f : i < j => f[i] < f[j]
       /\ backups' = [i \in DOMAIN f |-> backups[f[i]]]
  /\ Continue(w, [op[w] EXCEPT !.stage = "commit"])
  /\ UNCHANGED <<primary, windowVars, used, damage, includes, history>>

(***************************************************************************)
(* A backup that cannot be made leaves the document alone.  A write        *)
(* throws; a read of a legacy document treats the failed migration as an   *)
(* unreadable document; a failed normalisation is handled like a failed    *)
(* commit.                                                                 *)
(***************************************************************************)
WithoutBackup(w) ==
  \/ /\ ~Reading(w)
     /\ Throw(w)
  \/ /\ op[w].task = "migrate" /\ Reading(w)
     /\ Continue(w, [op[w] EXCEPT !.stage = "recover"])
     /\ UNCHANGED windowVars
  \/ /\ op[w].task = "normalise"
     /\ Continue(w, [op[w] EXCEPT !.stage = "failed"])
     /\ UNCHANGED windowVars

CreateBackupFails(w) ==
  /\ At(w, "backup")
  /\ "backup" \in Faults
  /\ WithoutBackup(w)
  /\ UNCHANGED <<primary, backups, used, damage, includes, history>>

(***************************************************************************)
(* When the pruned journal cannot be written, the obsolete files are gone  *)
(* already and createBackup unlinks the new one too; both stay listed.     *)
(***************************************************************************)
PruneFails(w) ==
  /\ At(w, "prune")
  /\ "prune" \in Faults
  /\ Cardinality({i \in Kept : ~backups[i].intact}) <= MaxMissing
  /\ backups' = [i \in DOMAIN backups |->
                   [backups[i] EXCEPT !.intact = @ /\ i # op[w].slot]]
  /\ WithoutBackup(w)
  /\ UNCHANGED <<primary, used, damage, includes, history>>

(***************************************************************************)
(* The rename of the synced temporary file is the commit; a failure before *)
(* it leaves the document as it was.                                       *)
(***************************************************************************)
Commit(w) ==
  /\ At(w, "commit")
  /\ Replace(op[w].next)
  /\ Continue(w, [op[w] EXCEPT !.stage = "verify"])
  /\ UNCHANGED <<backups, windowVars, used, damage, includes>>

CommitFails(w) ==
  /\ At(w, "commit")
  /\ "commit" \in Faults
  /\ Continue(w, [op[w] EXCEPT !.stage = "failed"])
  /\ UNCHANGED <<primary, backups, windowVars, used, damage, includes, history>>

(***************************************************************************)
(* The committed file reads back as written: the window remembers it, and  *)
(* the operation returns, or goes on with the migrated document.  (The     *)
(* journal's status field, set here, is never read.)                       *)
(***************************************************************************)
Verify(w) ==
  /\ At(w, "verify")
  /\ primary = op[w].next
  /\ RememberEnvelope(w, primary)
  /\ IF op[w].task = "migrate" /\ ~Reading(w)
       THEN /\ Continue(w, [op[w] EXCEPT !.stage = "compare", !.cur = primary])
            /\ UNCHANGED view
       ELSE Return(w, primary.data)
  /\ UNCHANGED <<primary, backups, readOnly, used, damage, includes, history>>

VerifyFails(w) ==
  /\ At(w, "verify")
  /\ "verify" \in Faults \/ primary # op[w].next
  /\ Continue(w, [op[w] EXCEPT !.stage = "failed"])
  /\ UNCHANGED <<primary, backups, windowVars, used, damage, includes, history>>

(***************************************************************************)
(* The catch blocks of the three commits.  All but a failed migration look *)
(* at the file again and recover it when it is unreadable.                 *)
(***************************************************************************)
AfterFailure(w) ==
  /\ At(w, "failed")
  /\ \/ /\ op[w].task = "migrate" /\ ~Reading(w)
        /\ Throw(w)
     \/ /\ op[w].task = "migrate" /\ Reading(w)
        /\ Continue(w, [op[w] EXCEPT !.stage = "recover"])
        /\ UNCHANGED windowVars
     \/ /\ op[w].task # "migrate" /\ ~Readable(primary)
        /\ Continue(w, [op[w] EXCEPT !.stage = "recover", !.failing = ~Reading(w)])
        /\ UNCHANGED windowVars
     \/ /\ op[w].task = "write" /\ Readable(primary)
        /\ Throw(w)
     \/ /\ op[w].task = "normalise" /\ Readable(primary)
        /\ EnterReadOnly(w)
        /\ GiveUp(w)
        /\ UNCHANGED <<known, cache>>
  /\ UNCHANGED <<primary, backups, used, damage, includes, history>>

-----------------------------------------------------------------------------
(* recoverInvalidLocked *)

(***************************************************************************)
(* findNewestVerifiedBackup: the place of the newest backup whose file is  *)
(* there, none when no file is.                                            *)
(***************************************************************************)
Newest ==
  {i \in DOMAIN backups :
     /\ backups[i].intact
     /\ \A j \in DOMAIN backups : j > i => ~backups[j].intact}

(***************************************************************************)
(* A fault for NeverSilentlyReset: the file is quarantined before a backup *)
(* is looked for.                                                          *)
(***************************************************************************)
NoRecoveryLeft(w) ==
  /\ At(w, "recover")
  /\ Newest = {}
  /\ primary' = Absent
  /\ EnterReadOnly(w)
  /\ GiveUp(w)
  /\ UNCHANGED <<backups, known, cache, used, damage, includes, history>>

(***************************************************************************)
(* Without a verified backup, or for a newer schema, the file stays and    *)
(* the window becomes read-only.  The failed migration of a legacy         *)
(* document is passed on as a corrupt document.                            *)
(***************************************************************************)
NoRecovery(w) ==
  /\ At(w, "recover")
  /\ Newest = {} \/ (primary.kind = "future" /\ op[w].task # "migrate")
  /\ EnterReadOnly(w)
  /\ GiveUp(w)
  /\ UNCHANGED <<primary, backups, known, cache, used, damage, includes, history>>

(***************************************************************************)
(* quarantinePrimary renames the file away, or fails and the operation     *)
(* throws.                                                                 *)
(***************************************************************************)
Quarantine(w) ==
  /\ At(w, "recover")
  /\ Newest # {} /\ (primary.kind # "future" \/ op[w].task = "migrate")
  /\ primary' = Absent
  /\ Continue(w, [op[w] EXCEPT !.stage = "restore", !.cur = primary])
  /\ UNCHANGED <<backups, windowVars, used, damage, includes, history>>

QuarantineFails(w) ==
  /\ At(w, "recover")
  /\ Newest # {}
  /\ "quarantine" \in Faults
  /\ Throw(w)
  /\ UNCHANGED <<primary, backups, used, damage, includes, history>>

(***************************************************************************)
(* A fault for RegisterSpec: the restored document gets the next revision. *)
(***************************************************************************)
RestoredAnew(i) ==
  LET b == backups[i] IN Envelope(IF b.versioned THEN b.rev + 1 ELSE 1, b.data)

(***************************************************************************)
(* The newest backup is committed under its own revision (1 when it had    *)
(* none), read-only mode ends, and the window remembers it.                *)
(***************************************************************************)
Restored(i) ==
  LET b == backups[i] IN Envelope(IF b.versioned THEN b.rev ELSE 1, b.data)

Restore(w) ==
  /\ At(w, "restore")
  /\ \E i \in Newest :
       /\ Replace(Restored(i))
       /\ RememberEnvelope(w, Restored(i))
       /\ readOnly' = readOnly \ {w}
       /\ \/ /\ Reading(w)
             /\ Return(w, Restored(i).data)
          \/ /\ ~Reading(w) /\ op[w].failing
             /\ Finish(w)
             /\ UNCHANGED view
          \/ /\ ~Reading(w) /\ ~op[w].failing
             /\ Continue(w, [op[w] EXCEPT !.stage = "compare", !.cur = Restored(i)])
             /\ UNCHANGED view
  /\ UNCHANGED <<backups, used, damage, includes>>

(***************************************************************************)
(* Restoring fails before or after its rename.  If no file is there, the   *)
(* quarantined one is moved back, and a failure of that is ignored.        *)
(***************************************************************************)
RestoreFails(w) ==
  /\ At(w, "restore")
  /\ "restore" \in Faults
  /\ \/ \E i \in Newest : Replace(Restored(i))
     \/ /\ primary' \in {op[w].cur}
                          \cup (IF "moveBack" \in Faults THEN {Absent} ELSE {})
        /\ UNCHANGED history
  /\ EnterReadOnly(w)
  /\ GiveUp(w)
  /\ UNCHANGED <<backups, known, cache, used, damage, includes>>

-----------------------------------------------------------------------------
(* Environment *)

(***************************************************************************)
(* The file becomes unreadable: media damage, an editor, another program.  *)
(***************************************************************************)
Damage ==
  /\ damage < MaxDamage
  /\ Versioned(primary)
  /\ damage' = damage + 1
  /\ primary' \in {Corrupt, [Corrupt EXCEPT !.kind = "future"]}
  /\ UNCHANGED <<backups, holder, op, windowVars, used, includes, history>>

(***************************************************************************)
(* A window closes or dies and is opened again: its memory is gone, its    *)
(* lock is released or reclaimed.                                          *)
(***************************************************************************)
Reopen(w) ==
  /\ op[w].kind = "none" \/ w \in DyingWindows
  /\ op' = [op EXCEPT ![w] = NoOp]
  /\ holder' = IF holder = w THEN "none" ELSE holder
  /\ known' = [known EXCEPT ![w] = Never]
  /\ cache' = [cache EXCEPT ![w] = Nothing]
  /\ view' = [view EXCEPT ![w] = Never]
  /\ readOnly' = readOnly \ {w}
  /\ UNCHANGED <<primary, backups, used, damage, includes, history>>

Step(w) ==
  \/ ReadCurrent(w) \/ ReadOutdated(w) \/ ReadLegacy(w)
  \/ FindCorrupt(w) \/ FindFuture(w)
  \/ RefuseWrite(w) \/ CheckWrite(w) \/ CompareRevision(w) \/ Conflict(w)
  \/ CreateBackup(w) \/ UnlinkObsolete(w) \/ PruneJournal(w)
  \/ CreateBackupFails(w) \/ PruneFails(w)
  \/ Commit(w) \/ CommitFails(w) \/ Verify(w) \/ VerifyFails(w) \/ AfterFailure(w)
  \/ NoRecovery(w) \/ Quarantine(w) \/ QuarantineFails(w)
  \/ Restore(w) \/ RestoreFails(w)

Next ==
  \/ Damage
  \/ \E w \in Windows :
       BeginLoad(w) \/ BeginPeek(w) \/ BeginWrite(w) \/ Step(w) \/ Reopen(w)

Spec == Init /\ [][Next]_vars
-----------------------------------------------------------------------------
(* Properties *)

CommitsWrite(w) ==
  At(w, "commit") /\ op[w].task = "write" /\ op'[w].stage = "verify"

(***************************************************************************)
(* "Never last-write-wins silently": a write that commits replaces a       *)
(* content its own content was derived from, never one another window      *)
(* committed in between; and no write of a read-only window commits.       *)
(***************************************************************************)
NoLostUpdate ==
  [][\A w \in Windows :
       CommitsWrite(w) => /\ w \notin readOnly
                          /\ last.data \in includes[op[w].data]]_vars

(***************************************************************************)
(* Why the revision check is enough while the file stays readable: a       *)
(* revision names one content.  A window whose known revision is the one   *)
(* on disk has exactly that content cached, and no window is ahead of it.  *)
(***************************************************************************)
KnownMeansSeen ==
  \A w \in Windows :
    known[w] # Never =>
      /\ known[w] <= last.rev
      /\ known[w] = last.rev => cache[w] = last.data

(***************************************************************************)
(* "Attempts recovery from the newest verified backup": whatever writes    *)
(* failed, died half-way or were pruned since, recovery brings back the    *)
(* last committed content or the one it replaced, never an older one.      *)
(***************************************************************************)
RecoveryLosesAtMostOne ==
  [][\A w \in Windows :
       At(w, "restore") /\ primary'.kind = "envelope"
         => primary'.data \in {last.data, before}]_vars

(***************************************************************************)
(* A document that was written over at least once can be recovered: an     *)
(* intact backup is listed from before the first overwrite on, although a  *)
(* failing prune costs the oldest one and the new one.                     *)
(***************************************************************************)
OverwrittenIsRecoverable ==
  before # Nothing => Newest # {}

(***************************************************************************)
(* "Unrecoverable state is visible and read-only rather than silently      *)
(* reset": once a content has been stored, the file is missing only while  *)
(* a window is busy restoring it, so nobody reads the domain as empty.     *)
(***************************************************************************)
NeverSilentlyReset ==
  last.data # Nothing /\ primary.kind = "absent" => holder # "none"

(***************************************************************************)
(* Whatever becomes unreadable and whatever fails while it is repaired,    *)
(* the document is on disk, listed as a backup, or being restored.         *)
(***************************************************************************)
DocumentSurvives == OverwrittenIsRecoverable /\ NeverSilentlyReset

(***************************************************************************)
(* The store implements the versioned register of VersionedStore: its      *)
(* document is the last readable one, lost while the file cannot be read.  *)
(***************************************************************************)
Register ==
  INSTANCE VersionedStore WITH
    rev     <- last.rev,
    content <- last.data,
    base    <- known,
    lost    <- ~Readable(primary) \/ (primary.kind = "absent" /\ last.kind # "absent")

RegisterSpec == Register!Spec
=============================================================================
