------------------------ MODULE JsonFileStoreProofs ------------------------
(***************************************************************************)
(* Proofs about JsonFileStore for any windows, bounds, initial documents   *)
(* and faults, and at the end about the lock it takes as exclusive:        *)
(* StorageLock for any set of processes, any of which may die anywhere and *)
(* see its file writes and unlinks fail.                                   *)
(***************************************************************************)
EXTENDS JsonFileStore, StorageLock, SequenceTheorems, FiniteSetTheorems, TLAPS

(***************************************************************************)
(* The documents and operations the actions build are well typed.          *)
(***************************************************************************)
LEMMA DocumentFacts ==
  /\ Nothing \in Contents
  /\ Absent \in Document
  /\ Corrupt \in Document
  /\ [Corrupt EXCEPT !.kind = "future"] \in Document
  /\ NoOp \in Operation
  /\ \A r \in Nat, d \in Contents : Envelope(r, d) \in Document
<1> USE DEF Nothing, Contents, Document, Kinds
<1>1. Nothing \in Contents
  BY Parameters
<1>2. Absent \in Document
  BY <1>1 DEF Absent
<1>3. Corrupt \in Document
  BY <1>1 DEF Corrupt
<1>4. [Corrupt EXCEPT !.kind = "future"] \in Document
  BY <1>1 DEF Corrupt
<1>5. NoOp \in Operation
  BY <1>1, <1>2 DEF NoOp, Operation, Calls, Stages, Tasks
<1>6. \A r \in Nat, d \in Contents : Envelope(r, d) \in Document
  BY DEF Envelope
<1> QED
  BY <1>1, <1>2, <1>3, <1>4, <1>5, <1>6

(***************************************************************************)
(* Adding a backup to a list of backups gives one.                         *)
(***************************************************************************)
LEMMA InsertType ==
  ASSUME NEW S, NEW s \in Seq(S), NEW e \in S, NEW i \in 1 .. Len(s) + 1
  PROVE  InsertAt(s, i, e) \in Seq(S)
<1>1. SubSeq(s, 1, i - 1) \in Seq(S)
  OBVIOUS
<1>2. SubSeq(s, i, Len(s)) \in Seq(S)
  OBVIOUS
<1> QED
  BY <1>1, <1>2 DEF InsertAt

(***************************************************************************)
(* Writing the journal without the obsolete entries leaves a list of       *)
(* backups, and so does marking entries whose files are gone.              *)
(***************************************************************************)
LEMMA KeptType ==
  ASSUME backups \in Seq(Backup), NEW f \in [1 .. Cardinality(Kept) -> Kept]
  PROVE  [i \in DOMAIN f |-> backups[f[i]]] \in Seq(Backup)
<1>1. IsFiniteSet(DOMAIN backups)
  BY FS_Interval
<1>2. Kept \subseteq DOMAIN backups
  BY DEF Kept
<1>3. Cardinality(Kept) \in Nat
  BY <1>1, <1>2, FS_Subset, FS_CardinalityType
<1>4. \A i \in DOMAIN f : backups[f[i]] \in Backup
  BY <1>2
<1> QED
  BY <1>3, <1>4

(***************************************************************************)
(* Marking the entries whose files are gone leaves a list of backups.      *)
(***************************************************************************)
LEMMA MarkedType ==
  ASSUME backups \in Seq(Backup), NEW I
  PROVE  [i \in DOMAIN backups |->
            [backups[i] EXCEPT !.intact = @ /\ i \notin I]] \in Seq(Backup)
<1>1. ASSUME NEW i \in DOMAIN backups
      PROVE  [backups[i] EXCEPT !.intact = @ /\ i \notin I] \in Backup
  <2>1. backups[i] \in Backup
    OBVIOUS
  <2> QED
    BY <2>1 DEF Backup
<1> QED
  BY <1>1

(***************************************************************************)
(* What continuing, finishing and replacing the document do to the types   *)
(* of the variables they touch.                                            *)
(***************************************************************************)
LockTypes ==
  /\ holder \in Windows \cup {"none"}
  /\ op \in [Windows -> Operation]

WindowTypes ==
  /\ known \in [Windows -> Nat \cup {Never}]
  /\ cache \in [Windows -> Contents]
  /\ view \in [Windows -> Contents \cup {Never}]
  /\ readOnly \subseteq Windows

FileTypes ==
  /\ primary \in Document
  /\ last \in Document
  /\ before \in Contents
  /\ past \subseteq Nat \X Contents

ContentTypes ==
  /\ used \in 0 .. MaxWrites
  /\ damage \in 0 .. MaxDamage
  /\ includes \in [Contents -> SUBSET Contents]

(***************************************************************************)
(* TypeOK in parts that the actions change together.                       *)
(***************************************************************************)
LEMMA TypeParts ==
  TypeOK <=> /\ LockTypes
             /\ WindowTypes
             /\ FileTypes
             /\ ContentTypes
             /\ backups \in Seq(Backup)
  BY DEF TypeOK, LockTypes, WindowTypes, FileTypes, ContentTypes

(***************************************************************************)
(* A locked operation that continues with a well-typed record keeps the    *)
(* lock and the operations well typed.                                     *)
(***************************************************************************)
LEMMA ContinueTypes ==
  ASSUME LockTypes, NEW w \in Windows, NEW o \in Operation, Continue(w, o)
  PROVE  LockTypes'
  BY DEF LockTypes, Continue

(***************************************************************************)
(* So does one that ends.                                                  *)
(***************************************************************************)
LEMMA FinishTypes ==
  ASSUME LockTypes, NEW w \in Windows, Finish(w)
  PROVE  LockTypes'
  BY DocumentFacts DEF LockTypes, Finish

(***************************************************************************)
(* Committing a document keeps what is known of the file well typed.       *)
(***************************************************************************)
LEMMA ReplaceTypes ==
  ASSUME FileTypes, NEW doc \in Document, Replace(doc)
  PROVE  FileTypes'
<1>1. last.data \in Contents /\ doc.rev \in Nat /\ doc.data \in Contents
  BY DEF FileTypes, Document
<1> QED
  BY <1>1 DEF FileTypes, Replace

(***************************************************************************)
(* The fields of an operation record, and the updates the actions make to  *)
(* one, are well typed.                                                    *)
(***************************************************************************)
LEMMA OperationFields ==
  ASSUME NEW o \in Operation
  PROVE  /\ o.cur \in Document /\ o.cur.rev \in Nat /\ o.cur.data \in Contents
         /\ o.next \in Document
         /\ o.data \in Contents
         /\ \A s \in Stages : [o EXCEPT !.stage = s] \in Operation
         /\ \A s \in Stages, d \in Document :
              [o EXCEPT !.stage = s, !.cur = d] \in Operation
         /\ \A s \in Stages, d \in Document, t \in Tasks :
              [o EXCEPT !.task = t, !.stage = s, !.next = d] \in Operation
         /\ \A s \in Stages, t \in Tasks, c, d \in Document :
              [o EXCEPT !.stage = s, !.task = t, !.cur = c, !.next = d] \in Operation
         /\ \A s \in Stages, b \in BOOLEAN :
              [o EXCEPT !.stage = s, !.failing = b] \in Operation
         /\ \A s \in Stages, n \in Nat :
              [o EXCEPT !.stage = s, !.slot = n] \in Operation
  BY DEF Operation, Document

(***************************************************************************)
(* The document recovery commits is one.                                   *)
(***************************************************************************)
LEMMA RestoredType ==
  ASSUME backups \in Seq(Backup), NEW i \in Newest
  PROVE  /\ Restored(i) \in Document
         /\ Restored(i).rev \in Nat /\ Restored(i).data \in Contents
<1>1. backups[i] \in Backup
  BY DEF Newest
<1>2. Restored(i) \in Document
  BY <1>1, DocumentFacts DEF Restored, Backup
<1> QED
  BY <1>2 DEF Document

(***************************************************************************)
(* The lock keeps the other windows out: only its holder is inside an      *)
(* operation.                                                              *)
(***************************************************************************)
Serial == \A w \in Windows : op[w].kind # "none" => holder = w

TypeInv == TypeOK /\ Serial

(***************************************************************************)
(* Every step of a locked operation keeps TypeOK.                          *)
(***************************************************************************)
LEMMA StepTypes ==
  ASSUME TypeOK, NEW w \in Windows, Step(w)
  PROVE  TypeOK'
<1> DEFINE Rest == UNCHANGED <<used, damage, includes>>
<1>0. /\ LockTypes /\ WindowTypes /\ FileTypes /\ ContentTypes
      /\ backups \in Seq(Backup) /\ op[w] \in Operation
      /\ primary \in Document /\ primary.rev \in Nat /\ primary.data \in Contents
  BY TypeParts DEF LockTypes, FileTypes, Document
<1>r. Rest => ContentTypes'
  BY <1>0 DEF ContentTypes
<1>f. UNCHANGED <<primary, history>> => FileTypes'
  BY <1>0 DEF FileTypes, history
<1>q. primary' \in Document /\ UNCHANGED history => FileTypes'
  BY <1>0 DEF FileTypes, history
<1>w. UNCHANGED windowVars => WindowTypes'
  BY <1>0 DEF WindowTypes, windowVars
<1>b. UNCHANGED backups => backups' \in Seq(Backup)
  BY <1>0
<1>o. \A o \in Operation : Continue(w, o) => LockTypes'
  BY <1>0, ContinueTypes
<1>x. Finish(w) => LockTypes'
  BY <1>0, FinishTypes
<1>v. ASSUME known' = known \/ (\E r \in Nat : known' = [known EXCEPT ![w] = r]),
             cache' = cache \/ (\E d \in Contents : cache' = [cache EXCEPT ![w] = d]),
             view' = view \/ (\E d \in Contents : view' = [view EXCEPT ![w] = d]),
             readOnly' = readOnly \/ readOnly' = readOnly \cup {w} \/ readOnly' = readOnly \ {w}
      PROVE  WindowTypes'
  BY <1>0, <1>v DEF WindowTypes
<1>c. /\ LockTypes' /\ WindowTypes' /\ FileTypes' /\ ContentTypes'
      /\ backups' \in Seq(Backup)
      => TypeOK'
  BY DEF TypeOK, LockTypes, WindowTypes, FileTypes, ContentTypes
<1>1. CASE ReadCurrent(w)
  <2>1. Rest /\ UNCHANGED <<primary, history>> /\ UNCHANGED backups /\ Finish(w)
    BY <1>1 DEF ReadCurrent, Return, history
  <2>2. WindowTypes'
    BY <1>0, <1>1, <1>v DEF ReadCurrent, RememberEnvelope, Return
  <2> QED
    BY <2>1, <2>2, <1>r, <1>f, <1>b, <1>x, <1>c
<1>2. CASE ReadOutdated(w) \/ ReadLegacy(w) \/ FindCorrupt(w) \/ CheckWrite(w) \/ CompareRevision(w)
  <2>1. /\ Rest /\ UNCHANGED <<primary, history>> /\ UNCHANGED backups
        /\ UNCHANGED windowVars
    BY <1>2 DEF ReadOutdated, ReadLegacy, FindCorrupt, CheckWrite, CompareRevision
  <2>2. \A s \in {"backup", "recover", "compare", "commit"} : s \in Stages
    BY DEF Stages
  <2>3. \A t \in {"normalise", "migrate", "write"} : t \in Tasks
    BY DEF Tasks
  <2>4. /\ Envelope(primary.rev + 1, primary.data) \in Document
        /\ Envelope(1, primary.data) \in Document
        /\ Envelope(op[w].cur.rev + 1, op[w].data) \in Document
    <3>2. op[w].cur.rev \in Nat /\ op[w].data \in Contents
      BY <1>0, OperationFields, Zenon
    <3>1. /\ op[w].cur.rev + 1 \in Nat /\ op[w].data \in Contents
          /\ primary.rev + 1 \in Nat /\ 1 \in Nat
      BY <1>0, <3>2
    <3> QED
      BY <1>0, <3>1, DocumentFacts
  <2>5. \E o \in Operation : Continue(w, o)
    <3>1. CASE ReadOutdated(w)
      BY <1>0, <2>2, <2>3, <2>4, <3>1, OperationFields DEF ReadOutdated
    <3>2. CASE ReadLegacy(w)
      BY <1>0, <2>2, <2>3, <2>4, <3>2, OperationFields DEF ReadLegacy
    <3>3. CASE FindCorrupt(w)
      BY <1>0, <2>2, <3>3, OperationFields DEF FindCorrupt
    <3>4. CASE CheckWrite(w)
      BY <1>0, <2>2, <3>4, OperationFields DEF CheckWrite
    <3>5. CASE CompareRevision(w)
      <4>1. (IF Versioned(op[w].cur) THEN "backup" ELSE "commit") \in Stages
        BY <2>2
      <4> QED
        BY <1>0, <2>3, <2>4, <3>5, <4>1, OperationFields DEF CompareRevision
    <3> QED
      BY <1>2, <3>1, <3>2, <3>3, <3>4, <3>5
  <2> QED
    BY <2>1, <2>5, <1>r, <1>f, <1>b, <1>o, <1>w, <1>c
<1>3. CASE FindFuture(w) \/ NoRecovery(w) \/ RefuseWrite(w) \/ Conflict(w)
  <2>1. Rest /\ UNCHANGED <<primary, history>> /\ UNCHANGED backups /\ Finish(w)
    BY <1>3 DEF FindFuture, NoRecovery, RefuseWrite, Conflict, GiveUp, Return, Throw
  <2>2. WindowTypes'
    BY <1>0, <1>3, <1>v, DocumentFacts
    DEF FindFuture, NoRecovery, RefuseWrite, Conflict, GiveUp, Return, Throw,
        EnterReadOnly, windowVars
  <2> QED
    BY <2>1, <2>2, <1>r, <1>f, <1>b, <1>x, <1>c
<1>4. CASE CreateBackup(w)
  <2>1. Rest /\ UNCHANGED <<primary, history>> /\ UNCHANGED windowVars
    BY <1>4 DEF CreateBackup
  <2>2. LockTypes'
    <3>1. PICK i \in BackupPositions, s \in {"unlink", "commit"} :
            Continue(w, [op[w] EXCEPT !.stage = s, !.slot = i])
      BY <1>4 DEF CreateBackup
    <3>2. i \in Nat
      BY <1>0, <3>1 DEF BackupPositions
    <3>3. [op[w] EXCEPT !.stage = s, !.slot = i] \in Operation
      BY <1>0, <3>2, OperationFields DEF Stages
    <3> QED
      BY <1>o, <3>1, <3>3
  <2>3. backups' \in Seq(Backup)
    <3> DEFINE reason == IF op[w].task = "migrate" THEN "migration" ELSE "commit"
               entry == [rev |-> op[w].cur.rev, data |-> op[w].cur.data,
                         versioned |-> Versioned(op[w].cur), reason |-> reason,
                         intact |-> TRUE]
    <3>0. op[w].cur.rev \in Nat /\ op[w].cur.data \in Contents
      BY <1>0, OperationFields, Zenon
    <3>1. entry \in Backup
      BY <3>0 DEF Backup, Versioned
    <3>2. PICK i \in BackupPositions : backups' = InsertAt(backups, i, entry)
      BY <1>4 DEF CreateBackup
    <3>3. i \in 1 .. Len(backups) + 1
      BY <1>0, <3>2 DEF BackupPositions
    <3> HIDE DEF entry, reason
    <3> QED
      BY <1>0, <3>1, <3>2, <3>3, InsertType
  <2> QED
    BY <2>1, <2>2, <2>3, <1>r, <1>f, <1>w, <1>c
<1>5. CASE CreateBackupFails(w) \/ PruneFails(w) \/ AfterFailure(w)
  <2>1. Rest /\ UNCHANGED <<primary, history>>
    BY <1>5 DEF CreateBackupFails, PruneFails, AfterFailure
  <2>4. backups' \in Seq(Backup)
    <3>1. CASE PruneFails(w)
      <4>1. backups' = [i \in DOMAIN backups |->
                          [backups[i] EXCEPT !.intact = @ /\ i \notin {op[w].slot}]]
        BY <3>1 DEF PruneFails
      <4> QED
        BY <1>0, <4>1, MarkedType
    <3> QED
      BY <1>b, <1>5, <3>1 DEF CreateBackupFails, AfterFailure
  <2>2. LockTypes'
    <3>1. /\ [op[w] EXCEPT !.stage = "recover"] \in Operation
          /\ [op[w] EXCEPT !.stage = "failed"] \in Operation
          /\ [op[w] EXCEPT !.stage = "recover", !.failing = ~Reading(w)] \in Operation
      BY <1>0, OperationFields DEF Stages, Reading
    <3>2. CASE CreateBackupFails(w) \/ PruneFails(w)
      BY <1>o, <1>x, <3>1, <3>2 DEF CreateBackupFails, PruneFails, WithoutBackup, Throw
    <3>3. CASE AfterFailure(w)
      BY <1>o, <1>x, <3>1, <3>3 DEF AfterFailure, Throw, GiveUp, Return
    <3> QED
      BY <1>5, <3>2, <3>3
  <2>3. WindowTypes'
    <3>1. CASE CreateBackupFails(w) \/ PruneFails(w)
      BY <1>w, <3>1 DEF CreateBackupFails, PruneFails, WithoutBackup, Throw
    <3>2. CASE AfterFailure(w)
      BY <1>0, <1>v, <3>2, DocumentFacts
      DEF AfterFailure, Throw, GiveUp, Return, EnterReadOnly, windowVars
    <3> QED
      BY <1>5, <3>1, <3>2
  <2> QED
    BY <2>1, <2>2, <2>3, <2>4, <1>r, <1>f, <1>c
<1>6. CASE Commit(w)
  <2>1. Rest /\ UNCHANGED windowVars /\ UNCHANGED backups
    BY <1>6 DEF Commit
  <2>2. LockTypes'
    <3>1. [op[w] EXCEPT !.stage = "verify"] \in Operation
      BY <1>0, OperationFields DEF Stages
    <3> QED
      BY <1>6, <1>o, <3>1 DEF Commit
  <2>3. FileTypes'
    BY <1>0, <1>6, OperationFields, ReplaceTypes DEF Commit
  <2> QED
    BY <2>1, <2>2, <2>3, <1>r, <1>w, <1>b, <1>c
<1>7. CASE CommitFails(w) \/ VerifyFails(w) \/ QuarantineFails(w)
  <2>1. /\ Rest /\ UNCHANGED <<primary, history>> /\ UNCHANGED windowVars
        /\ UNCHANGED backups
    BY <1>7 DEF CommitFails, VerifyFails, QuarantineFails, Throw
  <2>2. [op[w] EXCEPT !.stage = "failed"] \in Operation
    BY <1>0, OperationFields DEF Stages
  <2>3. LockTypes'
    BY <1>7, <1>o, <1>x, <2>2 DEF CommitFails, VerifyFails, QuarantineFails, Throw
  <2> QED
    BY <2>1, <2>3, <1>r, <1>f, <1>w, <1>b, <1>c
<1>8. CASE Verify(w)
  <2>1. Rest /\ UNCHANGED <<primary, history>> /\ UNCHANGED backups
    BY <1>8 DEF Verify
  <2>2. LockTypes'
    <3>1. [op[w] EXCEPT !.stage = "compare", !.cur = primary] \in Operation
      BY <1>0, OperationFields DEF Stages
    <3> QED
      BY <1>8, <1>o, <1>x, <3>1 DEF Verify, Return
  <2>3. WindowTypes'
    BY <1>0, <1>8, <1>v DEF Verify, RememberEnvelope, Return
  <2> QED
    BY <2>1, <2>2, <2>3, <1>r, <1>f, <1>b, <1>c
<1>9. CASE Quarantine(w)
  <2>1. Rest /\ UNCHANGED history /\ UNCHANGED windowVars /\ UNCHANGED backups
    BY <1>9 DEF Quarantine
  <2>2. primary' \in Document
    BY <1>9, DocumentFacts DEF Quarantine
  <2>3. LockTypes'
    <3>1. [op[w] EXCEPT !.stage = "restore", !.cur = primary] \in Operation
      BY <1>0, OperationFields DEF Stages
    <3> QED
      BY <1>9, <1>o, <3>1 DEF Quarantine
  <2> QED
    BY <2>1, <2>2, <2>3, <1>r, <1>q, <1>w, <1>b, <1>c
<1>10. CASE Restore(w) \/ RestoreFails(w)
  <2>1. Rest /\ UNCHANGED backups
    BY <1>10 DEF Restore, RestoreFails
  <2>2. LockTypes'
    <3>1. \A i \in Newest :
            [op[w] EXCEPT !.stage = "compare", !.cur = Restored(i)] \in Operation
      BY <1>0, RestoredType, OperationFields DEF Stages
    <3>2. CASE Restore(w)
      BY <1>o, <1>x, <3>1, <3>2 DEF Restore, Return
    <3>3. CASE RestoreFails(w)
      BY <1>x, <3>3 DEF RestoreFails, GiveUp, Return
    <3> QED
      BY <1>10, <3>2, <3>3
  <2>3. FileTypes'
    <3>1. op[w].cur \in Document /\ Absent \in Document
      BY <1>0, OperationFields, DocumentFacts
    <3>2. \A i \in Newest : Replace(Restored(i)) => FileTypes'
      BY <1>0, RestoredType, ReplaceTypes
    <3> QED
      BY <1>10, <1>q, <3>1, <3>2 DEF Restore, RestoreFails
  <2>4. WindowTypes'
    <3>1. CASE Restore(w)
      <4>1. PICK i \in Newest :
              /\ RememberEnvelope(w, Restored(i))
              /\ readOnly' = readOnly \ {w}
              /\ view' = view \/ Return(w, Restored(i).data)
        BY <3>1 DEF Restore
      <4>2. Restored(i).rev \in Nat /\ Restored(i).data \in Contents
        BY <1>0, RestoredType
      <4> QED
        BY <1>v, <4>1, <4>2 DEF RememberEnvelope, Return
    <3>2. CASE RestoreFails(w)
      BY <1>v, <3>2, DocumentFacts DEF RestoreFails, EnterReadOnly, GiveUp, Return
    <3> QED
      BY <1>10, <3>1, <3>2
  <2> QED
    BY <2>1, <2>2, <2>3, <2>4, <1>r, <1>b, <1>c
<1>11. CASE UnlinkObsolete(w) \/ PruneJournal(w)
  <2>1. Rest /\ UNCHANGED <<primary, history>> /\ UNCHANGED windowVars
    BY <1>11 DEF UnlinkObsolete, PruneJournal
  <2>2. LockTypes'
    <3>1. \A s \in {"commit", "prune"} : [op[w] EXCEPT !.stage = s] \in Operation
      BY <1>0, OperationFields DEF Stages
    <3> QED
      BY <1>11, <1>o, <3>1 DEF UnlinkObsolete, PruneJournal
  <2>3. backups' \in Seq(Backup)
    <3>1. CASE UnlinkObsolete(w)
      BY <1>0, <3>1, MarkedType DEF UnlinkObsolete
    <3>2. CASE PruneJournal(w)
      BY <1>0, <3>2, KeptType DEF PruneJournal
    <3> QED
      BY <1>11, <3>1, <3>2
  <2> QED
    BY <2>1, <2>2, <2>3, <1>r, <1>f, <1>w, <1>c
<1> QED
  BY <1>1, <1>2, <1>3, <1>4, <1>5, <1>6, <1>7, <1>8, <1>9, <1>10, <1>11 DEF Step

(***************************************************************************)
(* A step of a locked operation runs in the window that holds the lock,    *)
(* and either continues that operation or ends it and frees the lock.      *)
(***************************************************************************)
LEMMA StepShape ==
  ASSUME NEW w \in Windows, Step(w)
  PROVE  /\ op[w].kind # "none"
         /\ (\E o : Continue(w, o)) \/ Finish(w)
<1> USE DEF At
<1>1. CASE ReadCurrent(w) \/ FindFuture(w) \/ NoRecovery(w) \/ RefuseWrite(w) \/ Conflict(w)
  BY <1>1 DEF ReadCurrent, FindFuture, NoRecovery, RefuseWrite, Conflict, GiveUp, Return, Throw
<1>2. CASE ReadOutdated(w) \/ ReadLegacy(w) \/ FindCorrupt(w) \/ CheckWrite(w) \/ CompareRevision(w)
  BY <1>2 DEF ReadOutdated, ReadLegacy, FindCorrupt, CheckWrite, CompareRevision
<1>3. CASE CreateBackup(w) \/ CreateBackupFails(w) \/ Commit(w) \/ CommitFails(w)
  BY <1>3 DEF CreateBackup, CreateBackupFails, WithoutBackup, Commit, CommitFails, Throw
<1>7. CASE UnlinkObsolete(w) \/ PruneJournal(w) \/ PruneFails(w)
  BY <1>7 DEF UnlinkObsolete, PruneJournal, PruneFails, WithoutBackup, Throw
<1>4. CASE Verify(w) \/ VerifyFails(w) \/ AfterFailure(w)
  BY <1>4 DEF Verify, VerifyFails, AfterFailure, Throw, GiveUp, Return
<1>5. CASE Quarantine(w) \/ QuarantineFails(w)
  BY <1>5 DEF Quarantine, QuarantineFails, Throw
<1>6. CASE Restore(w) \/ RestoreFails(w)
  BY <1>6 DEF Restore, RestoreFails, GiveUp, Return
<1> QED
  BY <1>1, <1>2, <1>3, <1>4, <1>5, <1>6, <1>7 DEF Step

(***************************************************************************)
(* Every step keeps the lock exclusive: only its holder is inside an       *)
(* operation.                                                              *)
(***************************************************************************)
LEMMA SerialKept ==
  ASSUME LockTypes, Serial, [Next]_vars
  PROVE  Serial'
<1> USE DEF LockTypes, Serial
<1>1. CASE UNCHANGED vars
  BY <1>1 DEF vars
<1>2. CASE Damage
  BY <1>2 DEF Damage
<1>3. ASSUME NEW w \in Windows, BeginLoad(w) \/ BeginPeek(w) \/ BeginWrite(w)
      PROVE  Serial'
  <2>1. Begin(w, "load") \/ Begin(w, "peek") \/ Begin(w, "write")
    BY <1>3 DEF BeginLoad, BeginPeek, BeginWrite
  <2>2. \A v \in Windows : op[v].kind = "none"
    BY <2>1, NoneIsNoWindow DEF Begin
  <2>3. \A v \in Windows : v # w => op'[v] = op[v]
    BY <2>1 DEF Begin
  <2> QED
    BY <2>1, <2>2, <2>3 DEF Begin
<1>4. ASSUME NEW w \in Windows, Step(w)
      PROVE  Serial'
  <2>1. op[w].kind # "none" /\ ((\E o : Continue(w, o)) \/ Finish(w))
    BY <1>4, StepShape
  <2>2. CASE \E o : Continue(w, o)
    BY <2>1, <2>2 DEF Continue
  <2>3. CASE Finish(w)
    BY <2>1, <2>3 DEF Finish, NoOp
  <2> QED
    BY <2>1, <2>2, <2>3
<1>5. ASSUME NEW w \in Windows, Reopen(w)
      PROVE  Serial'
  BY <1>5 DEF Reopen, NoOp
<1> QED
  BY <1>1, <1>2, <1>3, <1>4, <1>5 DEF Next

(***************************************************************************)
(* While one window is inside an operation, no other window is.            *)
(***************************************************************************)
LEMMA OthersIdle ==
  ASSUME Serial, NEW v \in Windows, NEW w \in Windows, op[w].kind # "none", v # w
  PROVE  op[v].kind = "none"
  BY DEF Serial

(***************************************************************************)
(* TypeInv is inductive.                                                   *)
(***************************************************************************)
LEMMA TypeInvariant ==
  /\ Init => TypeInv
  /\ TypeInv /\ [Next]_vars => TypeInv'
<1>1. Init => TypeInv
  <2> SUFFICES ASSUME Init PROVE TypeInv
    OBVIOUS
  <2>1. primary \in Document /\ last \in Document /\ primary.rev \in Nat /\ primary.data \in Contents
    BY InitialDocsReadable DEF Init, Document
  <2>2. includes \in [Contents -> SUBSET Contents]
    BY DocumentFacts DEF Init
  <2>3. past \subseteq Nat \X Contents
    BY <2>1 DEF Init
  <2>4. TypeOK
    BY <2>1, <2>2, <2>3, DocumentFacts, Parameters DEF Init, TypeOK
  <2>5. Serial
    BY DEF Init, Serial, NoOp
  <2> QED
    BY <2>4, <2>5 DEF TypeInv
<1>2. TypeInv /\ [Next]_vars => TypeInv'
  <2> SUFFICES ASSUME TypeInv, [Next]_vars PROVE TypeInv'
    OBVIOUS
  <2>1. LockTypes /\ Serial /\ TypeOK
    BY TypeParts DEF TypeInv
  <2>2. Serial'
    BY <2>1, SerialKept
  <2>3. TypeOK'
    <3>1. CASE UNCHANGED vars
      BY <2>1, <3>1 DEF vars, TypeOK
    <3>2. CASE Damage
      <4>1. primary' \in Document
        BY <3>2, DocumentFacts DEF Damage
      <4>2. damage' \in 0 .. MaxDamage
        BY <2>1, <3>2, Parameters DEF Damage, TypeOK
      <4> QED
        BY <2>1, <3>2, <4>1, <4>2 DEF Damage, TypeOK, windowVars, history
    <3>3. ASSUME NEW w \in Windows, BeginLoad(w) \/ BeginPeek(w) \/ BeginWrite(w)
          PROVE  TypeOK'
      <4>1. ASSUME NEW kind \in Calls, Begin(w, kind), ContentTypes',
                   kind = "write" => used + 2 \in Contents
            PROVE  TypeOK'
        <5>1. (IF kind = "write" THEN used + 2 ELSE Nothing) \in Contents
          BY <4>1, DocumentFacts
        <5>2. \A d \in Contents : [NoOp EXCEPT !.kind = kind, !.data = d] \in Operation
          BY DocumentFacts DEF Operation
        <5>3. op' \in [Windows -> Operation]
          BY <2>1, <4>1, <5>1, <5>2 DEF Begin, TypeOK
        <5> QED
          BY <2>1, <4>1, <5>3 DEF Begin, TypeOK, ContentTypes, windowVars, history
      <4>2. CASE BeginWrite(w)
        <5>1. used + 2 \in Contents /\ used + 1 \in 0 .. MaxWrites
          BY <2>1, <4>2, Parameters DEF TypeOK, BeginWrite, Contents
        <5>2. includes' \in [Contents -> SUBSET Contents]
          <6>1. view[w] # Never => includes[view[w]] \in SUBSET Contents
            BY <2>1 DEF TypeOK
          <6>2. includes[used + 2] \in SUBSET Contents
            BY <2>1, <5>1 DEF TypeOK
          <6> QED
            BY <2>1, <4>2, <5>1, <6>1, <6>2 DEF TypeOK, BeginWrite
        <5>3. ContentTypes'
          BY <2>1, <4>2, <5>1, <5>2 DEF TypeOK, ContentTypes, BeginWrite, Begin
        <5> QED
          BY <4>1, <4>2, <5>1, <5>3 DEF BeginWrite, Calls
      <4>3. CASE BeginLoad(w) \/ BeginPeek(w)
        <5>1. ContentTypes'
          BY <2>1, <4>3 DEF TypeOK, ContentTypes, BeginLoad, BeginPeek, Begin
        <5> QED
          BY <4>1, <4>3, <5>1 DEF BeginLoad, BeginPeek, Calls
      <4> QED
        BY <3>3, <4>2, <4>3
    <3>4. ASSUME NEW w \in Windows, Step(w)
          PROVE  TypeOK'
      BY <2>1, <3>4, StepTypes
    <3>5. ASSUME NEW w \in Windows, Reopen(w)
          PROVE  TypeOK'
      BY <2>1, <3>5, DocumentFacts DEF Reopen, TypeOK, history
    <3> QED
      BY <3>1, <3>2, <3>3, <3>4, <3>5 DEF Next
  <2> QED
    BY <2>2, <2>3 DEF TypeInv
<1> QED
  BY <1>1, <1>2

(***************************************************************************)
(* The states of the model are well typed, for any initial documents,      *)
(* faults, deaths and damage: Spec keeps TypeOK.                           *)
(***************************************************************************)
THEOREM TypeCorrect == Spec => []TypeOK
<1>1. TypeInv => TypeOK
  BY DEF TypeInv
<1> QED
  BY <1>1, TypeInvariant, PTL DEF Spec
-----------------------------------------------------------------------------
(***************************************************************************)
(* A file that was never legacy and never becomes unreadable: there is     *)
(* nothing to migrate or to recover.  Everything else may go wrong: any    *)
(* file operation may fail and any window may die inside any operation.    *)
(***************************************************************************)
AlwaysReadable ==
  /\ \A doc \in InitialDocs : doc.kind # "legacy"
  /\ MaxDamage = 0

FileReadable ==
  /\ primary = last
  /\ primary.kind \in {"absent", "outdated", "envelope"}

(***************************************************************************)
(* What the holder of the lock knows at each stage: the document it read   *)
(* is the one on disk, the one it is about to commit is the next revision, *)
(* and a write got this far only with a matching revision.                 *)
(***************************************************************************)
Commits(o) ==
  /\ o.cur = primary
  /\ o.next.rev = primary.rev + 1
  /\ o.next.kind = "envelope"

Matched(w) ==
  /\ w \notin readOnly
  /\ known[w] \in {Never, primary.rev}

StageInv(w) ==
  LET o == op[w] IN
  o.kind # "none" =>
    /\ o.stage \notin {"recover", "restore"}
    /\ o.stage = "compare" => ~Reading(w) /\ o.cur = primary /\ w \notin readOnly
    /\ o.stage \in {"backup", "unlink", "prune", "commit", "verify", "failed"} =>
         o.task = (IF Reading(w) THEN "normalise" ELSE "write")
    /\ o.stage \in {"backup", "unlink", "prune", "commit"} =>
         Commits(o) /\ (~Reading(w) => Matched(w))
    /\ o.stage = "verify" => o.next = primary

RevisionInv ==
  /\ FileReadable
  /\ KnownMeansSeen
  /\ \A w \in Windows : StageInv(w)

(***************************************************************************)
(* A step of a locked operation keeps RevisionInv: the revision on disk    *)
(* only grows, and the window that changes it remembers what it wrote.     *)
(***************************************************************************)
LEMMA RevisionStep ==
  ASSUME TypeInv, RevisionInv, NEW w \in Windows, Step(w)
  PROVE  RevisionInv'
<1>0. /\ op[w].kind # "none" /\ op[w] \in Operation /\ LockTypes /\ WindowTypes
      /\ primary \in Document /\ primary.rev \in Nat /\ StageInv(w) /\ FileReadable
      /\ KnownMeansSeen /\ last = primary
  BY StepShape, TypeParts DEF TypeInv, RevisionInv, LockTypes, FileTypes, Document, FileReadable
<1>1. \A v \in Windows : v # w => op[v].kind = "none" /\ op'[v] = op[v]
  BY <1>0, StepShape, OthersIdle DEF TypeInv, LockTypes, Continue, Finish
<1>2. ASSUME FileReadable', KnownMeansSeen', StageInv(w)'
      PROVE  RevisionInv'
  BY <1>1, <1>2 DEF RevisionInv, StageInv
<1>3. ASSUME Finish(w)
      PROVE  StageInv(w)'
  BY <1>0, <1>3 DEF LockTypes, StageInv, Finish, NoOp
<1>4. UNCHANGED <<primary, history>> => FileReadable'
  BY <1>0 DEF FileReadable, history
<1>5. UNCHANGED <<primary, history, known, cache>> => KnownMeansSeen'
  BY <1>0 DEF KnownMeansSeen, history
<1>6. UNCHANGED <<primary, history>> /\ RememberEnvelope(w, primary) => KnownMeansSeen'
  BY <1>0 DEF KnownMeansSeen, history, RememberEnvelope, WindowTypes
<1>7. CASE ReadCurrent(w)
  BY <1>0, <1>2, <1>3, <1>4, <1>6, <1>7 DEF ReadCurrent, Return, history
<1>8. CASE ReadOutdated(w)
  <2>1. UNCHANGED <<primary, history>> /\ UNCHANGED <<known, cache, readOnly>>
    BY <1>8 DEF ReadOutdated, windowVars
  <2>2. op'[w] = [op[w] EXCEPT !.stage = "backup", !.task = "normalise",
                    !.cur = primary, !.next = Envelope(primary.rev + 1, primary.data)]
    BY <1>0, <1>8 DEF ReadOutdated, Continue, LockTypes
  <2>3. Reading(w) /\ op'[w].kind = op[w].kind
    BY <1>0, <1>8, <2>2 DEF ReadOutdated, Operation
  <2>4. StageInv(w)'
    BY <1>0, <2>1, <2>2, <2>3 DEF StageInv, Operation, Reading, Commits, Envelope
  <2> QED
    BY <1>2, <1>4, <1>5, <2>1, <2>4
<1>9. CASE CheckWrite(w)
  <2>1. UNCHANGED <<primary, history>> /\ UNCHANGED <<known, cache, readOnly>>
    BY <1>9 DEF CheckWrite, windowVars
  <2>2. op'[w] = [op[w] EXCEPT !.stage = "compare", !.cur = primary]
    BY <1>0, <1>9 DEF CheckWrite, Continue, LockTypes
  <2>3. op[w].kind = "write" /\ op'[w].kind = "write" /\ w \notin readOnly
    BY <1>0, <1>9, <2>2 DEF CheckWrite, Operation
  <2>4. StageInv(w)'
    BY <1>0, <2>1, <2>2, <2>3 DEF StageInv, Operation, Reading
  <2> QED
    BY <1>2, <1>4, <1>5, <2>1, <2>4
<1>10. CASE CompareRevision(w)
  <2>1. UNCHANGED <<primary, history>> /\ UNCHANGED <<known, cache, readOnly>>
    BY <1>10 DEF CompareRevision, windowVars
  <2>2. op[w].cur = primary /\ ~Reading(w) /\ w \notin readOnly /\ RevisionMatches(w)
    BY <1>0, <1>10 DEF CompareRevision, StageInv, At
  <2>3. op'[w] = [op[w] EXCEPT !.task = "write",
                    !.stage = IF Versioned(op[w].cur) THEN "backup" ELSE "commit",
                    !.next = Envelope(op[w].cur.rev + 1, op[w].data)]
    BY <1>0, <1>10 DEF CompareRevision, Continue, LockTypes
  <2>4. /\ op'[w].kind = op[w].kind /\ op'[w].task = "write" /\ op'[w].cur = primary
        /\ op'[w].stage \in {"backup", "commit"}
        /\ op'[w].next = Envelope(primary.rev + 1, op[w].data)
    BY <1>0, <2>2, <2>3 DEF Operation
  <2>5. StageInv(w)'
    BY <1>0, <2>1, <2>2, <2>4 DEF StageInv, Reading, Commits, Matched, RevisionMatches, Envelope
  <2> QED
    BY <1>2, <1>4, <1>5, <2>1, <2>5
<1>11. CASE CreateBackup(w)
  <2>1. UNCHANGED <<primary, history>> /\ UNCHANGED <<known, cache, readOnly>>
    BY <1>11 DEF CreateBackup, windowVars
  <2>2. /\ op[w].stage = "backup"
        /\ \E s \in {"unlink", "commit"}, i \in BackupPositions :
             op'[w] = [op[w] EXCEPT !.stage = s, !.slot = i]
    BY <1>0, <1>11 DEF CreateBackup, Continue, LockTypes, At
  <2>3. StageInv(w)'
    BY <1>0, <2>1, <2>2 DEF StageInv, Operation, Reading, Commits, Matched
  <2> QED
    BY <1>2, <1>4, <1>5, <2>1, <2>3
<1>20. CASE UnlinkObsolete(w) \/ PruneJournal(w)
  <2>1. UNCHANGED <<primary, history>> /\ UNCHANGED <<known, cache, readOnly>>
    BY <1>20 DEF UnlinkObsolete, PruneJournal, windowVars
  <2>2. /\ op[w].stage \in {"unlink", "prune"}
        /\ \E s \in {"prune", "commit"} : op'[w] = [op[w] EXCEPT !.stage = s]
    BY <1>0, <1>20 DEF UnlinkObsolete, PruneJournal, Continue, LockTypes, At
  <2>3. StageInv(w)'
    BY <1>0, <2>1, <2>2 DEF StageInv, Operation, Reading, Commits, Matched
  <2> QED
    BY <1>2, <1>4, <1>5, <2>1, <2>3
<1>12. CASE Commit(w)
  <2>1. /\ UNCHANGED <<known, cache, readOnly>> /\ op[w].stage = "commit"
        /\ primary' = op[w].next /\ last' = op[w].next
    BY <1>12 DEF Commit, windowVars, Replace, At
  <2>2. op'[w] = [op[w] EXCEPT !.stage = "verify"]
    BY <1>0, <1>12 DEF Commit, Continue, LockTypes
  <2>3. op[w].next.rev = primary.rev + 1 /\ op[w].next.kind = "envelope"
    BY <1>0, <2>1 DEF StageInv, Commits
  <2>4. FileReadable'
    BY <2>1, <2>3 DEF FileReadable
  <2>5. KnownMeansSeen'
    <3>1. \A v \in Windows : known[v] \in Nat \cup {Never} /\ known'[v] = known[v]
      BY <1>0, <2>1 DEF WindowTypes
    <3>2. \A v \in Windows : known[v] # Never => known[v] <= primary.rev
      BY <1>0 DEF KnownMeansSeen
    <3>3. last'.rev = primary.rev + 1
      BY <2>1, <2>3
    <3>4. \A v \in Windows : known'[v] # Never => known'[v] <= last'.rev /\ known'[v] # last'.rev
      BY <1>0, <3>1, <3>2, <3>3 DEF Never
    <3> QED
      BY <3>4 DEF KnownMeansSeen
  <2>6. StageInv(w)'
    BY <1>0, <2>1, <2>2 DEF StageInv, Operation, Reading
  <2> QED
    BY <1>2, <2>4, <2>5, <2>6
<1>13. CASE CommitFails(w) \/ VerifyFails(w)
  <2>1. UNCHANGED <<primary, history>> /\ UNCHANGED <<known, cache, readOnly>>
    BY <1>13 DEF CommitFails, VerifyFails, windowVars
  <2>2. op'[w] = [op[w] EXCEPT !.stage = "failed"] /\ op[w].stage \in {"commit", "verify"}
    BY <1>0, <1>13 DEF CommitFails, VerifyFails, Continue, LockTypes, At
  <2>3. StageInv(w)'
    BY <1>0, <2>1, <2>2 DEF StageInv, Operation, Reading
  <2> QED
    BY <1>2, <1>4, <1>5, <2>1, <2>3
<1>14. CASE CreateBackupFails(w) \/ PruneFails(w)
  <2>1. UNCHANGED <<primary, history>> /\ UNCHANGED <<known, cache, readOnly>>
    BY <1>14 DEF CreateBackupFails, PruneFails, WithoutBackup, windowVars, Throw
  <2>2. op[w].stage \in {"backup", "prune"} /\ op[w].task # "migrate"
    BY <1>0, <1>14 DEF CreateBackupFails, PruneFails, StageInv, At
  <2>3. \/ Finish(w)
        \/ /\ Continue(w, [op[w] EXCEPT !.stage = "failed"])
     BY <1>14, <2>2 DEF CreateBackupFails, PruneFails, WithoutBackup, Throw
  <2>4. StageInv(w)'
    <3>1. CASE Continue(w, [op[w] EXCEPT !.stage = "failed"])
      <4>1. op'[w] = [op[w] EXCEPT !.stage = "failed"]
        BY <1>0, <3>1 DEF Continue, LockTypes
      <4> QED
        BY <1>0, <2>1, <2>2, <4>1 DEF StageInv, Operation, Reading
    <3> QED
      BY <1>3, <2>3, <3>1
  <2> QED
    BY <1>2, <1>4, <1>5, <2>1, <2>4
<1>15. CASE AfterFailure(w)
  <2>1. op[w].stage = "failed" /\ op[w].task # "migrate" /\ Readable(primary)
    BY <1>0, <1>15 DEF AfterFailure, StageInv, At, FileReadable, Readable
  <2>2. UNCHANGED <<primary, history>> /\ UNCHANGED <<known, cache>> /\ Finish(w)
    BY <1>15, <2>1 DEF AfterFailure, windowVars, Throw, GiveUp, Return
  <2> QED
    BY <1>2, <1>3, <1>4, <1>5, <2>2
<1>16. CASE Verify(w)
  <2>1. op[w].stage = "verify" /\ op[w].task # "migrate"
    BY <1>0, <1>16 DEF Verify, StageInv, At
  <2>2. UNCHANGED <<primary, history>> /\ RememberEnvelope(w, primary) /\ Finish(w)
    BY <1>16, <2>1 DEF Verify, Return
  <2> QED
    BY <1>2, <1>3, <1>4, <1>6, <2>2
<1>17. CASE RefuseWrite(w) \/ Conflict(w)
  <2>1. UNCHANGED <<primary, history>> /\ UNCHANGED <<known, cache>> /\ Finish(w)
    BY <1>17 DEF RefuseWrite, Conflict, Throw, windowVars
  <2> QED
    BY <1>2, <1>3, <1>4, <1>5, <2>1
<1>18. ~(ReadLegacy(w) \/ FindCorrupt(w) \/ FindFuture(w))
  BY <1>0 DEF ReadLegacy, FindCorrupt, FindFuture, FileReadable
<1>19. ~(NoRecovery(w) \/ Quarantine(w) \/ QuarantineFails(w) \/ Restore(w) \/ RestoreFails(w))
  BY <1>0 DEF NoRecovery, Quarantine, QuarantineFails, Restore, RestoreFails, StageInv, At
<1> QED
  BY <1>7, <1>8, <1>9, <1>10, <1>11, <1>12, <1>13, <1>14, <1>15, <1>16, <1>17, <1>18, <1>19, <1>20
  DEF Step

(***************************************************************************)
(* Relative to TypeInv, RevisionInv is inductive for a file that stays     *)
(* readable.                                                               *)
(***************************************************************************)
LEMMA RevisionInvariant ==
  ASSUME AlwaysReadable
  PROVE  /\ Init => RevisionInv
         /\ TypeInv /\ RevisionInv /\ [Next]_vars => RevisionInv'
<1>1. Init => RevisionInv
  <2> SUFFICES ASSUME Init PROVE RevisionInv
    OBVIOUS
  <2>1. primary \in InitialDocs /\ primary = last
    BY DEF Init
  <2>2. FileReadable
    BY <2>1, InitialDocsReadable DEF AlwaysReadable, FileReadable, Readable
  <2>3. KnownMeansSeen /\ \A w \in Windows : StageInv(w)
    BY DEF Init, KnownMeansSeen, StageInv, NoOp
  <2> QED
    BY <2>2, <2>3 DEF RevisionInv
<1>2. TypeInv /\ RevisionInv /\ [Next]_vars => RevisionInv'
  <2> SUFFICES ASSUME TypeInv, RevisionInv, [Next]_vars PROVE RevisionInv'
    OBVIOUS
  <2>0. LockTypes /\ WindowTypes /\ Serial
    BY TypeParts DEF TypeInv
  <2>1. CASE UNCHANGED vars
    BY <2>1 DEF vars, RevisionInv, FileReadable, KnownMeansSeen, StageInv, Commits, Matched, Reading
  <2>2. ~Damage
    BY DEF AlwaysReadable, Damage, TypeInv, TypeOK
  <2>3. ASSUME NEW w \in Windows, BeginLoad(w) \/ BeginPeek(w) \/ BeginWrite(w)
        PROVE  RevisionInv'
    <3>1. PICK kind \in Calls : Begin(w, kind)
      BY <2>3 DEF BeginLoad, BeginPeek, BeginWrite, Calls
    <3>2. UNCHANGED <<primary, windowVars, history>>
      BY <3>1 DEF Begin
    <3>3. op'[w].stage = "check" /\ \A v \in Windows \ {w} : op'[v] = op[v]
      BY <2>0, <3>1 DEF Begin, LockTypes, NoOp
    <3>4. FileReadable' /\ KnownMeansSeen'
      BY <3>2 DEF RevisionInv, FileReadable, KnownMeansSeen, windowVars, history
    <3>5. \A v \in Windows : StageInv(v)'
      BY <3>2, <3>3 DEF RevisionInv, StageInv, Commits, Matched, Reading, windowVars
    <3> QED
      BY <3>4, <3>5 DEF RevisionInv
  <2>4. ASSUME NEW w \in Windows, Step(w)
        PROVE  RevisionInv'
    BY <2>4, RevisionStep
  <2>5. ASSUME NEW w \in Windows, Reopen(w)
        PROVE  RevisionInv'
    <3>1. UNCHANGED <<primary, history>>
      BY <2>5 DEF Reopen
    <3>2. /\ op'[w].kind = "none" /\ known'[w] = Never
          /\ \A v \in Windows :
               v # w => /\ op'[v] = op[v] /\ known'[v] = known[v]
                        /\ cache'[v] = cache[v]
                        /\ (v \in readOnly') = (v \in readOnly)
      BY <2>0, <2>5 DEF Reopen, LockTypes, WindowTypes, NoOp
    <3>3. FileReadable'
      BY <3>1 DEF RevisionInv, FileReadable, history
    <3>4. ASSUME NEW v \in Windows, known'[v] # Never
          PROVE  known'[v] <= last'.rev /\ (known'[v] = last'.rev => cache'[v] = last'.data)
      <4>1. known'[v] = known[v] /\ cache'[v] = cache[v] /\ last' = last
        BY <3>1, <3>2, <3>4 DEF history
      <4> QED
        BY <3>4, <4>1 DEF RevisionInv, KnownMeansSeen
    <3>5. ASSUME NEW v \in Windows
          PROVE  StageInv(v)'
      <4>1. CASE v = w
        BY <3>2, <4>1 DEF StageInv
      <4>2. CASE v # w
        <5>1. /\ op'[v] = op[v] /\ known'[v] = known[v] /\ primary' = primary
              /\ (v \in readOnly') = (v \in readOnly)
          BY <3>1, <3>2, <4>2
        <5> QED
          BY <5>1 DEF RevisionInv, StageInv, Commits, Matched, Reading
      <4> QED
        BY <4>1, <4>2
    <3>6. KnownMeansSeen'
      BY <3>4 DEF KnownMeansSeen
    <3> QED
      BY <3>3, <3>5, <3>6 DEF RevisionInv
  <2> QED
    BY <2>1, <2>2, <2>3, <2>4, <2>5 DEF Next
<1> QED
  BY <1>1, <1>2

(***************************************************************************)
(* While the file stays readable, a known revision names the one content   *)
(* the window has cached, whatever fails and whoever dies.                 *)
(***************************************************************************)
THEOREM KnownIsSeen ==
  ASSUME AlwaysReadable
  PROVE  Spec => []KnownMeansSeen
<1>1. RevisionInv => KnownMeansSeen
  BY DEF RevisionInv
<1>2. Init => RevisionInv
  BY RevisionInvariant
<1>3. TypeInv /\ RevisionInv /\ [Next]_vars => RevisionInv'
  BY RevisionInvariant
<1> QED
  BY <1>1, <1>2, <1>3, TypeInvariant, PTL DEF Spec

(***************************************************************************)
(* Applications that adopt every result they read and write only after     *)
(* having loaded the document.                                             *)
(***************************************************************************)
ResultsShown == PeekingWindows = {} /\ BlindWriters = {}

(***************************************************************************)
(* Why a write loses nothing: outside read-only mode the application shows *)
(* the content its known revision belongs to, and what it writes contains  *)
(* what it shows.                                                          *)
(***************************************************************************)
Shows(w) ==
  w \notin readOnly /\ view[w] # Never => known[w] # Never /\ cache[w] = view[w]

WritesWhatItShows(w) ==
  op[w].kind = "write" => view[w] # Never /\ view[w] \in includes[op[w].data]

ShownInv ==
  /\ \A d \in Contents : d \in includes[d]
  /\ \A w \in Windows : Shows(w) /\ WritesWhatItShows(w) /\ op[w].kind # "peek"

(***************************************************************************)
(* A step of a locked operation keeps ShownInv: a read that becomes known  *)
(* becomes the application's state, and so does a write.                   *)
(***************************************************************************)
LEMMA ShownStep ==
  ASSUME TypeInv, RevisionInv, ShownInv, NEW w \in Windows, Step(w)
  PROVE  ShownInv'
<1>0. /\ op[w].kind # "none" /\ op[w] \in Operation /\ LockTypes /\ WindowTypes
      /\ StageInv(w) /\ FileReadable /\ primary.rev \in Nat /\ primary.data \in Contents
      /\ Shows(w) /\ WritesWhatItShows(w) /\ op[w].kind # "peek"
  BY StepShape, TypeParts DEF TypeInv, RevisionInv, LockTypes, FileTypes, Document, ShownInv
<1>1. \A v \in Windows : v # w => op[v].kind = "none" /\ op'[v] = op[v]
  BY <1>0, StepShape, OthersIdle DEF TypeInv, LockTypes, Continue, Finish
<1>2. includes' = includes
  <2>1. CASE ReadCurrent(w) \/ ReadOutdated(w) \/ ReadLegacy(w) \/ FindCorrupt(w) \/ FindFuture(w)
    BY <2>1 DEF ReadCurrent, ReadOutdated, ReadLegacy, FindCorrupt, FindFuture
  <2>2. CASE RefuseWrite(w) \/ CheckWrite(w) \/ CompareRevision(w) \/ Conflict(w)
    BY <2>2 DEF RefuseWrite, CheckWrite, CompareRevision, Conflict
  <2>3. CASE \/ CreateBackup(w) \/ CreateBackupFails(w) \/ Commit(w) \/ CommitFails(w)
             \/ Verify(w) \/ VerifyFails(w) \/ AfterFailure(w)
    BY <2>3 DEF CreateBackup, CreateBackupFails, Commit, CommitFails, Verify, VerifyFails, AfterFailure
  <2>4. CASE NoRecovery(w) \/ Quarantine(w) \/ QuarantineFails(w) \/ Restore(w) \/ RestoreFails(w)
    BY <2>4 DEF NoRecovery, Quarantine, QuarantineFails, Restore, RestoreFails
  <2>5. CASE UnlinkObsolete(w) \/ PruneJournal(w) \/ PruneFails(w)
    BY <2>5 DEF UnlinkObsolete, PruneJournal, PruneFails
  <2> QED
    BY <2>1, <2>2, <2>3, <2>4, <2>5 DEF Step
<1>3. ASSUME \A v \in Windows : v # w => UNCHANGED <<known[v], cache[v], view[v], (v \in readOnly)>>,
             Shows(w)', WritesWhatItShows(w)', op'[w].kind # "peek"
      PROVE  ShownInv'
  <2>1. ASSUME NEW v \in Windows
        PROVE  Shows(v)' /\ WritesWhatItShows(v)' /\ op'[v].kind # "peek"
    <3>1. CASE v = w
      BY <1>3, <3>1
    <3>2. CASE v # w
      <4>1. /\ op'[v] = op[v] /\ known'[v] = known[v] /\ cache'[v] = cache[v]
            /\ view'[v] = view[v] /\ (v \in readOnly') = (v \in readOnly)
        BY <1>1, <1>3, <3>2
      <4> QED
        BY <1>2, <4>1 DEF ShownInv, Shows, WritesWhatItShows
    <3> QED
      BY <3>1, <3>2
  <2> QED
    BY <1>2, <2>1 DEF ShownInv
<1>4. Finish(w) => WritesWhatItShows(w)' /\ op'[w].kind # "peek"
  BY <1>0 DEF Finish, LockTypes, NoOp, WritesWhatItShows
<1>5. /\ UNCHANGED windowVars
      /\ Finish(w) \/ (op'[w].kind = op[w].kind /\ op'[w].data = op[w].data)
      => ShownInv'
  BY <1>0, <1>2, <1>3, <1>4 DEF windowVars, Shows, WritesWhatItShows
<1>6. CASE ReadCurrent(w)
  <2>1. Finish(w) /\ UNCHANGED readOnly /\ view' = [view EXCEPT ![w] = primary.data]
        /\ RememberEnvelope(w, primary)
    BY <1>0, <1>6 DEF ReadCurrent, Return
  <2> QED
    BY <1>0, <1>3, <1>4, <2>1 DEF RememberEnvelope, WindowTypes, Shows, Never
<1>7. CASE Verify(w)
  <2>1. op[w].stage = "verify" /\ op[w].task # "migrate"
    BY <1>0, <1>7 DEF Verify, StageInv, At
  <2>2. Finish(w) /\ UNCHANGED readOnly /\ view' = [view EXCEPT ![w] = primary.data]
        /\ RememberEnvelope(w, primary)
    BY <1>0, <1>7, <2>1 DEF Verify, Return
  <2> QED
    BY <1>0, <1>3, <1>4, <2>2 DEF RememberEnvelope, WindowTypes, Shows, Never
<1>8. CASE Conflict(w)
  <2>1. Finish(w) /\ UNCHANGED <<known, cache, view>> /\ readOnly' = readOnly \cup {w}
    BY <1>8 DEF Conflict, EnterReadOnly
  <2> QED
    BY <1>3, <1>4, <2>1 DEF Shows
<1>9. CASE AfterFailure(w)
  <2>1. op[w].stage = "failed" /\ op[w].task # "migrate" /\ Readable(primary)
    BY <1>0, <1>9 DEF AfterFailure, StageInv, At, FileReadable, Readable
  <2>2. \/ Throw(w)
        \/ /\ Finish(w) /\ UNCHANGED <<known, cache>> /\ readOnly' = readOnly \cup {w}
           /\ view' = view \/ view' = [view EXCEPT ![w] = Nothing]
    BY <1>9, <2>1 DEF AfterFailure, EnterReadOnly, GiveUp, Return
  <2>3. CASE Throw(w)
    BY <1>5, <2>3 DEF Throw
  <2>4. CASE ~Throw(w)
    <3>1. Shows(w)'
      BY <2>2, <2>4 DEF Shows
    <3>2. \A v \in Windows : v # w => UNCHANGED <<known[v], cache[v], view[v], (v \in readOnly)>>
      BY <1>0, <2>2, <2>4 DEF WindowTypes
    <3> QED
      BY <1>3, <1>4, <2>2, <2>4, <3>1, <3>2
  <2> QED
    BY <2>3, <2>4
<1>10. CASE RefuseWrite(w)
  BY <1>5, <1>10 DEF RefuseWrite, Throw
<1>11. CASE ReadOutdated(w) \/ CheckWrite(w) \/ CompareRevision(w)
  <2>1. UNCHANGED windowVars
    BY <1>11 DEF ReadOutdated, CheckWrite, CompareRevision
  <2>2. op'[w].kind = op[w].kind /\ op'[w].data = op[w].data
    <3>1. CASE ReadOutdated(w)
      BY <1>0, <3>1 DEF ReadOutdated, Continue, LockTypes, Operation
    <3>2. CASE CheckWrite(w)
      BY <1>0, <3>2 DEF CheckWrite, Continue, LockTypes, Operation
    <3>3. CASE CompareRevision(w)
      BY <1>0, <3>3 DEF CompareRevision, Continue, LockTypes, Operation
    <3> QED
      BY <1>11, <3>1, <3>2, <3>3
  <2> QED
    BY <1>5, <2>1, <2>2
<1>12. CASE CreateBackup(w) \/ UnlinkObsolete(w) \/ PruneJournal(w)
  <2>1. UNCHANGED windowVars
    BY <1>12 DEF CreateBackup, UnlinkObsolete, PruneJournal
  <2>2. op'[w].kind = op[w].kind /\ op'[w].data = op[w].data
    <3>1. \E s \in Stages, n \in Nat \cup {op[w].slot} :
            op'[w] = [op[w] EXCEPT !.stage = s, !.slot = n]
      <4>1. CASE CreateBackup(w)
        <5>1. PICK i \in BackupPositions, s \in {"unlink", "commit"} :
                Continue(w, [op[w] EXCEPT !.stage = s, !.slot = i])
          BY <4>1 DEF CreateBackup
        <5>2. i \in Nat /\ s \in Stages
          BY <5>1 DEF BackupPositions, Stages, TypeInv, TypeOK
        <5> QED
          BY <1>0, <5>1, <5>2 DEF Continue, LockTypes
      <4>2. CASE UnlinkObsolete(w) \/ PruneJournal(w)
        <5>1. \E s \in {"prune", "commit"} : Continue(w, [op[w] EXCEPT !.stage = s])
          BY <4>2 DEF UnlinkObsolete, PruneJournal
        <5>2. PICK s \in {"prune", "commit"} : op'[w] = [op[w] EXCEPT !.stage = s]
          BY <1>0, <5>1 DEF Continue, LockTypes
        <5>3. s \in Stages
          BY DEF Stages
        <5>4. [op[w] EXCEPT !.stage = s] = [op[w] EXCEPT !.stage = s, !.slot = op[w].slot]
          BY <1>0 DEF Operation
        <5> QED
          BY <5>2, <5>3, <5>4
      <4> QED
        BY <1>12, <4>1, <4>2
    <3> QED
      BY <1>0, <3>1 DEF Operation
  <2> QED
    BY <1>5, <2>1, <2>2
<1>14. CASE CreateBackupFails(w) \/ PruneFails(w)
  <2>1. UNCHANGED windowVars
    BY <1>14 DEF CreateBackupFails, PruneFails, WithoutBackup, Throw
  <2>2. Finish(w) \/ (op'[w].kind = op[w].kind /\ op'[w].data = op[w].data)
    <3>1. CASE ~Finish(w)
      BY <1>0, <1>14, <3>1
      DEF CreateBackupFails, PruneFails, WithoutBackup, Throw, Continue, LockTypes, Operation
    <3> QED
      BY <3>1
  <2> QED
    BY <1>5, <2>1, <2>2
<1>13. CASE Commit(w) \/ CommitFails(w) \/ VerifyFails(w)
  <2>1. UNCHANGED windowVars
    BY <1>13 DEF Commit, CommitFails, VerifyFails
  <2>2. op'[w].kind = op[w].kind /\ op'[w].data = op[w].data
    BY <1>0, <1>13 DEF Commit, CommitFails, VerifyFails, Continue, LockTypes, Operation
  <2> QED
    BY <1>5, <2>1, <2>2
<1>18. ~(ReadLegacy(w) \/ FindCorrupt(w) \/ FindFuture(w))
  BY <1>0 DEF ReadLegacy, FindCorrupt, FindFuture, FileReadable
<1>19. ~(NoRecovery(w) \/ Quarantine(w) \/ QuarantineFails(w) \/ Restore(w) \/ RestoreFails(w))
  BY <1>0 DEF NoRecovery, Quarantine, QuarantineFails, Restore, RestoreFails, StageInv, At
<1> QED
  BY <1>6, <1>7, <1>8, <1>9, <1>10, <1>11, <1>12, <1>13, <1>14, <1>18, <1>19 DEF Step

(***************************************************************************)
(* Relative to TypeInv and RevisionInv, ShownInv is inductive when         *)
(* applications adopt what they read and write only what they have loaded. *)
(***************************************************************************)
LEMMA ShownInvariant ==
  ASSUME AlwaysReadable, ResultsShown
  PROVE  /\ Init => ShownInv
         /\ TypeInv /\ RevisionInv /\ ShownInv /\ [Next]_vars => ShownInv'
<1>1. Init => ShownInv
  BY DEF Init, ShownInv, Shows, WritesWhatItShows, NoOp
<1>2. TypeInv /\ RevisionInv /\ ShownInv /\ [Next]_vars => ShownInv'
  <2> SUFFICES ASSUME TypeInv, RevisionInv, ShownInv, [Next]_vars PROVE ShownInv'
    OBVIOUS
  <2>0. LockTypes /\ WindowTypes /\ Serial
    BY TypeParts DEF TypeInv
  <2>1. CASE UNCHANGED vars
    BY <2>1 DEF vars, ShownInv, Shows, WritesWhatItShows
  <2>2. ~Damage
    BY DEF AlwaysReadable, Damage, TypeInv, TypeOK
  <2>3. ASSUME NEW w \in Windows, BeginLoad(w)
        PROVE  ShownInv'
    <3>1. /\ UNCHANGED <<known, cache, view, readOnly, includes>> /\ op'[w].kind = "load"
          /\ \A v \in Windows : v # w => op'[v] = op[v]
      BY <2>0, <2>3 DEF BeginLoad, Begin, windowVars, LockTypes, NoOp
    <3> QED
      BY <3>1 DEF ShownInv, Shows, WritesWhatItShows
  <2>4. ASSUME NEW w \in Windows, BeginWrite(w)
        PROVE  ShownInv'
    <3>1. /\ UNCHANGED <<known, cache, view, readOnly>>
          /\ op'[w].kind = "write" /\ op'[w].data = used + 2
          /\ \A v \in Windows : v # w => op'[v] = op[v]
      BY <2>0, <2>4 DEF BeginWrite, Begin, windowVars, LockTypes, NoOp
    <3>2. used + 2 \in Contents /\ view[w] \in Contents
      BY <2>0, <2>4, Parameters
      DEF TypeInv, TypeOK, BeginWrite, Contents, ResultsShown, WindowTypes
    <3>3. /\ \A d \in Contents : includes[d] \subseteq includes'[d]
          /\ includes'[used + 2] = includes[used + 2] \cup includes[view[w]]
      BY <2>0, <2>4, <3>2 DEF BeginWrite, TypeInv, TypeOK, ResultsShown
    <3>4. \A v \in Windows : op[v].data \in Contents
      BY <2>0 DEF LockTypes, Operation
    <3>5. \A d \in Contents : d \in includes'[d]
      BY <3>3 DEF ShownInv
    <3>6. view[w] \in includes'[used + 2]
      BY <3>2, <3>3 DEF ShownInv
    <3>7. ASSUME NEW v \in Windows
          PROVE  Shows(v)' /\ WritesWhatItShows(v)' /\ op'[v].kind # "peek"
      <4>1. CASE v = w
        BY <2>4, <3>1, <3>6, <4>1 DEF ShownInv, Shows, WritesWhatItShows, BeginWrite, ResultsShown
      <4>2. CASE v # w
        BY <3>1, <3>3, <3>4, <4>2 DEF ShownInv, Shows, WritesWhatItShows
      <4> QED
        BY <4>1, <4>2
    <3> QED
      BY <3>5, <3>7 DEF ShownInv
  <2>5. \A w \in Windows : ~BeginPeek(w)
    BY DEF BeginPeek, ResultsShown
  <2>6. ASSUME NEW w \in Windows, Step(w)
        PROVE  ShownInv'
    BY <2>6, ShownStep
  <2>7. ASSUME NEW w \in Windows, Reopen(w)
        PROVE  ShownInv'
    <3>1. /\ includes' = includes /\ op'[w].kind = "none" /\ view'[w] = Never
          /\ \A v \in Windows :
               v # w => /\ op'[v] = op[v] /\ known'[v] = known[v]
                        /\ cache'[v] = cache[v] /\ view'[v] = view[v]
                        /\ (v \in readOnly') = (v \in readOnly)
      BY <2>0, <2>7 DEF Reopen, LockTypes, WindowTypes, NoOp
    <3>2. ASSUME NEW v \in Windows
          PROVE  Shows(v)' /\ WritesWhatItShows(v)' /\ op'[v].kind # "peek"
      <4>1. CASE v = w
        BY <3>1, <4>1 DEF Shows, WritesWhatItShows
      <4>2. CASE v # w
        BY <3>1, <4>2 DEF ShownInv, Shows, WritesWhatItShows
      <4> QED
        BY <4>1, <4>2
    <3> QED
      BY <3>1, <3>2 DEF ShownInv
  <2> QED
    BY <2>1, <2>2, <2>3, <2>4, <2>5, <2>6, <2>7 DEF Next
<1> QED
  BY <1>1, <1>2

(***************************************************************************)
(* "Never last-write-wins silently", for any number of windows, writes and *)
(* failing file operations and with windows dying anywhere: while the file *)
(* stays readable and applications show what they read, every committed    *)
(* write was derived from the content it replaces.                         *)
(***************************************************************************)
THEOREM NoUpdateLost ==
  ASSUME AlwaysReadable, ResultsShown
  PROVE  Spec => NoLostUpdate
<1>1. Init => RevisionInv /\ ShownInv
  BY RevisionInvariant, ShownInvariant
<1>2. TypeInv /\ RevisionInv /\ [Next]_vars => RevisionInv'
  BY RevisionInvariant
<1>3. TypeInv /\ RevisionInv /\ ShownInv /\ [Next]_vars => ShownInv'
  BY ShownInvariant
<1>4. ASSUME TypeInv, RevisionInv, ShownInv, NEW w \in Windows, CommitsWrite(w)
      PROVE  w \notin readOnly /\ last.data \in includes[op[w].data]
  <2>1. op[w].kind # "none" /\ op[w].stage = "commit" /\ op[w].task = "write"
    BY <1>4 DEF CommitsWrite, At
  <2>2. op[w].kind = "write"
    <3>1. op[w].kind \in {"load", "write"}
      BY <1>4, <2>1 DEF TypeInv, TypeOK, Operation, Calls, ShownInv
    <3>2. ~Reading(w)
      BY <1>4, <2>1 DEF RevisionInv, StageInv
    <3> QED
      BY <3>1, <3>2 DEF Reading
  <2>3. w \notin readOnly /\ known[w] \in {Never, primary.rev} /\ primary = last
    BY <1>4, <2>1, <2>2 DEF RevisionInv, StageInv, Reading, Matched, FileReadable
  <2>4. known[w] # Never /\ cache[w] = view[w] /\ view[w] \in includes[op[w].data]
    BY <1>4, <2>2, <2>3 DEF ShownInv, Shows, WritesWhatItShows
  <2>5. cache[w] = last.data
    BY <1>4, <2>3, <2>4 DEF RevisionInv, KnownMeansSeen
  <2> QED
    BY <2>3, <2>4, <2>5
<1>5. TypeInv /\ RevisionInv /\ ShownInv
      => [\A w \in Windows :
            CommitsWrite(w) => /\ w \notin readOnly
                               /\ last.data \in includes[op[w].data]]_vars
  BY <1>4
<1>6. Spec => [](TypeInv /\ RevisionInv /\ ShownInv)
  BY <1>1, <1>2, <1>3, TypeInvariant, PTL DEF Spec
<1> QED
  BY <1>5, <1>6, PTL DEF NoLostUpdate
-----------------------------------------------------------------------------
(***************************************************************************)
(* Recovery that is begun is finished: nobody dies in it and a quarantined *)
(* file that could not be replaced can be moved back; or there is nothing  *)
(* to recover.                                                             *)
(***************************************************************************)
RepairsEnd ==
  (DyingWindows = {} /\ "moveBack" \notin Faults) \/ AlwaysReadable

(***************************************************************************)
(* The document on disk is the last readable one, or unreadable, or away   *)
(* while a window restores it; and that document and every backup of it    *)
(* are something the file has held.                                        *)
(***************************************************************************)
Missing == primary = Absent /\ \E w \in Windows : At(w, "restore")

FileInv ==
  /\ primary = last \/ ~Readable(primary) \/ Missing
  /\ Readable(last)
  /\ Versioned(last) <=> last.rev # 0
  /\ last.kind = "absent" => last.data = Nothing /\ backups = <<>>
  /\ <<last.rev, last.data>> \in past
  /\ \A i \in DOMAIN backups :
       /\ <<backups[i].rev, backups[i].data>> \in past
       /\ backups[i].versioned <=> backups[i].rev # 0

(***************************************************************************)
(* What an operation is about to commit, by its task: the next revision of *)
(* the last document, whatever has become of the file meanwhile.           *)
(***************************************************************************)
CommitsNext(w) ==
  LET o == op[w] IN
  /\ o.cur = last
  /\ o.next.kind = "envelope" /\ o.next.rev = last.rev + 1
  /\ \/ o.task = "write" /\ known[w] \in {Never, last.rev}
     \/ o.task \in {"normalise", "migrate"} /\ o.next.data = last.data

WorkInv(w) ==
  LET o == op[w] IN
  o.kind # "none" =>
    /\ o.stage = "compare" => o.cur = last /\ last.kind # "legacy"
    /\ o.stage \in {"backup", "unlink", "prune", "commit"} => CommitsNext(w)
    /\ o.stage = "backup" => last.kind # "absent"
    /\ o.stage = "verify" => o.next.kind = "envelope"
    /\ o.stage = "restore" => o.cur = last \/ ~Readable(o.cur)

RegisterInv == FileInv /\ \A w \in Windows : WorkInv(w)

(***************************************************************************)
(* Backups are added in the order they are made, and a prune that fails    *)
(* finds at least two commit backups beside those that are missing.        *)
(***************************************************************************)
BackupsToSpare == ~ClockStepsBack /\ MaxMissing + 2 <= MaximumBackups

Recent(i) == backups[i].data \in {last.data, before}

(***************************************************************************)
(* While backups are pruned, the one just made is the last of the list and *)
(* the newest of the others that is not obsolete is recent; once they are, *)
(* the newest one is of the document about to be replaced.                 *)
(***************************************************************************)
OthersRecent ==
  \A i \in 1 .. Len(backups) - 1 :
    /\ backups[i].intact
    /\ \A j \in i + 1 .. Len(backups) - 1 : ~backups[j].intact /\ j \notin Obsolete
    => Recent(i)

BackedUp(i) == i \in Newest /\ backups[i].data = last.data

PruneInv(w) ==
  LET o == op[w] IN
  o.kind # "none" =>
    /\ o.stage \in {"unlink", "prune"} =>
         /\ o.slot = Len(backups) /\ BackedUp(o.slot)
         /\ OthersRecent
    /\ o.stage = "prune" => Obsolete # {}
    /\ o.stage = "commit" /\ last.kind # "absent" =>
         \E i \in DOMAIN backups : BackedUp(i)

BackupInv ==
  /\ before # Nothing => Newest # {}
  /\ \A i \in Newest : Recent(i)
  /\ \A w \in Windows : PruneInv(w)

(***************************************************************************)
(* What InsertAt puts in a sequence: the new element, and the old ones.    *)
(***************************************************************************)
LEMMA InsertParts ==
  ASSUME NEW S, NEW s \in Seq(S), NEW e \in S, NEW i \in 1 .. Len(s) + 1
  PROVE  /\ Len(InsertAt(s, i, e)) = Len(s) + 1
         /\ \A j \in 1 .. Len(s) + 1 :
              InsertAt(s, i, e)[j] =
                IF j < i THEN s[j] ELSE IF j = i THEN e ELSE s[j - 1]
         /\ \A j \in DOMAIN InsertAt(s, i, e) :
              InsertAt(s, i, e)[j] = e \/ \E k \in DOMAIN s : InsertAt(s, i, e)[j] = s[k]
<1> DEFINE a == SubSeq(s, 1, i - 1)
           b == SubSeq(s, i, Len(s))
           ae == a \o <<e>>
<1>0. Len(s) \in Nat /\ i \in Nat /\ 1 <= i /\ i <= Len(s) + 1
  OBVIOUS
<1>1. /\ a \in Seq(S) /\ Len(a) = i - 1
      /\ \A j \in 1 .. i - 1 : a[j] = s[j]
  OBVIOUS
<1>2. /\ b \in Seq(S) /\ Len(b) = Len(s) - i + 1
      /\ \A j \in 1 .. Len(s) - i + 1 : b[j] = s[i + j - 1]
  OBVIOUS
<1> HIDE DEF a, b
<1>3. /\ ae \in Seq(S) /\ Len(ae) = i
      /\ \A j \in 1 .. i : ae[j] = IF j < i THEN s[j] ELSE e
  BY <1>1
<1> HIDE DEF ae
<1>4. InsertAt(s, i, e) = ae \o b
  BY DEF InsertAt, ae, a, b
<1>c. /\ ae \o b \in Seq(S) /\ Len(ae \o b) = Len(ae) + Len(b)
      /\ \A j \in 1 .. Len(ae) + Len(b) :
           (ae \o b)[j] = IF j <= Len(ae) THEN ae[j] ELSE b[j - Len(ae)]
  BY <1>2, <1>3, ConcatProperties
<1>5. Len(ae) + Len(b) = Len(s) + 1
  BY <1>0, <1>2, <1>3
<1>6. ASSUME NEW j \in 1 .. Len(s) + 1
      PROVE  (ae \o b)[j] = IF j < i THEN s[j] ELSE IF j = i THEN e ELSE s[j - 1]
  <2>0. j \in Nat /\ (ae \o b)[j] = IF j <= i THEN ae[j] ELSE b[j - i]
    BY <1>3, <1>5, <1>c
  <2>1. CASE j <= i
    <3>1. j \in 1 .. i
      BY <1>0, <2>1
    <3> QED
      BY <1>0, <1>3, <2>0, <2>1, <3>1
  <2>2. CASE j > i
    <3>1. j - i \in 1 .. Len(s) - i + 1 /\ i + (j - i) - 1 = j - 1
      <4> DEFINE n == Len(s)
      <4>1. j \in Int /\ i \in Int /\ n \in Int /\ i < j /\ j <= n + 1
        BY <1>0, <2>2
      <4> HIDE DEF n
      <4>2. j - i \in 1 .. n - i + 1
        BY <4>1
      <4>3. i + (j - i) - 1 = j - 1
        BY <4>1
      <4> QED
        BY <4>2, <4>3 DEF n
    <3>2. b[j - i] = s[j - 1]
      <4> DEFINE k == j - i
      <4>1. k \in 1 .. Len(s) - i + 1 /\ i + k - 1 = j - 1
        BY <3>1
      <4> HIDE DEF k
      <4>2. b[k] = s[i + k - 1]
        BY <1>2, <4>1
      <4> QED
        BY <4>1, <4>2 DEF k
    <3> QED
      BY <1>0, <2>0, <2>2, <3>2
  <2> QED
    BY <1>0, <2>0, <2>1, <2>2
<1>7. DOMAIN (ae \o b) = 1 .. Len(s) + 1
  BY <1>5, <1>c
<1>8. ASSUME NEW j \in DOMAIN (ae \o b)
      PROVE  (ae \o b)[j] = e \/ \E k \in DOMAIN s : (ae \o b)[j] = s[k]
  <2>1. j \in 1 .. Len(s) + 1
    BY <1>7
  <2>2. j < i => j \in DOMAIN s
    BY <2>1
  <2>3. j > i => j - 1 \in DOMAIN s
    BY <2>1
  <2> QED
    BY <1>6, <2>1, <2>2, <2>3
<1> QED
  BY <1>4, <1>5, <1>6, <1>8, <1>c

(***************************************************************************)
(* A step of a locked operation keeps RegisterInv, unless a quarantined    *)
(* file can be left away.                                                  *)
(***************************************************************************)
LEMMA WorkStep ==
  ASSUME TypeInv, RegisterInv, NEW w \in Windows, Step(w),
         At(w, "restore") => "moveBack" \notin Faults
  PROVE  RegisterInv'
<1>0. /\ op[w].kind # "none" /\ op[w] \in Operation /\ LockTypes /\ WindowTypes
      /\ primary \in Document /\ last \in Document /\ backups \in Seq(Backup)
      /\ FileInv /\ WorkInv(w)
  BY StepShape, TypeParts DEF TypeInv, RegisterInv, LockTypes, FileTypes
<1>1. \A v \in Windows : v # w => op[v].kind = "none" /\ op'[v] = op[v]
  BY <1>0, StepShape, OthersIdle DEF TypeInv, LockTypes, Continue, Finish
<1>2. ASSUME FileInv', WorkInv(w)'
      PROVE  RegisterInv'
  BY <1>1, <1>2 DEF RegisterInv, WorkInv
<1>3. ASSUME Finish(w)
      PROVE  WorkInv(w)'
  BY <1>0, <1>3 DEF LockTypes, WorkInv, Finish, NoOp
<1>4. op[w].stage # "restore" => primary = last \/ ~Readable(primary)
  BY <1>0, <1>1 DEF FileInv, Missing, At
<1>5. ASSUME op[w].stage # "restore", UNCHANGED <<primary, backups, history>>
      PROVE  FileInv'
  BY <1>0, <1>4, <1>5 DEF FileInv, history, Readable, Versioned
<1>6. CASE \/ ReadCurrent(w) \/ FindFuture(w) \/ RefuseWrite(w) \/ Conflict(w)
           \/ NoRecovery(w) \/ QuarantineFails(w)
  <2>1. UNCHANGED <<primary, backups, history>> /\ Finish(w) /\ op[w].stage # "restore"
    BY <1>6 DEF ReadCurrent, FindFuture, RefuseWrite, Conflict, NoRecovery,
                QuarantineFails, GiveUp, Return, Throw, At
  <2> QED
    BY <1>2, <1>3, <1>5, <2>1
<1>7. CASE ReadOutdated(w) \/ ReadLegacy(w)
  <2>1. /\ UNCHANGED <<primary, backups, history>> /\ UNCHANGED windowVars
        /\ op[w].stage = "check" /\ Readable(primary) /\ primary.kind # "absent"
    BY <1>7 DEF ReadOutdated, ReadLegacy, At, Readable
  <2>2. primary = last
    BY <1>4, <2>1
  <2>3. PICK t \in {"normalise", "migrate"}, r \in Nat :
          /\ op'[w] = [op[w] EXCEPT !.stage = "backup", !.task = t,
                         !.cur = primary, !.next = Envelope(r, primary.data)]
          /\ r = last.rev + 1
    <3>1. CASE ReadOutdated(w)
      <4>1. op'[w] = [op[w] EXCEPT !.stage = "backup", !.task = "normalise", !.cur = primary,
                        !.next = Envelope(primary.rev + 1, primary.data)]
        BY <1>0, <3>1 DEF ReadOutdated, Continue, LockTypes
      <4>2. last.rev + 1 \in Nat
        BY <1>0 DEF Document
      <4> QED
        BY <2>2, <4>1, <4>2
    <3>2. CASE ReadLegacy(w)
      <4>1. op'[w] = [op[w] EXCEPT !.stage = "backup", !.task = "migrate", !.cur = primary,
                        !.next = Envelope(1, primary.data)]
        BY <1>0, <3>2 DEF ReadLegacy, Continue, LockTypes
      <4>2. last.rev = 0
        BY <1>0, <2>2, <3>2 DEF ReadLegacy, FileInv, Versioned
      <4>3. 1 \in Nat /\ 1 = last.rev + 1
        BY <4>2
      <4> QED
        BY <4>1, <4>3
    <3> QED
      BY <1>7, <3>1, <3>2
  <2>4. WorkInv(w)'
    BY <1>0, <2>1, <2>2, <2>3 DEF WorkInv, CommitsNext, Operation, Envelope, history
  <2> QED
    BY <1>2, <1>5, <2>1, <2>4
<1>8. CASE FindCorrupt(w) \/ CommitFails(w) \/ VerifyFails(w)
  <2>1. /\ UNCHANGED <<primary, backups, history>> /\ op[w].stage # "restore"
        /\ \E s \in {"recover", "failed"} : op'[w] = [op[w] EXCEPT !.stage = s]
    BY <1>0, <1>8 DEF FindCorrupt, CommitFails, VerifyFails, At, Continue, LockTypes
  <2>2. WorkInv(w)'
    BY <1>0, <2>1 DEF WorkInv, Operation
  <2> QED
    BY <1>2, <1>5, <2>1, <2>2
<1>9. CASE CheckWrite(w)
  <2>1. /\ UNCHANGED <<primary, backups, history>> /\ op[w].stage = "check"
        /\ op'[w] = [op[w] EXCEPT !.stage = "compare", !.cur = primary]
        /\ primary.kind \in {"absent", "outdated", "envelope"}
    BY <1>0, <1>9 DEF CheckWrite, At, Continue, LockTypes
  <2>2. primary = last
    BY <1>4, <2>1 DEF Readable
  <2>3. WorkInv(w)'
    BY <1>0, <2>1, <2>2 DEF WorkInv, Operation, history
  <2> QED
    BY <1>2, <1>5, <2>1, <2>3
<1>10. CASE CompareRevision(w)
  <2>1. /\ UNCHANGED <<primary, backups, history>> /\ UNCHANGED windowVars
        /\ op[w].stage = "compare" /\ RevisionMatches(w)
        /\ op'[w] = [op[w] EXCEPT !.task = "write",
                       !.stage = IF Versioned(op[w].cur) THEN "backup" ELSE "commit",
                       !.next = Envelope(op[w].cur.rev + 1, op[w].data)]
    BY <1>0, <1>10 DEF CompareRevision, At, Continue, LockTypes
  <2>2. op[w].cur = last
    BY <1>0, <2>1 DEF WorkInv
  <2>3. /\ op'[w].task = "write" /\ op'[w].cur = last
        /\ op'[w].stage \in {"backup", "commit"}
        /\ op'[w].stage = "backup" => Versioned(last)
        /\ op'[w].next = Envelope(last.rev + 1, op[w].data)
    BY <1>0, <2>1, <2>2 DEF Operation
  <2>4. WorkInv(w)'
    BY <2>1, <2>2, <2>3
    DEF WorkInv, CommitsNext, Envelope, history, windowVars, RevisionMatches, Versioned
  <2> QED
    BY <1>2, <1>5, <2>1, <2>4
<1>11. CASE CreateBackupFails(w) \/ PruneFails(w) \/ AfterFailure(w)
  <2>1. /\ UNCHANGED <<primary, history>> /\ op[w].stage # "restore"
        /\ \/ Finish(w)
           \/ Continue(w, [op[w] EXCEPT !.stage = "recover"])
           \/ Continue(w, [op[w] EXCEPT !.stage = "recover", !.failing = ~Reading(w)])
           \/ Continue(w, [op[w] EXCEPT !.stage = "failed"])
    BY <1>11 DEF CreateBackupFails, PruneFails, AfterFailure, WithoutBackup, At, Throw,
                 GiveUp, Return
  <2>2. WorkInv(w)'
    <3>1. CASE ~Finish(w)
      <4>1. op'[w].stage \in {"recover", "failed"}
        BY <1>0, <2>1, <3>1 DEF Continue, LockTypes, Operation
      <4> QED
        BY <4>1 DEF WorkInv
    <3> QED
      BY <1>3, <3>1
  <2>3. FileInv'
    <3>1. CASE PruneFails(w)
      <4>1. backups' = [i \in DOMAIN backups |->
                          [backups[i] EXCEPT !.intact = @ /\ i # op[w].slot]]
        BY <3>1 DEF PruneFails
      <4>2. \A i \in DOMAIN backups : backups[i] \in Backup
        BY <1>0
      <4>3. \A i \in DOMAIN backups' :
              /\ i \in DOMAIN backups
              /\ backups'[i].rev = backups[i].rev /\ backups'[i].data = backups[i].data
              /\ backups'[i].versioned = backups[i].versioned
        BY <4>1, <4>2 DEF Backup
      <4>4. backups = <<>> => backups' = <<>>
        BY <4>1
      <4> QED
        BY <1>0, <1>4, <2>1, <4>3, <4>4 DEF FileInv, history, Readable, Versioned
    <3>2. CASE CreateBackupFails(w) \/ AfterFailure(w)
      BY <1>5, <2>1, <3>2 DEF CreateBackupFails, AfterFailure
    <3> QED
      BY <1>11, <3>1, <3>2
  <2> QED
    BY <1>2, <2>2, <2>3
<1>12. CASE CreateBackup(w)
  <2> DEFINE reason == IF op[w].task = "migrate" THEN "migration" ELSE "commit"
             entry == [rev |-> op[w].cur.rev, data |-> op[w].cur.data,
                       versioned |-> Versioned(op[w].cur), reason |-> reason,
                       intact |-> TRUE]
  <2>1. /\ UNCHANGED <<primary, history>> /\ UNCHANGED windowVars
        /\ op[w].stage = "backup"
        /\ \E i \in BackupPositions, s \in {"unlink", "commit"} :
              /\ backups' = InsertAt(backups, i, entry)
              /\ op'[w] = [op[w] EXCEPT !.stage = s, !.slot = i]
    BY <1>0, <1>12 DEF CreateBackup, At, Continue, LockTypes
  <2>2. op[w].cur = last /\ last.kind # "absent" /\ CommitsNext(w)
    BY <1>0, <2>1 DEF WorkInv, CommitsNext
  <2>3. WorkInv(w)'
    <3>1. CommitsNext(w)'
      BY <1>0, <2>1, <2>2 DEF CommitsNext, Operation, history, windowVars
    <3> QED
      BY <1>0, <2>1, <3>1 DEF WorkInv, Operation
  <2>4. /\ entry.rev = last.rev /\ entry.data = last.data
        /\ entry.versioned = Versioned(last)
    BY <2>2
  <2>e. entry \in Backup
    BY <1>0, <2>2 DEF Backup, Document, Versioned
  <2> HIDE DEF entry
  <2>5. \A j \in DOMAIN backups' : backups'[j] = entry \/ \E k \in DOMAIN backups : backups'[j] = backups[k]
    <3>1. PICK i \in BackupPositions : backups' = InsertAt(backups, i, entry)
      BY <2>1
    <3>2. i \in 1 .. Len(backups) + 1
      BY <1>0, <3>1 DEF BackupPositions
    <3> QED
      BY <1>0, <2>e, <3>1, <3>2, InsertParts
  <2>6. FileInv'
    <3>1. ASSUME NEW j \in DOMAIN backups'
          PROVE  /\ <<backups'[j].rev, backups'[j].data>> \in past
                 /\ backups'[j].versioned <=> backups'[j].rev # 0
      BY <1>0, <2>4, <2>5 DEF FileInv
    <3> QED
      BY <1>0, <1>4, <2>1, <2>2, <3>1 DEF FileInv, history, Readable, Versioned
  <2> QED
    BY <1>2, <2>3, <2>6
<1>13. CASE UnlinkObsolete(w) \/ PruneJournal(w)
  <2>1. /\ UNCHANGED <<primary, history>> /\ UNCHANGED windowVars
        /\ op[w].stage \in {"unlink", "prune"}
        /\ \E s \in {"prune", "commit"} : op'[w] = [op[w] EXCEPT !.stage = s]
    BY <1>0, <1>13 DEF UnlinkObsolete, PruneJournal, At, Continue, LockTypes
  <2>2. WorkInv(w)'
    BY <1>0, <2>1 DEF WorkInv, CommitsNext, Operation, history, windowVars
  <2>3. \A i \in DOMAIN backups' : \E k \in DOMAIN backups :
          /\ backups'[i].rev = backups[k].rev /\ backups'[i].data = backups[k].data
          /\ backups'[i].versioned = backups[k].versioned
    <3>1. CASE UnlinkObsolete(w)
      <4>1. backups' = [i \in DOMAIN backups |->
                          [backups[i] EXCEPT !.intact = @ /\ i \notin Obsolete]]
        BY <3>1 DEF UnlinkObsolete
      <4>2. \A i \in DOMAIN backups : backups[i] \in Backup
        BY <1>0
      <4> QED
        BY <4>1, <4>2 DEF Backup
    <3>2. CASE PruneJournal(w)
      <4>1. PICK f \in [1 .. Cardinality(Kept) -> Kept] :
              backups' = [i \in DOMAIN f |-> backups[f[i]]]
        BY <3>2 DEF PruneJournal
      <4>2. \A i \in DOMAIN backups' : f[i] \in DOMAIN backups /\ backups'[i] = backups[f[i]]
        BY <4>1 DEF Kept
      <4> QED
        BY <4>2
    <3> QED
      BY <1>13, <3>1, <3>2
  <2>4. last.kind # "absent" \/ backups' = <<>>
    <3>1. CASE last.kind = "absent"
      <4>1. backups = <<>> /\ DOMAIN backups = {}
        BY <1>0, <3>1 DEF FileInv
      <4>2. DOMAIN backups' = {}
        BY <2>3, <4>1
      <4>3. backups' \in Seq(Backup)
        BY StepTypes DEF TypeInv, TypeOK
      <4> QED
        BY <4>2, <4>3
    <3> QED
      BY <3>1
  <2>5. FileInv'
    BY <1>0, <1>4, <2>1, <2>3, <2>4 DEF FileInv, history, Readable, Versioned
  <2> QED
    BY <1>2, <2>2, <2>5
<1>14. CASE Commit(w)
  <2>1. /\ UNCHANGED backups /\ op[w].stage = "commit"
        /\ primary' = op[w].next /\ last' = op[w].next
        /\ past' = past \cup {<<op[w].next.rev, op[w].next.data>>}
        /\ op'[w] = [op[w] EXCEPT !.stage = "verify"]
    BY <1>0, <1>14 DEF Commit, Replace, At, Continue, LockTypes
  <2>2. op[w].next.kind = "envelope" /\ op[w].next.rev = last.rev + 1 /\ last.rev \in Nat
    BY <1>0, <2>1 DEF WorkInv, CommitsNext, Document
  <2>3. FileInv'
    BY <1>0, <2>1, <2>2 DEF FileInv, Readable, Versioned
  <2>4. WorkInv(w)'
    BY <1>0, <2>1, <2>2 DEF WorkInv, Operation
  <2> QED
    BY <1>2, <2>3, <2>4
<1>15. CASE Verify(w)
  <2>1. /\ UNCHANGED <<primary, backups, history>> /\ op[w].stage = "verify"
        /\ primary = op[w].next
    BY <1>15 DEF Verify, At
  <2>2. primary.kind = "envelope" /\ primary = last
    BY <1>0, <1>4, <2>1 DEF WorkInv, Readable
  <2>3. \/ Finish(w)
        \/ Continue(w, [op[w] EXCEPT !.stage = "compare", !.cur = primary])
    BY <1>15 DEF Verify, Return
  <2>4. WorkInv(w)'
    <3>1. CASE ~Finish(w)
      <4>1. op'[w] = [op[w] EXCEPT !.stage = "compare", !.cur = primary]
        BY <1>0, <2>3, <3>1 DEF Continue, LockTypes
      <4> QED
        BY <1>0, <2>1, <2>2, <4>1 DEF WorkInv, Operation, history
    <3> QED
      BY <1>3, <3>1
  <2> QED
    BY <1>2, <1>5, <2>1, <2>4
<1>16. CASE Quarantine(w)
  <2>1. /\ UNCHANGED backups /\ UNCHANGED history /\ op[w].stage = "recover"
        /\ primary' = Absent
        /\ op'[w] = [op[w] EXCEPT !.stage = "restore", !.cur = primary]
    BY <1>0, <1>16 DEF Quarantine, At, Continue, LockTypes
  <2>2. op'[w].kind # "none" /\ op'[w].stage = "restore" /\ op'[w].cur = primary
    BY <1>0, <2>1 DEF Operation
  <2>3. FileInv'
    BY <1>0, <2>1, <2>2 DEF FileInv, history, Missing, At, Readable, Versioned
  <2>4. WorkInv(w)'
    BY <1>4, <2>1, <2>2 DEF WorkInv, history, Readable
  <2> QED
    BY <1>2, <2>3, <2>4
<1>17. ASSUME NEW i \in Newest, Replace(Restored(i)), UNCHANGED backups
       PROVE  FileInv' /\ last' = Restored(i) /\ last'.kind = "envelope"
  <2>1. /\ primary' = Restored(i) /\ last' = Restored(i)
        /\ past' = past \cup {<<Restored(i).rev, Restored(i).data>>}
    BY <1>17 DEF Replace
  <2>2. Restored(i).kind = "envelope" /\ Restored(i).rev # 0
    <3>1. i \in DOMAIN backups /\ (backups[i].versioned <=> backups[i].rev # 0)
      BY <1>0, <1>17 DEF Newest, FileInv
    <3> QED
      BY <3>1 DEF Restored, Envelope
  <2> QED
    BY <1>0, <1>17, <2>1, <2>2 DEF FileInv, Readable, Versioned
<1>18. CASE Restore(w)
  <2>1. PICK i \in Newest :
          /\ Replace(Restored(i)) /\ UNCHANGED backups
          /\ \/ Finish(w)
             \/ Continue(w, [op[w] EXCEPT !.stage = "compare", !.cur = Restored(i)])
    BY <1>18 DEF Restore, Return
  <2>2. WorkInv(w)'
    <3>1. CASE ~Finish(w)
      <4>1. op'[w] = [op[w] EXCEPT !.stage = "compare", !.cur = Restored(i)]
        BY <1>0, <2>1, <3>1 DEF Continue, LockTypes
      <4> QED
        BY <1>0, <1>17, <2>1, <4>1 DEF WorkInv, Operation
    <3> QED
      BY <1>3, <3>1
  <2> QED
    BY <1>2, <1>17, <2>1, <2>2
<1>19. CASE RestoreFails(w)
  <2>1. UNCHANGED backups /\ Finish(w) /\ op[w].stage = "restore"
    BY <1>19 DEF RestoreFails, GiveUp, Return, At
  <2>2. \/ \E i \in Newest : Replace(Restored(i))
        \/ primary' = op[w].cur /\ UNCHANGED history
    BY <1>0, <1>19 DEF RestoreFails, At
  <2>3. ASSUME primary' = op[w].cur, UNCHANGED history
        PROVE  FileInv'
    <3>1. op[w].cur = last \/ ~Readable(op[w].cur)
      BY <1>0, <2>1 DEF WorkInv
    <3>2. primary' = last' \/ ~Readable(primary')
      BY <2>3, <3>1 DEF history
    <3> QED
      BY <1>0, <2>1, <2>3, <3>2 DEF FileInv, history, Readable, Versioned
  <2> QED
    BY <1>2, <1>3, <1>17, <2>1, <2>2, <2>3
<1> QED
  BY <1>6, <1>7, <1>8, <1>9, <1>10, <1>11, <1>12, <1>13, <1>14, <1>15, <1>16, <1>18, <1>19
  DEF Step

(***************************************************************************)
(* Relative to TypeInv, and to RevisionInv for a file that stays readable, *)
(* RegisterInv is inductive.                                               *)
(***************************************************************************)
LEMMA RegisterInvariant ==
  ASSUME RepairsEnd
  PROVE  /\ Init => RegisterInv
         /\ /\ TypeInv /\ (AlwaysReadable => RevisionInv) /\ RegisterInv
            /\ [Next]_vars
            => RegisterInv'
<1>1. Init => RegisterInv
  <2> SUFFICES ASSUME Init PROVE RegisterInv
    OBVIOUS
  <2>1. primary \in InitialDocs /\ last = primary /\ backups = <<>>
    BY DEF Init
  <2>2. FileInv
    BY <2>1, InitialDocsReadable DEF Init, FileInv
  <2>3. \A w \in Windows : WorkInv(w)
    BY DEF Init, WorkInv, NoOp
  <2> QED
    BY <2>2, <2>3 DEF RegisterInv
<1>2. ASSUME TypeInv, AlwaysReadable => RevisionInv, RegisterInv, [Next]_vars
      PROVE  RegisterInv'
  <2>0. LockTypes /\ WindowTypes /\ FileTypes /\ Serial
    BY <1>2, TypeParts DEF TypeInv
  <2>1. CASE UNCHANGED vars
    BY <1>2, <2>1 DEF vars, RegisterInv, FileInv, WorkInv, CommitsNext, Missing, At, Readable, Versioned
  <2>2. CASE Damage
    <3>1. /\ UNCHANGED <<backups, op, known, history>>
          /\ ~Readable(primary')
      BY <2>2 DEF Damage, Corrupt, Readable, windowVars
    <3>2. FileInv'
      BY <1>2, <3>1 DEF RegisterInv, FileInv, history, Readable, Versioned
    <3>3. \A w \in Windows : WorkInv(w)'
      BY <1>2, <3>1 DEF RegisterInv, WorkInv, CommitsNext, history, Readable
    <3> QED
      BY <3>2, <3>3 DEF RegisterInv
  <2>3. ASSUME NEW w \in Windows, BeginLoad(w) \/ BeginPeek(w) \/ BeginWrite(w)
        PROVE  RegisterInv'
    <3>1. PICK kind \in Calls : Begin(w, kind)
      BY <2>3 DEF BeginLoad, BeginPeek, BeginWrite, Calls
    <3>2. /\ UNCHANGED <<primary, backups, known, history>>
          /\ op[w].kind = "none" /\ op'[w].stage = "check"
          /\ \A v \in Windows : v # w => op'[v] = op[v]
      BY <2>0, <3>1 DEF Begin, windowVars, LockTypes, NoOp
    <3>3. Missing => Missing'
      BY <3>2 DEF Missing, At
    <3>4. FileInv'
      BY <1>2, <3>2, <3>3 DEF RegisterInv, FileInv, history, Readable, Versioned
    <3>5. \A v \in Windows : WorkInv(v)'
      BY <1>2, <3>2 DEF RegisterInv, WorkInv, CommitsNext, history
    <3> QED
      BY <3>4, <3>5 DEF RegisterInv
  <2>4. ASSUME NEW w \in Windows, Step(w)
        PROVE  RegisterInv'
    <3>1. At(w, "restore") => "moveBack" \notin Faults
      BY <1>2 DEF RepairsEnd, RevisionInv, StageInv, At
    <3> QED
      BY <1>2, <2>4, <3>1, WorkStep
  <2>5. ASSUME NEW w \in Windows, Reopen(w)
        PROVE  RegisterInv'
    <3>1. ~At(w, "restore")
      BY <1>2, <2>5 DEF Reopen, RepairsEnd, RevisionInv, StageInv, At
    <3>2. /\ UNCHANGED <<primary, backups, history>> /\ op'[w].kind = "none"
          /\ \A v \in Windows : v # w => op'[v] = op[v] /\ known'[v] = known[v]
      BY <2>0, <2>5 DEF Reopen, LockTypes, WindowTypes, NoOp
    <3>3. Missing => Missing'
      BY <3>1, <3>2 DEF Missing, At
    <3>4. FileInv'
      BY <1>2, <3>2, <3>3 DEF RegisterInv, FileInv, history, Readable, Versioned
    <3>5. \A v \in Windows : WorkInv(v)'
      BY <1>2, <3>2 DEF RegisterInv, WorkInv, CommitsNext, history
    <3> QED
      BY <3>4, <3>5 DEF RegisterInv
  <2> QED
    BY <1>2, <2>1, <2>2, <2>3, <2>4, <2>5 DEF Next
<1> QED
  BY <1>1, <1>2

(***************************************************************************)
(* RegisterInv holds throughout.                                           *)
(***************************************************************************)
LEMMA RegisterInvAlways ==
  ASSUME RepairsEnd
  PROVE  Spec => [](TypeInv /\ RegisterInv)
<1>1. /\ Init => RegisterInv
      /\ TypeInv /\ (AlwaysReadable => RevisionInv) /\ RegisterInv /\ [Next]_vars
         => RegisterInv'
  BY RegisterInvariant
<1>2. CASE AlwaysReadable
  <2>1. /\ Init => RevisionInv
        /\ TypeInv /\ RevisionInv /\ [Next]_vars => RevisionInv'
    BY <1>2, RevisionInvariant
  <2>2. TypeInv /\ RevisionInv /\ RegisterInv /\ [Next]_vars => RegisterInv'
    BY <1>1
  <2> QED
    BY <1>1, <2>1, <2>2, TypeInvariant, PTL DEF Spec
<1>3. CASE ~AlwaysReadable
  <2>1. TypeInv /\ RegisterInv /\ [Next]_vars => RegisterInv'
    BY <1>1, <1>3
  <2> QED
    BY <1>1, <2>1, TypeInvariant, PTL DEF Spec
<1> QED
  BY <1>2, <1>3
-----------------------------------------------------------------------------
(***************************************************************************)
(* A step of a locked operation that changes neither the document nor what *)
(* the window knows loses or finds the document, or changes nothing of the *)
(* register at all.                                                        *)
(***************************************************************************)
LEMMA RegisterSame ==
  ASSUME UNCHANGED <<last, known, past>>
  PROVE  Register!Next
<1>1. Register!Lose \/ Register!Reappear
  BY DEF Register!Lose, Register!Reappear
<1> QED
  BY <1>1 DEF Register!Next

(***************************************************************************)
(* Each step of a locked operation is a step of the register.              *)
(***************************************************************************)
LEMMA RegisterStep ==
  ASSUME TypeInv, RegisterInv, RegisterInv', NEW w \in Windows, Step(w)
  PROVE  Register!Next
<1>0. /\ op[w].kind # "none" /\ op[w] \in Operation /\ LockTypes /\ WindowTypes
      /\ primary \in Document /\ last \in Document /\ backups \in Seq(Backup)
      /\ FileInv /\ WorkInv(w)
  BY StepShape, TypeParts DEF TypeInv, RegisterInv, LockTypes, FileTypes
<1>1. \A v \in Windows : v # w => op[v].kind = "none"
  BY <1>0, StepShape, OthersIdle DEF TypeInv
<1>2. op[w].stage # "restore" => primary = last \/ ~Readable(primary)
  BY <1>0, <1>1 DEF FileInv, Missing, At
<1>3. ASSUME RememberEnvelope(w, primary), UNCHANGED <<primary, history>>,
             op[w].stage # "restore", Readable(primary)
      PROVE  Register!Next
  <2>1. primary = last
    BY <1>2, <1>3
  <2>2. known' = [known EXCEPT ![w] = last.rev] /\ UNCHANGED <<last, primary, past>>
    BY <1>3, <2>1 DEF RememberEnvelope, history
  <2>3. Register!Observe(w)
    BY <1>3, <2>1, <2>2 DEF Register!Observe, Readable
  <2> QED
    BY <2>3 DEF Register!Next
<1>4. CASE ReadCurrent(w)
  BY <1>3, <1>4 DEF ReadCurrent, At, Readable
<1>5. CASE Verify(w)
  <2>1. RememberEnvelope(w, primary) /\ UNCHANGED <<primary, history>>
    BY <1>5 DEF Verify
  <2>2. op[w].stage = "verify" /\ Readable(primary)
    BY <1>0, <1>5 DEF Verify, At, WorkInv, Readable
  <2> QED
    BY <1>3, <2>1, <2>2
<1>6. CASE Commit(w)
  <2>1. /\ UNCHANGED windowVars /\ op[w].stage = "commit" /\ op[w].next \in Document
        /\ primary' = op[w].next /\ last' = op[w].next
        /\ past' = past \cup {<<op[w].next.rev, op[w].next.data>>}
    BY <1>0, <1>6 DEF Commit, Replace, At, Operation
  <2>2. CommitsNext(w)
    BY <1>0, <2>1 DEF WorkInv
  <2>3. /\ last'.rev = last.rev + 1 /\ past' = past \cup {<<last.rev + 1, last'.data>>}
        /\ primary'.kind = "envelope" /\ last'.data \in Contents
        /\ known' = known
    BY <2>1, <2>2 DEF CommitsNext, Document, windowVars
  <2>4. Register!SetTo(last.rev + 1, last'.data)
    BY <2>3 DEF Register!SetTo, Readable
  <2>5. CASE op[w].task = "write"
    <3>1. Register!Update(w)
      BY <2>2, <2>3, <2>4, <2>5 DEF CommitsNext, Register!Update
    <3> QED
      BY <3>1 DEF Register!Next
  <2>6. CASE op[w].task # "write"
    <3>1. last'.data = last.data
      BY <2>1, <2>2, <2>6 DEF CommitsNext
    <3>2. Register!Upgrade
      BY <2>3, <2>4, <3>1 DEF Register!Upgrade
    <3> QED
      BY <3>2 DEF Register!Next
  <2> QED
    BY <2>5, <2>6
<1>7. ASSUME NEW i \in Newest, Replace(Restored(i)),
             UNCHANGED known \/ RememberEnvelope(w, Restored(i))
      PROVE  Register!Next
  <2>1. /\ <<backups[i].rev, backups[i].data>> \in past
        /\ backups[i].versioned <=> backups[i].rev # 0
    BY <1>0, <1>7 DEF Newest, FileInv
  <2> DEFINE p == <<backups[i].rev, backups[i].data>>
             r == IF p[1] = 0 THEN 1 ELSE p[1]
  <2>2. Restored(i) = Envelope(r, p[2])
    BY <2>1 DEF Restored
  <2>3. /\ primary' = Envelope(r, p[2]) /\ last' = Envelope(r, p[2])
        /\ past' = past \cup {<<r, p[2]>>}
    BY <1>7, <2>2 DEF Replace, Envelope
  <2>4. Register!SetTo(r, p[2])
    BY <2>3 DEF Register!SetTo, Readable, Envelope
  <2>5. known' = [known EXCEPT ![w] = last'.rev] \/ UNCHANGED known
    BY <1>7, <2>2, <2>3 DEF RememberEnvelope
  <2>6. Register!Restore(w)
    BY <2>1, <2>4, <2>5 DEF Register!Restore
  <2> QED
    BY <2>6 DEF Register!Next
<1>8. CASE Restore(w)
  BY <1>7, <1>8 DEF Restore
<1>9. CASE RestoreFails(w)
  <2>1. CASE \E i \in Newest : Replace(Restored(i))
    BY <1>7, <1>9, <2>1 DEF RestoreFails
  <2>2. CASE UNCHANGED history
    BY <1>9, <2>2, RegisterSame DEF RestoreFails, history
  <2> QED
    BY <1>9, <2>1, <2>2 DEF RestoreFails
<1>10. CASE \/ FindFuture(w) \/ RefuseWrite(w) \/ Conflict(w) \/ NoRecovery(w)
            \/ QuarantineFails(w) \/ Quarantine(w) \/ AfterFailure(w)
  <2>1. UNCHANGED <<last, known, past>>
    BY <1>10 DEF FindFuture, RefuseWrite, Conflict, NoRecovery, QuarantineFails, Quarantine,
                 AfterFailure, Throw, windowVars, history
  <2> QED
    BY <2>1, RegisterSame
<1>11. CASE \/ ReadOutdated(w) \/ ReadLegacy(w) \/ FindCorrupt(w) \/ CheckWrite(w)
            \/ CompareRevision(w) \/ CommitFails(w) \/ VerifyFails(w)
  <2>1. UNCHANGED <<last, known, past>>
    BY <1>11 DEF ReadOutdated, ReadLegacy, FindCorrupt, CheckWrite, CompareRevision,
                 CommitFails, VerifyFails, windowVars, history
  <2> QED
    BY <2>1, RegisterSame
<1>12. CASE \/ CreateBackup(w) \/ CreateBackupFails(w) \/ UnlinkObsolete(w) \/ PruneJournal(w)
            \/ PruneFails(w)
  <2>1. UNCHANGED <<last, known, past>>
    BY <1>12 DEF CreateBackup, CreateBackupFails, UnlinkObsolete, PruneJournal, PruneFails,
                 WithoutBackup, Throw, windowVars, history
  <2> QED
    BY <2>1, RegisterSame
<1> QED
  BY <1>4, <1>5, <1>6, <1>8, <1>9, <1>10, <1>11, <1>12 DEF Step

(***************************************************************************)
(* The store implements the versioned register: whatever happens to the    *)
(* file, a window that updates the document replaces the revision it       *)
(* knows, the content is only ever replaced, rewritten in the current      *)
(* format or made something it once was, and nobody is told a revision     *)
(* while the document is lost.                                             *)
(***************************************************************************)
THEOREM RegisterImplemented ==
  ASSUME RepairsEnd
  PROVE  Spec => RegisterSpec
<1>1. Init => Register!Init
  <2> SUFFICES ASSUME Init PROVE Register!Init
    OBVIOUS
  <2>1. primary \in InitialDocs /\ last = primary
    BY DEF Init
  <2>2. last \in Document /\ last.rev \in {0, 1} /\ last.data \in Contents /\ Readable(last)
    BY <2>1, InitialDocsReadable DEF Document
  <2> QED
    BY <2>1, <2>2 DEF Init, Register!Init
<1>2. ASSUME TypeInv, RegisterInv, RegisterInv', [Next]_vars
      PROVE  [Register!Next]_(Register!vars)
  <2>1. CASE UNCHANGED vars
    BY <2>1 DEF vars, Register!vars, Readable
  <2>2. CASE Damage
    BY <2>2, RegisterSame DEF Damage, windowVars, history
  <2>3. ASSUME NEW w \in Windows, BeginLoad(w) \/ BeginPeek(w) \/ BeginWrite(w)
        PROVE  Register!Next
    BY <2>3, RegisterSame DEF BeginLoad, BeginPeek, BeginWrite, Begin, windowVars, history
  <2>4. ASSUME NEW w \in Windows, Step(w)
        PROVE  Register!Next
    BY <1>2, <2>4, RegisterStep
  <2>5. ASSUME NEW w \in Windows, Reopen(w)
        PROVE  Register!Next
    <3>1. Register!Forget(w)
      BY <2>5 DEF Reopen, Register!Forget, Readable, history
    <3> QED
      BY <3>1 DEF Register!Next
  <2> QED
    BY <1>2, <2>1, <2>2, <2>3, <2>4, <2>5 DEF Next
<1> QED
  BY <1>1, <1>2, RegisterInvAlways, PTL DEF Spec, RegisterSpec, Register!Spec
-----------------------------------------------------------------------------
(***************************************************************************)
(* A set of positions has a last one.                                      *)
(***************************************************************************)
LEMMA Greatest ==
  ASSUME NEW n \in Nat, NEW T, T \subseteq 1 .. n, T # {}
  PROVE  \E m \in T : \A k \in T : k <= m
<1> DEFINE Family == {m .. n : m \in T}
           Smaller == StrictSubsetOrdering(Nat)
<1>1. IsWellFoundedOn(Smaller, FiniteSubsetsOf(Nat))
  BY FS_StrictSubsetOrderingWellFounded
<1>2. Family \subseteq FiniteSubsetsOf(Nat) /\ Family # {}
  <2>1. \A m \in T : IsFiniteSet(m .. n) /\ m .. n \subseteq Nat
    BY FS_Interval
  <2> QED
    BY <2>1 DEF FiniteSubsetsOf
<1>3. PICK F \in Family : \A G \in Family : <<G, F>> \notin Smaller
  <2> HIDE DEF Family, Smaller
  <2> QED
    BY <1>1, <1>2, WFMin
<1>4. PICK m \in T : F = m .. n
  BY <1>3
<1>5. \A k \in T : k <= m
  <2> SUFFICES ASSUME NEW k \in T, m < k PROVE FALSE
    OBVIOUS
  <2>1. k .. n \subseteq m .. n /\ k .. n # m .. n
    <3>1. m \in m .. n /\ m \notin k .. n
      OBVIOUS
    <3> QED
      BY <3>1
  <2>2. k .. n \in SUBSET Nat /\ m .. n \in SUBSET Nat
    OBVIOUS
  <2>3. <<k .. n, m .. n>> \in Smaller
    BY <2>1, <2>2 DEF StrictSubsetOrdering
  <2> QED
    BY <2>3, <1>3, <1>4
<1> QED
  BY <1>5

(***************************************************************************)
(* There is a newest backup as soon as one is intact.                      *)
(***************************************************************************)
LEMMA NewestExists ==
  ASSUME NEW b \in Seq(Backup), NEW i \in DOMAIN b, b[i].intact
  PROVE  \E m \in DOMAIN b : b[m].intact /\ \A j \in DOMAIN b : j > m => ~b[j].intact
<1> DEFINE T == {k \in DOMAIN b : b[k].intact}
<1>1. T \subseteq 1 .. Len(b) /\ T # {} /\ Len(b) \in Nat
  OBVIOUS
<1>2. PICK m \in T : \A k \in T : k <= m
  <2> HIDE DEF T
  <2> QED
    BY <1>1, Greatest
<1> QED
  BY <1>2


(***************************************************************************)
(* Only one backup is the newest.                                          *)
(***************************************************************************)
LEMMA NewestUnique ==
  ASSUME backups \in Seq(Backup), NEW i \in Newest, NEW j \in Newest
  PROVE  i = j
<1>1. i \in Nat /\ j \in Nat
  BY DEF Newest
<1> QED
  BY <1>1 DEF Newest

(***************************************************************************)
(* The commit backups after a position are counted.                        *)
(***************************************************************************)
Later(i) == {j \in DOMAIN backups : j > i /\ IsCommit(j)}

LEMMA LaterFinite ==
  ASSUME backups \in Seq(Backup), NEW i
  PROVE  IsFiniteSet(Later(i)) /\ Cardinality(Later(i)) \in Nat
<1>1. IsFiniteSet(DOMAIN backups) /\ Later(i) \in SUBSET DOMAIN backups
  BY FS_Interval DEF Later
<1> QED
  BY <1>1, FS_Subset, FS_CardinalityType

(***************************************************************************)
(* A commit backup older than an obsolete one is obsolete.                 *)
(***************************************************************************)
LEMMA OlderObsolete ==
  ASSUME backups \in Seq(Backup), NEW i \in Obsolete, NEW j \in DOMAIN backups,
         j < i, IsCommit(j)
  PROVE  j \in Obsolete
<1>1. Later(i) \in SUBSET Later(j)
  BY DEF Later, Obsolete
<1>2. Cardinality(Later(i)) <= Cardinality(Later(j))
  BY <1>1, LaterFinite, FS_Subset
<1>3. Cardinality(Later(i)) >= MaximumBackups
  BY DEF Obsolete, Later
<1>4. Cardinality(Later(j)) >= MaximumBackups
  BY <1>2, <1>3, LaterFinite, Parameters
<1> QED
  BY <1>4 DEF Obsolete, Later

(***************************************************************************)
(* When a backup is obsolete, as many commit backups as the limit says are *)
(* not: the ones after the last obsolete one.                              *)
(***************************************************************************)
KeptCommits == {j \in Kept : IsCommit(j)}

LEMMA EnoughAreKept ==
  ASSUME backups \in Seq(Backup), Obsolete # {}
  PROVE  IsFiniteSet(KeptCommits) /\ Cardinality(KeptCommits) >= MaximumBackups
<1>1. IsFiniteSet(DOMAIN backups) /\ KeptCommits \in SUBSET DOMAIN backups
  BY FS_Interval DEF KeptCommits, Kept
<1>2. PICK m \in Obsolete : \A k \in Obsolete : k <= m
  <2>1. Obsolete \subseteq 1 .. Len(backups) /\ Len(backups) \in Nat
    BY DEF Obsolete
  <2> QED
    BY <2>1, Greatest
<1>3. Later(m) \in SUBSET KeptCommits
  BY <1>2 DEF Later, KeptCommits, Kept, Obsolete
<1>4. Cardinality(Later(m)) >= MaximumBackups
  BY DEF Obsolete, Later
<1>5. IsFiniteSet(KeptCommits)
  BY <1>1, FS_Subset
<1>6. Cardinality(Later(m)) <= Cardinality(KeptCommits) /\ Cardinality(KeptCommits) \in Nat
  BY <1>3, <1>5, FS_Subset, FS_CardinalityType
<1> QED
  BY <1>4, <1>5, <1>6, LaterFinite, Parameters

(***************************************************************************)
(* So when at most MaxMissing of those kept are missing, another intact    *)
(* commit backup than the one at s is kept.                                *)
(***************************************************************************)
LEMMA AnotherIsKept ==
  ASSUME backups \in Seq(Backup), Obsolete # {}, MaxMissing + 2 <= MaximumBackups,
         Cardinality({i \in Kept : ~backups[i].intact}) <= MaxMissing, NEW s
  PROVE  \E j \in KeptCommits : backups[j].intact /\ j # s
<1> SUFFICES ASSUME \A j \in KeptCommits : backups[j].intact => j = s PROVE FALSE
  OBVIOUS
<1> DEFINE Gone == {i \in Kept : ~backups[i].intact}
<1>1. IsFiniteSet(DOMAIN backups) /\ Gone \in SUBSET DOMAIN backups
  BY FS_Interval DEF Kept
<1>2. IsFiniteSet(Gone) /\ Cardinality(Gone) \in Nat
  BY <1>1, FS_Subset, FS_CardinalityType
<1>3. KeptCommits \ {s} \in SUBSET Gone
  BY DEF KeptCommits
<1>4. Cardinality(KeptCommits \ {s}) <= Cardinality(Gone)
  BY <1>2, <1>3, FS_Subset
<1>5. Cardinality(KeptCommits) \in Nat /\ Cardinality(KeptCommits) >= MaximumBackups
  BY EnoughAreKept, FS_CardinalityType
<1>6. Cardinality(KeptCommits \ {s}) =
        IF s \in KeptCommits THEN Cardinality(KeptCommits) - 1 ELSE Cardinality(KeptCommits)
  BY EnoughAreKept, FS_RemoveElement
<1>7. Cardinality(KeptCommits \ {s}) \in Nat
  BY EnoughAreKept, FS_RemoveElement, FS_CardinalityType
<1>8. Cardinality(Gone) <= MaxMissing
  OBVIOUS
<1> HIDE DEF Gone
<1> QED
  BY <1>2, <1>4, <1>5, <1>6, <1>7, <1>8, Parameters

(***************************************************************************)
(* Numbering the kept backups in their order reaches each of them.         *)
(***************************************************************************)
LEMMA EachKeptIsNumbered ==
  ASSUME backups \in Seq(Backup), NEW f \in [1 .. Cardinality(Kept) -> Kept],
         \A i, j \in DOMAIN f : i < j => f[i] < f[j], NEW k \in Kept
  PROVE  \E i \in DOMAIN f : f[i] = k
<1> DEFINE n == Cardinality(Kept)
<1>1. IsFiniteSet(DOMAIN backups) /\ Kept \in SUBSET DOMAIN backups
  BY FS_Interval DEF Kept
<1>2. IsFiniteSet(Kept) /\ n \in Nat
  BY <1>1, FS_Subset, FS_CardinalityType
<1>3. \A i \in DOMAIN f : f[i] \in Nat
  BY <1>1
<1> HIDE DEF n
<1>4. f \in [1 .. n -> Kept] /\ DOMAIN f = 1 .. n
  BY DEF n
<1>5. \A i, j \in 1 .. n : f[i] = f[j] => i = j
  <2> SUFFICES ASSUME NEW i \in 1 .. n, NEW j \in 1 .. n, f[i] = f[j], i # j PROVE FALSE
    OBVIOUS
  <2>1. i < j \/ j < i
    BY <1>2
  <2> QED
    BY <1>3, <1>4, <2>1
<1>6. f \in Injection(1 .. n, Kept)
  BY <1>4, <1>5 DEF Injection, IsInjective
<1>7. Cardinality(1 .. n) = Cardinality(Kept)
  BY <1>2, FS_Interval DEF n
<1>8. f \in Surjection(1 .. n, Kept)
  BY <1>2, <1>6, <1>7, FS_Injection
<1> QED
  BY <1>4, <1>8 DEF Surjection

(***************************************************************************)
(* A step of a locked operation keeps BackupInv.                           *)
(***************************************************************************)
LEMMA BackupStep ==
  ASSUME BackupsToSpare, TypeInv, RegisterInv, BackupInv, NEW w \in Windows, Step(w)
  PROVE  BackupInv'
<1>z. PICK n \in Nat : n = Len(backups)
  BY DEF TypeInv, TypeOK
<1>0. /\ op[w].kind # "none" /\ op[w] \in Operation /\ LockTypes
      /\ last \in Document /\ backups \in Seq(Backup)
      /\ FileInv /\ WorkInv(w) /\ PruneInv(w)
  BY StepShape, TypeParts DEF TypeInv, RegisterInv, BackupInv, LockTypes, FileTypes
<1>1. \A v \in Windows : v # w => op[v].kind = "none" /\ op'[v] = op[v]
  BY <1>0, StepShape, OthersIdle DEF TypeInv, LockTypes, Continue, Finish
<1>2. ASSUME before' # Nothing => Newest' # {}, \A i \in Newest' : Recent(i)', PruneInv(w)'
      PROVE  BackupInv'
  BY <1>1, <1>2 DEF BackupInv, PruneInv
<1>3. ASSUME Finish(w) \/ op'[w].stage \notin {"unlink", "prune", "commit"}
      PROVE  PruneInv(w)'
  BY <1>0, <1>3 DEF PruneInv, Finish, LockTypes, NoOp
<1>4. ASSUME UNCHANGED backups, UNCHANGED history, PruneInv(w)'
      PROVE  BackupInv'
  BY <1>2, <1>4 DEF BackupInv, Newest, Recent, history
<1>e. \A i \in 1 .. n : backups[i] \in Backup
  BY <1>0, <1>z
<1>n. DOMAIN backups = 1 .. n
  BY <1>0, <1>z
<1>5. CASE \/ ReadCurrent(w) \/ FindFuture(w) \/ RefuseWrite(w) \/ Conflict(w)
           \/ NoRecovery(w) \/ QuarantineFails(w)
  <2>1. UNCHANGED backups /\ UNCHANGED history /\ Finish(w)
    BY <1>5 DEF ReadCurrent, FindFuture, RefuseWrite, Conflict, NoRecovery, QuarantineFails,
                GiveUp, Return, Throw, history
  <2> QED
    BY <1>3, <1>4, <2>1
<1>6. CASE \/ ReadOutdated(w) \/ ReadLegacy(w) \/ FindCorrupt(w) \/ CheckWrite(w)
           \/ CommitFails(w) \/ VerifyFails(w) \/ Quarantine(w)
  <2>1. UNCHANGED backups /\ UNCHANGED history
    BY <1>6 DEF ReadOutdated, ReadLegacy, FindCorrupt, CheckWrite, CommitFails, VerifyFails,
                Quarantine, history
  <2>2. op'[w].stage \in {"backup", "recover", "compare", "failed", "restore"}
    <3>1. CASE ReadOutdated(w) \/ ReadLegacy(w)
      BY <1>0, <3>1 DEF ReadOutdated, ReadLegacy, Continue, LockTypes, Operation
    <3>2. CASE FindCorrupt(w) \/ CheckWrite(w) \/ CommitFails(w)
      BY <1>0, <3>2 DEF FindCorrupt, CheckWrite, CommitFails, Continue, LockTypes, Operation
    <3>3. CASE VerifyFails(w) \/ Quarantine(w)
      BY <1>0, <3>3 DEF VerifyFails, Quarantine, Continue, LockTypes, Operation
    <3> QED
      BY <1>6, <3>1, <3>2, <3>3
  <2> QED
    BY <1>3, <1>4, <2>1, <2>2
<1>7. CASE CreateBackupFails(w) \/ AfterFailure(w) \/ Verify(w)
  <2>1. /\ UNCHANGED backups /\ UNCHANGED history
        /\ \/ Finish(w)
           \/ \E s \in {"recover", "failed"} : Continue(w, [op[w] EXCEPT !.stage = s])
           \/ Continue(w, [op[w] EXCEPT !.stage = "recover", !.failing = ~Reading(w)])
           \/ Continue(w, [op[w] EXCEPT !.stage = "compare", !.cur = primary])
    BY <1>7 DEF CreateBackupFails, AfterFailure, Verify, WithoutBackup, Throw, GiveUp, Return,
                history
  <2>2. Finish(w) \/ op'[w].stage \in {"recover", "failed", "compare"}
    BY <1>0, <2>1 DEF Continue, LockTypes, Operation
  <2> QED
    BY <1>3, <1>4, <2>1, <2>2
<1>8. CASE CompareRevision(w)
  <2>1. /\ UNCHANGED backups /\ UNCHANGED history /\ op[w].stage = "compare"
        /\ op'[w].stage = IF Versioned(op[w].cur) THEN "backup" ELSE "commit"
    BY <1>0, <1>8 DEF CompareRevision, At, Continue, LockTypes, Operation, history
  <2>2. op[w].cur = last /\ last.kind # "legacy" /\ Readable(last)
    BY <1>0, <2>1 DEF WorkInv, FileInv
  <2>3. op'[w].stage = "backup" \/ (op'[w].stage = "commit" /\ last'.kind = "absent")
    BY <2>1, <2>2 DEF Readable, Versioned, history
  <2>4. PruneInv(w)'
    BY <2>3 DEF PruneInv
  <2> QED
    BY <1>4, <2>1, <2>4
<1>9. CASE CreateBackup(w)
  <2> DEFINE reason == IF op[w].task = "migrate" THEN "migration" ELSE "commit"
             entry == [rev |-> op[w].cur.rev, data |-> op[w].cur.data,
                       versioned |-> Versioned(op[w].cur), reason |-> reason,
                       intact |-> TRUE]
  <2>1. /\ UNCHANGED history /\ op[w].stage = "backup"
        /\ \E i \in BackupPositions, s \in {"unlink", "commit"} :
              /\ backups' = InsertAt(backups, i, entry)
              /\ op'[w] = [op[w] EXCEPT !.stage = s, !.slot = i]
    BY <1>0, <1>9 DEF CreateBackup, At, Continue, LockTypes, history
  <2>2. op[w].cur = last
    BY <1>0, <2>1 DEF WorkInv, CommitsNext
  <2>3. entry.data = last.data /\ entry.intact /\ entry \in Backup
    BY <1>0, <2>2 DEF Backup, Document, Versioned
  <2> HIDE DEF entry, reason
  <2>4. /\ backups' = InsertAt(backups, n + 1, entry)
        /\ op'[w].slot = n + 1 /\ op'[w].stage \in {"unlink", "commit"}
    BY <1>0, <1>z, <2>1 DEF BackupsToSpare, BackupPositions, Operation
  <2>5. /\ Len(backups') = n + 1 /\ DOMAIN backups' = 1 .. n + 1
        /\ backups'[n + 1] = entry
        /\ \A j \in 1 .. n : backups'[j] = backups[j]
    <3>1. n + 1 \in 1 .. Len(backups) + 1
      BY <1>0, <1>z
    <3>2. /\ Len(backups') = n + 1
          /\ \A j \in 1 .. n + 1 :
               backups'[j] = IF j < n + 1 THEN backups[j] ELSE IF j = n + 1 THEN entry ELSE backups[j - 1]
      BY <1>0, <1>z, <2>3, <2>4, <3>1, InsertParts
    <3>3. backups' \in Seq(Backup)
      BY <1>0, <2>3, <2>4, <3>1, InsertType
    <3> QED
      BY <1>0, <3>2, <3>3
  <2>6. Newest' = {n + 1}
    BY <1>0, <2>3, <2>5 DEF Newest
  <2>7. BackedUp(n + 1)' /\ Recent(n + 1)'
    BY <2>1, <2>3, <2>5, <2>6 DEF BackedUp, Recent, history
  <2>8. OthersRecent'
    <3>1. ASSUME NEW i \in 1 .. n, backups'[i].intact,
                 \A j \in i + 1 .. n : ~backups'[j].intact
          PROVE  Recent(i)'
      <4>1. i \in Newest
        BY <1>0, <1>n, <2>5, <3>1 DEF Newest
      <4> QED
        BY <2>1, <2>5, <4>1 DEF BackupInv, Recent, history
    <3>2. Len(backups') - 1 = n
      BY <1>0, <2>5
    <3> QED
      BY <3>1, <3>2 DEF OthersRecent
  <2>9. PruneInv(w)'
    BY <2>4, <2>5, <2>7, <2>8 DEF PruneInv
  <2> QED
    BY <1>2, <2>6, <2>7, <2>9
<1>10. CASE UnlinkObsolete(w)
  <2>1. /\ UNCHANGED history /\ op[w].stage = "unlink"
        /\ backups' = [i \in DOMAIN backups |->
                         [backups[i] EXCEPT !.intact = @ /\ i \notin Obsolete]]
        /\ op'[w] = [op[w] EXCEPT !.stage = IF Obsolete = {} THEN "commit" ELSE "prune"]
    BY <1>0, <1>10 DEF UnlinkObsolete, At, Continue, LockTypes, history
  <2>2. op[w].slot = n /\ BackedUp(n) /\ OthersRecent
    BY <1>0, <1>z, <2>1 DEF PruneInv
  <2>3. n \in 1 .. n /\ backups[n].intact
    BY <1>n, <2>2 DEF BackedUp, Newest
  <2>4. n \notin Obsolete
    <3>1. Later(n) = {}
      BY <1>0, <1>n DEF Later
    <3> QED
      BY <3>1, FS_EmptySet, Parameters DEF Obsolete, Later
  <2>5. /\ DOMAIN backups' = 1 .. n /\ Len(backups') = n
        /\ \A i \in 1 .. n :
             /\ backups'[i].data = backups[i].data
             /\ backups'[i].reason = backups[i].reason
             /\ backups'[i].intact <=> backups[i].intact /\ i \notin Obsolete
    <3>1. backups' = [i \in 1 .. n |-> [backups[i] EXCEPT !.intact = @ /\ i \notin Obsolete]]
      BY <1>n, <2>1
    <3>2. Len(backups') = n
      BY <1>z, <3>1
    <3> QED
      BY <1>e, <3>1, <3>2 DEF Backup
  <2>6. Newest' = {n}
    BY <1>0, <2>3, <2>4, <2>5 DEF Newest
  <2>7. BackedUp(n)' /\ Recent(n)'
    BY <2>1, <2>2, <2>3, <2>5, <2>6 DEF BackedUp, Recent, history
  <2>8. Obsolete' = Obsolete
    <3>1. \A i \in 1 .. n : IsCommit(i)' <=> IsCommit(i)
      BY <2>5 DEF IsCommit
    <3>2. ASSUME NEW i \in 1 .. n
          PROVE  {j \in 1 .. n : j > i /\ IsCommit(j)'} = {j \in 1 .. n : j > i /\ IsCommit(j)}
      BY <3>1
    <3> QED
      BY <1>n, <2>5, <3>1, <3>2 DEF Obsolete
  <2>9. OthersRecent'
    <3>1. ASSUME NEW i \in 1 .. n - 1, backups'[i].intact,
                 \A j \in i + 1 .. n - 1 : ~backups'[j].intact /\ j \notin Obsolete
          PROVE  Recent(i)'
      <4>1. backups[i].intact /\ i \in 1 .. n
        BY <1>0, <2>5, <3>1
      <4>2. \A j \in i + 1 .. n - 1 : ~backups[j].intact /\ j \notin Obsolete
        BY <1>0, <2>5, <3>1
      <4>3. Recent(i)
        BY <1>z, <2>2, <4>1, <4>2 DEF OthersRecent
      <4> QED
        BY <2>1, <2>5, <4>1, <4>3 DEF Recent, history
    <3> QED
      BY <2>5, <2>8, <3>1 DEF OthersRecent
  <2>10. PruneInv(w)'
    <3>1. op'[w].slot = n /\ (op'[w].stage = "commit" \/ (op'[w].stage = "prune" /\ Obsolete # {}))
      BY <1>0, <2>1, <2>2 DEF Operation
    <3> QED
      BY <2>3, <2>5, <2>7, <2>8, <2>9, <3>1 DEF PruneInv
  <2> QED
    BY <1>2, <2>6, <2>7, <2>10
<1>11. CASE PruneJournal(w)
  <2>1. /\ UNCHANGED history /\ op[w].stage = "prune" /\ op'[w].stage = "commit"
    BY <1>0, <1>11 DEF PruneJournal, At, Continue, LockTypes, Operation, history
  <2>2. PICK f \in [1 .. Cardinality(Kept) -> Kept] :
          /\ \A i, j \in DOMAIN f : i < j => f[i] < f[j]
          /\ backups' = [i \in DOMAIN f |-> backups[f[i]]]
    BY <1>11 DEF PruneJournal
  <2>3. BackedUp(n) /\ n \in 1 .. n /\ backups[n].intact
    BY <1>0, <1>n, <1>z, <2>1 DEF PruneInv, BackedUp, Newest
  <2>4. n \in Kept
    <3>1. Later(n) = {}
      BY <1>0, <1>n DEF Later
    <3> QED
      BY <1>n, <2>3, <3>1, FS_EmptySet, Parameters DEF Kept, Obsolete, Later
  <2>5. PICK m \in DOMAIN f : f[m] = n
    BY <1>0, <2>2, <2>4, EachKeptIsNumbered
  <2>6. /\ DOMAIN backups' = DOMAIN f /\ backups'[m] = backups[n]
        /\ \A j \in DOMAIN f : j > m => FALSE
    <3>1. \A j \in DOMAIN f : f[j] \in 1 .. n
      BY <1>n, <2>2 DEF Kept
    <3> QED
      BY <1>0, <2>2, <2>5, <3>1
  <2>7. Newest' = {m}
    <3>1. \A j \in DOMAIN f : j # m => j < m
      <4>1. DOMAIN f \subseteq Int
        BY <2>2
      <4> QED
        BY <2>6, <4>1
    <3> QED
      BY <2>3, <2>6, <3>1 DEF Newest
  <2>8. BackedUp(m)' /\ Recent(m)' /\ m \in DOMAIN backups'
    BY <2>1, <2>3, <2>6, <2>7 DEF BackedUp, Recent, history
  <2>9. PruneInv(w)'
    BY <2>1, <2>8 DEF PruneInv
  <2> QED
    BY <1>2, <2>7, <2>8, <2>9
<1>12. CASE PruneFails(w)
  <2>1. /\ UNCHANGED history /\ op[w].stage = "prune"
        /\ Cardinality({i \in Kept : ~backups[i].intact}) <= MaxMissing
        /\ backups' = [i \in DOMAIN backups |->
                         [backups[i] EXCEPT !.intact = @ /\ i # op[w].slot]]
        /\ WithoutBackup(w)
    BY <1>12 DEF PruneFails, At, history
  <2>2. op[w].slot = n /\ OthersRecent /\ Obsolete # {}
    BY <1>0, <1>z, <2>1 DEF PruneInv
  <2>3. PICK k \in KeptCommits : backups[k].intact /\ k # n
    BY <1>0, <2>1, <2>2, AnotherIsKept DEF BackupsToSpare
  <2>4. k \in 1 .. n /\ k \notin Obsolete /\ IsCommit(k)
    BY <1>n DEF KeptCommits, Kept
  <2>5. /\ DOMAIN backups' = 1 .. n /\ backups' \in Seq(Backup)
        /\ \A i \in 1 .. n :
             /\ backups'[i].data = backups[i].data
             /\ backups'[i].intact <=> backups[i].intact /\ i # n
    <3>1. backups' = [i \in DOMAIN backups |->
                        [backups[i] EXCEPT !.intact = @ /\ i \notin {n}]]
      BY <2>1, <2>2
    <3>2. backups' \in Seq(Backup)
      BY <1>0, <3>1, MarkedType
    <3> QED
      BY <1>n, <1>e, <3>1, <3>2 DEF Backup
  <2>6. Newest' # {}
    <3>1. k \in DOMAIN backups' /\ backups'[k].intact
      BY <2>3, <2>4, <2>5
    <3>2. \E m \in DOMAIN backups' :
             backups'[m].intact /\ \A j \in DOMAIN backups' : j > m => ~backups'[j].intact
      BY <2>5, <3>1, NewestExists
    <3> QED
      BY <3>2 DEF Newest
  <2>7. ASSUME NEW i \in Newest'
        PROVE  Recent(i)'
    <3>1. /\ i \in 1 .. n /\ i # n /\ backups[i].intact
          /\ \A j \in 1 .. n : j > i => ~backups[j].intact \/ j = n
      BY <2>5, <2>7 DEF Newest
    <3>2. k <= i
      BY <1>0, <2>3, <2>4, <3>1
    <3>3. ASSUME NEW j \in i + 1 .. n - 1
          PROVE  ~backups[j].intact /\ j \notin Obsolete
      <4>1. j \in 1 .. n /\ j > i /\ j # n /\ k < j
        BY <1>0, <2>4, <3>1, <3>2
      <4>2. j \notin Obsolete
        BY <1>0, <1>n, <2>4, <4>1, OlderObsolete
      <4> QED
        BY <3>1, <4>1, <4>2
    <3>4. i \in 1 .. n - 1
      BY <1>0, <3>1
    <3>5. Recent(i)
      BY <1>z, <2>2, <3>1, <3>3, <3>4 DEF OthersRecent
    <3> QED
      BY <2>1, <2>5, <3>1, <3>5 DEF Recent, history
  <2>8. PruneInv(w)'
    <3>1. Finish(w) \/ \E s \in {"recover", "failed"} : Continue(w, [op[w] EXCEPT !.stage = s])
      BY <2>1 DEF WithoutBackup, Throw
    <3>2. Finish(w) \/ op'[w].stage \in {"recover", "failed"}
      BY <1>0, <3>1 DEF Continue, LockTypes, Operation
    <3> QED
      BY <1>3, <3>2
  <2> QED
    BY <1>2, <2>6, <2>7, <2>8
<1>13. CASE Commit(w)
  <2>1. /\ UNCHANGED backups /\ op[w].stage = "commit" /\ op'[w].stage = "verify"
        /\ last' = op[w].next
        /\ before' = IF op[w].next.data = last.data THEN before ELSE last.data
    BY <1>0, <1>13 DEF Commit, Replace, At, Continue, LockTypes, Operation
  <2>2. PruneInv(w)' /\ Newest' = Newest
    BY <1>3, <2>1 DEF Newest
  <2>3. CASE last.kind = "absent"
    <3>1. last.data = Nothing /\ Newest = {}
      BY <1>0, <2>3 DEF FileInv, Newest
    <3>2. before' = Nothing
      BY <2>1, <3>1 DEF BackupInv
    <3> QED
      BY <1>2, <2>2, <3>1, <3>2
  <2>4. CASE last.kind # "absent"
    <3>1. PICK i \in Newest : backups[i].data = last.data
      BY <1>0, <2>1, <2>4 DEF PruneInv, BackedUp
    <3>2. Recent(i)'
      BY <2>1, <3>1 DEF Recent
    <3>3. \A j \in Newest' : j = i
      BY <1>0, <2>2, <3>1, NewestUnique
    <3> QED
      BY <1>2, <2>2, <3>2, <3>3
  <2> QED
    BY <2>3, <2>4
<1>14. CASE Restore(w) \/ RestoreFails(w)
  <2>1. UNCHANGED backups /\ Newest' = Newest
    BY <1>14 DEF Restore, RestoreFails, Newest
  <2>2. PruneInv(w)'
    <3>1. \/ Finish(w)
          \/ \E i \in Newest : Continue(w, [op[w] EXCEPT !.stage = "compare", !.cur = Restored(i)])
      BY <1>14 DEF Restore, RestoreFails, GiveUp, Return
    <3>2. Finish(w) \/ op'[w].stage = "compare"
      BY <1>0, <3>1 DEF Continue, LockTypes, Operation
    <3> QED
      BY <1>3, <3>2
  <2>3. CASE \E i \in Newest : Replace(Restored(i))
    <3>1. PICK i \in Newest : Replace(Restored(i))
      BY <2>3
    <3>2. last'.data = backups[i].data
      BY <3>1 DEF Replace, Restored, Envelope
    <3>3. Recent(i)' /\ \A j \in Newest' : j = i
      BY <1>0, <2>1, <3>1, <3>2, NewestUnique DEF Recent
    <3> QED
      BY <1>2, <2>1, <2>2, <3>1, <3>3
  <2>4. CASE UNCHANGED history
    BY <1>4, <2>1, <2>2, <2>4
  <2> QED
    BY <1>14, <2>3, <2>4 DEF Restore, RestoreFails
<1> QED
  BY <1>5, <1>6, <1>7, <1>8, <1>9, <1>10, <1>11, <1>12, <1>13, <1>14 DEF Step

(***************************************************************************)
(* Relative to TypeInv and RegisterInv, BackupInv is inductive.            *)
(***************************************************************************)
LEMMA BackupInvariant ==
  ASSUME BackupsToSpare
  PROVE  /\ Init => BackupInv
         /\ TypeInv /\ RegisterInv /\ BackupInv /\ [Next]_vars => BackupInv'
<1>1. Init => BackupInv
  BY DEF Init, BackupInv, Newest, PruneInv, NoOp
<1>2. ASSUME TypeInv, RegisterInv, BackupInv, [Next]_vars
      PROVE  BackupInv'
  <2>0. LockTypes
    BY <1>2, TypeParts DEF TypeInv
  <2>1. ASSUME UNCHANGED backups, UNCHANGED history,
               \A w \in Windows : op'[w] = op[w] \/ op'[w].kind = "none" \/ op'[w].stage = "check"
        PROVE  BackupInv'
    <3>1. Newest' = Newest /\ Obsolete' = Obsolete
      BY <2>1 DEF Newest, Obsolete, IsCommit
    <3>2. (OthersRecent' <=> OthersRecent) /\ \A i : (BackedUp(i)' <=> BackedUp(i)) /\ (Recent(i)' <=> Recent(i))
      BY <2>1, <3>1 DEF OthersRecent, BackedUp, Recent, history
    <3>3. \A w \in Windows : PruneInv(w)'
      BY <1>2, <2>1, <3>1, <3>2 DEF BackupInv, PruneInv, history
    <3> QED
      BY <1>2, <2>1, <3>1, <3>2, <3>3 DEF BackupInv, history
  <2>2. CASE UNCHANGED vars
    BY <2>1, <2>2 DEF vars, history
  <2>3. CASE Damage
    BY <2>1, <2>3 DEF Damage, history
  <2>4. ASSUME NEW w \in Windows, BeginLoad(w) \/ BeginPeek(w) \/ BeginWrite(w)
        PROVE  BackupInv'
    <3>1. PICK kind \in Calls : Begin(w, kind)
      BY <2>4 DEF BeginLoad, BeginPeek, BeginWrite, Calls
    <3>2. /\ UNCHANGED backups /\ UNCHANGED history /\ op'[w].stage = "check"
          /\ \A v \in Windows : v # w => op'[v] = op[v]
      BY <2>0, <3>1 DEF Begin, LockTypes, NoOp, history
    <3> QED
      BY <2>1, <3>2
  <2>5. ASSUME NEW w \in Windows, Step(w)
        PROVE  BackupInv'
    BY <1>2, <2>5, BackupStep
  <2>6. ASSUME NEW w \in Windows, Reopen(w)
        PROVE  BackupInv'
    <3>1. /\ UNCHANGED backups /\ UNCHANGED history /\ op'[w].kind = "none"
          /\ \A v \in Windows : v # w => op'[v] = op[v]
      BY <2>0, <2>6 DEF Reopen, LockTypes, NoOp, history
    <3> QED
      BY <2>1, <3>1
  <2> QED
    BY <1>2, <2>2, <2>3, <2>4, <2>5, <2>6 DEF Next
<1> QED
  BY <1>1, <1>2

(***************************************************************************)
(* "Unrecoverable state is visible and read-only rather than silently      *)
(* reset", for any windows, damage and faults but a failing move back:     *)
(* what was overwritten is listed as an intact backup, and a file that is  *)
(* missing is being restored.                                              *)
(***************************************************************************)
THEOREM NothingIsLost ==
  ASSUME RepairsEnd, BackupsToSpare
  PROVE  Spec => []DocumentSurvives
<1>1. Spec => []BackupInv
  BY RegisterInvAlways, BackupInvariant, PTL DEF Spec
<1>2. ASSUME TypeInv, RegisterInv, BackupInv
      PROVE  DocumentSurvives
  <2>1. OverwrittenIsRecoverable
    BY <1>2 DEF BackupInv, OverwrittenIsRecoverable
  <2>2. ASSUME last.data # Nothing, primary.kind = "absent"
        PROVE  holder # "none"
    <3>1. PICK w \in Windows : At(w, "restore")
      BY <1>2, <2>2 DEF RegisterInv, FileInv, Missing, Readable
    <3>2. holder = w
      BY <1>2, <3>1 DEF TypeInv, Serial, At
    <3> QED
      BY <3>2, NoneIsNoWindow
  <2> QED
    BY <2>1, <2>2 DEF DocumentSurvives, NeverSilentlyReset
<1> QED
  BY <1>1, <1>2, RegisterInvAlways, PTL

(***************************************************************************)
(* Recovery costs at most the last write: whatever failed, was damaged or  *)
(* pruned before, it brings back the last committed content or the one     *)
(* that replaced.                                                          *)
(***************************************************************************)
THEOREM RecoveredIsRecent ==
  ASSUME RepairsEnd, BackupsToSpare
  PROVE  Spec => RecoveryLosesAtMostOne
<1>1. Spec => []BackupInv
  BY RegisterInvAlways, BackupInvariant, PTL DEF Spec
<1>2. ASSUME TypeInv, RegisterInv, BackupInv, [Next]_vars,
             NEW w \in Windows, At(w, "restore"), primary'.kind = "envelope"
      PROVE  primary'.data \in {last.data, before}
  <2>1. ASSUME primary' = primary
        PROVE  primary'.data \in {last.data, before}
    BY <1>2, <2>1 DEF RegisterInv, FileInv, Missing, Absent, Readable
  <2>2. ASSUME NEW i \in Newest, primary' = Restored(i)
        PROVE  primary'.data \in {last.data, before}
    BY <1>2, <2>2 DEF BackupInv, Recent, Restored, Envelope
  <2>3. ~Damage
    BY <1>2 DEF Damage, Corrupt
  <2>4. CASE UNCHANGED vars
    BY <2>1, <2>4 DEF vars
  <2>5. ASSUME NEW v \in Windows, BeginLoad(v) \/ BeginPeek(v) \/ BeginWrite(v) \/ Reopen(v)
        PROVE  primary' = primary
    BY <2>5 DEF BeginLoad, BeginPeek, BeginWrite, Begin, Reopen
  <2>6. ASSUME NEW v \in Windows, Step(v)
        PROVE  v = w
    BY <1>2, <2>6, StepShape, OthersIdle DEF TypeInv, At
  <2>7. CASE Step(w)
    <3>1. Restore(w) \/ RestoreFails(w)
      BY <1>2, <2>7
      DEF At, Step, ReadCurrent, ReadOutdated, ReadLegacy, FindCorrupt, FindFuture, RefuseWrite,
          CheckWrite, CompareRevision, Conflict, CreateBackup, UnlinkObsolete, PruneJournal,
          CreateBackupFails, PruneFails, Commit, CommitFails, Verify, VerifyFails, AfterFailure,
          NoRecovery, Quarantine, QuarantineFails
    <3>2. CASE \E i \in Newest : Replace(Restored(i))
      BY <2>2, <3>2 DEF Replace
    <3>3. CASE primary' \in {op[w].cur, Absent}
      <4>1. op[w].cur = last \/ ~Readable(op[w].cur)
        BY <1>2 DEF RegisterInv, WorkInv, At
      <4> QED
        BY <1>2, <3>3, <4>1 DEF Absent, Readable
    <3> QED
      BY <3>1, <3>2, <3>3 DEF Restore, RestoreFails
  <2> QED
    BY <1>2, <2>1, <2>3, <2>4, <2>5, <2>6, <2>7 DEF Next
<1>3. TypeInv /\ RegisterInv /\ BackupInv /\ [Next]_vars
      => [\A w \in Windows :
            At(w, "restore") /\ primary'.kind = "envelope"
              => primary'.data \in {last.data, before}]_vars
  BY <1>2
<1> QED
  BY <1>1, <1>3, RegisterInvAlways, PTL DEF Spec, RecoveryLosesAtMostOne
-----------------------------------------------------------------------------
(***************************************************************************)
(* The windows between their exclusive create and the end of their         *)
(* release, whose lock file must still be on disk.                         *)
(***************************************************************************)
Locking == {"write", "unlinkFailed", "critical", "release", "unlinkOwn"}

(***************************************************************************)
(* Why exclusion holds until a lock is orphaned: a window in its locked    *)
(* operation owns the one file, the owner of the file is alive, and so     *)
(* nobody has judged a file stale.  Exclusion alone is not inductive: it   *)
(* says nothing of a window about to unlink.                               *)
(***************************************************************************)
NotOrphaned ==
  /\ \A w \in Processes : pc[w] \in Locking => Owns(w)
  /\ Exists => Alive(lockFile.owner)
  /\ \A w \in Processes : pc[w] # "reclaim"

LockIInv == LockTypeOK /\ (orphans = {} => NotOrphaned)

(***************************************************************************)
(* The states of the model are well typed: LockSpec keeps LockTypeOK.              *)
(***************************************************************************)
THEOREM LockTypeCorrect == LockSpec => []LockTypeOK
<1>1. LockInit => LockTypeOK
  BY DEF LockInit, LockTypeOK, Locations
<1>2. LockTypeOK /\ [LockNext]_lockVars => LockTypeOK'
  <2> SUFFICES ASSUME LockTypeOK, [LockNext]_lockVars PROVE LockTypeOK'
    OBVIOUS
  <2> USE DEF LockTypeOK, LockFile, NoFile, Locations, Goto
  <2>1. CASE UNCHANGED lockVars
    BY <2>1 DEF lockVars
  <2>2. ASSUME NEW w \in Processes, Request(w) PROVE LockTypeOK'
    BY <2>2 DEF Request
  <2>3. ASSUME NEW w \in Processes, LockStep(w) PROVE LockTypeOK'
    <3>1. CASE OpenCreates(w)
      BY <3>1 DEF OpenCreates
    <3>5. CASE OpenFindsLock(w) \/ WriteFails(w)
      BY <3>5 DEF OpenFindsLock, WriteFails
    <3>2. CASE WriteRecord(w)
      BY <3>2, NoneIsNoProcess DEF WriteRecord, Owns
    <3>3. CASE UnlinkFailed(w) \/ Reclaim(w) \/ UnlinkOwn(w)
      BY <3>3 DEF UnlinkFailed, Reclaim, UnlinkOwn
    <3>4. CASE Inspect(w) \/ TimeOut(w) \/ Retry(w) \/ FinishOperation(w) \/ CheckToken(w)
      BY <3>4 DEF Inspect, JudgeStale, JudgeInUse, TimeOut, Retry, FinishOperation, CheckToken
    <3> QED
      BY <2>3, <3>1, <3>2, <3>3, <3>4, <3>5 DEF LockStep
  <2>4. ASSUME NEW w \in Processes, Crash(w) PROVE LockTypeOK'
    BY <2>4 DEF Crash
  <2> QED
    BY <2>1, <2>2, <2>3, <2>4 DEF LockNext
<1> QED
  BY <1>1, <1>2, PTL DEF LockSpec

(***************************************************************************)
(* The strengthened invariant is inductive.                                *)
(***************************************************************************)
LEMMA LockInductive == LockSpec => []LockIInv
<1>1. LockInit => LockIInv
  BY DEF LockInit, LockIInv, LockTypeOK, Locations, NotOrphaned, Locking, Exists
<1>2. LockIInv /\ LockTypeOK' /\ [LockNext]_lockVars => LockIInv'
  <2> SUFFICES ASSUME LockIInv, LockTypeOK', [LockNext]_lockVars, orphans' = {}
               PROVE NotOrphaned'
    BY DEF LockIInv
  <2> USE NoneIsNoProcess
      DEF LockTypeOK, LockFile, NoFile, Locations, Goto, NotOrphaned, Locking,
          Exists, Owns, Alive
  <2>1. CASE UNCHANGED lockVars
    BY <2>1 DEF LockIInv, lockVars
  <2>2. ASSUME NEW w \in Processes, Request(w) PROVE NotOrphaned'
    BY <2>2 DEF LockIInv, Request
  <2>3. ASSUME NEW w \in Processes, LockStep(w) PROVE NotOrphaned'
    <3>0. orphans = {} /\ NotOrphaned
      BY <2>3 DEF LockIInv, LockStep, OpenCreates, OpenFindsLock, WriteRecord, WriteFails,
         UnlinkFailed, Inspect, JudgeStale, JudgeInUse, Reclaim, TimeOut, Retry,
         FinishOperation, CheckToken, UnlinkOwn
    <3>1. CASE OpenCreates(w)
      BY <3>0, <3>1 DEF LockIInv, OpenCreates
    <3>2. CASE OpenFindsLock(w) \/ TimeOut(w) \/ Retry(w) \/ FinishOperation(w) \/ WriteFails(w)
      BY <3>0, <3>2 DEF LockIInv, OpenFindsLock, TimeOut, Retry, FinishOperation, WriteFails
    <3>3. CASE WriteRecord(w)
      BY <3>0, <3>3 DEF LockIInv, WriteRecord
    <3>4. CASE UnlinkFailed(w)
      BY <3>0, <3>4 DEF LockIInv, UnlinkFailed
    <3>5. CASE Inspect(w)
      BY <3>0, <3>5 DEF LockIInv, Inspect, JudgeStale, JudgeInUse
    <3>6. CASE Reclaim(w)
      BY <3>0, <3>6 DEF Reclaim
    <3>7. CASE CheckToken(w)
      BY <3>0, <3>7 DEF LockIInv, CheckToken, HasToken
    <3>8. CASE UnlinkOwn(w)
      BY <3>0, <3>8 DEF LockIInv, UnlinkOwn
    <3> QED
      BY <2>3, <3>1, <3>2, <3>3, <3>4, <3>5, <3>6, <3>7, <3>8 DEF LockStep
  <2>4. ASSUME NEW w \in Processes, Crash(w) PROVE NotOrphaned'
    <3>1. orphans = {} /\ ~Owns(w)
      BY <2>4 DEF Crash
    <3> QED
      BY <2>4, <3>1 DEF LockIInv, Crash
  <2> QED
    BY <2>1, <2>2, <2>3, <2>4 DEF LockNext
<1> QED
  BY <1>1, <1>2, LockTypeCorrect, PTL DEF LockSpec

(***************************************************************************)
(* For any number of windows, storage operations exclude each other until  *)
(* a window dies leaving its lock file behind.                             *)
(***************************************************************************)
THEOREM Exclusion == LockSpec => []ExclusionUnlessOrphaned
<1>1. LockIInv => ExclusionUnlessOrphaned
  BY DEF LockIInv, NotOrphaned, Locking, Owns, ExclusionUnlessOrphaned,
         MutualExclusion, InCriticalSection
<1> QED
  BY <1>1, LockInductive, PTL

(***************************************************************************)
(* For any number of windows, until a lock is orphaned the lock file of a  *)
(* live window disappears only by a step of that window.                   *)
(***************************************************************************)
THEOREM OwnerUnlinks == LockSpec => OnlyOwnerUnlinks
<1> DEFINE OthersKeep == orphans = {} /\ Exists =>
                           \/ lockFile'.owner = lockFile.owner
                           \/ pc'[lockFile.owner] # pc[lockFile.owner]
<1>1. LockIInv /\ [LockNext]_lockVars => [OthersKeep]_lockVars
  <2> SUFFICES ASSUME LockIInv, LockNext, orphans = {}, Exists,
                      lockFile'.owner # lockFile.owner
               PROVE  pc'[lockFile.owner] # pc[lockFile.owner]
    OBVIOUS
  <2> USE DEF LockIInv, NotOrphaned, Locking, Exists, Owns
  <2>1. PICK w \in Processes : Request(w) \/ LockStep(w) \/ Crash(w)
    BY DEF LockNext
  <2>2. UnlinkFailed(w) \/ UnlinkOwn(w)
    <3>1. ~WriteRecord(w)
      BY DEF WriteRecord, LockTypeOK, LockFile, NoFile
    <3>2. ~OpenCreates(w) /\ ~Reclaim(w)
      BY DEF OpenCreates, Reclaim
    <3> QED
      BY <2>1, <3>1, <3>2
         DEF Request, LockStep, Crash, OpenFindsLock, WriteFails, Inspect, JudgeStale,
             JudgeInUse, TimeOut, Retry, FinishOperation, CheckToken
  <2>3. Owns(w) /\ pc[w] # "idle" /\ pc' = [pc EXCEPT ![w] = "idle"]
    BY <2>2 DEF UnlinkFailed, UnlinkOwn, Goto
  <2> QED
    BY <2>3 DEF LockTypeOK
<1> QED
  BY <1>1, LockInductive, PTL DEF LockSpec, OnlyOwnerUnlinks
=============================================================================
