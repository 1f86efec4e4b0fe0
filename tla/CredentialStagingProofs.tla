---------------------- MODULE CredentialStagingProofs ----------------------
(***************************************************************************)
(* Theorems about CredentialStaging, for any windows, requests, references *)
(* and faults.                                                             *)
(***************************************************************************)
EXTENDS CredentialStaging, TLAPS

-----------------------------------------------------------------------------
(* Types *)

LEMMA JobTypes ==
  /\ Idle \in Jobs /\ Closed \in Jobs
  /\ \A w \in Windows, todo \in SUBSET Requests, made \in [Requests -> OptionalRef],
        step \in {"store", "swap", "write", "idle"} :
       TypeOK => Proceed(w, step, todo, made) \in Jobs
  /\ \A refs \in SUBSET Refs : Clean(refs) \in Jobs
  /\ \A rs, todo \in SUBSET Requests, step \in {"store", "swap", "write"},
        does \in {"configure", "save", "create", "change"} :
       Job(step, does, rs, todo) \in Jobs
<1>1. Idle \in Jobs /\ Closed \in Jobs /\ \A refs \in SUBSET Refs : Clean(refs) \in Jobs
  BY DEF Idle, Closed, Clean, Job, Task, Jobs, NothingMade, OptionalRef
<1>2. \A rs, todo \in SUBSET Requests, step \in {"store", "swap", "write"},
         does \in {"configure", "save", "create", "change"} :
        Job(step, does, rs, todo) \in Jobs
  BY DEF Job, Task, Jobs, NothingMade, OptionalRef
<1>3. ASSUME NEW w \in Windows, NEW todo \in SUBSET Requests, TypeOK,
             NEW made \in [Requests -> OptionalRef],
             NEW step \in {"store", "swap", "write", "idle"}
      PROVE  Proceed(w, step, todo, made) \in Jobs
  <2>1. job[w] \in Jobs
    BY <1>3 DEF TypeOK
  <2> QED
    BY <1>1, <2>1 DEF Proceed, Task, Jobs
<1> QED
  BY <1>1, <1>2, <1>3

LEMMA InitType == Init => TypeOK
<1> SUFFICES ASSUME Init PROVE TypeOK
  OBVIOUS
<1>1. disk \in [revision : 1 .. MaxRevision, auth : Documents]
  BY BoundOnRevisions, InitialKind DEF Init
<1>2. /\ secrets \subseteq minted /\ minted \subseteq Refs
      /\ abandoned \subseteq Refs /\ disowned \subseteq Refs
  BY DEF Init, RefsIn
<1>3. known \in [Windows -> 0 .. MaxRevision]
  BY BoundOnRevisions DEF Init
<1>4. memory \in [Windows -> Documents]
  BY DEF Init, Documents, Credential
<1>5. staged \in [Windows -> [Requests -> StagedAuth]]
  BY DEF Init, Unstaged, StagedAuth, OptionalRef
<1>6. job \in [Windows -> Jobs]
  BY JobTypes DEF Init
<1> QED
  BY <1>1, <1>2, <1>3, <1>4, <1>5, <1>6 DEF TypeOK

(***************************************************************************)
(* The pieces a step is built from.                                        *)
(***************************************************************************)
LEMMA PieceTypes ==
  ASSUME TypeOK, NEW w \in Windows
  PROVE  /\ StagedRefs(w) \subseteq Refs /\ MadeRefs(w) \subseteq Refs
         /\ Superseded(w) \subseteq Refs
         /\ \A document \in Documents : Outdating(w, document) \subseteq Refs
         /\ Written(w) \in Documents
         /\ \A r \in Requests : PreviousOf(w, r) \in OptionalRef
<1>1. StagedRefs(w) \subseteq Refs /\ MadeRefs(w) \subseteq Refs
  BY DEF StagedRefs, MadeRefs
<1>2. Superseded(w) \subseteq Refs
  BY DEF Superseded
<1>3. \A document \in Documents : Outdating(w, document) \subseteq Refs
  BY DEF Outdating
<1>4. \A r \in Requests : PreviousOf(w, r) \in OptionalRef
  BY DEF PreviousOf, RefOf, TypeOK, StagedAuth, OptionalRef
<1>5. Written(w) \in Documents
  <2>1. ASSUME NEW r \in Requests PROVE Prepared(w, r) \in Credential
    BY DEF Prepared, RefOf, TypeOK, StagedAuth, OptionalRef, Credential
  <2>2. ASSUME NEW r \in Requests
        PROVE  /\ memory[w][r] \in Credential
               /\ job[w].made[r] # Nothing => job[w].made[r] \in Credential
    BY DEF TypeOK, Documents, Credential, Jobs, OptionalRef
  <2> QED
    BY <2>1, <2>2 DEF Written, Documents, Credential
<1> QED
  BY <1>1, <1>2, <1>3, <1>4, <1>5

LEMMA StageType ==
  ASSUME TypeOK, NEW w \in Windows, NEW r \in Requests, NEW ref \in OptionalRef,
         Stage(w, r, ref)
  PROVE  staged' \in [Windows -> [Requests -> StagedAuth]]
<1> DEFINE stage == [set |-> TRUE, new |-> ref, prev |-> PreviousOf(w, r)]
<1>1. stage \in StagedAuth
  BY PieceTypes DEF StagedAuth
<1>2. staged' = [staged EXCEPT ![w] = [staged[w] EXCEPT ![r] = stage]]
  BY DEF Stage
<1> HIDE DEF stage
<1>3. [staged[w] EXCEPT ![r] = stage] \in [Requests -> StagedAuth]
  BY <1>1 DEF TypeOK
<1> QED
  BY <1>2, <1>3 DEF TypeOK

LEMMA StepType == TypeOK /\ [Next]_vars => TypeOK'
<1> SUFFICES ASSUME TypeOK, [Next]_vars PROVE TypeOK'
  OBVIOUS
<1>1. CASE UNCHANGED vars
  BY <1>1 DEF TypeOK, vars
<1>2. ASSUME NEW w \in Windows, NEW newJob \in Jobs, Begin(w, newJob)
      PROVE  job' \in [Windows -> Jobs]
  BY <1>2 DEF Begin, TypeOK
<1>3. ASSUME NEW w \in Windows, Load(w) PROVE TypeOK'
  <2>1. job' \in [Windows -> Jobs]
    <3>1. Job("store", "create", {r \in Requests : disk.auth[r] = "header"},
              {r \in Requests : disk.auth[r] = "header"}) \in Jobs
      BY JobTypes
    <3> QED
      BY <1>3, <3>1, JobTypes DEF Load, TypeOK
  <2>2. known' \in [Windows -> 0 .. MaxRevision] /\ memory' \in [Windows -> Documents]
    BY <1>3, BoundOnRevisions DEF Load, TypeOK
  <2>3. abandoned' \subseteq Refs
    BY <1>3 DEF Load, TypeOK, Outdating
  <2> QED
    BY <1>3, <2>1, <2>2, <2>3 DEF Load, TypeOK
<1>4. ASSUME NEW w \in Windows, NEW r \in Requests, ConfigureAuth(w, r) PROVE TypeOK'
  <2>1. Job("store", "configure", {r}, {r}) \in Jobs
    BY JobTypes
  <2> QED
    BY <1>2, <1>4, <2>1 DEF ConfigureAuth, TypeOK
<1>5. ASSUME NEW w \in Windows, NEW r \in Requests, ConfigureNone(w, r) PROVE TypeOK'
  <2>1. Job("swap", "configure", {r}, {}) \in Jobs /\ Idle \in Jobs
    BY JobTypes
  <2>2. staged' \in [Windows -> [Requests -> StagedAuth]]
    <3>1. staged' = staged \/ Stage(w, r, Nothing)
      BY <1>5 DEF ConfigureNone
    <3> QED
      BY <3>1, StageType DEF TypeOK, OptionalRef
  <2>3. job' \in [Windows -> Jobs]
    BY <1>2, <1>5, <2>1 DEF ConfigureNone
  <2> QED
    BY <1>5, <2>2, <2>3 DEF ConfigureNone, TypeOK
<1>6. ASSUME NEW w \in Windows, NEW r \in Requests, SaveRequest(w, r) PROVE TypeOK'
  <2>1. \A typed \in SUBSET {r} :
          Job(IF typed = {} THEN "write" ELSE "store", "save", {r}, typed) \in Jobs
    BY JobTypes
  <2>2. job' \in [Windows -> Jobs]
    BY <1>2, <1>6, <2>1 DEF SaveRequest
  <2> QED
    BY <1>6, <2>2 DEF SaveRequest, TypeOK
<1>7. ASSUME NEW w \in Windows, CreateRequests(w) PROVE TypeOK'
  <2>1. \A new \in SUBSET Requests : \A authenticated \in SUBSET new :
          Job(IF authenticated = {} THEN "write" ELSE "store", "create", new,
              authenticated) \in Jobs
    BY JobTypes
  <2>2. job' \in [Windows -> Jobs]
    BY <1>2, <1>7, <2>1 DEF CreateRequests
  <2> QED
    BY <1>7, <2>2 DEF CreateRequests, TypeOK
<1>8. ASSUME NEW w \in Windows, ChangeTree(w) PROVE TypeOK'
  <2>1. \A removed \in SUBSET Requests : Job("write", "change", removed, {}) \in Jobs
    BY JobTypes
  <2>2. job' \in [Windows -> Jobs]
    BY <1>2, <1>8, <2>1 DEF ChangeTree
  <2> QED
    BY <1>8, <2>2 DEF ChangeTree, TypeOK
<1>9. ASSUME NEW w \in Windows, Discard(w) PROVE TypeOK'
  <2>1. Unstaged \in StagedAuth
    BY DEF Unstaged, StagedAuth, OptionalRef
  <2>2. staged' \in [Windows -> [Requests -> StagedAuth]]
    BY <1>9, <2>1 DEF Discard, TypeOK
  <2>3. job' \in [Windows -> Jobs]
    BY <1>9, JobTypes DEF Discard, TypeOK
  <2> QED
    BY <1>9, <2>2, <2>3 DEF Discard, TypeOK
<1>10. ASSUME NEW w \in Windows, StoreSecret(w) PROVE TypeOK'
  <2>1. PICK r \in job[w].todo, ref \in Refs \ minted :
          LET rest == job[w].todo \ {r}
              creates == job[w].does = "create"
              pending == staged[w][r].new # Nothing
          IN /\ secrets' = secrets \cup {ref} /\ minted' = minted \cup {ref}
             /\ IF creates \/ pending THEN UNCHANGED staged ELSE Stage(w, r, ref)
             /\ job' = [job EXCEPT ![w] = Proceed(w,
                  IF rest # {} THEN "store" ELSE IF creates THEN "write"
                    ELSE IF pending THEN "swap" ELSE AfterStage(w),
                  rest,
                  IF creates \/ pending THEN [job[w].made EXCEPT ![r] = ref]
                    ELSE job[w].made)]
    BY <1>10 DEF StoreSecret
  <2>2. r \in Requests
    BY DEF TypeOK, Jobs
  <2>3. staged' \in [Windows -> [Requests -> StagedAuth]]
    <3>1. staged' = staged \/ Stage(w, r, ref)
      BY <2>1
    <3> QED
      BY <2>2, <3>1, StageType DEF TypeOK, OptionalRef
  <2>4. job' \in [Windows -> Jobs]
    <3>1. /\ job[w].todo \ {r} \in SUBSET Requests
          /\ job[w].made \in [Requests -> OptionalRef]
          /\ [job[w].made EXCEPT ![r] = ref] \in [Requests -> OptionalRef]
          /\ AfterStage(w) \in {"store", "swap", "write", "idle"}
      BY <2>2 DEF TypeOK, Jobs, OptionalRef, AfterStage
    <3> DEFINE creates == job[w].does = "create"
               pending == staged[w][r].new # Nothing
               rest == job[w].todo \ {r}
               step == IF rest # {} THEN "store" ELSE IF creates THEN "write"
                         ELSE IF pending THEN "swap" ELSE AfterStage(w)
               made == IF creates \/ pending THEN [job[w].made EXCEPT ![r] = ref]
                         ELSE job[w].made
    <3>2. step \in {"store", "swap", "write", "idle"} /\ made \in [Requests -> OptionalRef]
      BY <3>1
    <3>3. job' = [job EXCEPT ![w] = Proceed(w, step, rest, made)]
      BY <2>1
    <3> HIDE DEF step, made, rest
    <3>4. rest \in SUBSET Requests
      BY <3>1 DEF rest
    <3>5. Proceed(w, step, rest, made) \in Jobs
      BY <3>2, <3>4, JobTypes
    <3> QED
      BY <3>3, <3>5 DEF TypeOK
  <2> QED
    BY <1>10, <2>1, <2>3, <2>4 DEF StoreSecret, TypeOK
<1>11. ASSUME NEW w \in Windows, StoreFails(w) \/ SwapFails(w) PROVE TypeOK'
  BY <1>11, JobTypes, PieceTypes DEF StoreFails, SwapFails, TypeOK
<1>12. ASSUME NEW w \in Windows, SwapSecret(w) PROVE TypeOK'
  <2>1. PICK r \in job[w].on : /\ secrets' = secrets \ {staged[w][r].new}
                               /\ Stage(w, r, job[w].made[r])
    BY <1>12 DEF SwapSecret
  <2>2. r \in Requests
    BY DEF TypeOK, Jobs
  <2>3. staged' \in [Windows -> [Requests -> StagedAuth]]
    <3>1. job[w].made[r] \in OptionalRef
      BY <2>2 DEF TypeOK, Jobs
    <3> QED
      BY <2>1, <2>2, <3>1, StageType
  <2>4. job' \in [Windows -> Jobs]
    <3>1. /\ AfterStage(w) \in {"store", "swap", "write", "idle"}
          /\ NothingMade \in [Requests -> OptionalRef]
      BY DEF AfterStage, NothingMade, OptionalRef
    <3> QED
      BY <1>12, <3>1, JobTypes DEF SwapSecret, TypeOK
  <2> QED
    BY <1>12, <2>1, <2>3, <2>4 DEF SwapSecret, TypeOK
<1>13. ASSUME NEW w \in Windows, Commit(w) PROVE TypeOK'
  <2>1. Unstaged \in StagedAuth
    BY DEF Unstaged, StagedAuth, OptionalRef
  <2>2. staged' \in [Windows -> [Requests -> StagedAuth]]
    BY <1>13, <2>1 DEF Commit, TypeOK
  <2>3. disk.revision + 1 \in 1 .. MaxRevision
    BY <1>13, BoundOnRevisions DEF Commit, TypeOK
  <2>4. /\ disk' \in [revision : 1 .. MaxRevision, auth : Documents]
        /\ known' \in [Windows -> 0 .. MaxRevision]
        /\ memory' \in [Windows -> Documents]
    BY <1>13, <2>3, PieceTypes, BoundOnRevisions DEF Commit, TypeOK
  <2>5. job' \in [Windows -> Jobs] /\ abandoned' \subseteq Refs
    BY <1>13, JobTypes, PieceTypes DEF Commit, TypeOK
  <2> QED
    BY <1>13, <2>2, <2>4, <2>5 DEF Commit, TypeOK
<1>14. ASSUME NEW w \in Windows, WriteFails(w) PROVE TypeOK'
  BY <1>14, JobTypes, PieceTypes DEF WriteFails, Undone, Remembered, TypeOK
<1>15. ASSUME NEW w \in Windows, CommitReportedFailed(w) PROVE TypeOK'
  <2>1. disk.revision + 1 \in 1 .. MaxRevision
    BY <1>15, BoundOnRevisions DEF CommitReportedFailed, TypeOK
  <2>2. abandoned' \subseteq Refs /\ disowned' \subseteq Refs
    BY <1>15 DEF CommitReportedFailed, RefsIn, TypeOK
  <2> QED
    BY <1>15, <2>1, <2>2, JobTypes, PieceTypes DEF CommitReportedFailed, Undone, TypeOK
<1>16. ASSUME NEW w \in Windows, DeleteSecrets(w) PROVE TypeOK'
  <2>1. job[w].drop \subseteq Refs
    BY DEF TypeOK, Jobs
  <2> QED
    BY <1>16, <2>1, JobTypes DEF DeleteSecrets, TypeOK
<1>17. ASSUME NEW w \in Windows, Die(w) PROVE TypeOK'
  <2>1. /\ Unstaged \in StagedAuth
        /\ [r \in Requests |-> "absent"] \in Documents
    BY DEF Unstaged, StagedAuth, OptionalRef, Documents, Credential
  <2> QED
    BY <1>17, <2>1, JobTypes, BoundOnRevisions DEF Die, TypeOK
<1> QED
  BY <1>1, <1>3, <1>4, <1>5, <1>6, <1>7, <1>8, <1>9, <1>10, <1>11, <1>12, <1>13,
     <1>14, <1>15, <1>16, <1>17 DEF Next

(***************************************************************************)
(* The windows, the document and the secret store stay well typed.         *)
(***************************************************************************)
THEOREM TypeCorrect == Spec => []TypeOK
BY InitType, StepType, PTL DEF Spec

-----------------------------------------------------------------------------
(* Memory and document *)

(***************************************************************************)
(* A window never knows a revision from the future, so a document written  *)
(* by somebody else has a revision nobody knows yet.                       *)
(***************************************************************************)
MemoryInv ==
  /\ TypeOK
  /\ \A w \in Windows : known[w] <= disk.revision
  /\ MemoryIsDisk

LEMMA InitMemory == Init => MemoryInv
<1> SUFFICES ASSUME Init PROVE MemoryInv
  OBVIOUS
<1>1. TypeOK
  BY InitType
<1>2. \A w \in Windows : known[w] = 0 /\ disk.revision = 1
  BY DEF Init
<1> QED
  BY <1>1, <1>2 DEF MemoryInv, MemoryIsDisk

(***************************************************************************)
(* What a step does to the document, by the window that takes it.          *)
(***************************************************************************)
LEMMA DocumentStep ==
  ASSUME TypeOK, [Next]_vars
  PROVE  \/ UNCHANGED <<disk, known, memory>>
         \/ \E w \in Windows :
              /\ disk' = disk
              /\ \/ /\ known' = [known EXCEPT ![w] = disk.revision]
                    /\ memory' = [memory EXCEPT ![w] = disk.auth]
                 \/ /\ known' = [known EXCEPT ![w] = 0]
                    /\ memory' = [memory EXCEPT ![w] = [r \in Requests |-> "absent"]]
         \/ \E w \in Windows :
              /\ job[w].step = "write" /\ IsCurrent(w)
              /\ disk' = [revision |-> disk.revision + 1, auth |-> Written(w)]
              /\ \/ /\ known' = [known EXCEPT ![w] = disk.revision + 1]
                    /\ memory' = [memory EXCEPT ![w] = Written(w)]
                 \/ UNCHANGED <<known, memory>>
<1>1. CASE UNCHANGED vars
  BY <1>1 DEF vars
<1>2. ASSUME NEW w \in Windows, Load(w) \/ Die(w)
      PROVE  /\ disk' = disk
             /\ \/ /\ known' = [known EXCEPT ![w] = disk.revision]
                   /\ memory' = [memory EXCEPT ![w] = disk.auth]
                \/ /\ known' = [known EXCEPT ![w] = 0]
                   /\ memory' = [memory EXCEPT ![w] = [r \in Requests |-> "absent"]]
  BY <1>2 DEF Load, Die
<1>3. ASSUME NEW w \in Windows, Commit(w) \/ CommitReportedFailed(w)
      PROVE  /\ job[w].step = "write" /\ IsCurrent(w)
             /\ disk' = [revision |-> disk.revision + 1, auth |-> Written(w)]
             /\ \/ /\ known' = [known EXCEPT ![w] = disk.revision + 1]
                   /\ memory' = [memory EXCEPT ![w] = Written(w)]
                \/ UNCHANGED <<known, memory>>
  BY <1>3 DEF Commit, CommitReportedFailed
<1>4. ASSUME NEW w \in Windows, WriteFails(w) PROVE UNCHANGED <<disk, known, memory>>
  BY <1>4 DEF WriteFails, Remembered, TypeOK
<1>5. ASSUME NEW w \in Windows, NEW r \in Requests,
             ConfigureAuth(w, r) \/ ConfigureNone(w, r) \/ SaveRequest(w, r)
      PROVE  UNCHANGED <<disk, known, memory>>
  BY <1>5 DEF ConfigureAuth, ConfigureNone, SaveRequest
<1>6. ASSUME NEW w \in Windows, CreateRequests(w) \/ ChangeTree(w) \/ Discard(w)
      PROVE  UNCHANGED <<disk, known, memory>>
  BY <1>6 DEF CreateRequests, ChangeTree, Discard
<1>7. ASSUME NEW w \in Windows, \/ StoreSecret(w) \/ StoreFails(w)
                                \/ SwapSecret(w) \/ SwapFails(w) \/ DeleteSecrets(w)
      PROVE  UNCHANGED <<disk, known, memory>>
  BY <1>7 DEF StoreSecret, StoreFails, SwapSecret, SwapFails, DeleteSecrets
<1> QED
  BY <1>1, <1>2, <1>3, <1>4, <1>5, <1>6, <1>7 DEF Next

LEMMA StepMemory == MemoryInv /\ [Next]_vars => MemoryInv'
<1> SUFFICES ASSUME MemoryInv, [Next]_vars PROVE MemoryInv'
  OBVIOUS
<1>1. TypeOK'
  BY StepType DEF MemoryInv
<1>2. /\ disk.revision \in Nat /\ \A w \in Windows : known[w] \in Nat
      /\ known \in [Windows -> 0 .. MaxRevision] /\ memory \in [Windows -> Documents]
  BY BoundOnRevisions DEF MemoryInv, TypeOK
<1>3. CASE UNCHANGED <<disk, known, memory>>
  BY <1>1, <1>3 DEF MemoryInv, MemoryIsDisk
<1>4. ASSUME NEW w \in Windows, disk' = disk,
             known' = [known EXCEPT ![w] = disk.revision],
             memory' = [memory EXCEPT ![w] = disk.auth]
      PROVE  MemoryInv'
  BY <1>1, <1>2, <1>4 DEF MemoryInv, MemoryIsDisk
<1>5. ASSUME NEW w \in Windows, disk' = disk, known' = [known EXCEPT ![w] = 0],
             memory' = [memory EXCEPT ![w] = [r \in Requests |-> "absent"]]
      PROVE  MemoryInv'
  <2>1. disk.revision # 0
    BY BoundOnRevisions DEF MemoryInv, TypeOK
  <2> QED
    BY <1>1, <1>2, <1>5, <2>1 DEF MemoryInv, MemoryIsDisk
<1>6. ASSUME NEW w \in Windows,
             disk' = [revision |-> disk.revision + 1, auth |-> Written(w)],
             known' = [known EXCEPT ![w] = disk.revision + 1],
             memory' = [memory EXCEPT ![w] = Written(w)]
      PROVE  MemoryInv'
  BY <1>1, <1>2, <1>6 DEF MemoryInv, MemoryIsDisk
<1>7. ASSUME NEW w \in Windows,
             disk' = [revision |-> disk.revision + 1, auth |-> Written(w)],
             UNCHANGED <<known, memory>>
      PROVE  MemoryInv'
  BY <1>1, <1>2, <1>7 DEF MemoryInv, MemoryIsDisk
<1> QED
  BY <1>3, <1>4, <1>5, <1>6, <1>7, DocumentStep DEF MemoryInv

LEMMA AlwaysMemory == Spec => []MemoryInv
BY InitMemory, StepMemory, PTL DEF Spec

(***************************************************************************)
(* A window that knows the current revision remembers the current document *)
(* whatever fails, a write wrongly reported as failed included.            *)
(***************************************************************************)
THEOREM MemoryAgrees == Spec => []MemoryIsDisk
<1>1. MemoryInv => MemoryIsDisk
  BY DEF MemoryInv
<1> QED
  BY <1>1, AlwaysMemory, PTL

(***************************************************************************)
(* A write changes the credentials of the requests it is about only.       *)
(***************************************************************************)
THEOREM OthersKeepTheirs == Spec => OnlyNamedRequestsChange
<1> DEFINE Named == \A r \in Requests : disk'.auth[r] # disk.auth[r] =>
                      \E w \in Windows : job[w].step = "write" /\ r \in job[w].on
<1>1. MemoryInv /\ [Next]_vars => [Named]_vars
  <2> SUFFICES ASSUME MemoryInv, [Next]_vars, NEW r \in Requests,
                      disk'.auth[r] # disk.auth[r]
               PROVE  \E w \in Windows : job[w].step = "write" /\ r \in job[w].on
    OBVIOUS
  <2>1. PICK w \in Windows : /\ job[w].step = "write" /\ IsCurrent(w)
                             /\ disk' = [revision |-> disk.revision + 1, auth |-> Written(w)]
    BY DocumentStep DEF MemoryInv
  <2>2. memory[w] = disk.auth
    BY <2>1 DEF MemoryInv, MemoryIsDisk, IsCurrent
  <2>3. Written(w)[r] # memory[w][r]
    BY <2>1, <2>2
  <2> QED
    BY <2>1, <2>3 DEF Written
<1> QED
  BY <1>1, AlwaysMemory, PTL DEF Spec, OnlyNamedRequestsChange

-----------------------------------------------------------------------------
(* Secrets *)

(***************************************************************************)
(* References, but for those saved by a write that was reported as failed  *)
(* (for them all of this is false: run CredentialStaging_acknowledge):     *)
(* what is saved, what a window alone may use so far, and what it has from *)
(* the document, now or in the past, or is about to delete.                *)
(***************************************************************************)
Saved == RefsIn(disk.auth) \ disowned

Staged(w) == StagedRefs(w) \ disowned

Made(w) == MadeRefs(w) \ disowned

Held(w) == Staged(w) \cup Made(w)

PrevRefs(w) == {staged[w][r].prev : r \in Requests} \cap Refs

Exposed(w) == (RefsIn(memory[w]) \cup PrevRefs(w) \cup job[w].drop) \ disowned

(***************************************************************************)
(* Why no secret in use is deleted.  A reference that is not saved yet is  *)
(* held once, by one request of one window, and no window remembers it or  *)
(* is about to delete it; what is about to be deleted is not saved.        *)
(***************************************************************************)
HeldOnce ==
  /\ \A w \in Windows : Staged(w) \cap Made(w) = {}
  /\ \A w \in Windows : \A r1, r2 \in Requests :
       staged[w][r1].new \in Staged(w) /\ staged[w][r1].new = staged[w][r2].new => r1 = r2
  /\ \A w1, w2 \in Windows : w1 # w2 => Held(w1) \cap Held(w2) = {}

Apart ==
  /\ \A w \in Windows : Exposed(w) \subseteq minted
  /\ \A w1, w2 \in Windows : Held(w1) \cap Exposed(w2) = {}
  /\ \A w \in Windows : Held(w) \cap Saved = {}
  /\ \A w \in Windows : job[w].drop \cap Saved = {}

SecretInv ==
  /\ MemoryInv
  /\ SavedUnlessDisowned
  /\ \A w \in Windows : Held(w) \subseteq secrets
  /\ HeldOnce
  /\ Apart

LEMMA InitSecrets == Init => SecretInv
<1> SUFFICES ASSUME Init PROVE SecretInv
  OBVIOUS
<1>1. MemoryInv
  BY InitMemory
<1>2. ASSUME NEW w \in Windows
      PROVE  /\ StagedRefs(w) = {} /\ MadeRefs(w) = {} /\ PrevRefs(w) = {}
             /\ RefsIn(memory[w]) = {} /\ job[w].drop = {}
             /\ \A r \in Requests : staged[w][r].new \notin Refs
  <2>1. /\ \A r \in Requests : staged[w][r] = Unstaged /\ memory[w][r] = "absent"
        /\ job[w] = Closed
    BY DEF Init
  <2>2. job[w].drop = {} /\ job[w].made = NothingMade
    BY <2>1 DEF Closed, Job, Task
  <2>3. \A r \in Requests : /\ staged[w][r].new = Nothing /\ staged[w][r].prev = Nothing
                            /\ job[w].made[r] = Nothing
    BY <2>1, <2>2 DEF Unstaged, NothingMade
  <2>4. Nothing \notin Refs /\ "absent" \notin Refs
    BY NothingIsNoRef
  <2> QED
    BY <2>1, <2>2, <2>3, <2>4 DEF StagedRefs, MadeRefs, PrevRefs, RefsIn
<1>3. SavedUnlessDisowned
  BY DEF Init, SavedUnlessDisowned
<1> QED
  BY <1>1, <1>2, <1>3 DEF SecretInv, HeldOnce, Apart, Held, Staged, Made, Exposed

(***************************************************************************)
(* A step of window w leaves what the others hold alone.                   *)
(***************************************************************************)
Alone(w) ==
  \A v \in Windows \ {w} :
    staged'[v] = staged[v] /\ job'[v] = job[v] /\ memory'[v] = memory[v]

LEMMA OthersUnchanged ==
  ASSUME NEW w \in Windows, Alone(w), disowned \subseteq disowned', NEW v \in Windows, v # w
  PROVE  /\ Staged(v)' \subseteq Staged(v) /\ Made(v)' \subseteq Made(v)
         /\ Held(v)' \subseteq Held(v)
         /\ Exposed(v)' \subseteq Exposed(v) /\ (job[v].drop)' = job[v].drop
         /\ \A r \in Requests : (staged[v][r].new)' = staged[v][r].new
BY DEF Alone, Staged, StagedRefs, Made, MadeRefs, Held, Exposed, PrevRefs, RefsIn, Saved

(***************************************************************************)
(* It keeps the invariant if it holds only what it held or minted, exposes *)
(* nothing it goes on holding, deletes only what it held or was to delete, *)
(* and saves only what it held or what was saved.                          *)
(***************************************************************************)
LEMMA StepOfOne ==
  ASSUME SecretInv, MemoryInv', NEW w \in Windows, Alone(w),
         minted \subseteq minted', disowned \subseteq disowned',
         \A ref \in Held(w)' : ref \in Held(w) \/ ref \notin minted,
         Exposed(w)' \subseteq Exposed(w) \cup Saved \cup Held(w),
         Held(w)' \cap Exposed(w)' = {},
         Saved' \subseteq Saved \cup Held(w),
         Held(w)' \cap Saved' = {},
         (job[w].drop)' \cap Saved' = {},
         \A ref \in secrets : \/ ref \in secrets' \/ ref \in disowned
                             \/ ref \in Held(w) \/ ref \in job[w].drop,
         Saved' \subseteq secrets',
         Held(w)' \subseteq secrets',
         Staged(w)' \cap Made(w)' = {},
         \A r1, r2 \in Requests :
           (staged[w][r1].new)' \in Staged(w)'
             /\ (staged[w][r1].new)' = (staged[w][r2].new)' => r1 = r2
  PROVE  SecretInv'
<1>1. SavedUnlessDisowned'
  BY DEF SavedUnlessDisowned, Saved
<1>2. \A v \in Windows : /\ job[v].drop \subseteq Exposed(v) \cup disowned
                         /\ Held(v) \cap disowned = {}
  BY DEF Exposed, Held, Staged, Made
<1>3. /\ \A v \in Windows : Held(v) \subseteq minted
      /\ Saved \subseteq minted
  BY DEF SecretInv, MemoryInv, TypeOK, SavedUnlessDisowned, Saved
<1>4. ASSUME NEW v \in Windows PROVE (Held(v) \subseteq secrets)'
  <2>1. CASE v = w
    BY <2>1
  <2>2. CASE v # w
    <3>1. /\ Held(v) \cap Held(w) = {} /\ Held(v) \cap job[w].drop = {}
          /\ Held(v) \subseteq secrets
      BY <1>2, <2>2 DEF SecretInv, HeldOnce, Apart
    <3> QED
      BY <1>2, <2>2, <3>1, OthersUnchanged
  <2> QED
    BY <2>1, <2>2
<1>5. HeldOnce'
  <2>1. ASSUME NEW v \in Windows
        PROVE  /\ (Staged(v) \cap Made(v) = {})'
               /\ \A r1, r2 \in Requests :
                    (staged[v][r1].new)' \in Staged(v)' /\ (staged[v][r1].new)' = (staged[v][r2].new)'
                      => r1 = r2
    <3>1. CASE v = w
      BY <3>1
    <3>2. CASE v # w
      BY <3>2, OthersUnchanged DEF SecretInv, HeldOnce
    <3> QED
      BY <3>1, <3>2
  <2>2. ASSUME NEW v \in Windows, v # w PROVE Held(v)' \cap Held(w)' = {}
    BY <1>3, <2>2, OthersUnchanged DEF SecretInv, HeldOnce
  <2>3. ASSUME NEW v1 \in Windows, NEW v2 \in Windows, v1 # v2
        PROVE  Held(v1)' \cap Held(v2)' = {}
    <3>1. CASE v1 = w
      BY <2>2, <2>3, <3>1
    <3>2. CASE v2 = w
      BY <2>2, <2>3, <3>2
    <3>3. CASE v1 # w /\ v2 # w
      BY <2>3, <3>3, OthersUnchanged DEF SecretInv, HeldOnce
    <3> QED
      BY <3>1, <3>2, <3>3
  <2> QED
    BY <2>1, <2>3 DEF HeldOnce
<1>6. ASSUME NEW v \in Windows
      PROVE  /\ (Exposed(v) \subseteq minted)'
             /\ (Held(v) \cap Saved = {})'
             /\ (job[v].drop \cap Saved = {})'
  <2>1. CASE v = w
    BY <1>3, <2>1 DEF SecretInv, Apart
  <2>2. CASE v # w
    <3>1. /\ Exposed(v) \subseteq minted /\ Held(v) \cap Saved = {}
          /\ Held(v) \cap Held(w) = {} /\ Held(w) \cap Exposed(v) = {}
          /\ job[v].drop \cap Saved = {}
      BY <2>2 DEF SecretInv, HeldOnce, Apart
    <3> QED
      BY <1>2, <2>2, <3>1, OthersUnchanged
  <2> QED
    BY <2>1, <2>2
<1>7. ASSUME NEW v1 \in Windows, NEW v2 \in Windows
      PROVE  (Held(v1) \cap Exposed(v2) = {})'
  <2>1. /\ Held(v1) \cap Exposed(v2) = {} /\ Held(w) \cap Exposed(v2) = {}
        /\ Held(v1) \cap Exposed(w) = {} /\ Held(v1) \cap Saved = {}
        /\ Exposed(v2) \subseteq minted
        /\ v1 # w => Held(v1) \cap Held(w) = {}
    BY DEF SecretInv, HeldOnce, Apart
  <2>2. CASE v1 = w /\ v2 = w
    BY <2>2
  <2>3. CASE v1 = w /\ v2 # w
    BY <2>1, <2>3, OthersUnchanged
  <2>4. CASE v1 # w /\ v2 = w
    BY <2>1, <2>4, OthersUnchanged
  <2>5. CASE v1 # w /\ v2 # w
    BY <2>1, <2>5, OthersUnchanged
  <2> QED
    BY <2>2, <2>3, <2>4, <2>5
<1>8. Apart'
  BY <1>6, <1>7 DEF Apart
<1> QED
  BY <1>1, <1>4, <1>5, <1>8 DEF SecretInv

(***************************************************************************)
(* What the jobs a step leaves behind have made and will delete.           *)
(***************************************************************************)
LEMMA JobParts ==
  /\ Idle.made = NothingMade /\ Idle.drop = {}
  /\ Closed.made = NothingMade /\ Closed.drop = {}
  /\ \A step, does, rs, todo :
       /\ Job(step, does, rs, todo).made = NothingMade
       /\ Job(step, does, rs, todo).drop = {}
  /\ \A refs : Clean(refs).made = NothingMade /\ Clean(refs).drop = refs
  /\ \A w, step, todo, made :
       /\ Proceed(w, step, todo, made).made \in {made, NothingMade}
       /\ Proceed(w, step, todo, made).drop = {}
<1>1. \A step, does, rs, todo, made : /\ Task(step, does, rs, todo, made).made = made
                                      /\ Task(step, does, rs, todo, made).drop = {}
  BY DEF Task
<1>2. \A step, does, rs, todo :
        /\ Job(step, does, rs, todo).made = NothingMade
        /\ Job(step, does, rs, todo).drop = {}
  BY <1>1 DEF Job
<1>3. Idle.made = NothingMade /\ Idle.drop = {}
  BY <1>2 DEF Idle
<1>4. Closed.made = NothingMade /\ Closed.drop = {}
  BY <1>2 DEF Closed
<1>5. \A refs : Clean(refs).made = NothingMade /\ Clean(refs).drop = refs
  BY <1>3 DEF Clean
<1>6. \A w, step, todo, made :
        /\ Proceed(w, step, todo, made).made \in {made, NothingMade}
        /\ Proceed(w, step, todo, made).drop = {}
  BY <1>1, <1>3 DEF Proceed
<1> QED
  BY <1>2, <1>3, <1>4, <1>5, <1>6

LEMMA MadeNothing ==
  ASSUME NEW w \in Windows, (job[w].made)' = NothingMade
  PROVE  Made(w)' = {}
BY NothingIsNoRef DEF Made, MadeRefs, NothingMade

(***************************************************************************)
(* The facts of the invariant about one window, for the steps below.       *)
(***************************************************************************)
LEMMA OfWindow ==
  ASSUME SecretInv, NEW w \in Windows
  PROVE  /\ Held(w) \subseteq secrets /\ Saved \subseteq secrets /\ secrets \subseteq minted
         /\ Held(w) \cap Exposed(w) = {} /\ Held(w) \cap Saved = {}
         /\ job[w].drop \cap Saved = {}
         /\ Staged(w) \subseteq Held(w) /\ Made(w) \subseteq Held(w)
         /\ Staged(w) \cap Made(w) = {}
         /\ StagedRefs(w) \subseteq Staged(w) \cup disowned
         /\ MadeRefs(w) \subseteq Made(w) \cup disowned
         /\ RefsIn(disk.auth) \subseteq Saved \cup disowned
         /\ RefsIn(memory[w]) \subseteq Exposed(w) \cup disowned
         /\ PrevRefs(w) \subseteq Exposed(w) \cup disowned
         /\ job[w].drop \subseteq Exposed(w) \cup disowned
         /\ (Held(w) \cup Exposed(w) \cup Saved) \cap disowned = {}
         /\ \A r1, r2 \in Requests :
              staged[w][r1].new \in Staged(w) /\ staged[w][r1].new = staged[w][r2].new => r1 = r2
<1>1. /\ Held(w) \subseteq secrets /\ secrets \subseteq minted
      /\ Held(w) \cap Exposed(w) = {} /\ Held(w) \cap Saved = {}
      /\ job[w].drop \cap Saved = {} /\ Staged(w) \cap Made(w) = {}
      /\ \A r1, r2 \in Requests :
           staged[w][r1].new \in Staged(w) /\ staged[w][r1].new = staged[w][r2].new => r1 = r2
  BY DEF SecretInv, MemoryInv, TypeOK, HeldOnce, Apart
<1>2. Saved \subseteq secrets
  BY DEF SecretInv, SavedUnlessDisowned, Saved
<1>3. /\ Staged(w) \subseteq Held(w) /\ Made(w) \subseteq Held(w)
      /\ StagedRefs(w) \subseteq Staged(w) \cup disowned
      /\ MadeRefs(w) \subseteq Made(w) \cup disowned
      /\ RefsIn(disk.auth) \subseteq Saved \cup disowned
      /\ RefsIn(memory[w]) \subseteq Exposed(w) \cup disowned
      /\ PrevRefs(w) \subseteq Exposed(w) \cup disowned
      /\ job[w].drop \subseteq Exposed(w) \cup disowned
      /\ (Held(w) \cup Exposed(w) \cup Saved) \cap disowned = {}
  BY DEF Held, Staged, Made, Exposed, Saved
<1> QED
  BY <1>1, <1>2, <1>3

(***************************************************************************)
(* A job begins, or a store or a swap fails: secrets made become secrets   *)
(* to delete.                                                              *)
(***************************************************************************)
LEMMA QuietStep ==
  ASSUME SecretInv, MemoryInv', NEW w \in Windows, NEW newJob,
         job' = [job EXCEPT ![w] = newJob],
         newJob.made = NothingMade, newJob.drop \subseteq MadeRefs(w),
         UNCHANGED <<secrets, minted, disk, memory, staged, disowned>>
  PROVE  SecretInv'
<1>1. Alone(w)
  BY DEF Alone, SecretInv, MemoryInv, TypeOK
<1>2. (job[w])' = newJob
  BY DEF SecretInv, MemoryInv, TypeOK
<1>3. Made(w)' = {}
  BY <1>2, MadeNothing
<1>4. Staged(w)' = Staged(w) /\ Held(w)' = Staged(w)
  BY <1>3 DEF Staged, StagedRefs, Held
<1>5. Exposed(w)' = (RefsIn(memory[w]) \cup PrevRefs(w) \cup newJob.drop) \ disowned
  BY <1>2 DEF Exposed, PrevRefs, RefsIn
<1>6. Saved' = Saved
  BY DEF RefsIn, Saved
<1>7. Held(w)' \cap Exposed(w)' = {} /\ (job[w].drop)' \cap Saved' = {}
  BY <1>2, <1>4, <1>5, <1>6, OfWindow
<1>8. Exposed(w)' \subseteq Exposed(w) \cup Saved \cup Held(w)
  BY <1>5, OfWindow
<1> QED
  BY <1>1, <1>3, <1>4, <1>6, <1>7, <1>8, OfWindow, StepOfOne

LEMMA LoadKeepsSecrets ==
  ASSUME SecretInv, MemoryInv', NEW w \in Windows, Load(w)
  PROVE  SecretInv'
<1>1. Alone(w)
  BY DEF Load, Alone, SecretInv, MemoryInv, TypeOK
<1>2. (job[w].made)' = NothingMade /\ (job[w].drop)' = {}
  BY JobParts DEF Load, SecretInv, MemoryInv, TypeOK
<1>3. Made(w)' = {}
  BY <1>2, MadeNothing
<1>4. Staged(w)' = Staged(w) /\ Held(w)' = Staged(w)
  BY <1>3 DEF Load, Staged, StagedRefs, Held
<1>5. memory'[w] = disk.auth
  BY DEF Load, SecretInv, MemoryInv, TypeOK
<1>6. Exposed(w)' = Saved \cup (PrevRefs(w) \ disowned)
  BY <1>2, <1>5 DEF Load, Exposed, PrevRefs, RefsIn, Saved
<1>7. Saved' = Saved
  BY DEF Load, RefsIn, Saved
<1>8. Exposed(w)' \subseteq Exposed(w) \cup Saved \cup Held(w)
  BY <1>6, OfWindow
<1>9. Held(w)' \cap Exposed(w)' = {} /\ (job[w].drop)' \cap Saved' = {}
  BY <1>2, <1>4, <1>6, OfWindow
<1>10. UNCHANGED <<secrets, minted, staged, disowned>>
  BY DEF Load
<1> QED
  BY <1>1, <1>3, <1>4, <1>7, <1>8, <1>9, <1>10, OfWindow, StepOfOne

(***************************************************************************)
(* What staging changes.                                                   *)
(***************************************************************************)
LEMMA StageParts ==
  ASSUME TypeOK, NEW w \in Windows, NEW r \in Requests, NEW ref \in OptionalRef,
         Stage(w, r, ref)
  PROVE  /\ \A v \in Windows \ {w} : staged'[v] = staged[v]
         /\ \A q \in Requests : staged'[w][q].new = IF q = r THEN ref ELSE staged[w][q].new
         /\ PrevRefs(w)' \subseteq PrevRefs(w) \cup RefsIn(memory[w])
<1> DEFINE stage == [set |-> TRUE, new |-> ref, prev |-> PreviousOf(w, r)]
<1>1. staged' = [staged EXCEPT ![w] = [staged[w] EXCEPT ![r] = stage]]
  BY DEF Stage
<1>2. stage.new = ref /\ stage.prev = PreviousOf(w, r)
  OBVIOUS
<1> HIDE DEF stage
<1>3. /\ \A v \in Windows \ {w} : staged'[v] = staged[v]
      /\ \A q \in Requests : staged'[w][q] = IF q = r THEN stage ELSE staged[w][q]
  BY <1>1 DEF TypeOK
<1>4. PreviousOf(w, r) \in Refs => PreviousOf(w, r) \in PrevRefs(w) \cup RefsIn(memory[w])
  BY NothingIsNoRef DEF PreviousOf, RefOf, PrevRefs, RefsIn, Saved
<1>5. PrevRefs(w)' \subseteq PrevRefs(w) \cup RefsIn(memory[w])
  <2>1. \A q \in Requests : staged'[w][q].prev = IF q = r THEN PreviousOf(w, r)
                                                 ELSE staged[w][q].prev
    BY <1>2, <1>3
  <2> QED
    BY <1>4, <2>1 DEF PrevRefs
<1> QED
  BY <1>2, <1>3, <1>5

(***************************************************************************)
(* A stage replaced, by configuring to none, storing or swapping a secret: *)
(* the new one, if any, is fresh or was made for it.                       *)
(***************************************************************************)
LEMMA StagingStep ==
  ASSUME SecretInv, MemoryInv', NEW w \in Windows, NEW r \in Requests,
         NEW ref \in OptionalRef, NEW newJob,
         Stage(w, r, ref),
         job' = [job EXCEPT ![w] = newJob],
         \/ newJob.made = NothingMade /\ (ref \in Refs => ref \in MadeRefs(w) \/ ref \notin minted)
         \/ newJob.made = job[w].made /\ (ref \in Refs => ref \notin minted),
         newJob.drop = {},
         minted \subseteq minted',
         \A s \in secrets : s \in secrets' \/ s = staged[w][r].new,
         ref \in Refs \ disowned => ref \in secrets',
         UNCHANGED <<disk, memory, disowned>>
  PROVE  SecretInv'
<1>1. TypeOK
  BY DEF SecretInv, MemoryInv
<1>2. /\ \A v \in Windows \ {w} : staged'[v] = staged[v]
      /\ \A q \in Requests : staged'[w][q].new = IF q = r THEN ref ELSE staged[w][q].new
      /\ PrevRefs(w)' \subseteq PrevRefs(w) \cup RefsIn(memory[w])
  BY <1>1, StageParts
<1>3. Alone(w) /\ (job[w])' = newJob
  BY <1>1, <1>2 DEF Alone, TypeOK
<1>4. /\ (job[w].drop)' = {} /\ Made(w)' \subseteq Made(w)
      /\ Made(w)' = {} \/ (ref \in Refs => ref \notin minted)
  <2>1. CASE newJob.made = NothingMade
    BY <1>3, <2>1, MadeNothing
  <2>2. CASE newJob.made = job[w].made /\ (ref \in Refs => ref \notin minted)
    BY <1>3, <2>2 DEF Made, MadeRefs
  <2> QED
    BY <1>3, <2>1, <2>2
<1>5. \A s \in Held(w)' : \/ s = ref /\ ref \in Refs \ disowned
                          \/ \E q \in Requests : q # r /\ s = staged[w][q].new /\ s \in Refs \ disowned
                          \/ s \in Made(w)'
  BY <1>2 DEF Held, Staged, StagedRefs
<1>6. \A q \in Requests :
        staged[w][q].new \in Refs \ disowned => staged[w][q].new \in Staged(w)
  BY DEF Staged, StagedRefs
<1>7. \A s \in Held(w)' : s \in Held(w) \/ s \notin minted
  BY <1>4, <1>5, <1>6, OfWindow DEF Held
<1>8. Exposed(w)' \subseteq Exposed(w)
  BY <1>2, <1>4 DEF Exposed, RefsIn, Saved
<1>9. Saved' = Saved /\ Exposed(w) \subseteq minted
  BY DEF RefsIn, Saved, SecretInv, Apart
<1>10. Held(w)' \cap Exposed(w)' = {} /\ Held(w)' \cap Saved' = {}
  BY <1>7, <1>8, <1>9, OfWindow
<1>11. \A r1, r2 \in Requests :
         (staged[w][r1].new)' \in Staged(w)'
           /\ (staged[w][r1].new)' = (staged[w][r2].new)' => r1 = r2
  <2>1. ASSUME NEW q \in Requests, q # r, staged[w][q].new \in Refs \ disowned
        PROVE  staged[w][q].new # ref
    BY <1>6, <2>1, OfWindow
  <2>2. Staged(w)' \subseteq Refs \ disowned
    BY DEF Staged, StagedRefs
  <2> QED
    BY <1>2, <1>6, <2>1, <2>2, OfWindow
<1>12. Held(w)' \subseteq secrets'
  <2>1. ASSUME NEW q \in Requests, q # r, staged[w][q].new \in Refs \ disowned
        PROVE  staged[w][q].new \in secrets'
    BY <1>6, <2>1, OfWindow
  <2>2. staged[w][r].new \notin Made(w) /\ Made(w) \subseteq secrets
    BY <1>6, OfWindow DEF Made, MadeRefs
  <2>3. Made(w)' \subseteq secrets'
    BY <1>4, <2>2
  <2> QED
    BY <1>5, <2>1, <2>3
<1>13. \A s \in secrets :
         s \in secrets' \/ s \in disowned \/ s \in Held(w) \/ s \in job[w].drop
  BY <1>1, <1>6, OfWindow DEF TypeOK
<1>14. Saved' \subseteq secrets'
  <2>1. staged[w][r].new \notin Saved
    BY <1>6, OfWindow DEF RefsIn, Saved
  <2> QED
    BY <1>9, <2>1, OfWindow
<1>15. Exposed(w)' \subseteq Exposed(w) \cup Saved \cup Held(w)
  BY <1>8
<1>16. Saved' \subseteq Saved \cup Held(w)
  BY <1>9
<1>17. Staged(w)' \cap Made(w)' = {}
  <2>1. \A s \in Staged(w)' : (s = ref /\ ref \in Refs) \/ s \in Staged(w)
    BY <1>2 DEF Staged, StagedRefs
  <2>2. Made(w) \subseteq minted
    BY OfWindow
  <2> QED
    BY <1>4, <2>1, <2>2, OfWindow
<1> QED
  BY <1>3, <1>4, <1>7, <1>10, <1>11, <1>12, <1>13, <1>14, <1>15, <1>16, <1>17, StepOfOne

LEMMA ConfiguringKeepsSecrets ==
  ASSUME SecretInv, MemoryInv', NEW w \in Windows, NEW r \in Requests,
         ConfigureAuth(w, r) \/ ConfigureNone(w, r) \/ SaveRequest(w, r)
  PROVE  SecretInv'
<1>1. CASE ConfigureAuth(w, r)
  <2> DEFINE newJob == Job("store", "configure", {r}, {r})
  <2>1. newJob.made = NothingMade /\ newJob.drop \subseteq MadeRefs(w)
    BY JobParts
  <2>2. job' = [job EXCEPT ![w] = newJob]
    BY <1>1 DEF ConfigureAuth, Begin
  <2> HIDE DEF newJob
  <2> QED
    BY <1>1, <2>1, <2>2, QuietStep DEF ConfigureAuth
<1>2. CASE ConfigureNone(w, r) /\ staged[w][r].new # Nothing
  <2> DEFINE newJob == Job("swap", "configure", {r}, {})
  <2>1. newJob.made = NothingMade /\ newJob.drop \subseteq MadeRefs(w)
    BY JobParts
  <2>2. job' = [job EXCEPT ![w] = newJob]
    BY <1>2 DEF ConfigureNone, Begin
  <2> HIDE DEF newJob
  <2> QED
    BY <1>2, <2>1, <2>2, QuietStep DEF ConfigureNone
<1>3. CASE ConfigureNone(w, r) /\ staged[w][r].new = Nothing
  <2>1. Stage(w, r, Nothing) /\ job' = [job EXCEPT ![w] = Idle]
    BY <1>3 DEF ConfigureNone, Begin
  <2>2. Idle.made = NothingMade /\ Idle.drop = {}
    BY JobParts
  <2>3. Nothing \in OptionalRef /\ Nothing \notin Refs
    BY NothingIsNoRef DEF OptionalRef
  <2>4. UNCHANGED <<secrets, minted, disk, memory, disowned>>
    BY <1>3 DEF ConfigureNone
  <2> QED
    BY <2>1, <2>2, <2>3, <2>4, StagingStep
<1>4. CASE SaveRequest(w, r)
  <2>1. PICK typed \in SUBSET {r} :
          job' = [job EXCEPT ![w] =
                    Job(IF typed = {} THEN "write" ELSE "store", "save", {r}, typed)]
    BY <1>4 DEF SaveRequest, Begin
  <2> DEFINE newJob == Job(IF typed = {} THEN "write" ELSE "store", "save", {r}, typed)
  <2>2. newJob.made = NothingMade /\ newJob.drop \subseteq MadeRefs(w)
    BY JobParts
  <2>3. job' = [job EXCEPT ![w] = newJob]
    BY <2>1
  <2> HIDE DEF newJob
  <2> QED
    BY <1>4, <2>2, <2>3, QuietStep DEF SaveRequest
<1> QED
  BY <1>1, <1>2, <1>3, <1>4

LEMMA BeginningKeepsSecrets ==
  ASSUME SecretInv, MemoryInv', NEW w \in Windows, CreateRequests(w) \/ ChangeTree(w)
  PROVE  SecretInv'
<1>1. CASE CreateRequests(w)
  <2>1. PICK new \in SUBSET Requests, authenticated \in SUBSET Requests :
          job' = [job EXCEPT ![w] =
                    Job(IF authenticated = {} THEN "write" ELSE "store", "create",
                        new, authenticated)]
    BY <1>1 DEF CreateRequests, Begin
  <2> DEFINE newJob == Job(IF authenticated = {} THEN "write" ELSE "store", "create",
                           new, authenticated)
  <2>2. newJob.made = NothingMade /\ newJob.drop \subseteq MadeRefs(w)
    BY JobParts
  <2>3. job' = [job EXCEPT ![w] = newJob]
    BY <2>1
  <2> HIDE DEF newJob
  <2> QED
    BY <1>1, <2>2, <2>3, QuietStep DEF CreateRequests
<1>2. CASE ChangeTree(w)
  <2>1. PICK removed \in SUBSET Requests :
          job' = [job EXCEPT ![w] = Job("write", "change", removed, {})]
    BY <1>2 DEF ChangeTree, Begin
  <2> DEFINE newJob == Job("write", "change", removed, {})
  <2>2. newJob.made = NothingMade /\ newJob.drop \subseteq MadeRefs(w)
    BY JobParts
  <2>3. job' = [job EXCEPT ![w] = newJob]
    BY <2>1
  <2> HIDE DEF newJob
  <2> QED
    BY <1>2, <2>2, <2>3, QuietStep DEF ChangeTree
<1> QED
  BY <1>1, <1>2

LEMMA FailingKeepsSecrets ==
  ASSUME SecretInv, MemoryInv', NEW w \in Windows,
         StoreFails(w) \/ SwapFails(w) \/ WriteFails(w)
  PROVE  SecretInv'
<1> DEFINE newJob == Clean(MadeRefs(w))
<1>1. newJob.made = NothingMade /\ newJob.drop \subseteq MadeRefs(w)
  BY JobParts
<1>2. /\ job' = [job EXCEPT ![w] = newJob]
      /\ UNCHANGED <<secrets, minted, disk, memory, staged, disowned>>
  BY DEF StoreFails, SwapFails, WriteFails, Undone, Remembered, SecretInv, MemoryInv, TypeOK
<1> HIDE DEF newJob
<1> QED
  BY <1>1, <1>2, QuietStep

LEMMA StoringKeepsSecrets ==
  ASSUME SecretInv, MemoryInv', NEW w \in Windows, StoreSecret(w)
  PROVE  SecretInv'
<1>1. TypeOK
  BY DEF SecretInv, MemoryInv
<1>2. PICK r \in job[w].todo, ref \in Refs \ minted :
        LET rest == job[w].todo \ {r}
            creates == job[w].does = "create"
            pending == staged[w][r].new # Nothing
        IN /\ secrets' = secrets \cup {ref} /\ minted' = minted \cup {ref}
           /\ IF creates \/ pending THEN UNCHANGED staged ELSE Stage(w, r, ref)
           /\ job' = [job EXCEPT ![w] = Proceed(w,
                IF rest # {} THEN "store" ELSE IF creates THEN "write"
                  ELSE IF pending THEN "swap" ELSE AfterStage(w),
                rest,
                IF creates \/ pending THEN [job[w].made EXCEPT ![r] = ref]
                  ELSE job[w].made)]
  BY DEF StoreSecret
<1>3. /\ r \in Requests /\ ref \in OptionalRef /\ UNCHANGED <<disk, memory, disowned>>
      /\ secrets' = secrets \cup {ref} /\ minted' = minted \cup {ref}
  BY <1>1, <1>2 DEF TypeOK, Jobs, OptionalRef, StoreSecret
<1> DEFINE collects == job[w].does = "create" \/ staged[w][r].new # Nothing
           made == IF collects THEN [job[w].made EXCEPT ![r] = ref] ELSE job[w].made
<1>4. PICK step, rest : job' = [job EXCEPT ![w] = Proceed(w, step, rest, made)]
  BY <1>2
<1>5. IF collects THEN UNCHANGED staged ELSE Stage(w, r, ref)
  BY <1>2
<1>6. CASE ~collects
  <2> DEFINE newJob == Proceed(w, step, rest, job[w].made)
  <2>1. /\ newJob.made \in {job[w].made, NothingMade} /\ newJob.drop = {}
        /\ job' = [job EXCEPT ![w] = newJob]
    BY <1>4, <1>6, JobParts
  <2>2. Stage(w, r, ref)
    BY <1>5, <1>6
  <2> HIDE DEF newJob, collects
  <2> QED
    BY <1>3, <2>1, <2>2, StagingStep
<1>7. CASE collects
  <2> DEFINE newMade == [job[w].made EXCEPT ![r] = ref]
             newJob == Proceed(w, step, rest, newMade)
  <2>1. /\ newJob.made \in {newMade, NothingMade} /\ newJob.drop = {}
        /\ job' = [job EXCEPT ![w] = newJob]
    BY <1>4, <1>7, JobParts
  <2> HIDE DEF newJob
  <2>2. staged' = staged
    BY <1>5, <1>7
  <2>3. Alone(w) /\ (job[w].made)' \in {newMade, NothingMade} /\ (job[w].drop)' = {}
    BY <1>1, <1>3, <2>1, <2>2 DEF Alone, TypeOK
  <2>4. Made(w)' \subseteq Made(w) \cup {ref}
    <3>1. CASE (job[w].made)' = NothingMade
      BY <3>1, MadeNothing
    <3>2. CASE (job[w].made)' = newMade
      BY <1>1, <1>3, <3>2 DEF Made, MadeRefs, TypeOK, Jobs
    <3> QED
      BY <2>3, <3>1, <3>2
  <2>5. Staged(w)' = Staged(w) /\ Saved' = Saved
    BY <1>3, <2>2 DEF Staged, StagedRefs, RefsIn, Saved
  <2>6. Exposed(w)' \subseteq Exposed(w) /\ Exposed(w) \subseteq minted
    BY <1>3, <2>2, <2>3 DEF Exposed, PrevRefs, RefsIn, Saved, SecretInv, Apart
  <2>7. Held(w)' \subseteq Held(w) \cup {ref} /\ ref \notin minted
    BY <2>4, <2>5 DEF Held
  <2>8. Held(w)' \cap Exposed(w)' = {} /\ Held(w)' \cap Saved' = {}
    BY <2>5, <2>6, <2>7, OfWindow
  <2>9. Staged(w)' \cap Made(w)' = {}
    BY <2>4, <2>5, <2>7, OfWindow
  <2>10. Exposed(w)' \subseteq Exposed(w) \cup Saved \cup Held(w)
    BY <2>6
  <2>11. /\ \A r1, r2 \in Requests :
              (staged[w][r1].new)' \in Staged(w)'
                /\ (staged[w][r1].new)' = (staged[w][r2].new)' => r1 = r2
         /\ Saved' \subseteq secrets' /\ Held(w)' \subseteq secrets'
    BY <1>3, <2>2, <2>5, <2>7, OfWindow
  <2> QED
    BY <1>3, <2>3, <2>5, <2>7, <2>8, <2>9, <2>10, <2>11, StepOfOne
<1> QED
  BY <1>6, <1>7

LEMMA SwappingKeepsSecrets ==
  ASSUME SecretInv, MemoryInv', NEW w \in Windows, SwapSecret(w)
  PROVE  SecretInv'
<1>1. TypeOK
  BY DEF SecretInv, MemoryInv
<1>2. PICK r \in job[w].on : /\ secrets' = secrets \ {staged[w][r].new}
                             /\ Stage(w, r, job[w].made[r])
  BY DEF SwapSecret
<1>3. r \in Requests
  BY <1>1 DEF TypeOK, Jobs
<1> DEFINE newJob == Proceed(w, AfterStage(w), {}, NothingMade)
<1>4. newJob.made = NothingMade /\ newJob.drop = {} /\ job' = [job EXCEPT ![w] = newJob]
  BY JobParts DEF SwapSecret
<1> HIDE DEF newJob
<1> DEFINE ref == job[w].made[r]
<1>5. ref \in OptionalRef /\ (ref \in Refs => ref \in MadeRefs(w))
  BY <1>1, <1>3 DEF TypeOK, Jobs, Made, MadeRefs
<1>6. \A q \in Requests :
        staged[w][q].new \in Refs \ disowned => staged[w][q].new \in Staged(w)
  BY DEF Staged, StagedRefs
<1>7. ref \in Refs \ disowned => ref \in secrets'
  BY <1>2, <1>3, <1>5, <1>6, OfWindow
<1>8. UNCHANGED <<minted, disk, memory, disowned>>
  BY DEF SwapSecret
<1>9. Stage(w, r, ref)
  BY <1>2
<1> HIDE DEF ref
<1> QED
  BY <1>2, <1>3, <1>4, <1>5, <1>7, <1>8, <1>9, StagingStep

LEMMA DeletingKeepsSecrets ==
  ASSUME SecretInv, MemoryInv', NEW w \in Windows, DeleteSecrets(w)
  PROVE  SecretInv'
<1>1. TypeOK
  BY DEF SecretInv, MemoryInv
<1>2. /\ job' = [job EXCEPT ![w] = Idle]
      /\ UNCHANGED <<minted, disk, memory, staged, disowned>>
      /\ \A s \in secrets : s \in secrets' \/ s \in job[w].drop
  BY DEF DeleteSecrets
<1>3. Alone(w) /\ (job[w].made)' = NothingMade /\ (job[w].drop)' = {}
  BY <1>1, <1>2, JobParts DEF Alone, TypeOK
<1>4. Held(w)' = Staged(w) /\ Made(w)' = {} /\ Staged(w)' = Staged(w)
  BY <1>2, <1>3, MadeNothing DEF Held, Staged, StagedRefs
<1>5. Exposed(w)' \subseteq Exposed(w) /\ Saved' = Saved
  BY <1>2, <1>3 DEF Exposed, PrevRefs, RefsIn, Saved
<1>6. /\ \A r1, r2 \in Requests :
           (staged[w][r1].new)' \in Staged(w)'
             /\ (staged[w][r1].new)' = (staged[w][r2].new)' => r1 = r2
      /\ Saved' \subseteq secrets' /\ Held(w)' \subseteq secrets'
      /\ Held(w)' \cap Exposed(w)' = {} /\ Held(w)' \cap Saved' = {}
  BY <1>2, <1>4, <1>5, OfWindow
<1> QED
  BY <1>2, <1>3, <1>4, <1>5, <1>6, OfWindow, StepOfOne

LEMMA DyingKeepsSecrets ==
  ASSUME SecretInv, MemoryInv', NEW w \in Windows, Die(w)
  PROVE  SecretInv'
<1>1. TypeOK
  BY DEF SecretInv, MemoryInv
<1>2. /\ job' = [job EXCEPT ![w] = Closed]
      /\ staged' = [staged EXCEPT ![w] = [r \in Requests |-> Unstaged]]
      /\ memory' = [memory EXCEPT ![w] = [r \in Requests |-> "absent"]]
      /\ UNCHANGED <<secrets, minted, disk, disowned>>
  BY DEF Die
<1>3. Alone(w) /\ (job[w].made)' = NothingMade /\ (job[w].drop)' = {}
  BY <1>1, <1>2, JobParts DEF Alone, TypeOK
<1>4. \A r \in Requests : /\ (staged[w][r].new)' = Nothing /\ (staged[w][r].prev)' = Nothing
                          /\ (memory[w][r])' = "absent"
  BY <1>1, <1>2 DEF TypeOK, Unstaged
<1>5. Nothing \notin Refs /\ "absent" \notin Refs
  BY NothingIsNoRef
<1>6. Held(w)' = {} /\ Made(w)' = {} /\ Staged(w)' = {}
  BY <1>3, <1>4, <1>5, MadeNothing DEF Held, Staged, StagedRefs
<1>7. Exposed(w)' = {}
  BY <1>3, <1>4, <1>5 DEF Exposed, PrevRefs, RefsIn, Saved
<1>8. Saved' = Saved
  BY <1>2 DEF RefsIn, Saved
<1> QED
  BY <1>2, <1>3, <1>4, <1>5, <1>6, <1>7, <1>8, OfWindow, StepOfOne

(***************************************************************************)
(* What is left of a window's stages when those of rs end.                 *)
(***************************************************************************)
LEMMA UnstagingParts ==
  ASSUME SecretInv, NEW w \in Windows, NEW rs \in SUBSET Requests,
         staged' = [staged EXCEPT ![w] = [r \in Requests |->
                      IF r \in rs THEN Unstaged ELSE staged[w][r]]],
         UNCHANGED disowned
  PROVE  /\ \A v \in Windows \ {w} : staged'[v] = staged[v]
         /\ Staged(w)' \subseteq Staged(w) \ {staged[w][r].new : r \in rs}
         /\ PrevRefs(w)' \subseteq PrevRefs(w)
         /\ \A r1, r2 \in Requests :
              (staged[w][r1].new)' \in Staged(w)'
                /\ (staged[w][r1].new)' = (staged[w][r2].new)' => r1 = r2
<1>1. /\ \A v \in Windows \ {w} : staged'[v] = staged[v]
      /\ \A r \in Requests : staged'[w][r] = IF r \in rs THEN Unstaged ELSE staged[w][r]
  BY DEF SecretInv, MemoryInv, TypeOK
<1>2. Unstaged.new \notin Refs /\ Unstaged.prev \notin Refs
  BY NothingIsNoRef DEF Unstaged
<1>3. \A r \in Requests :
        /\ staged'[w][r].new \in Refs => r \notin rs /\ staged'[w][r].new = staged[w][r].new
        /\ staged'[w][r].prev \in Refs => staged'[w][r].prev = staged[w][r].prev
  BY <1>1, <1>2
<1>4. PrevRefs(w)' \subseteq PrevRefs(w)
  BY <1>3 DEF PrevRefs
<1>5. \A r1, r2 \in Requests :
        staged[w][r1].new \in Staged(w) /\ staged[w][r1].new = staged[w][r2].new => r1 = r2
  BY OfWindow
<1>6. Staged(w)' \subseteq Staged(w) \ {staged[w][r].new : r \in rs}
  <2>1. \A s \in Staged(w)' : /\ s \in Staged(w)
                              /\ \E r \in Requests \ rs : s = staged[w][r].new
    BY <1>3 DEF Staged, StagedRefs
  <2> QED
    BY <1>5, <2>1
<1>7. \A r1, r2 \in Requests :
        (staged[w][r1].new)' \in Staged(w)'
          /\ (staged[w][r1].new)' = (staged[w][r2].new)' => r1 = r2
  <2>1. Staged(w)' \subseteq Staged(w) /\ Staged(w) \subseteq Refs
    BY <1>6 DEF Staged, StagedRefs
  <2> QED
    BY <1>3, <1>5, <2>1
<1> QED
  BY <1>1, <1>4, <1>6, <1>7

LEMMA DiscardingKeepsSecrets ==
  ASSUME SecretInv, MemoryInv', NEW w \in Windows, Discard(w)
  PROVE  SecretInv'
<1>1. TypeOK
  BY DEF SecretInv, MemoryInv
<1>2. PICK rs \in SUBSET Requests :
        /\ staged' = [staged EXCEPT ![w] = [r \in Requests |->
                        IF r \in rs THEN Unstaged ELSE staged[w][r]]]
        /\ job' = [job EXCEPT ![w] = Clean({staged[w][r].new : r \in rs} \cap Refs)]
  <2>1. \A rs \in {{r} : r \in Requests} \cup {Requests} : rs \in SUBSET Requests
    OBVIOUS
  <2> QED
    BY <2>1 DEF Discard
<1> DEFINE drop == {staged[w][r].new : r \in rs} \cap Refs
<1>3. /\ \A v \in Windows \ {w} : staged'[v] = staged[v]
      /\ Staged(w)' \subseteq Staged(w) \ drop
      /\ PrevRefs(w)' \subseteq PrevRefs(w)
      /\ \A r1, r2 \in Requests :
           (staged[w][r1].new)' \in Staged(w)'
             /\ (staged[w][r1].new)' = (staged[w][r2].new)' => r1 = r2
  BY <1>2, UnstagingParts DEF Discard
<1>4. drop \subseteq Staged(w) \cup disowned
  BY DEF Staged, StagedRefs
<1>5. job' = [job EXCEPT ![w] = Clean(drop)]
  BY <1>2
<1> HIDE DEF drop
<1>6. UNCHANGED <<secrets, minted, disk, memory, disowned>>
  BY DEF Discard
<1>7. Alone(w) /\ (job[w].made)' = NothingMade /\ (job[w].drop)' = drop
  BY <1>1, <1>3, <1>5, <1>6, JobParts DEF Alone, TypeOK
<1>8. Made(w)' = {} /\ Held(w)' \subseteq Held(w) \ drop
  BY <1>3, <1>4, <1>7, MadeNothing, OfWindow DEF Held
<1>9. /\ Exposed(w)' \subseteq Exposed(w) \cup (drop \ disowned)
      /\ Saved' = Saved
  BY <1>3, <1>6, <1>7 DEF Exposed, RefsIn, Saved
<1>10. /\ Exposed(w)' \subseteq Exposed(w) \cup Saved \cup Held(w)
       /\ Held(w)' \cap Exposed(w)' = {} /\ Held(w)' \cap Saved' = {}
       /\ (job[w].drop)' \cap Saved' = {}
       /\ Held(w)' \subseteq secrets' /\ Saved' \subseteq secrets'
  BY <1>4, <1>6, <1>7, <1>8, <1>9, OfWindow
<1> QED
  BY <1>3, <1>6, <1>7, <1>8, <1>9, <1>10, OfWindow, StepOfOne

(***************************************************************************)
(* What a commit saves and what it deletes, apart from what was saved: a   *)
(* save takes its stage, a creation what it made, a removal neither.       *)
(***************************************************************************)
LEMMA WrittenParts ==
  ASSUME SecretInv, NEW w \in Windows
  PROVE  /\ RefsIn(Written(w)) \subseteq RefsIn(memory[w]) \cup MadeRefs(w)
                                   \cup {staged[w][r].new : r \in Unstages(w)}
         /\ Superseded(w) \subseteq Exposed(w) \cup disowned
                               \cup ({staged[w][r].new : r \in Unstages(w)} \cap Refs)
         /\ Superseded(w) \cap RefsIn(Written(w)) \subseteq disowned
<1>1. TypeOK /\ job[w].on \subseteq Requests
  BY DEF SecretInv, MemoryInv, TypeOK, Jobs
<1>2. {"none", "absent", "header", Nothing} \cap Refs = {}
  BY NothingIsNoRef
<1>3. ASSUME NEW r \in Requests, Written(w)[r] \in Refs
      PROVE  \/ Written(w)[r] = memory[w][r]
             \/ job[w].does = "save" /\ r \in job[w].on /\ Written(w)[r] = staged[w][r].new
             \/ Written(w)[r] = job[w].made[r]
  BY <1>2, <1>3 DEF Written, Prepared, RefOf
<1>4. RefsIn(Written(w)) \subseteq RefsIn(memory[w]) \cup MadeRefs(w)
                             \cup {staged[w][r].new : r \in Unstages(w)}
  BY <1>3 DEF RefsIn, MadeRefs, Unstages
<1>5. ASSUME NEW ref \in Superseded(w)
      PROVE  \/ ref \in Exposed(w) \cup disowned /\ ref \notin RefsIn(Written(w))
             \/ /\ job[w].does = "change"
                /\ \E r \in Unstages(w) : ref = staged[w][r].new
  BY <1>1 DEF Superseded, Exposed, PrevRefs, RefsIn, Unstages
<1>6. ASSUME NEW ref \in Refs \ disowned, job[w].does = "change", NEW r \in job[w].on,
             ref = staged[w][r].new
      PROVE  ref \notin RefsIn(Written(w))
  <2>1. ref \in Held(w) /\ RefsIn(Written(w)) \subseteq RefsIn(memory[w])
    <3>1. \A q \in Requests : Written(w)[q] \in Refs => Written(w)[q] = memory[w][q]
      BY <1>2, <1>6 DEF Written
    <3> QED
      BY <1>1, <1>6, <3>1 DEF Held, Staged, StagedRefs, RefsIn
  <2> QED
    BY <2>1, OfWindow
<1>7. Superseded(w) \subseteq Refs
  BY DEF Superseded
<1>8. \A r : r \in Unstages(w) => r \in job[w].on
  BY DEF Unstages
<1> QED
  BY <1>4, <1>5, <1>6, <1>7, <1>8

LEMMA CommittingKeepsSecrets ==
  ASSUME SecretInv, MemoryInv', NEW w \in Windows, Commit(w)
  PROVE  SecretInv'
<1>1. TypeOK
  BY DEF SecretInv, MemoryInv
<1> DEFINE ended == {staged[w][r].new : r \in Unstages(w)} \cap Refs
<1>2. /\ disk' = [revision |-> disk.revision + 1, auth |-> Written(w)]
      /\ memory' = [memory EXCEPT ![w] = Written(w)]
      /\ staged' = [staged EXCEPT ![w] = [r \in Requests |->
                      IF r \in Unstages(w) THEN Unstaged ELSE staged[w][r]]]
      /\ job' = [job EXCEPT ![w] = Clean(Superseded(w))]
      /\ UNCHANGED <<secrets, minted, disowned>>
  BY DEF Commit
<1>3. memory[w] = disk.auth
  BY DEF Commit, IsCurrent, SecretInv, MemoryInv, MemoryIsDisk
<1>4. Unstages(w) \subseteq Requests
  BY <1>1 DEF Unstages, TypeOK, Jobs
<1>5. /\ \A v \in Windows \ {w} : staged'[v] = staged[v]
      /\ Staged(w)' \subseteq Staged(w) \ ended
      /\ PrevRefs(w)' \subseteq PrevRefs(w)
      /\ \A r1, r2 \in Requests :
           (staged[w][r1].new)' \in Staged(w)'
             /\ (staged[w][r1].new)' = (staged[w][r2].new)' => r1 = r2
  BY <1>2, <1>4, UnstagingParts DEF Staged, StagedRefs
<1>6. /\ Alone(w) /\ (job[w].made)' = NothingMade /\ (job[w].drop)' = Superseded(w)
      /\ memory'[w] = Written(w) /\ disk'.auth = Written(w)
  BY <1>1, <1>2, <1>5, JobParts DEF Alone, TypeOK
<1>7. ended \subseteq Staged(w) \cup disowned
  BY <1>4 DEF Staged, StagedRefs
<1>8. /\ Saved' = RefsIn(Written(w)) \ disowned
      /\ RefsIn(memory[w])' = RefsIn(Written(w))
  BY <1>2, <1>6 DEF RefsIn, Saved
<1>9. /\ RefsIn(Written(w)) \subseteq Saved \cup Made(w) \cup ended \cup disowned
      /\ Superseded(w) \subseteq Exposed(w) \cup ended \cup disowned
      /\ Superseded(w) \cap RefsIn(Written(w)) \subseteq disowned
  <2>1. RefsIn(Written(w)) \subseteq RefsIn(disk.auth) \cup MadeRefs(w) \cup ended
    BY <1>3, WrittenParts DEF RefsIn
  <2> QED
    BY <2>1, OfWindow, WrittenParts
<1> HIDE DEF ended
<1>10. Made(w)' = {} /\ Held(w)' \subseteq Staged(w) \ ended
  BY <1>5, <1>6, MadeNothing DEF Held
<1>11. Exposed(w)' = (RefsIn(Written(w)) \cup PrevRefs(w)' \cup Superseded(w)) \ disowned
  BY <1>2, <1>6, <1>8 DEF Exposed
<1>12. /\ Exposed(w)' \subseteq Exposed(w) \cup Saved \cup Held(w)
       /\ Saved' \subseteq Saved \cup Held(w)
  BY <1>5, <1>7, <1>8, <1>9, <1>11, OfWindow
<1>13. Held(w)' \cap Exposed(w)' = {} /\ Held(w)' \cap Saved' = {}
  BY <1>5, <1>8, <1>9, <1>10, <1>11, OfWindow
<1>14. /\ (job[w].drop)' \cap Saved' = {}
       /\ Saved' \subseteq secrets' /\ Held(w)' \subseteq secrets'
  BY <1>2, <1>6, <1>8, <1>9, <1>10, <1>12, OfWindow
<1>15. \A ref \in Held(w)' : ref \in Held(w) \/ ref \notin minted
  BY <1>10, OfWindow
<1> QED
  BY <1>2, <1>5, <1>6, <1>10, <1>12, <1>13, <1>14, <1>15, OfWindow, StepOfOne

LEMMA MisreportingKeepsSecrets ==
  ASSUME SecretInv, MemoryInv', NEW w \in Windows, CommitReportedFailed(w)
  PROVE  SecretInv'
<1>1. TypeOK
  BY DEF SecretInv, MemoryInv
<1>2. /\ disk'.auth = Written(w)
      /\ job' = [job EXCEPT ![w] = Clean(MadeRefs(w))]
      /\ disowned' = disowned \cup (RefsIn(Written(w)) \ RefsIn(disk.auth))
      /\ UNCHANGED <<secrets, minted, memory, staged>>
  BY DEF CommitReportedFailed, Undone
<1>3. Alone(w) /\ (job[w].made)' = NothingMade /\ (job[w].drop)' = MadeRefs(w)
  BY <1>1, <1>2, JobParts DEF Alone, TypeOK
<1>4. Saved' \subseteq Saved
  BY <1>2 DEF Saved, RefsIn
<1>5. Made(w)' = {} /\ Staged(w)' \subseteq Staged(w) /\ Held(w)' = Staged(w)'
  BY <1>2, <1>3, MadeNothing DEF Held, Made, Staged, StagedRefs
<1>6. Exposed(w)' \subseteq Exposed(w) \cup Made(w)
  BY <1>2, <1>3 DEF Exposed, PrevRefs, RefsIn, Made
<1>7. MadeRefs(w) \cap Saved = {}
  BY OfWindow DEF Made, Saved
<1>8. /\ Held(w)' \cap Exposed(w)' = {} /\ Held(w)' \cap Saved' = {}
      /\ (job[w].drop)' \cap Saved' = {}
      /\ Exposed(w)' \subseteq Exposed(w) \cup Saved \cup Held(w)
      /\ Held(w)' \subseteq secrets' /\ Saved' \subseteq secrets'
  BY <1>2, <1>3, <1>4, <1>5, <1>6, <1>7, OfWindow
<1>9. \A r1, r2 \in Requests :
        (staged[w][r1].new)' \in Staged(w)'
          /\ (staged[w][r1].new)' = (staged[w][r2].new)' => r1 = r2
  BY <1>2, <1>5, OfWindow
<1> QED
  BY <1>2, <1>3, <1>4, <1>5, <1>8, <1>9, OfWindow, StepOfOne

LEMMA StepSecrets == SecretInv /\ [Next]_vars => SecretInv'
<1> SUFFICES ASSUME SecretInv, [Next]_vars PROVE SecretInv'
  OBVIOUS
<1>1. MemoryInv'
  BY StepMemory DEF SecretInv
<1>2. CASE UNCHANGED vars
  BY <1>1, <1>2 DEF vars, SecretInv, SavedUnlessDisowned, HeldOnce, Apart, Held, Exposed,
       Staged, StagedRefs, Made, MadeRefs, PrevRefs, RefsIn, Saved
<1>3. ASSUME NEW w \in Windows, NEW r \in Requests,
             ConfigureAuth(w, r) \/ ConfigureNone(w, r) \/ SaveRequest(w, r)
      PROVE  SecretInv'
  BY <1>1, <1>3, ConfiguringKeepsSecrets
<1>4. ASSUME NEW w \in Windows, CreateRequests(w) \/ ChangeTree(w) \/ Discard(w)
      PROVE  SecretInv'
  BY <1>1, <1>4, BeginningKeepsSecrets, DiscardingKeepsSecrets
<1>5. ASSUME NEW w \in Windows, StoreSecret(w) \/ SwapSecret(w) PROVE SecretInv'
  BY <1>1, <1>5, StoringKeepsSecrets, SwappingKeepsSecrets
<1>6. ASSUME NEW w \in Windows, StoreFails(w) \/ SwapFails(w) \/ WriteFails(w)
      PROVE  SecretInv'
  BY <1>1, <1>6, FailingKeepsSecrets
<1>7. ASSUME NEW w \in Windows, Commit(w) \/ DeleteSecrets(w) PROVE SecretInv'
  BY <1>1, <1>7, CommittingKeepsSecrets, DeletingKeepsSecrets
<1>8. ASSUME NEW w \in Windows, Load(w) \/ Die(w) PROVE SecretInv'
  BY <1>1, <1>8, LoadKeepsSecrets, DyingKeepsSecrets
<1>9. ASSUME NEW w \in Windows, CommitReportedFailed(w) PROVE SecretInv'
  BY <1>1, <1>9, MisreportingKeepsSecrets
<1> QED
  BY <1>2, <1>3, <1>4, <1>5, <1>6, <1>7, <1>8, <1>9 DEF Next

LEMMA AlwaysSecrets == Spec => []SecretInv
BY InitSecrets, StepSecrets, PTL DEF Spec

(***************************************************************************)
(* Whatever fails, dies or is done by another window: the credential of a  *)
(* saved request is in the secret store, unless a write that saved it was  *)
(* reported as failed.                                                     *)
(***************************************************************************)
THEOREM SavedExists == Spec => []SavedUnlessDisowned
<1>1. SecretInv => SavedUnlessDisowned
  BY DEF SecretInv
<1> QED
  BY <1>1, AlwaysSecrets, PTL

(***************************************************************************)
(* So is a staged one, ready to be sent and for another try to save it.    *)
(***************************************************************************)
THEOREM StagedExists == Spec => []StagedUnlessDisowned
<1>1. SecretInv => StagedUnlessDisowned
  BY DEF SecretInv, StagedUnlessDisowned, Held, Staged
<1> QED
  BY <1>1, AlwaysSecrets, PTL

-----------------------------------------------------------------------------
(* Leaks *)

(***************************************************************************)
(* What a job is in the middle of: it has made secrets only for requests   *)
(* it is about and has done with, and deletes only at its end; a save is   *)
(* about one request, and a creation about requests without a credential.  *)
(***************************************************************************)
JobOk(w) ==
  LET j == job[w] IN
  /\ j.step # "clean" => j.drop = {}
  /\ j.todo \subseteq j.on
  /\ \A r \in Requests : j.made[r] # Nothing =>
       /\ r \in j.on \ j.todo
       /\ (j.does = "create" /\ j.step \in {"store", "write"}) \/ j.step = "swap"
  /\ j.step = "write" => j.does \in {"save", "create", "change"}
  /\ j.step = "store" => j.does \in {"save", "create", "configure"}
  /\ j.step = "swap" => j.does \in {"configure", "save"}
  /\ j.does \in {"configure", "save"} => \E r \in Requests : j.on = {r}
  /\ j.does = "create" => \A r \in j.on : memory[w][r] \notin Refs

(***************************************************************************)
(* A stage knows the credential its save will replace, unless a later load *)
(* brought another one.                                                    *)
(***************************************************************************)
StageOk(w) ==
  \A r \in Requests :
    /\ ~staged[w][r].set => staged[w][r] = Unstaged
    /\ staged[w][r].set /\ memory[w][r] \in Refs \cap secrets
         => staged[w][r].prev = memory[w][r] \/ memory[w][r] \in abandoned

Carried(w) == StagedRefs(w) \cup MadeRefs(w) \cup job[w].drop

KnownRefs(w) == RefsIn(memory[w]) \cup StagedRefs(w) \cup MadeRefs(w)

LeakInv ==
  /\ MemoryInv
  /\ RefsIn(disk.auth) \subseteq minted
  /\ \A w \in Windows : JobOk(w) /\ StageOk(w) /\ KnownRefs(w) \subseteq minted
  /\ NoLeak

LEMMA TaskParts ==
  /\ \A step, does, on, todo, made :
       LET j == Task(step, does, on, todo, made)
       IN /\ j.step = step /\ j.does = does /\ j.on = on /\ j.todo = todo /\ j.made = made
          /\ j.drop = {}
  /\ \A refs : LET j == Clean(refs)
               IN /\ j.step \in {"idle", "clean"} /\ (j.step # "clean" => refs = {})
                  /\ j.does = "none" /\ j.on = {} /\ j.todo = {}
                  /\ j.made = NothingMade /\ j.drop = refs
  /\ Idle = Clean({})
  /\ Closed.step = "closed" /\ Closed.does = "none" /\ Closed.on = {} /\ Closed.todo = {}
  /\ Closed.made = NothingMade /\ Closed.drop = {}
<1>1. \A step, does, on, todo, made :
        LET j == Task(step, does, on, todo, made)
        IN /\ j.step = step /\ j.does = does /\ j.on = on /\ j.todo = todo /\ j.made = made
           /\ j.drop = {}
  BY DEF Task
<1>2. /\ Closed.step = "closed" /\ Closed.does = "none" /\ Closed.on = {} /\ Closed.todo = {}
      /\ Closed.made = NothingMade /\ Closed.drop = {}
      /\ Idle.step = "idle" /\ Idle.does = "none" /\ Idle.on = {} /\ Idle.todo = {}
      /\ Idle.made = NothingMade /\ Idle.drop = {}
  BY <1>1 DEF Closed, Idle, Job
<1>3. Clean({}) = Idle
  BY DEF Clean
<1>4. ASSUME NEW refs
      PROVE  LET j == Clean(refs)
             IN /\ j.step \in {"idle", "clean"} /\ (j.step # "clean" => refs = {})
                /\ j.does = "none" /\ j.on = {} /\ j.todo = {}
                /\ j.made = NothingMade /\ j.drop = refs
  <2>1. CASE refs = {}
    BY <1>2, <1>3, <2>1
  <2>2. CASE refs # {}
    BY <2>2 DEF Clean
  <2> QED
    BY <2>1, <2>2
<1> QED
  BY <1>1, <1>2, <1>3, <1>4

(***************************************************************************)
(* Between jobs, at the end of one, and at the beginning.                  *)
(***************************************************************************)
LEMMA RestIsOk ==
  ASSUME NEW w \in Windows,
         \/ (job[w])' = Closed \/ \E refs : (job[w])' = Clean(refs)
         \/ \E on \in SUBSET Requests, does \in {"save", "create", "change", "configure"},
               step \in {"store", "swap", "write"} : \E todo \in SUBSET on :
              /\ (job[w])' = Job(step, does, on, todo)
              /\ step = "write" => does \in {"save", "create", "change"}
              /\ step = "store" => does \in {"save", "create", "configure"}
              /\ step = "swap" => does \in {"configure", "save"}
              /\ does \in {"configure", "save"} => \E r \in Requests : on = {r}
              /\ does = "create" => \A r \in on : memory'[w][r] \notin Refs
  PROVE  JobOk(w)' /\ MadeRefs(w)' = {}
<1>1. \A r \in Requests : NothingMade[r] = Nothing
  BY DEF NothingMade
<1>2. (job[w])'.made = NothingMade
  BY TaskParts DEF Job
<1>3. MadeRefs(w)' = {}
  BY <1>1, <1>2, NothingIsNoRef DEF MadeRefs
<1>4. CASE (job[w])' = Closed \/ \E refs : (job[w])' = Clean(refs)
  BY <1>1, <1>3, <1>4, TaskParts DEF JobOk
<1>5. ASSUME NEW on \in SUBSET Requests, NEW does \in {"save", "create", "change", "configure"},
             NEW step \in {"store", "swap", "write"}, NEW todo \in SUBSET on,
             (job[w])' = Job(step, does, on, todo),
             step = "write" => does \in {"save", "create", "change"},
             step = "store" => does \in {"save", "create", "configure"},
             step = "swap" => does \in {"configure", "save"},
             does \in {"configure", "save"} => \E r \in Requests : on = {r},
             does = "create" => \A r \in on : memory'[w][r] \notin Refs
      PROVE  JobOk(w)'
  <2>1. /\ (job[w])'.step = step /\ (job[w])'.does = does /\ (job[w])'.on = on
        /\ (job[w])'.todo = todo /\ (job[w])'.made = NothingMade /\ (job[w])'.drop = {}
    BY <1>5, TaskParts DEF Job
  <2> QED
    BY <1>1, <1>5, <2>1 DEF JobOk
<1> QED
  BY <1>3, <1>4, <1>5

(***************************************************************************)
(* A step of window w loses no secret of others.  What it abandoned stays  *)
(* so while the secret exists, and secrets it stores are fresh.            *)
(***************************************************************************)
Fresh == /\ minted \subseteq minted' /\ \A s \in secrets' : s \in secrets \/ s \notin minted
         /\ abandoned \cap secrets' \subseteq abandoned'

LEMMA StageStays ==
  ASSUME LeakInv, Fresh, NEW v \in Windows, staged'[v] = staged[v], memory'[v] = memory[v]
  PROVE  StageOk(v)'
<1>1. StageOk(v) /\ RefsIn(memory[v]) \subseteq minted
  BY DEF LeakInv, KnownRefs
<1>2. \A r \in Requests : memory[v][r] \in Refs => memory[v][r] \in minted
  BY <1>1 DEF RefsIn
<1> QED
  BY <1>1, <1>2 DEF StageOk, Fresh

LEMMA LeakOfOne ==
  ASSUME LeakInv, MemoryInv', NEW w \in Windows, Alone(w), Fresh,
         JobOk(w)', StageOk(w)', KnownRefs(w)' \subseteq minted',
         RefsIn(disk.auth)' \subseteq minted',
         \A s \in secrets' : \/ s \in RefsIn(disk.auth)' \cup abandoned' \cup Carried(w)'
                            \/ s \in secrets \ (RefsIn(disk.auth) \cup abandoned \cup Carried(w))
  PROVE  LeakInv'
<1>1. ASSUME NEW v \in Windows, v # w
      PROVE  /\ JobOk(v)' /\ StageOk(v)' /\ KnownRefs(v)' \subseteq minted'
             /\ Carried(v)' = Carried(v)
  <2>1. staged'[v] = staged[v] /\ job'[v] = job[v] /\ memory'[v] = memory[v]
    BY <1>1 DEF Alone
  <2>2. JobOk(v) /\ KnownRefs(v) \subseteq minted
    BY DEF LeakInv
  <2>3. JobOk(v)'
    BY <2>1, <2>2 DEF JobOk
  <2>4. StageOk(v)'
    BY <2>1, StageStays
  <2> QED
    BY <2>1, <2>2, <2>3, <2>4 DEF KnownRefs, Carried, StagedRefs, MadeRefs, RefsIn, Fresh
<1>2. \A v \in Windows : JobOk(v)' /\ StageOk(v)' /\ KnownRefs(v)' \subseteq minted'
  BY <1>1
<1>3. NoLeak'
  <2> SUFFICES ASSUME NEW s \in secrets', s \notin RefsIn(disk.auth)', s \notin abandoned'
               PROVE  \E v \in Windows : s \in Carried(v)'
    BY DEF NoLeak, Carried
  <2>1. CASE s \in Carried(w)'
    BY <2>1
  <2>2. CASE s \in secrets \ (RefsIn(disk.auth) \cup abandoned \cup Carried(w))
    <3>1. PICK v \in Windows : s \in Carried(v)
      BY <2>2 DEF LeakInv, NoLeak, Carried
    <3> QED
      BY <1>1, <2>2, <3>1
  <2> QED
    BY <2>1, <2>2
<1> QED
  BY <1>2, <1>3 DEF LeakInv

(***************************************************************************)
(* A job begins.                                                           *)
(***************************************************************************)
LEMMA BeginningLeaksNothing ==
  ASSUME LeakInv, MemoryInv', NEW w \in Windows, NEW on \in SUBSET Requests,
         NEW does \in {"save", "create", "change", "configure"},
         NEW step \in {"store", "swap", "write"}, NEW todo \in SUBSET on,
         Begin(w, Job(step, does, on, todo)),
         step = "write" => does \in {"save", "create", "change"},
         step = "store" => does \in {"save", "create", "configure"},
         step = "swap" => does \in {"configure", "save"},
         does \in {"configure", "save"} => \E r \in Requests : on = {r},
         does = "create" => \A r \in on : memory[w][r] \notin Refs,
         UNCHANGED <<secrets, minted, disk, memory, staged, abandoned>>
  PROVE  LeakInv'
<1>1. job[w] = Idle /\ job' = [job EXCEPT ![w] = Job(step, does, on, todo)]
  BY DEF Begin
<1>2. Alone(w) /\ (job[w])' = Job(step, does, on, todo)
  BY <1>1 DEF Alone, LeakInv, MemoryInv, TypeOK
<1>3. JobOk(w)' /\ MadeRefs(w)' = {}
  BY <1>2, RestIsOk
<1>4. MadeRefs(w) = {} /\ job[w].drop = {}
  BY <1>1, TaskParts, NothingIsNoRef DEF MadeRefs, NothingMade
<1>5. Fresh /\ StageOk(w)'
  BY StageStays DEF Fresh
<1>6. StagedRefs(w)' = StagedRefs(w) /\ RefsIn(memory[w])' = RefsIn(memory[w])
  BY DEF StagedRefs, RefsIn
<1>7. KnownRefs(w) \subseteq minted /\ RefsIn(disk.auth)' = RefsIn(disk.auth)
      /\ RefsIn(disk.auth) \subseteq minted
  BY DEF LeakInv, RefsIn
<1> QED
  BY <1>2, <1>3, <1>4, <1>5, <1>6, <1>7, LeakOfOne DEF KnownRefs, Carried

(***************************************************************************)
(* A job or a stage ends: what it carried is deleted next.                 *)
(***************************************************************************)
LEMMA EndingLeaksNothing ==
  ASSUME LeakInv, MemoryInv', NEW w \in Windows, NEW refs,
         job' = [job EXCEPT ![w] = Clean(refs)],
         \A v \in Windows \ {w} : staged'[v] = staged[v],
         StageOk(w)', StagedRefs(w)' \subseteq StagedRefs(w),
         Carried(w) \subseteq StagedRefs(w)' \cup refs,
         UNCHANGED <<secrets, minted, disk, memory, abandoned>>
  PROVE  LeakInv'
<1>1. Alone(w) /\ (job[w])' = Clean(refs)
  BY DEF Alone, LeakInv, MemoryInv, TypeOK
<1>2. JobOk(w)' /\ MadeRefs(w)' = {} /\ (job[w].drop)' = refs
  BY <1>1, RestIsOk, TaskParts
<1>3. Fresh
  BY DEF Fresh
<1>4. RefsIn(memory[w])' = RefsIn(memory[w]) /\ RefsIn(disk.auth)' = RefsIn(disk.auth)
  BY DEF RefsIn
<1>5. KnownRefs(w) \subseteq minted /\ RefsIn(disk.auth) \subseteq minted
  BY DEF LeakInv
<1> QED
  BY <1>1, <1>2, <1>3, <1>4, <1>5, LeakOfOne DEF KnownRefs, Carried

(***************************************************************************)
(* A stage is set, by configuring to none, storing or swapping a secret.   *)
(***************************************************************************)
LEMMA StageEffect ==
  ASSUME LeakInv, Fresh, NEW w \in Windows, NEW r \in Requests, NEW ref \in OptionalRef,
         Stage(w, r, ref), UNCHANGED memory
  PROVE  /\ \A v \in Windows \ {w} : staged'[v] = staged[v]
         /\ \A q \in Requests : staged'[w][q].new = IF q = r THEN ref ELSE staged[w][q].new
         /\ StageOk(w)'
<1>1. TypeOK /\ StageOk(w) /\ RefsIn(memory[w]) \subseteq minted
  BY DEF LeakInv, MemoryInv, KnownRefs
<1>2. /\ \A v \in Windows \ {w} : staged'[v] = staged[v]
      /\ \A q \in Requests : staged'[w][q].new = IF q = r THEN ref ELSE staged[w][q].new
  BY <1>1, StageParts
<1>3. /\ \A q \in Requests \ {r} : staged'[w][q] = staged[w][q]
      /\ staged'[w][r] = [set |-> TRUE, new |-> ref, prev |-> PreviousOf(w, r)]
  BY <1>1 DEF Stage, TypeOK
<1>4. staged'[w][r].set = TRUE /\ staged'[w][r].prev = PreviousOf(w, r)
  BY <1>3
<1>5. \A q \in Requests : memory[w][q] \in Refs => memory[w][q] \in minted
  BY <1>1 DEF RefsIn
<1>6. ASSUME memory[w][r] \in Refs \cap secrets
      PROVE  PreviousOf(w, r) = memory[w][r] \/ memory[w][r] \in abandoned
  <2>1. CASE staged[w][r].prev = Nothing
    BY <1>6, <2>1 DEF PreviousOf, RefOf
  <2>2. CASE staged[w][r].prev # Nothing
    <3>1. staged[w][r].set
      BY <1>1, <2>2 DEF StageOk, Unstaged
    <3> QED
      BY <1>1, <1>6, <2>2, <3>1 DEF StageOk, PreviousOf
  <2> QED
    BY <2>1, <2>2
<1>7. StageOk(w)'
  BY <1>1, <1>3, <1>4, <1>5, <1>6 DEF StageOk, Fresh
<1> QED
  BY <1>2, <1>7

LEMMA StagingLeaksNothing ==
  ASSUME LeakInv, MemoryInv', NEW w \in Windows, NEW r \in Requests, NEW ref \in OptionalRef,
         NEW newJob, Stage(w, r, ref), job' = [job EXCEPT ![w] = newJob], JobOk(w)', Fresh,
         ref \in Refs => ref \in minted',
         job[w].drop = {}, MadeRefs(w)' \subseteq MadeRefs(w),
         \A s \in secrets' : \/ s \in secrets /\ s # staged[w][r].new
                            \/ s = ref,
         \A s \in MadeRefs(w) : s \in MadeRefs(w)' \/ s = ref,
         UNCHANGED <<disk, memory, abandoned>>
  PROVE  LeakInv'
<1>1. /\ \A v \in Windows \ {w} : staged'[v] = staged[v]
      /\ \A q \in Requests : staged'[w][q].new = IF q = r THEN ref ELSE staged[w][q].new
      /\ StageOk(w)'
  BY StageEffect
<1>2. Alone(w)
  BY <1>1 DEF Alone, LeakInv, MemoryInv, TypeOK
<1>3. /\ StagedRefs(w)' \subseteq StagedRefs(w) \cup ({ref} \cap Refs)
      /\ \A s \in StagedRefs(w) : s = staged[w][r].new \/ s \in StagedRefs(w)'
      /\ ref \in Refs => ref \in StagedRefs(w)'
  BY <1>1 DEF StagedRefs
<1>4. RefsIn(memory[w])' = RefsIn(memory[w]) /\ RefsIn(disk.auth)' = RefsIn(disk.auth)
  BY DEF RefsIn
<1>5. KnownRefs(w) \subseteq minted /\ RefsIn(disk.auth) \subseteq minted /\ minted \subseteq minted'
  BY DEF LeakInv, Fresh
<1>6. KnownRefs(w)' \subseteq minted'
  BY <1>3, <1>4, <1>5 DEF KnownRefs
<1>7. \A s \in secrets' : s \in Refs
  BY DEF MemoryInv, TypeOK
<1>8. ASSUME NEW s \in secrets'
      PROVE  \/ s \in RefsIn(disk.auth)' \cup abandoned' \cup Carried(w)'
             \/ s \in secrets \ (RefsIn(disk.auth) \cup abandoned \cup Carried(w))
  <2>1. CASE s = ref
    BY <1>3, <1>7, <2>1 DEF Carried
  <2>2. CASE s \in secrets /\ s # staged[w][r].new /\ s # ref
    BY <1>3, <1>4, <2>2 DEF Carried
  <2> QED
    BY <2>1, <2>2
<1> QED
  BY <1>1, <1>2, <1>4, <1>5, <1>6, <1>8, LeakOfOne

LEMMA ConfiguringLeaksNothing ==
  ASSUME LeakInv, MemoryInv', NEW w \in Windows, NEW r \in Requests,
         ConfigureAuth(w, r) \/ ConfigureNone(w, r) \/ SaveRequest(w, r)
  PROVE  LeakInv'
<1> DEFINE on == {r}
<1>0. on \in SUBSET Requests /\ {} \in SUBSET on /\ on \in SUBSET on /\ \E q \in Requests : on = {q}
  OBVIOUS
<1> HIDE DEF on
<1>1. CASE ConfigureAuth(w, r)
  <2>1. Begin(w, Job("store", "configure", on, on))
    BY <1>1 DEF ConfigureAuth, on
  <2> QED
    BY <1>0, <1>1, <2>1, BeginningLeaksNothing DEF ConfigureAuth
<1>2. CASE SaveRequest(w, r)
  <2>1. PICK typed \in SUBSET on :
          Begin(w, Job(IF typed = {} THEN "write" ELSE "store", "save", on, typed))
    BY <1>2 DEF SaveRequest, on
  <2> DEFINE step == IF typed = {} THEN "write" ELSE "store"
  <2>2. step \in {"write", "store"}
    OBVIOUS
  <2>3. Begin(w, Job(step, "save", on, typed))
    BY <2>1
  <2> HIDE DEF step
  <2> QED
    BY <1>0, <1>2, <2>2, <2>3, BeginningLeaksNothing DEF SaveRequest
<1>3. CASE ConfigureNone(w, r) /\ staged[w][r].new # Nothing
  <2>1. Begin(w, Job("swap", "configure", on, {})) /\ UNCHANGED staged
    BY <1>3 DEF ConfigureNone, on
  <2> QED
    BY <1>0, <1>3, <2>1, BeginningLeaksNothing DEF ConfigureNone
<1>4. CASE ConfigureNone(w, r) /\ staged[w][r].new = Nothing
  <2>1. /\ job[w] = Idle /\ job' = [job EXCEPT ![w] = Idle] /\ Stage(w, r, Nothing)
        /\ UNCHANGED <<secrets, minted, disk, known, memory, abandoned>>
    BY <1>4 DEF ConfigureNone, Begin
  <2>2. MadeRefs(w) = {} /\ job[w].drop = {}
    BY <2>1, TaskParts, NothingIsNoRef DEF MadeRefs, NothingMade
  <2>3. (job[w])' = Clean({})
    BY <2>1, TaskParts DEF LeakInv, MemoryInv, TypeOK
  <2>4. JobOk(w)' /\ MadeRefs(w)' = {}
    BY <2>3, RestIsOk
  <2>5. Nothing \in OptionalRef /\ Nothing \notin Refs /\ Fresh
    BY <2>1, NothingIsNoRef DEF OptionalRef, Fresh
  <2>6. \A s \in secrets' : s \in secrets /\ s # staged[w][r].new
    BY <1>4, <2>1, <2>5 DEF LeakInv, MemoryInv, TypeOK
  <2> QED
    BY <2>1, <2>2, <2>4, <2>5, <2>6, StagingLeaksNothing
<1> QED
  BY <1>1, <1>2, <1>3, <1>4

LEMMA CreatingLeaksNothing ==
  ASSUME LeakInv, MemoryInv', NEW w \in Windows, CreateRequests(w) \/ ChangeTree(w)
  PROVE  LeakInv'
<1>1. CASE CreateRequests(w)
  <2>1. PICK on \in SUBSET {r \in Requests : memory[w][r] = "absent" /\ ~staged[w][r].set} :
          \E todo \in SUBSET on :
            Begin(w, Job(IF todo = {} THEN "write" ELSE "store", "create", on, todo))
    BY <1>1 DEF CreateRequests
  <2>2. PICK todo \in SUBSET on :
          Begin(w, Job(IF todo = {} THEN "write" ELSE "store", "create", on, todo))
    BY <2>1
  <2> DEFINE step == IF todo = {} THEN "write" ELSE "store"
  <2>3. step \in {"write", "store"} /\ Begin(w, Job(step, "create", on, todo))
    BY <2>2
  <2>4. on \in SUBSET Requests /\ \A r \in on : memory[w][r] \notin Refs
    BY NothingIsNoRef
  <2> HIDE DEF step
  <2> QED
    BY <1>1, <2>3, <2>4, BeginningLeaksNothing DEF CreateRequests
<1>2. CASE ChangeTree(w)
  <2>1. PICK removed \in SUBSET Requests : Begin(w, Job("write", "change", removed, {}))
    BY <1>2 DEF ChangeTree
  <2> QED
    BY <1>2, <2>1, BeginningLeaksNothing DEF ChangeTree
<1> QED
  BY <1>1, <1>2

LEMMA DiscardingLeaksNothing ==
  ASSUME LeakInv, MemoryInv', NEW w \in Windows, Discard(w)
  PROVE  LeakInv'
<1>1. PICK rs \in SUBSET Requests :
        /\ staged' = [staged EXCEPT ![w] = [r \in Requests |->
                        IF r \in rs THEN Unstaged ELSE staged[w][r]]]
        /\ job' = [job EXCEPT ![w] = Clean({staged[w][r].new : r \in rs} \cap Refs)]
  <2>1. \A rs \in {{r} : r \in Requests} \cup {Requests} : rs \in SUBSET Requests
    OBVIOUS
  <2> QED
    BY <2>1 DEF Discard
<1> DEFINE refs == {staged[w][r].new : r \in rs} \cap Refs
<1>2. /\ job[w] = Idle /\ UNCHANGED <<secrets, minted, disk, memory, abandoned>>
      /\ job' = [job EXCEPT ![w] = Clean(refs)]
  BY <1>1 DEF Discard
<1>3. MadeRefs(w) = {} /\ job[w].drop = {}
  BY <1>2, TaskParts, NothingIsNoRef DEF MadeRefs, NothingMade
<1>4. /\ \A v \in Windows \ {w} : staged'[v] = staged[v]
      /\ \A r \in Requests : staged'[w][r] = IF r \in rs THEN Unstaged ELSE staged[w][r]
  BY <1>1 DEF LeakInv, MemoryInv, TypeOK
<1>5. Unstaged.new \notin Refs /\ Unstaged.set = FALSE
  BY NothingIsNoRef DEF Unstaged
<1>6. StageOk(w)'
  BY <1>2, <1>4, <1>5 DEF StageOk, LeakInv
<1>7. \A r \in Requests : staged'[w][r].new = IF r \in rs THEN Unstaged.new ELSE staged[w][r].new
  BY <1>4
<1>8. /\ StagedRefs(w)' \subseteq StagedRefs(w)
      /\ StagedRefs(w) \subseteq StagedRefs(w)' \cup refs
  BY <1>5, <1>7 DEF StagedRefs
<1> HIDE DEF refs
<1> QED
  BY <1>2, <1>3, <1>4, <1>6, <1>8, EndingLeaksNothing DEF Carried

LEMMA FailingLeaksNothing ==
  ASSUME LeakInv, MemoryInv', NEW w \in Windows, StoreFails(w) \/ SwapFails(w) \/ WriteFails(w)
  PROVE  LeakInv'
<1>1. /\ job[w].step # "clean" /\ job' = [job EXCEPT ![w] = Clean(MadeRefs(w))]
      /\ UNCHANGED <<secrets, minted, disk, memory, staged, abandoned>>
  BY DEF StoreFails, SwapFails, WriteFails, Undone, Remembered, LeakInv, MemoryInv, TypeOK
<1>2. job[w].drop = {}
  BY <1>1 DEF LeakInv, JobOk
<1>3. StageOk(w)' /\ StagedRefs(w)' = StagedRefs(w)
  BY <1>1, StageStays DEF Fresh, StagedRefs
<1> QED
  BY <1>1, <1>2, <1>3, EndingLeaksNothing DEF Carried

LEMMA DeletingLeaksNothing ==
  ASSUME LeakInv, MemoryInv', NEW w \in Windows, DeleteSecrets(w)
  PROVE  LeakInv'
<1>1. PICK kept \in SUBSET job[w].drop :
        /\ secrets' = secrets \ (job[w].drop \ kept)
        /\ abandoned' = (abandoned \cup kept) \cap secrets'
  BY DEF DeleteSecrets
<1>2. job' = [job EXCEPT ![w] = Idle] /\ UNCHANGED <<minted, disk, memory, staged>>
  BY DEF DeleteSecrets
<1>3. Alone(w) /\ (job[w])' = Clean({})
  BY <1>2, TaskParts DEF Alone, LeakInv, MemoryInv, TypeOK
<1>4. JobOk(w)' /\ MadeRefs(w)' = {}
  BY <1>3, RestIsOk
<1>5. Fresh
  BY <1>1, <1>2 DEF Fresh
<1>6. StageOk(w)' /\ StagedRefs(w)' = StagedRefs(w) /\ RefsIn(memory[w])' = RefsIn(memory[w])
      /\ RefsIn(disk.auth)' = RefsIn(disk.auth)
  BY <1>2, <1>5, StageStays DEF StagedRefs, RefsIn
<1>7. KnownRefs(w) \subseteq minted /\ RefsIn(disk.auth) \subseteq minted /\ JobOk(w)
  BY DEF LeakInv
<1>8. MadeRefs(w) = {}
  BY <1>7, NothingIsNoRef DEF DeleteSecrets, JobOk, MadeRefs
<1> QED
  BY <1>1, <1>2, <1>3, <1>4, <1>5, <1>6, <1>7, <1>8, LeakOfOne DEF KnownRefs, Carried

LEMMA DyingLeaksNothing ==
  ASSUME LeakInv, MemoryInv', NEW w \in Windows, Die(w)
  PROVE  LeakInv'
<1>1. /\ staged' = [staged EXCEPT ![w] = [r \in Requests |-> Unstaged]]
      /\ memory' = [memory EXCEPT ![w] = [r \in Requests |-> "absent"]]
      /\ job' = [job EXCEPT ![w] = Closed]
      /\ UNCHANGED <<secrets, minted, disk>>
      /\ abandoned' = (abandoned \cup Carried(w)) \cap secrets
  BY DEF Die, Carried
<1>2. Alone(w) /\ (job[w])' = Closed
  BY <1>1 DEF Alone, LeakInv, MemoryInv, TypeOK
<1>3. JobOk(w)' /\ MadeRefs(w)' = {}
  BY <1>2, RestIsOk
<1>4. \A r \in Requests : staged'[w][r] = Unstaged /\ memory'[w][r] = "absent"
  BY <1>1 DEF LeakInv, MemoryInv, TypeOK
<1>5. Unstaged.new \notin Refs /\ Unstaged.set = FALSE /\ "absent" \notin Refs
  BY NothingIsNoRef DEF Unstaged
<1>6. StageOk(w)'
  BY <1>4, <1>5 DEF StageOk
<1>7. StagedRefs(w)' = {} /\ RefsIn(memory[w])' = {}
  BY <1>4, <1>5 DEF StagedRefs, RefsIn
<1>8. Fresh /\ RefsIn(disk.auth)' = RefsIn(disk.auth) /\ RefsIn(disk.auth) \subseteq minted
  BY <1>1 DEF Fresh, RefsIn, LeakInv
<1>9. KnownRefs(w)' \subseteq minted'
  BY <1>3, <1>7 DEF KnownRefs
<1>10. \A s \in secrets' : \/ s \in abandoned'
                          \/ s \in secrets \ (RefsIn(disk.auth) \cup abandoned \cup Carried(w))
                          \/ s \in RefsIn(disk.auth)'
  BY <1>1, <1>8
<1> QED
  BY <1>1, <1>2, <1>3, <1>6, <1>8, <1>9, <1>10, LeakOfOne

LEMMA LoadingLeaksNothing ==
  ASSUME LeakInv, MemoryInv', NEW w \in Windows, Load(w)
  PROVE  LeakInv'
<1> DEFINE headers == {r \in Requests : disk.auth[r] = "header"}
<1>1. /\ memory' = [memory EXCEPT ![w] = disk.auth]
      /\ job' = [job EXCEPT ![w] = IF headers = {} THEN Idle
                                   ELSE Job("store", "create", headers, headers)]
      /\ abandoned' = (abandoned \cup Outdating(w, disk.auth)) \cap secrets
      /\ UNCHANGED <<secrets, minted, disk, staged>> /\ job[w].step \in {"closed", "idle"}
  BY DEF Load
<1>2. Alone(w) /\ memory'[w] = disk.auth
  BY <1>1 DEF Alone, LeakInv, MemoryInv, TypeOK
<1>3. JobOk(w)' /\ MadeRefs(w)' = {}
  <2>1. (job[w])' = Idle \/ (job[w])' = Job("store", "create", headers, headers)
    BY <1>1 DEF LeakInv, MemoryInv, TypeOK
  <2>2. CASE (job[w])' = Idle
    BY <2>2, TaskParts, RestIsOk
  <2>3. CASE (job[w])' = Job("store", "create", headers, headers)
    <3>1. \A r \in headers : memory'[w][r] \notin Refs
      BY <1>2, NothingIsNoRef
    <3>2. headers \in SUBSET Requests /\ headers \in SUBSET headers
      OBVIOUS
    <3> HIDE DEF headers
    <3> QED
      BY <2>3, <3>1, <3>2, RestIsOk
  <2> QED
    BY <2>1, <2>2, <2>3
<1>4. JobOk(w) /\ StageOk(w) /\ KnownRefs(w) \subseteq minted /\ RefsIn(disk.auth) \subseteq minted
  BY DEF LeakInv
<1>5. MadeRefs(w) = {} /\ job[w].drop = {}
  BY <1>1, <1>4, NothingIsNoRef DEF JobOk, MadeRefs
<1>6. Fresh
  BY <1>1 DEF Fresh
<1>7. StageOk(w)'
  <2>1. \A r \in Requests : /\ staged'[w][r].set /\ disk.auth[r] # memory[w][r] /\ disk.auth[r] \in Refs
                              => disk.auth[r] \in Outdating(w, disk.auth)
    BY DEF Outdating
  <2> QED
    BY <1>1, <1>2, <1>4, <2>1 DEF StageOk
<1>8. /\ StagedRefs(w)' = StagedRefs(w) /\ RefsIn(memory[w])' = RefsIn(disk.auth)
      /\ RefsIn(disk.auth)' = RefsIn(disk.auth)
  BY <1>1, <1>2 DEF StagedRefs, RefsIn
<1> QED
  BY <1>1, <1>2, <1>3, <1>4, <1>5, <1>6, <1>7, <1>8, LeakOfOne DEF KnownRefs, Carried

LEMMA SwappingLeaksNothing ==
  ASSUME LeakInv, MemoryInv', NEW w \in Windows, SwapSecret(w)
  PROVE  LeakInv'
<1>1. PICK r \in job[w].on : secrets' = secrets \ {staged[w][r].new} /\ Stage(w, r, job[w].made[r])
  BY DEF SwapSecret
<1>2. /\ job[w].step = "swap" /\ job' = [job EXCEPT ![w] = Proceed(w, AfterStage(w), {}, NothingMade)]
      /\ UNCHANGED <<minted, disk, memory, abandoned>>
  BY DEF SwapSecret
<1>3. JobOk(w) /\ KnownRefs(w) \subseteq minted /\ job[w] \in Jobs
  BY DEF LeakInv, MemoryInv, TypeOK
<1>4. /\ job[w].on = {r} /\ job[w].drop = {} /\ job[w].does \in {"configure", "save"}
      /\ r \in Requests /\ job[w].made[r] \in OptionalRef
      /\ \A q \in Requests : job[w].made[q] # Nothing => q = r
  BY <1>2, <1>3 DEF JobOk, Jobs
<1>5. \A s \in MadeRefs(w) : s = job[w].made[r]
  BY <1>4, NothingIsNoRef DEF MadeRefs
<1>6. JobOk(w)' /\ MadeRefs(w)' = {}
  <2>1. \/ (job[w])' = Clean({})
        \/ (job[w])' = Job("write", "save", job[w].on, {})
    BY <1>2, <1>4, TaskParts DEF Proceed, AfterStage, Job, LeakInv, MemoryInv, TypeOK
  <2> DEFINE on == job[w].on
  <2>2. on \in SUBSET Requests /\ {} \in SUBSET on /\ \E q \in Requests : on = {q}
    BY <1>4
  <2> HIDE DEF on
  <2>3. CASE (job[w])' = Job("write", "save", on, {})
    BY <2>2, <2>3, RestIsOk
  <2> QED
    BY <2>1, <2>3, RestIsOk DEF on
<1>7. Fresh
  BY <1>1, <1>2 DEF Fresh, LeakInv, NoLeak, MemoryInv, TypeOK
<1>8. job[w].made[r] \in Refs => job[w].made[r] \in minted'
  BY <1>2, <1>3, <1>4 DEF KnownRefs, MadeRefs
<1> QED
  BY <1>1, <1>2, <1>4, <1>5, <1>6, <1>7, <1>8, StagingLeaksNothing

LEMMA StoringLeaksNothing ==
  ASSUME LeakInv, MemoryInv', NEW w \in Windows, StoreSecret(w)
  PROVE  LeakInv'
<1>1. PICK r \in job[w].todo, ref \in Refs \ minted :
        LET rest == job[w].todo \ {r}
            creates == job[w].does = "create"
            pending == staged[w][r].new # Nothing
        IN /\ secrets' = secrets \cup {ref} /\ minted' = minted \cup {ref}
           /\ IF creates \/ pending THEN UNCHANGED staged ELSE Stage(w, r, ref)
           /\ job' = [job EXCEPT ![w] = Proceed(w,
                IF rest # {} THEN "store" ELSE IF creates THEN "write"
                  ELSE IF pending THEN "swap" ELSE AfterStage(w),
                rest,
                IF creates \/ pending THEN [job[w].made EXCEPT ![r] = ref]
                  ELSE job[w].made)]
  BY DEF StoreSecret
<1>2. job[w].step = "store" /\ UNCHANGED <<disk, memory, abandoned>>
  BY DEF StoreSecret
<1>3. /\ JobOk(w) /\ KnownRefs(w) \subseteq minted /\ RefsIn(disk.auth) \subseteq minted
      /\ job[w] \in Jobs /\ TypeOK
  BY DEF LeakInv, MemoryInv, TypeOK
<1>4. /\ job[w].drop = {} /\ r \in job[w].on /\ r \in Requests /\ job[w].made[r] = Nothing
      /\ job[w].does \in {"save", "create", "configure"}
      /\ job[w].does # "create" => job[w].on = {r} /\ job[w].todo \ {r} = {}
      /\ \A q \in Requests : job[w].made[q] # Nothing => q \in job[w].on \ job[w].todo /\ job[w].does = "create"
  BY <1>2, <1>3 DEF JobOk, Jobs
<1>5. Fresh /\ secrets' = secrets \cup {ref} /\ minted' = minted \cup {ref}
  BY <1>1, <1>2, <1>3 DEF Fresh, TypeOK, LeakInv, NoLeak
<1>6. /\ RefsIn(memory[w])' = RefsIn(memory[w]) /\ RefsIn(disk.auth)' = RefsIn(disk.auth)
  BY <1>2 DEF RefsIn
<1>7. CASE job[w].does = "create" \/ staged[w][r].new # Nothing
  <2> DEFINE made == [job[w].made EXCEPT ![r] = ref]
             rest == job[w].todo \ {r}
             step == IF rest # {} THEN "store" ELSE IF job[w].does = "create" THEN "write" ELSE "swap"
  <2>1. staged' = staged /\ job' = [job EXCEPT ![w] = Proceed(w, step, rest, made)]
    BY <1>1, <1>7
  <2>2. step \in {"store", "write", "swap"} /\ step # "idle"
    OBVIOUS
  <2>3. /\ \A q \in Requests : made[q] = IF q = r THEN ref ELSE job[w].made[q]
        /\ ref # Nothing
    BY <1>3, NothingIsNoRef DEF Jobs
  <2>4. /\ step = "write" => job[w].does = "create"
        /\ job[w].does = "create" => step \in {"store", "write"}
        /\ job[w].does # "create" => step = "swap"
    BY <1>4
  <2> HIDE DEF made, step
  <2>5. (job[w])' = Task(step, job[w].does, job[w].on, rest, made)
    BY <1>3, <2>1, <2>2 DEF Proceed, TypeOK
  <2>6. /\ (job[w])'.step = step /\ (job[w])'.does = job[w].does /\ (job[w])'.on = job[w].on
        /\ (job[w])'.todo = rest /\ (job[w])'.made = made /\ (job[w])'.drop = {}
    BY <2>5, TaskParts
  <2>7. JobOk(w)'
    <3>1. \A q \in Requests : made[q] # Nothing =>
            /\ q \in job[w].on \ rest
            /\ (job[w].does = "create" /\ step \in {"store", "write"}) \/ step = "swap"
      BY <1>4, <2>3, <2>4
    <3>2. rest \subseteq job[w].on
      BY <1>3 DEF JobOk
    <3> HIDE DEF rest
    <3> QED
      BY <1>2, <1>3, <1>4, <2>2, <2>4, <2>6, <3>1, <3>2 DEF JobOk
  <2>8. MadeRefs(w)' = MadeRefs(w) \cup {ref} /\ StagedRefs(w)' = StagedRefs(w)
    <3>1. MadeRefs(w)' = {made[q] : q \in Requests} \cap Refs
      BY <2>6 DEF MadeRefs
    <3>2. \A q \in Requests : q # r => made[q] = job[w].made[q]
      BY <2>3
    <3>3. made[r] = ref /\ ref \in Refs /\ job[w].made[r] \notin Refs /\ r \in Requests
      BY <1>4, <2>3, NothingIsNoRef
    <3>4. \A s \in MadeRefs(w)' : s \in MadeRefs(w) \/ s = ref
      BY <3>1, <3>2, <3>3 DEF MadeRefs
    <3>5. MadeRefs(w) \subseteq MadeRefs(w)' /\ ref \in MadeRefs(w)'
      BY <3>1, <3>2, <3>3 DEF MadeRefs
    <3> QED
      BY <2>1, <3>4, <3>5 DEF StagedRefs
  <2>9. Alone(w) /\ StageOk(w)'
    BY <1>2, <1>3, <1>5, <2>1, StageStays DEF Alone, TypeOK
  <2> QED
    BY <1>2, <1>3, <1>4, <1>5, <1>6, <2>6, <2>7, <2>8, <2>9, LeakOfOne DEF KnownRefs, Carried
<1>8. CASE job[w].does # "create" /\ staged[w][r].new = Nothing
  <2>1. \A q \in Requests : job[w].made[q] = Nothing
    BY <1>4, <1>8
  <2>2. job[w].made = NothingMade /\ MadeRefs(w) = {}
    BY <1>3, <2>1, NothingIsNoRef DEF Jobs, NothingMade, MadeRefs
  <2>3. /\ Stage(w, r, ref)
        /\ job' = [job EXCEPT ![w] = Proceed(w, AfterStage(w), {}, NothingMade)]
    BY <1>1, <1>4, <1>8, <2>2
  <2>4. JobOk(w)' /\ MadeRefs(w)' = {}
    <3>1. \/ (job[w])' = Clean({})
          \/ (job[w])' = Job("write", "save", job[w].on, {})
      BY <1>3, <2>3, TaskParts DEF Proceed, AfterStage, Job, TypeOK
    <3> DEFINE on == job[w].on
    <3>2. on \in SUBSET Requests /\ {} \in SUBSET on /\ \E q \in Requests : on = {q}
      BY <1>4, <1>8
    <3> HIDE DEF on
    <3>3. CASE (job[w])' = Job("write", "save", on, {})
      BY <3>2, <3>3, RestIsOk
    <3> QED
      BY <3>1, <3>3, RestIsOk DEF on
  <2>5. \A s \in secrets : s # staged[w][r].new
    BY <1>3, <1>8, NothingIsNoRef DEF TypeOK
  <2>6. ref \in OptionalRef
    BY DEF OptionalRef
  <2> QED
    BY <1>2, <1>4, <1>5, <2>2, <2>3, <2>4, <2>5, <2>6, StagingLeaksNothing
<1> QED
  BY <1>7, <1>8

(***************************************************************************)
(* Where the credentials of a written document come from.                  *)
(***************************************************************************)
LEMMA WrittenFrom ==
  ASSUME LeakInv, NEW w \in Windows
  PROVE  RefsIn(Written(w)) \subseteq KnownRefs(w)
<1>1. {"none", "absent", "header", Nothing} \cap Refs = {}
  BY NothingIsNoRef
<1>2. ASSUME NEW r \in Requests, Written(w)[r] \in Refs
      PROVE  Written(w)[r] \in {memory[w][r], staged[w][r].new, job[w].made[r]}
  BY <1>1, <1>2 DEF Written, Prepared, RefOf
<1> QED
  BY <1>2 DEF RefsIn, KnownRefs, StagedRefs, MadeRefs

LEMMA MisreportingLeaksNothing ==
  ASSUME LeakInv, MemoryInv', NEW w \in Windows, CommitReportedFailed(w)
  PROVE  LeakInv'
<1>1. /\ disk'.auth = Written(w) /\ job[w].step = "write"
      /\ job' = [job EXCEPT ![w] = Clean(MadeRefs(w))]
      /\ abandoned' = (abandoned \cup (RefsIn(disk.auth) \ RefsIn(Written(w)))) \cap secrets
      /\ UNCHANGED <<secrets, minted, memory, staged>>
  BY DEF CommitReportedFailed, Undone
<1>2. Alone(w) /\ (job[w])' = Clean(MadeRefs(w))
  BY <1>1 DEF Alone, LeakInv, MemoryInv, TypeOK
<1>3. JobOk(w)' /\ MadeRefs(w)' = {} /\ (job[w].drop)' = MadeRefs(w)
  BY <1>2, RestIsOk, TaskParts
<1>4. Fresh
  BY <1>1 DEF Fresh
<1>5. StageOk(w)' /\ StagedRefs(w)' = StagedRefs(w) /\ RefsIn(memory[w])' = RefsIn(memory[w])
      /\ RefsIn(disk.auth)' = RefsIn(Written(w))
  BY <1>1, <1>4, StageStays DEF StagedRefs, RefsIn
<1>6. job[w].drop = {} /\ KnownRefs(w) \subseteq minted /\ RefsIn(Written(w)) \subseteq minted
  BY <1>1, WrittenFrom DEF LeakInv, JobOk
<1> QED
  BY <1>1, <1>2, <1>3, <1>4, <1>5, <1>6, LeakOfOne DEF KnownRefs, Carried

LEMMA CommittingLeaksNothing ==
  ASSUME LeakInv, MemoryInv', NEW w \in Windows, Commit(w)
  PROVE  LeakInv'
<1>1. /\ disk'.auth = Written(w) /\ job[w].step = "write"
      /\ memory' = [memory EXCEPT ![w] = Written(w)]
      /\ staged' = [staged EXCEPT ![w] = [r \in Requests |->
                      IF r \in Unstages(w) THEN Unstaged ELSE staged[w][r]]]
      /\ job' = [job EXCEPT ![w] = Clean(Superseded(w))]
      /\ abandoned' = (abandoned \cup Outdating(w, Written(w))) \cap secrets
      /\ UNCHANGED <<secrets, minted>>
  BY DEF Commit
<1>2. memory[w] = disk.auth
  BY DEF Commit, IsCurrent, LeakInv, MemoryInv, MemoryIsDisk
<1>3. /\ Alone(w) /\ (job[w])' = Clean(Superseded(w)) /\ memory'[w] = Written(w)
      /\ \A r \in Requests : staged'[w][r] = IF r \in Unstages(w) THEN Unstaged ELSE staged[w][r]
  BY <1>1 DEF Alone, LeakInv, MemoryInv, TypeOK
<1>4. JobOk(w)' /\ MadeRefs(w)' = {} /\ (job[w].drop)' = Superseded(w)
  BY <1>3, RestIsOk, TaskParts
<1>5. /\ JobOk(w) /\ StageOk(w) /\ KnownRefs(w) \subseteq minted /\ job[w].drop = {}
      /\ job[w].does \in {"save", "create", "change"} /\ job[w].on \subseteq Requests
  BY <1>1 DEF LeakInv, MemoryInv, TypeOK, JobOk, Jobs
<1>6. Fresh
  BY <1>1 DEF Fresh
<1>7. Unstaged.set = FALSE /\ Unstaged.new = Nothing /\ Unstaged.prev = Nothing
  BY DEF Unstaged
<1>8. {"none", "absent", "header", Nothing} \cap Refs = {}
  BY NothingIsNoRef
<1>9. StageOk(w)'
  <2>1. \A r \in Requests :
          staged'[w][r].set /\ Written(w)[r] # memory[w][r] /\ Written(w)[r] \in Refs
            => Written(w)[r] \in Outdating(w, Written(w))
    BY DEF Outdating
  <2>2. ASSUME NEW r \in Requests, staged'[w][r].set, Written(w)[r] \in Refs \cap secrets
        PROVE  staged'[w][r].prev = Written(w)[r] \/ Written(w)[r] \in abandoned'
    <3>1. staged'[w][r] = staged[w][r]
      BY <1>3, <1>7, <2>2
    <3> QED
      BY <1>1, <1>5, <2>1, <2>2, <3>1 DEF StageOk
  <2>3. \A r \in Requests : ~staged'[w][r].set => staged'[w][r] = Unstaged
    BY <1>3, <1>5 DEF StageOk
  <2> QED
    BY <1>1, <1>3, <2>2, <2>3 DEF StageOk
<1>10. /\ RefsIn(memory[w])' = RefsIn(Written(w)) /\ RefsIn(disk.auth)' = RefsIn(Written(w))
       /\ StagedRefs(w)' \subseteq StagedRefs(w)
       /\ \A r \in Requests \ Unstages(w) : staged[w][r].new \in Refs => staged[w][r].new \in StagedRefs(w)'
  <2>1. \A r \in Requests : staged'[w][r].new = IF r \in Unstages(w) THEN Nothing ELSE staged[w][r].new
    BY <1>3, <1>7
  <2> QED
    BY <1>1, <1>3, <1>8, <2>1 DEF RefsIn, StagedRefs
<1>11. RefsIn(Written(w)) \subseteq minted
  BY <1>5, WrittenFrom
<1> DEFINE Found(s) == s \in RefsIn(Written(w)) \cup abandoned' \cup StagedRefs(w)' \cup Superseded(w)
<1>12. ASSUME NEW r \in Requests, job[w].made[r] \in Refs
       PROVE  Found(job[w].made[r])
  <2>1. job[w].does = "create" /\ r \in job[w].on
    BY <1>1, <1>5, <1>8, <1>12 DEF JobOk
  <2>2. Written(w)[r] = job[w].made[r]
    BY <1>8, <1>12, <2>1 DEF Written
  <2> QED
    BY <1>12, <2>2 DEF RefsIn
<1>13. ASSUME NEW r \in Requests, staged[w][r].new \in Refs
       PROVE  Found(staged[w][r].new)
  <2>1. CASE r \notin Unstages(w)
    BY <1>10, <1>13, <2>1
  <2>2. CASE r \in Unstages(w) /\ job[w].does = "save"
    <3>1. staged[w][r].set
      BY <1>5, <1>7, <1>8, <1>13 DEF StageOk
    <3>2. Written(w)[r] = staged[w][r].new
      BY <1>8, <1>13, <2>2, <3>1 DEF Written, Prepared, Unstages
    <3> QED
      BY <1>13, <3>2 DEF RefsIn
  <2>3. CASE r \in Unstages(w) /\ job[w].does = "change"
    BY <1>13, <2>3 DEF Superseded, Unstages
  <2> QED
    BY <2>1, <2>2, <2>3 DEF Unstages
<1>14. ASSUME NEW r \in Requests, memory[w][r] \in Refs \cap secrets
       PROVE  Found(memory[w][r])
  <2>1. CASE r \notin job[w].on
    <3>1. Written(w)[r] = memory[w][r]
      BY <2>1 DEF Written
    <3> QED
      BY <1>14, <3>1 DEF RefsIn
  <2>2. CASE r \in job[w].on /\ job[w].does = "save" /\ ~staged[w][r].set
    <3>1. Written(w)[r] = memory[w][r]
      BY <1>8, <1>14, <2>2 DEF Written, Prepared, RefOf
    <3> QED
      BY <1>14, <3>1 DEF RefsIn
  <2>3. CASE r \in job[w].on /\ job[w].does = "save" /\ staged[w][r].set
    <3>1. staged[w][r].prev = memory[w][r] \/ memory[w][r] \in abandoned
      BY <1>5, <1>14, <2>3 DEF StageOk
    <3>2. CASE memory[w][r] \in abandoned
      BY <1>1, <1>14, <3>2
    <3>3. CASE staged[w][r].prev = memory[w][r]
      BY <1>14, <2>3, <3>3 DEF Superseded
    <3> QED
      BY <3>1, <3>2, <3>3
  <2>4. CASE r \in job[w].on /\ job[w].does = "change"
    BY <1>14, <2>4 DEF Superseded
  <2>5. CASE r \in job[w].on /\ job[w].does = "create"
    BY <1>5, <1>14, <2>5 DEF JobOk
  <2> QED
    BY <1>5, <2>1, <2>2, <2>3, <2>4, <2>5
<1>15. ASSUME NEW s \in secrets, s \in RefsIn(disk.auth) \cup abandoned \cup Carried(w)
       PROVE  Found(s)
  <2>1. CASE s \in RefsIn(disk.auth)
    BY <1>2, <1>14, <1>15, <2>1 DEF RefsIn
  <2>2. CASE s \in abandoned
    BY <1>1, <1>15, <2>2
  <2>3. CASE s \in StagedRefs(w)
    BY <1>13, <2>3 DEF StagedRefs
  <2>4. CASE s \in MadeRefs(w)
    BY <1>12, <2>4 DEF MadeRefs
  <2> QED
    BY <1>5, <1>15, <2>1, <2>2, <2>3, <2>4 DEF Carried
<1>16. KnownRefs(w)' \subseteq minted'
  BY <1>1, <1>4, <1>5, <1>10, <1>11 DEF KnownRefs
<1>17. \A s \in secrets' : \/ s \in RefsIn(disk.auth)' \cup abandoned' \cup Carried(w)'
                           \/ s \in secrets \ (RefsIn(disk.auth) \cup abandoned \cup Carried(w))
  BY <1>1, <1>4, <1>10, <1>15 DEF Carried
<1> QED
  BY <1>1, <1>3, <1>4, <1>6, <1>9, <1>10, <1>11, <1>16, <1>17, LeakOfOne

LEMMA InitLeak == Init => LeakInv
<1> SUFFICES ASSUME Init PROVE LeakInv
  OBVIOUS
<1>1. MemoryInv /\ NoLeak /\ RefsIn(disk.auth) \subseteq minted
  BY InitMemory DEF Init, NoLeak
<1>2. ASSUME NEW w \in Windows
      PROVE  JobOk(w) /\ StageOk(w) /\ KnownRefs(w) \subseteq minted
  <2>1. /\ \A r \in Requests : staged[w][r] = Unstaged /\ memory[w][r] = "absent"
        /\ job[w] = Closed
    BY DEF Init
  <2>2. /\ Unstaged.set = FALSE /\ Unstaged.new = Nothing
        /\ \A r \in Requests : NothingMade[r] = Nothing
        /\ Nothing \notin Refs /\ "absent" \notin Refs
    BY NothingIsNoRef DEF Unstaged, NothingMade
  <2>3. JobOk(w)
    BY <2>1, <2>2, TaskParts DEF JobOk
  <2>4. StageOk(w)
    BY <2>1, <2>2 DEF StageOk
  <2>5. job[w].made = NothingMade
    BY <2>1, TaskParts
  <2>6. KnownRefs(w) = {}
    BY <2>1, <2>2, <2>5 DEF KnownRefs, StagedRefs, MadeRefs, RefsIn
  <2> QED
    BY <2>3, <2>4, <2>6
<1> QED
  BY <1>1, <1>2 DEF LeakInv

LEMMA StepLeak == LeakInv /\ [Next]_vars => LeakInv'
<1> SUFFICES ASSUME LeakInv, [Next]_vars PROVE LeakInv'
  OBVIOUS
<1>1. MemoryInv'
  BY StepMemory DEF LeakInv
<1>2. CASE UNCHANGED vars
  BY <1>1, <1>2 DEF vars, LeakInv, JobOk, StageOk, KnownRefs, NoLeak, StagedRefs, MadeRefs, RefsIn
<1>3. ASSUME NEW w \in Windows, NEW r \in Requests,
             ConfigureAuth(w, r) \/ ConfigureNone(w, r) \/ SaveRequest(w, r)
      PROVE  LeakInv'
  BY <1>1, <1>3, ConfiguringLeaksNothing
<1>4. ASSUME NEW w \in Windows, CreateRequests(w) \/ ChangeTree(w) \/ Discard(w)
      PROVE  LeakInv'
  BY <1>1, <1>4, CreatingLeaksNothing, DiscardingLeaksNothing
<1>5. ASSUME NEW w \in Windows, StoreSecret(w) \/ SwapSecret(w) PROVE LeakInv'
  BY <1>1, <1>5, StoringLeaksNothing, SwappingLeaksNothing
<1>6. ASSUME NEW w \in Windows, StoreFails(w) \/ SwapFails(w) \/ WriteFails(w)
      PROVE  LeakInv'
  BY <1>1, <1>6, FailingLeaksNothing
<1>7. ASSUME NEW w \in Windows, Commit(w) \/ CommitReportedFailed(w) PROVE LeakInv'
  BY <1>1, <1>7, CommittingLeaksNothing, MisreportingLeaksNothing
<1>8. ASSUME NEW w \in Windows, Load(w) \/ Die(w) \/ DeleteSecrets(w) PROVE LeakInv'
  BY <1>1, <1>8, LoadingLeaksNothing, DyingLeaksNothing, DeletingLeaksNothing
<1> QED
  BY <1>2, <1>3, <1>4, <1>5, <1>6, <1>7, <1>8 DEF Next

LEMMA AlwaysLeak == Spec => []LeakInv
BY InitLeak, StepLeak, PTL DEF Spec

(***************************************************************************)
(* No secret is left behind unnoticed: whatever fails, dies or is saved by *)
(* another window, each secret of the store belongs to a saved request, a  *)
(* stage or a job under way, or was lost in one of the ways `abandoned`    *)
(* lists (NoLeak).                                                         *)
(***************************************************************************)
THEOREM NothingLeaks == Spec => []NoLeak
<1>1. LeakInv => NoLeak
  BY DEF LeakInv
<1> QED
  BY <1>1, AlwaysLeak, PTL

=============================================================================
