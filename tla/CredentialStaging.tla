------------------------- MODULE CredentialStaging -------------------------
(***************************************************************************)
(* Credentials live in VS Code's secret store, the requests that use them  *)
(* in the document "collections", which holds only references.  The two    *)
(* cannot commit together: src/engine/auth/AuthService.ts stages new       *)
(* secrets around the writes of engine/collection/CollectionManager.ts,    *)
(* one job of services/CollectionService.ts at a time in each window.      *)
(* Windows share the secret store and the document.                        *)
(*                                                                         *)
(* A write is one step here (module JsonFileStore has its inside): it      *)
(* commits only if the window knows the current revision.  The tree of a   *)
(* collection is left out, a request is its credential: a reference, none, *)
(* or still in an ordinary header ("header", what older versions wrote).   *)
(***************************************************************************)
EXTENDS Integers, FiniteSets

CONSTANTS
  Windows,     \* windows (extension hosts) on the same storage
  Requests,    \* request ids
  Refs,        \* secret references, fresh UUIDs: none is minted twice
  InitialDocuments, \* what the document may hold to begin with
  Faults,      \* what may fail: "store", "delete", "write", "acknowledge"
  MaxRevision, \* bound: revisions of the document
  MaxMisreported \* bound: revision from which on no commit is misreported

ASSUME BoundOnRevisions == MaxRevision \in Nat \ {0} /\ MaxMisreported \in 1 .. MaxRevision

Nothing == "nothing"

ASSUME NothingIsNoRef == Refs \cap {Nothing, "absent", "none", "header"} = {}

VARIABLES
  secrets,   \* references the secret store holds
  minted,    \* references created so far
  disk,      \* the document: its revision and the credential of each request
  known,     \* JsonFileStore.knownRevisions of each window (0: none)
  memory,    \* CollectionManager.requests of each window
  staged,    \* AuthService.staged of each window
  job,       \* the operation each window's queue runs
  abandoned, \* history: references lost by a death, a failed delete, a load
             \* that gives a staged request another credential, or a write
             \* that replaced them and was reported as failed
  disowned   \* history: references saved by a write reported as failed

vars == <<secrets, minted, disk, known, memory, staged, job, abandoned, disowned>>

Credential == Refs \cup {"absent", "none", "header"}
Documents == [Requests -> Credential]

ASSUME InitialKind == InitialDocuments \subseteq Documents

OptionalRef == Refs \cup {Nothing}
StagedAuth == [set : BOOLEAN, new : OptionalRef, prev : OptionalRef]
Jobs == [step : {"closed", "idle", "store", "swap", "write", "clean"},
         does : {"none", "configure", "save", "create", "change"},
         on : SUBSET Requests, todo : SUBSET Requests,
         made : [Requests -> OptionalRef], drop : SUBSET Refs]

TypeOK ==
  /\ secrets \subseteq minted /\ minted \subseteq Refs
  /\ abandoned \subseteq Refs /\ disowned \subseteq Refs
  /\ disk \in [revision : 1 .. MaxRevision, auth : Documents]
  /\ known \in [Windows -> 0 .. MaxRevision]
  /\ memory \in [Windows -> Documents]
  /\ staged \in [Windows -> [Requests -> StagedAuth]]
  /\ job \in [Windows -> Jobs]

Unstaged == [set |-> FALSE, new |-> Nothing, prev |-> Nothing]
NothingMade == [r \in Requests |-> Nothing]
Task(step, does, on, todo, made) ==
  [step |-> step, does |-> does, on |-> on, todo |-> todo, made |-> made, drop |-> {}]
Job(step, does, on, todo) == Task(step, does, on, todo, NothingMade)
Idle == Job("idle", "none", {}, {})
Closed == Job("closed", "none", {}, {})
Clean(refs) ==
  IF refs = {} THEN Idle
  ELSE [step |-> "clean", does |-> "none", on |-> {}, todo |-> {}, made |-> NothingMade,
        drop |-> refs]

RefsIn(document) == {document[r] : r \in Requests} \cap Refs
StagedRefs(w) == {staged[w][r].new : r \in Requests} \cap Refs
MadeRefs(w) == {job[w].made[r] : r \in Requests} \cap Refs

Init ==
  /\ \E auth \in InitialDocuments :
       /\ \A r1, r2 \in Requests : auth[r1] \in Refs /\ auth[r1] = auth[r2] => r1 = r2
       /\ disk = [revision |-> 1, auth |-> auth]
       /\ secrets = RefsIn(auth) /\ minted = RefsIn(auth)
  /\ known = [w \in Windows |-> 0]
  /\ memory = [w \in Windows |-> [r \in Requests |-> "absent"]]
  /\ staged = [w \in Windows |-> [r \in Requests |-> Unstaged]]
  /\ job = [w \in Windows |-> Closed]
  /\ abandoned = {} /\ disowned = {}

-----------------------------------------------------------------------------
(* Loading *)

(***************************************************************************)
(* References that a document new to the window gives to requests it has a *)
(* stage for.  The stage still names the credential it found when it was   *)
(* made: its commit will delete that one and not these.                    *)
(***************************************************************************)
Outdating(w, document) ==
  {document[r] : r \in {q \in Requests : /\ staged'[w][q].set
                                         /\ document[q] # memory[w][q]}} \cap Refs

(***************************************************************************)
(* load: a new page loads, and so does every palette command that shows,   *)
(* exports or imports a collection.  Credentials found in ordinary headers *)
(* are then moved to the secret store (migrateLegacyRequests).             *)
(***************************************************************************)
Load(w) ==
  LET headers == {r \in Requests : disk.auth[r] = "header"}
  IN /\ job[w].step \in {"closed", "idle"}
     /\ known' = [known EXCEPT ![w] = disk.revision]
     /\ memory' = [memory EXCEPT ![w] = disk.auth]
     /\ job' = [job EXCEPT ![w] = IF headers = {} THEN Idle
                                  ELSE Job("store", "create", headers, headers)]
     /\ UNCHANGED <<secrets, minted, disk, staged, disowned>>
     /\ abandoned' = (abandoned \cup Outdating(w, disk.auth)) \cap secrets

-----------------------------------------------------------------------------
(* Beginning a job *)

Begin(w, newJob) ==
  /\ job[w] = Idle
  /\ newJob.todo # {} => minted # Refs
  /\ disk.revision < MaxRevision
  /\ job' = [job EXCEPT ![w] = newJob]

RefOf(credential) == IF credential \in Refs THEN credential ELSE Nothing

(***************************************************************************)
(* A fault in configure, for NoLeak: a second configuration forgets what   *)
(* the first one was about to replace.                                     *)
(***************************************************************************)

PreviousOfLast(w, r) ==
  IF staged[w][r].new # Nothing THEN staged[w][r].new ELSE RefOf(memory[w][r])

(***************************************************************************)
(* The credential a save will replace, kept from the first stage on.       *)
(***************************************************************************)
PreviousOf(w, r) ==
  IF staged[w][r].prev # Nothing THEN staged[w][r].prev ELSE RefOf(memory[w][r])

Stage(w, r, ref) ==
  staged' = [staged EXCEPT ![w][r] =
               [set |-> TRUE, new |-> ref, prev |-> PreviousOf(w, r)]]

(***************************************************************************)
(* configureAuth, and a cURL import that recognises a credential.          *)
(***************************************************************************)
ConfigureAuth(w, r) ==
  /\ Begin(w, Job("store", "configure", {r}, {r}))
  /\ UNCHANGED <<secrets, minted, disk, known, memory, staged, abandoned, disowned>>

(***************************************************************************)
(* configureAuth to none: a secret staged before is deleted first.         *)
(***************************************************************************)
ConfigureNone(w, r) ==
  LET pending == staged[w][r].new # Nothing
  IN /\ Begin(w, IF pending THEN Job("swap", "configure", {r}, {}) ELSE Idle)
     /\ IF pending THEN UNCHANGED staged ELSE Stage(w, r, Nothing)
     /\ UNCHANGED <<secrets, minted, disk, known, memory, abandoned, disowned>>

(***************************************************************************)
(* saveRequest.  A credential typed as a header is staged first.           *)
(***************************************************************************)
SaveRequest(w, r) ==
  /\ \E typed \in SUBSET {r} :
       Begin(w, Job(IF typed = {} THEN "write" ELSE "store", "save", {r}, typed))
  /\ UNCHANGED <<secrets, minted, disk, known, memory, staged, abandoned, disowned>>

(***************************************************************************)
(* importDocument and duplicateCollection: new requests, some with a       *)
(* secret of their own.  A duplicate whose source secret is gone ends like *)
(* a failing store.  An import stages its secrets until it ends, which     *)
(* nobody else can see: they are in job.made here.                         *)
(***************************************************************************)
CreateRequests(w) ==
  /\ \E new \in SUBSET {r \in Requests : memory[w][r] = "absent" /\ ~staged[w][r].set} :
       \E authenticated \in SUBSET new :
         /\ new # {}
         /\ Begin(w, Job(IF authenticated = {} THEN "write" ELSE "store", "create",
                         new, authenticated))
  /\ UNCHANGED <<secrets, minted, disk, known, memory, staged, abandoned, disowned>>

(***************************************************************************)
(* deleteRequest, deleteFolder, deleteCollection; with nothing removed,    *)
(* every other change of the tree (rename, move, variables, ...).          *)
(***************************************************************************)
ChangeTree(w) ==
  /\ \E removed \in SUBSET {r \in Requests : memory[w][r] # "absent"} :
       Begin(w, Job("write", "change", removed, {}))
  /\ UNCHANGED <<secrets, minted, disk, known, memory, staged, abandoned, disowned>>

(***************************************************************************)
(* discardRequestChanges and cancelCurlImport (one request), or a new view *)
(* and the end of the extension (every request): the stages go at once,    *)
(* their secrets after that.                                               *)
(***************************************************************************)
Discard(w) ==
  /\ job[w] = Idle
  /\ \E rs \in {{r} : r \in Requests} \cup {Requests} :
       /\ \E r \in rs : staged[w][r].set
       /\ staged' = [staged EXCEPT ![w] = [r \in Requests |->
                       IF r \in rs THEN Unstaged ELSE staged[w][r]]]
       /\ job' = [job EXCEPT ![w] = Clean({staged[w][r].new : r \in rs} \cap Refs)]
  /\ UNCHANGED <<secrets, minted, disk, known, memory, abandoned, disowned>>

-----------------------------------------------------------------------------
(* The steps of a job, one for each await *)

(***************************************************************************)
(* What a job that makes a credential does once its stage is set.          *)
(***************************************************************************)
AfterStage(w) == IF job[w].does = "save" THEN "write" ELSE "idle"

Proceed(w, step, todo, made) ==
  IF step = "idle" THEN Idle ELSE Task(step, job[w].does, job[w].on, todo, made)

(***************************************************************************)
(* One secret is stored.  Created requests take theirs one after another;  *)
(* a configured one is staged, after the secret it staged before is gone.  *)
(***************************************************************************)
StoreSecret(w) ==
  /\ job[w].step = "store"
  /\ \E r \in job[w].todo, ref \in Refs \ minted :
       LET rest == job[w].todo \ {r}
           creates == job[w].does = "create"
           pending == staged[w][r].new # Nothing
       IN /\ secrets' = secrets \cup {ref} /\ minted' = minted \cup {ref}
          /\ IF creates \/ pending THEN UNCHANGED staged ELSE Stage(w, r, ref)
          /\ job' = [job EXCEPT ![w] = Proceed(w,
               IF rest # {} THEN "store" ELSE IF creates THEN "write"
                 ELSE IF pending THEN "swap" ELSE AfterStage(w),
               rest,
               IF creates \/ pending THEN [job[w].made EXCEPT ![r] = ref]
                 ELSE job[w].made)]
  /\ UNCHANGED <<disk, known, memory, abandoned, disowned>>

(***************************************************************************)
(* A secret cannot be stored.  Those already made are removed; what was    *)
(* staged before stays staged.                                             *)
(***************************************************************************)
StoreFails(w) ==
  /\ job[w].step = "store" /\ "store" \in Faults
  /\ job' = [job EXCEPT ![w] = Clean(MadeRefs(w))]
  /\ UNCHANGED <<secrets, minted, disk, known, memory, staged, abandoned, disowned>>

(***************************************************************************)
(* The secret staged before is deleted and the stage replaced.             *)
(***************************************************************************)
SwapSecret(w) ==
  /\ job[w].step = "swap"
  /\ \E r \in job[w].on :
       /\ secrets' = secrets \ {staged[w][r].new}
       /\ Stage(w, r, job[w].made[r])
  /\ job' = [job EXCEPT ![w] = Proceed(w, AfterStage(w), {}, NothingMade)]
  /\ UNCHANGED <<minted, disk, known, memory, abandoned, disowned>>

SwapFails(w) ==
  /\ job[w].step = "swap" /\ "delete" \in Faults
  /\ job' = [job EXCEPT ![w] = Clean(MadeRefs(w))]
  /\ UNCHANGED <<secrets, minted, disk, known, memory, staged, abandoned, disowned>>

(***************************************************************************)
(* prepareForSave: the staged credential, or the one the request had.      *)
(***************************************************************************)
Prepared(w, r) ==
  LET credential == IF staged[w][r].set THEN staged[w][r].new ELSE RefOf(memory[w][r])
  IN IF credential = Nothing THEN "none" ELSE credential

(***************************************************************************)
(* The document a job writes: what the window remembers, changed for the   *)
(* requests the job is about.                                              *)
(***************************************************************************)
Written(w) == [r \in Requests |->
  IF r \notin job[w].on THEN memory[w][r]
  ELSE IF job[w].does = "save" THEN Prepared(w, r)
  ELSE IF job[w].does = "change" THEN "absent"
  ELSE IF job[w].made[r] = Nothing THEN "none" ELSE job[w].made[r]]

(***************************************************************************)
(* What is deleted after a commit: the credential a save replaced          *)
(* (commitSave), all that a removed request had (cleanupRemovedRequests).  *)
(***************************************************************************)
Superseded(w) ==
  LET on == job[w].on
      replaced == IF job[w].does = "save" THEN {staged[w][r].prev : r \in on}
                  ELSE IF job[w].does = "change" THEN {memory[w][r] : r \in on} ELSE {}
      unsaved == IF job[w].does = "change" THEN {staged[w][r].new : r \in on} ELSE {}
  IN ((replaced \ RefsIn(Written(w))) \cup unsaved) \cap Refs

Unstages(w) == IF job[w].does \in {"save", "change"} THEN job[w].on ELSE {}

(***************************************************************************)
(* A fault in write, for the check of OnlyNamedRequestsChange: no revision *)
(* check.                                                                  *)
(***************************************************************************)
IsCurrentAlways(w) == known[w] > 0

IsCurrent(w) == known[w] = disk.revision

(***************************************************************************)
(* The document is committed; memory follows, and stages end.              *)
(***************************************************************************)
Commit(w) ==
  /\ job[w].step = "write" /\ IsCurrent(w) /\ disk.revision < MaxRevision
  /\ disk' = [revision |-> disk.revision + 1, auth |-> Written(w)]
  /\ known' = [known EXCEPT ![w] = disk.revision + 1]
  /\ memory' = [memory EXCEPT ![w] = Written(w)]
  /\ staged' = [staged EXCEPT ![w] = [r \in Requests |->
                  IF r \in Unstages(w) THEN Unstaged ELSE staged[w][r]]]
  /\ job' = [job EXCEPT ![w] = Clean(Superseded(w))]
  /\ abandoned' = (abandoned \cup Outdating(w, Written(w))) \cap secrets
  /\ UNCHANGED <<secrets, minted, disowned>>

(***************************************************************************)
(* Faults in the handling of a failed write: a save finishes as if it had  *)
(* succeeded, a save removes its new secret and keeps the stage, and the   *)
(* memory is replaced before the write.                                    *)
(***************************************************************************)
UndoneAlsoReplaced(w) ==
  IF job[w].does = "save" THEN Superseded(w) ELSE MadeRefs(w)

UndoneAlsoStaged(w) ==
  IF job[w].does = "save" THEN {staged[w][r].new : r \in job[w].on} \cap Refs
  ELSE MadeRefs(w)

RememberedEarly(w) == Written(w)

(***************************************************************************)
(* After a failed write created requests lose their secrets, and a save    *)
(* keeps its stage for the next try.                                       *)
(***************************************************************************)
Undone(w) == MadeRefs(w)

Remembered(w) == memory[w]

(***************************************************************************)
(* The write is refused or fails before it reached the document.           *)
(***************************************************************************)
WriteFails(w) ==
  /\ job[w].step = "write"
  /\ ~IsCurrent(w) \/ "write" \in Faults
  /\ memory' = [memory EXCEPT ![w] = Remembered(w)]
  /\ job' = [job EXCEPT ![w] = Clean(Undone(w))]
  /\ UNCHANGED <<secrets, minted, disk, known, staged, abandoned, disowned>>

(***************************************************************************)
(* The document is in its place, but reading it again to verify it fails:  *)
(* the write is reported as failed (JsonFileStore.ts:522-530, 384-401).    *)
(***************************************************************************)
CommitReportedFailed(w) ==
  /\ job[w].step = "write" /\ IsCurrent(w) /\ "acknowledge" \in Faults
  /\ disk.revision < MaxMisreported
  /\ disk' = [revision |-> disk.revision + 1, auth |-> Written(w)]
  /\ job' = [job EXCEPT ![w] = Clean(Undone(w))]
  /\ abandoned' = (abandoned \cup (RefsIn(disk.auth) \ RefsIn(Written(w)))) \cap secrets
  /\ disowned' = disowned \cup (RefsIn(Written(w)) \ RefsIn(disk.auth))
  /\ UNCHANGED <<secrets, minted, known, memory, staged>>

(***************************************************************************)
(* Secrets are deleted in parallel; some of it may fail, and nobody tries  *)
(* again.                                                                  *)
(***************************************************************************)
DeleteSecrets(w) ==
  /\ job[w].step = "clean"
  /\ \E kept \in SUBSET job[w].drop :
       /\ kept # {} => "delete" \in Faults
       /\ secrets' = secrets \ (job[w].drop \ kept)
       /\ abandoned' = (abandoned \cup kept) \cap secrets'
  /\ job' = [job EXCEPT ![w] = Idle]
  /\ UNCHANGED <<minted, disk, known, memory, staged, disowned>>

(***************************************************************************)
(* The window ends, in the middle of a job or not.  Loading reopens it.    *)
(***************************************************************************)
Die(w) ==
  /\ job[w].step # "closed"
  /\ abandoned' = (abandoned \cup StagedRefs(w) \cup MadeRefs(w) \cup job[w].drop) \cap secrets
  /\ staged' = [staged EXCEPT ![w] = [r \in Requests |-> Unstaged]]
  /\ known' = [known EXCEPT ![w] = 0]
  /\ memory' = [memory EXCEPT ![w] = [r \in Requests |-> "absent"]]
  /\ job' = [job EXCEPT ![w] = Closed]
  /\ UNCHANGED <<secrets, minted, disk, disowned>>

Next == \E w \in Windows :
  \/ Load(w)
  \/ \E r \in Requests : ConfigureAuth(w, r) \/ ConfigureNone(w, r) \/ SaveRequest(w, r)
  \/ CreateRequests(w) \/ ChangeTree(w) \/ Discard(w)
  \/ StoreSecret(w) \/ StoreFails(w) \/ SwapSecret(w) \/ SwapFails(w)
  \/ Commit(w) \/ WriteFails(w) \/ CommitReportedFailed(w)
  \/ DeleteSecrets(w) \/ Die(w)

Spec == Init /\ [][Next]_vars

-----------------------------------------------------------------------------
(* Properties *)

(***************************************************************************)
(* A saved reference leads to a secret, unless a committed write was       *)
(* reported as failed: whatever else fails, dies or is saved by another    *)
(* window (AuthService's order: store the new secret, commit the           *)
(* reference, only then delete the old secret).                            *)
(***************************************************************************)
SavedUnlessDisowned == RefsIn(disk.auth) \ disowned \subseteq secrets

(***************************************************************************)
(* So does a staged one: what the user configured can be used for sending, *)
(* and saved by a later try, however often configuring or saving failed.   *)
(***************************************************************************)
StagedUnlessDisowned == \A w \in Windows : StagedRefs(w) \ disowned \subseteq secrets

(***************************************************************************)
(* No secret is left behind: each one belongs to a saved request, a stage  *)
(* or a job under way, or was lost in one of the ways `abandoned` lists.   *)
(***************************************************************************)
NoLeak ==
  secrets \subseteq
    RefsIn(disk.auth) \cup abandoned
      \cup UNION {StagedRefs(w) \cup MadeRefs(w) \cup job[w].drop : w \in Windows}

(***************************************************************************)
(* A window that knows the current revision remembers the current          *)
(* document, so "no remaining request refers to it" is asked of what is    *)
(* saved, also after failed writes.                                        *)
(***************************************************************************)
MemoryIsDisk == \A w \in Windows : known[w] = disk.revision => memory[w] = disk.auth

(***************************************************************************)
(* A write changes the credentials of the requests it is about and of no   *)
(* other: a window that lags behind neither brings back a plain header nor *)
(* a deleted request nor a replaced credential.                            *)
(***************************************************************************)
OnlyNamedRequestsChange ==
  [][\A r \in Requests : disk'.auth[r] # disk.auth[r] =>
       \E w \in Windows : job[w].step = "write" /\ r \in job[w].on]_vars

=============================================================================
