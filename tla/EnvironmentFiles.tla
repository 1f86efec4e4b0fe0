-------------------------- MODULE EnvironmentFiles --------------------------
(***************************************************************************)
(* Environments and the .env files they are imported from:                 *)
(* src/services/EnvironmentFileService.ts above the serialized changes of  *)
(* src/engine/variables/VariableSetManager.ts.                             *)
(*                                                                         *)
(* The user picks a file, reviews a preview of it and confirms it, for a   *)
(* new environment or in place of the variables of one.  A confirmed file  *)
(* may be watched; what it changes to is offered for review again.  The    *)
(* service keeps no lock between these steps: it compares digests,         *)
(* revisions (set.updated), object identities and its generation.          *)
(*                                                                         *)
(* One file is modelled.  A value stands for what the file, or the list of *)
(* variables of an environment, holds; its digest is the value itself.     *)
(* The preview of a file with diagnostics can only be dismissed, which any *)
(* preview may be here.                                                    *)
(***************************************************************************)
EXTENDS Integers, Sequences, FiniteSets, Functions, InsertionOrder

CONSTANTS
  Environments,    \* ids randomUUID gives to environments
  Values,          \* contents of the file, and lists of variables
  PreviewLimit,    \* previews remember keeps
  PreviewIds,      \* ids randomUUID gives to previews; one comes back when nothing refers to it,
                   \* bound: enough of them that there is one
  MaxEvents        \* bound: confirmations and operations of the panel, changes of the file,
                   \* writes that fail and new views, together

New == "a new environment"     \* no target: confirm creates one
Unreadable == "unreadable"
Unread == "unread"             \* the read of the file has not got its contents yet
NoDraft == [revision |-> 0, seen |-> Unreadable]
None == "no environment"
NoId == 0
NoWatch == [id |-> NoId, view |-> 0, value |-> Unreadable, turn |-> 0]

ASSUME PreviewsAreKept == PreviewLimit \in Nat \ {0} /\ MaxEvents \in Nat
ASSUME NamesAreProper ==
  NoId \notin PreviewIds /\ New \notin Environments /\ {Unreadable, Unread} \cap Values = {}

VARIABLES
  sets,        \* the environments of VariableSetManager, and those deleted
  active,      \* the environment selected, if any
  file,        \* contents of the file
  choosing,    \* calls of preview whose dialog is open
  staging,     \* calls of stage that wait for the file
  previews,    \* this.previews, in the order of the Map
  confirms,    \* calls of applyPreview that read the file again
  writes,      \* the queue of VariableSetManager
  watches,     \* this.watches
  notify,      \* environments whose watcher has a change to report
  view,        \* this.generation
  drafts,      \* page: environments being edited
  events,      \* number of events so far
  imports      \* history: how often each preview was imported

envVars == <<sets, active, file, choosing, staging, previews, confirms, writes,
             watches, notify, view, drafts, events, imports>>

Targets == Environments \cup {New}
Revisions == Nat
Seen == Values \cup {Unreadable}

Stored == {e \in Environments : sets[e].state = "stored"}

SetType == [state : {"unused", "stored", "deleted"}, vars : Values, updated : Revisions]
StageType == [view : Nat, target : Targets, revision : Revisions, seen : Seen,
              entry : PreviewIds \cup {NoId}, turn : Nat, value : Seen \cup {Unread}]
PreviewType == [id : PreviewIds, view : Nat, target : Targets, revision : Revisions, seen : Seen,
                value : Values]
ConfirmType == [preview : PreviewType, view : Nat, watch : BOOLEAN]
PanelType == [kind : {"update", "select", "delete"}, env : Environments, vars : Values,
              revision : Revisions, seen : Seen]
ImportType == [kind : {"import"}, env : Targets, vars : Values, revision : Revisions, seen : Seen,
               confirm : ConfirmType]
WatchType == [id : PreviewIds, view : Nat, value : Values, turn : Nat]

EnvTypeOK ==
  /\ sets \in [Environments -> SetType] /\ active \in Stored \cup {None}
  /\ file \in Seen /\ choosing \subseteq [view : Nat, target : Targets]
  /\ staging \subseteq StageType /\ confirms \subseteq ConfirmType
  /\ previews \in Seq(PreviewType) /\ Len(previews) <= PreviewLimit
  /\ writes \in Seq(PanelType \cup ImportType)
  /\ watches \in [Environments -> WatchType \cup {NoWatch}] /\ notify \subseteq Environments
  /\ drafts \in [Environments -> [revision : Revisions, seen : Seen]]
  /\ view \in Nat /\ events \in 0 .. MaxEvents /\ imports \in [PreviewIds -> Nat]

EnvInit ==
  /\ \E stored \in SUBSET Environments, v \in Values :
       /\ Cardinality(stored) <= 1
       /\ sets = [e \in Environments |->
            [state |-> IF e \in stored THEN "stored" ELSE "unused", vars |-> v, updated |-> 0]]
  /\ active = None /\ file \in Values /\ view = 1
  /\ choosing = {} /\ staging = {} /\ previews = <<>> /\ confirms = {} /\ writes = <<>>
  /\ watches = [e \in Environments |-> NoWatch] /\ notify = {}
  /\ drafts = [e \in Environments |-> NoDraft]
  /\ events = 0
  /\ imports = [i \in PreviewIds |-> 0]

Event == events < MaxEvents /\ events' = events + 1
-----------------------------------------------------------------------------
(* Previews *)

\* stop: the previews of a target go with its watch.
PreviewsOfOthers(e) == Kept(previews, {p \in Range(previews) : p.target # e})
Without(i) == Kept(previews, {p \in Range(previews) : p.id # i})

\* remember: the oldest previews make room.
Remembered(kept, p) == Append(IF Len(kept) >= PreviewLimit THEN Tail(kept) ELSE kept, p)

\* The preview made of what a call of stage read; its id is one nothing refers to.
Forgotten(i) ==
  /\ \A p \in Range(previews) : p.id # i
  /\ \A c \in confirms \cup {w.confirm : w \in {x \in Range(writes) : x.kind = "import"}} :
       c.preview.id # i
  /\ \A e \in Environments : watches[e].id # i
  /\ \A s \in staging : s.entry # i
Offered(kept, s) ==
  /\ \E i \in PreviewIds : Forgotten(i)
  /\ LET i == CHOOSE x \in PreviewIds : Forgotten(x)
     IN /\ previews' = Remembered(kept, [id |-> i, view |-> s.view, target |-> s.target,
                          revision |-> s.revision, seen |-> s.seen, value |-> s.value])
        /\ imports' = [imports EXCEPT ![i] = 0]

\* stage looks the environment up, and takes its revision, before it reads the file.
Stage(v, e, entry, turn) ==
  [view |-> v, target |-> e, entry |-> entry, turn |-> turn, value |-> Unread,
   revision |-> IF e = New THEN 0 ELSE sets[e].updated,
   seen |-> IF e = New THEN Unreadable ELSE sets[e].vars]
CanStage(e) == e \in Stored \cup {New}

\* The page offers no replacement of variables that have unsaved edits.
Unedited(e) == e # New => drafts[e] = NoDraft

\* previewEnvFile: the dialog opens, for a new environment or one on the page.
ChooseFile(e) ==
  /\ CanStage(e) /\ Unedited(e)
  /\ choosing = {} /\ \A s \in staging : s.entry # NoId
  /\ choosing' = {[view |-> view, target |-> e]}
  /\ UNCHANGED <<sets, active, file, staging, previews, confirms, writes, watches,
                 notify, view, drafts, events, imports>>

\* A file was chosen.  The page may have been replaced, or the environment deleted, meanwhile.
FileChosen(c) ==
  /\ c \in choosing /\ choosing' = choosing \ {c}
  /\ staging' = IF c.view = view /\ CanStage(c.target)
                THEN staging \cup {Stage(c.view, c.target, NoId, 0)} ELSE staging
  /\ UNCHANGED <<sets, active, file, previews, confirms, writes, watches, notify,
                 view, drafts, events, imports>>

\* The contents are there; until the caller goes on, with the file closed and its digest
\* computed, other calls and changes of the file may come first.
ReadFile(s) ==
  /\ s \in staging /\ s.value = Unread
  /\ staging' = (staging \ {s}) \cup {[s EXCEPT !.value = file]}
  /\ UNCHANGED <<sets, active, file, choosing, previews, confirms, writes, watches, notify,
                 view, drafts, events, imports>>

\* preview: what was read for a page that is gone is dropped.
SameView(s) == s.view = view

\* The end of the read preview waits for; a file that cannot be read only gives an error.
PreviewRead(s) ==
  /\ s \in staging /\ s.entry = NoId /\ s.value # Unread /\ staging' = staging \ {s}
  /\ IF s.value # Unreadable /\ SameView(s)
     THEN Offered(previews, s)
     ELSE UNCHANGED <<previews, imports>>
  /\ UNCHANGED <<sets, active, file, choosing, confirms, writes, watches, notify, view,
                 drafts, events>>

CancelImport(i) ==
  /\ \E p \in Range(previews) : p.id = i
  /\ Event /\ previews' = Without(i)
  /\ UNCHANGED <<sets, active, file, choosing, staging, confirms, writes, watches,
                 notify, view, drafts, imports>>
-----------------------------------------------------------------------------
(* Confirming a preview *)

Confirming == {c.preview.id : c \in confirms}
                \cup {w.confirm.preview.id : w \in {x \in Range(writes) : x.kind = "import"}}

\* Planted fault: a preview may be confirmed again while it is being imported.
Unguarded(i) == TRUE
\* confirm: one call per preview at a time.
NotConfirming(i) == i \notin Confirming

ConfirmImport(p, watch) ==
  /\ p \in Range(previews) /\ NotConfirming(p.id) /\ Unedited(p.target)
  /\ Event /\ Cardinality(confirms) + Len(writes) < 2
  /\ confirms' = confirms \cup {[preview |-> p, view |-> view, watch |-> watch]}
  /\ UNCHANGED <<sets, active, file, choosing, staging, previews, writes, watches,
                 notify, view, drafts, imports>>

\* applyPreview: the file, the preview and the environment are those the user reviewed.
StillAsReviewed(c) ==
  /\ file = c.preview.value /\ c.view = view /\ c.preview \in Range(previews)
  /\ c.preview.target # New => /\ c.preview.target \in Stored
                               /\ sets[c.preview.target].updated = c.preview.revision

ConfirmRead(c) ==
  /\ c \in confirms /\ confirms' = confirms \ {c}
  /\ writes' = IF StillAsReviewed(c)
               THEN Append(writes, [kind |-> "import", env |-> c.preview.target,
                      vars |-> c.preview.value, revision |-> c.preview.revision,
                      seen |-> c.preview.seen, confirm |-> c])
               ELSE writes
  /\ UNCHANGED <<sets, active, file, choosing, staging, previews, watches, notify,
                 view, drafts, events, imports>>
-----------------------------------------------------------------------------
(* Operations of the panel, and the queue of VariableSetManager *)

PanelWrite(kind, e) == [kind |-> kind, env |-> e, vars |-> sets[e].vars,
                        revision |-> drafts[e].revision, seen |-> drafts[e].seen]
CanAsk == Event /\ Cardinality(confirms) + Len(writes) < 2

\* An edit keeps, in environmentDrafts, the environment it began from.
EditEnvironment(e) ==
  /\ e \in Stored /\ drafts[e] = NoDraft
  /\ drafts' = [drafts EXCEPT ![e] = [revision |-> sets[e].updated, seen |-> sets[e].vars]]
  /\ UNCHANGED <<sets, active, file, choosing, staging, previews, confirms, writes,
                 watches, notify, view, events, imports>>

SaveEnvironment(e, v) ==
  /\ drafts[e] # NoDraft /\ v # drafts[e].seen /\ CanAsk
  /\ writes' = Append(writes, [PanelWrite("update", e) EXCEPT !.vars = v])
  /\ UNCHANGED <<sets, active, file, choosing, staging, previews, confirms, watches,
                 notify, view, drafts, imports>>

\* deleteVariableSet, and selectEnvironment.
AskFor(kind, e) ==
  /\ e \in Stored /\ CanAsk
  /\ writes' = Append(writes, PanelWrite(kind, e))
  /\ UNCHANGED <<sets, active, file, choosing, staging, previews, confirms, watches,
                 notify, view, drafts, imports>>

\* mutate and selectEnvironment: Math.max(Date.now(), set.updated + 1) is always a later revision.
Touched(u) == u + 1
Revised(set, vars) == [state |-> set.state, vars |-> vars, updated |-> Touched(set.updated)]

\* Planted fault: an update is taken whatever it was based on.
AcceptsAny(w) == w.env \in Stored
\* update: of an environment, only an edit of its present revision.
Accepts(w) == w.env \in Stored /\ sets[w.env].updated = w.revision

\* changed(): a newer call makes the answer of an older one worthless.
Watching(e, entry) == [watches EXCEPT ![e] = [entry EXCEPT !.turn = @ + 1]]
Reread(entry, e) == Stage(entry.view, e, entry.id, entry.turn + 1)

\* Planted fault: the watcher is installed and waits for a first change.
InstallsQuietly(e, entry, staged) ==
  watches' = [watches EXCEPT ![e] = entry] /\ staging' = staging
\* applyPreview: after installing the watcher the file is read once more.
Installs(e, entry, staged) ==
  watches' = Watching(e, entry) /\ staging' = staging \cup {staged}

WatchesFile(c) == c.watch /\ c.view = view

\* The rest of applyPreview once the import into e is stored: stop, and watch if asked to.
Imported(e, c) ==
  LET entry == [id |-> c.preview.id, view |-> c.view, value |-> c.preview.value, turn |-> 0]
      staged == [view |-> c.view, target |-> e, entry |-> entry.id, turn |-> 1, value |-> Unread,
                 revision |-> sets'[e].updated, seen |-> sets'[e].vars]
  IN /\ previews' = Kept(previews, {p \in Range(previews) : p.id # c.preview.id /\ p.target # e})
     /\ imports' = [imports EXCEPT ![c.preview.id] = @ + 1]
     /\ notify' = notify \ {e}
     /\ IF WatchesFile(c) THEN Installs(e, entry, staged)
        ELSE watches' = [watches EXCEPT ![e] = NoWatch] /\ staging' = staging

\* stop: the watcher is disposed of and the previews of the environment are dropped.
Stops(e) ==
  /\ watches' = [watches EXCEPT ![e] = NoWatch] /\ notify' = notify \ {e}
  /\ previews' = PreviewsOfOthers(e)

CommitImport(w) ==
  /\ w.kind = "import"
  /\ IF w.env = New
     THEN \E e \in Environments :
            /\ sets[e].state = "unused"
            /\ sets' = [sets EXCEPT ![e] = [state |-> "stored", vars |-> w.vars, updated |-> 0]]
            /\ Imported(e, w.confirm)
     ELSE /\ Accepts(w)
          /\ sets' = [sets EXCEPT ![w.env] = Revised(sets[w.env], w.vars)]
          /\ Imported(w.env, w.confirm)
  /\ UNCHANGED <<active, drafts>>

CommitUpdate(w) ==
  /\ w.kind = "update" /\ Accepts(w)
  /\ sets' = [sets EXCEPT ![w.env] = Revised(sets[w.env], w.vars)]
  /\ drafts' = [drafts EXCEPT ![w.env] = NoDraft]
  /\ UNCHANGED <<active, staging, previews, watches, notify, imports>>

\* selectEnvironment: revises the environments that begin or cease to be active; choosing the
\* active one stands for choosing none.
CommitSelect(w) ==
  /\ w.kind = "select" /\ w.env \in Stored
  /\ active' = IF active = w.env THEN None ELSE w.env
  /\ sets' = [e \in Environments |-> IF e \in {active, w.env}
                 THEN [sets[e] EXCEPT !.updated = Touched(@)] ELSE sets[e]]
  /\ UNCHANGED <<staging, previews, watches, notify, drafts, imports>>

\* deleteVariableSet: the watch stops once the environment is gone from the store.
CommitDelete(w) ==
  /\ w.kind = "delete" /\ w.env \in Stored
  /\ sets' = [sets EXCEPT ![w.env].state = "deleted"]
  /\ drafts' = [drafts EXCEPT ![w.env] = NoDraft]
  /\ active' = IF active = w.env THEN None ELSE active
  /\ Stops(w.env)
  /\ UNCHANGED <<staging, imports>>

Commit ==
  /\ writes # <<>> /\ writes' = Tail(writes)
  /\ LET w == Head(writes) IN CommitImport(w) \/ CommitUpdate(w) \/ CommitSelect(w) \/ CommitDelete(w)
  /\ UNCHANGED <<file, choosing, confirms, view, events>>

\* The operation is refused or finds nothing to delete, or its write fails: the environments stay as they were.
Refused(w) == \/ w.kind = "update" /\ ~Accepts(w)
              \/ w.kind = "import" /\ w.env # New /\ ~Accepts(w)
              \/ w.kind \in {"select", "delete"} /\ w.env \notin Stored
WriteEndsInVain ==
  /\ writes # <<>> /\ writes' = Tail(writes)
  /\ IF Refused(Head(writes)) THEN UNCHANGED events ELSE Event
  /\ UNCHANGED <<sets, active, file, choosing, staging, previews, confirms, watches,
                 notify, view, drafts, imports>>
-----------------------------------------------------------------------------
(* The file, its watchers, and the page *)

\* External: the file is rewritten, removed or becomes readable again.
FileChanges(v) ==
  /\ v # file /\ Event
  /\ file' = v /\ notify' = {e \in Environments : watches[e] # NoWatch}
  /\ UNCHANGED <<sets, active, choosing, staging, previews, confirms, writes, watches,
                 view, drafts, imports>>

\* changed(), called by watchFile; without the environment it only reports an error.
WatchFires(e) ==
  /\ e \in notify /\ notify' = notify \ {e}
  /\ watches' = Watching(e, watches[e])
  /\ staging' = IF CanStage(e) THEN staging \cup {Reread(watches[e], e)} ELSE staging
  /\ UNCHANGED <<sets, active, file, choosing, previews, confirms, writes, view,
                 drafts, events, imports>>

\* changed(): the watch is still installed and no newer change was reported.
Offers(s) == watches[s.target].id = s.entry /\ watches[s.target].turn = s.turn

\* The end of the read changed() waits for: what differs is offered in place of older previews.
ChangeRead(s) ==
  /\ s \in staging /\ s.entry # NoId /\ s.value # Unread /\ staging' = staging \ {s}
  /\ IF /\ s.value # Unreadable /\ Offers(s) /\ s.value # watches[s.target].value
     THEN /\ watches' = [watches EXCEPT ![s.target].value = s.value]
          /\ Offered(PreviewsOfOthers(s.target), s)
     ELSE UNCHANGED <<watches, previews, imports>>
  /\ UNCHANGED <<sets, active, file, choosing, confirms, writes, notify, view, drafts, events>>

StopWatch(e) ==
  /\ watches[e] # NoWatch /\ Event /\ Stops(e)
  /\ UNCHANGED <<sets, active, file, choosing, staging, confirms, writes, view,
                 drafts, imports>>

\* resetForNewView: the page is replaced.
NewView ==
  /\ Event /\ view' = view + 1
  /\ previews' = <<>> /\ watches' = [e \in Environments |-> NoWatch] /\ notify' = {}
  /\ drafts' = [e \in Environments |-> NoDraft]
  /\ UNCHANGED <<sets, active, file, choosing, staging, confirms, writes, imports>>

EnvNext ==
  \/ \E e \in Targets : ChooseFile(e)
  \/ \E c \in choosing : FileChosen(c)
  \/ \E s \in staging : ReadFile(s) \/ PreviewRead(s) \/ ChangeRead(s)
  \/ \E i \in PreviewIds : CancelImport(i)
  \/ \E p \in Range(previews), watch \in BOOLEAN : ConfirmImport(p, watch)
  \/ \E c \in confirms : ConfirmRead(c)
  \/ \E e \in Environments : EditEnvironment(e) \/ StopWatch(e) \/ WatchFires(e)
  \/ \E e \in Environments, v \in Values : SaveEnvironment(e, v)
  \/ \E e \in Environments, kind \in {"select", "delete"} : AskFor(kind, e)
  \/ Commit \/ WriteEndsInVain
  \/ \E v \in Values \cup {Unreadable} : FileChanges(v)
  \/ NewView
-----------------------------------------------------------------------------
(* Properties *)

\* What a write replaces is what its author saw: an edit of the panel and a confirmed import
\* never overwrite variables that were changed after the edit began or the preview was made,
\* although nothing is locked between (update, lines 69-75; applyPreview, lines 65-70).
NothingUnseenIsReplaced ==
  [][\A e \in Environments :
       e \in Stored /\ sets[e].state = sets'[e].state /\ sets'[e].vars # sets[e].vars
         => Head(writes).seen = sets[e].vars]_envVars

\* A preview is imported at most once, however often it is confirmed.
ImportedOnce == \A i \in PreviewIds : imports[i] <= 1

\* No preview and no watch is left of a page that was replaced, in particular none that a call
\* made for that page finishes after the reset.
NothingOutlivesTheView ==
  /\ \A p \in Range(previews) : p.view = view
  /\ \A e \in Environments : watches[e] # NoWatch => watches[e].view = view

\* Only stored environments are watched: deleting one stops its watch, also when an import
\* that was to install it was confirmed before.
OnlyStoredAreWatched == \A e \in Environments : watches[e] # NoWatch => e \in Stored

\* A watch misses nothing: with no report and no read of it under way, what the file holds,
\* from the moment of the confirmed read on, was imported or has been offered for review.
WatchIsUpToDate ==
  \A e \in Environments :
    /\ watches[e] # NoWatch /\ file # Unreadable /\ e \notin notify
    /\ ~\E s \in staging : s.entry = watches[e].id /\ s.turn = watches[e].turn
    => watches[e].value = file
=============================================================================
