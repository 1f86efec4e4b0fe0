----------------------------- MODULE RequestTabs -----------------------------
(***************************************************************************)
(* Request tabs: opening, editing, saving, closing and removing the        *)
(* requests of the page (webview-ui/src/App.tsx and useRequestStore.ts),   *)
(* with the handlers of the extension host that answer.                    *)
(*                                                                         *)
(* A draft is two values: what the user types, called text here, and the   *)
(* public part of its authentication (0: none).  An update of either is    *)
(* one step.  The handlers work in the order of the messages, because each *)
(* waits for the queue of CollectionService; only getRequest does not wait.*)
(* Flushing the variables before a save or a close (VariableAutosave) is a *)
(* step that succeeds or fails.  Executions, bodies and files of a tab are *)
(* in RequestExecution and RequestFiles; one more tab than those modelled  *)
(* is taken to be open, so that closing one never opens an empty draft.    *)
(***************************************************************************)
EXTENDS Integers, Sequences, FiniteSets

CONSTANTS
  Tabs,         \* tabs that can be open
  Requests,     \* ids of requests
  Collections,  \* ids of collections
  Home,         \* requests stored at first, and their collection
  Texts,        \* what a user types
  Auths,        \* what a user applies
  MaxEdits,     \* bound: changes typed or chosen
  MaxClicks,    \* bound: actions of the user that post a message
  MaxFailures   \* bound: handlers and flushes that fail, and answers that come too late

Nowhere == "nowhere"  \* of a request in no collection
NoStage == -1
NoRequest == "none"   \* of a tab that is not open
Places == Collections \cup {Nowhere}

ASSUME HomeIsAPlacing == DOMAIN Home \subseteq Requests /\ \A r \in DOMAIN Home : Home[r] \in Collections
ASSUME TabBounds == {MaxEdits, MaxClicks, MaxFailures} \subseteq Nat
ASSUME NamesAreApart == Nowhere \notin Collections /\ NoRequest \notin Requests /\ "none" \notin Tabs
ASSUME ValuesAreNumbers == Texts \subseteq Nat /\ Auths \subseteq Nat /\ 0 \in Texts /\ 0 \in Auths

VARIABLES
  tab,        \* page: the tabs
  saving,     \* page: the save under way in each tab
  closing,    \* page: what closes each tab
  dialog,     \* page: the tab a confirmation asks about, and for what
  tree,       \* page: the collection each request is shown in
  submitted,  \* page: saveSnapshots, by operation
  loads,      \* page: loadOperations
  ops,        \* operations so far
  jobs,       \* host: messages waiting for the queue
  reads,      \* host: getRequest messages
  toPage,     \* messages on their way to the page
  stored,     \* host: the saved requests
  staged,     \* host: credentials configured and not saved, or NoStage
  typed,      \* history: the text the user last typed or loaded in each tab
  closed,     \* history: why the latest tab was closed, and whether what it showed was stored
  edits, clicks, failures, timeouts

tabVars == <<tab, saving, closing, dialog, tree, submitted, loads, ops, jobs, reads, toPage,
             stored, staged, typed, closed, edits, clicks, failures, timeouts>>
bounded == <<edits, clicks, failures, timeouts>>
hostState == <<stored, staged>>

ClosedTab ==
  [request |-> NoRequest, text |-> 0, auth |-> 0, place |-> Nowhere, baseText |-> 0, baseAuth |-> 0,
   basePlace |-> Nowhere, authPending |-> FALSE, authRevision |-> 0, authUpdate |-> 0,
   loading |-> FALSE, loadFailed |-> FALSE]
NotSaving == [stage |-> "none", op |-> 0]
NotClosing == [stage |-> "none", why |-> "none", op |-> 0]
NoDialog == [tab |-> "none", why |-> "none"]
NotStored == [place |-> Nowhere, text |-> 0, auth |-> 0]
NothingClosed == [why |-> "none", text |-> TRUE, auth |-> TRUE]

TabType ==
  [request : Requests \cup {NoRequest}, text : Texts, auth : Auths, place : Places, baseText : Texts,
   baseAuth : Auths, basePlace : Places, authPending : BOOLEAN, authRevision : Nat, authUpdate : Nat,
   loading : BOOLEAN, loadFailed : BOOLEAN]
JobType ==
  [kind : {"save", "configure", "discard", "delete", "move"}, op : Nat, request : Requests, place : Places,
   text : Texts, auth : Auths]
ReadType == [op : Nat, request : Requests]
MessageType ==
  [kind : {"collections", "saved", "auth", "loaded", "reply"}, op : Nat, request : Requests, ok : BOOLEAN,
   places : {<<>>} \cup [Requests -> Places], text : Texts, auth : Auths, pending : BOOLEAN]
SnapshotType ==
  [op : Nat, tab : Tabs, request : Requests, text : Texts, auth : Auths, authRevision : Nat, place : Places]
Stages == {"none", "flushing", "saving", "releasing", "discarding", "removing"}
Whys == {"none", "silent", "discard", "save", "remove"}

TabsTypeOK ==
  /\ tab \in [Tabs -> TabType]
  /\ saving \in [Tabs -> [stage : {"none", "flushing", "auth", "ready", "posted"}, op : Nat]]
  /\ closing \in [Tabs -> [stage : Stages, why : Whys, op : Nat]]
  /\ dialog \in [tab : Tabs \cup {"none"}, why : {"none", "close", "remove"}]
  /\ tree \in [Requests -> Places] /\ staged \in [Requests -> Auths \cup {NoStage}]
  /\ stored \in [Requests -> [place : Places, text : Texts, auth : Auths]]
  /\ submitted \subseteq SnapshotType /\ loads \subseteq [op : Nat, tab : Tabs]
  /\ jobs \in Seq(JobType) /\ reads \in Seq(ReadType) /\ toPage \in Seq(MessageType)
  /\ ops \in Nat /\ typed \in [Tabs -> Texts] /\ closed \in [why : Whys, text : BOOLEAN, auth : BOOLEAN]
  /\ edits \in 0 .. MaxEdits /\ clicks \in 0 .. MaxClicks
  /\ failures \in Nat /\ timeouts \in Nat /\ failures + timeouts <= MaxFailures

TabsInit ==
  /\ tab = [t \in Tabs |-> ClosedTab] /\ saving = [t \in Tabs |-> NotSaving]
  /\ closing = [t \in Tabs |-> NotClosing] /\ dialog = NoDialog
  /\ stored = [r \in Requests |-> IF r \in DOMAIN Home THEN [NotStored EXCEPT !.place = Home[r]] ELSE NotStored]
  /\ tree = [r \in Requests |-> stored[r].place] /\ staged = [r \in Requests |-> NoStage]
  /\ submitted = {} /\ loads = {} /\ ops = 0 /\ jobs = <<>> /\ reads = <<>> /\ toPage = <<>>
  /\ typed = [t \in Tabs |-> 0] /\ closed = NothingClosed
  /\ edits = 0 /\ clicks = 0 /\ failures = 0 /\ timeouts = 0

(***************************************************************************)
(* What a tab shows.                                                       *)
(***************************************************************************)
IsOpen(t) == tab[t].request # NoRequest
Dirty(x) ==
  \/ x.authPending \/ x.authUpdate # 0 \/ x.place # x.basePlace
  \/ x.text # x.baseText \/ x.auth # x.baseAuth
Editing(t) ==
  /\ IsOpen(t) /\ ~tab[t].loading /\ ~tab[t].loadFailed
  /\ closing[t].stage = "none" /\ dialog = NoDialog
Showing(r) == {t \in Tabs : tab[t].request = r}

Clicked == clicks < MaxClicks /\ clicks' = clicks + 1
Edited == edits < MaxEdits /\ edits' = edits + 1
Fails == failures + timeouts < MaxFailures /\ failures' = failures + 1

Job(kind, r, x) ==
  [kind |-> kind, op |-> ops + 1, request |-> r, place |-> x.place, text |-> x.text, auth |-> x.auth]
Post(kind, r, x) == ops' = ops + 1 /\ jobs' = Append(jobs, Job(kind, r, x))

(***************************************************************************)
(* The user opens, edits and saves.                                        *)
(***************************************************************************)
Load(t) ==
  /\ ops' = ops + 1 /\ loads' = loads \cup {[op |-> ops + 1, tab |-> t]}
  /\ reads' = Append(reads, [op |-> ops + 1, request |-> tab'[t].request])

\* openSavedRequest: a request that is open already is only brought to the front
OpenSaved(t, r) ==
  /\ Clicked /\ dialog = NoDialog /\ ~IsOpen(t) /\ Showing(r) = {} /\ tree[r] # Nowhere
  /\ tab' = [tab EXCEPT ![t] = [ClosedTab EXCEPT !.request = r, !.place = tree[r], !.basePlace = tree[r],
                                                 !.loading = TRUE]]
  /\ Load(t) /\ typed' = [typed EXCEPT ![t] = 0]
  /\ UNCHANGED <<saving, closing, dialog, tree, submitted, jobs, toPage, hostState, closed, edits, failures, timeouts>>

RetryLoad(t) ==
  /\ Clicked /\ dialog = NoDialog /\ tab[t].loadFailed /\ closing[t].stage = "none"
  /\ tab' = [tab EXCEPT ![t].loading = TRUE, ![t].loadFailed = FALSE]
  /\ Load(t)
  /\ UNCHANGED <<saving, closing, dialog, tree, submitted, jobs, toPage, hostState, typed, closed, edits, failures, timeouts>>

NewDraft(t, r, c) ==
  /\ Edited /\ dialog = NoDialog /\ ~IsOpen(t) /\ Showing(r) = {} /\ r \notin DOMAIN Home /\ stored[r] = NotStored
  /\ tree[r] = Nowhere
  /\ tab' = [tab EXCEPT ![t] = [ClosedTab EXCEPT !.request = r, !.place = c, !.basePlace = c]]
  /\ typed' = [typed EXCEPT ![t] = 0]
  /\ UNCHANGED <<saving, closing, dialog, tree, submitted, loads, ops, jobs, reads, toPage, hostState, closed, clicks, failures, timeouts>>

Type(t, v) ==
  /\ Edited /\ Editing(t) /\ v # tab[t].text
  /\ tab' = [tab EXCEPT ![t].text = v] /\ typed' = [typed EXCEPT ![t] = v]
  /\ UNCHANGED <<saving, closing, dialog, tree, submitted, loads, ops, jobs, reads, toPage, hostState, closed, clicks, failures, timeouts>>

Choose(t, c) ==
  /\ Edited /\ Editing(t) /\ c # tab[t].place
  /\ tab' = [tab EXCEPT ![t].place = c]
  /\ UNCHANGED <<saving, closing, dialog, tree, submitted, loads, ops, jobs, reads, toPage, hostState, typed, closed, clicks, failures, timeouts>>

ApplyAuth(t, a) ==
  /\ Clicked /\ Editing(t)
  /\ Post("configure", tab[t].request, [tab[t] EXCEPT !.auth = a])
  /\ tab' = [tab EXCEPT ![t].authUpdate = ops + 1]
  /\ UNCHANGED <<saving, closing, dialog, tree, submitted, loads, reads, toPage, hostState, typed, closed, edits, failures, timeouts>>

PressSave(t) ==
  /\ Clicked /\ Editing(t) /\ saving[t] = NotSaving /\ tab[t].place # Nowhere
  /\ saving' = [saving EXCEPT ![t].stage = "flushing"]
  /\ UNCHANGED <<tab, closing, dialog, tree, submitted, loads, ops, jobs, reads, toPage, hostState, typed, closed, edits, failures, timeouts>>

(***************************************************************************)
(* saveRequestTab.  Whoever waits for a save learns how it ended; a close  *)
(* that waits goes on when nothing newer is left to save.                  *)
(***************************************************************************)
Reopened == NotClosing
\* faults: the close waits for ever when its save fails; newer changes are not looked for
ClosingAfterGoodSave(t, ok) ==
  IF closing[t].stage = "saving" /\ ok /\ ~Dirty(tab[t])
  THEN [closing[t] EXCEPT !.stage = "releasing"] ELSE closing[t]
ClosingAfterAnySave(t, ok) ==
  IF closing[t].stage # "saving" THEN closing[t]
  ELSE IF ok THEN [closing[t] EXCEPT !.stage = "releasing"] ELSE Reopened
ClosingAfterSave(t, ok) ==
  IF closing[t].stage # "saving" THEN closing[t]
  ELSE IF ok /\ ~Dirty(tab[t]) THEN [closing[t] EXCEPT !.stage = "releasing"] ELSE Reopened
SaveEnds(t, ok) ==
  /\ saving' = [saving EXCEPT ![t] = NotSaving]
  /\ closing' = [closing EXCEPT ![t] = ClosingAfterSave(t, ok)]

SaveFlushed(t) ==
  /\ saving[t].stage = "flushing"
  /\ saving' = [saving EXCEPT ![t] = IF tab[t].authUpdate = 0 THEN [stage |-> "ready", op |-> 0]
                                     ELSE [stage |-> "auth", op |-> tab[t].authUpdate]]
  /\ UNCHANGED <<tab, closing, dialog, tree, submitted, loads, ops, jobs, reads, toPage, hostState, typed, closed, bounded>>

SaveFlushFails(t) ==
  /\ saving[t].stage = "flushing" /\ Fails /\ SaveEnds(t, FALSE)
  /\ UNCHANGED <<tab, dialog, tree, submitted, loads, ops, jobs, reads, toPage, hostState, typed, closed, edits, clicks, timeouts>>

CanSave(t) == ~tab[t].loading /\ ~tab[t].loadFailed /\ tab[t].place # Nowhere
SaveRefused(t) ==
  /\ saving[t].stage = "ready" /\ ~CanSave(t) /\ SaveEnds(t, FALSE)
  /\ UNCHANGED <<tab, dialog, tree, submitted, loads, ops, jobs, reads, toPage, hostState, typed, closed, bounded>>

PostSave(t) ==
  /\ saving[t].stage = "ready" /\ CanSave(t)
  /\ Post("save", tab[t].request, tab[t])
  /\ submitted' = submitted \cup {[op |-> ops + 1, tab |-> t, request |-> tab[t].request, text |-> tab[t].text,
       auth |-> tab[t].auth, authRevision |-> tab[t].authRevision, place |-> tab[t].place]}
  /\ saving' = [saving EXCEPT ![t] = [stage |-> "posted", op |-> ops + 1]]
  /\ UNCHANGED <<tab, closing, dialog, tree, loads, reads, toPage, hostState, typed, closed, bounded>>

(***************************************************************************)
(* closeRequestTab and removeCollectionItems.                              *)
(***************************************************************************)
BeginClosing(t, why) ==
  closing' = [closing EXCEPT ![t] = [NotClosing EXCEPT !.stage = "flushing", !.why = why]]

AskClose(t) ==
  /\ Clicked /\ IsOpen(t) /\ closing[t].stage = "none" /\ dialog = NoDialog
  /\ IF Dirty(tab[t]) THEN dialog' = [tab |-> t, why |-> "close"] /\ UNCHANGED closing
     ELSE BeginClosing(t, "silent") /\ UNCHANGED dialog
  /\ UNCHANGED <<tab, saving, tree, submitted, loads, ops, jobs, reads, toPage, hostState, typed, closed, edits, failures, timeouts>>

\* the tabs of what is removed are closed first
AskRemove(r) ==
  /\ Clicked /\ dialog = NoDialog /\ tree[r] # Nowhere
  /\ \A t \in Showing(r) : closing[t].stage = "none"
  /\ IF Showing(r) = {} THEN Post("delete", r, ClosedTab) /\ UNCHANGED <<closing, dialog>>
     ELSE \E t \in Showing(r) :
            /\ IF Dirty(tab[t]) THEN dialog' = [tab |-> t, why |-> "remove"] /\ UNCHANGED closing
               ELSE BeginClosing(t, "remove") /\ UNCHANGED dialog
            /\ UNCHANGED <<ops, jobs>>
  /\ UNCHANGED <<tab, saving, tree, submitted, loads, reads, toPage, hostState, typed, closed, edits, failures, timeouts>>

Answer(t) ==
  /\ dialog.tab = t /\ dialog' = NoDialog
  /\ \/ UNCHANGED closing
     \/ dialog.why = "close" /\ BeginClosing(t, "discard")
     \/ dialog.why = "close" /\ tab[t].place # Nowhere /\ ~tab[t].loading /\ BeginClosing(t, "save")
     \/ dialog.why = "remove" /\ BeginClosing(t, "remove")
  /\ UNCHANGED <<tab, saving, tree, submitted, loads, ops, jobs, reads, toPage, hostState, typed, closed, bounded>>

CloseFlushed(t) ==
  /\ closing[t].stage = "flushing"
  /\ IF closing[t].why = "save"
     THEN /\ closing' = [closing EXCEPT ![t].stage = "saving"]
          /\ saving' = [saving EXCEPT ![t].stage = IF @ = "none" THEN "flushing" ELSE @]
     ELSE closing' = [closing EXCEPT ![t].stage = "releasing"] /\ UNCHANGED saving
  /\ UNCHANGED <<tab, dialog, tree, submitted, loads, ops, jobs, reads, toPage, hostState, typed, closed, bounded>>

CloseFlushFails(t) ==
  /\ closing[t].stage = "flushing" /\ Fails
  /\ closing' = [closing EXCEPT ![t] = Reopened]
  /\ UNCHANGED <<tab, saving, dialog, tree, submitted, loads, ops, jobs, reads, toPage, hostState, typed, closed, edits, clicks, timeouts>>

\* releaseTab: once no save and no authentication is on its way, the stage is dropped
Release(t) ==
  /\ closing[t].stage = "releasing" /\ saving[t] = NotSaving /\ tab[t].authUpdate = 0
  /\ Post("discard", tab[t].request, tab[t])
  /\ closing' = [closing EXCEPT ![t].stage = "discarding", ![t].op = ops + 1]
  /\ UNCHANGED <<tab, saving, dialog, tree, submitted, loads, reads, toPage, hostState, typed, closed, bounded>>

CloseTab(t) ==
  /\ tab' = [tab EXCEPT ![t] = ClosedTab]
  /\ closing' = [closing EXCEPT ![t] = NotClosing]
  /\ loads' = {l \in loads : l.tab # t}
  /\ closed' = [why |-> closing[t].why, text |-> stored[tab[t].request].text = tab[t].text,
                 auth |-> stored[tab[t].request].auth = tab[t].auth]
  /\ typed' = [typed EXCEPT ![t] = 0]

Discarded(t) ==
  IF closing[t].why = "remove"
  THEN /\ tab' = [tab EXCEPT ![t].auth = tab[t].baseAuth, ![t].authPending = FALSE]
       /\ Post("delete", tab[t].request, ClosedTab)
       /\ closing' = [closing EXCEPT ![t].stage = "removing", ![t].op = ops + 1]
       /\ loads' = {l \in loads : l.tab # t}
       /\ UNCHANGED <<closed, typed>>
  ELSE CloseTab(t) /\ UNCHANGED <<ops, jobs>>

(***************************************************************************)
(* A promise of postMessageWithAck settles.                                *)
(***************************************************************************)
AwaitsSave(t, op) == saving[t].stage = "posted" /\ saving[t].op = op
AwaitsAuth(t, op) == tab[t].authUpdate = op \/ (saving[t].stage = "auth" /\ saving[t].op = op)
AwaitsClose(t, op) == closing[t].stage \in {"discarding", "removing"} /\ closing[t].op = op
Awaited(t, op) == AwaitsSave(t, op) \/ AwaitsAuth(t, op) \/ AwaitsClose(t, op)

AuthSettles(t, op, ok) ==
  /\ tab' = [tab EXCEPT ![t].authUpdate = IF @ = op THEN 0 ELSE @]
  /\ IF saving[t].stage # "auth" \/ saving[t].op # op THEN UNCHANGED <<saving, closing>>
     ELSE IF ok THEN saving' = [saving EXCEPT ![t] = [stage |-> "ready", op |-> 0]] /\ UNCHANGED closing
     ELSE SaveEnds(t, FALSE)

Settle(t, op, ok) ==
  \/ AwaitsSave(t, op) /\ SaveEnds(t, ok) /\ UNCHANGED <<tab, loads, ops, jobs, closed, typed>>
  \/ AwaitsAuth(t, op) /\ AuthSettles(t, op, ok) /\ UNCHANGED <<loads, ops, jobs, closed, typed>>
  \/ AwaitsClose(t, op) /\ ok /\ closing[t].stage = "discarding" /\ Discarded(t) /\ UNCHANGED saving
  \/ AwaitsClose(t, op) /\ ok /\ closing[t].stage = "removing" /\ CloseTab(t) /\ UNCHANGED <<saving, ops, jobs>>
  \/ /\ AwaitsClose(t, op) /\ ~ok /\ closing' = [closing EXCEPT ![t] = Reopened]
     /\ UNCHANGED <<tab, saving, loads, ops, jobs, closed, typed>>

TimeOut(t) ==
  /\ failures + timeouts < MaxFailures /\ timeouts' = timeouts + 1
  /\ \E op \in 1 .. ops : Awaited(t, op) /\ Settle(t, op, FALSE)
  /\ UNCHANGED <<dialog, tree, submitted, reads, toPage, hostState, edits, clicks, failures>>

(***************************************************************************)
(* The page hears from the host.                                           *)
(***************************************************************************)
Heard(kind) == toPage # <<>> /\ Head(toPage).kind = kind /\ toPage' = Tail(toPage)
Pushed == Head(toPage)

\* updateCollections: a tab follows its request to another collection, unless
\* its own save moved it there or the user has chosen another one
Moved(x, t, m) ==
  LET old == tree[x.request] new == m.places[x.request] IN
  IF x.request = NoRequest THEN x
  ELSE IF Nowhere \in {old, new} \/ old = new THEN x
  ELSE [x EXCEPT !.basePlace = new,
                 !.place = IF /\ ~\E s \in submitted : s.op = m.op /\ s.tab = t
                              /\ x.basePlace # new /\ x.place = old
                           THEN new ELSE x.place]
ShowTree ==
  /\ Heard("collections")
  /\ tab' = [t \in Tabs |-> Moved(tab[t], t, Pushed)] /\ tree' = Pushed.places
  /\ UNCHANGED <<saving, closing, dialog, submitted, loads, ops, jobs, reads, hostState, typed, closed, bounded>>

\* a fault: what was saved replaces the draft
MergedOver(x, s, m) ==
  [x EXCEPT !.text = m.text, !.auth = m.auth, !.baseText = m.text, !.baseAuth = m.auth, !.basePlace = s.place,
            !.authPending = IF x.authRevision = s.authRevision THEN FALSE ELSE x.authPending]

\* acceptSavedRequest: what was not edited since becomes what was saved
Merged(x, s, m) ==
  [x EXCEPT !.text = IF x.text = s.text THEN m.text ELSE x.text,
            !.auth = IF x.auth = s.auth THEN m.auth ELSE x.auth,
            !.baseText = m.text, !.baseAuth = m.auth, !.basePlace = s.place,
            !.authPending = IF x.authRevision = s.authRevision THEN FALSE ELSE x.authPending]
AcceptSaved ==
  /\ Heard("saved")
  /\ \E s \in submitted :
       /\ s.op = Pushed.op /\ submitted' = submitted \ {s}
       /\ tab' = [tab EXCEPT ![s.tab] = IF @.request = s.request THEN Merged(@, s, Pushed) ELSE @]
  /\ UNCHANGED <<saving, closing, dialog, tree, loads, ops, jobs, reads, hostState, typed, closed, bounded>>

ShowAuth ==
  /\ Heard("auth")
  /\ tab' = [t \in Tabs |-> IF tab[t].request # Pushed.request THEN tab[t]
       ELSE [tab[t] EXCEPT !.auth = Pushed.auth, !.authPending = Pushed.pending, !.authRevision = tab[t].authRevision + 1]]
  /\ UNCHANGED <<saving, closing, dialog, tree, submitted, loads, ops, jobs, reads, hostState, typed, closed, bounded>>

ShowLoaded ==
  /\ Heard("loaded")
  /\ LET owner == {l.tab : l \in {l \in loads : l.op = Pushed.op}}
         into == {t \in owner : tab[t].request = Pushed.request} IN
     /\ tab' = [t \in Tabs |-> IF t \notin into THEN tab[t]
          ELSE [tab[t] EXCEPT !.text = Pushed.text, !.baseText = Pushed.text, !.auth = Pushed.auth,
                              !.baseAuth = Pushed.auth, !.loading = FALSE, !.loadFailed = FALSE]]
     /\ typed' = [t \in Tabs |-> IF t \in into THEN Pushed.text ELSE typed[t]]
  /\ loads' = {l \in loads : l.op # Pushed.op}
  /\ UNCHANGED <<saving, closing, dialog, tree, submitted, ops, jobs, reads, hostState, closed, bounded>>

Confirmed ==
  /\ Heard("reply") /\ Pushed.ok
  /\ \/ \E t \in Tabs : Settle(t, Pushed.op, TRUE)
     \/ (\A t \in Tabs : ~Awaited(t, Pushed.op)) /\ UNCHANGED <<tab, saving, closing, loads, ops, jobs, closed, typed>>
  /\ UNCHANGED <<dialog, tree, submitted, reads, hostState, bounded>>

\* an error settles its promise, and ends the load it belongs to
Refused ==
  /\ Heard("reply") /\ ~Pushed.ok
  /\ submitted' = {s \in submitted : s.op # Pushed.op}
  /\ LET owner == {l.tab : l \in {l \in loads : l.op = Pushed.op}} IN
     \/ \E t \in Tabs : Settle(t, Pushed.op, FALSE)
     \/ /\ \A t \in Tabs : ~Awaited(t, Pushed.op)
        /\ tab' = [t \in Tabs |-> IF t \notin owner THEN tab[t]
             ELSE [tab[t] EXCEPT !.loadFailed = tab[t].loading \/ tab[t].loadFailed, !.loading = FALSE]]
        /\ loads' = {l \in loads : l.op # Pushed.op}
        /\ UNCHANGED <<saving, closing, ops, jobs, closed, typed>>
  /\ UNCHANGED <<dialog, tree, reads, hostState, bounded>>

(***************************************************************************)
(* The host.                                                               *)
(***************************************************************************)
Message(kind, j) ==
  [kind |-> kind, op |-> j.op, request |-> j.request, ok |-> TRUE, places |-> <<>>,
   text |-> stored[j.request].text, auth |-> stored[j.request].auth, pending |-> FALSE]
Ack(j) == Message("reply", j)
Error(j) == [Ack(j) EXCEPT !.ok = FALSE]
Trees(j, now) == [Message("collections", j) EXCEPT !.places = [r \in Requests |-> now[r].place]]

Handle(kind) == jobs # <<>> /\ Head(jobs).kind = kind /\ jobs' = Tail(jobs)
Job1 == Head(jobs)
IsStored(r) == stored[r].place # Nowhere
hostFrame == <<tab, saving, closing, dialog, tree, submitted, loads, ops, typed, closed, edits, clicks, timeouts>>

\* the credential a save ends up with: the staged one, or the one it has
SavedAuth(j) ==
  IF staged[j.request] # NoStage THEN {staged[j.request]}
  ELSE {a \in {j.auth} : a = (IF IsStored(j.request) THEN stored[j.request].auth ELSE 0)}

HandleSave ==
  /\ Handle("save")
  /\ \E a \in SavedAuth(Job1) :
       /\ stored' = [stored EXCEPT ![Job1.request] = [place |-> Job1.place, text |-> Job1.text, auth |-> a]]
       /\ toPage' = toPage \o <<Trees(Job1, stored'), [Message("saved", Job1) EXCEPT !.text = Job1.text, !.auth = a],
                                Ack(Job1)>>
  /\ staged' = [staged EXCEPT ![Job1.request] = NoStage]
  /\ UNCHANGED <<hostFrame, reads, failures>>

HandleConfigure ==
  /\ Handle("configure")
  /\ staged' = [staged EXCEPT ![Job1.request] = Job1.auth]
  /\ toPage' = toPage \o <<[Message("auth", Job1) EXCEPT !.auth = Job1.auth, !.pending = TRUE], Ack(Job1)>>
  /\ UNCHANGED <<hostFrame, reads, stored, failures>>

HandleDiscard ==
  /\ Handle("discard")
  /\ staged' = [staged EXCEPT ![Job1.request] = NoStage]
  /\ toPage' = Append(toPage, Ack(Job1))
  /\ UNCHANGED <<hostFrame, reads, stored, failures>>

HandleDelete ==
  /\ Handle("delete") /\ IsStored(Job1.request)
  /\ stored' = [stored EXCEPT ![Job1.request] = NotStored]
  /\ staged' = [staged EXCEPT ![Job1.request] = NoStage]
  /\ toPage' = toPage \o <<Trees(Job1, stored'), Ack(Job1)>>
  /\ UNCHANGED <<hostFrame, reads, failures>>

HandleMove ==
  /\ Handle("move") /\ IsStored(Job1.request)
  /\ stored' = [stored EXCEPT ![Job1.request].place = Job1.place]
  /\ toPage' = toPage \o <<Trees(Job1, stored'), Ack(Job1)>>
  /\ UNCHANGED <<hostFrame, reads, staged, failures>>

\* what cannot be done, and what fails, changes nothing
Impossible(j) ==
  \/ j.kind = "save" /\ SavedAuth(j) = {}
  \/ j.kind \in {"delete", "move"} /\ ~IsStored(j.request)
HandlerFails ==
  /\ jobs # <<>> /\ jobs' = Tail(jobs)
  /\ \/ Impossible(Job1) /\ UNCHANGED failures
     \/ Fails
  /\ toPage' = Append(toPage, Error(Job1))
  /\ UNCHANGED <<hostFrame, reads, hostState>>

HandleRead ==
  /\ reads # <<>> /\ reads' = Tail(reads)
  /\ toPage' = toPage \o (IF IsStored(Head(reads).request)
                          THEN <<Message("loaded", Head(reads)), Ack(Head(reads))>> ELSE <<Error(Head(reads))>>)
  /\ UNCHANGED <<hostFrame, jobs, hostState, failures>>

\* the user moves a request in the collection panel
Move(r, c) ==
  /\ Clicked /\ dialog = NoDialog /\ tree[r] \notin {Nowhere, c}
  /\ Post("move", r, [ClosedTab EXCEPT !.place = c])
  /\ UNCHANGED <<tab, saving, closing, dialog, tree, submitted, loads, reads, toPage, hostState, typed, closed, edits, failures, timeouts>>

UserStep ==
  \/ \E t \in Tabs, r \in Requests : OpenSaved(t, r)
  \/ \E t \in Tabs, r \in Requests, c \in Places : NewDraft(t, r, c)
  \/ \E t \in Tabs : RetryLoad(t) \/ PressSave(t) \/ AskClose(t) \/ Answer(t)
  \/ \E t \in Tabs, v \in Texts : Type(t, v)
  \/ \E t \in Tabs, c \in Places : Choose(t, c)
  \/ \E t \in Tabs, a \in Auths : ApplyAuth(t, a)
  \/ \E r \in Requests : AskRemove(r)
  \/ \E r \in Requests, c \in Collections : Move(r, c)
SaveStep(t) == SaveFlushed(t) \/ SaveFlushFails(t) \/ SaveRefused(t) \/ PostSave(t)
CloseStep(t) == CloseFlushed(t) \/ CloseFlushFails(t) \/ Release(t)
HearStep == ShowTree \/ AcceptSaved \/ ShowAuth \/ ShowLoaded \/ Confirmed \/ Refused
HostStep == HandleSave \/ HandleConfigure \/ HandleDiscard \/ HandleDelete \/ HandleMove \/ HandlerFails
TabsNext ==
  \/ UserStep \/ HearStep \/ HostStep \/ HandleRead
  \/ \E t \in Tabs : SaveStep(t) \/ CloseStep(t) \/ TimeOut(t)

TabsSpec ==
  /\ TabsInit /\ [][TabsNext]_tabVars
  /\ WF_tabVars(HearStep) /\ WF_tabVars(HostStep) /\ WF_tabVars(HandleRead)
  /\ \A t \in Tabs : WF_tabVars(SaveStep(t)) /\ WF_tabVars(CloseStep(t))

-----------------------------------------------------------------------------
\* nothing is on its way between page and host
Quiet == jobs = <<>> /\ reads = <<>> /\ toPage = <<>> /\ \A t \in Tabs : saving[t] = NotSaving

(***************************************************************************)
(* No answer of the host changes what the user typed in a tab.             *)
(***************************************************************************)
DraftKeepsEdits ==
  \A t \in Tabs : IsOpen(t) /\ ~tab[t].loading /\ ~tab[t].loadFailed => tab[t].text = typed[t]

(***************************************************************************)
(* When nothing is on its way, a tab that shows no unsaved changes of a    *)
(* stored request shows what is stored, in the collection it is stored in. *)
(***************************************************************************)
CleanMeansSaved ==
  Quiet => \A t \in Tabs :
    IsOpen(t) /\ ~tab[t].loading /\ ~tab[t].loadFailed /\ ~Dirty(tab[t]) /\ IsStored(tab[t].request)
    => stored[tab[t].request] = [place |-> tab[t].place, text |-> tab[t].text, auth |-> tab[t].auth]

(***************************************************************************)
(* Save and close closes a tab only when all that is typed in it is        *)
(* stored, and the authentication applied in it as well, unless its answer *)
(* came too late.                                                          *)
(***************************************************************************)
ClosedBySaveIsStored ==
  closed.why = "save" =>
    closed.text /\ (timeouts = 0 => closed.auth)

(***************************************************************************)
(* A tab that closes without asking shows nothing that is not stored.      *)
(***************************************************************************)
SilentCloseLosesNothing ==
  closed.why = "silent" => closed.text

(***************************************************************************)
(* A tab that is closing is closed, or can be edited again.                *)
(***************************************************************************)
ClosingEnds == \A t \in Tabs : (closing[t].stage # "none") ~> (closing[t].stage = "none")
=============================================================================
