-------------------------- MODULE VariableAutosave --------------------------
(***************************************************************************)
(* Autosave of global and collection variables:                            *)
(* webview-ui/src/utils/VariableAutosave.ts in the page, with the          *)
(* acknowledgements of vscodeApi.ts, the handlers of the extension host    *)
(* that store what it sends, and the presses of Send that wait for it.     *)
(*                                                                         *)
(* A value is the number of the edit that made it.  pending is the Map of  *)
(* the code as a sequence in insertion order: setting a key that is there  *)
(* keeps its place, and iteration sees entries appended behind it.  The    *)
(* stores of the host are queues: one for the global variables, one for    *)
(* all collections.                                                        *)
(***************************************************************************)
EXTENDS Integers, Sequences, FiniteSets, SequencesExt

CONSTANTS
  Scopes,  \* ids of collections
  Global,       \* the key of the global variables
  Removable,    \* collections that may be deleted
  MaxVariableEdits,     \* bound: edits of each key
  MaxFlushes,   \* bound: flushes the user asks for
  MaxSaveFailures,  \* bound: writes that fail
  MaxSaveTimeouts,  \* bound: messages that are not confirmed in time
  MaxChanges    \* bound: other changes of the collections

ASSUME GlobalIsNoCollection == Global \notin Scopes
ASSUME RemovableCollections == Removable \subseteq Scopes
ASSUME AutosaveBounds ==
  {MaxVariableEdits, MaxFlushes, MaxSaveFailures, MaxSaveTimeouts, MaxChanges} \subseteq Nat

Keys == Scopes \cup {Global}
Gone == -1
Values == 0 .. MaxVariableEdits
Stored == Values \cup {Gone}
Save == [key : Keys, value : Values]
NotDraining == [at |-> 0, op |-> 0, save |-> [key |-> Global, value |-> 0]]
NotPressed == [stage |-> "none", needs |-> [k \in Keys |-> 0]]

VARIABLES
  variableEdits,     \* history: edits the user made of each key
  shown,     \* page: the value each panel shows
  pending,   \* page: what is still to be saved
  timer,     \* page: is the 500 ms timer armed
  drain,     \* page: the drain under way: its place in pending, and what it sent
  press,     \* page: a press of Send waiting for the flush
  sends,     \* messages sent so far
  open,      \* is the page there
  queues,    \* host: saves waiting in each store
  saved,    \* host: the committed values
  toPanels,    \* messages on their way to the page
  executed,  \* history: the latest request sent: edits it needs, values stored by then
  saveFailures, saveTimeouts, changes, flushes

pageVars == <<shown, pending, timer, drain, press, sends, open>>
hostVars == <<queues, saved, toPanels>>
autosaveBounds == <<saveFailures, saveTimeouts, changes, flushes>>
autosaveVars == <<variableEdits, pageVars, hostVars, executed, autosaveBounds>>

Stores == {"global", "collections"}
StoreOf(k) == IF k = Global THEN "global" ELSE "collections"

ToPanel ==
  [type : {"reply"}, op : 1 .. sends, ok : BOOLEAN, values : {<<>>}]
    \cup [type : {"collections"}, op : {0}, ok : {TRUE}, values : [Keys -> Stored]]

AutosaveTypeOK ==
  /\ variableEdits \in [Keys -> Values] /\ shown \in [Keys -> Stored]
  /\ pending \in Seq(Save)
  /\ timer \in BOOLEAN /\ open \in BOOLEAN
  /\ drain \in [at : 0 .. Len(pending), op : 0 .. sends, save : Save]
  /\ press \in [stage : {"none", "flushing", "flushed"}, needs : [Keys -> Values]]
  /\ sends \in Nat /\ flushes \in 0 .. MaxFlushes
  /\ queues \in [Stores -> Seq([op : 1 .. sends, save : Save])]
  /\ saved \in [Keys -> Stored] /\ toPanels \in Seq(ToPanel)
  /\ executed \in [needs : [Keys -> Values], saw : [Keys -> Stored]]
  /\ saveFailures \in 0 .. MaxSaveFailures /\ saveTimeouts \in 0 .. MaxSaveTimeouts /\ changes \in 0 .. MaxChanges

AutosaveInit ==
  /\ variableEdits = [k \in Keys |-> 0] /\ shown = variableEdits /\ saved = variableEdits
  /\ pending = <<>> /\ timer = FALSE /\ drain = NotDraining /\ press = NotPressed
  /\ sends = 0 /\ open = TRUE
  /\ queues = [s \in Stores |-> <<>>] /\ toPanels = <<>>
  /\ executed = [needs |-> variableEdits, saw |-> saved]
  /\ saveFailures = 0 /\ saveTimeouts = 0 /\ changes = 0 /\ flushes = 0

(***************************************************************************)
(* The pending map.                                                        *)
(***************************************************************************)
IsPending(k, p) == \E i \in DOMAIN p : p[i].key = k
Scheduled(p, s) ==
  IF IsPending(s.key, p)
  THEN [i \in DOMAIN p |-> IF p[i].key = s.key THEN s ELSE p[i]]
  ELSE Append(p, s)

\* what a panel shows when the host says v: the pending edit wins
Overlay(p, k, v) ==
  IF v # Gone /\ IsPending(k, p) THEN (CHOOSE s \in ToSet(p) : s.key = k).value ELSE v

(***************************************************************************)
(* The drain.  It sends the entry at a place, or ends when nothing is      *)
(* pending; past the last entry it starts over.                            *)
(***************************************************************************)
SettlePress == press' = IF press.stage = "flushing" THEN [press EXCEPT !.stage = "flushed"] ELSE press

SendAt(i, p) ==
  /\ sends' = sends + 1
  /\ drain' = [at |-> i, op |-> sends + 1, save |-> p[i]]
  /\ queues' = [queues EXCEPT ![StoreOf(p[i].key)] = Append(@, [op |-> sends + 1, save |-> p[i]])]

\* a fault: the acknowledged key is removed whatever it holds
SavedAnyway(p, i, s) == RemoveAt(p, i)

Continue(i, p) ==
  \/ /\ p = <<>>
     /\ drain' = NotDraining /\ SettlePress /\ UNCHANGED <<sends, queues>>
  \/ /\ p # <<>>
     /\ SendAt(IF i \in DOMAIN p THEN i ELSE 1, p)
     /\ UNCHANGED press

\* the acknowledged message is removed, unless a newer edit has taken its place
Saved(p, i, s) == IF p[i] = s THEN RemoveAt(p, i) ELSE p
Acknowledged ==
  LET left == Saved(pending, drain.at, drain.save) IN
  /\ pending' = left
  /\ Continue(IF left = pending THEN drain.at + 1 ELSE drain.at, left)

\* a failed send ends the drain: nothing is dropped
DrainFails ==
  /\ drain' = NotDraining /\ press' = NotPressed
  /\ UNCHANGED <<pending, sends, queues>>

\* flush: joins the drain under way, or starts one
Flush ==
  /\ timer' = FALSE
  /\ IF drain.at # 0 THEN UNCHANGED <<drain, sends, queues>>
     ELSE IF pending = <<>> THEN UNCHANGED <<drain, sends, queues>>
     ELSE SendAt(1, pending)

(***************************************************************************)
(* The page.                                                               *)
(***************************************************************************)
Edit(k) ==
  /\ open /\ shown[k] # Gone /\ variableEdits[k] < MaxVariableEdits
  /\ variableEdits' = [variableEdits EXCEPT ![k] = @ + 1]
  /\ shown' = [shown EXCEPT ![k] = variableEdits[k] + 1]
  /\ pending' = Scheduled(pending, [key |-> k, value |-> variableEdits[k] + 1])
  /\ timer' = TRUE
  /\ UNCHANGED <<drain, press, sends, open, hostVars, executed, autosaveBounds>>

TimerFires ==
  /\ open /\ timer /\ Flush
  /\ UNCHANGED <<variableEdits, shown, pending, press, open, saved, toPanels, executed, autosaveBounds>>

Asked == flushes < MaxFlushes /\ flushes' = flushes + 1

\* another panel or tab is opened after a failure: flush, which tries again
ChangeTab ==
  /\ Asked /\ open /\ ~timer /\ drain.at = 0 /\ pending # <<>> /\ Flush
  /\ UNCHANGED <<variableEdits, shown, pending, press, open, saved, toPanels, executed, saveFailures, saveTimeouts, changes>>

PressSend ==
  /\ Asked /\ open /\ press.stage = "none" /\ Flush
  /\ press' = [stage |-> IF drain'.at = 0 THEN "flushed" ELSE "flushing", needs |-> variableEdits]
  /\ UNCHANGED <<variableEdits, shown, pending, open, saved, toPanels, executed, saveFailures, saveTimeouts, changes>>

\* the flush has ended, and the environment it waits for as well
Execute ==
  /\ open /\ press.stage = "flushed"
  /\ press' = NotPressed
  /\ executed' = [needs |-> press.needs, saw |-> saved]
  /\ UNCHANGED <<variableEdits, shown, pending, timer, drain, sends, open, hostVars, autosaveBounds>>

NotConfirmed ==
  /\ open /\ drain.at # 0 /\ saveTimeouts < MaxSaveTimeouts
  /\ saveTimeouts' = saveTimeouts + 1 /\ DrainFails
  /\ UNCHANGED <<variableEdits, shown, timer, open, saved, toPanels, executed, saveFailures, changes, flushes>>

ShowCollections ==
  /\ open /\ toPanels # <<>> /\ Head(toPanels).type = "collections"
  /\ toPanels' = Tail(toPanels)
  /\ shown' = [k \in Keys |-> IF k = Global THEN shown[k] ELSE Overlay(pending, k, Head(toPanels).values[k])]
  /\ UNCHANGED <<variableEdits, pending, timer, drain, press, sends, open, queues, saved, executed, autosaveBounds>>

Settled ==
  /\ open /\ toPanels # <<>> /\ Head(toPanels).type = "reply"
  /\ toPanels' = Tail(toPanels)
  /\ \/ drain.at # 0 /\ drain.op = Head(toPanels).op /\ Head(toPanels).ok /\ Acknowledged
     \/ drain.at # 0 /\ drain.op = Head(toPanels).op /\ ~Head(toPanels).ok /\ DrainFails
     \/ drain.op # Head(toPanels).op /\ UNCHANGED <<pending, drain, press, sends, queues>>
  /\ UNCHANGED <<variableEdits, shown, timer, open, saved, executed, autosaveBounds>>

\* the view goes away: beforeunload flushes, and nobody is left for the replies
Unload ==
  /\ open /\ Flush /\ open' = FALSE
  /\ press' = NotPressed
  /\ UNCHANGED <<variableEdits, shown, pending, saved, toPanels, executed, autosaveBounds>>

(***************************************************************************)
(* The host.                                                               *)
(***************************************************************************)
Reply(op, ok) == [type |-> "reply", op |-> op, ok |-> ok, values |-> <<>>]
CollectionsOf(values) == [type |-> "collections", op |-> 0, ok |-> TRUE, values |-> values]

Store(s) ==
  /\ queues[s] # <<>>
  /\ LET job == Head(queues[s]) IN
     /\ saved[job.save.key] # Gone
     /\ saved' = [saved EXCEPT ![job.save.key] = job.save.value]
     /\ toPanels' = toPanels \o (IF s = "collections" THEN <<CollectionsOf(saved')>> ELSE <<>>)
                         \o <<Reply(job.op, TRUE)>>
  /\ queues' = [queues EXCEPT ![s] = Tail(@)]
  /\ UNCHANGED <<variableEdits, pageVars, executed, autosaveBounds>>

StoreFails(s) ==
  /\ queues[s] # <<>>
  /\ LET job == Head(queues[s]) IN
     /\ \/ saved[job.save.key] = Gone /\ UNCHANGED saveFailures
        \/ saveFailures < MaxSaveFailures /\ saveFailures' = saveFailures + 1
     /\ toPanels' = Append(toPanels, Reply(job.op, FALSE))
  /\ queues' = [queues EXCEPT ![s] = Tail(@)]
  /\ UNCHANGED <<variableEdits, pageVars, saved, executed, saveTimeouts, changes, flushes>>

\* another change of the collections: the host posts all of them
OtherChange(gone) ==
  /\ changes < MaxChanges /\ changes' = changes + 1
  /\ saved' = [k \in Keys |-> IF k \in gone THEN Gone ELSE saved[k]]
  /\ toPanels' = Append(toPanels, CollectionsOf(saved'))
  /\ UNCHANGED <<variableEdits, pageVars, queues, executed, saveFailures, saveTimeouts, flushes>>

AutosaveNext ==
  \/ \E k \in Keys : Edit(k)
  \/ TimerFires \/ ChangeTab \/ PressSend \/ Execute \/ NotConfirmed
  \/ ShowCollections \/ Settled \/ Unload
  \/ \E s \in Stores : Store(s) \/ StoreFails(s)
  \/ \E gone \in SUBSET Removable : OtherChange(gone)

AutosaveSpec == AutosaveInit /\ [][AutosaveNext]_autosaveVars

-----------------------------------------------------------------------------
(***************************************************************************)
(* Whatever the host posts, a panel shows the user's last edit: neither a  *)
(* snapshot made before it was stored, nor the acknowledgement of an       *)
(* earlier edit, brings an old value back.                                 *)
(***************************************************************************)
EditsStayVisible == \A k \in Keys : open /\ shown[k] # Gone => shown[k] = variableEdits[k]

(***************************************************************************)
(* A request that is sent finds every variable edit made before Send was   *)
(* pressed in the stores, those made while a save was in flight too.       *)
(***************************************************************************)
SendSeesEdits ==
  \A k \in Keys : executed.saw[k] # Gone => executed.saw[k] >= executed.needs[k]
=============================================================================
