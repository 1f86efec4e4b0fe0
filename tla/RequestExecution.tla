-------------------------- MODULE RequestExecution --------------------------
(***************************************************************************)
(* One HTTP execution from the Send button to the response viewer:         *)
(* src/services/RequestService.ts with its ExecutionRegistry, the router   *)
(* that runs and finalizes it, the bodies ResponseDownloadService keeps,   *)
(* and the request tabs of the page (App.tsx, useRequestStore.ts).         *)
(*                                                                         *)
(* Host and page exchange messages over two FIFO channels.  The host runs  *)
(* to the next await in one step; what only microtasks separate (the end   *)
(* of a dispatch, its finalization, its acknowledgement) is one step too.  *)
(* A tab stands for the request it edits: no two tabs share a request id.  *)
(* Ids of executions and responses are fresh UUIDs; one execution retains  *)
(* at most one response, which is named by the execution.  Error messages  *)
(* only set a text and a notice on the page and are left out.              *)
(***************************************************************************)
EXTENDS Integers, Sequences, FiniteSets, SequencesExt

CONSTANTS
  Tabs,        \* request tabs of the page
  Executions,  \* execution ids the page may create
  MaxBodies,   \* RESPONSE_DOWNLOAD_LIMITS.maximumEntries
  MaxViews,    \* bound: views VS Code resolves
  MaxWaiting   \* bound: the user acts while fewer messages wait for the host

ASSUME BodyLimit == MaxBodies \in Nat \ {0}
ASSUME ViewBound == MaxViews \in Nat \ {0}

Nobody == "none"

ASSUME NobodyRuns == Nobody \notin Executions

VARIABLES
  stage,      \* host: the await each execution is in
  owner,      \* host: the request (tab) of each execution
  active,     \* host: ExecutionRegistry.active
  cancelled,  \* host: executions whose entry is marked as cancelled
  aborted,    \* host: executions whose HttpClient signal is aborted
  bodies,     \* host: the retained bodies
  discarding, \* host: discardRequestChanges under way, by tab
  view,       \* number of the current view
  toHost,     \* messages posted by the page
  toPage,     \* messages posted to the page
  phase,      \* page: life of each tab
  running,    \* page: activeExecutionId of each tab
  shown,      \* page: execution whose response the tab holds
  offered,    \* page: response.download.available of each tab
  latest,     \* history: the last execution each tab began
  stopped     \* history: executions the page cancelled before a response

hostVars == <<stage, owner, active, cancelled, aborted, bodies, discarding>>
pageVars == <<phase, running, shown, offered, latest, stopped>>
vars == <<hostVars, pageVars, view, toHost, toPage>>

Stages == {"none", "posted", "preparing", "building", "connected", "recording",
           "settled"}

ToHost == [type : {"execute", "cancel", "release"}, id : Executions]
            \cup [type : {"discard", "files"}, id : Tabs]

ToPage == [type : {"executing", "idle", "response", "failure", "freed"}, id : Executions]
            \cup [type : {"released"}, id : SUBSET Executions]
            \cup [type : {"discarded", "kept", "cleared"}, id : Tabs]

TypeOK ==
  /\ stage \in [Executions -> Stages]
  /\ owner \in [Executions -> Tabs \cup {Nobody}]
  /\ active \subseteq Executions /\ cancelled \subseteq Executions
  /\ aborted \subseteq cancelled
  /\ bodies \subseteq Executions /\ IsFiniteSet(bodies) /\ Cardinality(bodies) <= MaxBodies
  /\ discarding \subseteq Tabs
  /\ view \in 1 .. MaxViews
  /\ toHost \in Seq(ToHost) /\ toPage \in Seq(ToPage)
  /\ phase \in [Tabs -> {"open", "discarding", "releasing", "closed"}]
  /\ running \in [Tabs -> Executions \cup {Nobody}]
  /\ shown \in [Tabs -> Executions \cup {Nobody}]
  /\ offered \in [Tabs -> BOOLEAN]
  /\ latest \in [Tabs -> Executions \cup {Nobody}]
  /\ stopped \subseteq Executions

Init ==
  /\ stage = [e \in Executions |-> "none"]
  /\ owner = [e \in Executions |-> Nobody]
  /\ active = {} /\ cancelled = {} /\ aborted = {} /\ discarding = {}
  /\ bodies = {} /\ toHost = <<>> /\ toPage = <<>>
  /\ view = 1
  /\ phase = [t \in Tabs |-> "open"]
  /\ running = [t \in Tabs |-> Nobody]
  /\ shown = [t \in Tabs |-> Nobody]
  /\ offered = [t \in Tabs |-> FALSE]
  /\ latest = [t \in Tabs |-> Nobody]
  /\ stopped = {}

Message(type, id) == [type |-> type, id |-> id]

Post(messages) == toPage' = toPage \o messages

-----------------------------------------------------------------------------
(* Response bodies *)

OfRequest(t) == {e \in bodies : owner[e] = t}

(***************************************************************************)
(* emitReleased: one message names all bodies that go, if any do.          *)
(***************************************************************************)
Released(es) == IF es = {} THEN <<>> ELSE <<Message("released", es)>>

(***************************************************************************)
(* A fault in retain, for OfferedIsRetained: an eviction that is not       *)
(* reported.                                                               *)
(***************************************************************************)

RetainSilently(e, evicted) ==
  LET others == bodies \ OfRequest(owner[e])
  IN /\ evicted \subseteq others /\ Cardinality(others \ evicted) < MaxBodies
     /\ bodies' = (others \ evicted) \cup {e}
     /\ Post(Released(OfRequest(owner[e])) \o <<Message("response", e)>>)

(***************************************************************************)
(* retain: the request's earlier body goes, then others until the entry    *)
(* limit and the byte budget hold.  Sizes, and the order of the Map, which *)
(* every save changes, are left out (ResponseSaving has them): any of them *)
(* may be the ones that go.  (The budget is the greatest size of a         *)
(* response, so a complete response always fits.)                          *)
(***************************************************************************)
Retain(e, evicted) ==
  LET others == bodies \ OfRequest(owner[e])
  IN /\ evicted \subseteq others /\ Cardinality(others \ evicted) < MaxBodies
     /\ bodies' = (others \ evicted) \cup {e}
     /\ Post(Released(OfRequest(owner[e]) \cup evicted) \o <<Message("response", e)>>)

-----------------------------------------------------------------------------
(* The host: messages, in the order the page posted them *)

Receive(type) ==
  /\ toHost # <<>> /\ Head(toHost).type = type
  /\ toHost' = Tail(toHost)

(***************************************************************************)
(* executeRequest: registered, then any body of the request is released,   *)
(* and the preparation starts.                                             *)
(***************************************************************************)
Execute ==
  LET e == Head(toHost).id IN
  /\ Receive("execute")
  /\ stage' = [stage EXCEPT ![e] = "preparing"]
  /\ active' = active \cup {e}
  /\ bodies' = bodies \ OfRequest(owner[e])
  /\ Post(Released(OfRequest(owner[e])) \o <<Message("executing", e)>>)
  /\ UNCHANGED <<owner, cancelled, aborted, discarding, view, pageVars>>

(***************************************************************************)
(* cancelRequest: marks the entry; HttpClient.cancel aborts its signal     *)
(* only once the client is executing.  An execution that is over is an     *)
(* error and changes nothing.                                              *)
(***************************************************************************)
Cancel ==
  LET e == Head(toHost).id IN
  /\ Receive("cancel")
  /\ IF e \in active
       THEN /\ cancelled' = cancelled \cup {e}
            /\ aborted' = IF stage[e] \in {"building", "connected"}
                            THEN aborted \cup {e} ELSE aborted
            /\ Post(<<Message("idle", e)>>)
       ELSE UNCHANGED <<cancelled, aborted, toPage>>
  /\ UNCHANGED <<stage, owner, active, bodies, discarding, view, pageVars>>

ReleaseBody ==
  LET e == Head(toHost).id IN
  /\ Receive("release")
  /\ bodies' = bodies \ {e}
  /\ Post(Released(bodies \cap {e}) \o <<Message("freed", e)>>)
  /\ UNCHANGED <<stage, owner, active, cancelled, aborted, discarding, view, pageVars>>

(***************************************************************************)
(* releaseRequestFiles frees the upload files selected for a request,      *)
(* which no execution under way depends on here.                           *)
(***************************************************************************)
ReleaseFiles ==
  /\ Receive("files")
  /\ Post(<<Message("cleared", Head(toHost).id)>>)
  /\ UNCHANGED <<stage, owner, active, cancelled, aborted, bodies, discarding, view, pageVars>>

(***************************************************************************)
(* discardRequestChanges joins the collection queue and is acknowledged,   *)
(* or fails, when that comes to it.                                        *)
(***************************************************************************)
Discard ==
  /\ Receive("discard")
  /\ discarding' = discarding \cup {Head(toHost).id}
  /\ UNCHANGED <<stage, owner, active, cancelled, aborted, bodies, view, toPage, pageVars>>

Discarded(t, ok) ==
  /\ t \in discarding
  /\ discarding' = discarding \ {t}
  /\ Post(<<Message(IF ok THEN "discarded" ELSE "kept", t)>>)
  /\ UNCHANGED <<stage, owner, active, cancelled, aborted, bodies, view, toHost, pageVars>>

-----------------------------------------------------------------------------
(* The host: an execution, from one await to the next *)

Advance(e, from, to) ==
  /\ stage[e] = from
  /\ stage' = [stage EXCEPT ![e] = to]

(***************************************************************************)
(* A fault in finalize, for RunningIsUnderWay: the page is only told of    *)
(* executions that were cancelled.                                         *)
(***************************************************************************)
FinalizeCancelledOnly(e, from, before) ==
  /\ Advance(e, from, "settled")
  /\ active' = active \ {e}
  /\ Post(IF e \in active \cap cancelled THEN Append(before, Message("idle", e)) ELSE before)

(***************************************************************************)
(* The end of the dispatch and finalize: the entry, if it is still there,  *)
(* is completed and the page told that nothing executes.                   *)
(***************************************************************************)
Finalize(e, from, before) ==
  /\ Advance(e, from, "settled")
  /\ active' = active \ {e}
  /\ Post(IF e \in active THEN Append(before, Message("idle", e)) ELSE before)

(***************************************************************************)
(* A fault in execute, for NoConnectionOnceCancelled: the preparation's    *)
(* end does not look at the cancellation.                                  *)
(***************************************************************************)
PreparedUnchecked(e) ==
  /\ Advance(e, "preparing", "building")
  /\ UNCHANGED <<owner, active, cancelled, aborted, bodies, discarding, view,
                 toHost, toPage, pageVars>>

(***************************************************************************)
(* resolve and resolveForTransport settle: a cancelled execution returns,  *)
(* a refused one throws, otherwise the HTTP client is called.  (A          *)
(* cancellation is looked at after each of the two; it is never undone, so *)
(* the two awaits are one here.)                                           *)
(***************************************************************************)
Prepared(e) ==
  /\ e \notin cancelled
  /\ Advance(e, "preparing", "building")
  /\ UNCHANGED <<owner, active, cancelled, aborted, bodies, discarding, view,
                 toHost, toPage, pageVars>>

PreparationEnds(e) ==
  /\ Finalize(e, "preparing", <<>>)
  /\ UNCHANGED <<owner, cancelled, aborted, bodies, discarding, view, toHost, pageVars>>

(***************************************************************************)
(* HttpClient.execute has read the files of the body, finds its signal not *)
(* aborted, and opens the first hop.                                       *)
(***************************************************************************)
Connect(e) ==
  /\ e \notin aborted
  /\ Advance(e, "building", "connected")
  /\ UNCHANGED <<owner, active, cancelled, aborted, bodies, discarding, view,
                 toHost, toPage, pageVars>>

(***************************************************************************)
(* client.execute resolves without a complete response (an error, timeout  *)
(* or abort): it is shown unless the execution was cancelled.              *)
(***************************************************************************)
TransportFails(e) ==
  /\ \E s \in {"building", "connected"} :
       Finalize(e, s, IF e \in cancelled THEN <<>> ELSE <<Message("failure", e)>>)
  /\ UNCHANGED <<owner, cancelled, aborted, bodies, discarding, view, toHost, pageVars>>

(***************************************************************************)
(* client.execute resolves with a complete response: its body is retained, *)
(* it is shown, and the history is written.                                *)
(***************************************************************************)
Responds(e) ==
  /\ e \notin cancelled
  /\ Advance(e, "connected", "recording")
  /\ \E evicted \in SUBSET bodies : Retain(e, evicted)
  /\ UNCHANGED <<owner, active, cancelled, aborted, discarding, view, toHost, pageVars>>

(***************************************************************************)
(* history.record settles, either way; a cancellation is not looked at.    *)
(***************************************************************************)
Recorded(e) ==
  /\ Finalize(e, "recording", <<>>)
  /\ UNCHANGED <<owner, cancelled, aborted, bodies, discarding, view, toHost, pageVars>>

(***************************************************************************)
(* A new view is resolved: resetForNewView disposes the request service    *)
(* (bodies dropped, every active execution cancelled and forgotten), and   *)
(* the page starts again from its cache, without executions or responses.  *)
(***************************************************************************)
ResolveView ==
  /\ view < MaxViews
  /\ view' = view + 1
  /\ bodies' = {} /\ active' = {} /\ discarding' = {}
  /\ cancelled' = cancelled \cup active
  /\ aborted' = aborted \cup {e \in active : stage[e] \in {"building", "connected"}}
  /\ toHost' = <<>> /\ toPage' = <<>>
  /\ phase' = [t \in Tabs |-> IF phase[t] = "closed" THEN "closed" ELSE "open"]
  /\ running' = [t \in Tabs |-> Nobody]
  /\ shown' = [t \in Tabs |-> Nobody]
  /\ offered' = [t \in Tabs |-> FALSE]
  /\ UNCHANGED <<stage, owner, latest, stopped>>

-----------------------------------------------------------------------------
(* The page *)

(***************************************************************************)
(* handleSend past its awaits, with beginExecution.                        *)
(***************************************************************************)
Send(t, e) ==
  /\ phase[t] = "open" /\ running[t] = Nobody
  /\ stage[e] = "none"
  /\ stage' = [stage EXCEPT ![e] = "posted"]
  /\ owner' = [owner EXCEPT ![e] = t]
  /\ running' = [running EXCEPT ![t] = e]
  /\ shown' = [shown EXCEPT ![t] = Nobody]
  /\ offered' = [offered EXCEPT ![t] = FALSE]
  /\ latest' = [latest EXCEPT ![t] = e]
  /\ toHost' = Append(toHost, Message("execute", e))
  /\ UNCHANGED <<active, cancelled, aborted, bodies, discarding, view, toPage, phase, stopped>>

(***************************************************************************)
(* cancelTabExecution, and then the messages more.                         *)
(***************************************************************************)
CancelTabExecution(t, more) ==
  IF running[t] = Nobody
    THEN toHost' = toHost \o more /\ UNCHANGED <<running, stopped>>
    ELSE /\ toHost' = Append(toHost, Message("cancel", running[t])) \o more
         /\ running' = [running EXCEPT ![t] = Nobody]
         /\ stopped' = IF shown[t] = running[t] THEN stopped ELSE stopped \cup {running[t]}

PressCancel(t) ==
  /\ phase[t] = "open" /\ running[t] # Nobody
  /\ CancelTabExecution(t, <<>>)
  /\ UNCHANGED <<hostVars, view, toPage, phase, shown, offered, latest>>

(***************************************************************************)
(* closeRequestTab up to releaseTab's first acknowledged message.          *)
(***************************************************************************)
CloseTab(t) ==
  /\ phase[t] = "open"
  /\ phase' = [phase EXCEPT ![t] = "discarding"]
  /\ CancelTabExecution(t, <<Message("discard", t)>>)
  /\ UNCHANGED <<hostVars, view, toPage, shown, offered, latest>>

PageReceives(types) ==
  /\ toPage # <<>> /\ Head(toPage).type \in types
  /\ toPage' = Tail(toPage)

(***************************************************************************)
(* releaseTab goes on: it releases the body of the response the tab holds, *)
(* if any (an error has none: releasing it changes nothing), then the      *)
(* files selected for the request, and the tab is removed.                 *)
(***************************************************************************)
ReleaseTab ==
  LET t == Head(toPage).id IN
  /\ PageReceives({"discarded"})
  /\ IF phase[t] # "discarding" THEN UNCHANGED <<phase, toHost>>
     ELSE /\ phase' = [phase EXCEPT ![t] = "releasing"]
          /\ toHost' = Append(toHost, IF shown[t] # Nobody THEN Message("release", shown[t])
                                                           ELSE Message("files", t))
  /\ UNCHANGED <<hostVars, view, running, shown, offered, latest, stopped>>

BodyReleased ==
  LET t == owner[Head(toPage).id] IN
  /\ PageReceives({"freed"})
  /\ toHost' = Append(toHost, Message("files", t))
  /\ UNCHANGED <<hostVars, view, phase, running, shown, offered, latest, stopped>>

CloseEnds ==
  LET t == Head(toPage).id IN
  /\ PageReceives({"cleared"})
  /\ phase' = [phase EXCEPT ![t] = "closed"]
  /\ UNCHANGED <<hostVars, view, toHost, running, shown, offered, latest, stopped>>

CloseFails ==
  LET t == Head(toPage).id IN
  /\ PageReceives({"kept"})
  /\ phase' = [phase EXCEPT ![t] = IF @ = "discarding" THEN "open" ELSE @]
  /\ UNCHANGED <<hostVars, view, toHost, running, shown, offered, latest, stopped>>

(***************************************************************************)
(* setExecutionState: only a tab that runs this execution changes.         *)
(***************************************************************************)
SetExecutionState ==
  LET m == Head(toPage) IN
  /\ PageReceives({"executing", "idle"})
  /\ running' = [t \in Tabs |->
       IF running[t] = m.id /\ m.type = "idle" THEN Nobody ELSE running[t]]
  /\ UNCHANGED <<hostVars, view, toHost, phase, shown, offered, latest, stopped>>

(***************************************************************************)
(* A fault in setResponse, for ShowsLatestOnly: the tab is found by its    *)
(* request.                                                                *)
(***************************************************************************)
SetResponseByRequest ==
  LET m == Head(toPage)
      takes(t) == owner[m.id] = t
  IN
  /\ PageReceives({"response", "failure"})
  /\ shown' = [t \in Tabs |-> IF takes(t) THEN m.id ELSE shown[t]]
  /\ offered' = [t \in Tabs |-> IF takes(t) THEN m.type = "response" ELSE offered[t]]
  /\ UNCHANGED <<hostVars, view, toHost, phase, running, latest, stopped>>

(***************************************************************************)
(* setResponse: only a tab that runs this execution takes the response.    *)
(***************************************************************************)
SetResponse ==
  LET m == Head(toPage)
      takes(t) == running[t] = m.id
  IN
  /\ PageReceives({"response", "failure"})
  /\ shown' = [t \in Tabs |-> IF takes(t) THEN m.id ELSE shown[t]]
  /\ offered' = [t \in Tabs |-> IF takes(t) THEN m.type = "response" ELSE offered[t]]
  /\ UNCHANGED <<hostVars, view, toHost, phase, running, latest, stopped>>

(***************************************************************************)
(* releaseResponseBodies: the tab that shows the response stops offering   *)
(* its download.                                                           *)
(***************************************************************************)
ReleaseResponseBodies ==
  LET m == Head(toPage) IN
  /\ PageReceives({"released"})
  /\ offered' = [t \in Tabs |-> offered[t] /\ shown[t] \notin m.id]
  /\ UNCHANGED <<hostVars, view, toHost, phase, running, shown, latest, stopped>>

-----------------------------------------------------------------------------
Host == \/ Execute \/ Cancel \/ ReleaseBody \/ ReleaseFiles \/ Discard
        \/ \E t \in Tabs, ok \in BOOLEAN : Discarded(t, ok)

Run(e) == \/ Prepared(e) \/ PreparationEnds(e) \/ Connect(e)
          \/ TransportFails(e) \/ Responds(e) \/ Recorded(e)

Page == \/ ReleaseTab \/ BodyReleased \/ CloseEnds \/ CloseFails
        \/ SetExecutionState \/ SetResponse \/ ReleaseResponseBodies

User == Len(toHost) < MaxWaiting /\ \E t \in Tabs : \/ PressCancel(t) \/ CloseTab(t)
                        \/ \E e \in Executions : Send(t, e)

Next == Host \/ (\E e \in Executions : Run(e)) \/ Page \/ User \/ ResolveView

Spec == Init /\ [][Next]_vars

-----------------------------------------------------------------------------
(* Properties *)

(***************************************************************************)
(* "Stale messages cannot mutate active state": a tab only holds the       *)
(* response of the last execution it began, and never that of an execution *)
(* that was cancelled before its response came.                            *)
(***************************************************************************)
ShowsLatestOnly ==
  \A t \in Tabs : shown[t] # Nobody => shown[t] = latest[t] /\ shown[t] \notin stopped

(***************************************************************************)
(* A download the page offers exists: the host still has the body, or the  *)
(* message that withdraws the offer is on its way, whatever is evicted,    *)
(* resent, released or reset in between.                                   *)
(***************************************************************************)
OfferedIsRetained ==
  \A t \in Tabs : offered[t] =>
    \/ shown[t] \in bodies
    \/ \E i \in DOMAIN toPage : toPage[i].type = "released" /\ shown[t] \in toPage[i].id

(***************************************************************************)
(* "One current body per request" and "resending a request also releases   *)
(* them": once the host has taken the next execution of a request, it      *)
(* keeps no body of an earlier one, however the two were cancelled.        *)
(***************************************************************************)
BodyIsOfLatestExecution ==
  \A b \in bodies :
    LET last == latest[owner[b]]
    IN b = last \/ Contains(toHost, Message("execute", last))

(***************************************************************************)
(* The host keeps the body a tab offers, and none that no tab can offer.   *)
(***************************************************************************)
BodiesMatchTabs == OfferedIsRetained /\ BodyIsOfLatestExecution

(***************************************************************************)
(* "Canceling while files are being prepared prevents a connection": once  *)
(* the host has taken the cancellation, or replaced the view, no           *)
(* connection is opened for the execution.                                 *)
(***************************************************************************)
NoConnectionOnceCancelled ==
  [][\A e \in Executions :
       stage'[e] = "connected" /\ stage[e] # "connected" => e \notin cancelled]_vars

(***************************************************************************)
(* A tab that shows a running request has something left to wait for: the  *)
(* host will take the execution, works on it, or has told the page that it *)
(* is over.  No cancellation, failure or finalization loses the end.       *)
(***************************************************************************)
RunningIsUnderWay ==
  \A t \in Tabs, e \in Executions :
    running[t] = e => \/ Contains(toHost, Message("execute", e))
                      \/ e \in active
                      \/ Contains(toPage, Message("idle", e))

=============================================================================
