--------------------------- MODULE StartupActions ---------------------------
(***************************************************************************)
(* How a command reaches the sidebar: src/commands/StartupActionQueue.ts,  *)
(* the lifecycle of the view in src/webview/JustAPIWebviewProvider.ts and  *)
(* its handler, and the page that performs the action and acknowledges it. *)
(*                                                                         *)
(* The extension host runs one continuation at a time; every await is a    *)
(* point where anything else may happen.  Views are numbered in the order  *)
(* VS Code resolves them; a page listens from when it posts webviewReady.  *)
(* Action ids are fresh UUIDs, so each action is enqueued once.            *)
(***************************************************************************)
EXTENDS Integers, Sequences, SequencesExt

CONSTANTS
  Actions,        \* the operation ids of startup actions
  MaxViews,       \* bound: views VS Code resolves
  MayClose,       \* whether a page may go away before its successor comes
  GreetingFaults  \* the views for which sending the initial state may fail

Views == 1 .. MaxViews

ASSUME ViewBound == MaxViews \in Nat \ {0} /\ GreetingFaults \subseteq Views

NoAction == "none"

ASSUME NoActionIsNoAction == NoAction \notin Actions

VARIABLES
  pending,     \* the keys of the pending Map
  inserted,    \* the order in which the Map got its keys, the deleted ones included
  delivered,   \* the pending actions marked as delivered
  target,      \* PendingAction.generation: the generation it was sent to, 0: undefined
  timers,      \* the pending actions with an acknowledgement timer
  ready,       \* the queue's ready flag
  disposed,    \* the queue's disposed flag
  generation,  \* number of the current target; views and generations agree
  sending,     \* the delivery flushPending awaits: action, generation, view
  result,      \* what became of each action's promise
  view,        \* the provider's current view, 0 before the first
  resolving,   \* TRUE while resolveWebviewView awaits resetForNewView
  greeting,    \* views whose webviewReady the handler is answering
  page,        \* state of each view's page
  inbox,       \* startup actions posted to each page and not yet handled
  acks,        \* acknowledgements posted by a page, not yet received
  performed    \* history: how often each page performed each action

queueVars == <<pending, inserted, delivered, target, timers, ready, disposed, generation,
               sending, result>>
viewVars == <<view, resolving, greeting>>
pageVars == <<page, acks, performed>>

vars == <<queueVars, viewVars, pageVars, inbox>>

Idle == [action |-> NoAction, generation |-> 0, view |-> 0]

Delivery == [action : Actions, generation : 0 .. MaxViews, view : 0 .. MaxViews]

TypeOK ==
  /\ inserted \in Seq(Actions) /\ pending \subseteq ToSet(inserted)
  /\ delivered \subseteq pending
  /\ target \in [Actions -> 0 .. MaxViews]
  /\ timers \subseteq delivered
  /\ ready \in BOOLEAN /\ disposed \in BOOLEAN /\ resolving \in BOOLEAN
  /\ generation \in 0 .. MaxViews
  /\ sending \in Delivery \cup {Idle}
  /\ result \in [Actions -> {"none", "pending", "done", "failed"}]
  /\ view \in 0 .. MaxViews
  /\ greeting \subseteq Views
  /\ page \in [Views -> {"none", "loading", "listening", "gone"}]
  /\ inbox \in [Views -> SUBSET Actions]
  /\ acks \in [Views -> SUBSET Actions]
  /\ performed \in [Views -> [Actions -> 0 .. 2]]

Init ==
  /\ pending = {} /\ inserted = <<>> /\ delivered = {} /\ timers = {}
  /\ target = [a \in Actions |-> 0]
  /\ ready = FALSE /\ disposed = FALSE /\ resolving = FALSE
  /\ generation = 0 /\ view = 0 /\ greeting = {}
  /\ sending = Idle
  /\ result = [a \in Actions |-> "none"]
  /\ page = [v \in Views |-> "none"]
  /\ inbox = [v \in Views |-> {}]
  /\ acks = [v \in Views |-> {}]
  /\ performed = [v \in Views |-> [a \in Actions |-> 0]]

-----------------------------------------------------------------------------
(* The queue *)

IsPending(a) == a \in pending

(***************************************************************************)
(* The next action flushPending sends when the keys of the Map are q and d *)
(* is delivered already: the loop visits the Map in its order, beyond the  *)
(* action it has just sent (which may be deleted by now), and is started   *)
(* again from the front while an action is left undelivered.               *)
(***************************************************************************)
NextToSend(order, q, d, sent) ==
  LET waiting == {i \in DOMAIN order : order[i] \in q \ d}
      beyond  == {i \in waiting : \E j \in 1 .. i - 1 : order[j] = sent}
  IN order[Min(IF beyond # {} THEN beyond ELSE waiting)]

(***************************************************************************)
(* flush, with flushPending up to its next await: mark the action as       *)
(* delivered to the current generation and post it to the current view.    *)
(* q and d are the pending and the delivered actions, order that of the    *)
(* Map, r whether the queue is ready.                                      *)
(***************************************************************************)
Send(order, q, d, r, sent) ==
  IF ~r \/ q \subseteq d
    THEN /\ sending' = Idle
         /\ delivered' = d
         /\ UNCHANGED <<target, inbox>>
    ELSE LET a == NextToSend(order, q, d, sent) IN
         /\ sending' = [action |-> a, generation |-> generation, view |-> view]
         /\ delivered' = d \cup {a}
         /\ target' = [target EXCEPT ![a] = generation]
         /\ inbox' = [v \in Views |->
              IF v = view /\ page[v] # "gone" THEN inbox[v] \cup {a} ELSE inbox[v]]

Flush(order, q, d, r) ==
  IF sending = Idle THEN Send(order, q, d, r, NoAction)
  ELSE delivered' = d /\ UNCHANGED <<sending, target, inbox>>

Settle(a, outcome) == result' = [result EXCEPT ![a] = outcome]

(***************************************************************************)
(* A command enqueues its action, or is rejected after disposal.           *)
(***************************************************************************)
Enqueue(a) ==
  /\ result[a] = "none"
  /\ IF disposed
       THEN /\ Settle(a, "failed")
            /\ UNCHANGED <<pending, inserted, delivered, target, sending, inbox>>
       ELSE /\ Settle(a, "pending")
            /\ pending' = pending \cup {a} /\ inserted' = Append(inserted, a)
            /\ Flush(inserted', pending', delivered, ready)
  /\ UNCHANGED <<timers, ready, disposed, generation, viewVars, pageVars>>

(***************************************************************************)
(* Faults of the delivery: the generation is not compared (for             *)
(* OnlyCurrentTargetFails); no timer is started (for                       *)
(* SettlesUnlessUngreeted).                                                *)
(***************************************************************************)

DeliversLate(ok) ==
  LET a == sending.action
      failing == IsPending(a) /\ ~ok
      q == IF failing THEN pending \ {a} ELSE pending
  IN
  /\ sending # Idle
  /\ ok \/ page[sending.view] = "gone"
  /\ pending' = q /\ UNCHANGED inserted
  /\ timers' = IF IsPending(a) /\ ok THEN timers \cup {a} ELSE timers \ {a}
  /\ IF failing THEN Settle(a, "failed") ELSE UNCHANGED result
  /\ Send(inserted, q, delivered \cap q, ready, a)
  /\ UNCHANGED <<ready, disposed, generation, viewVars, pageVars>>

DeliversUntimed(ok) ==
  LET a == sending.action
      failing == IsPending(a) /\ target[a] = sending.generation /\ ~ok
      q == IF failing THEN pending \ {a} ELSE pending
  IN
  /\ sending # Idle
  /\ ok \/ page[sending.view] = "gone"
  /\ pending' = q /\ UNCHANGED inserted
  /\ IF failing THEN Settle(a, "failed") ELSE UNCHANGED result
  /\ Send(inserted, q, delivered \cap q, ready, a)
  /\ UNCHANGED <<timers, ready, disposed, generation, viewVars, pageVars>>

(***************************************************************************)
(* The awaited postMessage settles.  If the action is still pending for    *)
(* the generation it was sent to, a success starts its acknowledgement     *)
(* timer and a refusal (the page is gone) fails it; then the loop goes on. *)
(***************************************************************************)
Delivers(ok) ==
  LET a == sending.action
      current == IsPending(a) /\ target[a] = sending.generation
      failing == current /\ ~ok
      q == IF failing THEN pending \ {a} ELSE pending
  IN
  /\ sending # Idle
  /\ ok \/ page[sending.view] = "gone"
  /\ pending' = q /\ UNCHANGED inserted
  /\ timers' = IF current /\ ok THEN timers \cup {a} ELSE timers
  /\ IF failing THEN Settle(a, "failed") ELSE UNCHANGED result
  /\ Send(inserted, q, delivered \cap q, ready, a)
  /\ UNCHANGED <<ready, disposed, generation, viewVars, pageVars>>

(***************************************************************************)
(* No acknowledgement came in time.                                        *)
(***************************************************************************)
TimeOut(a) ==
  /\ a \in timers
  /\ pending' = pending \ {a}
  /\ delivered' = delivered \ {a}
  /\ timers' = timers \ {a}
  /\ Settle(a, "failed")
  /\ UNCHANGED <<inserted, target, ready, disposed, generation, sending, viewVars, pageVars, inbox>>

(***************************************************************************)
(* startupActionHandled arrives through the listener of the current view;  *)
(* complete ignores it unless the action is pending and delivered.         *)
(***************************************************************************)
Complete(v, a) ==
  /\ a \in acks[v] /\ v = view /\ ~resolving /\ ~disposed
  /\ acks' = [acks EXCEPT ![v] = @ \ {a}]
  /\ IF a \in delivered
       THEN /\ pending' = pending \ {a}
            /\ Settle(a, "done")
       ELSE UNCHANGED <<pending, result>>
  /\ delivered' = delivered \ {a}
  /\ timers' = timers \ {a}
  /\ UNCHANGED <<inserted, target, ready, disposed, generation, sending, viewVars,
                 page, performed, inbox>>

(***************************************************************************)
(* The extension is deactivated: listeners go, pending actions fail.       *)
(***************************************************************************)
Dispose ==
  /\ ~disposed
  /\ disposed' = TRUE /\ ready' = FALSE
  /\ pending' = {} /\ delivered' = {} /\ timers' = {}
  /\ result' = [a \in Actions |-> IF IsPending(a) THEN "failed" ELSE result[a]]
  /\ UNCHANGED <<inserted, target, generation, sending, viewVars, pageVars, inbox>>

-----------------------------------------------------------------------------
(* The view *)

(***************************************************************************)
(* VS Code resolves a new view: the old page is gone, its listeners are    *)
(* disposed, and the handler's reset is awaited.                           *)
(***************************************************************************)
ResolveBegins ==
  /\ ~resolving /\ ~disposed
  /\ view < MaxViews
  /\ resolving' = TRUE
  /\ page' = [v \in Views |-> IF v = view THEN "gone" ELSE page[v]]
  /\ acks' = [v \in Views |-> {}]
  /\ inbox' = [v \in Views |-> {}]
  /\ UNCHANGED <<queueVars, view, greeting, performed>>

(***************************************************************************)
(* The rest of resolveWebviewView: the new view takes over and the queue   *)
(* is reset for it (unless disposed), which stops the acknowledgement      *)
(* timers and makes every pending action undelivered again.                *)
(***************************************************************************)
ResolveEnds ==
  /\ resolving
  /\ resolving' = FALSE
  /\ view' = view + 1
  /\ page' = [page EXCEPT ![view + 1] = "loading"]
  /\ generation' = IF disposed THEN generation ELSE view + 1
  /\ ready' = FALSE
  /\ delivered' = {} /\ timers' = {}
  /\ target' = [a \in Actions |-> IF IsPending(a) THEN 0 ELSE target[a]]
  /\ UNCHANGED <<pending, inserted, disposed, sending, result, greeting, acks, performed, inbox>>

(***************************************************************************)
(* A fault for PerformedOncePerPage: readiness sends every pending action  *)
(* again.                                                                  *)
(***************************************************************************)
GreetedAgain(v) ==
  /\ v \in greeting
  /\ greeting' = greeting \ {v}
  /\ ready' = ~disposed
  /\ Flush(inserted, pending, {}, ready')
  /\ UNCHANGED <<pending, inserted, timers, disposed, generation, result, view, resolving, pageVars>>

(***************************************************************************)
(* The page's webviewReady reaches the handler, which loads the stores and *)
(* sends the initial state.  When that is done it declares the queue       *)
(* ready; it does not look at whether the view is still the current one.   *)
(***************************************************************************)
WebviewReady(v) ==
  /\ page[v] = "loading"
  /\ page' = [page EXCEPT ![v] = "listening"]
  /\ greeting' = IF disposed THEN greeting ELSE greeting \cup {v}
  /\ UNCHANGED <<queueVars, view, resolving, acks, performed, inbox>>

Greeted(v) ==
  /\ v \in greeting
  /\ greeting' = greeting \ {v}
  /\ ready' = ~disposed
  /\ Flush(inserted, pending, delivered, ready')
  /\ UNCHANGED <<pending, inserted, timers, disposed, generation, result, view, resolving, pageVars>>

GreetingFails(v) ==
  /\ v \in greeting \cap GreetingFaults
  /\ greeting' = greeting \ {v}
  /\ UNCHANGED <<queueVars, view, resolving, pageVars, inbox>>

-----------------------------------------------------------------------------
(* The page *)

(***************************************************************************)
(* A listening page performs the action and acknowledges it at once.       *)
(***************************************************************************)
Perform(v, a) ==
  /\ page[v] = "listening"
  /\ a \in inbox[v]
  /\ inbox' = [inbox EXCEPT ![v] = @ \ {a}]
  /\ acks' = [acks EXCEPT ![v] = @ \cup {a}]
  /\ performed' = [performed EXCEPT ![v][a] = @ + 1]
  /\ UNCHANGED <<queueVars, viewVars, page>>

(***************************************************************************)
(* A message posted to a page that does not listen yet may find nobody.    *)
(***************************************************************************)
Missed(v, a) ==
  /\ page[v] = "loading"
  /\ a \in inbox[v]
  /\ inbox' = [inbox EXCEPT ![v] = @ \ {a}]
  /\ UNCHANGED <<queueVars, viewVars, pageVars>>

Close(v) ==
  /\ MayClose
  /\ page[v] \in {"loading", "listening"}
  /\ page' = [page EXCEPT ![v] = "gone"]
  /\ inbox' = [inbox EXCEPT ![v] = {}]
  /\ acks' = [acks EXCEPT ![v] = {}]
  /\ UNCHANGED <<queueVars, viewVars, performed>>

Next ==
  \/ \E a \in Actions : Enqueue(a) \/ TimeOut(a)
  \/ \E ok \in BOOLEAN : Delivers(ok)
  \/ Dispose \/ ResolveBegins \/ ResolveEnds
  \/ \E v \in Views :
       \/ WebviewReady(v) \/ Greeted(v) \/ GreetingFails(v) \/ Close(v)
       \/ \E a \in Actions : Complete(v, a) \/ Perform(v, a) \/ Missed(v, a)

Spec == Init /\ [][Next]_vars

(***************************************************************************)
(* Promises of VS Code settle, pages load and answer, timers fire, and a   *)
(* command opens the view.  Nothing says that a view is replaced, closed   *)
(* or disposed, or that a message is missed.                               *)
(***************************************************************************)
Fairness ==
  /\ WF_vars(\E ok \in BOOLEAN : Delivers(ok))
  /\ WF_vars(ResolveEnds)
  /\ WF_vars(view = 0 /\ ResolveBegins)
  /\ \A v \in Views : /\ WF_vars(WebviewReady(v))
                      /\ WF_vars(Greeted(v) \/ GreetingFails(v))
  /\ \A a \in Actions : WF_vars(TimeOut(a))

FairSpec == Spec /\ Fairness
-----------------------------------------------------------------------------
(* Properties *)

(***************************************************************************)
(* "Repeated readiness signals cannot redeliver it": whatever resets,      *)
(* readiness signals, timeouts and late settlements do, one page never     *)
(* performs the same action twice.                                         *)
(***************************************************************************)
PerformedOncePerPage ==
  \A v \in Views, a \in Actions : performed[v][a] <= 1

(***************************************************************************)
(* A command reports success only when a page really performed its action. *)
(***************************************************************************)
DoneMeansPerformed ==
  \A a \in Actions : result[a] = "done" => \E v \in Views : performed[v][a] > 0

(***************************************************************************)
(* "The startup queue is reset for the new target so pending commands can  *)
(* be redelivered": neither the late refusal nor the timer of a delivery   *)
(* to a replaced view fails an action; only the current target's may.      *)
(***************************************************************************)
OnlyCurrentTargetFails ==
  [][\A a \in Actions :
       result[a] = "pending" /\ result'[a] = "failed"
         => disposed' \/ (a \in delivered /\ target[a] = generation)]_vars

(***************************************************************************)
(* What a page performs is what a command reports, at most once and not    *)
(* without success.                                                        *)
(***************************************************************************)
PerformedAsReported == PerformedOncePerPage /\ DoneMeansPerformed

(***************************************************************************)
(* What the code guarantees: a command settles whatever is lost, refused,  *)
(* replaced or closed, unless the current view is never greeted: its page  *)
(* went away before it announced itself, or its greeting failed.           *)
(***************************************************************************)
Ungreeted ==
  view > 0 /\ ~ready /\ view \notin greeting /\ page[view] # "loading"

SettlesUnlessUngreeted ==
  \A a \in Actions :
    result[a] = "pending" ~> result[a] \in {"done", "failed"} \/ Ungreeted
=============================================================================
