------------------------ MODULE StartupActionsProofs ------------------------
(***************************************************************************)
(* Proofs about StartupActions, for any actions, number of views, closing  *)
(* pages and failing greetings.                                            *)
(***************************************************************************)
EXTENDS StartupActions, FiniteSetTheorems, WellFoundedInduction, TLAPS

-----------------------------------------------------------------------------
(* The action the loop sends next *)

(***************************************************************************)
(* A set of natural numbers has a least element: the intervals below its   *)
(* elements are finite sets, which strict inclusion orders well.           *)
(***************************************************************************)
LEMMA LeastExists ==
  ASSUME NEW T, T \subseteq Nat, T # {}
  PROVE  Min(T) \in T
<1> DEFINE Below == {0 .. n : n \in T}
           Smaller == StrictSubsetOrdering(Nat)
<1>1. IsWellFoundedOn(Smaller, FiniteSubsetsOf(Nat))
  BY FS_StrictSubsetOrderingWellFounded
<1>2. Below \subseteq FiniteSubsetsOf(Nat) /\ Below # {}
  <2>1. \A n \in T : IsFiniteSet(0 .. n) /\ 0 .. n \subseteq Nat
    BY FS_Interval
  <2> QED
    BY <2>1 DEF FiniteSubsetsOf
<1>3. PICK F \in Below : \A G \in Below : <<G, F>> \notin Smaller
  <2> HIDE DEF Below, Smaller
  <2> QED
    BY <1>1, <1>2, WFMin
<1>4. PICK m \in T : F = 0 .. m
  BY <1>3
<1>5. ASSUME NEW n \in T PROVE m <= n
  <2> SUFFICES ASSUME n < m PROVE FALSE
    OBVIOUS
  <2>1. m \in 0 .. m /\ m \notin 0 .. n /\ 0 .. n \subseteq 0 .. m
    OBVIOUS
  <2>2. 0 .. n \in SUBSET Nat /\ 0 .. m \in SUBSET Nat /\ 0 .. n # 0 .. m
    BY <2>1
  <2>3. <<0 .. n, 0 .. m>> \in Smaller
    BY <2>1, <2>2 DEF StrictSubsetOrdering
  <2> QED
    BY <2>3, <1>3, <1>4
<1> QED
  BY <1>5 DEF Min

(***************************************************************************)
(* What flushPending sends next is pending and not delivered.              *)
(***************************************************************************)
LEMMA NextIsWaiting ==
  ASSUME NEW order \in Seq(Actions), NEW q, q \subseteq ToSet(order), NEW d, ~(q \subseteq d),
         NEW sent
  PROVE  NextToSend(order, q, d, sent) \in q \ d
<1> DEFINE waiting == {i \in DOMAIN order : order[i] \in q \ d}
           beyond  == {i \in waiting : \E j \in 1 .. i - 1 : order[j] = sent}
           places  == IF beyond # {} THEN beyond ELSE waiting
<1>1. waiting # {} /\ waiting \subseteq Nat
  BY DEF ToSet
<1>2. places \subseteq waiting /\ places # {} /\ places \subseteq Nat
  BY <1>1
<1>3. Min(places) \in waiting
  <2> HIDE DEF places, waiting, beyond
  <2> QED
    BY <1>2, LeastExists
<1>4. NextToSend(order, q, d, sent) = order[Min(places)]
  BY DEF NextToSend
<1> HIDE DEF places, beyond
<1> QED
  BY <1>3, <1>4

-----------------------------------------------------------------------------
(* The inductive invariant *)

(***************************************************************************)
(* The queue: a promise is pending while its action is; a delivered action *)
(* was sent to the current target, and one that has a target is delivered. *)
(***************************************************************************)
QueueInv ==
  /\ \A a \in Actions : a \in pending <=> result[a] = "pending"
  /\ disposed => pending = {} /\ ~ready
  /\ ~disposed => generation = view
  /\ ready => view > 0
  /\ \A a \in delivered : target[a] = generation
  /\ \A a \in Actions :
       target[a] # 0 /\ result[a] \in {"none", "pending"} => a \in delivered
  /\ sending # Idle => sending.generation > 0 /\ sending.action \notin timers

(***************************************************************************)
(* The pages: nothing has happened to a page that is not there yet, a page *)
(* that has an action before it has not performed it, and acknowledges     *)
(* only what it performed.                                                 *)
(***************************************************************************)
PageInv ==
  /\ greeting \subseteq 1 .. view
  /\ resolving => view < MaxViews
  /\ \A v \in Views : v > view =>
       page[v] = "none" /\ inbox[v] = {} /\ acks[v] = {} /\ \A a \in Actions : performed[v][a] = 0
  /\ \A v \in Views : \A a \in inbox[v] : performed[v][a] = 0
  /\ \A v \in Views : \A a \in acks[v] : performed[v][a] > 0

(***************************************************************************)
(* What has still to be sent has not reached the current page.             *)
(***************************************************************************)
ToBeSent(a) == result[a] = "none" \/ a \in pending \ delivered

UnsentIsNew ==
  \A a \in Actions : ToBeSent(a) /\ view > 0 => a \notin inbox[view] /\ performed[view][a] = 0

IInv == TypeOK /\ QueueInv /\ PageInv /\ UnsentIsNew /\ PerformedAsReported

-----------------------------------------------------------------------------
(* What a flush does: nothing is sent, or one action that waits *)

Quiet(d) ==
  /\ sending' \in {Idle, sending} /\ delivered' = d
  /\ UNCHANGED <<target, inbox>>

Sends(a, d) ==
  /\ sending' = [action |-> a, generation |-> generation, view |-> view]
  /\ delivered' = d \cup {a}
  /\ target' = [target EXCEPT ![a] = generation]
  /\ inbox' = [v \in Views |->
       IF v = view /\ page[v] # "gone" THEN inbox[v] \cup {a} ELSE inbox[v]]

LEMMA SendEffect ==
  ASSUME NEW order \in Seq(Actions), NEW q, q \subseteq ToSet(order), NEW d, NEW r, NEW sent,
         Send(order, q, d, r, sent)
  PROVE  Quiet(d) \/ (r /\ \E a \in q \ d : Sends(a, d))
<1>1. CASE ~r \/ q \subseteq d
  BY <1>1 DEF Send, Quiet
<1>2. CASE ~(~r \/ q \subseteq d)
  <2>1. NextToSend(order, q, d, sent) \in q \ d
    BY <1>2, NextIsWaiting
  <2>2. Sends(NextToSend(order, q, d, sent), d)
    BY <1>2 DEF Send, Sends
  <2> QED
    BY <1>2, <2>1, <2>2
<1> QED
  BY <1>1, <1>2

LEMMA FlushEffect ==
  ASSUME NEW order \in Seq(Actions), NEW q, q \subseteq ToSet(order), NEW d, NEW r,
         Flush(order, q, d, r)
  PROVE  Quiet(d) \/ (r /\ \E a \in q \ d : Sends(a, d))
<1>1. CASE sending = Idle
  BY <1>1, SendEffect DEF Flush
<1>2. CASE sending # Idle
  BY <1>2 DEF Flush, Quiet
<1> QED
  BY <1>1, <1>2

(***************************************************************************)
(* The Map has the keys it had, and the new one.                           *)
(***************************************************************************)
LEMMA AppendKeepsKeys ==
  ASSUME NEW order \in Seq(Actions), NEW a \in Actions, NEW q, q \subseteq ToSet(order)
  PROVE  Append(order, a) \in Seq(Actions) /\ q \cup {a} \subseteq ToSet(Append(order, a))
<1>1. Append(order, a)[Len(order) + 1] = a /\ Len(order) + 1 \in DOMAIN Append(order, a)
  OBVIOUS
<1>2. ASSUME NEW b \in q PROVE b \in ToSet(Append(order, a))
  <2>1. PICK i \in DOMAIN order : order[i] = b
    BY DEF ToSet
  <2>2. i \in DOMAIN Append(order, a) /\ Append(order, a)[i] = b
    BY <2>1
  <2> QED
    BY <2>2 DEF ToSet
<1> QED
  BY <1>1, <1>2 DEF ToSet

(***************************************************************************)
(* A flush of q, of which d is delivered, keeps the types of what it       *)
(* changes and sends to the current page only what it has not seen.        *)
(***************************************************************************)
LEMMA FlushTypes ==
  ASSUME TypeOK, PageInv, NEW q \in SUBSET Actions, NEW d \in SUBSET q, NEW r, r => view > 0,
         Quiet(d) \/ (r /\ \E a \in q \ d : Sends(a, d)),
         \A a \in q \ d : view > 0 => performed[view][a] = 0
  PROVE  /\ delivered' \subseteq q /\ d \subseteq delivered'
         /\ target' \in [Actions -> 0 .. MaxViews]
         /\ sending' \in Delivery \cup {Idle}
         /\ inbox' \in [Views -> SUBSET Actions]
         /\ \A v \in Views : v > view => inbox'[v] = {}
         /\ \A v \in Views : \A a \in inbox'[v] : performed[v][a] = 0
         /\ \A a \in q \ delivered' : view > 0 /\ a \notin inbox[view] => a \notin inbox'[view]
         /\ \A a \in Actions \ q : view > 0 /\ a \notin inbox[view] => a \notin inbox'[view]
<1>1. CASE Quiet(d)
  BY <1>1 DEF Quiet, TypeOK, PageInv
<1>2. ASSUME NEW a \in q \ d, r, Sends(a, d)
      PROVE  /\ delivered' \subseteq q /\ d \subseteq delivered'
             /\ target' \in [Actions -> 0 .. MaxViews]
             /\ sending' \in Delivery \cup {Idle}
             /\ inbox' \in [Views -> SUBSET Actions]
             /\ \A v \in Views : v > view => inbox'[v] = {}
             /\ \A v \in Views : \A b \in inbox'[v] : performed[v][b] = 0
             /\ \A b \in Actions : b # a /\ view > 0 /\ b \notin inbox[view] => b \notin inbox'[view]
  BY <1>2, ViewBound DEF Sends, TypeOK, PageInv, Delivery, Views
<1> QED
  BY <1>1, <1>2 DEF Sends

-----------------------------------------------------------------------------
(* Induction *)

LEMMA InitInv == Init => IInv
<1> SUFFICES ASSUME Init PROVE IInv
  OBVIOUS
<1>1. TypeOK
  <2>1. inserted \in Seq(Actions) /\ pending \subseteq ToSet(inserted)
    BY DEF Init
  <2>2. target \in [Actions -> 0 .. MaxViews] /\ generation \in 0 .. MaxViews /\ view \in 0 .. MaxViews
    BY ViewBound DEF Init
  <2>3. /\ page \in [Views -> {"none", "loading", "listening", "gone"}]
        /\ inbox \in [Views -> SUBSET Actions] /\ acks \in [Views -> SUBSET Actions]
    BY DEF Init
  <2>4. performed \in [Views -> [Actions -> 0 .. 2]]
    BY DEF Init
  <2> QED
    BY <2>1, <2>2, <2>3, <2>4 DEF Init, TypeOK
<1>2. QueueInv /\ PageInv /\ UnsentIsNew /\ PerformedAsReported
  BY ViewBound
     DEF Init, QueueInv, PageInv, UnsentIsNew, ToBeSent, PerformedAsReported,
         PerformedOncePerPage, DoneMeansPerformed
<1> QED
  BY <1>1, <1>2 DEF IInv

(***************************************************************************)
(* The steps that flush.                                                   *)
(***************************************************************************)
LEMMA PendingAreActions == TypeOK => pending \in SUBSET Actions
  BY DEF TypeOK, ToSet

LEMMA EnqueueStep ==
  ASSUME IInv, NEW a \in Actions, Enqueue(a)
  PROVE  IInv'
<1> USE PendingAreActions DEF IInv
<1>1. CASE disposed
  <2>1. TypeOK'
    BY <1>1 DEF Enqueue, Settle, TypeOK, viewVars, pageVars
  <2>2. /\ result' = [result EXCEPT ![a] = "failed"] /\ result[a] = "none"
        /\ UNCHANGED <<pending, inserted, delivered, target, sending, inbox, timers, ready,
                       disposed, generation, viewVars, pageVars>>
    BY <1>1 DEF Enqueue, Settle
  <2>3. QueueInv' /\ PageInv'
    BY <2>2 DEF TypeOK, QueueInv, PageInv, viewVars, pageVars
  <2>4. UnsentIsNew' /\ PerformedAsReported'
    BY <2>2 DEF TypeOK, UnsentIsNew, ToBeSent, PerformedAsReported, PerformedOncePerPage,
                DoneMeansPerformed, viewVars, pageVars
  <2> QED
    BY <2>1, <2>3, <2>4
<1>2. CASE ~disposed
  <2> DEFINE q == pending \cup {a}
  <2>1. inserted' \in Seq(Actions) /\ q \subseteq ToSet(inserted')
    BY <1>2, AppendKeepsKeys DEF Enqueue, TypeOK
  <2>2. Quiet(delivered) \/ (ready /\ \E b \in q \ delivered : Sends(b, delivered))
    <3>1. Flush(inserted', q, delivered, ready)
      BY <1>2 DEF Enqueue
    <3> HIDE DEF q
    <3> QED
      BY <2>1, <3>1, FlushEffect
  <2>3. q \in SUBSET Actions /\ delivered \in SUBSET q /\ (ready => view > 0)
    BY DEF TypeOK, QueueInv
  <2>4. \A b \in q \ delivered : view > 0 => performed[view][b] = 0
    BY DEF UnsentIsNew, ToBeSent, Enqueue, TypeOK
  <2>5. /\ delivered' \subseteq q /\ delivered \subseteq delivered'
        /\ target' \in [Actions -> 0 .. MaxViews]
        /\ sending' \in Delivery \cup {Idle}
        /\ inbox' \in [Views -> SUBSET Actions]
        /\ \A v \in Views : v > view => inbox'[v] = {}
        /\ \A v \in Views : \A b \in inbox'[v] : performed[v][b] = 0
        /\ \A b \in q \ delivered' : view > 0 /\ b \notin inbox[view] => b \notin inbox'[view]
        /\ \A b \in Actions \ q : view > 0 /\ b \notin inbox[view] => b \notin inbox'[view]
    <3> HIDE DEF q
    <3> QED
      BY <2>2, <2>3, <2>4, FlushTypes
  <2>6. pending' = q /\ result' = [result EXCEPT ![a] = "pending"] /\ result[a] = "none"
    BY <1>2 DEF Enqueue, Settle
  <2>7. UNCHANGED <<timers, ready, disposed, generation, viewVars, pageVars>>
    BY DEF Enqueue
  <2>8. TypeOK'
    BY <2>1, <2>5, <2>6, <2>7 DEF TypeOK, viewVars, pageVars
  <2>9. QueueInv'
    <3>1. /\ \A b \in Actions : b \in pending' <=> result'[b] = "pending"
          /\ ~disposed' /\ generation' = view'
          /\ ready' => view' > 0
      BY <1>2, <2>6, <2>7 DEF QueueInv, TypeOK, viewVars
    <3>2. CASE Quiet(delivered)
      <4>1. /\ \A b \in delivered' : target'[b] = generation'
            /\ sending' # Idle => sending'.generation > 0 /\ sending'.action \notin timers'
        BY <2>7, <3>2 DEF QueueInv, Quiet
      <4>2. target' = target /\ delivered' = delivered /\ target[a] = 0
        BY <2>6, <3>2 DEF Quiet, QueueInv, TypeOK
      <4> QED
        BY <2>6, <3>1, <4>1, <4>2 DEF QueueInv, TypeOK
    <3>3. ASSUME NEW b \in q \ delivered, ready, Sends(b, delivered) PROVE QueueInv'
      <4>1. \A c \in delivered' : target'[c] = generation'
        BY <2>3, <2>7, <3>3 DEF QueueInv, Sends, TypeOK
      <4>2. ASSUME NEW c \in Actions, target'[c] # 0, result'[c] \in {"none", "pending"}
            PROVE  c \in delivered'
        <5>1. CASE c = b
          BY <3>3, <5>1 DEF Sends
        <5>2. CASE c # b
          BY <2>6, <3>3, <4>2, <5>2 DEF QueueInv, Sends, TypeOK
        <5> QED
          BY <5>1, <5>2
      <4>3. sending'.action = b /\ sending'.generation > 0 /\ b \notin timers'
        BY <2>3, <2>7, <3>3 DEF Sends, QueueInv, TypeOK
      <4> QED
        BY <3>1, <4>1, <4>2, <4>3 DEF QueueInv
    <3> QED
      BY <2>2, <3>2, <3>3
  <2>10. PageInv'
    BY <2>5, <2>7 DEF TypeOK, PageInv, viewVars, pageVars
  <2>11. UnsentIsNew'
    BY <2>5, <2>6, <2>7 DEF TypeOK, UnsentIsNew, ToBeSent, viewVars, pageVars, QueueInv
  <2>12. PerformedAsReported'
    BY <2>6, <2>7
       DEF TypeOK, PerformedAsReported, PerformedOncePerPage, DoneMeansPerformed, pageVars
  <2> QED
    BY <2>8, <2>9, <2>10, <2>11, <2>12
<1> QED
  BY <1>1, <1>2

LEMMA DeliversStep ==
  ASSUME IInv, NEW ok \in BOOLEAN, Delivers(ok)
  PROVE  IInv'
<1> USE PendingAreActions DEF IInv
<1> DEFINE a == sending.action
           current == IsPending(a) /\ target[a] = sending.generation
           failing == current /\ ~ok
           q == IF failing THEN pending \ {a} ELSE pending
           d == delivered \cap q
<1>1. a \in Actions /\ sending.generation > 0
  BY DEF Delivers, TypeOK, Delivery, QueueInv
<1>2. current => a \in delivered
  BY <1>1 DEF IsPending, QueueInv, TypeOK, Delivery
<1>3. Quiet(d) \/ (ready /\ \E b \in q \ d : Sends(b, d))
  <2>1. Send(inserted, q, d, ready, a) /\ inserted \in Seq(Actions) /\ q \subseteq ToSet(inserted)
    BY DEF Delivers, TypeOK
  <2> HIDE DEF q, d, a
  <2> QED
    BY <2>1, SendEffect
<1>4. q \in SUBSET Actions /\ d \in SUBSET q /\ (ready => view > 0)
  BY DEF TypeOK, QueueInv
<1>5. \A b \in q \ d : view > 0 => performed[view][b] = 0
  BY DEF UnsentIsNew, ToBeSent, TypeOK
<1>6. /\ delivered' \subseteq q /\ d \subseteq delivered'
      /\ target' \in [Actions -> 0 .. MaxViews]
      /\ sending' \in Delivery \cup {Idle}
      /\ inbox' \in [Views -> SUBSET Actions]
      /\ \A v \in Views : v > view => inbox'[v] = {}
      /\ \A v \in Views : \A b \in inbox'[v] : performed[v][b] = 0
      /\ \A b \in q \ delivered' : view > 0 /\ b \notin inbox[view] => b \notin inbox'[view]
      /\ \A b \in Actions \ q : view > 0 /\ b \notin inbox[view] => b \notin inbox'[view]
  <2> HIDE DEF q, d
  <2> QED
    BY <1>3, <1>4, <1>5, FlushTypes
<1>7. /\ pending' = q
      /\ timers' = IF current /\ ok THEN timers \cup {a} ELSE timers
      /\ result' = IF failing THEN [result EXCEPT ![a] = "failed"] ELSE result
      /\ UNCHANGED <<inserted, ready, disposed, generation, viewVars, pageVars>>
  BY DEF Delivers, Settle
<1>8. TypeOK'
  <2>1. timers' \subseteq delivered'
    <3>1. CASE current /\ ok
      BY <1>2, <1>6, <1>7, <3>1 DEF TypeOK
    <3>2. CASE failing
      BY <1>6, <1>7, <3>2 DEF TypeOK, QueueInv, Delivers
    <3>3. CASE ~current
      BY <1>6, <1>7, <3>3 DEF TypeOK
    <3> QED
      BY <3>1, <3>2, <3>3
  <2> QED
    BY <1>1, <1>6, <1>7, <2>1 DEF TypeOK, viewVars, pageVars
<1>9. QueueInv'
  <2>1. \A b \in Actions : b \in pending' <=> result'[b] = "pending"
    BY <1>1, <1>7 DEF QueueInv, TypeOK, IsPending
  <2>2. /\ disposed' => pending' = {} /\ ~ready'
        /\ ~disposed' => generation' = view'
        /\ ready' => view' > 0
    BY <1>4, <1>7 DEF QueueInv, viewVars
  <2>3. CASE Quiet(d)
    <3>1. /\ \A b \in delivered' : target'[b] = generation'
          /\ \A b \in Actions :
               target'[b] # 0 /\ result'[b] \in {"none", "pending"} => b \in delivered'
      BY <1>1, <1>7, <2>3 DEF QueueInv, Quiet, TypeOK, IsPending
    <3>2. sending' = Idle
      BY DEF Delivers, Send, Quiet, Sends
    <3> QED
      BY <2>1, <2>2, <3>1, <3>2 DEF QueueInv
  <2>4. ASSUME NEW b \in q \ d, ready, Sends(b, d) PROVE QueueInv'
    <3>1. /\ \A c \in delivered' : target'[c] = generation'
          /\ \A c \in Actions :
               target'[c] # 0 /\ result'[c] \in {"none", "pending"} => c \in delivered'
      BY <1>1, <1>4, <1>7, <2>4 DEF QueueInv, Sends, TypeOK, IsPending
    <3>2. b \notin timers'
      BY <1>2, <1>7, <2>4 DEF QueueInv, TypeOK
    <3>3. sending'.generation > 0 /\ sending'.action = b
      BY <2>4 DEF Sends, QueueInv
    <3> QED
      BY <2>1, <2>2, <3>1, <3>2, <3>3 DEF QueueInv
  <2> QED
    BY <1>3, <2>3, <2>4
<1>10. PageInv'
  BY <1>6, <1>7 DEF TypeOK, PageInv, viewVars, pageVars
<1>11. UnsentIsNew'
  BY <1>1, <1>6, <1>7 DEF TypeOK, UnsentIsNew, ToBeSent, viewVars, pageVars, QueueInv, IsPending
<1>12. PerformedAsReported'
  BY <1>7 DEF TypeOK, PerformedAsReported, PerformedOncePerPage, DoneMeansPerformed, pageVars
<1> QED
  BY <1>8, <1>9, <1>10, <1>11, <1>12

LEMMA GreetedStep ==
  ASSUME IInv, NEW v \in Views, Greeted(v)
  PROVE  IInv'
<1> USE PendingAreActions DEF IInv
<1>1. ready' = ~disposed /\ (ready' => view > 0)
  BY DEF Greeted, PageInv, TypeOK, Views
<1>2. Quiet(delivered) \/ (ready' /\ \E b \in pending \ delivered : Sends(b, delivered))
  <2>1. Flush(inserted, pending, delivered, ready')
    BY DEF Greeted
  <2> QED
    BY <2>1, FlushEffect DEF TypeOK
<1>3. \A b \in pending \ delivered : view > 0 => performed[view][b] = 0
  BY DEF UnsentIsNew, ToBeSent, TypeOK
<1>4. /\ delivered' \subseteq pending /\ delivered \subseteq delivered'
      /\ target' \in [Actions -> 0 .. MaxViews]
      /\ sending' \in Delivery \cup {Idle}
      /\ inbox' \in [Views -> SUBSET Actions]
      /\ \A w \in Views : w > view => inbox'[w] = {}
      /\ \A w \in Views : \A b \in inbox'[w] : performed[w][b] = 0
      /\ \A b \in pending \ delivered' : view > 0 /\ b \notin inbox[view] => b \notin inbox'[view]
      /\ \A b \in Actions \ pending : view > 0 /\ b \notin inbox[view] => b \notin inbox'[view]
  BY <1>1, <1>2, <1>3, FlushTypes DEF TypeOK
<1>5. /\ greeting' = greeting \ {v}
      /\ UNCHANGED <<pending, inserted, timers, disposed, generation, result, view, resolving,
                     pageVars>>
  BY DEF Greeted
<1>6. TypeOK'
  BY <1>1, <1>4, <1>5 DEF TypeOK, pageVars
<1>7. QueueInv'
  <2>1. /\ \A b \in Actions : b \in pending' <=> result'[b] = "pending"
        /\ disposed' => pending' = {} /\ ~ready'
        /\ ~disposed' => generation' = view'
        /\ ready' => view' > 0
    BY <1>1, <1>5 DEF QueueInv
  <2>2. CASE Quiet(delivered)
    BY <1>5, <2>1, <2>2 DEF QueueInv, Quiet
  <2>3. ASSUME NEW b \in pending \ delivered, ready', Sends(b, delivered) PROVE QueueInv'
    <3>1. /\ \A c \in delivered' : target'[c] = generation'
          /\ \A c \in Actions :
               target'[c] # 0 /\ result'[c] \in {"none", "pending"} => c \in delivered'
      BY <1>5, <2>3 DEF QueueInv, Sends, TypeOK
    <3>2. sending'.action = b /\ sending'.generation > 0 /\ b \notin timers'
      BY <1>1, <1>5, <2>3 DEF Sends, QueueInv, TypeOK
    <3> QED
      BY <2>1, <3>1, <3>2 DEF QueueInv
  <2> QED
    BY <1>2, <2>2, <2>3
<1>8. PageInv'
  BY <1>4, <1>5 DEF TypeOK, PageInv, pageVars
<1>9. UnsentIsNew'
  BY <1>4, <1>5 DEF TypeOK, UnsentIsNew, ToBeSent, pageVars, QueueInv
<1>10. PerformedAsReported'
  BY <1>5 DEF PerformedAsReported, PerformedOncePerPage, DoneMeansPerformed, pageVars
<1> QED
  BY <1>6, <1>7, <1>8, <1>9, <1>10

(***************************************************************************)
(* The steps of the queue that send nothing.                               *)
(***************************************************************************)
LEMMA QueueStep ==
  ASSUME IInv, \/ \E a \in Actions : TimeOut(a)
               \/ \E v \in Views, a \in Actions : Complete(v, a)
               \/ Dispose
  PROVE  IInv'
<1> USE PendingAreActions
    DEF IInv, Settle, viewVars, pageVars, PerformedAsReported, PerformedOncePerPage,
        DoneMeansPerformed, IsPending
<1>1. ASSUME NEW a \in Actions, TimeOut(a) PROVE IInv'
  <2>1. TypeOK'
    BY <1>1 DEF TimeOut, TypeOK
  <2>2. QueueInv'
    BY <1>1 DEF TimeOut, TypeOK, QueueInv
  <2>3. PageInv' /\ UnsentIsNew' /\ PerformedAsReported'
    BY <1>1 DEF TimeOut, TypeOK, PageInv, UnsentIsNew, ToBeSent
  <2> QED
    BY <2>1, <2>2, <2>3
<1>2. ASSUME NEW v \in Views, NEW a \in Actions, Complete(v, a) PROVE IInv'
  <2>1. TypeOK'
    BY <1>2 DEF Complete, TypeOK
  <2>2. QueueInv'
    BY <1>2 DEF Complete, TypeOK, QueueInv
  <2>3. PageInv' /\ UnsentIsNew'
    BY <1>2 DEF Complete, TypeOK, PageInv, UnsentIsNew, ToBeSent
  <2>4. PerformedAsReported'
    BY <1>2 DEF Complete, TypeOK, PageInv
  <2> QED
    BY <2>1, <2>2, <2>3, <2>4
<1>3. ASSUME Dispose PROVE IInv'
  <2>1. TypeOK'
    BY <1>3 DEF Dispose, TypeOK
  <2>2. QueueInv'
    BY <1>3 DEF Dispose, TypeOK, QueueInv
  <2>3. PageInv' /\ UnsentIsNew' /\ PerformedAsReported'
    BY <1>3 DEF Dispose, TypeOK, PageInv, UnsentIsNew, ToBeSent
  <2> QED
    BY <2>1, <2>2, <2>3
<1> QED
  BY <1>1, <1>2, <1>3

(***************************************************************************)
(* The steps of the view and of the pages.                                 *)
(***************************************************************************)
LEMMA ViewStep ==
  ASSUME IInv, \/ ResolveBegins \/ ResolveEnds
               \/ \E v \in Views : WebviewReady(v) \/ GreetingFails(v)
  PROVE  IInv'
<1> USE PendingAreActions
    DEF IInv, viewVars, pageVars, queueVars, PerformedAsReported, PerformedOncePerPage,
        DoneMeansPerformed
<1>1. ASSUME ResolveBegins PROVE IInv'
  <2>1. TypeOK'
    BY <1>1 DEF ResolveBegins, TypeOK
  <2>2. QueueInv' /\ PerformedAsReported'
    BY <1>1 DEF ResolveBegins, QueueInv
  <2>3. PageInv'
    BY <1>1, ViewBound DEF ResolveBegins, TypeOK, PageInv, Views
  <2>4. UnsentIsNew'
    BY <1>1, ViewBound DEF ResolveBegins, TypeOK, UnsentIsNew, ToBeSent, Views
  <2> QED
    BY <2>1, <2>2, <2>3, <2>4
<1>2. ASSUME ResolveEnds PROVE IInv'
  <2>0. view < MaxViews /\ view + 1 \in Views
    BY <1>2, ViewBound DEF ResolveEnds, TypeOK, PageInv, Views
  <2>1. TypeOK'
    <3>1. /\ view' \in 0 .. MaxViews /\ generation' \in 0 .. MaxViews
          /\ target' \in [Actions -> 0 .. MaxViews]
      BY <1>2, <2>0, ViewBound DEF ResolveEnds, TypeOK
    <3>2. page' \in [Views -> {"none", "loading", "listening", "gone"}]
      BY <1>2, <2>0 DEF ResolveEnds, TypeOK
    <3> QED
      BY <1>2, <3>1, <3>2 DEF ResolveEnds, TypeOK
  <2>2. QueueInv'
    BY <1>2 DEF ResolveEnds, TypeOK, QueueInv, IsPending
  <2>3. PageInv'
    BY <1>2, <2>0 DEF ResolveEnds, TypeOK, PageInv, Views
  <2>4. UnsentIsNew' /\ PerformedAsReported'
    BY <1>2, <2>0 DEF ResolveEnds, TypeOK, PageInv, UnsentIsNew, ToBeSent, Views
  <2> QED
    BY <2>1, <2>2, <2>3, <2>4
<1>3. ASSUME NEW v \in Views, WebviewReady(v) PROVE IInv'
  <2>1. TypeOK'
    BY <1>3 DEF WebviewReady, TypeOK
  <2>2. v \in 1 .. view
    BY <1>3 DEF WebviewReady, PageInv, TypeOK, Views
  <2>3. QueueInv' /\ PageInv' /\ UnsentIsNew' /\ PerformedAsReported'
    BY <1>3, <2>2 DEF WebviewReady, TypeOK, QueueInv, PageInv, UnsentIsNew, ToBeSent
  <2> QED
    BY <2>1, <2>3
<1>4. ASSUME NEW v \in Views, GreetingFails(v) PROVE IInv'
  <2>1. TypeOK'
    BY <1>4 DEF GreetingFails, TypeOK
  <2>2. QueueInv' /\ PageInv' /\ UnsentIsNew' /\ PerformedAsReported'
    BY <1>4 DEF GreetingFails, TypeOK, QueueInv, PageInv, UnsentIsNew, ToBeSent
  <2> QED
    BY <2>1, <2>2
<1> QED
  BY <1>1, <1>2, <1>3, <1>4

LEMMA PageStep ==
  ASSUME IInv, NEW v \in Views,
         Close(v) \/ \E a \in Actions : Perform(v, a) \/ Missed(v, a)
  PROVE  IInv'
<1> USE PendingAreActions
    DEF IInv, viewVars, pageVars, queueVars, PerformedAsReported, PerformedOncePerPage,
        DoneMeansPerformed
<1>1. ASSUME Close(v) PROVE IInv'
  <2>1. TypeOK'
    BY <1>1 DEF Close, TypeOK
  <2>2. QueueInv' /\ PageInv' /\ UnsentIsNew' /\ PerformedAsReported'
    BY <1>1 DEF Close, TypeOK, QueueInv, PageInv, UnsentIsNew, ToBeSent
  <2> QED
    BY <2>1, <2>2
<1>2. ASSUME NEW a \in Actions, Perform(v, a) PROVE IInv'
  <2>1. /\ performed[v][a] = 0 /\ v <= view
        /\ inbox' = [inbox EXCEPT ![v] = @ \ {a}]
        /\ acks' = [acks EXCEPT ![v] = @ \cup {a}]
        /\ performed' = [performed EXCEPT ![v][a] = 1]
        /\ UNCHANGED <<queueVars, viewVars, page>>
    <3>1. performed[v][a] = 0 /\ v <= view
      BY <1>2, ViewBound DEF Perform, PageInv, TypeOK, Views
    <3>2. performed' = [performed EXCEPT ![v][a] = 1]
      BY <1>2, <3>1 DEF Perform
    <3> QED
      BY <1>2, <3>1, <3>2 DEF Perform
  <2>2. TypeOK'
    BY <2>1 DEF TypeOK
  <2>3. QueueInv'
    BY <2>1 DEF QueueInv
  <2>4. PageInv'
    <3>1. greeting' \subseteq 1 .. view'
      BY <2>1 DEF PageInv
    <3>2. ASSUME NEW w \in Views, w > view
          PROVE  /\ page'[w] = "none" /\ inbox'[w] = {} /\ acks'[w] = {}
                 /\ \A b \in Actions : performed'[w][b] = 0
      <4>1. w # v
        BY <2>1, <3>2, ViewBound DEF Views, TypeOK
      <4> QED
        BY <2>1, <3>2, <4>1 DEF PageInv, TypeOK
    <3>3. ASSUME NEW w \in Views
          PROVE  /\ \A b \in inbox'[w] : performed'[w][b] = 0
                 /\ \A b \in acks'[w] : performed'[w][b] > 0
      <4>1. CASE w = v
        BY <2>1, <4>1 DEF PageInv, TypeOK
      <4>2. CASE w # v
        BY <2>1, <4>2 DEF PageInv, TypeOK
      <4> QED
        BY <4>1, <4>2
    <3> QED
      BY <2>1, <3>1, <3>2, <3>3 DEF PageInv
  <2>5. UnsentIsNew'
    <3>1. a \in inbox[v]
      BY <1>2 DEF Perform
    <3> QED
      BY <2>1, <3>1 DEF UnsentIsNew, ToBeSent, TypeOK, Views
  <2>6. PerformedAsReported'
    BY <2>1 DEF TypeOK
  <2> QED
    BY <2>2, <2>3, <2>4, <2>5, <2>6
<1>3. ASSUME NEW a \in Actions, Missed(v, a) PROVE IInv'
  <2>1. TypeOK'
    BY <1>3 DEF Missed, TypeOK
  <2>2. QueueInv' /\ PageInv' /\ UnsentIsNew' /\ PerformedAsReported'
    <3>1. QueueInv' /\ PerformedAsReported'
      BY <1>3 DEF Missed, QueueInv
    <3>2. PageInv'
      BY <1>3 DEF Missed, TypeOK, PageInv
    <3>3. UnsentIsNew'
      BY <1>3, ViewBound DEF Missed, TypeOK, UnsentIsNew, ToBeSent, Views
    <3> QED
      BY <3>1, <3>2, <3>3
  <2> QED
    BY <2>1, <2>2
<1> QED
  BY <1>1, <1>2, <1>3

LEMMA Inductive == Spec => []IInv
<1>1. IInv /\ [Next]_vars => IInv'
  <2> SUFFICES ASSUME IInv, [Next]_vars PROVE IInv'
    OBVIOUS
  <2>1. CASE UNCHANGED vars
    <3>1. TypeOK'
      BY <2>1 DEF IInv, TypeOK, vars, queueVars, viewVars, pageVars
    <3>2. QueueInv' /\ PageInv' /\ UnsentIsNew' /\ PerformedAsReported'
      BY <2>1
         DEF IInv, QueueInv, PageInv, UnsentIsNew, ToBeSent, PerformedAsReported,
             PerformedOncePerPage, DoneMeansPerformed, vars, queueVars, viewVars, pageVars
    <3> QED
      BY <3>1, <3>2 DEF IInv
  <2>2. ASSUME NEW a \in Actions, Enqueue(a) PROVE IInv'
    BY <2>2, EnqueueStep
  <2>3. ASSUME NEW ok \in BOOLEAN, Delivers(ok) PROVE IInv'
    BY <2>3, DeliversStep
  <2>4. ASSUME NEW v \in Views, Greeted(v) PROVE IInv'
    BY <2>4, GreetedStep
  <2> QED
    BY <2>1, <2>2, <2>3, <2>4, QueueStep, ViewStep, PageStep DEF Next
<1> QED
  BY <1>1, InitInv, PTL DEF Spec

-----------------------------------------------------------------------------
(* Theorems *)

(***************************************************************************)
(* The states of the model are well typed.                                 *)
(***************************************************************************)
THEOREM TypeCorrect == Spec => []TypeOK
  BY Inductive, PTL DEF IInv

(***************************************************************************)
(* Whatever is redelivered to however many views, a page performs an       *)
(* action at most once, and a command that reports success had its action  *)
(* performed.                                                              *)
(***************************************************************************)
THEOREM PerformedAndReported == Spec => []PerformedAsReported
  BY Inductive, PTL DEF IInv

(***************************************************************************)
(* A refusal or a timer that outlives the view it belongs to fails no      *)
(* action: short of disposal only the current target of an action does.    *)
(***************************************************************************)
THEOREM OnlyCurrentTargetMayFail == Spec => OnlyCurrentTargetFails
<1> DEFINE FailsHere == \A a \in Actions :
             result[a] = "pending" /\ result'[a] = "failed"
               => disposed' \/ (a \in delivered /\ target[a] = generation)
<1>1. IInv /\ [Next]_vars => [FailsHere]_vars
  <2> SUFFICES ASSUME IInv, Next, NEW a \in Actions, ~disposed',
                      result[a] = "pending", result'[a] = "failed"
               PROVE  a \in delivered /\ target[a] = generation
    OBVIOUS
  <2> USE DEF IInv, TypeOK, QueueInv, Settle
  <2>1. ASSUME NEW b \in Actions, TimeOut(b) PROVE a \in delivered /\ target[a] = generation
    BY <2>1 DEF TimeOut
  <2>2. ASSUME NEW ok \in BOOLEAN, Delivers(ok) PROVE a \in delivered /\ target[a] = generation
    <3>1. a = sending.action /\ target[a] = sending.generation /\ sending.generation > 0
      BY <2>2 DEF Delivers, Delivery
    <3> QED
      BY <3>1
  <2>3. ASSUME NEW b \in Actions, Enqueue(b) PROVE FALSE
    BY <2>3 DEF Enqueue
  <2>4. ASSUME NEW v \in Views, NEW b \in Actions, Complete(v, b) PROVE FALSE
    BY <2>4 DEF Complete
  <2> QED
    BY <2>1, <2>2, <2>3, <2>4
       DEF Next, Dispose, ResolveBegins, ResolveEnds, WebviewReady, Greeted, GreetingFails,
           Close, Perform, Missed, queueVars
<1> QED
  BY <1>1, Inductive, PTL DEF Spec, OnlyCurrentTargetFails
=============================================================================
