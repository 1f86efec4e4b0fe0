----------------------- MODULE RequestExecutionProofs -----------------------
(***************************************************************************)
(* Proofs about RequestExecution, for any tabs, executions, limit of       *)
(* retained bodies, views and messages under way.                          *)
(***************************************************************************)
EXTENDS RequestExecution, FiniteSetTheorems, TLAPS

-----------------------------------------------------------------------------
(* The inductive invariant *)

Begun(e) == stage[e] # "none"

AtHost(i, type, e) == toHost[i].type = type /\ toHost[i].id = e
AtPage(i, type, e) == toPage[i].type = type /\ toPage[i].id = e

(***************************************************************************)
(* What the messages say: those to the host are of executions the page     *)
(* began, one of which is taken before it is cancelled and taken once;     *)
(* the page is told of an end only when there was one.                     *)
(***************************************************************************)
ToHostInv ==
  /\ \A i \in DOMAIN toHost, e \in Executions :
       /\ AtHost(i, "execute", e) => stage[e] = "posted"
       /\ AtHost(i, "cancel", e) \/ AtHost(i, "release", e) => Begun(e)
  /\ \A i, j \in DOMAIN toHost, e \in Executions :
       AtHost(i, "execute", e) =>
         /\ AtHost(j, "cancel", e) => i < j
         /\ AtHost(j, "execute", e) => i = j

ToPageInv ==
  \A i \in DOMAIN toPage, e \in Executions :
    /\ AtPage(i, "idle", e) => e \in cancelled \/ stage[e] = "settled"
    /\ AtPage(i, "freed", e) => Begun(e)

MessageInv == ToHostInv /\ ToPageInv

(***************************************************************************)
(* The host: an execution under way is registered unless it was cancelled, *)
(* and a cancellation aborts what the HTTP client has begun.               *)
(***************************************************************************)
HostInv ==
  /\ \A e \in Executions : Begun(e) => owner[e] \in Tabs
  /\ \A e \in active : stage[e] \in {"preparing", "building", "connected", "recording"}
  /\ \A e \in Executions :
       stage[e] \in {"preparing", "building", "connected"} => e \in active \cup cancelled
  /\ \A e \in cancelled : stage[e] = "building" => e \in aborted
  /\ \A e \in bodies : stage[e] \in {"recording", "settled"}

(***************************************************************************)
(* The page: what a tab runs or shows is the last execution it began, and  *)
(* was not stopped.                                                        *)
(***************************************************************************)
PageInv ==
  /\ \A t \in Tabs, e \in Executions :
       /\ latest[t] = e => Begun(e) /\ owner[e] = t
       /\ running[t] = e => latest[t] = e /\ e \notin stopped
       /\ shown[t] = e => latest[t] = e /\ e \notin stopped
  /\ \A e \in stopped : Begun(e)

(***************************************************************************)
(* A body whose response is on its way to the page is retained, or a later *)
(* message withdraws it.                                                   *)
(***************************************************************************)
Withdrawn(e, i) == toPage[i].type = "released" /\ e \in toPage[i].id

ResponsesAreRetained ==
  \A i \in DOMAIN toPage, e \in Executions :
    AtPage(i, "response", e) => e \in bodies \/ \E j \in DOMAIN toPage : i < j /\ Withdrawn(e, j)

(***************************************************************************)
(* An execution that may still retain a body is the one its tab runs, or   *)
(* the host will take its cancellation before it takes the next one.       *)
(***************************************************************************)
MayRespond(e) ==
  /\ e \notin cancelled
  /\ \/ stage[e] \in {"preparing", "building", "connected"}
     \/ \E i \in DOMAIN toHost : AtHost(i, "execute", e)

CancelledBeforeNext(e) ==
  \E i \in DOMAIN toHost :
    /\ AtHost(i, "cancel", e)
    /\ \/ latest[owner[e]] = e
       \/ \E j \in DOMAIN toHost : i < j /\ AtHost(j, "execute", latest[owner[e]])

OlderAreCancelled ==
  \A e \in Executions : MayRespond(e) => running[owner[e]] = e \/ CancelledBeforeNext(e)

IInv ==
  /\ TypeOK /\ MessageInv /\ HostInv /\ PageInv
  /\ ResponsesAreRetained /\ OlderAreCancelled
  /\ BodiesMatchTabs /\ RunningIsUnderWay

-----------------------------------------------------------------------------
(* Channels *)

LEMMA TakeFirst ==
  ASSUME NEW S, NEW s \in Seq(S), s # <<>>
  PROVE  /\ Head(s) \in S /\ Head(s) = s[1] /\ 1 \in DOMAIN s
         /\ Tail(s) \in Seq(S) /\ Len(Tail(s)) = Len(s) - 1
         /\ \A i \in DOMAIN Tail(s) : i + 1 \in DOMAIN s /\ Tail(s)[i] = s[i + 1]
         /\ \A i \in DOMAIN s : i # 1 => i - 1 \in DOMAIN Tail(s) /\ Tail(s)[i - 1] = s[i]
  OBVIOUS

LEMMA PutLast ==
  ASSUME NEW S, NEW s \in Seq(S), NEW m \in Seq(S)
  PROVE  /\ s \o m \in Seq(S) /\ Len(s \o m) = Len(s) + Len(m)
         /\ \A i \in DOMAIN s : i \in DOMAIN (s \o m) /\ (s \o m)[i] = s[i]
         /\ \A i \in DOMAIN m : Len(s) + i \in DOMAIN (s \o m) /\ (s \o m)[Len(s) + i] = m[i]
         /\ \A i \in DOMAIN (s \o m) :
              \/ i \in DOMAIN s
              \/ i - Len(s) \in DOMAIN m /\ i > Len(s)
  OBVIOUS

LEMMA MessageTypes ==
  /\ \A e \in Executions : /\ \A type \in {"execute", "cancel", "release"} :
                                Message(type, e) \in ToHost
                           /\ \A type \in {"executing", "idle", "response", "failure", "freed"} :
                                Message(type, e) \in ToPage
  /\ \A t \in Tabs : /\ \A type \in {"discard", "files"} : Message(type, t) \in ToHost
                     /\ \A type \in {"discarded", "kept", "cleared"} : Message(type, t) \in ToPage
  /\ \A es \in SUBSET Executions : Released(es) \in Seq(ToPage)
<1>1. \A es \in SUBSET Executions : Message("released", es) \in ToPage
  BY DEF Message, ToPage
<1>2. \A es \in SUBSET Executions : Released(es) \in Seq(ToPage)
  BY <1>1 DEF Released
<1> QED
  BY <1>2 DEF Message, ToHost, ToPage

LEMMA HostTypes ==
  \A m \in ToHost : /\ m.type \in {"execute", "cancel", "release"} => m.id \in Executions
                    /\ m.type \in {"discard", "files"} => m.id \in Tabs
  BY DEF ToHost

LEMMA PageTypes ==
  \A m \in ToPage :
    /\ m.type \in {"executing", "idle", "response", "failure", "freed"} => m.id \in Executions
    /\ m.type = "released" => m.id \in SUBSET Executions
    /\ m.type \in {"discarded", "kept", "cleared"} => m.id \in Tabs
  BY DEF ToPage

LEMMA Received ==
  ASSUME TypeOK, NEW type, Receive(type)
  PROVE  /\ Head(toHost) \in ToHost /\ toHost' \in Seq(ToHost)
         /\ Head(toHost).type = type /\ AtHost(1, type, Head(toHost).id) /\ 1 \in DOMAIN toHost
         /\ type \in {"execute", "cancel", "release"} => Head(toHost).id \in Executions
         /\ type \in {"discard", "files"} => Head(toHost).id \in Tabs
         /\ \A i \in DOMAIN toHost' : i + 1 \in DOMAIN toHost /\ toHost'[i] = toHost[i + 1]
         /\ \A i \in DOMAIN toHost : i # 1 => i - 1 \in DOMAIN toHost' /\ toHost'[i - 1] = toHost[i]
<1>1. toHost \in Seq(ToHost) /\ toHost # <<>> /\ toHost' = Tail(toHost) /\ Head(toHost).type = type
  BY DEF Receive, TypeOK
<1>2. Head(toHost) \in ToHost /\ Head(toHost) = toHost[1] /\ 1 \in DOMAIN toHost
  BY <1>1, TakeFirst
<1> QED
  BY <1>1, <1>2, TakeFirst, HostTypes DEF AtHost

LEMMA PageReceived ==
  ASSUME TypeOK, NEW types, PageReceives(types)
  PROVE  /\ Head(toPage) \in ToPage /\ toPage' \in Seq(ToPage)
         /\ Head(toPage).type \in types /\ 1 \in DOMAIN toPage
         /\ AtPage(1, Head(toPage).type, Head(toPage).id) /\ Head(toPage) = toPage[1]
         /\ \A i \in DOMAIN toPage' : i + 1 \in DOMAIN toPage /\ toPage'[i] = toPage[i + 1]
         /\ \A i \in DOMAIN toPage : i # 1 => i - 1 \in DOMAIN toPage' /\ toPage'[i - 1] = toPage[i]
<1>1. toPage \in Seq(ToPage) /\ toPage # <<>> /\ toPage' = Tail(toPage) /\ Head(toPage).type \in types
  BY DEF PageReceives, TypeOK
<1>2. Head(toPage) \in ToPage /\ Head(toPage) = toPage[1] /\ 1 \in DOMAIN toPage
  BY <1>1, TakeFirst
<1> QED
  BY <1>1, <1>2, TakeFirst DEF AtPage

-----------------------------------------------------------------------------
(* Types *)

LEMMA FewerBodies ==
  ASSUME TypeOK, NEW kept \in SUBSET bodies
  PROVE  kept \subseteq Executions /\ IsFiniteSet(kept) /\ Cardinality(kept) <= MaxBodies
<1>1. IsFiniteSet(kept) /\ Cardinality(kept) <= Cardinality(bodies)
  BY FS_Subset DEF TypeOK
<1>2. Cardinality(kept) \in Nat /\ Cardinality(bodies) \in Nat
  BY <1>1, FS_CardinalityType DEF TypeOK
<1> QED
  BY <1>1, <1>2, BodyLimit DEF TypeOK

LEMMA RetainType ==
  ASSUME TypeOK, NEW e \in Executions, NEW evicted \in SUBSET bodies, Retain(e, evicted)
  PROVE  /\ bodies' \subseteq Executions /\ IsFiniteSet(bodies') /\ Cardinality(bodies') <= MaxBodies
         /\ toPage' \in Seq(ToPage)
<1> DEFINE kept == (bodies \ OfRequest(owner[e])) \ evicted
<1>1. IsFiniteSet(kept) /\ kept \subseteq Executions /\ Cardinality(kept) < MaxBodies
  BY FewerBodies DEF Retain, TypeOK
<1>2. Cardinality(kept) \in Nat
  BY <1>1, FS_CardinalityType
<1>3. /\ IsFiniteSet(kept \cup {e})
      /\ Cardinality(kept \cup {e}) = IF e \in kept THEN Cardinality(kept) ELSE Cardinality(kept) + 1
  BY <1>1, FS_AddElement
<1>4. bodies' = kept \cup {e}
  BY DEF Retain
<1>5. toPage' \in Seq(ToPage)
  <2>1. OfRequest(owner[e]) \cup evicted \in SUBSET Executions
    BY DEF TypeOK, OfRequest
  <2>2. /\ Released(OfRequest(owner[e]) \cup evicted) \in Seq(ToPage)
        /\ Message("response", e) \in ToPage
    BY <2>1, MessageTypes
  <2>3. toPage' = toPage \o (Released(OfRequest(owner[e]) \cup evicted) \o <<Message("response", e)>>)
    BY DEF Retain, Post
  <2> QED
    BY <2>2, <2>3 DEF TypeOK
<1> HIDE DEF kept
<1> QED
  BY <1>1, <1>2, <1>3, <1>4, <1>5, BodyLimit

LEMMA HostStepType ==
  ASSUME TypeOK, MessageInv, HostInv, Host
  PROVE  TypeOK'
<1>1. CASE Execute
  <2> DEFINE e == Head(toHost).id
  <2>1. e \in Executions /\ toHost' \in Seq(ToHost)
    BY <1>1, Received DEF Execute
  <2>2. toPage' \in Seq(ToPage)
    <3>1. Released(OfRequest(owner[e])) \in Seq(ToPage) /\ Message("executing", e) \in ToPage
      <4>1. OfRequest(owner[e]) \in SUBSET Executions
        BY DEF OfRequest, TypeOK
      <4> QED
        BY <2>1, <4>1, MessageTypes
    <3>2. toPage' = toPage \o (Released(OfRequest(owner[e])) \o <<Message("executing", e)>>)
      BY <1>1 DEF Execute, Post
    <3> QED
      BY <3>1, <3>2 DEF TypeOK
  <2>3. bodies' \subseteq Executions /\ IsFiniteSet(bodies') /\ Cardinality(bodies') <= MaxBodies
    BY <1>1, FewerBodies DEF Execute
  <2>4. stage' \in [Executions -> Stages] /\ active' \subseteq Executions
    BY <1>1, <2>1 DEF Execute, TypeOK, Stages
  <2> QED
    BY <1>1, <2>1, <2>2, <2>3, <2>4 DEF Execute, TypeOK, pageVars
<1>2. CASE Cancel
  <2> DEFINE e == Head(toHost).id
  <2>1. e \in Executions /\ toHost' \in Seq(ToHost)
    BY <1>2, Received DEF Cancel
  <2>2. toPage' \in Seq(ToPage)
    <3>1. Message("idle", e) \in ToPage
      BY <2>1, MessageTypes
    <3>2. toPage' = toPage \o <<Message("idle", e)>> \/ toPage' = toPage
      BY <1>2 DEF Cancel, Post
    <3> QED
      BY <3>1, <3>2 DEF TypeOK
  <2>3. cancelled' \subseteq Executions /\ aborted' \subseteq cancelled'
    BY <1>2, <2>1 DEF Cancel, TypeOK
  <2> QED
    BY <1>2, <2>1, <2>2, <2>3 DEF Cancel, TypeOK, pageVars
<1>3. CASE ReleaseBody
  <2> DEFINE e == Head(toHost).id
  <2>1. e \in Executions /\ toHost' \in Seq(ToHost)
    BY <1>3, Received DEF ReleaseBody
  <2>2. toPage' \in Seq(ToPage)
    <3>1. Released(bodies \cap {e}) \in Seq(ToPage) /\ Message("freed", e) \in ToPage
      <4>1. bodies \cap {e} \in SUBSET Executions
        BY DEF TypeOK
      <4> QED
        BY <2>1, <4>1, MessageTypes
    <3>2. toPage' = toPage \o (Released(bodies \cap {e}) \o <<Message("freed", e)>>)
      BY <1>3 DEF ReleaseBody, Post
    <3> QED
      BY <3>1, <3>2 DEF TypeOK
  <2>3. bodies' \subseteq Executions /\ IsFiniteSet(bodies') /\ Cardinality(bodies') <= MaxBodies
    BY <1>3, FewerBodies DEF ReleaseBody
  <2> QED
    BY <1>3, <2>1, <2>2, <2>3 DEF ReleaseBody, TypeOK, pageVars
<1>4. CASE ReleaseFiles
  <2>1. Head(toHost).id \in Tabs /\ toHost' \in Seq(ToHost)
    BY <1>4, Received DEF ReleaseFiles
  <2>2. toPage' \in Seq(ToPage)
    BY <1>4, <2>1, MessageTypes DEF ReleaseFiles, Post, TypeOK
  <2> QED
    BY <1>4, <2>1, <2>2 DEF ReleaseFiles, TypeOK, pageVars
<1>5. CASE Discard
  <2>1. Head(toHost).id \in Tabs /\ toHost' \in Seq(ToHost)
    BY <1>5, Received DEF Discard
  <2> QED
    BY <1>5, <2>1 DEF Discard, TypeOK, pageVars
<1>6. ASSUME NEW t \in Tabs, NEW ok \in BOOLEAN, Discarded(t, ok) PROVE TypeOK'
  <2>1. toPage' \in Seq(ToPage)
    BY <1>6, MessageTypes DEF Discarded, Post, TypeOK
  <2> QED
    BY <1>6, <2>1 DEF Discarded, TypeOK, pageVars
<1> QED
  BY <1>1, <1>2, <1>3, <1>4, <1>5, <1>6 DEF Host

LEMMA FinalizeType ==
  ASSUME TypeOK, NEW e \in Executions, NEW from, NEW before \in Seq(ToPage),
         Finalize(e, from, before)
  PROVE  /\ stage' \in [Executions -> Stages] /\ active' \subseteq Executions
         /\ toPage' \in Seq(ToPage)
<1>1. toPage' = toPage \o (IF e \in active THEN Append(before, Message("idle", e)) ELSE before)
  BY DEF Finalize, Post
<1>2. Message("idle", e) \in ToPage
  BY MessageTypes
<1>3. toPage' \in Seq(ToPage)
  BY <1>1, <1>2 DEF TypeOK
<1> QED
  BY <1>3 DEF Finalize, Advance, TypeOK, Stages

LEMMA RunStepType ==
  ASSUME TypeOK, NEW e \in Executions, Run(e)
  PROVE  TypeOK'
<1>1. CASE Prepared(e) \/ Connect(e)
  BY <1>1 DEF Prepared, Connect, Advance, TypeOK, Stages, pageVars
<1>2. CASE PreparationEnds(e) \/ Recorded(e)
  <2>1. <<>> \in Seq(ToPage)
    OBVIOUS
  <2>2. stage' \in [Executions -> Stages] /\ active' \subseteq Executions /\ toPage' \in Seq(ToPage)
    BY <1>2, <2>1, FinalizeType DEF PreparationEnds, Recorded
  <2> QED
    BY <1>2, <2>2 DEF PreparationEnds, Recorded, TypeOK, pageVars
<1>3. CASE TransportFails(e)
  <2> DEFINE before == IF e \in cancelled THEN <<>> ELSE <<Message("failure", e)>>
  <2>1. before \in Seq(ToPage)
    BY MessageTypes
  <2>2. \E s \in {"building", "connected"} : Finalize(e, s, before)
    BY <1>3 DEF TransportFails
  <2>3. stage' \in [Executions -> Stages] /\ active' \subseteq Executions /\ toPage' \in Seq(ToPage)
    <3> HIDE DEF before
    <3> QED
      BY <2>1, <2>2, FinalizeType
  <2> QED
    BY <1>3, <2>3 DEF TransportFails, TypeOK, pageVars
<1>4. CASE Responds(e)
  <2>1. /\ bodies' \subseteq Executions /\ IsFiniteSet(bodies') /\ Cardinality(bodies') <= MaxBodies
        /\ toPage' \in Seq(ToPage)
    BY <1>4, RetainType DEF Responds
  <2> QED
    BY <1>4, <2>1 DEF Responds, Advance, TypeOK, Stages, pageVars
<1> QED
  BY <1>1, <1>2, <1>3, <1>4 DEF Run

LEMMA PageStepType ==
  ASSUME TypeOK, MessageInv, HostInv, Page
  PROVE  TypeOK'
<1>1. CASE ReleaseTab
  <2> DEFINE t == Head(toPage).id
             answer == IF shown[t] # Nobody THEN Message("release", shown[t]) ELSE Message("files", t)
  <2>1. t \in Tabs /\ toPage' \in Seq(ToPage)
    BY <1>1, PageReceived, PageTypes DEF ReleaseTab
  <2>2. answer \in ToHost
    BY <2>1, MessageTypes DEF TypeOK
  <2>3. toHost' \in Seq(ToHost)
    <3>1. toHost' = toHost \/ toHost' = Append(toHost, answer)
      BY <1>1 DEF ReleaseTab
    <3>2. toHost \in Seq(ToHost)
      BY DEF TypeOK
    <3> HIDE DEF answer
    <3> QED
      BY <2>2, <3>1, <3>2
  <2>4. phase' \in [Tabs -> {"open", "discarding", "releasing", "closed"}]
    BY <1>1, <2>1 DEF ReleaseTab, TypeOK
  <2> QED
    BY <1>1, <2>1, <2>3, <2>4 DEF ReleaseTab, TypeOK, hostVars
<1>2. CASE BodyReleased
  <2> DEFINE e == Head(toPage).id
  <2>1. e \in Executions /\ toPage' \in Seq(ToPage) /\ Begun(e)
    BY <1>2, PageReceived, PageTypes DEF BodyReleased, MessageInv, ToHostInv, ToPageInv
  <2>2. owner[e] \in Tabs
    BY <2>1 DEF HostInv
  <2>3. toHost' \in Seq(ToHost)
    BY <1>2, <2>2, MessageTypes DEF BodyReleased, TypeOK
  <2> QED
    BY <1>2, <2>1, <2>3 DEF BodyReleased, TypeOK, hostVars
<1>3. CASE CloseEnds \/ CloseFails
  <2>1. Head(toPage).id \in Tabs /\ toPage' \in Seq(ToPage)
    BY <1>3, PageReceived, PageTypes DEF CloseEnds, CloseFails
  <2>2. phase' \in [Tabs -> {"open", "discarding", "releasing", "closed"}]
    BY <1>3, <2>1 DEF CloseEnds, CloseFails, TypeOK
  <2> QED
    BY <1>3, <2>1, <2>2 DEF CloseEnds, CloseFails, TypeOK, hostVars
<1>4. CASE SetExecutionState
  <2>1. toPage' \in Seq(ToPage)
    BY <1>4, PageReceived DEF SetExecutionState
  <2>2. running' \in [Tabs -> Executions \cup {Nobody}]
    BY <1>4 DEF SetExecutionState, TypeOK
  <2> QED
    BY <1>4, <2>1, <2>2 DEF SetExecutionState, TypeOK, hostVars
<1>5. CASE SetResponse
  <2>1. Head(toPage).id \in Executions /\ toPage' \in Seq(ToPage)
    BY <1>5, PageReceived, PageTypes DEF SetResponse
  <2>2. shown' \in [Tabs -> Executions \cup {Nobody}] /\ offered' \in [Tabs -> BOOLEAN]
    BY <1>5, <2>1 DEF SetResponse, TypeOK
  <2> QED
    BY <1>5, <2>1, <2>2 DEF SetResponse, TypeOK, hostVars
<1>6. CASE ReleaseResponseBodies
  <2>1. toPage' \in Seq(ToPage)
    BY <1>6, PageReceived DEF ReleaseResponseBodies
  <2>2. offered' \in [Tabs -> BOOLEAN]
    BY <1>6 DEF ReleaseResponseBodies, TypeOK
  <2> QED
    BY <1>6, <2>1, <2>2 DEF ReleaseResponseBodies, TypeOK, hostVars
<1> QED
  BY <1>1, <1>2, <1>3, <1>4, <1>5, <1>6 DEF Page

LEMMA CancelTabType ==
  ASSUME TypeOK, NEW t \in Tabs, NEW more \in Seq(ToHost), CancelTabExecution(t, more)
  PROVE  /\ toHost' \in Seq(ToHost) /\ stopped' \subseteq Executions
         /\ running' \in [Tabs -> Executions \cup {Nobody}]
<1>0. toHost \in Seq(ToHost) /\ stopped \subseteq Executions
      /\ running \in [Tabs -> Executions \cup {Nobody}]
  BY DEF TypeOK
<1>1. CASE running[t] = Nobody
  <2>1. toHost' = toHost \o more /\ UNCHANGED <<running, stopped>>
    BY <1>1 DEF CancelTabExecution
  <2>2. toHost \o more \in Seq(ToHost)
    BY <1>0
  <2> QED
    BY <1>0, <2>1, <2>2
<1>2. CASE running[t] # Nobody
  <2>1. running[t] \in Executions /\ Message("cancel", running[t]) \in ToHost
    BY <1>2, MessageTypes DEF TypeOK
  <2>2. toHost' \in Seq(ToHost)
    <3> DEFINE m == Message("cancel", running[t])
    <3>1. toHost' = Append(toHost, m) \o more
      BY <1>2 DEF CancelTabExecution
    <3>2. m \in ToHost
      BY <2>1
    <3> HIDE DEF m
    <3>3. Append(toHost, m) \in Seq(ToHost)
      BY <1>0, <3>2
    <3> QED
      BY <3>1, <3>3
  <2>3. stopped' \subseteq Executions /\ running' \in [Tabs -> Executions \cup {Nobody}]
    BY <1>0, <1>2, <2>1 DEF CancelTabExecution
  <2> QED
    BY <2>2, <2>3
<1> QED
  BY <1>1, <1>2

LEMMA UserStepType ==
  ASSUME TypeOK, User
  PROVE  TypeOK'
<1>1. ASSUME NEW t \in Tabs, NEW e \in Executions, Send(t, e) PROVE TypeOK'
  <2>1. toHost' \in Seq(ToHost)
    BY <1>1, MessageTypes DEF Send, TypeOK
  <2>2. stage' \in [Executions -> Stages] /\ owner' \in [Executions -> Tabs \cup {Nobody}]
    BY <1>1 DEF Send, TypeOK, Stages
  <2> QED
    BY <1>1, <2>1, <2>2 DEF Send, TypeOK
<1>2. ASSUME NEW t \in Tabs, PressCancel(t) PROVE TypeOK'
  <2>1. <<>> \in Seq(ToHost)
    OBVIOUS
  <2>2. /\ toHost' \in Seq(ToHost) /\ stopped' \subseteq Executions
        /\ running' \in [Tabs -> Executions \cup {Nobody}]
    BY <1>2, <2>1, CancelTabType DEF PressCancel
  <2> QED
    BY <1>2, <2>2 DEF PressCancel, TypeOK, hostVars
<1>3. ASSUME NEW t \in Tabs, CloseTab(t) PROVE TypeOK'
  <2>1. <<Message("discard", t)>> \in Seq(ToHost)
    BY MessageTypes
  <2>2. /\ toHost' \in Seq(ToHost) /\ stopped' \subseteq Executions
        /\ running' \in [Tabs -> Executions \cup {Nobody}]
    BY <1>3, <2>1, CancelTabType DEF CloseTab
  <2>3. phase' \in [Tabs -> {"open", "discarding", "releasing", "closed"}]
    BY <1>3 DEF CloseTab, TypeOK
  <2> QED
    BY <1>3, <2>2, <2>3 DEF CloseTab, TypeOK, hostVars
<1> QED
  BY <1>1, <1>2, <1>3 DEF User

LEMMA ResolveViewType ==
  ASSUME TypeOK, ResolveView
  PROVE  TypeOK'
<1>1. bodies' = {} /\ IsFiniteSet({}) /\ Cardinality({}) = 0
  BY FS_EmptySet DEF ResolveView
<1>2. view' \in 1 .. MaxViews
  BY ViewBound DEF ResolveView, TypeOK
<1>3. cancelled' \subseteq Executions /\ aborted' \subseteq cancelled'
  BY DEF ResolveView, TypeOK
<1>4. toHost' \in Seq(ToHost) /\ toPage' \in Seq(ToPage)
  BY DEF ResolveView
<1>5. /\ phase' \in [Tabs -> {"open", "discarding", "releasing", "closed"}]
      /\ running' \in [Tabs -> Executions \cup {Nobody}]
      /\ shown' \in [Tabs -> Executions \cup {Nobody}]
      /\ offered' \in [Tabs -> BOOLEAN]
  BY DEF ResolveView, TypeOK
<1> QED
  BY <1>1, <1>2, <1>3, <1>4, <1>5, BodyLimit DEF ResolveView, TypeOK

LEMMA StepType == TypeOK /\ MessageInv /\ HostInv /\ [Next]_vars => TypeOK'
<1>1. ASSUME TypeOK, UNCHANGED vars PROVE TypeOK'
  BY <1>1 DEF TypeOK, vars, hostVars, pageVars
<1> QED
  BY <1>1, HostStepType, RunStepType, PageStepType, UserStepType, ResolveViewType DEF Next

-----------------------------------------------------------------------------
(* Host and page *)

LEMMA HostInvStep == TypeOK /\ MessageInv /\ HostInv /\ [Next]_vars => HostInv'
<1> SUFFICES ASSUME TypeOK, MessageInv, HostInv, [Next]_vars PROVE HostInv'
  OBVIOUS
<1> USE DEF HostInv, Begun, TypeOK
<1>1. CASE Execute
  <2> DEFINE e == Head(toHost).id
  <2>1. e \in Executions /\ stage[e] = "posted"
    BY <1>1, Received DEF Execute, MessageInv, ToHostInv, ToPageInv
  <2>2. /\ stage' = [stage EXCEPT ![e] = "preparing"] /\ active' = active \cup {e}
        /\ bodies' \subseteq bodies /\ UNCHANGED <<owner, cancelled, aborted>>
    BY <1>1 DEF Execute
  <2> HIDE DEF e
  <2> QED
    BY <2>1, <2>2
<1>2. CASE Cancel
  BY <1>2, Received DEF Cancel
<1>3. CASE ReleaseBody
  BY <1>3 DEF ReleaseBody
<1>4. CASE ReleaseFiles \/ Discard \/ \E t \in Tabs, ok \in BOOLEAN : Discarded(t, ok)
  BY <1>4 DEF ReleaseFiles, Discard, Discarded
<1>5. ASSUME NEW e \in Executions, Prepared(e) \/ Connect(e) PROVE HostInv'
  BY <1>5 DEF Prepared, Connect, Advance
<1>6. ASSUME NEW e \in Executions, PreparationEnds(e) \/ TransportFails(e) \/ Recorded(e)
      PROVE  HostInv'
  <2>1. /\ stage' = [stage EXCEPT ![e] = "settled"] /\ active' = active \ {e} /\ Begun(e)
        /\ UNCHANGED <<owner, cancelled, aborted, bodies>>
    BY <1>6 DEF PreparationEnds, TransportFails, Recorded, Finalize, Advance
  <2> QED
    BY <2>1
<1>7. ASSUME NEW e \in Executions, Responds(e) PROVE HostInv'
  <2>1. /\ stage[e] = "connected" /\ stage' = [stage EXCEPT ![e] = "recording"]
        /\ bodies' \subseteq bodies \cup {e} /\ UNCHANGED <<owner, active, cancelled, aborted>>
    BY <1>7 DEF Responds, Advance, Retain
  <2> QED
    BY <2>1
<1>8. ASSUME NEW t \in Tabs, NEW e \in Executions, Send(t, e) PROVE HostInv'
  BY <1>8 DEF Send
<1>9. CASE ResolveView
  BY <1>9 DEF ResolveView
<1>10. CASE Page \/ UNCHANGED vars \/ \E t \in Tabs : PressCancel(t) \/ CloseTab(t)
  <2>1. UNCHANGED hostVars
    BY <1>10 DEF Page, ReleaseTab, BodyReleased, CloseEnds, CloseFails, SetExecutionState,
                 SetResponse, ReleaseResponseBodies, PressCancel, CloseTab, vars
  <2> QED
    BY <2>1 DEF hostVars
<1> QED
  BY <1>1, <1>2, <1>3, <1>4, <1>5, <1>6, <1>7, <1>8, <1>9, <1>10 DEF Next, Host, Run, User

(***************************************************************************)
(* Executions only go forward, and requests keep theirs.                   *)
(***************************************************************************)
LEMMA Forward ==
  ASSUME TypeOK, MessageInv, [Next]_vars
  PROVE  \A e \in Executions :
           /\ Begun(e) => stage'[e] # "none" /\ owner'[e] = owner[e]
           /\ stage[e] = "settled" => stage'[e] = "settled"
           /\ e \in cancelled => e \in cancelled'
<1> USE DEF Begun, TypeOK
<1>1. CASE Execute
  <2>1. stage[Head(toHost).id] = "posted"
    BY <1>1, Received DEF Execute, MessageInv, ToHostInv, ToPageInv
  <2> QED
    BY <1>1, <2>1 DEF Execute
<1>2. CASE Cancel \/ ReleaseBody \/ ReleaseFiles \/ Discard
        \/ \E t \in Tabs, ok \in BOOLEAN : Discarded(t, ok)
  BY <1>2 DEF Cancel, ReleaseBody, ReleaseFiles, Discard, Discarded
<1>3. ASSUME NEW e \in Executions, Run(e)
      PROVE  /\ \E to \in Stages \ {"none"} : stage' = [stage EXCEPT ![e] = to]
             /\ stage[e] # "settled" /\ UNCHANGED <<owner, cancelled>>
  BY <1>3 DEF Run, Prepared, PreparationEnds, Connect, TransportFails, Responds, Recorded,
              Finalize, Advance, Stages
<1>4. CASE User
  <2>1. ASSUME NEW t \in Tabs, NEW e \in Executions, Send(t, e)
        PROVE  /\ stage[e] = "none" /\ stage' = [stage EXCEPT ![e] = "posted"]
               /\ owner' = [owner EXCEPT ![e] = t] /\ UNCHANGED cancelled
    BY <2>1 DEF Send
  <2>2. ASSUME NEW t \in Tabs, PressCancel(t) \/ CloseTab(t)
        PROVE  UNCHANGED <<stage, owner, cancelled>>
    BY <2>2 DEF PressCancel, CloseTab, hostVars
  <2> QED
    BY <1>4, <2>1, <2>2 DEF User
<1>5. CASE ResolveView
  BY <1>5 DEF ResolveView
<1>6. CASE Page \/ UNCHANGED vars
  <2>1. UNCHANGED hostVars
    BY <1>6 DEF Page, ReleaseTab, BodyReleased, CloseEnds, CloseFails, SetExecutionState,
                 SetResponse, ReleaseResponseBodies, vars
  <2> QED
    BY <2>1 DEF hostVars
<1> QED
  BY <1>1, <1>2, <1>3, <1>4, <1>5, <1>6 DEF Next, Host

LEMMA CancelTabEffect ==
  ASSUME TypeOK, NEW t \in Tabs, NEW more \in Seq(ToHost), CancelTabExecution(t, more)
  PROVE  /\ running' = [running EXCEPT ![t] = Nobody]
         /\ running[t] = Nobody => toHost' = toHost \o more /\ stopped' = stopped
         /\ running[t] # Nobody =>
              /\ toHost' = Append(toHost, Message("cancel", running[t])) \o more
              /\ stopped' = IF shown[t] = running[t] THEN stopped ELSE stopped \cup {running[t]}
  BY DEF CancelTabExecution, TypeOK

LEMMA PageInvStep == TypeOK /\ MessageInv /\ PageInv /\ [Next]_vars => PageInv'
<1> SUFFICES ASSUME TypeOK, MessageInv, PageInv, [Next]_vars PROVE PageInv'
  OBVIOUS
<1>1. \A e \in Executions : Begun(e) => Begun(e)' /\ owner'[e] = owner[e]
  BY Forward DEF Begun
<1>2. CASE UNCHANGED <<latest, running, shown, stopped>>
  BY <1>1, <1>2 DEF PageInv, TypeOK
<1>3. ASSUME NEW t \in Tabs, NEW e \in Executions, Send(t, e) PROVE PageInv'
  <2>1. ~Begun(e) /\ e \notin stopped /\ \A u \in Tabs : latest[u] # e /\ running[u] # e /\ shown[u] # e
    BY <1>3 DEF Send, Begun, PageInv
  <2>2. /\ running' = [running EXCEPT ![t] = e] /\ shown' = [shown EXCEPT ![t] = Nobody]
        /\ latest' = [latest EXCEPT ![t] = e] /\ stopped' = stopped
        /\ Begun(e)' /\ owner'[e] = t
    BY <1>3 DEF Send, Begun, TypeOK
  <2> QED
    BY <1>1, <2>1, <2>2, NobodyRuns DEF PageInv, TypeOK
<1>4. ASSUME NEW t \in Tabs, NEW more \in Seq(ToHost), CancelTabExecution(t, more),
             UNCHANGED <<shown, latest>>
      PROVE  PageInv'
  <2>1. running' = [running EXCEPT ![t] = Nobody]
    BY <1>4, CancelTabEffect
  <2>2. stopped' = stopped \/ (/\ running[t] # Nobody /\ shown[t] # running[t]
                               /\ stopped' = stopped \cup {running[t]})
    BY <1>4, CancelTabEffect
  <2>3. ASSUME NEW u \in Tabs, NEW e \in Executions
        PROVE  /\ latest'[u] = e => Begun(e)' /\ owner'[e] = u
               /\ running'[u] = e => latest'[u] = e /\ e \notin stopped'
               /\ shown'[u] = e => latest'[u] = e /\ e \notin stopped'
    <3>1. latest'[u] = e => Begun(e)' /\ owner'[e] = u
      BY <1>1, <1>4 DEF PageInv
    <3>2. running'[u] = e => u # t /\ running[u] = e
      BY <2>1, NobodyRuns DEF TypeOK
    <3>3. running[t] = e /\ (running[u] = e \/ shown[u] = e) => u = t
      BY DEF PageInv
    <3> QED
      BY <1>4, <2>2, <3>1, <3>2, <3>3 DEF PageInv
  <2>4. \A e \in stopped' : Begun(e)'
    <3>1. running[t] # Nobody => running[t] \in Executions /\ Begun(running[t])
      BY DEF PageInv, TypeOK
    <3> QED
      BY <1>1, <2>2, <3>1 DEF PageInv, TypeOK
  <2> QED
    BY <2>3, <2>4 DEF PageInv
<1>5. ASSUME NEW t \in Tabs, PressCancel(t) \/ CloseTab(t) PROVE PageInv'
  <2>1. <<>> \in Seq(ToHost) /\ <<Message("discard", t)>> \in Seq(ToHost)
    BY MessageTypes
  <2> QED
    BY <1>4, <1>5, <2>1 DEF PressCancel, CloseTab
<1>6. CASE SetExecutionState
  <2>1. /\ \A t \in Tabs : running'[t] \in {running[t], Nobody}
        /\ UNCHANGED <<latest, shown, stopped>>
    BY <1>6 DEF SetExecutionState
  <2> QED
    BY <1>1, <2>1, NobodyRuns DEF PageInv, TypeOK
<1>7. CASE SetResponse
  <2>1. /\ \A t \in Tabs : shown'[t] \in {shown[t], running[t]}
        /\ UNCHANGED <<latest, running, stopped>>
    BY <1>7 DEF SetResponse
  <2> QED
    BY <1>1, <2>1 DEF PageInv, TypeOK
<1>8. CASE ResolveView
  BY <1>1, <1>8, NobodyRuns DEF ResolveView, PageInv, TypeOK
<1> QED
  BY <1>2, <1>3, <1>5, <1>6, <1>7, <1>8
     DEF Next, Host, Execute, Cancel, ReleaseBody, ReleaseFiles, Discard, Discarded,
         Run, Prepared, PreparationEnds, Connect, TransportFails, Responds, Recorded, User,
         Page, ReleaseTab, BodyReleased, CloseEnds, CloseFails, ReleaseResponseBodies,
         vars, pageVars

-----------------------------------------------------------------------------
(* Messages *)

(***************************************************************************)
(* What is posted to the page comes after what is there.                   *)
(***************************************************************************)
LEMMA Posting ==
  ASSUME TypeOK, NEW ms \in Seq(ToPage), Post(ms)
  PROVE  /\ \A i \in DOMAIN toPage : i \in DOMAIN toPage' /\ toPage'[i] = toPage[i]
         /\ \A i \in DOMAIN toPage' :
              i \in DOMAIN toPage \/ \E k \in DOMAIN ms : toPage'[i] = ms[k]
         /\ \A k \in DOMAIN ms : \E i \in DOMAIN toPage' :
              toPage'[i] = ms[k] /\ \A j \in DOMAIN toPage : j < i
<1>1. toPage' = toPage \o ms /\ toPage \in Seq(ToPage)
  BY DEF Post, TypeOK
<1>2. \A i \in DOMAIN toPage : i \in DOMAIN toPage' /\ toPage'[i] = toPage[i]
  BY <1>1, PutLast
<1>3. \A i \in DOMAIN toPage' :
        i \in DOMAIN toPage \/ \E k \in DOMAIN ms : toPage'[i] = ms[k]
  BY <1>1, PutLast
<1>4. \A k \in DOMAIN ms : \E i \in DOMAIN toPage' :
        toPage'[i] = ms[k] /\ \A j \in DOMAIN toPage : j < i
  <2>1. ASSUME NEW k \in DOMAIN ms
        PROVE  /\ Len(toPage) + k \in DOMAIN toPage' /\ toPage'[Len(toPage) + k] = ms[k]
               /\ \A j \in DOMAIN toPage : j < Len(toPage) + k
    BY <1>1, PutLast
  <2> QED
    BY <2>1
<1> QED
  BY <1>2, <1>3, <1>4

LEMMA ReleasedThen ==
  ASSUME NEW es \in SUBSET Executions, NEW m \in ToPage
  PROVE  /\ Released(es) \o <<m>> \in Seq(ToPage)
         /\ \A k \in DOMAIN (Released(es) \o <<m>>) :
              LET x == (Released(es) \o <<m>>)[k]
              IN x = m \/ (es # {} /\ x.type = "released" /\ x.id = es)
         /\ \E k \in DOMAIN (Released(es) \o <<m>>) : (Released(es) \o <<m>>)[k] = m
         /\ es # {} => \E k \in DOMAIN (Released(es) \o <<m>>) :
                         LET x == (Released(es) \o <<m>>)[k] IN x.type = "released" /\ x.id = es
<1> DEFINE r == Released(es)
           one == <<m>>
<1>1. r \in Seq(ToPage) /\ one \in Seq(ToPage) /\ DOMAIN one = {1} /\ one[1] = m
  BY MessageTypes
<1>2. \A k \in DOMAIN r : es # {} /\ r[k].type = "released" /\ r[k].id = es
  BY DEF Released, Message
<1>3. es # {} => 1 \in DOMAIN r
  BY DEF Released
<1> HIDE DEF r, one
<1>4. /\ r \o one \in Seq(ToPage)
      /\ \A k \in DOMAIN r : k \in DOMAIN (r \o one) /\ (r \o one)[k] = r[k]
      /\ \A k \in DOMAIN one : Len(r) + k \in DOMAIN (r \o one) /\ (r \o one)[Len(r) + k] = one[k]
      /\ \A k \in DOMAIN (r \o one) : k \in DOMAIN r \/ (k - Len(r) \in DOMAIN one /\ k > Len(r))
  BY <1>1, PutLast
<1>5. \A k \in DOMAIN (r \o one) :
        (r \o one)[k] = m \/ (/\ es # {} /\ (r \o one)[k].type = "released"
                              /\ (r \o one)[k].id = es)
  <2> SUFFICES ASSUME NEW k \in DOMAIN (r \o one)
               PROVE  (r \o one)[k] = m \/ (/\ es # {} /\ (r \o one)[k].type = "released"
                                            /\ (r \o one)[k].id = es)
    OBVIOUS
  <2>1. CASE k \in DOMAIN r
    BY <1>2, <1>4, <2>1
  <2>2. CASE k = Len(r) + 1
    BY <1>1, <1>4, <2>2
  <2>3. k \in DOMAIN r \/ k = Len(r) + 1
    BY <1>1, <1>4
  <2> QED
    BY <2>1, <2>2, <2>3
<1>6. \E k \in DOMAIN (r \o one) : (r \o one)[k] = m
  BY <1>1, <1>4
<1>7. es # {} => \E k \in DOMAIN (r \o one) :
                   (r \o one)[k].type = "released" /\ (r \o one)[k].id = es
  BY <1>2, <1>3, <1>4
<1> QED
  BY <1>4, <1>5, <1>6, <1>7 DEF r, one

(***************************************************************************)
(* Messages to the page may be added that announce no end which has not    *)
(* come, and no release of what was not begun.                             *)
(***************************************************************************)
Honest(m) ==
  /\ m.type = "idle" => m.id \in cancelled' \/ stage'[m.id] = "settled"
  /\ m.type = "freed" => stage'[m.id] # "none"

LEMMA PostHonestly ==
  ASSUME TypeOK, MessageInv, [Next]_vars, NEW ms \in Seq(ToPage), Post(ms),
         \A k \in DOMAIN ms : Honest(ms[k]),
         NEW i \in DOMAIN toPage', NEW e \in Executions
  PROVE  /\ toPage'[i].type = "idle" /\ toPage'[i].id = e => e \in cancelled' \/ stage'[e] = "settled"
         /\ toPage'[i].type = "freed" /\ toPage'[i].id = e => stage'[e] # "none"
<1>1. CASE i \in DOMAIN toPage
  <2>1. toPage'[i] = toPage[i]
    BY <1>1, Posting
  <2>2. /\ Begun(e) => stage'[e] # "none"
        /\ stage[e] = "settled" => stage'[e] = "settled"
        /\ e \in cancelled => e \in cancelled'
    BY Forward
  <2> QED
    BY <1>1, <2>1, <2>2 DEF MessageInv, ToHostInv, ToPageInv, AtPage
<1>2. ASSUME NEW k \in DOMAIN ms, toPage'[i] = ms[k]
      PROVE  /\ toPage'[i].type = "idle" /\ toPage'[i].id = e => e \in cancelled' \/ stage'[e] = "settled"
             /\ toPage'[i].type = "freed" /\ toPage'[i].id = e => stage'[e] # "none"
  BY <1>2 DEF Honest
<1> QED
  BY <1>1, <1>2, Posting

LEMMA ToPageStep == TypeOK /\ MessageInv /\ PageInv /\ [Next]_vars => ToPageInv'
<1> SUFFICES ASSUME TypeOK, MessageInv, PageInv, [Next]_vars PROVE ToPageInv'
  OBVIOUS
<1>1. \A e \in Executions : /\ Begun(e) => stage'[e] # "none"
                            /\ stage[e] = "settled" => stage'[e] = "settled"
                            /\ e \in cancelled => e \in cancelled'
  BY Forward
<1>2. CASE UNCHANGED toPage
  BY <1>1, <1>2 DEF MessageInv, ToPageInv, AtPage, Begun
<1>3. ASSUME NEW types, PageReceives(types) PROVE ToPageInv'
  <2>1. \A i \in DOMAIN toPage' : i + 1 \in DOMAIN toPage /\ toPage'[i] = toPage[i + 1]
    BY <1>3, PageReceived
  <2> QED
    BY <1>1, <2>1 DEF MessageInv, ToPageInv, AtPage, Begun
<1>4. ASSUME NEW ms \in Seq(ToPage), Post(ms), \A k \in DOMAIN ms : Honest(ms[k])
      PROVE  ToPageInv'
  BY <1>4, PostHonestly DEF ToPageInv, AtPage, Begun
<1>5. CASE ResolveView
  BY <1>5 DEF ResolveView, ToPageInv
<1>6. ASSUME NEW es \in SUBSET Executions, NEW m \in ToPage, Honest(m), Post(Released(es) \o <<m>>)
      PROVE  ToPageInv'
  <2>1. \A k \in DOMAIN (Released(es) \o <<m>>) : Honest((Released(es) \o <<m>>)[k])
    BY <1>6, ReleasedThen DEF Honest
  <2> QED
    BY <1>4, <1>6, <2>1, ReleasedThen
<1>7. CASE Execute
  <2>1. Head(toHost).id \in Executions
    BY <1>7, Received DEF Execute
  <2>2. /\ OfRequest(owner[Head(toHost).id]) \in SUBSET Executions
        /\ Message("executing", Head(toHost).id) \in ToPage
    BY <2>1, MessageTypes DEF OfRequest, TypeOK
  <2>3. Honest(Message("executing", Head(toHost).id))
    BY DEF Honest, Message
  <2> QED
    BY <1>6, <1>7, <2>2, <2>3 DEF Execute
<1>8. CASE Cancel
  <2> DEFINE m == Message("idle", Head(toHost).id)
  <2>1. Head(toHost).id \in Executions /\ m \in ToPage
    BY <1>8, Received, MessageTypes DEF Cancel
  <2>2. CASE Head(toHost).id \in active
    <3>1. Honest(m) /\ Post(<<m>>)
      BY <1>8, <2>2 DEF Cancel, Honest, Message
    <3> HIDE DEF m
    <3>2. <<m>> \in Seq(ToPage) /\ \A k \in DOMAIN <<m>> : <<m>>[k] = m
      BY <2>1
    <3> QED
      BY <1>4, <3>1, <3>2
  <2> QED
    BY <1>2, <1>8, <2>2 DEF Cancel
<1>9. CASE ReleaseBody
  <2>1. Head(toHost).id \in Executions /\ Begun(Head(toHost).id)
    BY <1>9, Received DEF ReleaseBody, MessageInv, ToHostInv
  <2>2. bodies \cap {Head(toHost).id} \in SUBSET Executions /\ Message("freed", Head(toHost).id) \in ToPage
    BY <2>1, MessageTypes DEF TypeOK
  <2>3. Honest(Message("freed", Head(toHost).id))
    BY <1>1, <2>1 DEF Honest, Message
  <2> QED
    BY <1>6, <1>9, <2>2, <2>3 DEF ReleaseBody
<1>10. ASSUME NEW t \in Tabs, NEW type \in {"cleared", "discarded", "kept"}, Post(<<Message(type, t)>>)
       PROVE  ToPageInv'
  <2> DEFINE m == Message(type, t)
  <2>1. m \in ToPage /\ Honest(m)
    BY MessageTypes DEF Honest, Message
  <2> HIDE DEF m
  <2>2. <<m>> \in Seq(ToPage) /\ \A k \in DOMAIN <<m>> : <<m>>[k] = m
    BY <2>1
  <2> QED
    BY <1>4, <1>10, <2>1, <2>2 DEF m
<1>11. CASE ReleaseFiles \/ \E t \in Tabs, ok \in BOOLEAN : Discarded(t, ok)
  BY <1>10, <1>11, Received DEF ReleaseFiles, Discarded
<1>12. ASSUME NEW e \in Executions, NEW from, NEW before, Finalize(e, from, before),
              before = <<>> \/ before = <<Message("failure", e)>>
       PROVE  ToPageInv'
  <2> DEFINE idle == Message("idle", e)
             failure == Message("failure", e)
  <2>1. idle \in ToPage /\ Honest(idle) /\ failure \in ToPage /\ Honest(failure)
    BY <1>12, MessageTypes DEF Finalize, Advance, Honest, Message, TypeOK
  <2> HIDE DEF idle, failure
  <2>2. before \in Seq(ToPage) /\ \A k \in DOMAIN before : Honest(before[k])
    <3>1. CASE before = <<>>
      BY <3>1
    <3>2. CASE before = <<failure>>
      BY <2>1, <3>2
    <3> QED
      BY <1>12, <3>1, <3>2 DEF failure
  <2>3. /\ Append(before, idle) \in Seq(ToPage)
        /\ \A k \in DOMAIN Append(before, idle) : Honest(Append(before, idle)[k])
    BY <2>1, <2>2
  <2>4. Post(before) \/ Post(Append(before, idle))
    BY <1>12 DEF Finalize, idle
  <2> QED
    BY <1>4, <2>2, <2>3, <2>4
<1>13. ASSUME NEW e \in Executions, Responds(e) PROVE ToPageInv'
  <2>1. PICK evicted \in SUBSET bodies : Retain(e, evicted)
    BY <1>13 DEF Responds
  <2>2. /\ OfRequest(owner[e]) \cup evicted \in SUBSET Executions
        /\ Message("response", e) \in ToPage /\ Honest(Message("response", e))
    BY MessageTypes DEF OfRequest, TypeOK, Honest, Message
  <2> QED
    BY <1>6, <2>1, <2>2 DEF Retain
<1>14. ASSUME NEW e \in Executions, Run(e) PROVE ToPageInv'
  BY <1>2, <1>12, <1>13, <1>14
     DEF Run, Prepared, PreparationEnds, Connect, TransportFails, Recorded
<1>15. CASE Page
  BY <1>3, <1>15 DEF Page, ReleaseTab, BodyReleased, CloseEnds, CloseFails, SetExecutionState,
                     SetResponse, ReleaseResponseBodies
<1> QED
  BY <1>2, <1>5, <1>7, <1>8, <1>9, <1>11, <1>14, <1>15
     DEF Next, Host, Discard, User, Send, PressCancel, CloseTab, vars

(***************************************************************************)
(* A message to the host comes after those that wait there.                *)
(***************************************************************************)
LEMMA Asking ==
  ASSUME TypeOK, NEW m \in ToHost, toHost' = Append(toHost, m)
  PROVE  /\ toHost' \in Seq(ToHost) /\ Len(toHost) + 1 \in DOMAIN toHost'
         /\ toHost'[Len(toHost) + 1] = m
         /\ \A i \in DOMAIN toHost : i \in DOMAIN toHost' /\ toHost'[i] = toHost[i] /\ i < Len(toHost) + 1
         /\ \A i \in DOMAIN toHost' : i \in DOMAIN toHost \/ i = Len(toHost) + 1
  BY DEF TypeOK

(***************************************************************************)
(* What a cancellation of a tab's execution adds: one message, or two.     *)
(***************************************************************************)
LEMMA CancelAsks ==
  ASSUME TypeOK, NEW t \in Tabs, NEW more, more = <<>> \/ more = <<Message("discard", t)>>,
         CancelTabExecution(t, more)
  PROVE  /\ \A i \in DOMAIN toHost : i \in DOMAIN toHost' /\ toHost'[i] = toHost[i]
         /\ \A i \in DOMAIN toHost' :
              \/ i \in DOMAIN toHost
              \/ toHost'[i].type = "discard"
              \/ /\ running[t] # Nobody /\ toHost'[i] = Message("cancel", running[t])
                 /\ \A j \in DOMAIN toHost : j < i
         /\ running[t] # Nobody =>
              \E i \in DOMAIN toHost' : toHost'[i] = Message("cancel", running[t])
<1> DEFINE d == Message("discard", t)
           c == Message("cancel", running[t])
<1>1. toHost \in Seq(ToHost) /\ d \in ToHost /\ d.type = "discard"
  BY MessageTypes DEF TypeOK, Message
<1>2. \A s \in Seq(ToHost) :
        /\ s \o more \in Seq(ToHost)
        /\ \A i \in DOMAIN s : i \in DOMAIN (s \o more) /\ (s \o more)[i] = s[i]
        /\ \A i \in DOMAIN (s \o more) : i \in DOMAIN s \/ (s \o more)[i].type = "discard"
  <2> SUFFICES ASSUME NEW s \in Seq(ToHost)
               PROVE  /\ s \o more \in Seq(ToHost)
                      /\ \A i \in DOMAIN s : i \in DOMAIN (s \o more) /\ (s \o more)[i] = s[i]
                      /\ \A i \in DOMAIN (s \o more) :
                           i \in DOMAIN s \/ (s \o more)[i].type = "discard"
    OBVIOUS
  <2> HIDE DEF d
  <2>1. more \in Seq(ToHost) /\ \A k \in DOMAIN more : more[k].type = "discard"
    <3>1. <<d>> \in Seq(ToHost) /\ \A k \in DOMAIN <<d>> : <<d>>[k] = d
      BY <1>1
    <3>2. <<>> \in Seq(ToHost) /\ DOMAIN <<>> = {}
      OBVIOUS
    <3> QED
      BY <1>1, <3>1, <3>2 DEF d
  <2> QED
    BY <2>1, PutLast
<1>3. CASE running[t] = Nobody
  BY <1>1, <1>2, <1>3 DEF CancelTabExecution
<1>4. CASE running[t] # Nobody
  <2>1. c \in ToHost /\ toHost' = Append(toHost, c) \o more
    BY <1>4, MessageTypes DEF CancelTabExecution, TypeOK
  <2> DEFINE s == Append(toHost, c)
  <2> HIDE DEF c
  <2>2. /\ s \in Seq(ToHost) /\ Len(toHost) + 1 \in DOMAIN s /\ s[Len(toHost) + 1] = c
        /\ \A i \in DOMAIN toHost : i \in DOMAIN s /\ s[i] = toHost[i] /\ i < Len(toHost) + 1
        /\ \A i \in DOMAIN s : i \in DOMAIN toHost \/ i = Len(toHost) + 1
    BY <1>1, <2>1
  <2> HIDE DEF s
  <2>3. /\ \A i \in DOMAIN s : i \in DOMAIN toHost' /\ toHost'[i] = s[i]
        /\ \A i \in DOMAIN toHost' : i \in DOMAIN s \/ toHost'[i].type = "discard"
    BY <1>2, <2>1, <2>2 DEF s
  <2> QED
    BY <1>4, <2>2, <2>3 DEF c
<1> QED
  BY <1>3, <1>4

LEMMA ToHostStep == TypeOK /\ MessageInv /\ HostInv /\ PageInv /\ [Next]_vars => ToHostInv'
<1> SUFFICES ASSUME TypeOK, MessageInv, HostInv, PageInv, [Next]_vars PROVE ToHostInv'
  OBVIOUS
<1>1. \A e \in Executions : Begun(e) => stage'[e] # "none"
  BY Forward
<1> USE DEF MessageInv, ToHostInv, AtHost, Begun
<1>2. ASSUME NEW type, Receive(type),
             \A e \in Executions : stage[e] = "posted" /\ ~AtHost(1, "execute", e) => stage'[e] = "posted"
      PROVE  ToHostInv'
  <2>1. /\ 1 \in DOMAIN toHost
        /\ \A i \in DOMAIN toHost' : /\ i + 1 \in DOMAIN toHost /\ toHost'[i] = toHost[i + 1]
    BY <1>2, Received
  <2>2. DOMAIN toHost \subseteq Nat /\ DOMAIN toHost' \subseteq Nat \ {0}
    BY <1>2, Received DEF TypeOK
  <2>3. ASSUME NEW i \in DOMAIN toHost', NEW e \in Executions
        PROVE  /\ AtHost(i, "execute", e)' => stage'[e] = "posted"
               /\ AtHost(i, "cancel", e)' \/ AtHost(i, "release", e)' => Begun(e)'
    <3>1. i + 1 \in DOMAIN toHost /\ toHost'[i] = toHost[i + 1] /\ i + 1 # 1
      BY <2>1, <2>2
    <3> QED
      BY <1>1, <1>2, <2>1, <3>1
  <2>4. ASSUME NEW i \in DOMAIN toHost', NEW j \in DOMAIN toHost', NEW e \in Executions,
               AtHost(i, "execute", e)'
        PROVE  /\ AtHost(j, "cancel", e)' => i < j
               /\ AtHost(j, "execute", e)' => i = j
    <3>1. /\ i + 1 \in DOMAIN toHost /\ toHost'[i] = toHost[i + 1]
          /\ j + 1 \in DOMAIN toHost /\ toHost'[j] = toHost[j + 1]
      BY <2>1
    <3>2. /\ AtHost(j, "cancel", e)' => i + 1 < j + 1
          /\ AtHost(j, "execute", e)' => i + 1 = j + 1
      BY <2>4, <3>1
    <3> QED
      BY <2>2, <3>2
  <2> QED
    BY <2>3, <2>4
<1>3. CASE Execute
  <2>1. stage' = [stage EXCEPT ![Head(toHost).id] = "preparing"] /\ Receive("execute")
    BY <1>3 DEF Execute
  <2>2. AtHost(1, "execute", Head(toHost).id)
    BY <2>1, Received
  <2> QED
    BY <1>2, <2>1, <2>2 DEF TypeOK
<1>4. CASE Cancel \/ ReleaseBody \/ ReleaseFiles \/ Discard
  BY <1>2, <1>4 DEF Cancel, ReleaseBody, ReleaseFiles, Discard
<1>5. CASE UNCHANGED toHost /\ \A e \in Executions : stage[e] = "posted" => stage'[e] = "posted"
  BY <1>1, <1>5
<1>6. ASSUME NEW e \in Executions, Run(e) PROVE ToHostInv'
  BY <1>5, <1>6 DEF Run, Prepared, PreparationEnds, Connect, TransportFails, Responds, Recorded,
                    Finalize, Advance, TypeOK
<1>7. ASSUME NEW t \in Tabs, NEW e \in Executions, Send(t, e) PROVE ToHostInv'
  <2> DEFINE m == Message("execute", e)
  <2>1. m \in ToHost /\ m.type = "execute" /\ m.id = e /\ toHost' = Append(toHost, m)
    BY <1>7, MessageTypes DEF Send, Message
  <2> HIDE DEF m
  <2>2. /\ \A i \in DOMAIN toHost : i \in DOMAIN toHost' /\ toHost'[i] = toHost[i]
        /\ \A i \in DOMAIN toHost' : i \in DOMAIN toHost \/ (i = Len(toHost) + 1 /\ toHost'[i] = m)
    BY <2>1, Asking
  <2>3. ~Begun(e) /\ stage' = [stage EXCEPT ![e] = "posted"]
    BY <1>7 DEF Send
  <2> QED
    BY <1>1, <2>1, <2>2, <2>3 DEF TypeOK
<1>8. ASSUME NEW m \in ToHost, toHost' = Append(toHost, m), UNCHANGED stage,
             m.type = "release" => Begun(m.id), m.type \notin {"execute", "cancel"}
      PROVE  ToHostInv'
  <2>1. /\ \A i \in DOMAIN toHost : i \in DOMAIN toHost' /\ toHost'[i] = toHost[i]
        /\ \A i \in DOMAIN toHost' : i \in DOMAIN toHost \/ (i = Len(toHost) + 1 /\ toHost'[i] = m)
    BY <1>8, Asking
  <2> QED
    BY <1>8, <2>1
<1>9. ASSUME NEW t \in Tabs, NEW more, more = <<>> \/ more = <<Message("discard", t)>>,
             CancelTabExecution(t, more), UNCHANGED stage
      PROVE  ToHostInv'
  <2>1. /\ \A i \in DOMAIN toHost : i \in DOMAIN toHost' /\ toHost'[i] = toHost[i]
        /\ \A i \in DOMAIN toHost' :
             \/ i \in DOMAIN toHost
             \/ toHost'[i].type = "discard"
             \/ /\ running[t] # Nobody /\ toHost'[i] = Message("cancel", running[t])
                /\ \A j \in DOMAIN toHost : j < i
    BY <1>9, CancelAsks
  <2>2. running[t] # Nobody =>
          /\ running[t] \in Executions /\ Begun(running[t])
          /\ Message("cancel", running[t]).type = "cancel"
          /\ Message("cancel", running[t]).id = running[t]
    BY DEF PageInv, TypeOK, Message
  <2> QED
    BY <1>9, <2>1, <2>2
<1>10. ASSUME NEW t \in Tabs, PressCancel(t) \/ CloseTab(t) PROVE ToHostInv'
  BY <1>9, <1>10 DEF PressCancel, CloseTab, hostVars
<1>11. CASE ReleaseTab
  <2> DEFINE t == Head(toPage).id
             m == IF shown[t] # Nobody THEN Message("release", shown[t]) ELSE Message("files", t)
  <2>1. t \in Tabs
    BY <1>11, PageReceived, PageTypes DEF ReleaseTab
  <2>2. /\ m \in ToHost /\ m.type \notin {"execute", "cancel"}
        /\ m.type = "release" => Begun(m.id)
    <3>1. shown[t] # Nobody => shown[t] \in Executions /\ Begun(shown[t])
      BY <2>1 DEF PageInv, TypeOK
    <3> QED
      BY <2>1, <3>1, MessageTypes DEF Message
  <2>3. UNCHANGED stage /\ (UNCHANGED toHost \/ toHost' = Append(toHost, m))
    BY <1>11 DEF ReleaseTab, hostVars
  <2> HIDE DEF m, t
  <2> QED
    BY <1>5, <1>8, <2>2, <2>3
<1>12. CASE BodyReleased
  <2> DEFINE m == Message("files", owner[Head(toPage).id])
  <2>1. Head(toPage).id \in Executions /\ Begun(Head(toPage).id)
    BY <1>12, PageReceived, PageTypes DEF BodyReleased, ToPageInv
  <2>2. m \in ToHost /\ m.type = "files"
    BY <2>1, MessageTypes DEF Message, HostInv
  <2>3. UNCHANGED stage /\ toHost' = Append(toHost, m)
    BY <1>12 DEF BodyReleased, hostVars
  <2> HIDE DEF m
  <2> QED
    BY <1>8, <2>2, <2>3
<1>13. CASE CloseEnds \/ CloseFails \/ SetExecutionState \/ SetResponse \/ ReleaseResponseBodies
  BY <1>5, <1>13 DEF CloseEnds, CloseFails, SetExecutionState, SetResponse,
                     ReleaseResponseBodies, hostVars
<1>14. CASE ResolveView
  BY <1>14 DEF ResolveView
<1>15. CASE UNCHANGED vars \/ \E t \in Tabs, ok \in BOOLEAN : Discarded(t, ok)
  BY <1>5, <1>15 DEF vars, hostVars, Discarded
<1> QED
  BY <1>3, <1>4, <1>6, <1>7, <1>10, <1>11, <1>12, <1>13, <1>14, <1>15
     DEF Next, Host, User, Page

-----------------------------------------------------------------------------
(* Bodies *)

OfferInv == ResponsesAreRetained /\ OfferedIsRetained

(***************************************************************************)
(* Bodies may go when a message that withdraws them is posted in the same  *)
(* step, and a response may be posted of a body that stays.                *)
(***************************************************************************)
LEMMA BodiesGo ==
  ASSUME TypeOK, OfferInv, NEW ms \in Seq(ToPage), Post(ms), UNCHANGED <<shown, offered>>,
         \A e \in bodies \ bodies' :
           \E k \in DOMAIN ms : ms[k].type = "released" /\ e \in ms[k].id,
         \A k \in DOMAIN ms : ms[k].type = "response" => ms[k].id \in bodies'
  PROVE  OfferInv'
<1> USE DEF OfferInv, ResponsesAreRetained, OfferedIsRetained, AtPage, Withdrawn
<1>1. /\ \A i \in DOMAIN toPage : i \in DOMAIN toPage' /\ toPage'[i] = toPage[i]
      /\ \A i \in DOMAIN toPage' : i \in DOMAIN toPage \/ \E k \in DOMAIN ms : toPage'[i] = ms[k]
      /\ \A k \in DOMAIN ms : \E i \in DOMAIN toPage' :
           toPage'[i] = ms[k] /\ \A j \in DOMAIN toPage : j < i
  BY Posting
<1>2. \A e \in bodies \ bodies' : \E i \in DOMAIN toPage' :
        /\ toPage'[i].type = "released" /\ e \in toPage'[i].id
        /\ \A j \in DOMAIN toPage : j < i
  BY <1>1
<1>3. ResponsesAreRetained'
  <2> SUFFICES ASSUME NEW i \in DOMAIN toPage', NEW e \in Executions,
                      toPage'[i].type = "response", toPage'[i].id = e, e \notin bodies'
               PROVE  \E j \in DOMAIN toPage' :
                        i < j /\ toPage'[j].type = "released" /\ e \in toPage'[j].id
    OBVIOUS
  <2>1. i \in DOMAIN toPage /\ toPage'[i] = toPage[i]
    BY <1>1
  <2>2. CASE e \in bodies
    BY <1>2, <2>1, <2>2
  <2>3. CASE e \notin bodies
    BY <1>1, <2>1, <2>3
  <2> QED
    BY <2>2, <2>3
<1>4. OfferedIsRetained'
  <2> SUFFICES ASSUME NEW t \in Tabs, offered[t], shown[t] \notin bodies'
               PROVE  \E i \in DOMAIN toPage' :
                        toPage'[i].type = "released" /\ shown[t] \in toPage'[i].id
    OBVIOUS
  <2>1. CASE shown[t] \in bodies
    BY <1>2, <2>1
  <2>2. CASE shown[t] \notin bodies
    BY <1>1, <2>2
  <2> QED
    BY <2>1, <2>2
<1> QED
  BY <1>3, <1>4

LEMMA BodiesReleased ==
  ASSUME TypeOK, OfferInv, NEW es \in SUBSET Executions, NEW m \in ToPage,
         Post(Released(es) \o <<m>>), UNCHANGED <<shown, offered>>,
         bodies \ bodies' \subseteq es, m.type = "response" => m.id \in bodies'
  PROVE  OfferInv'
<1> DEFINE ms == Released(es) \o <<m>>
<1>1. /\ ms \in Seq(ToPage)
      /\ \A k \in DOMAIN ms : ms[k] = m \/ (es # {} /\ ms[k].type = "released" /\ ms[k].id = es)
      /\ es # {} => \E k \in DOMAIN ms : ms[k].type = "released" /\ ms[k].id = es
  BY ReleasedThen
<1>2. Post(ms)
  OBVIOUS
<1> HIDE DEF ms
<1> QED
  BY <1>1, <1>2, BodiesGo

LEMMA OfferStep == TypeOK /\ MessageInv /\ OfferInv /\ PageInv /\ [Next]_vars => OfferInv'
<1> SUFFICES ASSUME TypeOK, MessageInv, OfferInv, PageInv, [Next]_vars PROVE OfferInv'
  OBVIOUS
<1>1. CASE UNCHANGED <<toPage, bodies, shown, offered>>
  BY <1>1 DEF OfferInv, ResponsesAreRetained, OfferedIsRetained, AtPage, Withdrawn
<1>2. CASE Execute
  <2>1. Head(toHost).id \in Executions
    BY <1>2, Received DEF Execute
  <2>2. /\ OfRequest(owner[Head(toHost).id]) \in SUBSET Executions
        /\ Message("executing", Head(toHost).id) \in ToPage
        /\ Message("executing", Head(toHost).id).type = "executing"
    BY <2>1, MessageTypes DEF OfRequest, TypeOK, Message
  <2>3. bodies \ bodies' \subseteq OfRequest(owner[Head(toHost).id])
    BY <1>2 DEF Execute
  <2> QED
    BY <1>2, <2>2, <2>3, BodiesReleased DEF Execute, pageVars
<1>3. CASE ReleaseBody
  <2>1. Head(toHost).id \in Executions
    BY <1>3, Received DEF ReleaseBody
  <2>2. /\ bodies \cap {Head(toHost).id} \in SUBSET Executions
        /\ Message("freed", Head(toHost).id) \in ToPage
        /\ Message("freed", Head(toHost).id).type = "freed"
    BY <2>1, MessageTypes DEF TypeOK, Message
  <2>3. bodies \ bodies' \subseteq bodies \cap {Head(toHost).id}
    BY <1>3 DEF ReleaseBody
  <2> QED
    BY <1>3, <2>2, <2>3, BodiesReleased DEF ReleaseBody, pageVars
<1>4. ASSUME NEW e \in Executions, Responds(e) PROVE OfferInv'
  <2>1. PICK evicted \in SUBSET bodies : Retain(e, evicted)
    BY <1>4 DEF Responds
  <2>2. /\ OfRequest(owner[e]) \cup evicted \in SUBSET Executions
        /\ Message("response", e) \in ToPage /\ Message("response", e).id = e
    BY MessageTypes DEF OfRequest, TypeOK, Message
  <2>3. bodies \ bodies' \subseteq OfRequest(owner[e]) \cup evicted /\ e \in bodies'
    BY <2>1 DEF Retain
  <2> QED
    BY <1>4, <2>1, <2>2, <2>3, BodiesReleased DEF Responds, Retain, pageVars
<1>5. ASSUME NEW m \in ToPage, m.type # "response", Post(<<m>>), UNCHANGED <<bodies, shown, offered>>
      PROVE  OfferInv'
  <2>1. <<m>> \in Seq(ToPage) /\ \A k \in DOMAIN <<m>> : <<m>>[k] = m
    OBVIOUS
  <2> QED
    BY <1>5, <2>1, BodiesGo
<1>6. CASE Cancel
  <2>1. Head(toHost).id \in Executions
    BY <1>6, Received DEF Cancel
  <2>2. Message("idle", Head(toHost).id) \in ToPage /\ Message("idle", Head(toHost).id).type = "idle"
    BY <2>1, MessageTypes DEF Message
  <2> QED
    BY <1>1, <1>5, <1>6, <2>2 DEF Cancel, pageVars
<1>7. CASE ReleaseFiles \/ \E t \in Tabs, ok \in BOOLEAN : Discarded(t, ok)
  <2>1. \A t \in Tabs, type \in {"cleared", "discarded", "kept"} :
          Message(type, t) \in ToPage /\ Message(type, t).type # "response"
    BY MessageTypes DEF Message
  <2>2. ReleaseFiles => Head(toHost).id \in Tabs
    BY Received DEF ReleaseFiles
  <2> QED
    BY <1>5, <1>7, <2>1, <2>2 DEF ReleaseFiles, Discarded, pageVars
<1>8. ASSUME NEW e \in Executions, NEW from, NEW before, Finalize(e, from, before),
             before = <<>> \/ before = <<Message("failure", e)>>,
             UNCHANGED <<bodies, shown, offered>>
      PROVE  OfferInv'
  <2> DEFINE idle == Message("idle", e)
             failure == Message("failure", e)
  <2>1. /\ idle \in ToPage /\ idle.type = "idle"
        /\ failure \in ToPage /\ failure.type = "failure"
    BY MessageTypes DEF Message
  <2> HIDE DEF idle, failure
  <2>2. before \in Seq(ToPage) /\ \A k \in DOMAIN before : before[k].type # "response"
    <3>1. CASE before = <<>>
      BY <3>1
    <3>2. CASE before = <<failure>>
      BY <2>1, <3>2
    <3> QED
      BY <1>8, <3>1, <3>2 DEF failure
  <2>3. /\ Append(before, idle) \in Seq(ToPage)
        /\ \A k \in DOMAIN Append(before, idle) : Append(before, idle)[k].type # "response"
    BY <2>1, <2>2
  <2>4. Post(before) \/ Post(Append(before, idle))
    BY <1>8 DEF Finalize, idle
  <2> QED
    BY <1>8, <2>2, <2>3, <2>4, BodiesGo
<1>9. ASSUME NEW e \in Executions, Run(e) PROVE OfferInv'
  BY <1>1, <1>4, <1>8, <1>9
     DEF Run, Prepared, PreparationEnds, Connect, TransportFails, Recorded, pageVars
<1>10. CASE ResolveView
  BY <1>10 DEF ResolveView, OfferInv, ResponsesAreRetained, OfferedIsRetained
<1>11. ASSUME NEW t \in Tabs, NEW e \in Executions, Send(t, e) PROVE OfferInv'
  BY <1>11 DEF Send, OfferInv, ResponsesAreRetained, OfferedIsRetained, AtPage, Withdrawn, TypeOK
<1>12. ASSUME NEW types, PageReceives(types), UNCHANGED bodies
       PROVE  /\ ResponsesAreRetained'
              /\ \A e \in Executions :
                   (\E i \in DOMAIN toPage : i # 1 /\ Withdrawn(e, i))
                     => \E i \in DOMAIN toPage' : toPage'[i].type = "released" /\ e \in toPage'[i].id
  <2>1. /\ DOMAIN toPage \subseteq Nat /\ DOMAIN toPage' \subseteq Nat \ {0}
        /\ \A i \in DOMAIN toPage' : i + 1 \in DOMAIN toPage /\ toPage'[i] = toPage[i + 1]
        /\ \A i \in DOMAIN toPage : i # 1 => i - 1 \in DOMAIN toPage' /\ toPage'[i - 1] = toPage[i]
    BY <1>12, PageReceived DEF TypeOK
  <2>2. \A e \in Executions :
          (\E i \in DOMAIN toPage : i # 1 /\ Withdrawn(e, i))
            => \E i \in DOMAIN toPage' : toPage'[i].type = "released" /\ e \in toPage'[i].id
    BY <2>1 DEF Withdrawn
  <2>3. ASSUME NEW i \in DOMAIN toPage', NEW e \in Executions, e \notin bodies,
               toPage'[i].type = "response", toPage'[i].id = e
        PROVE  \E j \in DOMAIN toPage' :
                 i < j /\ toPage'[j].type = "released" /\ e \in toPage'[j].id
    <3>1. i + 1 \in DOMAIN toPage /\ toPage[i + 1].type = "response" /\ toPage[i + 1].id = e
      BY <2>1, <2>3
    <3>2. PICK j \in DOMAIN toPage : i + 1 < j /\ toPage[j].type = "released" /\ e \in toPage[j].id
      BY <2>3, <3>1 DEF OfferInv, ResponsesAreRetained, AtPage, Withdrawn
    <3>3. j # 1 /\ i < j - 1
      BY <2>1, <3>2
    <3> QED
      BY <2>1, <3>2, <3>3
  <2> QED
    BY <1>12, <2>2, <2>3 DEF ResponsesAreRetained, AtPage, Withdrawn
<1>13. ASSUME NEW types, PageReceives(types), "released" \notin types,
              UNCHANGED <<bodies, shown, offered>>
       PROVE  OfferInv'
  <2>1. Head(toPage).type # "released" /\ Head(toPage) = toPage[1]
    BY <1>13, PageReceived
  <2>2. \A t \in Tabs : offered[t] /\ shown[t] \notin bodies =>
          \E i \in DOMAIN toPage : i # 1 /\ Withdrawn(shown[t], i)
    BY <2>1 DEF OfferInv, OfferedIsRetained, Withdrawn
  <2>3. \A e : \A i \in DOMAIN toPage : Withdrawn(e, i) => e \in Executions
    BY PageTypes DEF Withdrawn, TypeOK
  <2> QED
    BY <1>12, <1>13, <2>2, <2>3 DEF OfferInv, OfferedIsRetained
<1>14. CASE SetResponse
  <2> DEFINE m == Head(toPage)
  <2>1. /\ m = toPage[1] /\ 1 \in DOMAIN toPage /\ m.type \in {"response", "failure"}
        /\ m.id \in Executions
    BY <1>14, PageReceived, PageTypes DEF SetResponse
  <2>2. \A t \in Tabs : \/ shown'[t] = m.id /\ (offered'[t] => m.type = "response")
                        \/ shown'[t] = shown[t] /\ offered'[t] = offered[t]
    BY <1>14 DEF SetResponse
  <2>3. m.type = "response" =>
          m.id \in bodies \/ \E i \in DOMAIN toPage : i # 1 /\ Withdrawn(m.id, i)
    BY <2>1 DEF OfferInv, ResponsesAreRetained, AtPage
  <2>4. \A t \in Tabs : offered[t] /\ shown[t] \notin bodies =>
          \E i \in DOMAIN toPage : i # 1 /\ Withdrawn(shown[t], i)
    BY <2>1 DEF OfferInv, OfferedIsRetained, Withdrawn
  <2>5. \A e : \A i \in DOMAIN toPage : Withdrawn(e, i) => e \in Executions
    BY PageTypes DEF Withdrawn, TypeOK
  <2>6. /\ ResponsesAreRetained' /\ bodies' = bodies
        /\ \A e \in Executions :
             (\E i \in DOMAIN toPage : i # 1 /\ Withdrawn(e, i))
               => \E i \in DOMAIN toPage' : toPage'[i].type = "released" /\ e \in toPage'[i].id
    BY <1>12, <1>14 DEF SetResponse, hostVars
  <2> HIDE DEF m
  <2>7. OfferedIsRetained'
    <3> SUFFICES ASSUME NEW t \in Tabs, offered'[t], shown'[t] \notin bodies
                 PROVE  \E i \in DOMAIN toPage' :
                          toPage'[i].type = "released" /\ shown'[t] \in toPage'[i].id
      BY <2>6 DEF OfferedIsRetained
    <3>1. \E i \in DOMAIN toPage : i # 1 /\ Withdrawn(shown'[t], i)
      BY <2>2, <2>3, <2>4
    <3> QED
      BY <2>5, <2>6, <3>1
  <2> QED
    BY <2>6, <2>7 DEF OfferInv
<1>15. CASE ReleaseResponseBodies
  <2>1. /\ Head(toPage) = toPage[1]
        /\ \A t \in Tabs : offered'[t] => offered[t] /\ shown[t] \notin Head(toPage).id
        /\ UNCHANGED <<shown, bodies>>
    BY <1>15, PageReceived DEF ReleaseResponseBodies, hostVars
  <2>2. \A t \in Tabs : offered'[t] /\ shown[t] \notin bodies =>
          \E i \in DOMAIN toPage : i # 1 /\ Withdrawn(shown[t], i)
    BY <2>1 DEF OfferInv, OfferedIsRetained, Withdrawn
  <2>3. \A e : \A i \in DOMAIN toPage : Withdrawn(e, i) => e \in Executions
    BY PageTypes DEF Withdrawn, TypeOK
  <2> QED
    BY <1>12, <1>15, <2>1, <2>2, <2>3 DEF ReleaseResponseBodies, OfferInv, OfferedIsRetained
<1>16. CASE ReleaseTab \/ BodyReleased \/ CloseEnds \/ CloseFails \/ SetExecutionState
  BY <1>13, <1>16 DEF ReleaseTab, BodyReleased, CloseEnds, CloseFails, SetExecutionState, hostVars
<1> QED
  BY <1>1, <1>2, <1>3, <1>6, <1>7, <1>9, <1>10, <1>11, <1>14, <1>15, <1>16
     DEF Next, Host, Discard, User, PressCancel, CloseTab, Page, vars, hostVars, pageVars

-----------------------------------------------------------------------------
(* What waits in a channel *)

Waits(type, e) == \E i \in DOMAIN toHost : AtHost(i, type, e)
Told(e) == \E i \in DOMAIN toPage : AtPage(i, "idle", e)

LEMMA WaitsIsContained ==
  ASSUME NEW s \in Seq(ToHost), NEW e
  PROVE  Contains(s, Message("execute", e))
           <=> \E i \in DOMAIN s : s[i].type = "execute" /\ s[i].id = e
<1>1. \A m \in ToHost : m = Message("execute", e) <=> m.type = "execute" /\ m.id = e
  BY DEF ToHost, Message
<1> QED
  BY <1>1 DEF Contains

LEMMA ToldIsContained ==
  ASSUME NEW s \in Seq(ToPage), NEW e \in Executions
  PROVE  Contains(s, Message("idle", e)) <=> \E i \in DOMAIN s : s[i].type = "idle" /\ s[i].id = e
<1>1. \A m \in ToPage : m = Message("idle", e) <=> m.type = "idle" /\ m.id = e
  BY DEF ToPage, Message
<1> QED
  BY <1>1 DEF Contains

HostExtends == \A i \in DOMAIN toHost : i \in DOMAIN toHost' /\ toHost'[i] = toHost[i]
PageExtends == \A i \in DOMAIN toPage : i \in DOMAIN toPage' /\ toPage'[i] = toPage[i]

LEMMA HostChannel ==
  ASSUME TypeOK, MessageInv, HostInv,
         \/ (\E e \in Executions : Run(e)) \/ Page \/ User \/ UNCHANGED vars
         \/ \E t \in Tabs, ok \in BOOLEAN : Discarded(t, ok)
  PROVE  HostExtends
<1>1. CASE UNCHANGED toHost
  BY <1>1 DEF HostExtends
<1>2. ASSUME NEW t \in Tabs, PressCancel(t) \/ CloseTab(t) PROVE HostExtends
  BY <1>2, CancelAsks DEF PressCancel, CloseTab, HostExtends
<1>3. ASSUME NEW t \in Tabs, NEW e \in Executions, Send(t, e) PROVE HostExtends
  BY <1>3, Asking, MessageTypes DEF Send, HostExtends
<1>4. CASE ReleaseTab
  <2> DEFINE t == Head(toPage).id
             m == IF shown[t] # Nobody THEN Message("release", shown[t]) ELSE Message("files", t)
  <2>1. t \in Tabs
    BY <1>4, PageReceived, PageTypes DEF ReleaseTab
  <2>2. m \in ToHost
    BY <2>1, MessageTypes DEF TypeOK
  <2>3. UNCHANGED toHost \/ toHost' = Append(toHost, m)
    BY <1>4 DEF ReleaseTab
  <2> HIDE DEF m, t
  <2> QED
    BY <1>1, <2>2, <2>3, Asking DEF HostExtends
<1>5. CASE BodyReleased
  <2> DEFINE m == Message("files", owner[Head(toPage).id])
  <2>1. Head(toPage).id \in Executions /\ Begun(Head(toPage).id)
    BY <1>5, PageReceived, PageTypes DEF BodyReleased, MessageInv, ToPageInv
  <2>2. m \in ToHost
    BY <2>1, MessageTypes DEF HostInv
  <2>3. toHost' = Append(toHost, m)
    BY <1>5 DEF BodyReleased
  <2> HIDE DEF m
  <2> QED
    BY <2>2, <2>3, Asking DEF HostExtends
<1> QED
  BY <1>1, <1>2, <1>3, <1>4, <1>5
     DEF Discarded, Run, Prepared, PreparationEnds, Connect, TransportFails, Responds,
         Recorded, User, Page, CloseEnds, CloseFails, SetExecutionState, SetResponse,
         ReleaseResponseBodies, vars

LEMMA FinalizeTells ==
  ASSUME TypeOK, NEW e \in Executions, NEW from, NEW before, Finalize(e, from, before),
         before = <<>> \/ before = <<Message("failure", e)>>
  PROVE  PageExtends /\ (e \in active => Told(e)')
<1> DEFINE idle == Message("idle", e)
           failure == Message("failure", e)
<1>1. idle \in ToPage /\ idle.type = "idle" /\ idle.id = e /\ failure \in ToPage
  BY MessageTypes DEF Message
<1> HIDE DEF idle, failure
<1>2. before \in Seq(ToPage)
  <2>1. CASE before = <<>>
    BY <2>1
  <2>2. CASE before = <<failure>>
    BY <1>1, <2>2
  <2> QED
    BY <2>1, <2>2 DEF failure
<1>3. CASE e \in active
  <2> DEFINE ms == Append(before, idle)
  <2>1. ms \in Seq(ToPage) /\ Len(before) + 1 \in DOMAIN ms /\ ms[Len(before) + 1] = idle
    BY <1>1, <1>2
  <2>2. Post(ms)
    BY <1>3 DEF Finalize, idle
  <2> HIDE DEF ms
  <2>3. PageExtends /\ \E i \in DOMAIN toPage' : toPage'[i] = idle
    BY <2>1, <2>2, Posting DEF PageExtends
  <2> QED
    BY <1>1, <2>3 DEF Told, AtPage
<1>4. CASE e \notin active
  BY <1>2, <1>4, Posting DEF Finalize, PageExtends
<1> QED
  BY <1>3, <1>4

LEMMA PageChannel ==
  ASSUME TypeOK, MessageInv, Host \/ (\E e \in Executions : Run(e)) \/ User \/ UNCHANGED vars
  PROVE  PageExtends
<1>1. CASE UNCHANGED toPage
  BY <1>1 DEF PageExtends
<1>2. ASSUME NEW es \in SUBSET Executions, NEW m \in ToPage, Post(Released(es) \o <<m>>)
      PROVE  PageExtends
  BY <1>2, ReleasedThen, Posting DEF PageExtends
<1>3. ASSUME NEW m \in ToPage, Post(<<m>>) PROVE PageExtends
  <2>1. <<m>> \in Seq(ToPage)
    OBVIOUS
  <2> QED
    BY <1>3, <2>1, Posting DEF PageExtends
<1>4. CASE Execute
  <2>1. Head(toHost).id \in Executions
    BY <1>4, Received DEF Execute
  <2>2. /\ OfRequest(owner[Head(toHost).id]) \in SUBSET Executions
        /\ Message("executing", Head(toHost).id) \in ToPage
    BY <2>1, MessageTypes DEF OfRequest, TypeOK
  <2> QED
    BY <1>2, <1>4, <2>2 DEF Execute
<1>5. CASE Cancel
  <2>1. Message("idle", Head(toHost).id) \in ToPage
    BY <1>5, Received, MessageTypes DEF Cancel
  <2> QED
    BY <1>1, <1>3, <1>5, <2>1 DEF Cancel
<1>6. CASE ReleaseBody
  <2>1. Head(toHost).id \in Executions
    BY <1>6, Received DEF ReleaseBody
  <2>2. bodies \cap {Head(toHost).id} \in SUBSET Executions /\ Message("freed", Head(toHost).id) \in ToPage
    BY <2>1, MessageTypes DEF TypeOK
  <2> QED
    BY <1>2, <1>6, <2>2 DEF ReleaseBody
<1>7. CASE ReleaseFiles \/ \E t \in Tabs, ok \in BOOLEAN : Discarded(t, ok)
  <2>1. \A t \in Tabs, type \in {"cleared", "discarded", "kept"} : Message(type, t) \in ToPage
    BY MessageTypes
  <2>2. ReleaseFiles => Head(toHost).id \in Tabs
    BY Received DEF ReleaseFiles
  <2> QED
    BY <1>3, <1>7, <2>1, <2>2 DEF ReleaseFiles, Discarded
<1>8. ASSUME NEW e \in Executions, Responds(e) PROVE PageExtends
  <2>1. PICK evicted \in SUBSET bodies : Retain(e, evicted)
    BY <1>8 DEF Responds
  <2>2. OfRequest(owner[e]) \cup evicted \in SUBSET Executions /\ Message("response", e) \in ToPage
    BY MessageTypes DEF OfRequest, TypeOK
  <2> QED
    BY <1>2, <2>1, <2>2 DEF Retain
<1>9. ASSUME NEW e \in Executions, NEW from, NEW before, Finalize(e, from, before),
             before = <<>> \/ before = <<Message("failure", e)>>
      PROVE  PageExtends
  BY <1>9, FinalizeTells
<1>10. ASSUME NEW e \in Executions, TransportFails(e) PROVE PageExtends
  <2> DEFINE before == IF e \in cancelled THEN <<>> ELSE <<Message("failure", e)>>
  <2>1. PICK s : Finalize(e, s, before)
    BY <1>10 DEF TransportFails
  <2>2. before = <<>> \/ before = <<Message("failure", e)>>
    OBVIOUS
  <2> HIDE DEF before
  <2> QED
    BY <1>9, <2>1, <2>2
<1>11. ASSUME NEW e \in Executions, Run(e) PROVE PageExtends
  BY <1>1, <1>8, <1>9, <1>10, <1>11
     DEF Run, Prepared, PreparationEnds, Connect, Recorded
<1> QED
  BY <1>1, <1>4, <1>5, <1>6, <1>7, <1>11
     DEF Host, Discard, User, Send, PressCancel, CloseTab, vars

(***************************************************************************)
(* A message stays until it is taken.                                      *)
(***************************************************************************)
LEMMA StaysWaiting ==
  ASSUME TypeOK, NEW type, Receive(type)
  PROVE  \A other, e : Waits(other, e) /\ ~AtHost(1, other, e) => Waits(other, e)'
  BY Received DEF Waits, AtHost

LEMMA StaysTold ==
  ASSUME TypeOK, NEW types, PageReceives(types)
  PROVE  \A e : Told(e) /\ ~AtPage(1, "idle", e) => Told(e)'
  BY PageReceived DEF Told, AtPage

(***************************************************************************)
(* What a tab runs is under way.                                           *)
(***************************************************************************)
LEMMA RunningStep ==
  TypeOK /\ MessageInv /\ HostInv /\ RunningIsUnderWay /\ [Next]_vars => RunningIsUnderWay'
<1> SUFFICES ASSUME TypeOK, MessageInv, HostInv, RunningIsUnderWay, [Next]_vars,
                    NEW t \in Tabs, NEW e \in Executions, running'[t] = e
             PROVE  Waits("execute", e)' \/ e \in active' \/ Told(e)'
  <2>1. TypeOK /\ MessageInv /\ HostInv /\ [Next]_vars => TypeOK'
    BY StepType
  <2>2. ASSUME TypeOK' PROVE toHost' \in Seq(ToHost) /\ toPage' \in Seq(ToPage)
    BY <2>2 DEF TypeOK
  <2> QED
    BY <2>1, <2>2, WaitsIsContained, ToldIsContained
       DEF RunningIsUnderWay, Waits, Told, AtHost, AtPage
<1>1. running[t] = e => Waits("execute", e) \/ e \in active \/ Told(e)
  BY WaitsIsContained, ToldIsContained DEF RunningIsUnderWay, TypeOK, Waits, Told, AtHost, AtPage
<1>2. CASE Execute
  <2>1. Waits("execute", e) => Waits("execute", e)' \/ AtHost(1, "execute", e)
    BY <1>2, StaysWaiting DEF Execute
  <2>2. AtHost(1, "execute", e) => e \in active'
    BY <1>2, Received DEF Execute, AtHost
  <2>3. PageExtends
    BY <1>2, PageChannel DEF Host
  <2> QED
    BY <1>1, <1>2, <2>1, <2>2, <2>3 DEF Execute, pageVars, PageExtends, Told, AtPage
<1>3. ASSUME NEW type, type # "execute", Receive(type), Host, UNCHANGED <<running, active>>
      PROVE  Waits("execute", e)' \/ e \in active' \/ Told(e)'
  <2>1. Waits("execute", e) => Waits("execute", e)'
    BY <1>3, StaysWaiting, Received DEF AtHost
  <2>2. PageExtends
    BY <1>3, PageChannel
  <2> QED
    BY <1>1, <1>3, <2>1, <2>2 DEF PageExtends, Told, AtPage
<1>4. CASE HostExtends /\ PageExtends /\ UNCHANGED <<running, active>>
  BY <1>1, <1>4 DEF HostExtends, PageExtends, Waits, Told, AtHost, AtPage
<1>5. CASE Host
  <2>1. CASE \E u \in Tabs, ok \in BOOLEAN : Discarded(u, ok)
    BY <1>4, <1>5, <2>1, HostChannel, PageChannel DEF Discarded, pageVars
  <2> QED
    BY <1>2, <1>3, <1>5, <2>1
       DEF Host, Cancel, ReleaseBody, ReleaseFiles, Discard, pageVars
<1>6. ASSUME NEW x \in Executions, Run(x)
      PROVE  Waits("execute", e)' \/ e \in active' \/ Told(e)'
  <2>1. HostExtends /\ PageExtends
    BY <1>6, HostChannel, PageChannel
  <2>2. ASSUME NEW from, NEW before, Finalize(x, from, before), UNCHANGED running,
               before = <<>> \/ before = <<Message("failure", x)>>
        PROVE  Waits("execute", e)' \/ e \in active' \/ Told(e)'
    <3>1. x \in active => Told(x)'
      BY <2>2, FinalizeTells
    <3>2. active' = active \ {x}
      BY <2>2 DEF Finalize
    <3> QED
      BY <1>1, <2>1, <2>2, <3>1, <3>2 DEF HostExtends, PageExtends, Waits, Told, AtHost, AtPage
  <2>3. CASE TransportFails(x)
    <3> DEFINE before == IF x \in cancelled THEN <<>> ELSE <<Message("failure", x)>>
    <3>1. PICK s : Finalize(x, s, before)
      BY <2>3 DEF TransportFails
    <3>2. (before = <<>> \/ before = <<Message("failure", x)>>) /\ UNCHANGED running
      BY <2>3 DEF TransportFails, pageVars
    <3> HIDE DEF before
    <3> QED
      BY <2>2, <3>1, <3>2
  <2>4. CASE PreparationEnds(x) \/ Recorded(x)
    BY <2>2, <2>4 DEF PreparationEnds, Recorded, pageVars
  <2> QED
    BY <1>4, <1>6, <2>1, <2>3, <2>4 DEF Run, Prepared, Connect, Responds, pageVars
<1>7. ASSUME NEW types, PageReceives(types), UNCHANGED active, running'[t] = running[t],
             AtPage(1, "idle", e) => running[t] # e, HostExtends
      PROVE  Waits("execute", e)' \/ e \in active' \/ Told(e)'
  <2>1. Told(e) => Told(e)'
    BY <1>7, StaysTold
  <2> QED
    BY <1>1, <1>7, <2>1 DEF HostExtends, Waits, AtHost
<1>8. CASE Page
  <2>1. HostExtends /\ UNCHANGED active
    BY <1>8, HostChannel DEF Page, ReleaseTab, BodyReleased, CloseEnds, CloseFails,
                             SetExecutionState, SetResponse, ReleaseResponseBodies, hostVars
  <2>2. CASE SetExecutionState
    <3>1. PageReceives({"executing", "idle"})
      BY <2>2 DEF SetExecutionState
    <3>2. AtPage(1, Head(toPage).type, Head(toPage).id) /\ Head(toPage) = toPage[1]
      BY <3>1, PageReceived
    <3>3. /\ running'[t] = IF running[t] = Head(toPage).id /\ Head(toPage).type = "idle"
                            THEN Nobody ELSE running[t]
          /\ e # Nobody
      BY <2>2, NobodyRuns DEF SetExecutionState
    <3>4. running'[t] = running[t] /\ (AtPage(1, "idle", e) => running[t] # e)
      BY <3>2, <3>3 DEF AtPage
    <3> QED
      BY <1>7, <2>1, <3>1, <3>4
  <2>3. ASSUME NEW types, PageReceives(types), "idle" \notin types, UNCHANGED running
        PROVE  Waits("execute", e)' \/ e \in active' \/ Told(e)'
    <3>1. ~AtPage(1, "idle", e)
      BY <2>3, PageReceived DEF AtPage
    <3> QED
      BY <1>7, <2>1, <2>3, <3>1
  <2> QED
    BY <1>8, <2>2, <2>3 DEF Page, ReleaseTab, BodyReleased, CloseEnds, CloseFails,
                            SetResponse, ReleaseResponseBodies
<1>9. CASE User
  <2>1. HostExtends /\ PageExtends
    BY <1>9, HostChannel, PageChannel
  <2>2. ASSUME NEW u \in Tabs, NEW x \in Executions, Send(u, x)
        PROVE  Waits("execute", e)' \/ e \in active' \/ Told(e)'
    <3> DEFINE m == Message("execute", x)
    <3>1. m \in ToHost /\ m.type = "execute" /\ m.id = x /\ toHost' = Append(toHost, m)
      BY <2>2, MessageTypes DEF Send, Message
    <3> HIDE DEF m
    <3>2. Waits("execute", x)'
      BY <3>1, Asking DEF Waits, AtHost
    <3>3. e = x \/ running'[t] = running[t]
      BY <2>2 DEF Send, TypeOK
    <3> QED
      BY <1>1, <2>1, <2>2, <3>2, <3>3 DEF Send, HostExtends, PageExtends, Waits, Told, AtHost, AtPage
  <2>3. ASSUME NEW u \in Tabs, PressCancel(u) \/ CloseTab(u)
        PROVE  Waits("execute", e)' \/ e \in active' \/ Told(e)'
    <3>1. PICK more \in Seq(ToHost) : CancelTabExecution(u, more)
      <4>1. <<>> \in Seq(ToHost) /\ <<Message("discard", u)>> \in Seq(ToHost)
        BY MessageTypes
      <4> QED
        BY <2>3, <4>1 DEF PressCancel, CloseTab
    <3>2. running' = [running EXCEPT ![u] = Nobody] /\ e # Nobody
      BY <3>1, CancelTabEffect, NobodyRuns
    <3>3. running'[t] = running[t] /\ UNCHANGED active
      BY <2>3, <3>2 DEF TypeOK, PressCancel, CloseTab, hostVars
    <3> QED
      BY <1>1, <2>1, <3>3 DEF HostExtends, PageExtends, Waits, Told, AtHost, AtPage
  <2> QED
    BY <1>9, <2>2, <2>3 DEF User
<1>10. CASE ResolveView
  BY <1>10, NobodyRuns DEF ResolveView
<1>11. CASE UNCHANGED vars
  BY <1>4, <1>11, HostChannel, PageChannel DEF vars, hostVars, pageVars
<1> QED
  BY <1>5, <1>6, <1>8, <1>9, <1>10, <1>11 DEF Next

(***************************************************************************)
(* An execution that may respond after a step might before it, unless the  *)
(* step began it.                                                          *)
(***************************************************************************)
LEMMA MightRespond ==
  ASSUME TypeOK, MessageInv, HostInv, PageInv, [Next]_vars, NEW e \in Executions, MayRespond(e)',
         \A t \in Tabs : ~Send(t, e)
  PROVE  MayRespond(e) /\ Begun(e) /\ owner[e] \in Tabs /\ owner'[e] = owner[e]
<1>1. e \notin cancelled
  BY Forward DEF MayRespond
<1>2. ASSUME NEW type, Receive(type) PROVE Waits("execute", e)' => Waits("execute", e)
  BY <1>2, Received DEF Waits, AtHost
<1>3. Waits("execute", e)' => Waits("execute", e)
  <2>1. CASE UNCHANGED toHost
    BY <2>1 DEF Waits, AtHost
  <2>2. ASSUME NEW m \in ToHost, toHost' = Append(toHost, m), m.type # "execute" \/ m.id # e
        PROVE  Waits("execute", e)' => Waits("execute", e)
    BY <2>2, Asking DEF Waits, AtHost
  <2>3. CASE Execute \/ Cancel \/ ReleaseBody \/ ReleaseFiles \/ Discard
    BY <1>2, <2>3 DEF Execute, Cancel, ReleaseBody, ReleaseFiles, Discard
  <2>4. ASSUME NEW t \in Tabs, NEW x \in Executions, Send(t, x)
        PROVE  Waits("execute", e)' => Waits("execute", e)
    <3> DEFINE m == Message("execute", x)
    <3>1. m \in ToHost /\ m.id # e /\ toHost' = Append(toHost, m)
      BY <2>4, MessageTypes DEF Send, Message
    <3> HIDE DEF m
    <3> QED
      BY <2>2, <3>1
  <2>5. ASSUME NEW t \in Tabs, PressCancel(t) \/ CloseTab(t)
        PROVE  Waits("execute", e)' => Waits("execute", e)
    <3>1. /\ \A i \in DOMAIN toHost : i \in DOMAIN toHost' /\ toHost'[i] = toHost[i]
          /\ \A i \in DOMAIN toHost' :
               \/ i \in DOMAIN toHost
               \/ toHost'[i].type = "discard"
               \/ toHost'[i] = Message("cancel", running[t])
      BY <2>5, CancelAsks DEF PressCancel, CloseTab
    <3>2. Message("cancel", running[t]).type = "cancel"
      BY DEF Message
    <3> QED
      BY <3>1, <3>2 DEF Waits, AtHost
  <2>6. CASE ReleaseTab
    <3> DEFINE t == Head(toPage).id
               m == IF shown[t] # Nobody THEN Message("release", shown[t]) ELSE Message("files", t)
    <3>1. t \in Tabs
      BY <2>6, PageReceived, PageTypes DEF ReleaseTab
    <3>2. m \in ToHost /\ m.type # "execute"
      BY <3>1, MessageTypes DEF TypeOK, Message
    <3>3. UNCHANGED toHost \/ toHost' = Append(toHost, m)
      BY <2>6 DEF ReleaseTab
    <3> HIDE DEF m, t
    <3> QED
      BY <2>1, <2>2, <3>2, <3>3
  <2>7. CASE BodyReleased
    <3> DEFINE m == Message("files", owner[Head(toPage).id])
    <3>1. Head(toPage).id \in Executions /\ Begun(Head(toPage).id)
      BY <2>7, PageReceived, PageTypes DEF BodyReleased, MessageInv, ToPageInv
    <3>2. m \in ToHost /\ m.type = "files"
      BY <3>1, MessageTypes DEF Message, HostInv
    <3>3. toHost' = Append(toHost, m)
      BY <2>7 DEF BodyReleased
    <3> HIDE DEF m
    <3> QED
      BY <2>2, <3>2, <3>3
  <2>8. CASE ResolveView
    BY <2>8 DEF ResolveView, Waits
  <2> QED
    BY <2>1, <2>3, <2>4, <2>5, <2>6, <2>7, <2>8
       DEF Next, Host, Discarded, Run, Prepared, PreparationEnds, Connect, TransportFails, Responds,
           Recorded, User, Page, CloseEnds, CloseFails, SetExecutionState, SetResponse,
           ReleaseResponseBodies, vars
<1>4. ASSUME Execute PROVE MayRespond(e)
  <2>1. AtHost(1, "execute", Head(toHost).id) /\ 1 \in DOMAIN toHost
    BY <1>4, Received DEF Execute
  <2> QED
    BY <1>1, <1>3, <1>4, <2>1 DEF Execute, MayRespond, Waits, AtHost, TypeOK
<1>5. ASSUME ~Execute PROVE MayRespond(e)
  <2>1. stage'[e] \in {"preparing", "building", "connected"}
          => stage[e] \in {"preparing", "building", "connected"}
    BY <1>5 DEF Next, vars, hostVars, Host, Cancel, ReleaseBody, ReleaseFiles, Discard, Discarded,
         Run, Prepared, PreparationEnds, Connect, TransportFails, Responds, Recorded, Finalize,
         Advance, Page, ReleaseTab, BodyReleased, CloseEnds, CloseFails, SetExecutionState,
         SetResponse, ReleaseResponseBodies, User, Send, PressCancel, CloseTab, ResolveView, TypeOK
  <2> QED
    BY <1>1, <1>3, <2>1 DEF MayRespond, Waits, AtHost
<1>6. MayRespond(e)
  BY <1>4, <1>5
<1>7. Begun(e)
  BY <1>6 DEF MayRespond, Begun, MessageInv, ToHostInv
<1> QED
  BY <1>6, <1>7, Forward DEF HostInv

(***************************************************************************)
(* The cancellation of an execution whose tab went on stays ahead of the   *)
(* next one, and is not taken without effect.                              *)
(***************************************************************************)
LEMMA OlderStep ==
  TypeOK /\ MessageInv /\ HostInv /\ PageInv /\ OlderAreCancelled /\ [Next]_vars
    => OlderAreCancelled'
<1> DEFINE Safe(e) == running'[owner'[e]] = e \/ CancelledBeforeNext(e)'
<1> SUFFICES ASSUME TypeOK, MessageInv, HostInv, PageInv, OlderAreCancelled, [Next]_vars,
                    NEW e \in Executions, MayRespond(e)'
             PROVE  Safe(e)
  BY DEF OlderAreCancelled
<1>1. ASSUME NEW t \in Tabs, Send(t, e) PROVE Safe(e)
  BY <1>1 DEF Send, TypeOK
<1> SUFFICES ASSUME \A t \in Tabs : ~Send(t, e) PROVE Safe(e)
  BY <1>1
<1>2. MayRespond(e) /\ Begun(e) /\ owner[e] \in Tabs /\ owner'[e] = owner[e] /\ e # Nobody
  BY MightRespond, NobodyRuns
<1>3. running[owner[e]] = e \/ CancelledBeforeNext(e)
  BY <1>2 DEF OlderAreCancelled
<1> DEFINE u == owner[e]
<1>4. ASSUME HostExtends, latest'[u] = latest[u], CancelledBeforeNext(e)
      PROVE  CancelledBeforeNext(e)'
  BY <1>2, <1>4 DEF HostExtends, CancelledBeforeNext, AtHost
<1>5. CASE HostExtends /\ latest'[u] = latest[u] /\ running'[u] = running[u]
  BY <1>2, <1>3, <1>4, <1>5
<1>6. ASSUME NEW type, Receive(type), type = "cancel" => Cancel, UNCHANGED <<latest, running>>
      PROVE  Safe(e)
  <2>1. CASE running[u] = e
    BY <1>2, <1>6, <2>1
  <2>2. CASE CancelledBeforeNext(e)
    <3>1. PICK i \in DOMAIN toHost :
            /\ AtHost(i, "cancel", e)
            /\ \/ latest[u] = e
               \/ \E j \in DOMAIN toHost : i < j /\ AtHost(j, "execute", latest[u])
      BY <2>2 DEF CancelledBeforeNext
    <3>2. i # 1
      <4> SUFFICES ASSUME i = 1 PROVE FALSE
        OBVIOUS
      <4>1. AtHost(1, "cancel", e) /\ Head(toHost).id = e /\ Cancel
        BY <1>6, <3>1, Received DEF AtHost
      <4>2. e \notin active
        BY <4>1 DEF Cancel, MayRespond
      <4>3. stage[e] \notin {"preparing", "building", "connected"}
        BY <1>2, <4>2 DEF HostInv, MayRespond
      <4>4. PICK k \in DOMAIN toHost : AtHost(k, "execute", e)
        BY <1>2, <4>3 DEF MayRespond
      <4>5. k < 1 /\ DOMAIN toHost = 1 .. Len(toHost)
        BY <3>1, <4>1, <4>4 DEF MessageInv, ToHostInv, TypeOK
      <4> QED
        BY <4>4, <4>5
    <3>3. \A k \in DOMAIN toHost : k # 1 => k - 1 \in DOMAIN toHost' /\ toHost'[k - 1] = toHost[k]
      BY <1>6, Received
    <3>4. i - 1 \in DOMAIN toHost' /\ AtHost(i - 1, "cancel", e)'
      BY <3>1, <3>2, <3>3 DEF AtHost
    <3>5. ASSUME NEW j \in DOMAIN toHost, i < j, AtHost(j, "execute", latest[u])
          PROVE  j - 1 \in DOMAIN toHost' /\ i - 1 < j - 1 /\ AtHost(j - 1, "execute", latest[u])'
      <4>1. j # 1 /\ DOMAIN toHost = 1 .. Len(toHost)
        BY <3>5 DEF TypeOK
      <4>2. j - 1 \in DOMAIN toHost' /\ toHost'[j - 1] = toHost[j] /\ i - 1 < j - 1
        BY <3>1, <3>3, <3>5, <4>1
      <4>3. latest'[u] = latest[u]
        BY <1>6
      <4> QED
        BY <1>2, <3>5, <4>2, <4>3 DEF AtHost
    <3> QED
      BY <1>2, <1>6, <3>1, <3>4, <3>5 DEF CancelledBeforeNext
  <2> QED
    BY <1>3, <2>1, <2>2
<1>7. CASE Host
  <2>1. CASE \E t \in Tabs, ok \in BOOLEAN : Discarded(t, ok)
    BY <1>5, <2>1, HostChannel DEF Discarded, pageVars
  <2> QED
    BY <1>6, <1>7, <2>1 DEF Host, Execute, Cancel, ReleaseBody, ReleaseFiles, Discard, pageVars
<1>8. ASSUME NEW x \in Executions, Run(x) PROVE Safe(e)
  BY <1>5, <1>8, HostChannel
     DEF Run, Prepared, PreparationEnds, Connect, TransportFails, Responds, Recorded, pageVars
<1>9. CASE Page
  <2>1. HostExtends
    BY <1>9, HostChannel
  <2>2. CASE SetExecutionState
    <3>1. PageReceives({"executing", "idle"})
      BY <2>2 DEF SetExecutionState
    <3>2. /\ AtPage(1, Head(toPage).type, Head(toPage).id)
          /\ 1 \in DOMAIN toPage /\ Head(toPage) = toPage[1]
      BY <3>1, PageReceived
    <3>3. ~AtPage(1, "idle", e)
      BY <1>2, <3>2 DEF MessageInv, ToPageInv, ToHostInv, MayRespond
    <3>4. /\ running'[u] = IF running[u] = Head(toPage).id /\ Head(toPage).type = "idle"
                            THEN Nobody ELSE running[u]
          /\ latest' = latest
      BY <1>2, <2>2 DEF SetExecutionState
    <3>5. running[u] = e => running'[u] = e
      BY <3>2, <3>3, <3>4 DEF AtPage
    <3> QED
      BY <1>2, <1>3, <1>4, <2>1, <3>4, <3>5
  <2> QED
    BY <1>5, <1>9, <2>1, <2>2 DEF Page, ReleaseTab, BodyReleased, CloseEnds, CloseFails,
                                  SetResponse, ReleaseResponseBodies
<1>10. CASE User
  <2>1. HostExtends
    BY <1>10, HostChannel
  <2>2. ASSUME NEW t \in Tabs, NEW x \in Executions, Send(t, x) PROVE Safe(e)
    <3> DEFINE m == Message("execute", x)
    <3>1. /\ m \in ToHost /\ m.type = "execute" /\ m.id = x /\ toHost' = Append(toHost, m)
          /\ running[t] = Nobody
      BY <2>2, MessageTypes DEF Send, Message
    <3> HIDE DEF m
    <3>2. CASE t = u
      <4>1. CancelledBeforeNext(e)
        BY <1>2, <1>3, <3>1, <3>2
      <4>2. latest'[u] = x
        BY <2>2, <3>2 DEF Send, TypeOK
      <4>3. /\ Len(toHost) + 1 \in DOMAIN toHost' /\ toHost'[Len(toHost) + 1] = m
            /\ \A i \in DOMAIN toHost : i \in DOMAIN toHost' /\ toHost'[i] = toHost[i] /\ i < Len(toHost) + 1
        BY <3>1, Asking
      <4> QED
        BY <1>2, <3>1, <4>1, <4>2, <4>3 DEF CancelledBeforeNext, AtHost
    <3>3. CASE t # u
      BY <1>2, <1>5, <2>1, <2>2, <3>3 DEF Send, TypeOK
    <3> QED
      BY <3>2, <3>3
  <2>3. ASSUME NEW t \in Tabs, PressCancel(t) \/ CloseTab(t) PROVE Safe(e)
    <3>1. latest' = latest
      BY <2>3 DEF PressCancel, CloseTab
    <3>2. CASE CancelledBeforeNext(e)
      BY <1>2, <1>4, <2>1, <3>1, <3>2
    <3>3. CASE running[u] = e /\ t # u
      <4>1. PICK more \in Seq(ToHost) : CancelTabExecution(t, more)
        <5>1. <<>> \in Seq(ToHost) /\ <<Message("discard", t)>> \in Seq(ToHost)
          BY MessageTypes
        <5> QED
          BY <2>3, <5>1 DEF PressCancel, CloseTab
      <4>2. running' = [running EXCEPT ![t] = Nobody]
        BY <4>1, CancelTabEffect
      <4> QED
        BY <1>2, <3>3, <4>2 DEF TypeOK
    <3>4. CASE running[u] = e /\ t = u
      <4>1. \E i \in DOMAIN toHost' : toHost'[i] = Message("cancel", e)
        BY <1>2, <2>3, <3>4, CancelAsks DEF PressCancel, CloseTab
      <4>2. latest[u] = e
        BY <1>2, <3>4 DEF PageInv
      <4> QED
        BY <1>2, <3>1, <4>1, <4>2 DEF CancelledBeforeNext, AtHost, Message
    <3> QED
      BY <1>3, <3>2, <3>3, <3>4
  <2> QED
    BY <1>10, <2>2, <2>3 DEF User
<1>11. CASE ResolveView
  BY <1>2, <1>11 DEF ResolveView, MayRespond, HostInv
<1>12. CASE UNCHANGED vars
  BY <1>5, <1>12, HostChannel DEF vars, pageVars
<1> QED
  BY <1>7, <1>8, <1>9, <1>10, <1>11, <1>12 DEF Next

(***************************************************************************)
(* A body of an earlier execution goes when the host takes the next one,   *)
(* and none is retained after that.                                        *)
(***************************************************************************)
LEMMA BodyStep ==
  TypeOK /\ MessageInv /\ HostInv /\ PageInv /\ OlderAreCancelled /\ BodyIsOfLatestExecution
    /\ [Next]_vars => BodyIsOfLatestExecution'
<1> DEFINE Current(b) == b = latest[owner[b]] \/ Waits("execute", latest[owner[b]])
<1> SUFFICES ASSUME TypeOK, MessageInv, HostInv, PageInv, OlderAreCancelled,
                    BodyIsOfLatestExecution, [Next]_vars, NEW b \in bodies'
             PROVE  Current(b)'
  <2>1. TypeOK /\ MessageInv /\ HostInv /\ [Next]_vars => TypeOK'
    BY StepType
  <2>2. ASSUME TypeOK' PROVE toHost' \in Seq(ToHost)
    BY <2>2 DEF TypeOK
  <2> QED
    BY <2>1, <2>2, WaitsIsContained DEF BodyIsOfLatestExecution, Waits, AtHost
<1>1. ASSUME b \in bodies
      PROVE  Current(b) /\ owner[b] \in Tabs /\ owner'[b] = owner[b]
  <2>1. b \in Executions /\ Begun(b)
    BY <1>1 DEF HostInv, TypeOK, Begun
  <2>2. Current(b)
    BY <1>1, WaitsIsContained DEF BodyIsOfLatestExecution, Waits, AtHost, TypeOK
  <2> QED
    BY <2>1, <2>2, Forward DEF HostInv
<1>2. ASSUME NEW e \in Executions, MayRespond(e), Begun(e)
      PROVE  Current(e) /\ owner[e] \in Tabs /\ owner'[e] = owner[e]
  <2>1. owner[e] \in Tabs /\ owner'[e] = owner[e]
    BY <1>2, Forward DEF HostInv
  <2>2. running[owner[e]] = e \/ CancelledBeforeNext(e)
    BY <1>2 DEF OlderAreCancelled
  <2> QED
    BY <2>1, <2>2 DEF PageInv, CancelledBeforeNext, Waits
<1>3. ASSUME Current(b), owner'[b] = owner[b], latest'[owner[b]] = latest[owner[b]],
             \/ HostExtends
             \/ \E type : Receive(type) /\ ~AtHost(1, "execute", latest[owner[b]])
      PROVE  Current(b)'
  <2>1. Waits("execute", latest[owner[b]])
          => \E i \in DOMAIN toHost' : toHost'[i].type = "execute" /\ toHost'[i].id = latest[owner[b]]
    <3>1. CASE HostExtends
      BY <3>1 DEF HostExtends, Waits, AtHost
    <3>2. ASSUME NEW type, Receive(type), ~AtHost(1, "execute", latest[owner[b]])
          PROVE  Waits("execute", latest[owner[b]])
                   => \E i \in DOMAIN toHost' : /\ toHost'[i].type = "execute"
                                                /\ toHost'[i].id = latest[owner[b]]
      BY <3>2, Received DEF Waits, AtHost
    <3> QED
      BY <1>3, <3>1, <3>2
  <2> QED
    BY <1>3, <2>1 DEF Waits, AtHost
<1>4. CASE Execute
  <2> DEFINE e == Head(toHost).id
  <2>1. AtHost(1, "execute", e) /\ e \in Executions
    BY <1>4, Received DEF Execute
  <2>2. b \in bodies /\ owner[b] # owner[e]
    BY <1>4 DEF Execute, OfRequest
  <2>3. latest[owner[b]] # e
    BY <1>1, <2>1, <2>2 DEF PageInv
  <2> QED
    BY <1>1, <1>3, <1>4, <2>1, <2>2, <2>3 DEF Execute, pageVars, AtHost
<1>5. ASSUME NEW type, Receive(type), type # "execute", bodies' \subseteq bodies, UNCHANGED latest
      PROVE  Current(b)'
  <2>1. ~AtHost(1, "execute", latest[owner[b]])
    BY <1>5, Received DEF AtHost
  <2> QED
    BY <1>1, <1>3, <1>5, <2>1
<1>6. CASE HostExtends /\ bodies' \subseteq bodies /\ UNCHANGED latest
  BY <1>1, <1>3, <1>6
<1>7. CASE Host
  <2>1. CASE \E t \in Tabs, ok \in BOOLEAN : Discarded(t, ok)
    BY <1>6, <2>1, HostChannel DEF Discarded, pageVars
  <2> QED
    BY <1>4, <1>5, <1>7, <2>1 DEF Host, Cancel, ReleaseBody, ReleaseFiles, Discard, pageVars
<1>8. ASSUME NEW e \in Executions, Run(e) PROVE Current(b)'
  <2>1. HostExtends
    BY <1>8, HostChannel
  <2>2. CASE Responds(e)
    <3>1. MayRespond(e) /\ Begun(e)
      BY <2>2 DEF Responds, Advance, MayRespond, Begun
    <3>2. b \in bodies \/ b = e
      BY <2>2 DEF Responds, Retain
    <3> QED
      BY <1>1, <1>2, <1>3, <2>1, <2>2, <3>1, <3>2 DEF Responds, pageVars
  <2> QED
    BY <1>6, <1>8, <2>1, <2>2
       DEF Run, Prepared, PreparationEnds, Connect, TransportFails, Recorded, pageVars
<1>9. CASE Page
  BY <1>6, <1>9, HostChannel
     DEF Page, ReleaseTab, BodyReleased, CloseEnds, CloseFails, SetExecutionState, SetResponse,
         ReleaseResponseBodies, hostVars
<1>10. CASE User
  <2>1. HostExtends
    BY <1>10, HostChannel
  <2>2. ASSUME NEW t \in Tabs, NEW x \in Executions, Send(t, x) PROVE Current(b)'
    <3> DEFINE m == Message("execute", x)
    <3>1. m \in ToHost /\ m.type = "execute" /\ m.id = x /\ toHost' = Append(toHost, m)
      BY <2>2, MessageTypes DEF Send, Message
    <3> HIDE DEF m
    <3>2. b \in bodies /\ latest' = [latest EXCEPT ![t] = x]
      BY <2>2 DEF Send
    <3>3. CASE owner[b] = t
      <4>1. latest'[owner'[b]] = x
        BY <1>1, <3>2, <3>3 DEF TypeOK
      <4> QED
        BY <3>1, <4>1, Asking DEF Waits, AtHost
    <3>4. CASE owner[b] # t
      BY <1>1, <1>3, <2>1, <3>2, <3>4 DEF TypeOK
    <3> QED
      BY <3>3, <3>4
  <2> QED
    BY <1>6, <1>10, <2>1, <2>2 DEF User, PressCancel, CloseTab, hostVars
<1>11. CASE ResolveView
  BY <1>11 DEF ResolveView
<1>12. CASE UNCHANGED vars
  BY <1>6, <1>12, HostChannel DEF vars, hostVars, pageVars
<1> QED
  BY <1>7, <1>8, <1>9, <1>10, <1>11, <1>12 DEF Next

-----------------------------------------------------------------------------
(* The theorems *)

LEMMA InitInv == Init => IInv
<1> SUFFICES ASSUME Init PROVE IInv
  OBVIOUS
<1>1. IsFiniteSet({}) /\ Cardinality({}) = 0
  BY FS_EmptySet
<1>2. <<>> \in Seq(ToHost) /\ <<>> \in Seq(ToPage) /\ DOMAIN <<>> = {}
  OBVIOUS
<1>3. TypeOK
  BY <1>1, <1>2, BodyLimit, ViewBound DEF Init, TypeOK, Stages
<1>4. MessageInv /\ HostInv /\ ResponsesAreRetained /\ BodiesMatchTabs
  <2>1. toHost = <<>> /\ toPage = <<>> /\ DOMAIN toHost = {} /\ DOMAIN toPage = {}
    BY <1>2 DEF Init
  <2>2. MessageInv /\ ResponsesAreRetained
    BY <2>1 DEF MessageInv, ToHostInv, ToPageInv, ResponsesAreRetained
  <2>3. HostInv
    BY DEF Init, HostInv, Begun
  <2>4. BodiesMatchTabs
    BY DEF Init, BodiesMatchTabs, OfferedIsRetained, BodyIsOfLatestExecution
  <2> QED
    BY <2>2, <2>3, <2>4
<1>5. PageInv /\ RunningIsUnderWay
  BY NobodyRuns DEF Init, PageInv, RunningIsUnderWay
<1>6. OlderAreCancelled
  BY <1>2 DEF Init, OlderAreCancelled, MayRespond
<1> QED
  BY <1>3, <1>4, <1>5, <1>6 DEF IInv

LEMMA StepInv == IInv /\ [Next]_vars => IInv'
<1> SUFFICES ASSUME IInv, [Next]_vars PROVE IInv'
  OBVIOUS
<1>1. /\ TypeOK /\ MessageInv /\ HostInv /\ PageInv /\ OlderAreCancelled
      /\ OfferInv /\ BodyIsOfLatestExecution /\ RunningIsUnderWay
  BY DEF IInv, BodiesMatchTabs, OfferInv
<1>2. TypeOK' /\ HostInv' /\ PageInv' /\ RunningIsUnderWay'
  BY <1>1, StepType, HostInvStep, PageInvStep, RunningStep
<1>3. MessageInv'
  BY <1>1, ToHostStep, ToPageStep DEF MessageInv
<1>4. OlderAreCancelled' /\ BodyIsOfLatestExecution' /\ OfferInv'
  BY <1>1, OlderStep, BodyStep, OfferStep
<1> QED
  BY <1>2, <1>3, <1>4 DEF IInv, BodiesMatchTabs, OfferInv

LEMMA Inductive == Spec => []IInv
  BY InitInv, StepInv, PTL DEF Spec

(***************************************************************************)
(* The states are what the model declares them to be.                      *)
(***************************************************************************)
THEOREM TypeCorrect == Spec => []TypeOK
<1>1. IInv => TypeOK
  BY DEF IInv
<1> QED
  BY <1>1, Inductive, PTL

(***************************************************************************)
(* A tab only holds the response of the last execution it began, and never *)
(* of one that was cancelled before its response came (ShowsLatestOnly).   *)
(***************************************************************************)
THEOREM OnlyLatestIsShown == Spec => []ShowsLatestOnly
<1>1. IInv => ShowsLatestOnly
  BY DEF IInv, PageInv, TypeOK, ShowsLatestOnly
<1> QED
  BY <1>1, Inductive, PTL

(***************************************************************************)
(* The host keeps the body a tab offers, or is withdrawing the offer, and  *)
(* once it has taken the next execution of a request it keeps no body of   *)
(* an earlier one (BodiesMatchTabs).                                       *)
(***************************************************************************)
THEOREM BodiesAreThoseOfTabs == Spec => []BodiesMatchTabs
<1>1. IInv => BodiesMatchTabs
  BY DEF IInv
<1> QED
  BY <1>1, Inductive, PTL

(***************************************************************************)
(* A tab that shows a running request has something left to wait for       *)
(* (RunningIsUnderWay).                                                    *)
(***************************************************************************)
THEOREM NoEndIsLost == Spec => []RunningIsUnderWay
<1>1. IInv => RunningIsUnderWay
  BY DEF IInv
<1> QED
  BY <1>1, Inductive, PTL

(***************************************************************************)
(* No connection is opened for an execution whose cancellation the host    *)
(* has taken, or whose view was replaced (NoConnectionOnceCancelled).      *)
(***************************************************************************)
THEOREM CancelledNeverConnects == Spec => NoConnectionOnceCancelled
<1> DEFINE Honoured == \A e \in Executions :
             stage'[e] = "connected" /\ stage[e] # "connected" => e \notin cancelled
<1>1. IInv /\ [Next]_vars => [Honoured]_vars
  <2> SUFFICES ASSUME IInv, Next, NEW e \in Executions,
                      stage'[e] = "connected", stage[e] # "connected"
               PROVE  e \notin cancelled
    OBVIOUS
  <2>1. TypeOK /\ HostInv
    BY DEF IInv
  <2>2. Connect(e)
    BY <2>1 DEF Next, Host, Execute, Cancel, ReleaseBody, ReleaseFiles, Discard, Discarded,
         Run, Prepared, PreparationEnds, Connect, TransportFails, Responds, Recorded, Finalize,
         Advance, Page, ReleaseTab, BodyReleased, CloseEnds, CloseFails, SetExecutionState,
         SetResponse, ReleaseResponseBodies, User, Send, PressCancel, CloseTab, ResolveView,
         hostVars, TypeOK
  <2> QED
    BY <2>1, <2>2 DEF Connect, Advance, HostInv
<1> QED
  BY <1>1, Inductive, PTL DEF Spec, NoConnectionOnceCancelled
=============================================================================
