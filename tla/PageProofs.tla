------------------------------ MODULE PageProofs ------------------------------
(***************************************************************************)
(* Proofs about Page, for any collections, tabs, requests and bounds.  Its *)
(* two parts have an inductive invariant each, AutosaveInv and TabsInv.    *)
(***************************************************************************)
EXTENDS Page, SequenceTheorems, TLAPS
-----------------------------------------------------------------------------
(* Sequences *)

LEMMA SeqGrows ==
  ASSUME NEW S, NEW T, S \subseteq T, NEW s \in Seq(S)
  PROVE  s \in Seq(T)
OBVIOUS

LEMMA AppendParts ==
  ASSUME NEW S, NEW s \in Seq(S), NEW e \in S
  PROVE  /\ Append(s, e) \in Seq(S) /\ DOMAIN Append(s, e) = 1 .. Len(s) + 1
         /\ \A i \in 1 .. Len(s) : Append(s, e)[i] = s[i]
         /\ Append(s, e)[Len(s) + 1] = e
OBVIOUS

LEMMA TailParts ==
  ASSUME NEW S, NEW s \in Seq(S), s # <<>>
  PROVE  /\ Len(s) \in Nat \ {0} /\ Head(s) = s[1] /\ s[1] \in S /\ Tail(s) \in Seq(S)
         /\ DOMAIN s = 1 .. Len(s) /\ DOMAIN Tail(s) = 1 .. Len(s) - 1
         /\ \A i \in 1 .. Len(s) - 1 : i + 1 \in 1 .. Len(s) /\ Tail(s)[i] = s[i + 1]
OBVIOUS

LEMMA RemoveParts ==
  ASSUME NEW S, NEW s \in Seq(S), NEW i \in DOMAIN s
  PROVE  /\ RemoveAt(s, i) \in Seq(S) /\ Len(RemoveAt(s, i)) = Len(s) - 1
         /\ DOMAIN RemoveAt(s, i) = 1 .. Len(s) - 1
         /\ \A j \in 1 .. Len(s) - 1 :
              RemoveAt(s, i)[j] = IF j < i THEN s[j] ELSE s[j + 1]
<1> DEFINE a == SubSeq(s, 1, i - 1)
           b == SubSeq(s, i + 1, Len(s))
<1>1. /\ a \in Seq(S) /\ Len(a) = i - 1 /\ \A j \in 1 .. i - 1 : a[j] = s[j]
  OBVIOUS
<1>2. /\ b \in Seq(S) /\ Len(b) = Len(s) - i /\ \A j \in 1 .. Len(s) - i : b[j] = s[j + i]
  OBVIOUS
<1>3. RemoveAt(s, i) = a \o b
  BY DEF RemoveAt
<1> HIDE DEF a, b
<1>4. /\ a \o b \in Seq(S) /\ Len(a \o b) = Len(a) + Len(b)
      /\ \A j \in 1 .. Len(a) + Len(b) : (a \o b)[j] = IF j <= Len(a) THEN a[j] ELSE b[j - Len(a)]
  BY <1>1, <1>2, ConcatProperties
<1>5. Len(a) + Len(b) = Len(s) - 1
  BY <1>1, <1>2
<1>6. ASSUME NEW j \in 1 .. Len(s) - 1
      PROVE  (a \o b)[j] = IF j < i THEN s[j] ELSE s[j + 1]
  <2>1. CASE j < i
    BY <2>1, <1>1, <1>4, <1>5
  <2>2. CASE ~(j < i)
    <3>1. (a \o b)[j] = b[j - (i - 1)]
      BY <2>2, <1>1, <1>4, <1>5
    <3>2. j - (i - 1) \in 1 .. Len(s) - i /\ j - (i - 1) + i = j + 1
      BY <2>2
    <3> QED
      BY <2>2, <3>1, <3>2, <1>2
  <2> QED
    BY <2>1, <2>2
<1> QED
  BY <1>3, <1>4, <1>5, <1>6

(***************************************************************************)
(* What is added behind a sequence leaves the rest as it was.              *)
(***************************************************************************)
LEMMA ConcatParts ==
  ASSUME NEW S, NEW s \in Seq(S), NEW u \in Seq(S)
  PROVE  /\ s \o u \in Seq(S) /\ DOMAIN (s \o u) = 1 .. Len(s) + Len(u)
         /\ \A i \in 1 .. Len(s) : (s \o u)[i] = s[i]
         /\ \A i \in 1 .. Len(s) + Len(u) : i > Len(s) => (s \o u)[i] = u[i - Len(s)]
BY ConcatProperties

LEMMA Appended ==
  ASSUME NEW S, NEW s \in Seq(S), NEW e \in S, NEW new, new = Append(s, e)
  PROVE  /\ new \in Seq(S)
         /\ \A i \in DOMAIN s : i \in DOMAIN new /\ new[i] = s[i]
         /\ \A i \in DOMAIN new : i \notin DOMAIN s => new[i] = e /\ \A j \in DOMAIN new : ~(j > i)
<1>1. /\ DOMAIN s = 1 .. Len(s) /\ Len(s) \in Nat
  OBVIOUS
<1>2. /\ new \in Seq(S) /\ DOMAIN new = 1 .. Len(s) + 1
      /\ \A i \in 1 .. Len(s) : new[i] = s[i]
      /\ new[Len(s) + 1] = e
  BY AppendParts
<1>3. \A i \in 1 .. Len(s) + 1 : i \in 1 .. Len(s) \/ i = Len(s) + 1
  BY <1>1
<1>4. \A j \in 1 .. Len(s) + 1 : ~(j > Len(s) + 1)
  BY <1>1
<1>5. 1 .. Len(s) \subseteq 1 .. Len(s) + 1
  BY <1>1
<1> QED
  BY <1>1, <1>2, <1>3, <1>4, <1>5

\* new is s with perhaps a message c, and a message r as its last, behind it
Answers(S, s, c, r, new) ==
  /\ new \in Seq(S)
  /\ \A i \in DOMAIN s : i \in DOMAIN new /\ new[i] = s[i]
  /\ \A i \in DOMAIN new :
       i \notin DOMAIN s => new[i] = c \/ (new[i] = r /\ \A j \in DOMAIN new : ~(j > i))

LEMMA Posted ==
  ASSUME NEW S, NEW s \in Seq(S), NEW c \in S, NEW r \in S, NEW a \in {<<>>, <<c>>}
  PROVE  Answers(S, s, c, r, s \o a \o <<r>>)
<1>1. PICK u : /\ u = s \o a /\ u \in Seq(S)
               /\ \A i \in DOMAIN s : i \in DOMAIN u /\ u[i] = s[i]
               /\ \A i \in DOMAIN u : i \notin DOMAIN s => u[i] = c
  <2>1. CASE a = <<>>
    <3>1. s \o a = s
      BY <2>1, ConcatEmptySeq
    <3> QED
      BY <3>1
  <2>2. CASE a = <<c>>
    <3>1. s \o a = Append(s, c)
      BY <2>2
    <3>2. PICK u : u = Append(s, c)
      OBVIOUS
    <3> QED
      BY <3>1, <3>2, Appended
  <2> QED
    BY <2>1, <2>2
<1>2. u \o <<r>> = Append(u, r)
  BY <1>1
<1>3. PICK v : v = Append(u, r)
  OBVIOUS
<1>4. /\ v \in Seq(S)
      /\ \A i \in DOMAIN u : i \in DOMAIN v /\ v[i] = u[i]
      /\ \A i \in DOMAIN v : i \notin DOMAIN u => v[i] = r /\ \A j \in DOMAIN v : ~(j > i)
  BY <1>1, <1>3, Appended
<1>5. Answers(S, s, c, r, v)
  BY <1>1, <1>4 DEF Answers
<1>6. v = s \o a \o <<r>>
  BY <1>1, <1>2, <1>3, Zenon
<1> QED
  BY <1>5, <1>6, Zenon

-----------------------------------------------------------------------------
(* Variables: the invariant *)

(***************************************************************************)
(* Nothing stored, waiting in a store or on its way behind position i of   *)
(* the messages to the page holds anything but v for k.                    *)
(***************************************************************************)
Only(k, v, panels, i) ==
  /\ \A s \in Stores : \A n \in DOMAIN queues[s] : queues[s][n].save.key # k
  /\ saved[k] \in {Gone, v}
  /\ \A j \in DOMAIN panels :
       j > i /\ panels[j].type = "collections" => panels[j].values[k] \in {Gone, v}

(***************************************************************************)
(* What is pending is the latest edit, and what is not pending is the      *)
(* latest edit wherever it is.                                             *)
(***************************************************************************)
PendingIsLatest == \A i \in DOMAIN pending : pending[i].value = variableEdits[pending[i].key]
SavedIsLatest == \A k \in Keys : ~IsPending(k, pending) => Only(k, variableEdits[k], toPanels, 0)

\* saves wait in the order they were sent, each in the store of its key
QueueInv ==
  \A s \in Stores : \A i \in DOMAIN queues[s] :
    /\ StoreOf(queues[s][i].save.key) = s
    /\ \A j \in DOMAIN queues[s] : i < j => queues[s][i].op < queues[s][j].op

\* the drain waits for the last message that was sent
DrainInv ==
  /\ drain.at = 0 => drain.op = 0
  /\ drain.at # 0 =>
       /\ drain.op = sends
       /\ \A s \in Stores : \A i \in DOMAIN queues[s] :
            queues[s][i].op = sends => queues[s][i].save = drain.save

(***************************************************************************)
(* Once the message the drain waits for was acknowledged, its value is the *)
(* only one left of its key.                                               *)
(***************************************************************************)
RepliesInv ==
  \A i \in DOMAIN toPanels :
    drain.at # 0 /\ toPanels[i].type = "reply" /\ toPanels[i].op = sends /\ toPanels[i].ok
    => Only(drain.save.key, drain.save.value, toPanels, i)

\* what a press of Send needs is stored when its flush has ended, and stays so
PressInv ==
  \A k \in Keys :
    /\ press.needs[k] <= variableEdits[k]
    /\ press.stage = "flushed" =>
         /\ saved[k] = Gone \/ saved[k] >= press.needs[k]
         /\ \A s \in Stores : \A i \in DOMAIN queues[s] :
              queues[s][i].save.key = k => queues[s][i].save.value >= press.needs[k]

SavesInv == PendingIsLatest /\ SavedIsLatest /\ QueueInv /\ DrainInv /\ RepliesInv
AutosaveInv == AutosaveTypeOK /\ SavesInv /\ PressInv /\ VariableEditsCount

-----------------------------------------------------------------------------
(* Variables: the drain *)

Waiting == [op : 1 .. sends, save : Save]

LEMMA VariableNumbers ==
  /\ MaxVariableEdits \in Nat /\ Values \subseteq Nat /\ Gone = -1 /\ Gone \notin Values /\ 0 \in Values
  /\ Global \in Keys /\ Scopes \subseteq Keys /\ Removable \subseteq Scopes /\ Global \notin Scopes
  /\ MaxFlushes \in Nat /\ MaxSaveFailures \in Nat /\ MaxSaveTimeouts \in Nat /\ MaxChanges \in Nat
BY GlobalIsNoCollection, RemovableCollections, AutosaveBounds DEF Values, Gone, Keys

LEMMA WaitingType ==
  ASSUME AutosaveTypeOK
  PROVE  /\ queues \in [Stores -> Seq(Waiting)] /\ sends \in Nat
         /\ \A s \in Stores : /\ queues[s] \in Seq(Waiting) /\ Len(queues[s]) \in Nat
                            /\ DOMAIN queues[s] = 1 .. Len(queues[s])
                            /\ \A n \in DOMAIN queues[s] : queues[s][n] \in Waiting
<1>1. queues \in [Stores -> Seq(Waiting)] /\ sends \in Nat
  BY DEF AutosaveTypeOK, Waiting
<1>2. \A s \in Stores : queues[s] \in Seq(Waiting)
  BY <1>1
<1> QED
  BY <1>1, <1>2

LEMMA SendFacts ==
  ASSUME AutosaveTypeOK, NEW p \in Seq(Save), NEW i \in DOMAIN p, SendAt(i, p),
         NEW S, S = StoreOf(p[i].key)
  PROVE  /\ sends' = sends + 1 /\ drain' = [at |-> i, op |-> sends', save |-> p[i]]
         /\ p[i] \in Save /\ S \in Stores /\ queues' \in [Stores -> Seq(Waiting')]
         /\ \A s \in Stores : s # S => queues'[s] = queues[s]
         /\ DOMAIN queues[S] = 1 .. Len(queues[S]) /\ Len(queues[S]) \in Nat
         /\ DOMAIN queues'[S] = 1 .. Len(queues[S]) + 1
         /\ \A n \in 1 .. Len(queues[S]) : queues'[S][n] = queues[S][n]
         /\ queues'[S][Len(queues[S]) + 1] = [op |-> sends', save |-> p[i]]
<1> DEFINE job == [op |-> sends + 1, save |-> p[i]]
<1>1. /\ sends' = sends + 1 /\ drain' = [at |-> i, op |-> sends', save |-> p[i]]
      /\ queues' = [queues EXCEPT ![S] = Append(@, job)] /\ sends \in Nat
  BY DEF SendAt, AutosaveTypeOK
<1>2. p[i] \in Save /\ S \in Stores /\ job \in Waiting'
  BY <1>1 DEF StoreOf, Stores, Waiting
<1>3. \A s \in Stores : queues[s] \in Seq(Waiting')
  <2>1. Waiting \subseteq Waiting'
    BY <1>1 DEF Waiting
  <2>2. \A s \in Stores : queues[s] \in Seq(Waiting)
    BY WaitingType
  <2> QED
    BY <2>1, <2>2, SeqGrows
<1>4. /\ \A s \in Stores : s # S => queues'[s] = queues[s]
      /\ queues'[S] = Append(queues[S], job)
  BY <1>1, <1>2 DEF AutosaveTypeOK
<1> HIDE DEF job
<1>5. queues' \in [Stores -> Seq(Waiting')]
  <2>1. DOMAIN queues' = Stores /\ queues' = [s \in Stores |-> queues'[s]]
    BY <1>1 DEF AutosaveTypeOK
  <2>2. \A s \in Stores : queues'[s] \in Seq(Waiting')
    <3>1. queues'[S] \in Seq(Waiting')
      BY <1>2, <1>3, <1>4, AppendParts
    <3> QED
      BY <3>1, <1>3, <1>4
  <2> QED
    BY <2>1, <2>2
<1>6. /\ DOMAIN queues[S] = 1 .. Len(queues[S]) /\ Len(queues[S]) \in Nat
      /\ DOMAIN queues'[S] = 1 .. Len(queues[S]) + 1
      /\ \A n \in 1 .. Len(queues[S]) : queues'[S][n] = queues[S][n]
      /\ queues'[S][Len(queues[S]) + 1] = job
  BY <1>2, <1>3, <1>4, AppendParts
<1> QED
  BY <1>1, <1>2, <1>4, <1>5, <1>6 DEF job

(***************************************************************************)
(* A message sent holds the latest edit of a key that is pending.  For     *)
(* what the page has left to read, panels is the messages behind those it  *)
(* has read in this step.                                                  *)
(***************************************************************************)
LEMMA SendKeeps ==
  ASSUME AutosaveTypeOK, QueueInv, NEW i \in DOMAIN pending', pending' \in Seq(Save),
         SendAt(i, pending'), PendingIsLatest', UNCHANGED <<variableEdits, saved>>,
         toPanels' \in Seq(ToPanel),
         \A k \in Keys : ~IsPending(k, pending') => Only(k, variableEdits[k], toPanels', 0)
  PROVE  /\ SavesInv' /\ toPanels' \in Seq(ToPanel') /\ queues' \in [Stores -> Seq(Waiting')]
         /\ drain' \in [at : 0 .. Len(pending)', op : 0 .. sends', save : Save] /\ sends' \in Nat
         /\ \A s \in Stores : \A n \in DOMAIN queues'[s] :
              \/ n \in DOMAIN queues[s] /\ queues'[s][n] = queues[s][n]
              \/ queues'[s][n].save.value = variableEdits[queues'[s][n].save.key]
<1> DEFINE p == pending'
<1>0. PICK S : S = StoreOf(p[i].key)
  OBVIOUS
<1>1. /\ sends' = sends + 1 /\ drain' = [at |-> i, op |-> sends', save |-> p[i]] /\ sends \in Nat
      /\ p[i] \in Save /\ S \in Stores /\ queues' \in [Stores -> Seq(Waiting')]
      /\ \A s \in Stores : s # S => queues'[s] = queues[s]
      /\ DOMAIN queues[S] = 1 .. Len(queues[S]) /\ Len(queues[S]) \in Nat
      /\ DOMAIN queues'[S] = 1 .. Len(queues[S]) + 1
      /\ \A n \in 1 .. Len(queues[S]) : queues'[S][n] = queues[S][n]
      /\ queues'[S][Len(queues[S]) + 1] = [op |-> sends', save |-> p[i]]
  BY <1>0, SendFacts, WaitingType
<1>2. p[i].value = variableEdits[p[i].key] /\ i \in 1 .. Len(p) /\ Len(p) \in Nat
  BY DEF PendingIsLatest
<1>3. \A s \in Stores : \A n \in DOMAIN queues[s] : queues[s][n] \in Waiting
  BY WaitingType
<1>4. \A n \in DOMAIN toPanels' : toPanels'[n] \in ToPanel
  OBVIOUS
<1>5. IsPending(p[i].key, p)
  BY DEF IsPending
<1>6. \A s \in Stores : \A n \in DOMAIN queues'[s] :
        \/ n \in DOMAIN queues[s] /\ queues'[s][n] = queues[s][n]
        \/ s = S /\ n = Len(queues[S]) + 1 /\ queues'[s][n] = [op |-> sends', save |-> p[i]]
  <2> TAKE s \in Stores
  <2> TAKE n \in DOMAIN queues'[s]
  <2>1. CASE s # S
    BY <2>1, <1>1
  <2>2. CASE s = S
    <3>1. n \in 1 .. Len(queues[S]) \/ n = Len(queues[S]) + 1
      BY <2>2, <1>1
    <3> QED
      BY <2>2, <3>1, <1>1
  <2> QED
    BY <2>1, <2>2
<1> HIDE DEF p
<1>7. SavedIsLatest'
  <2> SUFFICES ASSUME NEW k \in Keys, ~IsPending(k, p)
               PROVE  Only(k, variableEdits[k], toPanels, 0)'
    BY DEF SavedIsLatest, p
  <2>1. Only(k, variableEdits[k], toPanels', 0)
    BY DEF p
  <2>2. k # p[i].key
    BY <1>5
  <2>3. \A s \in Stores : \A n \in DOMAIN queues'[s] : queues'[s][n].save.key # k
    BY <1>6, <2>1, <2>2 DEF Only
  <2> QED
    BY <2>1, <2>3 DEF Only
<1>8. QueueInv'
  <2> SUFFICES ASSUME NEW s \in Stores, NEW n \in DOMAIN queues'[s]
               PROVE  /\ StoreOf(queues'[s][n].save.key) = s
                      /\ \A m \in DOMAIN queues'[s] : n < m => queues'[s][n].op < queues'[s][m].op
    BY DEF QueueInv
  <2>1. CASE s # S
    BY <2>1, <1>1 DEF QueueInv
  <2>2. CASE s = S
    <3>1. StoreOf(queues'[s][n].save.key) = s
      BY <2>2, <1>0, <1>6 DEF QueueInv
    <3>2. ASSUME NEW m \in DOMAIN queues'[s], n < m PROVE queues'[s][n].op < queues'[s][m].op
      <4>1. n \in 1 .. Len(queues[S]) /\ queues'[s][n] = queues[s][n]
        BY <2>2, <3>2, <1>1
      <4>2. CASE m \in 1 .. Len(queues[S])
        BY <2>2, <3>2, <4>1, <4>2, <1>1 DEF QueueInv
      <4>3. CASE m = Len(queues[S]) + 1
        <5>1. queues'[s][m].op = sends + 1
          BY <2>2, <4>3, <1>1
        <5>2. queues[s][n].op \in 1 .. sends
          BY <2>2, <4>1, <1>1, <1>3 DEF Waiting
        <5> QED
          BY <4>1, <5>1, <5>2, <1>1
      <4>4. m \in 1 .. Len(queues[S]) + 1 /\ Len(queues[S]) \in Nat
        BY <2>2, <3>2, <1>1
      <4> QED
        BY <4>2, <4>3, <4>4
    <3> QED
      BY <3>1, <3>2
  <2> QED
    BY <2>1, <2>2
<1>9. DrainInv'
  <2>1. drain'.at # 0 /\ drain'.op = sends' /\ drain'.save = p[i]
    BY <1>1, <1>2
  <2>2. ASSUME NEW s \in Stores, NEW n \in DOMAIN queues'[s], queues'[s][n].op = sends'
        PROVE  queues'[s][n].save = p[i]
    <3>1. CASE n \in DOMAIN queues[s] /\ queues'[s][n] = queues[s][n]
      <4>1. queues[s][n].op \in 1 .. sends
        BY <3>1, <1>3 DEF Waiting
      <4> QED
        BY <3>1, <4>1, <2>2, <1>1
    <3> QED
      BY <3>1, <1>6
  <2> QED
    BY <2>1, <2>2 DEF DrainInv
<1>10. RepliesInv'
  <2>1. ASSUME NEW n \in DOMAIN toPanels' PROVE toPanels'[n].type = "reply" => toPanels'[n].op # sends'
    <3>1. toPanels'[n].type = "reply" => toPanels'[n].op \in 1 .. sends
      BY <1>4 DEF ToPanel
    <3> QED
      BY <3>1, <1>1
  <2> QED
    BY <2>1 DEF RepliesInv
<1>11. toPanels' \in Seq(ToPanel')
  <2>1. 1 .. sends \subseteq 1 .. sends'
    BY <1>1
  <2>2. ToPanel \subseteq ToPanel'
    BY <2>1 DEF ToPanel
  <2> QED
    BY <2>2, SeqGrows
<1>12. drain' \in [at : 0 .. Len(pending)', op : 0 .. sends', save : Save] /\ sends' \in Nat
  BY <1>1, <1>2 DEF p
<1>13. \A s \in Stores : \A n \in DOMAIN queues'[s] :
         \/ n \in DOMAIN queues[s] /\ queues'[s][n] = queues[s][n]
         \/ queues'[s][n].save.value = variableEdits[queues'[s][n].save.key]
  BY <1>2, <1>6
<1> QED
  BY <1>1, <1>7, <1>8, <1>9, <1>10, <1>11, <1>12, <1>13 DEF SavesInv

(***************************************************************************)
(* The types a step that sends is about.                                   *)
(***************************************************************************)
SendingType ==
  /\ sends \in Nat /\ toPanels \in Seq(ToPanel) /\ queues \in [Stores -> Seq(Waiting)]
  /\ drain \in [at : 0 .. Len(pending), op : 0 .. sends, save : Save]

OthersType ==
  /\ variableEdits \in [Keys -> Values] /\ shown \in [Keys -> Stored] /\ pending \in Seq(Save)
  /\ timer \in BOOLEAN /\ open \in BOOLEAN
  /\ press \in [stage : {"none", "flushing", "flushed"}, needs : [Keys -> Values]]
  /\ flushes \in 0 .. MaxFlushes /\ saved \in [Keys -> Stored]
  /\ executed \in [needs : [Keys -> Values], saw : [Keys -> Stored]]
  /\ saveFailures \in 0 .. MaxSaveFailures /\ saveTimeouts \in 0 .. MaxSaveTimeouts
  /\ changes \in 0 .. MaxChanges

LEMMA AutosaveTypes == AutosaveTypeOK <=> SendingType /\ OthersType
BY DEF AutosaveTypeOK, SendingType, OthersType, Waiting

LEMMA AutosaveTypesNext == SendingType' /\ OthersType' => AutosaveTypeOK'
BY DEF AutosaveTypeOK, SendingType, OthersType, Waiting

sendingVars == <<queues, toPanels, drain, sends>>

LEMMA SavesSame ==
  ASSUME SavesInv, UNCHANGED <<variableEdits, pending, saved, sendingVars>>
  PROVE  SavesInv'
BY DEF SavesInv, sendingVars, PendingIsLatest, SavedIsLatest, QueueInv, DrainInv, RepliesInv, Only

\* a job that is new holds the latest edit of its key
NewJobsAreLatest ==
  \A s \in Stores : \A n \in DOMAIN queues'[s] :
    \/ n \in DOMAIN queues[s] /\ queues'[s][n] = queues[s][n]
    \/ queues'[s][n].save.value = variableEdits[queues'[s][n].save.key]

LEMMA FlushKeeps ==
  ASSUME AutosaveTypeOK, SavesInv, Flush, UNCHANGED <<variableEdits, pending, saved, toPanels>>
  PROVE  /\ SavesInv' /\ SendingType' /\ NewJobsAreLatest /\ timer' \in BOOLEAN
         /\ drain'.at = 0 => drain.at = 0 /\ pending = <<>>
<1>0. timer' \in BOOLEAN
  BY DEF Flush
<1>1. CASE UNCHANGED <<drain, sends, queues>> /\ (drain.at # 0 \/ pending = <<>>)
  <2>1. SavesInv'
    BY <1>1, SavesSame DEF sendingVars
  <2>2. SendingType'
    BY <1>1, AutosaveTypes DEF SendingType, ToPanel, Waiting
  <2> QED
    BY <1>0, <1>1, <2>1, <2>2 DEF NewJobsAreLatest
<1>2. CASE drain.at = 0 /\ pending # <<>> /\ SendAt(1, pending)
  <2>1. 1 \in DOMAIN pending' /\ SendAt(1, pending') /\ pending' \in Seq(Save)
    BY <1>2, TailParts DEF AutosaveTypeOK
  <2>2. toPanels' \in Seq(ToPanel)
    BY DEF AutosaveTypeOK
  <2>3. PendingIsLatest'
    BY DEF SavesInv, PendingIsLatest
  <2>4. \A k \in Keys : ~IsPending(k, pending') => Only(k, variableEdits[k], toPanels', 0)
    BY DEF SavesInv, SavedIsLatest
  <2>5. /\ SavesInv' /\ toPanels' \in Seq(ToPanel') /\ queues' \in [Stores -> Seq(Waiting')]
        /\ drain' \in [at : 0 .. Len(pending)', op : 0 .. sends', save : Save] /\ sends' \in Nat
        /\ NewJobsAreLatest
    BY <2>1, <2>2, <2>3, <2>4, SendKeeps DEF SavesInv, NewJobsAreLatest
  <2>6. drain'.at = 1
    BY <1>2 DEF SendAt
  <2> QED
    BY <1>0, <2>5, <2>6 DEF SendingType
<1> QED
  BY <1>1, <1>2 DEF Flush

LEMMA PressKept ==
  ASSUME AutosaveTypeOK, PressInv, NewJobsAreLatest, SendingType', UNCHANGED <<variableEdits, press, saved>>
  PROVE  PressInv'
<1> SUFFICES ASSUME NEW k \in Keys
             PROVE  /\ press'.needs[k] <= variableEdits'[k]
                    /\ press'.stage = "flushed" =>
                         /\ saved'[k] = Gone \/ saved'[k] >= press'.needs[k]
                         /\ \A s \in Stores : \A i \in DOMAIN queues'[s] :
                              queues'[s][i].save.key = k => queues'[s][i].save.value >= press'.needs[k]
  BY DEF PressInv
<1>1. /\ press.needs[k] <= variableEdits[k]
      /\ press.stage = "flushed" =>
           /\ saved[k] = Gone \/ saved[k] >= press.needs[k]
           /\ \A s \in Stores : \A i \in DOMAIN queues[s] :
                queues[s][i].save.key = k => queues[s][i].save.value >= press.needs[k]
  BY DEF PressInv
<1>2. press.needs[k] \in Nat /\ variableEdits[k] \in Nat
  BY VariableNumbers DEF AutosaveTypeOK
<1>3. variableEdits[k] >= press.needs[k]
  BY <1>1, <1>2
<1>4. ASSUME press.stage = "flushed", NEW s \in Stores, NEW i \in DOMAIN queues'[s],
             queues'[s][i].save.key = k
      PROVE  queues'[s][i].save.value >= press.needs[k]
  <2>1. CASE i \in DOMAIN queues[s] /\ queues'[s][i] = queues[s][i]
    BY <1>1, <1>4, <2>1
  <2>2. CASE queues'[s][i].save.value = variableEdits[queues'[s][i].save.key]
    BY <1>3, <1>4, <2>2
  <2> QED
    BY <2>1, <2>2 DEF NewJobsAreLatest
<1> QED
  BY <1>1, <1>4

LEMMA TimerKeeps ==
  ASSUME AutosaveInv, TimerFires \/ ChangeTab
  PROVE  AutosaveInv'
<1>1. /\ Flush /\ UNCHANGED <<variableEdits, shown, pending, press, open, saved, toPanels, executed>>
      /\ UNCHANGED <<saveFailures, saveTimeouts, changes>> /\ flushes' \in 0 .. MaxFlushes
  BY VariableNumbers DEF TimerFires, ChangeTab, Asked, autosaveBounds, AutosaveInv, AutosaveTypeOK
<1>2. SavesInv' /\ SendingType' /\ NewJobsAreLatest /\ timer' \in BOOLEAN
  BY <1>1, FlushKeeps DEF AutosaveInv
<1>3. PressInv'
  BY <1>1, <1>2, PressKept DEF AutosaveInv
<1>4. OthersType'
  BY <1>1, <1>2, AutosaveTypes DEF AutosaveInv, OthersType
<1>5. VariableEditsCount'
  BY <1>1 DEF AutosaveInv, VariableEditsCount, EditsStayVisible, SendSeesEdits
<1> QED
  BY <1>2, <1>3, <1>4, <1>5, AutosaveTypesNext DEF AutosaveInv

LEMMA PressKeeps ==
  ASSUME AutosaveInv, PressSend
  PROVE  AutosaveInv'
<1>1. /\ Flush /\ UNCHANGED <<variableEdits, shown, pending, open, saved, toPanels, executed>>
      /\ UNCHANGED <<saveFailures, saveTimeouts, changes>> /\ flushes' \in 0 .. MaxFlushes
      /\ press' = [stage |-> IF drain'.at = 0 THEN "flushed" ELSE "flushing", needs |-> variableEdits]
  BY VariableNumbers DEF PressSend, Asked, AutosaveInv, AutosaveTypeOK
<1>2. /\ SavesInv' /\ SendingType' /\ NewJobsAreLatest /\ timer' \in BOOLEAN
      /\ drain'.at = 0 => drain.at = 0 /\ pending = <<>>
  BY <1>1, FlushKeeps DEF AutosaveInv
<1>3. variableEdits \in [Keys -> Values]
  BY DEF AutosaveInv, AutosaveTypeOK
<1>4. PressInv'
  <2> SUFFICES ASSUME NEW k \in Keys
               PROVE  /\ press'.needs[k] <= variableEdits'[k]
                      /\ press'.stage = "flushed" =>
                           /\ saved'[k] = Gone \/ saved'[k] >= press'.needs[k]
                           /\ \A s \in Stores : \A i \in DOMAIN queues'[s] :
                                queues'[s][i].save.key = k => queues'[s][i].save.value >= press'.needs[k]
    BY DEF PressInv
  <2>1. variableEdits[k] \in Nat
    BY <1>3, VariableNumbers
  <2>2. ASSUME press'.stage = "flushed" PROVE Only(k, variableEdits[k], toPanels, 0)'
    <3>1. pending' = <<>>
      BY <1>1, <1>2, <2>2
    <3>2. ~IsPending(k, pending')
      BY <3>1 DEF IsPending
    <3>3. variableEdits' = variableEdits
      BY <1>1
    <3> QED
      BY <1>2, <3>2, <3>3 DEF SavesInv, SavedIsLatest
  <2>3. press'.needs[k] = variableEdits[k] /\ variableEdits'[k] = variableEdits[k]
    BY <1>1
  <2> QED
    BY <2>1, <2>2, <2>3 DEF Only
<1>5. OthersType'
  <2>1. press' \in [stage : {"none", "flushing", "flushed"}, needs : [Keys -> Values]]
    BY <1>1, <1>3
  <2> QED
    BY <1>1, <1>2, <2>1, AutosaveTypes DEF AutosaveInv, OthersType
<1>6. VariableEditsCount'
  BY <1>1 DEF AutosaveInv, VariableEditsCount, EditsStayVisible, SendSeesEdits
<1> QED
  BY <1>2, <1>4, <1>5, <1>6, AutosaveTypesNext DEF AutosaveInv

LEMMA UnloadKeeps ==
  ASSUME AutosaveInv, Unload
  PROVE  AutosaveInv'
<1>1. /\ Flush /\ UNCHANGED <<variableEdits, shown, pending, saved, toPanels, executed, autosaveBounds>>
      /\ press' = NotPressed /\ open' = FALSE
  BY DEF Unload
<1>2. SavesInv' /\ SendingType' /\ NewJobsAreLatest /\ timer' \in BOOLEAN
  BY <1>1, FlushKeeps DEF AutosaveInv
<1>3. press' \in [stage : {"none", "flushing", "flushed"}, needs : [Keys -> Values]]
  BY <1>1, VariableNumbers DEF NotPressed
<1>4. PressInv'
  <2>1. \A k \in Keys : variableEdits'[k] \in Nat
    BY <1>1, VariableNumbers DEF AutosaveInv, AutosaveTypeOK
  <2> QED
    BY <1>1, <2>1 DEF PressInv, NotPressed
<1>5. OthersType'
  BY <1>1, <1>2, <1>3, AutosaveTypes DEF AutosaveInv, OthersType, autosaveBounds
<1>6. VariableEditsCount'
  BY <1>1 DEF AutosaveInv, VariableEditsCount, EditsStayVisible, SendSeesEdits
<1> QED
  BY <1>2, <1>4, <1>5, <1>6, AutosaveTypesNext DEF AutosaveInv

LEMMA ExecuteKeeps ==
  ASSUME AutosaveInv, Execute
  PROVE  AutosaveInv'
<1>1. /\ press.stage = "flushed" /\ press' = NotPressed
      /\ executed' = [needs |-> press.needs, saw |-> saved]
      /\ UNCHANGED <<variableEdits, shown, pending, timer, open, saved, sendingVars, autosaveBounds>>
  BY DEF Execute, hostVars, sendingVars
<1>2. SavesInv'
  BY <1>1, SavesSame DEF AutosaveInv
<1>3. SendingType'
  BY <1>1, AutosaveTypes DEF AutosaveInv, SendingType, sendingVars, ToPanel, Waiting
<1>4. OthersType'
  <2>1. press' \in [stage : {"none", "flushing", "flushed"}, needs : [Keys -> Values]]
    BY <1>1, VariableNumbers DEF NotPressed
  <2>2. press.needs \in [Keys -> Values] /\ saved \in [Keys -> Stored]
    BY DEF AutosaveInv, AutosaveTypeOK
  <2>3. executed' \in [needs : [Keys -> Values], saw : [Keys -> Stored]]
    BY <1>1, <2>2
  <2> QED
    BY <1>1, <2>1, <2>3, AutosaveTypes DEF AutosaveInv, OthersType, autosaveBounds
<1>5. PressInv'
  <2>1. \A k \in Keys : variableEdits'[k] \in Nat
    BY <1>1, VariableNumbers DEF AutosaveInv, AutosaveTypeOK
  <2> QED
    BY <1>1, <2>1 DEF PressInv, NotPressed
<1>6. VariableEditsCount'
  <2>1. EditsStayVisible'
    BY <1>1 DEF AutosaveInv, VariableEditsCount, EditsStayVisible
  <2>2. SendSeesEdits'
    BY <1>1 DEF AutosaveInv, PressInv, SendSeesEdits
  <2> QED
    BY <2>1, <2>2 DEF VariableEditsCount
<1> QED
  BY <1>2, <1>3, <1>4, <1>5, <1>6, AutosaveTypesNext DEF AutosaveInv

(***************************************************************************)
(* A drain that ends leaves what is pending.                               *)
(***************************************************************************)
LEMMA DrainEnds ==
  ASSUME AutosaveTypeOK, QueueInv, drain' = NotDraining, toPanels' \in Seq(ToPanel),
         UNCHANGED <<variableEdits, saved, queues, sends>>, PendingIsLatest', pending' \in Seq(Save),
         \A k \in Keys : ~IsPending(k, pending') => Only(k, variableEdits[k], toPanels', 0)
  PROVE  SavesInv' /\ SendingType'
<1>1. drain'.at = 0 /\ drain'.op = 0
  BY DEF NotDraining
<1>2. QueueInv' /\ DrainInv' /\ RepliesInv'
  BY <1>1 DEF QueueInv, DrainInv, RepliesInv
<1>3. SavedIsLatest'
  BY DEF SavedIsLatest, Only
<1>4. SendingType'
  <2>1. Len(pending') \in Nat /\ sends \in Nat
    BY DEF AutosaveTypeOK
  <2>2. drain' \in [at : 0 .. Len(pending'), op : 0 .. sends, save : Save]
    BY <2>1, VariableNumbers DEF NotDraining, Save
  <2> QED
    BY <2>1, <2>2, WaitingType DEF SendingType, ToPanel, Waiting
<1> QED
  BY <1>2, <1>3, <1>4 DEF SavesInv

LEMMA PressGone ==
  ASSUME AutosaveTypeOK, press' = NotPressed, UNCHANGED variableEdits
  PROVE  /\ PressInv'
         /\ press' \in [stage : {"none", "flushing", "flushed"}, needs : [Keys -> Values]]
<1>1. \A k \in Keys : variableEdits'[k] \in Nat
  BY VariableNumbers DEF AutosaveTypeOK
<1> QED
  BY <1>1, VariableNumbers DEF PressInv, NotPressed

LEMMA NotConfirmedKeeps ==
  ASSUME AutosaveInv, NotConfirmed
  PROVE  AutosaveInv'
<1>1. /\ drain' = NotDraining /\ press' = NotPressed
      /\ UNCHANGED <<variableEdits, shown, pending, timer, open, saved, queues, toPanels, sends, executed>>
      /\ UNCHANGED <<saveFailures, changes, flushes>> /\ saveTimeouts' \in 0 .. MaxSaveTimeouts
  BY VariableNumbers DEF NotConfirmed, DrainFails, AutosaveInv, AutosaveTypeOK
<1>2. toPanels' \in Seq(ToPanel)
  BY <1>1 DEF AutosaveInv, AutosaveTypeOK
<1>3. SavesInv' /\ SendingType'
  <2>1. PendingIsLatest' /\ pending' \in Seq(Save)
    BY <1>1 DEF AutosaveInv, AutosaveTypeOK, SavesInv, PendingIsLatest
  <2>2. \A k \in Keys : ~IsPending(k, pending') => Only(k, variableEdits[k], toPanels', 0)
    BY <1>1 DEF AutosaveInv, SavesInv, SavedIsLatest
  <2> QED
    BY <1>1, <1>2, <2>1, <2>2, DrainEnds DEF AutosaveInv, SavesInv
<1>4. /\ PressInv'
      /\ press' \in [stage : {"none", "flushing", "flushed"}, needs : [Keys -> Values]]
  BY <1>1, PressGone DEF AutosaveInv
<1>5. OthersType'
  BY <1>1, <1>4, AutosaveTypes DEF AutosaveInv, OthersType
<1>6. VariableEditsCount'
  BY <1>1 DEF AutosaveInv, VariableEditsCount, EditsStayVisible, SendSeesEdits
<1> QED
  BY <1>3, <1>4, <1>5, <1>6, AutosaveTypesNext DEF AutosaveInv

(***************************************************************************)
(* What the page has read is no longer on its way.                         *)
(***************************************************************************)
LEMMA ReadParts ==
  ASSUME AutosaveTypeOK, toPanels # <<>>
  PROVE  /\ Tail(toPanels) \in Seq(ToPanel) /\ Len(toPanels) \in Nat \ {0}
         /\ toPanels[1] \in ToPanel /\ Head(toPanels) = toPanels[1]
         /\ DOMAIN toPanels = 1 .. Len(toPanels) /\ DOMAIN Tail(toPanels) = 1 .. Len(toPanels) - 1
         /\ \A i \in 1 .. Len(toPanels) - 1 :
              i + 1 \in 1 .. Len(toPanels) /\ Tail(toPanels)[i] = toPanels[i + 1]
BY TailParts DEF AutosaveTypeOK

LEMMA OnlyAfterReading ==
  ASSUME AutosaveTypeOK, toPanels # <<>>, NEW k, NEW v, NEW i \in Nat, Only(k, v, toPanels, i)
  PROVE  /\ i = 0 => Only(k, v, Tail(toPanels), 0)
         /\ i # 0 => Only(k, v, Tail(toPanels), i - 1)
<1>1. ASSUME NEW j \in DOMAIN Tail(toPanels), j > (IF i = 0 THEN 0 ELSE i - 1)
      PROVE  j + 1 \in DOMAIN toPanels /\ j + 1 > i /\ Tail(toPanels)[j] = toPanels[j + 1]
  BY <1>1, ReadParts
<1> QED
  BY <1>1 DEF Only

LEMMA RepliesAfterReading ==
  ASSUME AutosaveTypeOK, SavesInv, toPanels # <<>>, toPanels' = Tail(toPanels),
         UNCHANGED <<drain, sends, queues, saved>>
  PROVE  RepliesInv'
<1> SUFFICES ASSUME NEW i \in DOMAIN toPanels', drain.at # 0, toPanels'[i].type = "reply",
                    toPanels'[i].op = sends, toPanels'[i].ok
             PROVE  Only(drain.save.key, drain.save.value, toPanels, i)'
  BY DEF RepliesInv
<1>1. i \in Nat /\ i + 1 \in DOMAIN toPanels /\ toPanels'[i] = toPanels[i + 1]
  BY ReadParts
<1>2. Only(drain.save.key, drain.save.value, toPanels, i + 1)
  BY <1>1 DEF SavesInv, RepliesInv
<1>3. i + 1 \in Nat /\ i + 1 # 0 /\ (i + 1) - 1 = i
  BY <1>1
<1>4. Only(drain.save.key, drain.save.value, Tail(toPanels), (i + 1) - 1)
  BY <1>2, <1>3, OnlyAfterReading
<1> QED
  BY <1>3, <1>4 DEF Only

LEMMA ShowKeeps ==
  ASSUME AutosaveInv, ShowCollections
  PROVE  AutosaveInv'
<1> DEFINE new == [k \in Keys |-> IF k = Global THEN shown[k]
                                  ELSE Overlay(pending, k, Head(toPanels).values[k])]
<1>1. /\ toPanels # <<>> /\ toPanels' = Tail(toPanels) /\ shown' = new
      /\ Head(toPanels).type = "collections"
      /\ UNCHANGED <<variableEdits, pending, timer, drain, press, sends, open, queues, saved, executed, autosaveBounds>>
  BY DEF ShowCollections
<1>0. AutosaveTypeOK
  BY DEF AutosaveInv
<1>2. /\ toPanels' \in Seq(ToPanel) /\ toPanels[1] \in ToPanel /\ Head(toPanels) = toPanels[1]
      /\ 1 \in DOMAIN toPanels
  BY <1>0, <1>1, ReadParts
<1>3. toPanels[1].values \in [Keys -> Stored]
  BY <1>1, <1>2 DEF ToPanel
<1>4. ASSUME NEW k \in Keys, k # Global
      PROVE  new[k] \in {Gone, variableEdits[k]}
  <2>1. CASE toPanels[1].values[k] # Gone /\ IsPending(k, pending)
    <3>1. PICK i \in DOMAIN pending : pending[i].key = k
      BY <2>1 DEF IsPending
    <3>2. pending[i] \in ToSet(pending)
      BY <1>0 DEF ToSet, AutosaveTypeOK
    <3>3. \A s \in ToSet(pending) : s.key = k => s.value = variableEdits[k]
      BY <1>0 DEF ToSet, AutosaveTypeOK, AutosaveInv, SavesInv, PendingIsLatest
    <3> QED
      BY <2>1, <3>1, <3>2, <3>3, <1>2, <1>4 DEF Overlay
  <2>2. CASE ~(toPanels[1].values[k] # Gone /\ IsPending(k, pending))
    <3>1. new[k] = toPanels[1].values[k]
      BY <2>2, <1>2, <1>4 DEF Overlay
    <3>2. CASE toPanels[1].values[k] = Gone
      BY <3>1, <3>2
    <3>3. CASE ~IsPending(k, pending)
      <4>1. Only(k, variableEdits[k], toPanels, 0)
        BY <3>3 DEF AutosaveInv, SavesInv, SavedIsLatest
      <4> QED
        BY <4>1, <3>1, <1>1, <1>2 DEF Only
    <3> QED
      BY <2>2, <3>2, <3>3
  <2> QED
    BY <2>1, <2>2
<1>5. shown' \in [Keys -> Stored]
  <2>1. \A k \in Keys : variableEdits[k] \in Stored /\ shown[k] \in Stored /\ Gone \in Stored
    BY <1>0 DEF AutosaveTypeOK, Stored
  <2>2. \A k \in Keys : new[k] \in Stored
    BY <1>4, <2>1
  <2> QED
    BY <1>1, <2>2
<1>6. SavesInv' /\ SendingType'
  <2>1. PendingIsLatest' /\ QueueInv' /\ DrainInv'
    BY <1>1 DEF AutosaveInv, SavesInv, PendingIsLatest, QueueInv, DrainInv
  <2>2. SavedIsLatest'
    <3> SUFFICES ASSUME NEW k \in Keys, ~IsPending(k, pending) PROVE Only(k, variableEdits[k], toPanels, 0)'
      BY <1>1 DEF SavedIsLatest
    <3>1. Only(k, variableEdits[k], toPanels, 0)
      BY DEF AutosaveInv, SavesInv, SavedIsLatest
    <3>2. Only(k, variableEdits[k], toPanels', 0)
      BY <1>0, <1>1, <3>1, OnlyAfterReading
    <3> QED
      BY <1>1, <3>2 DEF Only
  <2>3. RepliesInv'
    BY <1>0, <1>1, RepliesAfterReading DEF AutosaveInv
  <2>4. SendingType'
    BY <1>0, <1>1, <1>2, AutosaveTypes DEF SendingType, ToPanel, Waiting
  <2> QED
    BY <2>1, <2>2, <2>3, <2>4 DEF SavesInv
<1>7. OthersType'
  BY <1>0, <1>1, <1>5, AutosaveTypes DEF OthersType, autosaveBounds
<1>8. PressInv'
  BY <1>1 DEF AutosaveInv, PressInv
<1>9. VariableEditsCount'
  <2>1. SendSeesEdits'
    BY <1>1 DEF AutosaveInv, VariableEditsCount, SendSeesEdits
  <2>2. EditsStayVisible'
    BY <1>1, <1>4 DEF AutosaveInv, VariableEditsCount, EditsStayVisible
  <2> QED
    BY <2>1, <2>2 DEF VariableEditsCount
<1> QED
  BY <1>6, <1>7, <1>8, <1>9, AutosaveTypesNext DEF AutosaveInv

(***************************************************************************)
(* An answer that is not of the message the drain waits for is passed by.  *)
(***************************************************************************)
LEMMA PassedBy ==
  ASSUME AutosaveInv, toPanels # <<>>, toPanels' = Tail(toPanels),
         UNCHANGED <<variableEdits, shown, timer, open, saved, executed, autosaveBounds>>,
         UNCHANGED <<pending, drain, press, sends, queues>>
  PROVE  AutosaveInv'
<1>0. AutosaveTypeOK /\ toPanels' \in Seq(ToPanel)
  BY ReadParts DEF AutosaveInv
<1>1. PendingIsLatest' /\ QueueInv' /\ DrainInv'
  BY DEF AutosaveInv, SavesInv, PendingIsLatest, QueueInv, DrainInv
<1>2. SavedIsLatest'
  <2> SUFFICES ASSUME NEW k \in Keys, ~IsPending(k, pending) PROVE Only(k, variableEdits[k], toPanels, 0)'
    BY DEF SavedIsLatest
  <2>1. Only(k, variableEdits[k], toPanels, 0)
    BY DEF AutosaveInv, SavesInv, SavedIsLatest
  <2>2. Only(k, variableEdits[k], toPanels', 0)
    BY <1>0, <2>1, OnlyAfterReading
  <2> QED
    BY <2>2 DEF Only
<1>3. RepliesInv'
  BY <1>0, RepliesAfterReading DEF AutosaveInv
<1>4. SendingType'
  BY <1>0, AutosaveTypes DEF SendingType, ToPanel, Waiting
<1>5. OthersType'
  BY <1>0, AutosaveTypes DEF OthersType, autosaveBounds
<1>6. PressInv'
  BY DEF AutosaveInv, PressInv
<1>7. VariableEditsCount'
  BY DEF AutosaveInv, VariableEditsCount, SendSeesEdits, EditsStayVisible
<1> QED
  BY <1>1, <1>2, <1>3, <1>4, <1>5, <1>6, <1>7, AutosaveTypesNext DEF AutosaveInv, SavesInv

(***************************************************************************)
(* What is no longer pending once a message was acknowledged has reached   *)
(* its store, and nothing older is left of it.                             *)
(***************************************************************************)
LEMMA LeftPending ==
  ASSUME AutosaveInv, toPanels # <<>>, drain.at # 0, Head(toPanels).type = "reply",
         Head(toPanels).op = drain.op, Head(toPanels).ok,
         NEW left, left = Saved(pending, drain.at, drain.save)
  PROVE  /\ left \in Seq(Save)
         /\ \A i \in DOMAIN left : left[i].value = variableEdits[left[i].key]
         /\ \A k \in Keys : ~IsPending(k, left) => Only(k, variableEdits[k], Tail(toPanels), 0)
<1> DEFINE a == drain.at
<1>0. AutosaveTypeOK /\ a \in DOMAIN pending /\ pending \in Seq(Save)
  <2>1. drain.at \in 0 .. Len(pending) /\ pending \in Seq(Save)
    BY DEF AutosaveInv, AutosaveTypeOK
  <2> QED
    BY <2>1 DEF AutosaveInv
<1>1. Head(toPanels) = toPanels[1] /\ 1 \in DOMAIN toPanels
  BY <1>0, ReadParts
<1>2. Only(drain.save.key, drain.save.value, Tail(toPanels), 0)
  <2>1. toPanels[1].op = sends
    BY <1>1 DEF AutosaveInv, SavesInv, DrainInv
  <2>2. Only(drain.save.key, drain.save.value, toPanels, 1)
    BY <1>1, <2>1 DEF AutosaveInv, SavesInv, RepliesInv
  <2>3. 1 - 1 = 0 /\ 1 \in Nat /\ 1 # 0
    OBVIOUS
  <2> QED
    BY <1>0, <2>2, <2>3, OnlyAfterReading
<1>3. \A i \in DOMAIN pending : pending[i].value = variableEdits[pending[i].key]
  BY DEF AutosaveInv, SavesInv, PendingIsLatest
<1>4. \A k \in Keys : ~IsPending(k, pending) => Only(k, variableEdits[k], Tail(toPanels), 0)
  BY <1>0, OnlyAfterReading DEF AutosaveInv, SavesInv, SavedIsLatest
<1>5. CASE left = pending
  BY <1>0, <1>3, <1>4, <1>5
<1>6. CASE pending[a] = drain.save /\ left = RemoveAt(pending, a)
  <2>1. /\ left \in Seq(Save) /\ DOMAIN left = 1 .. Len(pending) - 1 /\ a \in 1 .. Len(pending)
        /\ Len(pending) \in Nat /\ DOMAIN pending = 1 .. Len(pending)
        /\ \A j \in 1 .. Len(pending) - 1 : left[j] = IF j < a THEN pending[j] ELSE pending[j + 1]
    BY <1>0, <1>6, RemoveParts
  <2>2. \A i \in DOMAIN left : left[i].value = variableEdits[left[i].key]
    BY <1>3, <2>1
  <2>3. ASSUME NEW k \in Keys, ~IsPending(k, left)
        PROVE  Only(k, variableEdits[k], Tail(toPanels), 0)
    <3>1. CASE ~IsPending(k, pending)
      BY <1>4, <3>1
    <3>2. CASE IsPending(k, pending)
      <4>1. PICK i \in DOMAIN pending : pending[i].key = k
        BY <3>2 DEF IsPending
      <4>2. i = a
        <5>1. CASE i < a
          <6>1. i \in DOMAIN left /\ left[i] = pending[i]
            BY <2>1, <4>1, <5>1
          <6> QED
            BY <2>3, <4>1, <6>1 DEF IsPending
        <5>2. CASE i > a
          <6>1. i - 1 \in DOMAIN left /\ left[i - 1] = pending[i]
            BY <2>1, <4>1, <5>2
          <6> QED
            BY <2>3, <4>1, <6>1 DEF IsPending
        <5> QED
          BY <2>1, <4>1, <5>1, <5>2
      <4>3. drain.save.key = k /\ drain.save.value = variableEdits[k]
        BY <1>3, <1>6, <4>1, <4>2
      <4> QED
        BY <1>2, <4>3
    <3> QED
      BY <3>1, <3>2
  <2> QED
    BY <2>1, <2>2, <2>3
<1> QED
  BY <1>5, <1>6 DEF Saved

LEMMA AcknowledgedKeeps ==
  ASSUME AutosaveInv, toPanels # <<>>, drain.at # 0, Head(toPanels).type = "reply",
         Head(toPanels).op = drain.op, Head(toPanels).ok, toPanels' = Tail(toPanels), Acknowledged,
         UNCHANGED <<variableEdits, shown, timer, open, saved, executed, autosaveBounds>>
  PROVE  AutosaveInv'
<1>1. PICK left : left = Saved(pending, drain.at, drain.save)
  OBVIOUS
<1>2. PICK i \in {drain.at, drain.at + 1} : pending' = left /\ Continue(i, left)
  BY <1>1 DEF Acknowledged
<1>3. /\ left \in Seq(Save)
      /\ \A n \in DOMAIN left : left[n].value = variableEdits[left[n].key]
      /\ \A k \in Keys : ~IsPending(k, left) => Only(k, variableEdits[k], Tail(toPanels), 0)
  BY <1>1, LeftPending
<1>4. AutosaveTypeOK /\ QueueInv /\ toPanels' \in Seq(ToPanel) /\ pending' \in Seq(Save)
  BY <1>2, <1>3, ReadParts DEF AutosaveInv, SavesInv
<1>5. /\ PendingIsLatest'
      /\ \A k \in Keys : ~IsPending(k, pending') => Only(k, variableEdits[k], toPanels', 0)
  BY <1>2, <1>3 DEF PendingIsLatest
<1>6. VariableEditsCount'
  BY DEF AutosaveInv, VariableEditsCount, SendSeesEdits, EditsStayVisible
<1>7. CASE left = <<>>
  <2>1. drain' = NotDraining /\ SettlePress /\ UNCHANGED <<sends, queues>>
    BY <1>2, <1>7 DEF Continue
  <2>2. SavesInv' /\ SendingType'
    BY <1>4, <1>5, <2>1, DrainEnds
  <2>3. press' \in [stage : {"none", "flushing", "flushed"}, needs : [Keys -> Values]]
        /\ press'.needs = press.needs
    BY <1>4, <2>1 DEF SettlePress, AutosaveTypeOK
  <2>4. PressInv'
    <3> SUFFICES ASSUME NEW k \in Keys
                 PROVE  /\ press'.needs[k] <= variableEdits'[k]
                        /\ press'.stage = "flushed" =>
                             /\ saved'[k] = Gone \/ saved'[k] >= press'.needs[k]
                             /\ \A s \in Stores : \A n \in DOMAIN queues'[s] :
                                  queues'[s][n].save.key = k => queues'[s][n].save.value >= press'.needs[k]
      BY DEF PressInv
    <3>1. Only(k, variableEdits[k], toPanels', 0)
      BY <1>2, <1>5, <1>7 DEF IsPending
    <3>2. press.needs[k] <= variableEdits[k] /\ press.needs[k] \in Nat /\ variableEdits[k] \in Nat
      BY <1>4, VariableNumbers DEF AutosaveInv, PressInv, AutosaveTypeOK
    <3> QED
      BY <2>1, <2>3, <3>1, <3>2 DEF Only
  <2>5. OthersType'
    BY <1>4, <2>3, AutosaveTypes DEF OthersType, autosaveBounds
  <2> QED
    BY <1>6, <2>2, <2>4, <2>5, AutosaveTypesNext DEF AutosaveInv
<1>8. CASE left # <<>>
  <2>1. PICK n \in DOMAIN left : SendAt(n, left)
    <3>1. 1 \in DOMAIN left
      BY <1>3, <1>8, TailParts
    <3>2. SendAt(IF i \in DOMAIN left THEN i ELSE 1, left)
      BY <1>2, <1>8 DEF Continue
    <3> QED
      BY <3>1, <3>2
  <2>2. UNCHANGED press
    BY <1>2, <1>8 DEF Continue
  <2>3. n \in DOMAIN pending' /\ SendAt(n, pending')
    BY <1>2, <2>1
  <2>4. /\ SavesInv' /\ toPanels' \in Seq(ToPanel') /\ queues' \in [Stores -> Seq(Waiting')]
        /\ drain' \in [at : 0 .. Len(pending)', op : 0 .. sends', save : Save] /\ sends' \in Nat
        /\ NewJobsAreLatest
    BY <1>4, <1>5, <2>3, SendKeeps DEF NewJobsAreLatest
  <2>5. SendingType'
    BY <2>4 DEF SendingType
  <2>6. PressInv'
    BY <1>4, <2>2, <2>4, <2>5, PressKept DEF AutosaveInv
  <2>7. OthersType'
    BY <1>4, <2>2, AutosaveTypes DEF OthersType, autosaveBounds
  <2> QED
    BY <1>6, <2>4, <2>5, <2>6, <2>7, AutosaveTypesNext DEF AutosaveInv
<1> QED
  BY <1>7, <1>8

LEMMA SettledKeeps ==
  ASSUME AutosaveInv, Settled
  PROVE  AutosaveInv'
<1>1. /\ toPanels # <<>> /\ toPanels' = Tail(toPanels) /\ Head(toPanels).type = "reply"
      /\ UNCHANGED <<variableEdits, shown, timer, open, saved, executed, autosaveBounds>>
  BY DEF Settled
<1>2. CASE drain.at # 0 /\ drain.op = Head(toPanels).op /\ Head(toPanels).ok /\ Acknowledged
  BY <1>1, <1>2, AcknowledgedKeeps
<1>3. CASE DrainFails
  <2>1. drain' = NotDraining /\ press' = NotPressed /\ UNCHANGED <<pending, sends, queues>>
    BY <1>3 DEF DrainFails
  <2>2. AutosaveTypeOK /\ toPanels' \in Seq(ToPanel) /\ pending' \in Seq(Save) /\ PendingIsLatest'
    BY <1>1, <2>1, ReadParts DEF AutosaveInv, SavesInv, PendingIsLatest, AutosaveTypeOK
  <2>3. \A k \in Keys : ~IsPending(k, pending') => Only(k, variableEdits[k], toPanels', 0)
    BY <1>1, <2>1, <2>2, OnlyAfterReading DEF AutosaveInv, SavesInv, SavedIsLatest
  <2>4. SavesInv' /\ SendingType'
    BY <1>1, <2>1, <2>2, <2>3, DrainEnds DEF AutosaveInv, SavesInv
  <2>5. /\ PressInv'
        /\ press' \in [stage : {"none", "flushing", "flushed"}, needs : [Keys -> Values]]
    BY <1>1, <2>1, <2>2, PressGone
  <2>6. OthersType'
    BY <1>1, <2>1, <2>2, <2>5, AutosaveTypes DEF OthersType, autosaveBounds
  <2>7. VariableEditsCount'
    BY <1>1 DEF AutosaveInv, VariableEditsCount, SendSeesEdits, EditsStayVisible
  <2> QED
    BY <2>4, <2>5, <2>6, <2>7, AutosaveTypesNext DEF AutosaveInv
<1>4. CASE UNCHANGED <<pending, drain, press, sends, queues>>
  BY <1>1, <1>4, PassedBy
<1> QED
  BY <1>2, <1>3, <1>4 DEF Settled

-----------------------------------------------------------------------------
(* Variables: the host *)

(***************************************************************************)
(* What a step of the host does: jobs are taken from the stores, a value   *)
(* changes to that of a job or is gone, and messages are added, those of   *)
(* collections with the new values.                                        *)
(***************************************************************************)
JobsRemain ==
  \A s \in Stores : \A n \in DOMAIN queues'[s] :
    \E m \in DOMAIN queues[s] : queues'[s][n] = queues[s][m]
SavedAfter ==
  \A k \in Keys :
    \/ saved'[k] = saved[k]
    \/ saved'[k] = Gone
    \/ \E s \in Stores : \E n \in DOMAIN queues[s] :
         queues[s][n].save.key = k /\ saved'[k] = queues[s][n].save.value
PanelsGrow ==
  /\ toPanels' \in Seq(ToPanel)
  /\ \A i \in DOMAIN toPanels : i \in DOMAIN toPanels' /\ toPanels'[i] = toPanels[i]
  /\ \A i \in DOMAIN toPanels' :
       i \notin DOMAIN toPanels /\ toPanels'[i].type = "collections" => toPanels'[i].values = saved'

OnlyThen(k, v, i) ==
  /\ \A s \in Stores : \A n \in DOMAIN queues'[s] : queues'[s][n].save.key # k
  /\ saved'[k] \in {Gone, v}
  /\ \A j \in DOMAIN toPanels' :
       j > i /\ toPanels'[j].type = "collections" => toPanels'[j].values[k] \in {Gone, v}

LEMMA OnlyAfterHost ==
  ASSUME JobsRemain, SavedAfter, PanelsGrow, NEW k \in Keys, NEW v, NEW i, Only(k, v, toPanels, i)
  PROVE  OnlyThen(k, v, i)
<1>1. \A s \in Stores : \A n \in DOMAIN queues'[s] : queues'[s][n].save.key # k
  BY DEF JobsRemain, Only
<1>2. saved'[k] \in {Gone, v}
  BY DEF SavedAfter, Only
<1>3. ASSUME NEW j \in DOMAIN toPanels', j > i, toPanels'[j].type = "collections"
      PROVE  toPanels'[j].values[k] \in {Gone, v}
  <2>1. CASE j \in DOMAIN toPanels
    BY <1>3, <2>1 DEF PanelsGrow, Only
  <2>2. CASE j \notin DOMAIN toPanels
    BY <1>2, <1>3, <2>2 DEF PanelsGrow
  <2> QED
    BY <2>1, <2>2
<1> QED
  BY <1>1, <1>2, <1>3 DEF OnlyThen

LEMMA HostKeeps ==
  ASSUME AutosaveInv, JobsRemain, SavedAfter, PanelsGrow, QueueInv', queues' \in [Stores -> Seq(Waiting)],
         saved' \in [Keys -> Stored], UNCHANGED <<variableEdits, pageVars, executed, flushes>>,
         saveFailures' \in 0 .. MaxSaveFailures, saveTimeouts' \in 0 .. MaxSaveTimeouts,
         changes' \in 0 .. MaxChanges,
         \A i \in DOMAIN toPanels' :
           /\ i \notin DOMAIN toPanels /\ drain.at # 0
           /\ toPanels'[i].type = "reply" /\ toPanels'[i].op = sends /\ toPanels'[i].ok
           => OnlyThen(drain.save.key, drain.save.value, i)
  PROVE  AutosaveInv'
<1>0. /\ UNCHANGED <<shown, pending, timer, drain, press, sends, open>> /\ AutosaveTypeOK
      /\ drain.save.key \in Keys
  BY DEF pageVars, AutosaveInv, AutosaveTypeOK, Save
<1>1. PendingIsLatest'
  BY <1>0 DEF AutosaveInv, SavesInv, PendingIsLatest
<1>2. SavedIsLatest'
  <2> SUFFICES ASSUME NEW k \in Keys, ~IsPending(k, pending) PROVE Only(k, variableEdits[k], toPanels, 0)'
    BY <1>0 DEF SavedIsLatest
  <2>1. Only(k, variableEdits[k], toPanels, 0)
    BY DEF AutosaveInv, SavesInv, SavedIsLatest
  <2>2. OnlyThen(k, variableEdits[k], 0)
    BY <2>1, OnlyAfterHost
  <2> QED
    BY <2>2 DEF Only, OnlyThen
<1>3. DrainInv'
  BY <1>0 DEF AutosaveInv, SavesInv, DrainInv, JobsRemain
<1>4. RepliesInv'
  <2> SUFFICES ASSUME NEW i \in DOMAIN toPanels', drain.at # 0, toPanels'[i].type = "reply",
                      toPanels'[i].op = sends, toPanels'[i].ok
               PROVE  OnlyThen(drain.save.key, drain.save.value, i)
    BY <1>0 DEF RepliesInv, Only, OnlyThen
  <2>1. CASE i \in DOMAIN toPanels
    <3>1. Only(drain.save.key, drain.save.value, toPanels, i)
      BY <2>1 DEF AutosaveInv, SavesInv, RepliesInv, PanelsGrow
    <3> QED
      BY <1>0, <3>1, OnlyAfterHost
  <2>2. CASE i \notin DOMAIN toPanels
    BY <2>2
  <2> QED
    BY <2>1, <2>2
<1>5. PressInv'
  <2> SUFFICES ASSUME NEW k \in Keys
               PROVE  /\ press.needs[k] <= variableEdits[k]
                      /\ press.stage = "flushed" =>
                           /\ saved'[k] = Gone \/ saved'[k] >= press.needs[k]
                           /\ \A s \in Stores : \A n \in DOMAIN queues'[s] :
                                queues'[s][n].save.key = k => queues'[s][n].save.value >= press.needs[k]
    BY <1>0 DEF PressInv
  <2>1. /\ press.needs[k] <= variableEdits[k]
        /\ press.stage = "flushed" =>
             /\ saved[k] = Gone \/ saved[k] >= press.needs[k]
             /\ \A s \in Stores : \A n \in DOMAIN queues[s] :
                  queues[s][n].save.key = k => queues[s][n].save.value >= press.needs[k]
    BY DEF AutosaveInv, PressInv
  <2> QED
    BY <2>1 DEF SavedAfter, JobsRemain
<1>6. SendingType'
  BY <1>0, AutosaveTypes DEF SendingType, ToPanel, Waiting, PanelsGrow
<1>7. OthersType'
  BY <1>0, AutosaveTypes DEF OthersType
<1>8. VariableEditsCount'
  BY <1>0 DEF AutosaveInv, VariableEditsCount, SendSeesEdits, EditsStayVisible
<1> QED
  BY <1>1, <1>2, <1>3, <1>4, <1>5, <1>6, <1>7, <1>8, AutosaveTypesNext DEF AutosaveInv, SavesInv

(***************************************************************************)
(* A store takes the first of its jobs.                                    *)
(***************************************************************************)
LEMMA TakeParts ==
  ASSUME AutosaveTypeOK, QueueInv, NEW s \in Stores, queues[s] # <<>>,
         queues' = [queues EXCEPT ![s] = Tail(@)]
  PROVE  /\ JobsRemain /\ QueueInv' /\ queues' \in [Stores -> Seq(Waiting)]
         /\ Head(queues[s]) = queues[s][1] /\ 1 \in DOMAIN queues[s] /\ queues[s][1] \in Waiting
         /\ StoreOf(queues[s][1].save.key) = s
         /\ \A n \in DOMAIN queues'[s] : queues'[s][n].op > queues[s][1].op /\ queues'[s][n].op <= sends
         /\ \A r \in Stores : r # s => queues'[r] = queues[r]
<1>1. /\ queues \in [Stores -> Seq(Waiting)] /\ queues[s] \in Seq(Waiting) /\ sends \in Nat
      /\ \A n \in DOMAIN queues[s] : queues[s][n] \in Waiting
  BY WaitingType
<1>2. /\ Len(queues[s]) \in Nat \ {0} /\ Head(queues[s]) = queues[s][1] /\ queues[s][1] \in Waiting
      /\ Tail(queues[s]) \in Seq(Waiting)
      /\ DOMAIN queues[s] = 1 .. Len(queues[s]) /\ DOMAIN Tail(queues[s]) = 1 .. Len(queues[s]) - 1
      /\ \A i \in 1 .. Len(queues[s]) - 1 :
           i + 1 \in 1 .. Len(queues[s]) /\ Tail(queues[s])[i] = queues[s][i + 1]
  BY <1>1, TailParts
<1>3. queues'[s] = Tail(queues[s]) /\ \A r \in Stores : r # s => queues'[r] = queues[r]
  BY <1>1
<1>4. queues' \in [Stores -> Seq(Waiting)]
  BY <1>1, <1>2
<1>5. 1 \in DOMAIN queues[s]
  BY <1>2
<1>6. \A n \in DOMAIN queues'[s] :
        n \in Nat /\ n >= 1 /\ n + 1 \in DOMAIN queues[s] /\ queues'[s][n] = queues[s][n + 1]
  <2>1. DOMAIN queues'[s] = 1 .. Len(queues[s]) - 1 /\ Len(queues[s]) \in Nat
    BY <1>2, <1>3
  <2>2. \A n \in 1 .. Len(queues[s]) - 1 : n \in Nat /\ n >= 1
    BY <2>1
  <2> QED
    BY <1>2, <1>3, <2>1, <2>2
<1>7. JobsRemain
  BY <1>3, <1>6 DEF JobsRemain
<1>8. QueueInv'
  <2> SUFFICES ASSUME NEW r \in Stores, NEW n \in DOMAIN queues'[r]
               PROVE  /\ StoreOf(queues'[r][n].save.key) = r
                      /\ \A m \in DOMAIN queues'[r] : n < m => queues'[r][n].op < queues'[r][m].op
    BY DEF QueueInv
  <2>1. CASE r # s
    BY <1>3, <2>1 DEF QueueInv
  <2>2. CASE r = s
    <3>1. \A m \in DOMAIN queues'[s] : n < m => n + 1 < m + 1
      BY <1>6, <2>2
    <3> QED
      BY <1>6, <2>2, <3>1 DEF QueueInv
  <2> QED
    BY <2>1, <2>2
<1>9. ASSUME NEW n \in DOMAIN queues'[s]
      PROVE  queues'[s][n].op > queues[s][1].op /\ queues'[s][n].op <= sends
  <2>1. n \in Nat /\ n >= 1
    BY <1>6
  <2>2. 1 < n + 1 /\ n + 1 \in DOMAIN queues[s] /\ queues'[s][n] = queues[s][n + 1]
    BY <1>6, <2>1
  <2>3. queues[s][1].op < queues[s][n + 1].op
    BY <1>5, <2>2 DEF QueueInv
  <2>4. queues[s][1].op \in 1 .. sends /\ queues[s][n + 1].op \in 1 .. sends
    BY <1>1, <1>5, <2>2 DEF Waiting
  <2> QED
    BY <1>1, <2>2, <2>3, <2>4
<1> QED
  BY <1>2, <1>3, <1>4, <1>5, <1>7, <1>8, <1>9 DEF QueueInv

LEMMA StoreKeeps ==
  ASSUME AutosaveInv, NEW s \in Stores, Store(s)
  PROVE  AutosaveInv'
<1> DEFINE job == queues[s][1]
           key == job.save.key
<1>0. AutosaveTypeOK /\ QueueInv /\ DrainInv
  BY DEF AutosaveInv, SavesInv
<1>1. queues[s] # <<>> /\ queues' = [queues EXCEPT ![s] = Tail(@)]
  BY DEF Store
<1>2. /\ JobsRemain /\ QueueInv' /\ queues' \in [Stores -> Seq(Waiting)]
      /\ Head(queues[s]) = job /\ 1 \in DOMAIN queues[s] /\ job \in Waiting
      /\ StoreOf(key) = s
      /\ \A n \in DOMAIN queues'[s] : queues'[s][n].op > job.op /\ queues'[s][n].op <= sends
      /\ \A r \in Stores : r # s => queues'[r] = queues[r]
  BY <1>0, <1>1, TakeParts
<1>3. key \in Keys /\ job.save.value \in Values /\ job.op \in 1 .. sends
  BY <1>2 DEF Waiting, Save
<1>4. /\ saved' = [saved EXCEPT ![key] = job.save.value]
      /\ toPanels' = toPanels \o (IF s = "collections" THEN <<CollectionsOf(saved')>> ELSE <<>>)
                              \o <<Reply(job.op, TRUE)>>
      /\ UNCHANGED <<variableEdits, pageVars, executed, autosaveBounds>>
  BY <1>2 DEF Store
<1>5. saved \in [Keys -> Stored] /\ saved' \in [Keys -> Stored]
  BY <1>0, <1>3, <1>4 DEF AutosaveTypeOK, Stored
<1>6. saved'[key] = job.save.value /\ \A k \in Keys : k # key => saved'[k] = saved[k]
  BY <1>3, <1>4, <1>5
<1>7. SavedAfter
  BY <1>2, <1>6 DEF SavedAfter
<1>8. PICK c, r, a : /\ c = CollectionsOf(saved') /\ r = Reply(job.op, TRUE) /\ a \in {<<>>, <<c>>}
                     /\ toPanels' = toPanels \o a \o <<r>>
  <2> DEFINE aa == IF s = "collections" THEN <<CollectionsOf(saved')>> ELSE <<>>
  <2>1. aa \in {<<>>, <<CollectionsOf(saved')>>}
    OBVIOUS
  <2>2. toPanels' = toPanels \o aa \o <<Reply(job.op, TRUE)>>
    BY <1>4
  <2> QED
    BY <2>1, <2>2
<1>9. c \in ToPanel /\ r \in ToPanel /\ toPanels \in Seq(ToPanel)
  BY <1>0, <1>3, <1>5, <1>8 DEF ToPanel, CollectionsOf, Reply, AutosaveTypeOK
<1>10. Answers(ToPanel, toPanels, c, r, toPanels')
  <2>1. a \in {<<>>, <<c>>}
    BY <1>8, Zenon
  <2>2. Answers(ToPanel, toPanels, c, r, toPanels \o a \o <<r>>)
    BY <1>9, <2>1, Posted, Zenon
  <2> QED
    BY <1>8, <2>2, Zenon
<1>11. PanelsGrow
  BY <1>8, <1>10 DEF Answers, PanelsGrow, Reply, CollectionsOf
<1>12. ASSUME NEW i \in DOMAIN toPanels', i \notin DOMAIN toPanels, drain.at # 0,
              toPanels'[i].type = "reply", toPanels'[i].op = sends, toPanels'[i].ok
       PROVE  OnlyThen(drain.save.key, drain.save.value, i)
  <2>1. (\A j \in DOMAIN toPanels' : ~(j > i)) /\ job.op = sends
    <3>1. toPanels'[i] = c \/ (toPanels'[i] = r /\ \A j \in DOMAIN toPanels' : ~(j > i))
      BY <1>10, <1>12 DEF Answers
    <3> QED
      BY <1>8, <1>12, <3>1 DEF Reply, CollectionsOf
  <2>2. job.save = drain.save
    BY <1>0, <1>2, <1>12, <2>1 DEF DrainInv
  <2>3. ASSUME NEW q \in Stores, NEW n \in DOMAIN queues'[q] PROVE queues'[q][n].save.key # key
    <3>1. CASE q = s
      <4>1. sends \in Nat /\ queues'[s][n].op > sends /\ queues'[s][n].op <= sends /\ queues'[s][n] \in Waiting
        BY <1>2, <2>1, <2>3, <3>1, WaitingType, <1>0
      <4>2. queues'[s][n].op \in Nat
        BY <4>1 DEF Waiting
      <4> QED
        BY <4>1, <4>2
    <3>2. CASE q # s
      BY <1>0, <1>2, <2>3, <3>2 DEF QueueInv
    <3> QED
      BY <3>1, <3>2
  <2> QED
    BY <1>6, <2>1, <2>2, <2>3 DEF OnlyThen
<1>13. /\ saveFailures' \in 0 .. MaxSaveFailures /\ saveTimeouts' \in 0 .. MaxSaveTimeouts
       /\ changes' \in 0 .. MaxChanges /\ UNCHANGED flushes
  BY <1>0, <1>4 DEF autosaveBounds, AutosaveTypeOK
<1> QED
  BY <1>2, <1>4, <1>5, <1>7, <1>11, <1>12, <1>13, HostKeeps

LEMMA StoreFailsKeeps ==
  ASSUME AutosaveInv, NEW s \in Stores, StoreFails(s)
  PROVE  AutosaveInv'
<1> DEFINE job == queues[s][1]
<1>0. AutosaveTypeOK /\ QueueInv /\ toPanels \in Seq(ToPanel)
  BY DEF AutosaveInv, SavesInv, AutosaveTypeOK
<1>1. queues[s] # <<>> /\ queues' = [queues EXCEPT ![s] = Tail(@)]
  BY DEF StoreFails
<1>2. /\ JobsRemain /\ QueueInv' /\ queues' \in [Stores -> Seq(Waiting)]
      /\ Head(queues[s]) = job /\ job \in Waiting
  BY <1>0, <1>1, TakeParts
<1>3. /\ toPanels' = Append(toPanels, Reply(job.op, FALSE))
      /\ UNCHANGED <<variableEdits, pageVars, saved, executed, saveTimeouts, changes, flushes>>
      /\ saveFailures' \in {saveFailures, saveFailures + 1} /\ (saveFailures' # saveFailures => saveFailures < MaxSaveFailures)
  BY <1>2 DEF StoreFails
<1>4. PICK r \in ToPanel : r = Reply(job.op, FALSE)
  BY <1>2 DEF Waiting, ToPanel, Reply
<1>5. toPanels' = Append(toPanels, r)
  BY <1>3, <1>4
<1>6. /\ toPanels' \in Seq(ToPanel)
      /\ \A i \in DOMAIN toPanels : i \in DOMAIN toPanels' /\ toPanels'[i] = toPanels[i]
      /\ \A i \in DOMAIN toPanels' : i \notin DOMAIN toPanels => toPanels'[i] = r
  BY <1>0, <1>5, Appended
<1>7. PanelsGrow
  BY <1>4, <1>6 DEF PanelsGrow, Reply
<1>8. SavedAfter
  BY <1>3 DEF SavedAfter
<1>9. \A i \in DOMAIN toPanels' : i \notin DOMAIN toPanels => ~toPanels'[i].ok
  BY <1>4, <1>6 DEF Reply
<1>10. /\ saveFailures' \in 0 .. MaxSaveFailures /\ saveTimeouts' \in 0 .. MaxSaveTimeouts
       /\ changes' \in 0 .. MaxChanges /\ saved' \in [Keys -> Stored]
  BY <1>0, <1>3, VariableNumbers DEF AutosaveTypeOK
<1> QED
  BY <1>2, <1>3, <1>7, <1>8, <1>9, <1>10, HostKeeps

LEMMA OtherChangeKeeps ==
  ASSUME AutosaveInv, NEW gone \in SUBSET Removable, OtherChange(gone)
  PROVE  AutosaveInv'
<1>0. AutosaveTypeOK /\ QueueInv /\ toPanels \in Seq(ToPanel) /\ saved \in [Keys -> Stored]
  BY DEF AutosaveInv, SavesInv, AutosaveTypeOK
<1>1. /\ saved' = [k \in Keys |-> IF k \in gone THEN Gone ELSE saved[k]]
      /\ toPanels' = Append(toPanels, CollectionsOf(saved'))
      /\ UNCHANGED <<variableEdits, pageVars, queues, executed, saveFailures, saveTimeouts, flushes>>
      /\ changes < MaxChanges /\ changes' = changes + 1
  BY DEF OtherChange
<1>2. saved' \in [Keys -> Stored] /\ SavedAfter
  BY <1>0, <1>1 DEF SavedAfter, Stored
<1>3. PICK c \in ToPanel : c = CollectionsOf(saved')
  BY <1>2 DEF ToPanel, CollectionsOf
<1>4. toPanels' = Append(toPanels, c)
  BY <1>1, <1>3
<1>5. /\ toPanels' \in Seq(ToPanel)
      /\ \A i \in DOMAIN toPanels : i \in DOMAIN toPanels' /\ toPanels'[i] = toPanels[i]
      /\ \A i \in DOMAIN toPanels' : i \notin DOMAIN toPanels => toPanels'[i] = c
  BY <1>0, <1>4, Appended
<1>6. PanelsGrow /\ \A i \in DOMAIN toPanels' : i \notin DOMAIN toPanels => toPanels'[i].type # "reply"
  BY <1>3, <1>5 DEF PanelsGrow, CollectionsOf
<1>7. JobsRemain /\ QueueInv' /\ queues' \in [Stores -> Seq(Waiting)]
  BY <1>0, <1>1, WaitingType DEF JobsRemain, QueueInv
<1>8. /\ saveFailures' \in 0 .. MaxSaveFailures /\ saveTimeouts' \in 0 .. MaxSaveTimeouts
      /\ changes' \in 0 .. MaxChanges
  BY <1>0, <1>1, VariableNumbers DEF AutosaveTypeOK
<1> QED
  BY <1>1, <1>2, <1>6, <1>7, <1>8, HostKeeps

-----------------------------------------------------------------------------
(* Variables: an edit, and the theorem *)

LEMMA ScheduledParts ==
  ASSUME NEW p \in Seq(Save), NEW s \in Save
  PROVE  /\ Scheduled(p, s) \in Seq(Save) /\ 0 .. Len(p) \subseteq 0 .. Len(Scheduled(p, s))
         /\ \A i \in DOMAIN Scheduled(p, s) :
              \/ Scheduled(p, s)[i] = s
              \/ \E j \in DOMAIN p : Scheduled(p, s)[i] = p[j] /\ p[j].key # s.key
         /\ IsPending(s.key, Scheduled(p, s))
         /\ \A k : IsPending(k, p) => IsPending(k, Scheduled(p, s))
<1>0. Len(p) \in Nat /\ DOMAIN p = 1 .. Len(p) /\ \A i \in DOMAIN p : p[i] \in Save
  OBVIOUS
<1>1. CASE IsPending(s.key, p)
  <2>1. PICK new : new = [i \in DOMAIN p |-> IF p[i].key = s.key THEN s ELSE p[i]]
    OBVIOUS
  <2>2. Scheduled(p, s) = new
    BY <1>1, <2>1 DEF Scheduled
  <2>3. new \in Seq(Save) /\ Len(new) = Len(p) /\ DOMAIN new = DOMAIN p
    BY <1>0, <2>1
  <2>4. \A i \in DOMAIN p : (p[i].key = s.key => new[i] = s) /\ (p[i].key # s.key => new[i] = p[i])
    BY <2>1
  <2>5. \A i \in DOMAIN p : new[i].key = p[i].key
    BY <2>4
  <2>6. \A k : IsPending(k, p) => IsPending(k, new)
    BY <2>3, <2>5 DEF IsPending
  <2> QED
    BY <1>1, <2>2, <2>3, <2>4, <2>6
<1>2. CASE ~IsPending(s.key, p)
  <2>1. PICK new : new = Append(p, s)
    OBVIOUS
  <2>2. Scheduled(p, s) = new
    BY <1>2, <2>1 DEF Scheduled
  <2>3. /\ new \in Seq(Save) /\ DOMAIN new = 1 .. Len(p) + 1
        /\ \A i \in 1 .. Len(p) : new[i] = p[i]
        /\ new[Len(p) + 1] = s
    BY <2>1, AppendParts
  <2>4. Len(new) = Len(p) + 1 /\ 0 .. Len(p) \subseteq 0 .. Len(new)
    BY <1>0, <2>3
  <2>5. \A i \in DOMAIN new : i \in DOMAIN p \/ i = Len(p) + 1
    BY <1>0, <2>3
  <2>6. \A i \in DOMAIN p : i \in DOMAIN new /\ new[i] = p[i] /\ p[i].key # s.key
    BY <1>0, <1>2, <2>3 DEF IsPending
  <2>7. Len(p) + 1 \in DOMAIN new
    BY <1>0, <2>3
  <2>8. IsPending(s.key, new) /\ \A k : IsPending(k, p) => IsPending(k, new)
    BY <2>3, <2>6, <2>7 DEF IsPending
  <2>9. \A i \in DOMAIN new : new[i] = s \/ \E j \in DOMAIN p : new[i] = p[j] /\ p[j].key # s.key
    BY <2>3, <2>5, <2>6
  <2> QED
    BY <2>2, <2>3, <2>4, <2>8, <2>9
<1> QED
  BY <1>1, <1>2

LEMMA EditKeeps ==
  ASSUME AutosaveInv, NEW k \in Keys, Edit(k)
  PROVE  AutosaveInv'
<1>1. PICK s : s = [key |-> k, value |-> variableEdits[k] + 1]
  OBVIOUS
<1>2. /\ variableEdits[k] < MaxVariableEdits
      /\ variableEdits' = [variableEdits EXCEPT ![k] = @ + 1]
      /\ shown' = [shown EXCEPT ![k] = variableEdits[k] + 1]
      /\ pending' = Scheduled(pending, s) /\ timer' = TRUE
      /\ UNCHANGED <<drain, press, sends, open, queues, saved, toPanels, executed>>
      /\ UNCHANGED <<saveFailures, saveTimeouts, changes, flushes>>
  BY <1>1 DEF Edit, hostVars, autosaveBounds
<1>3. /\ variableEdits \in [Keys -> Values] /\ shown \in [Keys -> Stored] /\ pending \in Seq(Save)
      /\ press.needs \in [Keys -> Values]
  BY DEF AutosaveInv, AutosaveTypeOK
<1>4. /\ variableEdits[k] + 1 \in Values
      /\ variableEdits[k] \in Nat /\ s \in Save /\ s.key = k /\ s.value = variableEdits[k] + 1
  BY <1>1, <1>2, <1>3, VariableNumbers DEF Values, Save
<1>5. /\ variableEdits' \in [Keys -> Values] /\ variableEdits'[k] = s.value
      /\ \A q \in Keys : q # k => variableEdits'[q] = variableEdits[q]
      /\ shown' \in [Keys -> Stored] /\ shown'[k] = s.value
      /\ \A q \in Keys : q # k => shown'[q] = shown[q]
  BY <1>2, <1>3, <1>4 DEF Stored
<1>6. /\ pending' \in Seq(Save) /\ 0 .. Len(pending) \subseteq 0 .. Len(pending')
      /\ \A i \in DOMAIN pending' :
           \/ pending'[i] = s
           \/ \E j \in DOMAIN pending : pending'[i] = pending[j] /\ pending[j].key # k
      /\ IsPending(k, pending')
      /\ \A q : IsPending(q, pending) => IsPending(q, pending')
  BY <1>2, <1>3, <1>4, ScheduledParts
<1>7. PendingIsLatest'
  <2> SUFFICES ASSUME NEW i \in DOMAIN pending' PROVE pending'[i].value = variableEdits'[pending'[i].key]
    BY DEF PendingIsLatest
  <2>1. CASE pending'[i] = s
    BY <2>1, <1>4, <1>5
  <2>2. ASSUME NEW j \in DOMAIN pending, pending'[i] = pending[j], pending[j].key # k
        PROVE  pending'[i].value = variableEdits'[pending'[i].key]
    <3>1. pending[j] \in Save
      BY <1>3, <2>2
    <3>2. pending[j].key \in Keys
      BY <3>1 DEF Save
    <3> QED
      BY <2>2, <3>2, <1>5 DEF AutosaveInv, SavesInv, PendingIsLatest
  <2> QED
    BY <2>1, <2>2, <1>6
<1>8. SavedIsLatest'
  <2> SUFFICES ASSUME NEW q \in Keys, ~IsPending(q, pending')
               PROVE  Only(q, variableEdits[q], toPanels, 0)'
    BY DEF SavedIsLatest
  <2>1. q # k /\ ~IsPending(q, pending)
    BY <1>6
  <2>2. Only(q, variableEdits[q], toPanels, 0) /\ variableEdits'[q] = variableEdits[q]
    BY <2>1, <1>5 DEF AutosaveInv, SavesInv, SavedIsLatest
  <2> QED
    BY <2>2, <1>2 DEF Only
<1>9. QueueInv' /\ DrainInv' /\ RepliesInv'
  BY <1>2 DEF AutosaveInv, SavesInv, QueueInv, DrainInv, RepliesInv, Only
<1>10. PressInv'
  <2> SUFFICES ASSUME NEW q \in Keys PROVE press.needs[q] <= variableEdits'[q]
    BY <1>2 DEF AutosaveInv, PressInv
  <2>1. press.needs[q] <= variableEdits[q] /\ press.needs[q] \in Nat
    BY <1>3, VariableNumbers DEF AutosaveInv, PressInv
  <2>2. CASE q = k
    BY <2>1, <2>2, <1>4, <1>5
  <2>3. CASE q # k
    BY <2>1, <2>3, <1>5
  <2> QED
    BY <2>2, <2>3
<1>11. VariableEditsCount'
  BY <1>2, <1>4, <1>5 DEF AutosaveInv, VariableEditsCount, EditsStayVisible, SendSeesEdits
<1>12. SendingType'
  BY <1>2, <1>6, AutosaveTypes DEF AutosaveInv, SendingType, ToPanel, Waiting
<1>13. OthersType'
  BY <1>2, <1>5, <1>6, AutosaveTypes DEF AutosaveInv, OthersType
<1> QED
  BY <1>7, <1>8, <1>9, <1>10, <1>11, <1>12, <1>13, AutosaveTypesNext DEF AutosaveInv, SavesInv

LEMMA AutosaveStarts == AutosaveInit => AutosaveInv
<1> SUFFICES ASSUME AutosaveInit PROVE AutosaveInv
  OBVIOUS
<1>1. /\ variableEdits = [k \in Keys |-> 0] /\ shown = variableEdits /\ saved = variableEdits
      /\ pending = <<>> /\ timer = FALSE /\ drain = NotDraining /\ press = NotPressed
      /\ sends = 0 /\ open = TRUE
      /\ queues = [s \in Stores |-> <<>>] /\ toPanels = <<>>
      /\ executed = [needs |-> variableEdits, saw |-> saved]
      /\ saveFailures = 0 /\ saveTimeouts = 0 /\ changes = 0 /\ flushes = 0
  BY DEF AutosaveInit
<1>2. variableEdits \in [Keys -> Values] /\ variableEdits \in [Keys -> Stored]
  BY <1>1, VariableNumbers DEF Stored
<1>3. /\ NotDraining \in [at : 0 .. 0, op : 0 .. 0, save : Save]
      /\ NotPressed \in [stage : {"none", "flushing", "flushed"}, needs : [Keys -> Values]]
  BY VariableNumbers DEF NotDraining, NotPressed, Save
<1>4. SendingType
  BY <1>1, <1>3 DEF SendingType
<1>5. OthersType
  <2>1. executed \in [needs : [Keys -> Values], saw : [Keys -> Stored]]
    BY <1>1, <1>2
  <2>2. saved \in [Keys -> Stored] /\ shown \in [Keys -> Stored]
    BY <1>1, <1>2
  <2>3. pending \in Seq(Save)
    BY <1>1
  <2>4. /\ flushes \in 0 .. MaxFlushes /\ saveFailures \in 0 .. MaxSaveFailures
        /\ saveTimeouts \in 0 .. MaxSaveTimeouts /\ changes \in 0 .. MaxChanges
    BY <1>1, VariableNumbers
  <2>5. timer \in BOOLEAN /\ open \in BOOLEAN /\ press = NotPressed
    BY <1>1
  <2> QED
    BY <1>2, <1>3, <2>1, <2>2, <2>3, <2>4, <2>5 DEF OthersType
<1>6. SavesInv
  BY <1>1 DEF SavesInv, PendingIsLatest, SavedIsLatest, Only, QueueInv, DrainInv, RepliesInv, NotDraining
<1>7. PressInv /\ VariableEditsCount
  BY <1>1 DEF PressInv, NotPressed, VariableEditsCount, EditsStayVisible, SendSeesEdits
<1> QED
  BY <1>4, <1>5, <1>6, <1>7, AutosaveTypes DEF AutosaveInv

LEMMA AutosaveUnchanged ==
  ASSUME AutosaveInv, UNCHANGED autosaveVars
  PROVE  AutosaveInv'
<1>1. /\ UNCHANGED <<variableEdits, shown, pending, timer, drain, press, sends, open, queues, saved, toPanels>>
      /\ UNCHANGED <<executed, saveFailures, saveTimeouts, changes, flushes>>
  BY DEF autosaveVars, pageVars, hostVars, autosaveBounds
<1>2. SavesInv'
  BY <1>1, SavesSame DEF AutosaveInv, sendingVars
<1>3. PressInv' /\ VariableEditsCount'
  BY <1>1 DEF AutosaveInv, PressInv, VariableEditsCount, EditsStayVisible, SendSeesEdits
<1>4. SendingType'
  BY <1>1, AutosaveTypes DEF AutosaveInv, SendingType, ToPanel, Waiting
<1>5. OthersType'
  BY <1>1, AutosaveTypes DEF AutosaveInv, OthersType
<1> QED
  BY <1>2, <1>3, <1>4, <1>5, AutosaveTypesNext DEF AutosaveInv

LEMMA AutosaveSteps ==
  ASSUME AutosaveInv, AutosaveNext
  PROVE  AutosaveInv'
<1>1. ASSUME NEW k \in Keys, Edit(k) PROVE AutosaveInv'
  BY <1>1, EditKeeps
<1>2. CASE TimerFires \/ ChangeTab
  BY <1>2, TimerKeeps
<1>3. CASE PressSend
  BY <1>3, PressKeeps
<1>4. CASE Execute
  BY <1>4, ExecuteKeeps
<1>5. CASE NotConfirmed
  BY <1>5, NotConfirmedKeeps
<1>6. CASE ShowCollections
  BY <1>6, ShowKeeps
<1>7. CASE Settled
  BY <1>7, SettledKeeps
<1>8. CASE Unload
  BY <1>8, UnloadKeeps
<1>9. ASSUME NEW s \in Stores, Store(s) PROVE AutosaveInv'
  BY <1>9, StoreKeeps
<1>10. ASSUME NEW s \in Stores, StoreFails(s) PROVE AutosaveInv'
  BY <1>10, StoreFailsKeeps
<1>11. ASSUME NEW gone \in SUBSET Removable, OtherChange(gone) PROVE AutosaveInv'
  BY <1>11, OtherChangeKeeps
<1> QED
  BY <1>1, <1>2, <1>3, <1>4, <1>5, <1>6, <1>7, <1>8, <1>9, <1>10, <1>11 DEF AutosaveNext

(***************************************************************************)
(* An edit of a variable is what the panel shows until the next one,       *)
(* whatever snapshots, acknowledgements and failures come in between, and  *)
(* a request sent after it finds it in the stores: VariableAutosave.ts     *)
(* loses no edit, for any number of collections, edits and failures.       *)
(***************************************************************************)
THEOREM VariablesCount == PageSpec => [](AutosaveTypeOK /\ VariableEditsCount)
<1>1. PageInit => AutosaveInv
  BY AutosaveStarts DEF PageInit
<1>2. AutosaveInv /\ [PageNext]_pageAllVars => AutosaveInv'
  <2> SUFFICES ASSUME AutosaveInv, [PageNext]_pageAllVars PROVE AutosaveInv'
    OBVIOUS
  <2>1. CASE Autosaves
    BY <2>1, AutosaveSteps DEF Autosaves
  <2>2. CASE UNCHANGED autosaveVars
    BY <2>2, AutosaveUnchanged
  <2> QED
    BY <2>1, <2>2 DEF PageNext, EditsTabs, pageAllVars
<1>3. AutosaveInv => AutosaveTypeOK /\ VariableEditsCount
  BY DEF AutosaveInv
<1> QED
  BY <1>1, <1>2, <1>3, PTL DEF PageSpec

-----------------------------------------------------------------------------
(* Tabs: the invariant *)

Loaded(t) == IsOpen(t) /\ ~tab[t].loading /\ ~tab[t].loadFailed

\* a dialog asks about a tab that is open and not closing; a tab that is not open does nothing
DialogInv ==
  \A t \in Tabs :
    /\ dialog.tab = t => IsOpen(t) /\ closing[t].stage = "none"
    /\ ~IsOpen(t) => saving[t].stage = "none" /\ closing[t].stage = "none" /\ tab[t].authUpdate = 0

\* a request is shown in one tab, and only a tab that shows one failed to load it
OneTab ==
  /\ \A t, u \in Tabs : IsOpen(t) /\ tab[t].request = tab[u].request => t = u
  /\ \A t \in Tabs : tab[t].loadFailed => IsOpen(t)

(***************************************************************************)
(* Operations are numbered in the order they start, jobs wait in that      *)
(* order, and no operation that reads a request is also something else.    *)
(***************************************************************************)
NumbersInv ==
  /\ \A n \in DOMAIN jobs : jobs[n].op >= 1 /\ jobs[n].op <= ops
  /\ \A n \in DOMAIN reads : reads[n].op >= 1 /\ reads[n].op <= ops
  /\ \A i \in DOMAIN toPage : toPage[i].op >= 1 /\ toPage[i].op <= ops
  /\ \A s \in submitted : s.op <= ops
  /\ \A l \in loads : l.op <= ops
  /\ \A t \in Tabs : saving[t].op <= ops /\ closing[t].op <= ops /\ tab[t].authUpdate <= ops
OrderInv ==
  /\ \A m, n \in DOMAIN jobs : m < n => jobs[m].op < jobs[n].op
  /\ \A n \in DOMAIN jobs : jobs[n].kind \in {"save", "move"} => jobs[n].place # Nowhere
  /\ \A s, u \in submitted : s.op = u.op => s = u
  /\ \A i \in DOMAIN toPage : toPage[i].kind = "collections" => toPage[i].places \in [Requests -> Places]
ReadsApart ==
  \A n \in DOMAIN reads :
    /\ \A m \in DOMAIN jobs : jobs[m].op # reads[n].op
    /\ \A i \in DOMAIN toPage : toPage[i].kind = "saved" => toPage[i].op # reads[n].op
    /\ \A t \in Tabs : reads[n].op \notin {saving[t].op, closing[t].op, tab[t].authUpdate}

(***************************************************************************)
(* A save that waits or was answered belongs to what a tab submitted, and  *)
(* that tab still shows the request.                                       *)
(***************************************************************************)
Owned(op, r, text) ==
  \E s \in submitted : s.op = op /\ s.request = r /\ s.text = text /\ tab[s.tab].request = r /\ Loaded(s.tab)
SavesOwned ==
  /\ \A n \in DOMAIN jobs : jobs[n].kind = "save" => Owned(jobs[n].op, jobs[n].request, jobs[n].text)
  /\ \A i \in DOMAIN toPage : toPage[i].kind = "saved" => Owned(toPage[i].op, toPage[i].request, toPage[i].text)
SavedOrder ==
  \A i \in DOMAIN toPage : toPage[i].kind = "saved" =>
    /\ \A j \in DOMAIN toPage : i < j /\ toPage[j].kind = "saved" => toPage[i].op < toPage[j].op
    /\ \A n \in DOMAIN jobs : toPage[i].op < jobs[n].op
\* an error is the only answer to its operation
ErrorsInv ==
  \A i \in DOMAIN toPage : toPage[i].kind = "reply" /\ ~toPage[i].ok =>
    /\ \A n \in DOMAIN jobs : jobs[n].op # toPage[i].op
    /\ \A j \in DOMAIN toPage : toPage[j].kind = "saved" => toPage[j].op # toPage[i].op

\* a load waits for the request of its tab, and what answers it is what is stored
LoadsInv ==
  /\ \A k, l \in loads : k.tab = l.tab \/ k.op = l.op => k = l
  /\ \A l \in loads :
       /\ IsOpen(l.tab) /\ tab[l.tab].loading /\ ~tab[l.tab].loadFailed
       /\ \A n \in DOMAIN reads : reads[n].op = l.op => reads[n].request = tab[l.tab].request
       /\ \A i \in DOMAIN toPage : toPage[i].kind = "loaded" /\ toPage[i].op = l.op =>
            /\ toPage[i].request = tab[l.tab].request
            /\ IsStored(toPage[i].request) =>
                 toPage[i].text = stored[toPage[i].request].text /\ toPage[i].auth = stored[toPage[i].request].auth

(***************************************************************************)
(* What a tab takes for saved is what is stored once it has heard of the   *)
(* last save of its request.                                               *)
(***************************************************************************)
SavedAt(i, r) == i \in DOMAIN toPage /\ toPage[i].kind = "saved" /\ toPage[i].request = r
BaseIsStored(t) ==
  LET r == tab[t].request IN
  Loaded(t) /\ IsStored(r) =>
    /\ (\A i \in DOMAIN toPage : ~SavedAt(i, r)) =>
         tab[t].baseText = stored[r].text /\ tab[t].baseAuth = stored[r].auth
    /\ \A i \in DOMAIN toPage : SavedAt(i, r) /\ (\A j \in DOMAIN toPage : j > i => ~SavedAt(j, r)) =>
         toPage[i].text = stored[r].text /\ toPage[i].auth = stored[r].auth

\* no job of these kinds waits for the request, and no save of it was answered behind position i
NoneLeft(r, kinds, i) ==
  /\ \A n \in DOMAIN jobs : ~(jobs[n].request = r /\ jobs[n].kind \in kinds)
  /\ \A j \in DOMAIN toPage : j > i => ~SavedAt(j, r)

\* the answer to a save comes when the request is stored, and nothing else is on its way to change it
SaveSettles(t) ==
  LET r == tab[t].request IN
  saving[t].stage = "posted" =>
    /\ Loaded(t)
    /\ \A n \in DOMAIN jobs : jobs[n].request = r =>
         /\ jobs[n].kind = "save" => jobs[n].op <= saving[t].op
         /\ jobs[n].kind = "delete" => jobs[n].op < saving[t].op
    /\ \A n \in DOMAIN jobs : jobs[n].op = saving[t].op => jobs[n].kind = "save" /\ jobs[n].request = r
    /\ \A i \in DOMAIN toPage : toPage[i].kind = "reply" /\ toPage[i].op = saving[t].op =>
         NoneLeft(r, {"save", "delete"}, i) /\ (toPage[i].ok => IsStored(r))

\* the answer a closing tab waits for is behind all saves of its request
CloseSettles(t) ==
  LET r == tab[t].request IN
  closing[t].stage \in {"discarding", "removing"} =>
    /\ saving[t].stage = "none" /\ tab[t].authUpdate = 0
    /\ \A n \in DOMAIN jobs : jobs[n].request = r /\ jobs[n].kind = "save" => jobs[n].op < closing[t].op
    /\ \A i \in DOMAIN toPage : toPage[i].kind = "reply" /\ toPage[i].op = closing[t].op => NoneLeft(r, {"save"}, i)

\* the answer to an authentication is behind all those applied to its request
AuthsLeft(r, i) ==
  \/ \E n \in DOMAIN jobs : jobs[n].kind = "configure" /\ jobs[n].request = r
  \/ \E j \in DOMAIN toPage : j > i /\ toPage[j].kind = "auth" /\ toPage[j].request = r
AuthSettled(t) ==
  \A i \in DOMAIN toPage :
    tab[t].authUpdate # 0 /\ toPage[i].kind = "reply" /\ toPage[i].op = tab[t].authUpdate
    => ~AuthsLeft(tab[t].request, i)
Applied(op, r) == \E t \in Tabs : tab[t].request = r /\ op <= tab[t].authUpdate
AuthsApplied ==
  /\ \A n \in DOMAIN jobs : jobs[n].kind = "configure" => Applied(jobs[n].op, jobs[n].request)
  /\ \A i \in DOMAIN toPage : toPage[i].kind = "auth" => Applied(toPage[i].op, toPage[i].request)

\* from the end of its save on, a tab that is saved and closed shows what is stored
ClosesSaved(t) ==
  /\ closing[t].stage = "saving" => closing[t].why = "save"
  /\ closing[t].stage \in {"releasing", "discarding"} /\ closing[t].why = "save" =>
       /\ Loaded(t) /\ IsStored(tab[t].request) /\ NoneLeft(tab[t].request, {"save", "delete"}, 0)
       /\ tab[t].text = tab[t].baseText /\ saving[t].stage = "none"
       /\ timeouts = 0 => tab[t].auth = tab[t].baseAuth /\ tab[t].authUpdate = 0
  /\ closing[t].stage = "removing" => closing[t].why # "save"

(***************************************************************************)
(* The places of the tree, and of the messages that bring a new one.  The  *)
(* last tells where requests are stored; a request that one brings back    *)
(* was saved, which the message behind it tells its tab.                   *)
(***************************************************************************)
PlacesAt(i) == IF i = 0 THEN tree ELSE toPage[i].places
IsTree(i) == i = 0 \/ toPage[i].kind = "collections"
PlacesInv ==
  \A i \in 0 .. Len(toPage) : IsTree(i) =>
    /\ (\A j \in DOMAIN toPage : j > i => ~IsTree(j)) => \A r \in Requests : PlacesAt(i)[r] = stored[r].place
    /\ \A j \in DOMAIN toPage :
         i < j /\ IsTree(j) /\ (\A k \in DOMAIN toPage : i < k /\ k < j => ~IsTree(k)) =>
         \A r \in Requests : PlacesAt(i)[r] = Nowhere /\ PlacesAt(j)[r] # Nowhere => SavedAt(j + 1, r)
SavedPlace ==
  /\ \A n \in DOMAIN jobs : \A s \in submitted :
       jobs[n].kind = "save" /\ s.op = jobs[n].op => s.place = jobs[n].place
  /\ \A i \in DOMAIN toPage : toPage[i].kind = "saved" =>
       /\ IsTree(i - 1)
       /\ \A s \in submitted : s.op = toPage[i].op => s.place = PlacesAt(i - 1)[toPage[i].request]
BasePlace(t) ==
  IsOpen(t) /\ tree[tab[t].request] # Nowhere =>
    tab[t].basePlace = tree[tab[t].request] \/ SavedAt(1, tab[t].request)

TabInv(t) ==
  /\ BaseIsStored(t) /\ SaveSettles(t) /\ CloseSettles(t) /\ ClosesSaved(t) /\ BasePlace(t)
  /\ timeouts = 0 => AuthSettled(t)
PipeInv == NumbersInv /\ OrderInv /\ ReadsApart /\ SavesOwned /\ SavedOrder /\ ErrorsInv
TabsInv ==
  /\ TabsTypeOK /\ DialogInv /\ OneTab /\ PipeInv /\ LoadsInv /\ PlacesInv /\ SavedPlace
  /\ \A t \in Tabs : TabInv(t)
  /\ timeouts = 0 => AuthsApplied
  /\ DraftKeepsEdits /\ ClosedBySaveIsStored

-----------------------------------------------------------------------------
(* Tabs: what a step of the page does to what is on its way *)

\* the page reads d messages, and sends at most one: a job, or a request to read
PageMoves(d, kind, r) ==
  /\ toPage' \in Seq(MessageType) /\ jobs' \in Seq(JobType) /\ reads' \in Seq(ReadType)
  /\ d \in {0, 1} /\ ops' \in {ops, ops + 1}
  /\ \A i \in DOMAIN toPage' : i + d \in DOMAIN toPage /\ toPage'[i] = toPage[i + d]
  /\ \A i \in DOMAIN toPage : i > d => i - d \in DOMAIN toPage' /\ toPage'[i - d] = toPage[i]
  /\ \A n \in DOMAIN jobs : n \in DOMAIN jobs' /\ jobs'[n] = jobs[n]
  /\ \A n \in DOMAIN jobs' : n \notin DOMAIN jobs =>
       /\ jobs'[n].kind = kind /\ jobs'[n].request = r /\ jobs'[n].op = ops + 1 /\ ops' = ops + 1
       /\ kind \in {"save", "move"} => jobs'[n].place # Nowhere
       /\ \A m \in DOMAIN jobs' : m <= n
  /\ \A n \in DOMAIN reads' :
       \/ n \in DOMAIN reads /\ reads'[n] = reads[n]
       \/ reads'[n].op = ops + 1 /\ ops' = ops + 1 /\ jobs' = jobs /\ toPage' = toPage
  /\ stored' = stored

LEMMA SeqDomains ==
  ASSUME TabsTypeOK
  PROVE  /\ ops \in Nat
         /\ \A n \in DOMAIN jobs : n \in Nat /\ n >= 1 /\ jobs[n] \in JobType /\ jobs[n].op \in Nat
         /\ \A n \in DOMAIN reads : n \in Nat /\ n >= 1 /\ reads[n] \in ReadType /\ reads[n].op \in Nat
         /\ \A i \in DOMAIN toPage : i \in Nat /\ i >= 1 /\ toPage[i] \in MessageType /\ toPage[i].op \in Nat
<1>1. ops \in Nat /\ jobs \in Seq(JobType) /\ reads \in Seq(ReadType) /\ toPage \in Seq(MessageType)
  BY DEF TabsTypeOK
<1>2. \A n \in DOMAIN jobs : n \in Nat /\ n >= 1 /\ jobs[n] \in JobType /\ jobs[n].op \in Nat
  <2>1. \A n \in DOMAIN jobs : n \in Nat /\ n >= 1 /\ jobs[n] \in JobType
    BY <1>1
  <2> QED
    BY <2>1 DEF JobType
<1>3. \A n \in DOMAIN reads : n \in Nat /\ n >= 1 /\ reads[n] \in ReadType /\ reads[n].op \in Nat
  <2>1. \A n \in DOMAIN reads : n \in Nat /\ n >= 1 /\ reads[n] \in ReadType
    BY <1>1
  <2> QED
    BY <2>1 DEF ReadType
<1>4. \A i \in DOMAIN toPage : i \in Nat /\ i >= 1 /\ toPage[i] \in MessageType /\ toPage[i].op \in Nat
  <2>1. \A i \in DOMAIN toPage : i \in Nat /\ i >= 1 /\ toPage[i] \in MessageType
    BY <1>1
  <2> QED
    BY <2>1 DEF MessageType
<1> QED
  BY <1>1, <1>2, <1>3, <1>4

LEMMA MovesDomains ==
  ASSUME NEW d, NEW kind, NEW r, PageMoves(d, kind, r)
  PROVE  /\ \A n \in DOMAIN jobs' : n \in Nat /\ n >= 1 /\ jobs'[n].op \in Nat
         /\ \A n \in DOMAIN reads' : n \in Nat /\ n >= 1 /\ reads'[n].op \in Nat
         /\ \A i \in DOMAIN toPage' : i \in Nat /\ i >= 1 /\ toPage'[i].op \in Nat
<1>1. jobs' \in Seq(JobType) /\ reads' \in Seq(ReadType) /\ toPage' \in Seq(MessageType)
  BY DEF PageMoves
<1>2. \A n \in DOMAIN jobs' : n \in Nat /\ n >= 1 /\ jobs'[n].op \in Nat
  <2>1. \A n \in DOMAIN jobs' : n \in Nat /\ n >= 1 /\ jobs'[n] \in JobType
    BY <1>1
  <2> QED
    BY <2>1 DEF JobType
<1>3. \A n \in DOMAIN reads' : n \in Nat /\ n >= 1 /\ reads'[n].op \in Nat
  <2>1. \A n \in DOMAIN reads' : n \in Nat /\ n >= 1 /\ reads'[n] \in ReadType
    BY <1>1
  <2> QED
    BY <2>1 DEF ReadType
<1>4. \A i \in DOMAIN toPage' : i \in Nat /\ i >= 1 /\ toPage'[i].op \in Nat
  <2>1. \A i \in DOMAIN toPage' : i \in Nat /\ i >= 1 /\ toPage'[i] \in MessageType
    BY <1>1
  <2> QED
    BY <2>1 DEF MessageType
<1> QED
  BY <1>2, <1>3, <1>4

\* the numbers a tab holds are those it had, or that of what it just sent
NumbersKept(t) ==
  /\ saving'[t].op \in {0, saving[t].op, tab[t].authUpdate} \/ (saving'[t].op = ops + 1 /\ ops' = ops + 1 /\ reads' = reads)
  /\ closing'[t].op \in {0, closing[t].op} \/ (closing'[t].op = ops + 1 /\ ops' = ops + 1 /\ reads' = reads)
  /\ tab'[t].authUpdate \in {0, tab[t].authUpdate} \/ (tab'[t].authUpdate = ops + 1 /\ ops' = ops + 1 /\ reads' = reads)

OwnedThen(op, r, text) ==
  \E s \in submitted' :
    /\ s.op = op /\ s.request = r /\ s.text = text /\ tab'[s.tab].request = r
    /\ tab'[s.tab].request # NoRequest /\ ~tab'[s.tab].loading /\ ~tab'[s.tab].loadFailed

\* a save that is left after d messages are read
SaveLeft(d, op, r) ==
  \/ \E n \in DOMAIN jobs : jobs[n].kind = "save" /\ jobs[n].op = op /\ jobs[n].request = r
  \/ \E i \in DOMAIN toPage : i > d /\ toPage[i].kind = "saved" /\ toPage[i].op = op /\ toPage[i].request = r

LEMMA TabNumbers ==
  ASSUME TabsTypeOK, NEW t \in Tabs
  PROVE  saving[t].op \in Nat /\ closing[t].op \in Nat /\ tab[t].authUpdate \in Nat
BY DEF TabsTypeOK, TabType

LEMMA PipeKeeps ==
  ASSUME TabsTypeOK, PipeInv, NEW d, NEW kind, NEW r, PageMoves(d, kind, r),
         \A t \in Tabs : NumbersKept(t),
         \A s \in submitted' : s \in submitted \/ (s.op = ops + 1 /\ ops' = ops + 1),
         \A s, u \in submitted' : s.op = ops + 1 /\ u.op = ops + 1 => s = u,
         \A l \in loads' : l \in loads \/ (l.op = ops + 1 /\ ops' = ops + 1),
         \A op, q, text : Owned(op, q, text) /\ SaveLeft(d, op, q) => OwnedThen(op, q, text),
         \A n \in DOMAIN jobs' : n \notin DOMAIN jobs /\ kind = "save" => OwnedThen(ops + 1, r, jobs'[n].text)
  PROVE  PipeInv'
<1>1. /\ ops \in Nat
      /\ \A n \in DOMAIN jobs : n \in Nat /\ n >= 1 /\ jobs[n].op \in Nat
      /\ \A n \in DOMAIN reads : n \in Nat /\ n >= 1 /\ reads[n].op \in Nat
      /\ \A i \in DOMAIN toPage : i \in Nat /\ i >= 1 /\ toPage[i].op \in Nat
  BY SeqDomains
<1>2. /\ \A n \in DOMAIN jobs' : n \in Nat /\ n >= 1 /\ jobs'[n].op \in Nat
      /\ \A n \in DOMAIN reads' : n \in Nat /\ n >= 1 /\ reads'[n].op \in Nat
      /\ \A i \in DOMAIN toPage' : i \in Nat /\ i >= 1 /\ toPage'[i].op \in Nat
  BY MovesDomains
<1>3. ops' \in {ops, ops + 1} /\ d \in {0, 1}
  BY DEF PageMoves
<1>4. NumbersInv /\ OrderInv /\ ReadsApart /\ SavesOwned /\ SavedOrder /\ ErrorsInv
  BY DEF PipeInv
<1>5. \A n \in DOMAIN jobs' :
        \/ n \in DOMAIN jobs /\ jobs'[n] = jobs[n]
        \/ /\ n \notin DOMAIN jobs /\ jobs'[n].kind = kind /\ jobs'[n].request = r
           /\ jobs'[n].op = ops + 1 /\ ops' = ops + 1 /\ \A m \in DOMAIN jobs' : m <= n
  BY DEF PageMoves
<1>6. \A i \in DOMAIN toPage' : i + d \in DOMAIN toPage /\ toPage'[i] = toPage[i + d]
  BY DEF PageMoves
<1>7. \A n \in DOMAIN reads' :
        \/ n \in DOMAIN reads /\ reads'[n] = reads[n]
        \/ reads'[n].op = ops + 1 /\ ops' = ops + 1 /\ jobs' = jobs /\ toPage' = toPage
  BY DEF PageMoves
<1>8. NumbersInv'
  <2>1. \A n \in DOMAIN jobs' : jobs'[n].op >= 1 /\ jobs'[n].op <= ops'
    BY <1>1, <1>3, <1>4, <1>5 DEF NumbersInv
  <2>2. \A n \in DOMAIN reads' : reads'[n].op >= 1 /\ reads'[n].op <= ops'
    BY <1>1, <1>3, <1>4, <1>7 DEF NumbersInv
  <2>3. \A i \in DOMAIN toPage' : toPage'[i].op >= 1 /\ toPage'[i].op <= ops'
    BY <1>1, <1>3, <1>4, <1>6 DEF NumbersInv
  <2>4. \A s \in submitted' : s.op <= ops'
    <3>1. \A s \in submitted : s.op \in Nat
      BY DEF TabsTypeOK, SnapshotType
    <3> QED
      BY <3>1, <1>1, <1>3, <1>4 DEF NumbersInv
  <2>5. \A l \in loads' : l.op <= ops'
    <3>1. \A l \in loads : l.op \in Nat
      BY DEF TabsTypeOK
    <3> QED
      BY <3>1, <1>1, <1>3, <1>4 DEF NumbersInv
  <2>6. \A t \in Tabs : saving'[t].op <= ops' /\ closing'[t].op <= ops' /\ tab'[t].authUpdate <= ops'
    <3> TAKE t \in Tabs
    <3>1. saving[t].op \in Nat /\ closing[t].op \in Nat /\ tab[t].authUpdate \in Nat
      BY TabNumbers
    <3>2. saving[t].op <= ops /\ closing[t].op <= ops /\ tab[t].authUpdate <= ops
      BY <1>4 DEF NumbersInv
    <3> QED
      BY <3>1, <3>2, <1>1, <1>3 DEF NumbersKept
  <2> QED
    BY <2>1, <2>2, <2>3, <2>4, <2>5, <2>6 DEF NumbersInv
<1>9. OrderInv'
  <2>1. ASSUME NEW m \in DOMAIN jobs', NEW n \in DOMAIN jobs', m < n PROVE jobs'[m].op < jobs'[n].op
    <3>1. m \in DOMAIN jobs /\ jobs'[m] = jobs[m]
      BY <2>1, <1>2, <1>5
    <3>2. jobs[m].op <= ops /\ jobs[m].op \in Nat
      BY <3>1, <1>1, <1>4 DEF NumbersInv
    <3>3. CASE n \in DOMAIN jobs /\ jobs'[n] = jobs[n]
      BY <2>1, <3>1, <3>3, <1>4 DEF OrderInv
    <3>4. CASE jobs'[n].op = ops + 1
      BY <3>1, <3>2, <3>4, <1>1
    <3> QED
      BY <3>3, <3>4, <1>5
  <2>2. \A n \in DOMAIN jobs' : jobs'[n].kind \in {"save", "move"} => jobs'[n].place # Nowhere
    BY <1>4 DEF OrderInv, PageMoves
  <2>3. \A s, u \in submitted' : s.op = u.op => s = u
    <3>1. \A s \in submitted : s.op # ops + 1
      <4>1. \A s \in submitted : s.op \in Nat /\ s.op <= ops
        BY <1>4 DEF TabsTypeOK, SnapshotType, NumbersInv
      <4> QED
        BY <4>1, <1>1
    <3> QED
      BY <3>1, <1>4 DEF OrderInv
  <2>4. \A i \in DOMAIN toPage' : toPage'[i].kind = "collections" => toPage'[i].places \in [Requests -> Places]
    BY <1>4, <1>6 DEF OrderInv
  <2> QED
    BY <2>1, <2>2, <2>3, <2>4 DEF OrderInv
<1>10. ReadsApart'
  <2> SUFFICES ASSUME NEW n \in DOMAIN reads'
               PROVE  /\ \A m \in DOMAIN jobs' : jobs'[m].op # reads'[n].op
                      /\ \A i \in DOMAIN toPage' : toPage'[i].kind = "saved" => toPage'[i].op # reads'[n].op
                      /\ \A t \in Tabs : reads'[n].op \notin {saving'[t].op, closing'[t].op, tab'[t].authUpdate}
    BY DEF ReadsApart
  <2>1. CASE n \in DOMAIN reads /\ reads'[n] = reads[n]
    <3>1. reads[n].op <= ops /\ reads[n].op \in Nat /\ reads[n].op >= 1
      BY <2>1, <1>1, <1>4 DEF NumbersInv
    <3>2. \A m \in DOMAIN jobs' : jobs'[m].op # reads[n].op
      BY <2>1, <3>1, <1>1, <1>4, <1>5 DEF ReadsApart
    <3>3. \A i \in DOMAIN toPage' : toPage'[i].kind = "saved" => toPage'[i].op # reads[n].op
      BY <2>1, <1>4, <1>6 DEF ReadsApart
    <3>4. ASSUME NEW t \in Tabs
          PROVE  reads[n].op \notin {saving'[t].op, closing'[t].op, tab'[t].authUpdate}
      <4>1. reads[n].op \notin {saving[t].op, closing[t].op, tab[t].authUpdate}
        BY <2>1, <1>4 DEF ReadsApart
      <4>2. reads[n].op # 0 /\ reads[n].op # ops + 1
        BY <3>1, <1>1
      <4> QED
        BY <4>1, <4>2 DEF NumbersKept
    <3> QED
      BY <2>1, <3>2, <3>3, <3>4
  <2>2. CASE ~(n \in DOMAIN reads /\ reads'[n] = reads[n])
    <3>1. reads'[n].op = ops + 1 /\ jobs' = jobs /\ toPage' = toPage /\ reads' # reads
      BY <2>2, <1>7
    <3>2. \A m \in DOMAIN jobs : jobs[m].op # ops + 1
      BY <1>1, <1>4 DEF NumbersInv
    <3>3. \A i \in DOMAIN toPage : toPage[i].op # ops + 1
      BY <1>1, <1>4 DEF NumbersInv
    <3>4. ASSUME NEW t \in Tabs
          PROVE  ops + 1 \notin {saving'[t].op, closing'[t].op, tab'[t].authUpdate}
      <4>1. /\ saving[t].op \in Nat /\ closing[t].op \in Nat /\ tab[t].authUpdate \in Nat
            /\ saving[t].op <= ops /\ closing[t].op <= ops /\ tab[t].authUpdate <= ops
        BY <1>4, TabNumbers DEF NumbersInv
      <4>2. ops + 1 \notin {0, saving[t].op, closing[t].op, tab[t].authUpdate}
        BY <4>1, <1>1
      <4> QED
        BY <3>1, <4>2 DEF NumbersKept
    <3> QED
      BY <3>1, <3>2, <3>3, <3>4
  <2> QED
    BY <2>1, <2>2
<1>11. SavesOwned'
  <2>1. ASSUME NEW n \in DOMAIN jobs', jobs'[n].kind = "save"
        PROVE  OwnedThen(jobs'[n].op, jobs'[n].request, jobs'[n].text)
    <3>1. CASE n \in DOMAIN jobs /\ jobs'[n] = jobs[n]
      <4>1. Owned(jobs[n].op, jobs[n].request, jobs[n].text) /\ SaveLeft(d, jobs[n].op, jobs[n].request)
        BY <2>1, <3>1, <1>4 DEF SavesOwned, SaveLeft
      <4> QED
        BY <3>1, <4>1
    <3>2. CASE n \notin DOMAIN jobs
      BY <2>1, <3>2, <1>5
    <3> QED
      BY <3>1, <3>2, <1>5
  <2>2. ASSUME NEW i \in DOMAIN toPage', toPage'[i].kind = "saved"
        PROVE  OwnedThen(toPage'[i].op, toPage'[i].request, toPage'[i].text)
    <3>1. i + d \in DOMAIN toPage /\ toPage'[i] = toPage[i + d] /\ i + d > d
      BY <1>2, <1>3, <1>6
    <3>2. /\ Owned(toPage[i + d].op, toPage[i + d].request, toPage[i + d].text)
          /\ SaveLeft(d, toPage[i + d].op, toPage[i + d].request)
      BY <2>2, <3>1, <1>4 DEF SavesOwned, SaveLeft
    <3> QED
      BY <3>1, <3>2
  <2> QED
    BY <2>1, <2>2 DEF SavesOwned, Owned, OwnedThen, Loaded, IsOpen
<1>12. SavedOrder'
  <2> SUFFICES ASSUME NEW i \in DOMAIN toPage', toPage'[i].kind = "saved"
               PROVE  /\ \A j \in DOMAIN toPage' : i < j /\ toPage'[j].kind = "saved" => toPage'[i].op < toPage'[j].op
                      /\ \A n \in DOMAIN jobs' : toPage'[i].op < jobs'[n].op
    BY DEF SavedOrder
  <2>1. i + d \in DOMAIN toPage /\ toPage'[i] = toPage[i + d]
    BY <1>6
  <2>2. toPage[i + d].op \in Nat /\ toPage[i + d].op <= ops
    BY <2>1, <1>1, <1>4 DEF NumbersInv
  <2>3. ASSUME NEW j \in DOMAIN toPage', i < j, toPage'[j].kind = "saved" PROVE toPage'[i].op < toPage'[j].op
    <3>1. j + d \in DOMAIN toPage /\ toPage'[j] = toPage[j + d] /\ i + d < j + d
      BY <1>2, <1>3, <1>6, <2>3
    <3> QED
      BY <2>1, <2>3, <3>1, <1>4 DEF SavedOrder
  <2>4. ASSUME NEW n \in DOMAIN jobs' PROVE toPage'[i].op < jobs'[n].op
    BY <2>1, <2>2, <1>1, <1>4, <1>5 DEF SavedOrder
  <2> QED
    BY <2>3, <2>4
<1>13. ErrorsInv'
  <2> SUFFICES ASSUME NEW i \in DOMAIN toPage', toPage'[i].kind = "reply" /\ ~toPage'[i].ok
               PROVE  /\ \A n \in DOMAIN jobs' : jobs'[n].op # toPage'[i].op
                      /\ \A j \in DOMAIN toPage' : toPage'[j].kind = "saved" => toPage'[j].op # toPage'[i].op
    BY DEF ErrorsInv
  <2>1. i + d \in DOMAIN toPage /\ toPage'[i] = toPage[i + d]
    BY <1>6
  <2>2. toPage[i + d].op \in Nat /\ toPage[i + d].op <= ops
    BY <2>1, <1>1, <1>4 DEF NumbersInv
  <2>3. \A n \in DOMAIN jobs' : jobs'[n].op # toPage'[i].op
    BY <2>1, <2>2, <1>1, <1>4, <1>5 DEF ErrorsInv
  <2>4. \A j \in DOMAIN toPage' : toPage'[j].kind = "saved" => toPage'[j].op # toPage'[i].op
    BY <2>1, <1>4, <1>6 DEF ErrorsInv
  <2> QED
    BY <2>3, <2>4
<1> QED
  BY <1>8, <1>9, <1>10, <1>11, <1>12, <1>13 DEF PipeInv

-----------------------------------------------------------------------------
(* Tabs: what a step of the page leaves as it is *)

SavedAtThen(i, r) == i \in DOMAIN toPage' /\ toPage'[i].kind = "saved" /\ toPage'[i].request = r
NoneLeftThen(r, kinds, i) ==
  /\ \A n \in DOMAIN jobs' : ~(jobs'[n].request = r /\ jobs'[n].kind \in kinds)
  /\ \A j \in DOMAIN toPage' : j > i => ~SavedAtThen(j, r)
LoadedThen(t) == tab'[t].request # NoRequest /\ ~tab'[t].loading /\ ~tab'[t].loadFailed

LEMMA Thens ==
  /\ \A t : LoadedThen(t) <=> Loaded(t)'
  /\ \A i, r : SavedAtThen(i, r) <=> SavedAt(i, r)'
  /\ \A i, r, kinds : NoneLeftThen(r, kinds, i) <=> NoneLeft(r, kinds, i)'
BY DEF LoadedThen, Loaded, IsOpen, SavedAtThen, SavedAt, NoneLeftThen, NoneLeft

LEMMA NoneLeftMoves ==
  ASSUME TabsTypeOK, NEW d, NEW kind, NEW q, PageMoves(d, kind, q), NEW r, NEW kinds, NEW i \in Nat,
         NoneLeft(r, kinds, i + d), q = r => kind \notin kinds
  PROVE  NoneLeftThen(r, kinds, i)
<1>1. \A n \in DOMAIN jobs' :
        (n \in DOMAIN jobs /\ jobs'[n] = jobs[n]) \/ (jobs'[n].kind = kind /\ jobs'[n].request = q)
  BY DEF PageMoves
<1>2. \A n \in DOMAIN jobs' : ~(jobs'[n].request = r /\ jobs'[n].kind \in kinds)
  BY <1>1 DEF NoneLeft
<1>3. ASSUME NEW j \in DOMAIN toPage', j > i, SavedAtThen(j, r) PROVE FALSE
  <2>1. j \in Nat /\ d \in {0, 1}
    BY MovesDomains DEF PageMoves
  <2>2. j + d \in DOMAIN toPage /\ toPage'[j] = toPage[j + d] /\ j + d > i + d
    BY <1>3, <2>1 DEF PageMoves
  <2> QED
    BY <1>3, <2>2 DEF NoneLeft, SavedAt, SavedAtThen
<1> QED
  BY <1>2, <1>3 DEF NoneLeftThen

LEMMA BaseMoves ==
  ASSUME TabsTypeOK, NEW d, NEW kind, NEW q, PageMoves(d, kind, q), NEW t \in Tabs, BaseIsStored(t),
         LoadedThen(t) => Loaded(t) /\ tab'[t].request = tab[t].request
                          /\ tab'[t].baseText = tab[t].baseText /\ tab'[t].baseAuth = tab[t].baseAuth,
         d = 1 => ~SavedAt(1, tab[t].request)
  PROVE  BaseIsStored(t)'
<1>0. PICK r : r = tab[t].request
  OBVIOUS
<1> SUFFICES ASSUME LoadedThen(t), stored[r].place # Nowhere
             PROVE  /\ (\A i \in DOMAIN toPage' : ~SavedAtThen(i, r)) =>
                         tab'[t].baseText = stored[r].text /\ tab'[t].baseAuth = stored[r].auth
                    /\ \A i \in DOMAIN toPage' :
                         SavedAtThen(i, r) /\ (\A j \in DOMAIN toPage' : j > i => ~SavedAtThen(j, r)) =>
                           toPage'[i].text = stored[r].text /\ toPage'[i].auth = stored[r].auth
  <2>1. stored' = stored /\ (LoadedThen(t) => tab'[t].request = r)
    BY <1>0 DEF PageMoves
  <2> QED
    BY <2>1 DEF BaseIsStored, Loaded, LoadedThen, IsOpen, SavedAt, SavedAtThen, IsStored
<1>1. /\ (\A i \in DOMAIN toPage : ~SavedAt(i, r)) =>
           tab[t].baseText = stored[r].text /\ tab[t].baseAuth = stored[r].auth
      /\ \A i \in DOMAIN toPage : SavedAt(i, r) /\ (\A j \in DOMAIN toPage : j > i => ~SavedAt(j, r)) =>
           toPage[i].text = stored[r].text /\ toPage[i].auth = stored[r].auth
  BY <1>0 DEF BaseIsStored, IsStored
<1>2. /\ d \in {0, 1}
      /\ \A i \in DOMAIN toPage' : i \in Nat /\ i >= 1 /\ i + d \in DOMAIN toPage /\ toPage'[i] = toPage[i + d]
      /\ \A i \in DOMAIN toPage : i \in Nat /\ i >= 1
      /\ \A i \in DOMAIN toPage : i > d => i - d \in DOMAIN toPage' /\ toPage'[i - d] = toPage[i]
  BY MovesDomains, SeqDomains DEF PageMoves
<1>3. ASSUME \A i \in DOMAIN toPage' : ~SavedAtThen(i, r)
      PROVE  tab'[t].baseText = stored[r].text /\ tab'[t].baseAuth = stored[r].auth
  <2>1. ASSUME NEW i \in DOMAIN toPage, SavedAt(i, r) PROVE FALSE
    <3>1. CASE i > d
      BY <1>2, <1>3, <2>1, <3>1 DEF SavedAt, SavedAtThen
    <3>2. CASE ~(i > d)
      <4>1. i = 1 /\ d = 1
        BY <1>2, <3>2
      <4> QED
        BY <1>0, <2>1, <4>1
    <3> QED
      BY <3>1, <3>2
  <2> QED
    BY <1>1, <2>1
<1>4. ASSUME NEW i \in DOMAIN toPage', SavedAtThen(i, r), \A j \in DOMAIN toPage' : j > i => ~SavedAtThen(j, r)
      PROVE  toPage'[i].text = stored[r].text /\ toPage'[i].auth = stored[r].auth
  <2>1. SavedAt(i + d, r) /\ i + d \in DOMAIN toPage
    BY <1>2, <1>4 DEF SavedAt, SavedAtThen
  <2>2. ASSUME NEW j \in DOMAIN toPage, j > i + d, SavedAt(j, r) PROVE FALSE
    <3>1. j > d /\ j - d > i
      BY <1>2, <2>2
    <3> QED
      BY <1>2, <1>4, <2>2, <3>1 DEF SavedAt, SavedAtThen
  <2> QED
    BY <1>1, <1>2, <2>1, <2>2
<1> QED
  BY <1>3, <1>4

LEMMA SaveMoves ==
  ASSUME TabsTypeOK, NumbersInv, NEW d, NEW kind, NEW q, PageMoves(d, kind, q), NEW t \in Tabs, SaveSettles(t),
         saving'[t].stage = "posted" => /\ saving'[t] = saving[t] /\ tab'[t].request = tab[t].request
                                        /\ Loaded(t) => LoadedThen(t)
                                        /\ q = tab[t].request => kind \notin {"save", "delete"}
  PROVE  SaveSettles(t)'
<1> SUFFICES ASSUME saving'[t].stage = "posted" PROVE SaveSettles(t)'
  BY DEF SaveSettles
<1>0. PICK r, o : r = tab[t].request /\ o = saving[t].op
  OBVIOUS
<1>1. /\ Loaded(t)
      /\ \A n \in DOMAIN jobs : jobs[n].request = r =>
           (jobs[n].kind = "save" => jobs[n].op <= o) /\ (jobs[n].kind = "delete" => jobs[n].op < o)
      /\ \A n \in DOMAIN jobs : jobs[n].op = o => jobs[n].kind = "save" /\ jobs[n].request = r
      /\ \A i \in DOMAIN toPage : toPage[i].kind = "reply" /\ toPage[i].op = o =>
           NoneLeft(r, {"save", "delete"}, i) /\ (toPage[i].ok => stored[r].place # Nowhere)
  BY <1>0 DEF SaveSettles, IsStored
<1>2. saving'[t].op = o /\ tab'[t].request = r /\ LoadedThen(t) /\ stored' = stored /\ (q = r => kind \notin {"save", "delete"})
  BY <1>0, <1>1 DEF PageMoves
<1>3. o \in Nat /\ o <= ops /\ ops \in Nat
  BY <1>0, TabNumbers, SeqDomains DEF NumbersInv
<1>4. \A n \in DOMAIN jobs' :
        \/ n \in DOMAIN jobs /\ jobs'[n] = jobs[n]
        \/ jobs'[n].kind = kind /\ jobs'[n].request = q /\ jobs'[n].op = ops + 1
  BY DEF PageMoves
<1>5. \A n \in DOMAIN jobs' : jobs'[n].request = r =>
        (jobs'[n].kind = "save" => jobs'[n].op <= o) /\ (jobs'[n].kind = "delete" => jobs'[n].op < o)
  BY <1>1, <1>2, <1>4
<1>6. \A n \in DOMAIN jobs' : jobs'[n].op = o => jobs'[n].kind = "save" /\ jobs'[n].request = r
  BY <1>1, <1>3, <1>4
<1>7. ASSUME NEW i \in DOMAIN toPage', toPage'[i].kind = "reply" /\ toPage'[i].op = o
      PROVE  NoneLeftThen(r, {"save", "delete"}, i) /\ (toPage'[i].ok => stored'[r].place # Nowhere)
  <2>1. i + d \in DOMAIN toPage /\ toPage'[i] = toPage[i + d] /\ i \in Nat
    BY MovesDomains DEF PageMoves
  <2>2. NoneLeft(r, {"save", "delete"}, i + d) /\ (toPage[i + d].ok => stored[r].place # Nowhere)
    BY <1>1, <1>7, <2>1
  <2>3. NoneLeftThen(r, {"save", "delete"}, i)
    BY <1>2, <2>1, <2>2, NoneLeftMoves
  <2> QED
    BY <1>2, <2>1, <2>2, <2>3
<1> QED
  BY <1>2, <1>5, <1>6, <1>7, Thens DEF SaveSettles, IsStored

LEMMA CloseMoves ==
  ASSUME TabsTypeOK, NEW d, NEW kind, NEW q, PageMoves(d, kind, q), NEW t \in Tabs, CloseSettles(t),
         closing'[t].stage \in {"discarding", "removing"} =>
           /\ closing'[t] = closing[t] /\ tab'[t].request = tab[t].request
           /\ tab'[t].authUpdate \in {0, tab[t].authUpdate} /\ saving'[t].stage \in {"none", saving[t].stage}
           /\ q = tab[t].request => kind # "save"
  PROVE  CloseSettles(t)'
<1> SUFFICES ASSUME closing'[t].stage \in {"discarding", "removing"} PROVE CloseSettles(t)'
  BY DEF CloseSettles
<1>0. PICK r, o : r = tab[t].request /\ o = closing[t].op
  OBVIOUS
<1>1. /\ saving[t].stage = "none" /\ tab[t].authUpdate = 0
      /\ \A n \in DOMAIN jobs : jobs[n].request = r /\ jobs[n].kind = "save" => jobs[n].op < o
      /\ \A i \in DOMAIN toPage : toPage[i].kind = "reply" /\ toPage[i].op = o => NoneLeft(r, {"save"}, i)
  BY <1>0 DEF CloseSettles
<1>2. /\ closing'[t].op = o /\ tab'[t].request = r /\ saving'[t].stage = "none" /\ tab'[t].authUpdate = 0
      /\ (q = r => kind \notin {"save"})
  BY <1>0, <1>1
<1>3. \A n \in DOMAIN jobs' :
        (n \in DOMAIN jobs /\ jobs'[n] = jobs[n]) \/ (jobs'[n].kind = kind /\ jobs'[n].request = q)
  BY DEF PageMoves
<1>4. \A n \in DOMAIN jobs' : jobs'[n].request = r /\ jobs'[n].kind = "save" => jobs'[n].op < o
  BY <1>1, <1>2, <1>3
<1>5. ASSUME NEW i \in DOMAIN toPage', toPage'[i].kind = "reply" /\ toPage'[i].op = o
      PROVE  NoneLeftThen(r, {"save"}, i)
  <2>1. i + d \in DOMAIN toPage /\ toPage'[i] = toPage[i + d] /\ i \in Nat
    BY MovesDomains DEF PageMoves
  <2>2. NoneLeft(r, {"save"}, i + d)
    BY <1>1, <1>5, <2>1
  <2> QED
    BY <1>2, <2>1, <2>2, NoneLeftMoves
<1> QED
  BY <1>2, <1>4, <1>5, Thens DEF CloseSettles

\* a tab that closes after a save stays as it is
ClosesAlike(t, kind, q) ==
  /\ closing[t].stage \in {"releasing", "discarding"} /\ closing[t].why = "save"
  /\ tab'[t].request = tab[t].request /\ tab'[t].text = tab[t].text /\ tab'[t].baseText = tab[t].baseText
  /\ Loaded(t) => LoadedThen(t)
  /\ saving'[t].stage \in {"none", saving[t].stage}
  /\ q = tab[t].request => kind \notin {"save", "delete"}
  /\ timeouts' = 0 => /\ timeouts = 0 /\ tab'[t].authUpdate \in {0, tab[t].authUpdate}
                      /\ tab'[t].auth = tab[t].auth /\ tab'[t].baseAuth = tab[t].baseAuth

LEMMA ClosesMoves ==
  ASSUME TabsTypeOK, NEW d, NEW kind, NEW q, PageMoves(d, kind, q), NEW t \in Tabs, ClosesSaved(t),
         closing'[t].stage = "saving" => closing'[t].why = "save",
         closing'[t].stage = "removing" => closing'[t].why # "save",
         closing'[t].stage \in {"releasing", "discarding"} /\ closing'[t].why = "save" => ClosesAlike(t, kind, q)
  PROVE  ClosesSaved(t)'
<1> SUFFICES ASSUME closing'[t].stage \in {"releasing", "discarding"}, closing'[t].why = "save"
             PROVE  /\ LoadedThen(t) /\ stored'[tab'[t].request].place # Nowhere
                    /\ NoneLeftThen(tab'[t].request, {"save", "delete"}, 0)
                    /\ tab'[t].text = tab'[t].baseText /\ saving'[t].stage = "none"
                    /\ timeouts' = 0 => tab'[t].auth = tab'[t].baseAuth /\ tab'[t].authUpdate = 0
  BY Thens DEF ClosesSaved, IsStored
<1>0. PICK r : r = tab[t].request
  OBVIOUS
<1>1. /\ Loaded(t) /\ stored[r].place # Nowhere /\ NoneLeft(r, {"save", "delete"}, 0)
      /\ tab[t].text = tab[t].baseText /\ saving[t].stage = "none"
      /\ timeouts = 0 => tab[t].auth = tab[t].baseAuth /\ tab[t].authUpdate = 0
  BY <1>0 DEF ClosesSaved, ClosesAlike, IsStored
<1>2. d \in {0, 1} /\ stored' = stored
  BY DEF PageMoves
<1>3. NoneLeft(r, {"save", "delete"}, 0 + d)
  <2>1. \A j \in DOMAIN toPage : j \in Nat /\ (j > 0 + d => j > 0)
    BY <1>2, SeqDomains
  <2> QED
    BY <1>1, <2>1 DEF NoneLeft
<1>4. NoneLeftThen(r, {"save", "delete"}, 0)
  BY <1>0, <1>3, NoneLeftMoves DEF ClosesAlike
<1> QED
  BY <1>0, <1>1, <1>2, <1>4 DEF ClosesAlike

LEMMA BasePlaceMoves ==
  ASSUME NEW d, NEW kind, NEW q, PageMoves(d, kind, q), NEW t \in Tabs, BasePlace(t), tree' = tree,
         tab'[t].request # NoRequest => tab'[t].request = tab[t].request /\ tab'[t].basePlace = tab[t].basePlace,
         d = 1 => ~SavedAt(1, tab[t].request)
  PROVE  BasePlace(t)'
<1>0. PICK r : r = tab[t].request
  OBVIOUS
<1> SUFFICES ASSUME tab'[t].request # NoRequest, tree[r] # Nowhere
             PROVE  tab'[t].basePlace = tree[r] \/ SavedAtThen(1, r)
  BY <1>0, Thens DEF BasePlace, IsOpen
<1>1. tab[t].basePlace = tree[r] \/ SavedAt(1, r)
  BY <1>0 DEF BasePlace, IsOpen
<1>2. CASE d = 1
  BY <1>0, <1>1, <1>2
<1>3. CASE d = 0
  <2>1. \A i \in DOMAIN toPage : i > 0 => i - 0 \in DOMAIN toPage' /\ toPage'[i - 0] = toPage[i]
    BY <1>3 DEF PageMoves
  <2>2. 1 > 0 /\ 1 - 0 = 1
    OBVIOUS
  <2>3. 1 \in DOMAIN toPage => 1 \in DOMAIN toPage' /\ toPage'[1] = toPage[1]
    BY <2>1, <2>2
  <2> QED
    BY <1>0, <1>1, <2>3 DEF SavedAt, SavedAtThen
<1> QED
  BY <1>2, <1>3 DEF PageMoves

AuthsLeftThen(r, i) ==
  \/ \E n \in DOMAIN jobs' : jobs'[n].kind = "configure" /\ jobs'[n].request = r
  \/ \E j \in DOMAIN toPage' : j > i /\ toPage'[j].kind = "auth" /\ toPage'[j].request = r

LEMMA AuthMoves ==
  ASSUME TabsTypeOK, NEW d, NEW kind, NEW q, PageMoves(d, kind, q), NEW t \in Tabs, AuthSettled(t),
         tab'[t].authUpdate # 0 => /\ tab'[t].authUpdate = tab[t].authUpdate /\ tab'[t].request = tab[t].request
                                   /\ q = tab[t].request => kind # "configure"
  PROVE  AuthSettled(t)'
<1>0. PICK r, o : r = tab[t].request /\ o = tab[t].authUpdate
  OBVIOUS
<1> SUFFICES ASSUME NEW i \in DOMAIN toPage', tab'[t].authUpdate # 0, toPage'[i].kind = "reply", toPage'[i].op = o,
                    AuthsLeftThen(r, i)
             PROVE  FALSE
  BY <1>0 DEF AuthSettled, AuthsLeft, AuthsLeftThen
<1>1. i + d \in DOMAIN toPage /\ toPage'[i] = toPage[i + d] /\ i \in Nat /\ d \in {0, 1}
  BY MovesDomains DEF PageMoves
<1>2. ~AuthsLeft(r, i + d) /\ (q = r => kind # "configure")
  BY <1>0, <1>1 DEF AuthSettled
<1>3. ASSUME NEW n \in DOMAIN jobs', jobs'[n].kind = "configure", jobs'[n].request = r PROVE FALSE
  <2>1. (n \in DOMAIN jobs /\ jobs'[n] = jobs[n]) \/ (jobs'[n].kind = kind /\ jobs'[n].request = q)
    BY DEF PageMoves
  <2> QED
    BY <1>2, <1>3, <2>1 DEF AuthsLeft
<1>4. ASSUME NEW j \in DOMAIN toPage', j > i, toPage'[j].kind = "auth", toPage'[j].request = r PROVE FALSE
  <2>1. j \in Nat
    BY MovesDomains
  <2>2. j + d \in DOMAIN toPage /\ toPage'[j] = toPage[j + d] /\ j + d > i + d
    BY <1>1, <1>4, <2>1 DEF PageMoves
  <2> QED
    BY <1>2, <1>4, <2>2 DEF AuthsLeft
<1> QED
  BY <1>3, <1>4 DEF AuthsLeftThen

AppliedThen(op, r) == \E t \in Tabs : tab'[t].request = r /\ op <= tab'[t].authUpdate

LEMMA AppliedMoves ==
  ASSUME TabsTypeOK, AuthsApplied, NEW d, NEW kind, NEW q, PageMoves(d, kind, q),
         \A op \in Nat, r \in Requests : Applied(op, r) /\ op >= 1 /\ op <= ops /\ AuthsLeft(r, d) => AppliedThen(op, r),
         NumbersInv, kind = "configure" => AppliedThen(ops + 1, q)
  PROVE  AuthsApplied'
<1>1. ASSUME NEW n \in DOMAIN jobs', jobs'[n].kind = "configure" PROVE AppliedThen(jobs'[n].op, jobs'[n].request)
  <2>1. \/ n \in DOMAIN jobs /\ jobs'[n] = jobs[n]
        \/ jobs'[n].kind = kind /\ jobs'[n].request = q /\ jobs'[n].op = ops + 1
    BY DEF PageMoves
  <2>2. CASE n \in DOMAIN jobs /\ jobs'[n] = jobs[n]
    <3>1. Applied(jobs[n].op, jobs[n].request) /\ AuthsLeft(jobs[n].request, d)
      BY <1>1, <2>2 DEF AuthsApplied, AuthsLeft
    <3>2. jobs[n].op \in Nat /\ jobs[n].request \in Requests /\ jobs[n].op >= 1 /\ jobs[n].op <= ops
      BY <2>2, SeqDomains DEF JobType, NumbersInv
    <3> QED
      BY <2>2, <3>1, <3>2
  <2> QED
    BY <1>1, <2>1, <2>2
<1>2. ASSUME NEW i \in DOMAIN toPage', toPage'[i].kind = "auth"
      PROVE  AppliedThen(toPage'[i].op, toPage'[i].request)
  <2>1. i + d \in DOMAIN toPage /\ toPage'[i] = toPage[i + d] /\ i \in Nat /\ i >= 1 /\ d \in {0, 1}
    BY MovesDomains DEF PageMoves
  <2>2. i + d > d
    BY <2>1
  <2>3. Applied(toPage[i + d].op, toPage[i + d].request) /\ AuthsLeft(toPage[i + d].request, d)
    BY <1>2, <2>1, <2>2 DEF AuthsApplied, AuthsLeft
  <2>4. /\ toPage[i + d].op \in Nat /\ toPage[i + d].request \in Requests
        /\ toPage[i + d].op >= 1 /\ toPage[i + d].op <= ops
    BY <2>1, SeqDomains DEF MessageType, NumbersInv
  <2> QED
    BY <2>1, <2>3, <2>4
<1> QED
  BY <1>1, <1>2 DEF AuthsApplied, Applied, AppliedThen

\* a load that is under way stays so
StillLoading(l) ==
  /\ tab'[l.tab].request = tab[l.tab].request /\ tab'[l.tab].loading /\ ~tab'[l.tab].loadFailed

LEMMA LoadsMove ==
  ASSUME TabsTypeOK, NumbersInv, LoadsInv, NEW d, NEW kind, NEW q, PageMoves(d, kind, q),
         \A l \in loads' : \/ l \in loads /\ StillLoading(l)
                           \/ /\ l.op = ops + 1 /\ toPage' = toPage
                              /\ tab'[l.tab].request # NoRequest /\ tab'[l.tab].loading /\ ~tab'[l.tab].loadFailed
                              /\ \A n \in DOMAIN reads' : n \notin DOMAIN reads => reads'[n].request = tab'[l.tab].request
                              /\ \A n \in DOMAIN reads : reads'[n] = reads[n]
                              /\ \A k \in loads' : k.tab = l.tab \/ k.op = ops + 1 => k = l
  PROVE  LoadsInv'
<1>0. /\ \A l \in loads : l.op \in Nat /\ l.op <= ops
      /\ ops \in Nat /\ \A l \in loads : l.op # ops + 1
  BY SeqDomains DEF TabsTypeOK, NumbersInv
<1>1. \A k, l \in loads' : k.tab = l.tab \/ k.op = l.op => k = l
  <2> SUFFICES ASSUME NEW k \in loads', NEW l \in loads', k.tab = l.tab \/ k.op = l.op PROVE k = l
    OBVIOUS
  <2>1. CASE k \in loads /\ l \in loads
    BY <2>1 DEF LoadsInv
  <2>2. CASE l \notin loads
    BY <2>2
  <2>3. CASE k \notin loads
    BY <2>3
  <2> QED
    BY <2>1, <2>2, <2>3
<1>2. ASSUME NEW l \in loads'
      PROVE  /\ tab'[l.tab].request # NoRequest /\ tab'[l.tab].loading /\ ~tab'[l.tab].loadFailed
             /\ \A n \in DOMAIN reads' : reads'[n].op = l.op => reads'[n].request = tab'[l.tab].request
             /\ \A i \in DOMAIN toPage' : toPage'[i].kind = "loaded" /\ toPage'[i].op = l.op =>
                  /\ toPage'[i].request = tab'[l.tab].request
                  /\ stored'[toPage'[i].request].place # Nowhere =>
                       /\ toPage'[i].text = stored'[toPage'[i].request].text
                       /\ toPage'[i].auth = stored'[toPage'[i].request].auth
  <2>1. CASE l \in loads /\ StillLoading(l)
    <3>1. /\ tab[l.tab].request # NoRequest
          /\ \A n \in DOMAIN reads : reads[n].op = l.op => reads[n].request = tab[l.tab].request
          /\ \A i \in DOMAIN toPage : toPage[i].kind = "loaded" /\ toPage[i].op = l.op =>
               /\ toPage[i].request = tab[l.tab].request
               /\ stored[toPage[i].request].place # Nowhere =>
                    /\ toPage[i].text = stored[toPage[i].request].text
                    /\ toPage[i].auth = stored[toPage[i].request].auth
      BY <2>1 DEF LoadsInv, IsOpen, IsStored
    <3>2. \A n \in DOMAIN reads' : (n \in DOMAIN reads /\ reads'[n] = reads[n]) \/ reads'[n].op = ops + 1
      BY DEF PageMoves
    <3>3. \A n \in DOMAIN reads' : reads'[n].op = l.op => reads'[n].request = tab'[l.tab].request
      BY <1>0, <2>1, <3>1, <3>2 DEF StillLoading
    <3>4. \A i \in DOMAIN toPage' : i + d \in DOMAIN toPage /\ toPage'[i] = toPage[i + d] /\ stored' = stored
      BY DEF PageMoves
    <3> QED
      BY <2>1, <3>1, <3>3, <3>4 DEF StillLoading
  <2>2. CASE l.op = ops + 1
    <3>1. /\ toPage' = toPage
          /\ tab'[l.tab].request # NoRequest /\ tab'[l.tab].loading /\ ~tab'[l.tab].loadFailed
          /\ \A n \in DOMAIN reads' : n \notin DOMAIN reads => reads'[n].request = tab'[l.tab].request
          /\ \A n \in DOMAIN reads : reads'[n] = reads[n]
      BY <1>0, <2>2
    <3>2. \A n \in DOMAIN reads : reads[n].op # ops + 1
      BY SeqDomains DEF NumbersInv
    <3>3. \A i \in DOMAIN toPage : toPage[i].op # ops + 1
      BY SeqDomains DEF NumbersInv
    <3> QED
      BY <2>2, <3>1, <3>2, <3>3
  <2> QED
    BY <2>1, <2>2
<1> QED
  BY <1>1, <1>2 DEF LoadsInv, IsOpen, IsStored

(***************************************************************************)
(* The tree of the page is the one at position at of the messages, the     *)
(* last the page has read.                                                 *)
(***************************************************************************)
TreeMoves(d, at) ==
  /\ at \in 0 .. d /\ at \in 0 .. Len(toPage) /\ IsTree(at) /\ tree' = PlacesAt(at)
  /\ \A j \in DOMAIN toPage : at < j /\ j <= d => ~IsTree(j)

IsTreeThen(i) == i = 0 \/ toPage'[i].kind = "collections"
PlacesAtThen(i) == IF i = 0 THEN tree' ELSE toPage'[i].places

LEMMA TreeParts ==
  ASSUME TabsTypeOK, NEW d, NEW kind, NEW q, PageMoves(d, kind, q), NEW at, TreeMoves(d, at),
         NEW i \in 0 .. Len(toPage'), IsTreeThen(i),
         NEW f, f = IF i = 0 THEN at ELSE i + d
  PROVE  /\ f \in 0 .. Len(toPage) /\ IsTree(f) /\ PlacesAtThen(i) = PlacesAt(f)
         /\ \A j \in DOMAIN toPage : j > f /\ IsTree(j) => j > d /\ j - d > i
         /\ \A j \in DOMAIN toPage' : j > i => j + d > f
<1>1. /\ d \in {0, 1} /\ Len(toPage) \in Nat /\ Len(toPage') \in Nat
      /\ DOMAIN toPage = 1 .. Len(toPage) /\ DOMAIN toPage' = 1 .. Len(toPage')
  BY DEF PageMoves, TabsTypeOK
<1>2. \A j \in DOMAIN toPage' : j + d \in DOMAIN toPage /\ toPage'[j] = toPage[j + d]
  BY DEF PageMoves
<1>3. /\ at \in 0 .. d /\ IsTree(at) /\ tree' = PlacesAt(at)
      /\ \A j \in DOMAIN toPage : at < j /\ j <= d => ~IsTree(j)
  BY DEF TreeMoves
<1>4. CASE i = 0
  <2>1. f = at
    BY <1>4
  <2>2. at \in 0 .. Len(toPage)
    BY DEF TreeMoves
  <2>3. \A j \in DOMAIN toPage : j > f /\ IsTree(j) => j > d /\ j - d > i
    BY <1>1, <1>3, <1>4, <2>1
  <2>4. \A j \in DOMAIN toPage' : j > i => j + d > f
    BY <1>1, <1>3, <1>4, <2>1
  <2> QED
    BY <1>3, <1>4, <2>1, <2>2, <2>3, <2>4 DEF PlacesAtThen
<1>5. CASE i # 0
  <2>1. f = i + d /\ i \in DOMAIN toPage' /\ i \in Nat /\ f # 0
    BY <1>1, <1>5
  <2>2. f \in DOMAIN toPage /\ toPage'[i] = toPage[f]
    BY <1>2, <2>1
  <2>3. \A j \in DOMAIN toPage : j > f => j > d /\ j - d > i
    BY <1>1, <2>1
  <2>4. \A j \in DOMAIN toPage' : j > i => j + d > f
    BY <1>1, <2>1
  <2>5. f \in 0 .. Len(toPage)
    BY <1>1, <2>2
  <2> QED
    BY <1>5, <2>1, <2>2, <2>3, <2>4, <2>5 DEF PlacesAtThen, PlacesAt, IsTreeThen, IsTree
<1> QED
  BY <1>4, <1>5

LEMMA PlacesMove ==
  ASSUME TabsTypeOK, PlacesInv, NEW d, NEW kind, NEW q, PageMoves(d, kind, q), NEW at, TreeMoves(d, at)
  PROVE  PlacesInv'
<1> SUFFICES ASSUME NEW i \in 0 .. Len(toPage'), IsTreeThen(i)
             PROVE  /\ (\A j \in DOMAIN toPage' : j > i => ~IsTreeThen(j)) =>
                         \A r \in Requests : PlacesAtThen(i)[r] = stored'[r].place
                    /\ \A j \in DOMAIN toPage' :
                         i < j /\ IsTreeThen(j) /\ (\A k \in DOMAIN toPage' : i < k /\ k < j => ~IsTreeThen(k)) =>
                         \A r \in Requests :
                           PlacesAtThen(i)[r] = Nowhere /\ PlacesAtThen(j)[r] # Nowhere => SavedAtThen(j + 1, r)
  BY DEF PlacesInv, IsTree, IsTreeThen, PlacesAt, PlacesAtThen, SavedAt, SavedAtThen
<1>1. PICK f : f = IF i = 0 THEN at ELSE i + d
  OBVIOUS
<1>2. /\ f \in 0 .. Len(toPage) /\ IsTree(f) /\ PlacesAtThen(i) = PlacesAt(f)
      /\ \A j \in DOMAIN toPage : j > f /\ IsTree(j) => j > d /\ j - d > i
      /\ \A j \in DOMAIN toPage' : j > i => j + d > f
  BY <1>1, TreeParts
<1>3. /\ (\A j \in DOMAIN toPage : j > f => ~IsTree(j)) =>
           \A r \in Requests : PlacesAt(f)[r] = stored[r].place
      /\ \A j \in DOMAIN toPage :
           f < j /\ IsTree(j) /\ (\A k \in DOMAIN toPage : f < k /\ k < j => ~IsTree(k)) =>
           \A r \in Requests : PlacesAt(f)[r] = Nowhere /\ PlacesAt(j)[r] # Nowhere => SavedAt(j + 1, r)
  BY <1>2 DEF PlacesInv
<1>4. /\ d \in {0, 1} /\ stored' = stored
      /\ \A j \in DOMAIN toPage : j > d => j - d \in DOMAIN toPage' /\ toPage'[j - d] = toPage[j]
      /\ \A j \in DOMAIN toPage' : j + d \in DOMAIN toPage /\ toPage'[j] = toPage[j + d]
  BY DEF PageMoves
<1>5. /\ \A j \in DOMAIN toPage : j \in Nat /\ j >= 1
      /\ \A j \in DOMAIN toPage' : j \in Nat /\ j >= 1
      /\ i \in Nat /\ f \in Nat
  <2>1. Len(toPage) \in Nat /\ Len(toPage') \in Nat
    BY DEF TabsTypeOK, PageMoves
  <2> QED
    BY <1>2, <2>1, SeqDomains, MovesDomains
<1>6. ASSUME \A j \in DOMAIN toPage' : j > i => ~IsTreeThen(j), NEW r \in Requests
      PROVE  PlacesAtThen(i)[r] = stored'[r].place
  <2>1. ASSUME NEW j \in DOMAIN toPage, j > f, IsTree(j) PROVE FALSE
    <3>1. j > d /\ j - d > i
      BY <1>2, <2>1
    <3>2. j - d \in DOMAIN toPage' /\ toPage'[j - d] = toPage[j] /\ j # 0
      BY <1>4, <1>5, <3>1
    <3>3. IsTreeThen(j - d)
      BY <2>1, <3>2 DEF IsTree, IsTreeThen
    <3> QED
      BY <1>6, <3>1, <3>2, <3>3
  <2> QED
    BY <1>2, <1>3, <1>4, <2>1
<1>7. ASSUME NEW j \in DOMAIN toPage', i < j, IsTreeThen(j),
             \A k \in DOMAIN toPage' : i < k /\ k < j => ~IsTreeThen(k),
             NEW r \in Requests, PlacesAtThen(i)[r] = Nowhere, PlacesAtThen(j)[r] # Nowhere
      PROVE  SavedAtThen(j + 1, r)
  <2>1. j + d \in DOMAIN toPage /\ toPage'[j] = toPage[j + d] /\ j + d > f /\ j # 0 /\ j + d # 0
    BY <1>2, <1>4, <1>5, <1>7
  <2>2. IsTree(j + d) /\ PlacesAt(j + d) = PlacesAtThen(j)
    BY <1>7, <2>1 DEF IsTree, IsTreeThen, PlacesAt, PlacesAtThen
  <2>3. ASSUME NEW k \in DOMAIN toPage, f < k, k < j + d, IsTree(k) PROVE FALSE
    <3>1. k > d /\ k - d > i
      BY <1>2, <2>3
    <3>2. k - d \in DOMAIN toPage' /\ toPage'[k - d] = toPage[k] /\ k # 0 /\ k - d < j
      BY <1>4, <1>5, <2>3, <3>1
    <3>3. IsTreeThen(k - d)
      BY <2>3, <3>2 DEF IsTree, IsTreeThen
    <3> QED
      BY <1>7, <3>1, <3>2, <3>3
  <2>4. SavedAt(j + d + 1, r)
    BY <1>2, <1>3, <1>7, <2>1, <2>2, <2>3
  <2>5. j + d + 1 \in DOMAIN toPage /\ j + d + 1 > d /\ j + d + 1 - d = j + 1
    BY <1>4, <1>5, <2>4 DEF SavedAt
  <2>6. j + 1 \in DOMAIN toPage' /\ toPage'[j + 1] = toPage[j + d + 1]
    BY <1>4, <2>5
  <2> QED
    BY <2>4, <2>6 DEF SavedAt, SavedAtThen
<1> QED
  BY <1>6, <1>7

LEMMA SavedPlaceMoves ==
  ASSUME TabsTypeOK, NumbersInv, SavedPlace, NEW d, NEW kind, NEW q, PageMoves(d, kind, q), NEW at, TreeMoves(d, at),
         \A s \in submitted' :
           \/ s \in submitted
           \/ s.op = ops + 1 /\ \A n \in DOMAIN jobs' : n \notin DOMAIN jobs => s.place = jobs'[n].place
  PROVE  SavedPlace'
<1>1. /\ ops \in Nat /\ d \in {0, 1}
      /\ \A j \in DOMAIN toPage : j \in Nat /\ j >= 1 /\ toPage[j].op # ops + 1
      /\ \A n \in DOMAIN jobs : jobs[n].op # ops + 1
      /\ \A j \in DOMAIN toPage' : j \in Nat /\ j >= 1 /\ j + d \in DOMAIN toPage /\ toPage'[j] = toPage[j + d]
      /\ \A j \in DOMAIN toPage : j > d => j - d \in DOMAIN toPage' /\ toPage'[j - d] = toPage[j]
  BY SeqDomains, MovesDomains DEF NumbersInv, PageMoves
<1>2. \A s \in submitted : s.op # ops + 1
  BY <1>1 DEF NumbersInv, TabsTypeOK, SnapshotType
<1>3. ASSUME NEW n \in DOMAIN jobs', NEW s \in submitted', jobs'[n].kind = "save", s.op = jobs'[n].op
      PROVE  s.place = jobs'[n].place
  <2>1. (n \in DOMAIN jobs /\ jobs'[n] = jobs[n]) \/ (n \notin DOMAIN jobs /\ jobs'[n].op = ops + 1)
    BY DEF PageMoves
  <2> QED
    BY <1>1, <1>2, <1>3, <2>1 DEF SavedPlace
<1>4. ASSUME NEW i \in DOMAIN toPage', toPage'[i].kind = "saved"
      PROVE  /\ IsTreeThen(i - 1)
             /\ \A s \in submitted' : s.op = toPage'[i].op => s.place = PlacesAtThen(i - 1)[toPage'[i].request]
  <2>1. PICK k \in DOMAIN toPage : k = i + d /\ toPage'[i] = toPage[k]
    BY <1>1
  <2>2. /\ IsTree(k - 1)
        /\ \A s \in submitted : s.op = toPage[k].op => s.place = PlacesAt(k - 1)[toPage[k].request]
    BY <1>4, <2>1 DEF SavedPlace
  <2>3. IsTreeThen(i - 1) /\ PlacesAtThen(i - 1) = PlacesAt(k - 1)
    <3>1. CASE i = 1
      <4>1. i - 1 = 0 /\ k - 1 = d
        BY <1>1, <2>1, <3>1
      <4>2. IsTree(d)
        BY <2>2, <4>1
      <4>3. d \in DOMAIN toPage \/ d = 0
        <5>1. DOMAIN toPage = 1 .. Len(toPage) /\ Len(toPage) \in Nat
          BY DEF TabsTypeOK
        <5> QED
          BY <1>1, <2>1, <3>1, <5>1
      <4>4. at = d
        BY <1>1, <4>2, <4>3 DEF TreeMoves
      <4> QED
        BY <4>1, <4>4 DEF TreeMoves, IsTreeThen, PlacesAtThen
    <3>2. CASE i # 1
      <4>1. i - 1 \in Nat /\ i - 1 # 0 /\ k - 1 > d /\ k - 1 - d = i - 1 /\ k - 1 # 0
        BY <1>1, <2>1, <3>2
      <4>2. k - 1 \in DOMAIN toPage
        <5>1. DOMAIN toPage = 1 .. Len(toPage) /\ Len(toPage) \in Nat
          BY DEF TabsTypeOK
        <5> QED
          BY <1>1, <2>1, <3>2, <5>1
      <4>3. toPage'[i - 1] = toPage[k - 1]
        BY <1>1, <4>1, <4>2
      <4> QED
        BY <2>2, <4>1, <4>3 DEF IsTree, IsTreeThen, PlacesAt, PlacesAtThen
    <3> QED
      BY <3>1, <3>2
  <2>4. \A s \in submitted' : s.op = toPage'[i].op => s \in submitted
    BY <1>1, <2>1
  <2> QED
    BY <2>1, <2>2, <2>3, <2>4
<1> QED
  BY <1>3, <1>4 DEF SavedPlace, IsTree, IsTreeThen, PlacesAt, PlacesAtThen

-----------------------------------------------------------------------------
(* Tabs: steps of the page *)

LEMMA StillMoves ==
  ASSUME TabsTypeOK, UNCHANGED <<ops, jobs, reads, toPage, stored>>, NEW kind, NEW q
  PROVE  PageMoves(0, kind, q)
<1>1. \A i \in DOMAIN toPage : i + 0 = i /\ i - 0 = i
  BY SeqDomains
<1> QED
  BY <1>1 DEF PageMoves, TabsTypeOK

LEMMA PostParts ==
  ASSUME TabsTypeOK, NEW kind, NEW q, NEW x, Post(kind, q, x), Job(kind, q, x) \in JobType
  PROVE  /\ jobs' \in Seq(JobType) /\ ops' = ops + 1
         /\ \A n \in DOMAIN jobs : n \in DOMAIN jobs' /\ jobs'[n] = jobs[n]
         /\ \A n \in DOMAIN jobs' : n \notin DOMAIN jobs =>
              /\ jobs'[n].kind = kind /\ jobs'[n].request = q /\ jobs'[n].op = ops + 1
              /\ jobs'[n].place = x.place /\ jobs'[n].text = x.text
              /\ \A m \in DOMAIN jobs' : m <= n
<1>1. PICK j \in JobType : j = Job(kind, q, x)
  OBVIOUS
<1>2. /\ j.kind = kind /\ j.request = q /\ j.op = ops + 1 /\ j.place = x.place /\ j.text = x.text
  BY <1>1 DEF Job
<1>3. jobs' = Append(jobs, j) /\ ops' = ops + 1 /\ jobs \in Seq(JobType)
  BY <1>1 DEF Post, TabsTypeOK
<1>4. /\ jobs' \in Seq(JobType)
      /\ \A n \in DOMAIN jobs : n \in DOMAIN jobs' /\ jobs'[n] = jobs[n]
      /\ \A n \in DOMAIN jobs' : n \notin DOMAIN jobs => jobs'[n] = j /\ \A m \in DOMAIN jobs' : ~(m > n)
  BY <1>3, Appended
<1>5. \A n \in DOMAIN jobs' : n \in Nat
  BY <1>4
<1> QED
  BY <1>2, <1>3, <1>4, <1>5

LEMMA PostMoves ==
  ASSUME TabsTypeOK, NEW kind, NEW q, NEW x, Post(kind, q, x), Job(kind, q, x) \in JobType,
         kind \in {"save", "move"} => x.place # Nowhere, UNCHANGED <<reads, toPage, stored>>
  PROVE  PageMoves(0, kind, q)
<1>1. \A i \in DOMAIN toPage : i + 0 = i /\ i - 0 = i
  BY SeqDomains
<1>2. /\ jobs' \in Seq(JobType) /\ ops' = ops + 1
      /\ \A n \in DOMAIN jobs : n \in DOMAIN jobs' /\ jobs'[n] = jobs[n]
      /\ \A n \in DOMAIN jobs' : n \notin DOMAIN jobs =>
           /\ jobs'[n].kind = kind /\ jobs'[n].request = q /\ jobs'[n].op = ops + 1
           /\ jobs'[n].place = x.place /\ \A m \in DOMAIN jobs' : m <= n
  BY PostParts
<1> QED
  BY <1>1, <1>2 DEF PageMoves, TabsTypeOK

LEMMA HearParts ==
  ASSUME TabsTypeOK, toPage # <<>>, toPage' = Tail(toPage)
  PROVE  /\ Head(toPage) = toPage[1] /\ 1 \in DOMAIN toPage /\ toPage[1] \in MessageType
         /\ toPage' \in Seq(MessageType) /\ 1 \in 0 .. Len(toPage)
         /\ \A i \in DOMAIN toPage' : i + 1 \in DOMAIN toPage /\ toPage'[i] = toPage[i + 1]
         /\ \A i \in DOMAIN toPage : i > 1 => i - 1 \in DOMAIN toPage' /\ toPage'[i - 1] = toPage[i]
<1>1. /\ Len(toPage) \in Nat \ {0} /\ Head(toPage) = toPage[1] /\ toPage[1] \in MessageType
      /\ toPage' \in Seq(MessageType) /\ DOMAIN toPage = 1 .. Len(toPage)
      /\ DOMAIN toPage' = 1 .. Len(toPage) - 1
      /\ \A i \in 1 .. Len(toPage) - 1 : i + 1 \in 1 .. Len(toPage) /\ toPage'[i] = toPage[i + 1]
  BY TailParts DEF TabsTypeOK
<1>2. \A i \in 1 .. Len(toPage) : i > 1 => i - 1 \in 1 .. Len(toPage) - 1 /\ i - 1 + 1 = i
  BY <1>1
<1> QED
  BY <1>1, <1>2

LEMMA HearMoves ==
  ASSUME TabsTypeOK, toPage # <<>>, toPage' = Tail(toPage), UNCHANGED <<ops, jobs, reads, stored>>, NEW kind, NEW q
  PROVE  PageMoves(1, kind, q)
BY HearParts DEF PageMoves, TabsTypeOK

LEMMA HearPosts ==
  ASSUME TabsTypeOK, toPage # <<>>, toPage' = Tail(toPage), UNCHANGED <<reads, stored>>, NEW q, NEW x,
         Post("delete", q, x), Job("delete", q, x) \in JobType
  PROVE  PageMoves(1, "delete", q)
<1>1. /\ jobs' \in Seq(JobType) /\ ops' = ops + 1
      /\ \A n \in DOMAIN jobs : n \in DOMAIN jobs' /\ jobs'[n] = jobs[n]
      /\ \A n \in DOMAIN jobs' : n \notin DOMAIN jobs =>
           /\ jobs'[n].kind = "delete" /\ jobs'[n].request = q /\ jobs'[n].op = ops + 1
           /\ \A m \in DOMAIN jobs' : m <= n
  BY PostParts
<1> QED
  BY <1>1, HearParts DEF PageMoves, TabsTypeOK

\* what the page submitted is still known where its answer is still to come
Steady(t) == Loaded(t) => LoadedThen(t) /\ tab'[t].request = tab[t].request
SubmittedKept(d, kind, q) ==
  /\ \A op, r, text : Owned(op, r, text) /\ SaveLeft(d, op, r) => OwnedThen(op, r, text)
  /\ \A s \in submitted' :
       \/ s \in submitted
       \/ /\ s.op = ops + 1 /\ ops' = ops + 1
          /\ \A n \in DOMAIN jobs' : n \notin DOMAIN jobs => s.place = jobs'[n].place
  /\ \A s, u \in submitted' : s.op = ops + 1 /\ u.op = ops + 1 => s = u
  /\ \A n \in DOMAIN jobs' : n \notin DOMAIN jobs /\ kind = "save" => OwnedThen(ops + 1, q, jobs'[n].text)

LEMMA SubmittedStays ==
  ASSUME TabsTypeOK, NumbersInv, NEW d, NEW kind, NEW q, kind # "save" \/ jobs' = jobs,
         \A s \in submitted' : s \in submitted,
         \A s \in submitted : s \in submitted' \/ \A r : ~SaveLeft(d, s.op, r),
         \A t \in Tabs : Steady(t)
  PROVE  SubmittedKept(d, kind, q)
<1>1. \A s \in submitted : s.tab \in Tabs /\ s.op # ops + 1
  BY SeqDomains DEF NumbersInv, TabsTypeOK, SnapshotType
<1>2. \A op, r, text : Owned(op, r, text) /\ SaveLeft(d, op, r) => OwnedThen(op, r, text)
  BY <1>1 DEF Owned, OwnedThen, Steady, LoadedThen
<1>3. \A n \in DOMAIN jobs' : ~(n \notin DOMAIN jobs /\ kind = "save")
  OBVIOUS
<1> QED
  BY <1>1, <1>2, <1>3 DEF SubmittedKept

\* a load goes on, or is the one that just started
NewLoad(l) ==
  /\ l.op = ops + 1 /\ ops' = ops + 1 /\ toPage' = toPage
  /\ tab'[l.tab].request # NoRequest /\ tab'[l.tab].loading /\ ~tab'[l.tab].loadFailed
  /\ \A n \in DOMAIN reads' : n \notin DOMAIN reads => reads'[n].request = tab'[l.tab].request
  /\ \A n \in DOMAIN reads : reads'[n] = reads[n]
  /\ \A k \in loads' : k.tab = l.tab \/ k.op = ops + 1 => k = l
LoadsKept == \A l \in loads' : (l \in loads /\ StillLoading(l)) \/ NewLoad(l)

LEMMA SteadyKeeps ==
  ASSUME TabsInv, NEW d, NEW kind, NEW q, PageMoves(d, kind, q), NEW at, TreeMoves(d, at),
         \A t \in Tabs : NumbersKept(t), SubmittedKept(d, kind, q), LoadsKept
  PROVE  PipeInv' /\ LoadsInv' /\ PlacesInv' /\ SavedPlace'
<1>1. TabsTypeOK /\ PipeInv /\ LoadsInv /\ PlacesInv /\ SavedPlace /\ NumbersInv
  BY DEF TabsInv, PipeInv
<1>2. PipeInv'
  <2>1. \A l \in loads' : l \in loads \/ (l.op = ops + 1 /\ ops' = ops + 1)
    BY DEF LoadsKept, NewLoad
  <2> QED
    BY <1>1, <2>1, PipeKeeps DEF SubmittedKept
<1>3. LoadsInv'
  BY <1>1, LoadsMove DEF LoadsKept, NewLoad
<1>4. PlacesInv'
  BY <1>1, PlacesMove
<1>5. SavedPlace'
  BY <1>1, SavedPlaceMoves DEF SubmittedKept
<1> QED
  BY <1>2, <1>3, <1>4, <1>5

\* what a step may do to a tab for what is true of it to stay so
Fresh(op) == op = ops + 1 /\ ops' = ops + 1
Unheard(t, d) == d = 1 => ~SavedAt(1, tab[t].request)
BaseAlike(t, d) ==
  LoadedThen(t) =>
    \/ stored'[tab'[t].request].place = Nowhere
    \/ /\ Loaded(t) /\ tab'[t].request = tab[t].request /\ Unheard(t, d)
       /\ tab'[t].baseText = tab[t].baseText /\ tab'[t].baseAuth = tab[t].baseAuth
SaveAlike(t, kind, q) ==
  saving'[t].stage = "posted" =>
    \/ /\ saving'[t] = saving[t] /\ tab'[t].request = tab[t].request
       /\ Loaded(t) => LoadedThen(t)
       /\ q = tab[t].request => kind \notin {"save", "delete"}
    \/ Fresh(saving'[t].op) /\ kind = "save" /\ tab'[t].request = q /\ LoadedThen(t)
CloseAlike(t, kind, q) ==
  closing'[t].stage \in {"discarding", "removing"} =>
    \/ /\ closing'[t] = closing[t] /\ tab'[t].request = tab[t].request
       /\ tab'[t].authUpdate \in {0, tab[t].authUpdate} /\ saving'[t].stage \in {"none", saving[t].stage}
       /\ q = tab[t].request => kind # "save"
    \/ Fresh(closing'[t].op) /\ kind # "save" /\ saving'[t].stage = "none" /\ tab'[t].authUpdate = 0
ClosesAsBefore(t, kind, q) ==
  /\ closing'[t].stage = "saving" => closing'[t].why = "save"
  /\ closing'[t].stage = "removing" => closing'[t].why # "save"
  /\ closing'[t].stage \in {"releasing", "discarding"} /\ closing'[t].why = "save" => ClosesAlike(t, kind, q)
PlaceAlike(t, d) ==
  tree' = tree /\ (tab'[t].request # NoRequest =>
    \/ tree[tab'[t].request] \in {Nowhere, tab'[t].basePlace}
    \/ tab'[t].request = tab[t].request /\ tab'[t].basePlace = tab[t].basePlace /\ Unheard(t, d))
AuthAlike(t, kind, q) ==
  tab'[t].authUpdate # 0 =>
    \/ /\ tab'[t].authUpdate = tab[t].authUpdate /\ tab'[t].request = tab[t].request
       /\ q = tab[t].request => kind # "configure"
    \/ Fresh(tab'[t].authUpdate)

LEMMA NoneFresh ==
  ASSUME TabsTypeOK, NumbersInv, NEW d, NEW kind, NEW q, PageMoves(d, kind, q)
  PROVE  /\ \A i \in DOMAIN toPage' : toPage'[i].op # ops + 1
         /\ \A n \in DOMAIN jobs' :
              \/ jobs'[n].op \in Nat /\ jobs'[n].op < ops + 1
              \/ jobs'[n].op = ops + 1 /\ jobs'[n].kind = kind /\ jobs'[n].request = q
<1>1. /\ ops \in Nat
      /\ \A i \in DOMAIN toPage : toPage[i].op \in Nat /\ toPage[i].op <= ops
      /\ \A n \in DOMAIN jobs : jobs[n].op \in Nat /\ jobs[n].op <= ops
  BY SeqDomains DEF NumbersInv
<1>2. \A i \in DOMAIN toPage' : i + d \in DOMAIN toPage /\ toPage'[i] = toPage[i + d]
  BY DEF PageMoves
<1>3. \A n \in DOMAIN jobs' :
        \/ n \in DOMAIN jobs /\ jobs'[n] = jobs[n]
        \/ jobs'[n].kind = kind /\ jobs'[n].request = q /\ jobs'[n].op = ops + 1
  BY DEF PageMoves
<1> QED
  BY <1>1, <1>2, <1>3

LEMMA SaveAlikeMoves ==
  ASSUME TabsTypeOK, NumbersInv, NEW d, NEW kind, NEW q, PageMoves(d, kind, q), NEW t \in Tabs, SaveSettles(t),
         SaveAlike(t, kind, q)
  PROVE  SaveSettles(t)'
<1>1. CASE saving'[t].stage = "posted" /\ Fresh(saving'[t].op) /\ kind = "save" /\ tab'[t].request = q /\ LoadedThen(t)
  <2>1. /\ \A i \in DOMAIN toPage' : toPage'[i].op # ops + 1
        /\ \A n \in DOMAIN jobs' :
             \/ jobs'[n].op \in Nat /\ jobs'[n].op < ops + 1
             \/ jobs'[n].op = ops + 1 /\ jobs'[n].kind = "save" /\ jobs'[n].request = q
    BY <1>1, NoneFresh
  <2>2. ops \in Nat /\ saving'[t].op = ops + 1
    BY <1>1, SeqDomains DEF Fresh
  <2>3. Loaded(t)'
    BY <1>1, Thens
  <2>4. \A n \in DOMAIN jobs' : /\ jobs'[n].op <= ops + 1
                                /\ jobs'[n].kind = "delete" => jobs'[n].op < ops + 1
                                /\ jobs'[n].op = ops + 1 => jobs'[n].kind = "save" /\ jobs'[n].request = q
    BY <2>1, <2>2
  <2> QED
    BY <1>1, <2>1, <2>2, <2>3, <2>4 DEF SaveSettles
<1>2. CASE saving'[t].stage = "posted" => /\ saving'[t] = saving[t] /\ tab'[t].request = tab[t].request
                                          /\ Loaded(t) => LoadedThen(t)
                                          /\ q = tab[t].request => kind \notin {"save", "delete"}
  BY <1>2, SaveMoves
<1> QED
  BY <1>1, <1>2 DEF SaveAlike

LEMMA CloseAlikeMoves ==
  ASSUME TabsTypeOK, NumbersInv, NEW d, NEW kind, NEW q, PageMoves(d, kind, q), NEW t \in Tabs, CloseSettles(t),
         CloseAlike(t, kind, q)
  PROVE  CloseSettles(t)'
<1>1. CASE Fresh(closing'[t].op) /\ kind # "save" /\ saving'[t].stage = "none" /\ tab'[t].authUpdate = 0
  <2>1. /\ \A i \in DOMAIN toPage' : toPage'[i].op # ops + 1
        /\ \A n \in DOMAIN jobs' : jobs'[n].kind = "save" => jobs'[n].op < ops + 1
    BY <1>1, NoneFresh
  <2>2. closing'[t].op = ops + 1
    BY <1>1 DEF Fresh
  <2> QED
    BY <1>1, <2>1, <2>2 DEF CloseSettles
<1>2. CASE closing'[t].stage \in {"discarding", "removing"} =>
             /\ closing'[t] = closing[t] /\ tab'[t].request = tab[t].request
             /\ tab'[t].authUpdate \in {0, tab[t].authUpdate} /\ saving'[t].stage \in {"none", saving[t].stage}
             /\ q = tab[t].request => kind # "save"
  BY <1>2, CloseMoves
<1> QED
  BY <1>1, <1>2 DEF CloseAlike

LEMMA AuthAlikeMoves ==
  ASSUME TabsTypeOK, NumbersInv, NEW d, NEW kind, NEW q, PageMoves(d, kind, q), NEW t \in Tabs, AuthSettled(t),
         AuthAlike(t, kind, q)
  PROVE  AuthSettled(t)'
<1>1. CASE Fresh(tab'[t].authUpdate)
  <2>1. \A i \in DOMAIN toPage' : toPage'[i].op # ops + 1
    BY NoneFresh
  <2> QED
    BY <1>1, <2>1 DEF AuthSettled, Fresh
<1>2. CASE tab'[t].authUpdate # 0 =>
             /\ tab'[t].authUpdate = tab[t].authUpdate /\ tab'[t].request = tab[t].request
             /\ q = tab[t].request => kind # "configure"
  BY <1>2, AuthMoves
<1> QED
  BY <1>1, <1>2 DEF AuthAlike

LEMMA BaseAlikeMoves ==
  ASSUME TabsTypeOK, NEW d, NEW kind, NEW q, PageMoves(d, kind, q), NEW t \in Tabs, BaseIsStored(t), BaseAlike(t, d)
  PROVE  BaseIsStored(t)'
<1>1. CASE LoadedThen(t) /\ stored'[tab'[t].request].place = Nowhere
  BY <1>1 DEF BaseIsStored, IsStored
<1>2. CASE LoadedThen(t) /\ ~(stored'[tab'[t].request].place = Nowhere)
  BY <1>2, BaseMoves DEF BaseAlike, Unheard
<1>3. CASE ~LoadedThen(t)
  BY <1>3, Thens DEF BaseIsStored
<1> QED
  BY <1>1, <1>2, <1>3

LEMMA PlaceAlikeMoves ==
  ASSUME NEW d, NEW kind, NEW q, PageMoves(d, kind, q), NEW t \in Tabs, BasePlace(t), PlaceAlike(t, d)
  PROVE  BasePlace(t)'
<1>1. CASE tab'[t].request # NoRequest /\ tree[tab'[t].request] \in {Nowhere, tab'[t].basePlace}
  BY <1>1 DEF BasePlace, PlaceAlike
<1>2. CASE tab'[t].request # NoRequest /\ ~(tree[tab'[t].request] \in {Nowhere, tab'[t].basePlace})
  BY <1>2, BasePlaceMoves DEF PlaceAlike, Unheard
<1>3. CASE tab'[t].request = NoRequest
  BY <1>3 DEF BasePlace, IsOpen
<1> QED
  BY <1>1, <1>2, <1>3

TabAlike(t, d, kind, q) ==
  /\ NumbersKept(t)
  /\ BaseAlike(t, d) \/ BaseIsStored(t)'
  /\ SaveAlike(t, kind, q) /\ CloseAlike(t, kind, q)
  /\ ClosesAsBefore(t, kind, q) \/ ClosesSaved(t)'
  /\ PlaceAlike(t, d) \/ BasePlace(t)'
  /\ timeouts' = 0 => timeouts = 0 /\ AuthAlike(t, kind, q)

LEMMA TabMoves ==
  ASSUME TabsInv, NEW d, NEW kind, NEW q, PageMoves(d, kind, q), NEW t \in Tabs, TabAlike(t, d, kind, q)
  PROVE  TabInv(t)'
<1>1. TabsTypeOK /\ NumbersInv /\ TabInv(t)
  BY DEF TabsInv, PipeInv
<1>2. BaseIsStored(t)'
  BY <1>1, BaseAlikeMoves DEF TabInv, TabAlike
<1>3. SaveSettles(t)'
  BY <1>1, SaveAlikeMoves DEF TabInv, TabAlike
<1>4. CloseSettles(t)'
  BY <1>1, CloseAlikeMoves DEF TabInv, TabAlike
<1>5. ClosesSaved(t)'
  <2>1. CASE ClosesAsBefore(t, kind, q)
    BY <1>1, <2>1, ClosesMoves DEF TabInv, ClosesAsBefore
  <2> QED
    BY <2>1 DEF TabAlike
<1>6. BasePlace(t)'
  BY <1>1, PlaceAlikeMoves DEF TabInv, TabAlike
<1>7. timeouts' = 0 => AuthSettled(t)'
  BY <1>1, AuthAlikeMoves DEF TabInv, TabAlike
<1> QED
  BY <1>2, <1>3, <1>4, <1>5, <1>6, <1>7 DEF TabInv

Untouched(t) == tab'[t] = tab[t] /\ saving'[t] = saving[t] /\ closing'[t] = closing[t]

LEMMA UntouchedAlike ==
  ASSUME TabsInv, NEW d, NEW kind, NEW q, NEW t \in Tabs, Untouched(t), Unheard(t, d), tree' = tree,
         q # tab[t].request \/ kind \in {"discard", "move"}, timeouts' = 0 => timeouts = 0
  PROVE  TabAlike(t, d, kind, q)
<1>1. ClosesSaved(t)
  BY DEF TabsInv, TabInv
<1>2. BaseAlike(t, d) /\ PlaceAlike(t, d) /\ NumbersKept(t)
  BY DEF BaseAlike, PlaceAlike, NumbersKept, Untouched, Loaded, LoadedThen, IsOpen
<1>3. SaveAlike(t, kind, q) /\ CloseAlike(t, kind, q)
  BY DEF SaveAlike, CloseAlike, Untouched, Loaded, LoadedThen, IsOpen
<1>4. AuthAlike(t, kind, q)
  BY DEF AuthAlike, Untouched
<1>5. ClosesAsBefore(t, kind, q)
  BY <1>1 DEF ClosesAsBefore, ClosesAlike, ClosesSaved, Untouched, Loaded, LoadedThen, IsOpen
<1> QED
  BY <1>2, <1>3, <1>4, <1>5 DEF TabAlike

(***************************************************************************)
(* A step of the page, by what it does to each tab.                        *)
(***************************************************************************)
AppliedStay(d, kind, q) ==
  /\ \A op \in Nat, r \in Requests : Applied(op, r) /\ op >= 1 /\ op <= ops /\ AuthsLeft(r, d) => AppliedThen(op, r)
  /\ kind = "configure" => AppliedThen(ops + 1, q)
DraftAlike(t) ==
  LoadedThen(t) =>
    \/ tab'[t].text = typed'[t]
    \/ Loaded(t) /\ tab'[t].text = tab[t].text /\ typed'[t] = typed[t]

LEMMA TabStep ==
  ASSUME TabsInv, TabsTypeOK', DialogInv', OneTab', ClosedBySaveIsStored',
         NEW d, NEW kind, NEW q, PageMoves(d, kind, q), NEW at, TreeMoves(d, at),
         SubmittedKept(d, kind, q), LoadsKept,
         \A t \in Tabs : TabAlike(t, d, kind, q) /\ DraftAlike(t),
         timeouts' = 0 => timeouts = 0 /\ AppliedStay(d, kind, q)
  PROVE  TabsInv'
<1>1. PipeInv' /\ LoadsInv' /\ PlacesInv' /\ SavedPlace'
  BY SteadyKeeps DEF TabAlike
<1>2. \A t \in Tabs : TabInv(t)'
  BY TabMoves
<1>3. timeouts' = 0 => AuthsApplied'
  BY AppliedMoves DEF TabsInv, PipeInv, AppliedStay
<1>4. DraftKeepsEdits'
  BY DEF TabsInv, DraftAlike, DraftKeepsEdits, IsOpen, Loaded, LoadedThen
<1> QED
  BY <1>1, <1>2, <1>3, <1>4 DEF TabsInv

-----------------------------------------------------------------------------
(* Tabs: steps about one tab *)

LEMMA TreeStays ==
  ASSUME TabsTypeOK, tree' = tree, NEW d \in {0, 1}, d = 1 => toPage[1].kind # "collections"
  PROVE  TreeMoves(d, 0)
<1>1. Len(toPage) \in Nat
  BY DEF TabsTypeOK
<1>2. \A j \in DOMAIN toPage : 0 < j /\ j <= d => j = 1 /\ d = 1
  BY SeqDomains
<1> QED
  BY <1>1, <1>2 DEF TreeMoves, IsTree, PlacesAt

LEMMA AppliedKept ==
  ASSUME TabsTypeOK, NEW d, NEW kind, NEW q, kind = "configure" => AppliedThen(ops + 1, q),
         \A t \in Tabs : tab[t].authUpdate # 0 =>
           \/ ~AuthsLeft(tab[t].request, d)
           \/ tab'[t].request = tab[t].request /\ tab'[t].authUpdate \in {tab[t].authUpdate, ops + 1}
  PROVE  AppliedStay(d, kind, q)
<1> SUFFICES ASSUME NEW op \in Nat, NEW r \in Requests, Applied(op, r), op >= 1, op <= ops, AuthsLeft(r, d)
             PROVE  AppliedThen(op, r)
  BY DEF AppliedStay
<1>1. PICK t \in Tabs : tab[t].request = r /\ op <= tab[t].authUpdate
  BY DEF Applied
<1>2. tab[t].authUpdate \in Nat /\ ops \in Nat
  BY TabNumbers, SeqDomains
<1>3. tab'[t].request = r /\ tab'[t].authUpdate \in {tab[t].authUpdate, ops + 1}
  BY <1>1, <1>2
<1>4. op <= tab'[t].authUpdate
  BY <1>1, <1>2, <1>3
<1> QED
  BY <1>3, <1>4 DEF AppliedThen

\* a tab keeps what it shows, and whether it is loaded
SameView(t) ==
  /\ tab'[t].request = tab[t].request /\ tab'[t].loading = tab[t].loading /\ tab'[t].loadFailed = tab[t].loadFailed

LEMMA SameViews ==
  ASSUME TabsInv, NEW d, NEW kind, NEW q, kind # "save" \/ jobs' = jobs,
         \A s \in submitted' : s \in submitted,
         \A s \in submitted : s \in submitted' \/ \A r : ~SaveLeft(d, s.op, r),
         \A l \in loads' : l \in loads, \A t \in Tabs : SameView(t)
  PROVE  SubmittedKept(d, kind, q) /\ LoadsKept /\ OneTab'
<1>1. TabsTypeOK /\ NumbersInv /\ LoadsInv /\ OneTab
  BY DEF TabsInv, PipeInv
<1>2. \A t \in Tabs : Steady(t)
  BY DEF Steady, SameView, Loaded, LoadedThen, IsOpen
<1>3. SubmittedKept(d, kind, q)
  BY <1>1, <1>2, SubmittedStays
<1>4. LoadsKept
  BY <1>1 DEF LoadsKept, LoadsInv, StillLoading, SameView, TabsTypeOK
<1>5. OneTab'
  BY <1>1 DEF OneTab, IsOpen, SameView
<1> QED
  BY <1>3, <1>4, <1>5

LEMMA OneTabStep ==
  ASSUME TabsInv, TabsTypeOK', DialogInv', NEW d, NEW kind, NEW q, PageMoves(d, kind, q),
         kind # "save" \/ jobs' = jobs, UNCHANGED <<tree, closed>>, \A l \in loads' : l \in loads,
         \A s \in submitted' : s \in submitted,
         \A s \in submitted : s \in submitted' \/ \A r : ~SaveLeft(d, s.op, r),
         d = 1 => toPage[1].kind \notin {"collections", "saved"},
         NEW t \in Tabs, \A u \in Tabs : u # t => Untouched(u) /\ typed'[u] = typed[u],
         kind \in {"discard", "move"} \/ (IsOpen(t) /\ q = tab[t].request),
         SameView(t), TabAlike(t, d, kind, q), DraftAlike(t),
         timeouts' = 0 => timeouts = 0 /\ AppliedStay(d, kind, q)
  PROVE  TabsInv'
<1>1. TabsTypeOK /\ OneTab /\ ClosedBySaveIsStored
  BY DEF TabsInv
<1>2. ASSUME NEW u \in Tabs PROVE SameView(u) /\ TabAlike(u, d, kind, q) /\ DraftAlike(u)
  <2>1. CASE u = t
    BY <2>1
  <2>2. CASE u # t
    <3>1. Untouched(u) /\ typed'[u] = typed[u]
      BY <2>2
    <3>2. q # tab[u].request \/ kind \in {"discard", "move"}
      BY <1>1, <2>2 DEF OneTab
    <3>3. Unheard(u, d)
      BY DEF Unheard, SavedAt
    <3>4. TabAlike(u, d, kind, q)
      BY <3>1, <3>2, <3>3, UntouchedAlike
    <3> QED
      BY <3>1, <3>4 DEF SameView, DraftAlike, Untouched, Loaded, LoadedThen, IsOpen
  <2> QED
    BY <2>1, <2>2
<1>3. SubmittedKept(d, kind, q) /\ LoadsKept /\ OneTab'
  BY <1>2, SameViews
<1>4. d \in {0, 1}
  BY DEF PageMoves
<1>5. TreeMoves(d, 0)
  BY <1>1, <1>4, TreeStays
<1>6. ClosedBySaveIsStored'
  <2>1. timeouts' = 0 => timeouts = 0
    OBVIOUS
  <2> QED
    BY <1>1, <2>1 DEF ClosedBySaveIsStored
<1> QED
  BY <1>2, <1>3, <1>5, <1>6, TabStep

LEMMA NoTabStep ==
  ASSUME TabsInv, TabsTypeOK', NEW d, NEW kind, NEW q, PageMoves(d, kind, q), kind # "save",
         UNCHANGED <<tab, saving, closing, dialog, typed, tree, loads, closed, timeouts>>,
         \A s \in submitted' : s \in submitted,
         \A s \in submitted : s \in submitted' \/ \A r : ~SaveLeft(d, s.op, r),
         d = 1 => toPage[1].kind \notin {"collections", "saved"},
         kind = "move" \/ (kind = "delete" /\ \A u \in Tabs : tab[u].request # q)
  PROVE  TabsInv'
<1>1. TabsTypeOK /\ OneTab /\ ClosedBySaveIsStored /\ DialogInv /\ d \in {0, 1}
  BY DEF TabsInv, PageMoves
<1>2. ASSUME NEW u \in Tabs PROVE SameView(u) /\ TabAlike(u, d, kind, q) /\ DraftAlike(u)
  <2>1. TabAlike(u, d, kind, q)
    BY UntouchedAlike DEF Untouched, Unheard, SavedAt
  <2> QED
    BY <2>1 DEF SameView, DraftAlike, Loaded, LoadedThen, IsOpen
<1>3. SubmittedKept(d, kind, q) /\ LoadsKept /\ OneTab'
  BY <1>2, SameViews
<1>4. TreeMoves(d, 0)
  BY <1>1, TreeStays
<1>5. ClosedBySaveIsStored' /\ DialogInv'
  BY <1>1 DEF ClosedBySaveIsStored, DialogInv, IsOpen
<1>6. AppliedStay(d, kind, q)
  BY <1>1, AppliedKept
<1> QED
  BY <1>2, <1>3, <1>4, <1>5, <1>6, TabStep

LEMMA StillTypes ==
  ASSUME TabsTypeOK, UNCHANGED <<tree, submitted, loads, ops, jobs, reads, toPage, hostState, closed>>,
         tab' \in [Tabs -> TabType], typed' \in [Tabs -> Texts],
         saving' \in [Tabs -> [stage : {"none", "flushing", "auth", "ready", "posted"}, op : Nat]],
         closing' \in [Tabs -> [stage : Stages, why : Whys, op : Nat]],
         dialog' \in [tab : Tabs \cup {"none"}, why : {"none", "close", "remove"}],
         edits' \in 0 .. MaxEdits, clicks' \in 0 .. MaxClicks,
         failures' \in Nat, timeouts' \in Nat, failures' + timeouts' <= MaxFailures
  PROVE  TabsTypeOK'
BY DEF TabsTypeOK, hostState

LEMMA Counted ==
  ASSUME TabsTypeOK
  PROVE  /\ Edited => edits' \in 0 .. MaxEdits
         /\ Clicked => clicks' \in 0 .. MaxClicks
         /\ failures + timeouts < MaxFailures =>
              failures + 1 \in Nat /\ timeouts + 1 \in Nat
              /\ failures + 1 + timeouts <= MaxFailures /\ failures + (timeouts + 1) <= MaxFailures
         /\ edits \in 0 .. MaxEdits /\ clicks \in 0 .. MaxClicks
         /\ failures \in Nat /\ timeouts \in Nat /\ failures + timeouts <= MaxFailures
<1>1. MaxEdits \in Nat /\ MaxClicks \in Nat /\ MaxFailures \in Nat
  BY TabBounds
<1> QED
  BY <1>1 DEF TabsTypeOK, Edited, Clicked

LEMMA StillStep ==
  ASSUME TabsInv, TabsTypeOK', DialogInv', NEW t \in Tabs,
         \A u \in Tabs : u # t => Untouched(u) /\ typed'[u] = typed[u],
         UNCHANGED <<tree, submitted, loads, ops, jobs, reads, toPage, stored, closed, timeouts>>,
         SameView(t), tab'[t].authUpdate = tab[t].authUpdate, DraftAlike(t), TabAlike(t, 0, "move", NoRequest)
  PROVE  TabsInv'
<1>1. TabsTypeOK
  BY DEF TabsInv
<1>2. PageMoves(0, "move", NoRequest)
  BY <1>1, StillMoves
<1>3. AppliedStay(0, "move", NoRequest)
  <2>1. \A u \in Tabs : tab'[u].request = tab[u].request /\ tab'[u].authUpdate = tab[u].authUpdate
    BY DEF Untouched, SameView
  <2> QED
    BY <1>1, <2>1, AppliedKept
<1> QED
  BY <1>2, <1>3, OneTabStep

\* the user changes what a tab shows
LEMMA ViewStep ==
  ASSUME TabsInv, TabsTypeOK', NEW t \in Tabs, Editing(t),
         UNCHANGED <<saving, closing, dialog, tree, submitted, loads, ops, jobs, reads, toPage, stored, closed, timeouts>>,
         \A u \in Tabs : u # t => tab'[u] = tab[u] /\ typed'[u] = typed[u],
         SameView(t), tab'[t].authUpdate = tab[t].authUpdate, tab'[t].baseText = tab[t].baseText,
         tab'[t].baseAuth = tab[t].baseAuth, tab'[t].basePlace = tab[t].basePlace, DraftAlike(t)
  PROVE  TabsInv'
<1>1. TabsTypeOK /\ DialogInv /\ closing[t].stage = "none"
  BY DEF TabsInv, Editing
<1>2. DialogInv'
  <2>1. \A u \in Tabs : tab'[u].request = tab[u].request /\ tab'[u].authUpdate = tab[u].authUpdate
    BY DEF SameView
  <2> QED
    BY <1>1, <2>1 DEF DialogInv, IsOpen
<1>3. TabAlike(t, 0, "move", NoRequest)
  BY <1>1 DEF TabAlike, NumbersKept, BaseAlike, SaveAlike, CloseAlike, ClosesAsBefore, PlaceAlike,
              AuthAlike, Unheard, Loaded, LoadedThen, IsOpen, SameView
<1> QED
  BY <1>2, <1>3, StillStep DEF Untouched

LEMMA TypeKeeps ==
  ASSUME TabsInv, NEW t \in Tabs, NEW v \in Texts, Type(t, v)
  PROVE  TabsInv'
<1>1. TabsTypeOK
  BY DEF TabsInv
<1>2. /\ tab[t] \in TabType /\ tab'[t] = [tab[t] EXCEPT !.text = v] /\ typed'[t] = v
      /\ \A u \in Tabs : u # t => tab'[u] = tab[u] /\ typed'[u] = typed[u]
      /\ Editing(t)
      /\ UNCHANGED <<saving, closing, dialog, tree, submitted, loads, ops, jobs, reads, toPage, stored, closed, timeouts>>
  BY <1>1 DEF TabsTypeOK, Type, hostState
<1>3. /\ tab'[t].text = v /\ tab'[t].authUpdate = tab[t].authUpdate /\ tab'[t].baseText = tab[t].baseText
      /\ tab'[t].baseAuth = tab[t].baseAuth /\ tab'[t].basePlace = tab[t].basePlace /\ tab'[t] \in TabType
      /\ SameView(t)
  BY <1>2 DEF TabType, SameView
<1>4. TabsTypeOK'
  <2>1. tab' \in [Tabs -> TabType] /\ typed' \in [Tabs -> Texts]
    BY <1>1, <1>3 DEF TabsTypeOK, Type
  <2> QED
    BY <1>1, <1>2, <2>1, Counted, StillTypes DEF TabsTypeOK, Type
<1> QED
  BY <1>2, <1>3, <1>4, ViewStep DEF DraftAlike

LEMMA ChooseKeeps ==
  ASSUME TabsInv, NEW t \in Tabs, NEW c \in Places, Choose(t, c)
  PROVE  TabsInv'
<1>1. TabsTypeOK
  BY DEF TabsInv
<1>2. /\ tab[t] \in TabType /\ tab'[t] = [tab[t] EXCEPT !.place = c] /\ typed' = typed
      /\ \A u \in Tabs : u # t => tab'[u] = tab[u]
      /\ Editing(t)
      /\ UNCHANGED <<saving, closing, dialog, tree, submitted, loads, ops, jobs, reads, toPage, stored, closed, timeouts>>
  BY <1>1 DEF TabsTypeOK, Choose, hostState
<1>3. /\ tab'[t].text = tab[t].text /\ tab'[t].authUpdate = tab[t].authUpdate /\ tab'[t].baseText = tab[t].baseText
      /\ tab'[t].baseAuth = tab[t].baseAuth /\ tab'[t].basePlace = tab[t].basePlace /\ tab'[t] \in TabType
      /\ SameView(t)
  BY <1>2 DEF TabType, SameView
<1>4. TabsTypeOK'
  <2>1. tab' \in [Tabs -> TabType]
    BY <1>1, <1>3 DEF TabsTypeOK, Choose
  <2> QED
    BY <1>1, <1>2, <2>1, Counted, StillTypes DEF TabsTypeOK, Choose
<1>5. DraftAlike(t)
  BY <1>2, <1>3 DEF DraftAlike, SameView, Loaded, LoadedThen, IsOpen
<1> QED
  BY <1>2, <1>3, <1>4, <1>5, ViewStep

(***************************************************************************)
(* A step that changes what a tab waits for, and not what it shows.        *)
(***************************************************************************)
LEMMA StageStep ==
  ASSUME TabsInv, NEW t \in Tabs, IsOpen(t),
         UNCHANGED <<tab, tree, submitted, loads, ops, jobs, reads, toPage, hostState, typed, closed, timeouts>>,
         edits' \in 0 .. MaxEdits, clicks' \in 0 .. MaxClicks, failures' \in Nat, failures' + timeouts <= MaxFailures,
         NEW s \in [stage : {"none", "flushing", "auth", "ready", "posted"}, op : Nat],
         saving' = [saving EXCEPT ![t] = s],
         s = saving[t] \/ (s.stage # "posted" /\ s.op \in {0, saving[t].op, tab[t].authUpdate}),
         NEW c \in [stage : Stages, why : Whys, op : Nat], closing' = [closing EXCEPT ![t] = c],
         c = closing[t] \/ (c.stage \in {"none", "flushing", "saving", "releasing"} /\ c.op \in {0, closing[t].op}
                            /\ (c.stage = "saving" => c.why = "save") /\ (c.stage = "releasing" => c.why # "save")),
         s.stage \in {"none", saving[t].stage} \/ saving[t].stage # "none" \/ c.stage \in {"none", "flushing", "saving"},
         dialog' \in [tab : Tabs \cup {"none"}, why : {"none", "close", "remove"}],
         dialog'.tab \in Tabs => IsOpen(dialog'.tab) /\ closing'[dialog'.tab].stage = "none"
  PROVE  TabsInv'
<1>1. TabsTypeOK /\ DialogInv /\ CloseSettles(t) /\ ClosesSaved(t)
  BY DEF TabsInv, TabInv
<1>2. /\ saving'[t] = s /\ closing'[t] = c
      /\ \A u \in Tabs : u # t => saving'[u] = saving[u] /\ closing'[u] = closing[u]
      /\ saving' \in [Tabs -> [stage : {"none", "flushing", "auth", "ready", "posted"}, op : Nat]]
      /\ closing' \in [Tabs -> [stage : Stages, why : Whys, op : Nat]]
  BY <1>1 DEF TabsTypeOK
<1>3. TabsTypeOK'
  BY <1>1, <1>2, Counted, StillTypes DEF TabsTypeOK
<1>4. DialogInv'
  BY <1>1, <1>2 DEF DialogInv, IsOpen
<1>5. /\ c.stage \in {"discarding", "removing"} => c = closing[t] /\ s.stage \in {"none", saving[t].stage}
      /\ c.stage \in {"releasing", "discarding"} /\ c.why = "save" => c = closing[t] /\ s.stage \in {"none", saving[t].stage}
      /\ c.stage = "saving" => c.why = "save"
      /\ c.stage = "removing" => c.why # "save"
  BY <1>1 DEF CloseSettles, ClosesSaved
<1>6. SameView(t) /\ tab'[t] = tab[t]
  BY DEF SameView
<1>7. TabAlike(t, 0, "move", NoRequest)
  <2>1. NumbersKept(t) /\ BaseAlike(t, 0) /\ PlaceAlike(t, 0) /\ AuthAlike(t, "move", NoRequest)
    BY <1>2 DEF NumbersKept, BaseAlike, PlaceAlike, AuthAlike, Unheard, Loaded, LoadedThen, IsOpen
  <2>2. SaveAlike(t, "move", NoRequest)
    BY <1>2 DEF SaveAlike, Loaded, LoadedThen, IsOpen
  <2>3. CloseAlike(t, "move", NoRequest)
    BY <1>2, <1>5 DEF CloseAlike
  <2>4. ClosesAsBefore(t, "move", NoRequest)
    BY <1>2, <1>5 DEF ClosesAsBefore, ClosesAlike, Loaded, LoadedThen, IsOpen
  <2> QED
    BY <2>1, <2>2, <2>3, <2>4 DEF TabAlike
<1>8. DraftAlike(t)
  BY DEF DraftAlike, Loaded, LoadedThen, IsOpen
<1> QED
  BY <1>2, <1>3, <1>4, <1>6, <1>7, <1>8, StillStep DEF Untouched, hostState

LEMMA StageParts ==
  ASSUME TabsTypeOK, NEW t \in Tabs
  PROVE  /\ saving[t] \in [stage : {"none", "flushing", "auth", "ready", "posted"}, op : Nat]
         /\ closing[t] \in [stage : Stages, why : Whys, op : Nat]
         /\ saving = [saving EXCEPT ![t] = saving[t]] /\ closing = [closing EXCEPT ![t] = closing[t]]
         /\ tab[t].authUpdate \in Nat
BY TabNumbers DEF TabsTypeOK

\* a step of the pressing user that asks nothing new
LEMMA NoDialogFits ==
  /\ NoDialog \in [tab : Tabs \cup {"none"}, why : {"none", "close", "remove"}]
  /\ NoDialog.tab \notin Tabs
BY NamesAreApart DEF NoDialog

LEMMA PressSaveKeeps ==
  ASSUME TabsInv, NEW t \in Tabs, PressSave(t)
  PROVE  TabsInv'
<1>1. TabsTypeOK
  BY DEF TabsInv
<1>2. IsOpen(t) /\ closing[t].stage = "none" /\ dialog = NoDialog /\ dialog' = NoDialog
  BY DEF PressSave, Editing
<1>3. PICK s \in [stage : {"none", "flushing", "auth", "ready", "posted"}, op : Nat] :
        s = [saving[t] EXCEPT !.stage = "flushing"]
  BY <1>1, StageParts
<1>4. s.stage = "flushing" /\ s.op = saving[t].op
  BY <1>1, <1>3, StageParts
<1>5. saving' = [saving EXCEPT ![t] = s] /\ closing' = [closing EXCEPT ![t] = closing[t]]
  BY <1>1, <1>3, StageParts DEF PressSave
<1>6. /\ UNCHANGED <<tab, tree, submitted, loads, ops, jobs, reads, toPage, hostState, typed, closed, timeouts>>
      /\ edits' \in 0 .. MaxEdits /\ clicks' \in 0 .. MaxClicks /\ failures' \in Nat
      /\ failures' + timeouts <= MaxFailures
  BY <1>1, Counted DEF PressSave
<1> QED
  BY <1>1, <1>2, <1>4, <1>5, <1>6, StageParts, NoDialogFits, StageStep

LEMMA BeginParts ==
  ASSUME NEW why \in Whys
  PROVE  \E c \in [stage : Stages, why : Whys, op : Nat] :
           /\ c = [NotClosing EXCEPT !.stage = "flushing", !.why = why]
           /\ c.stage = "flushing" /\ c.why = why /\ c.op = 0
<1>1. PICK n \in [stage : Stages, why : Whys, op : Nat] : n = NotClosing /\ n.op = 0
  <2>1. "none" \in Stages /\ "none" \in Whys
    BY DEF Stages, Whys
  <2>2. NotClosing \in [stage : Stages, why : Whys, op : Nat] /\ NotClosing.op = 0
    BY <2>1 DEF NotClosing
  <2> QED
    BY <2>2
<1>2. "flushing" \in Stages
  BY DEF Stages
<1>3. PICK m \in [stage : Stages, why : Whys, op : Nat] : m = [n EXCEPT !.stage = "flushing", !.why = why]
  BY <1>2
<1>4. m.stage = "flushing" /\ m.why = why /\ m.op = 0
  BY <1>1, <1>3
<1> QED
  BY <1>1, <1>3, <1>4

LEMMA AskCloseKeeps ==
  ASSUME TabsInv, NEW t \in Tabs, AskClose(t)
  PROVE  TabsInv'
<1>1. TabsTypeOK
  BY DEF TabsInv
<1>2. IsOpen(t) /\ closing[t].stage = "none" /\ dialog = NoDialog
  BY DEF AskClose
<1>3. saving' = [saving EXCEPT ![t] = saving[t]]
  BY <1>1, StageParts DEF AskClose
<1>4. /\ UNCHANGED <<tab, tree, submitted, loads, ops, jobs, reads, toPage, hostState, typed, closed, timeouts>>
      /\ edits' \in 0 .. MaxEdits /\ clicks' \in 0 .. MaxClicks /\ failures' \in Nat
      /\ failures' + timeouts <= MaxFailures
  BY <1>1, Counted DEF AskClose
<1>5. CASE Dirty(tab[t])
  <2>1. dialog' = [tab |-> t, why |-> "close"] /\ closing' = closing
    BY <1>5 DEF AskClose
  <2>2. dialog' \in [tab : Tabs \cup {"none"}, why : {"none", "close", "remove"}] /\ dialog'.tab = t
    BY <2>1
  <2>3. closing' = [closing EXCEPT ![t] = closing[t]]
    BY <1>1, <2>1, StageParts
  <2>4. IsOpen(dialog'.tab) /\ closing'[dialog'.tab].stage = "none"
    BY <1>2, <2>1, <2>2
  <2> QED
    BY <1>1, <1>2, <1>3, <1>4, <2>2, <2>3, <2>4, StageParts, StageStep
<1>6. CASE ~Dirty(tab[t])
  <2>1. dialog' = NoDialog /\ BeginClosing(t, "silent")
    BY <1>2, <1>6 DEF AskClose
  <2>2. PICK c \in [stage : Stages, why : Whys, op : Nat] :
          /\ c = [NotClosing EXCEPT !.stage = "flushing", !.why = "silent"]
          /\ c.stage = "flushing" /\ c.why = "silent" /\ c.op = 0
    BY BeginParts DEF Whys
  <2>3. closing' = [closing EXCEPT ![t] = c]
    BY <2>1, <2>2 DEF BeginClosing
  <2> QED
    BY <1>1, <1>2, <1>3, <1>4, <2>1, <2>2, <2>3, StageParts, NoDialogFits, StageStep
<1> QED
  BY <1>5, <1>6

LEMMA AnswerKeeps ==
  ASSUME TabsInv, NEW t \in Tabs, Answer(t)
  PROVE  TabsInv'
<1>1. TabsTypeOK /\ DialogInv
  BY DEF TabsInv
<1>2. IsOpen(t) /\ closing[t].stage = "none" /\ dialog' = NoDialog
  BY <1>1 DEF Answer, DialogInv
<1>3. saving' = [saving EXCEPT ![t] = saving[t]]
  BY <1>1, StageParts DEF Answer
<1>4. /\ UNCHANGED <<tab, tree, submitted, loads, ops, jobs, reads, toPage, hostState, typed, closed, timeouts>>
      /\ edits' \in 0 .. MaxEdits /\ clicks' \in 0 .. MaxClicks /\ failures' \in Nat
      /\ failures' + timeouts <= MaxFailures
  BY <1>1, Counted DEF Answer, bounded
<1>5. CASE closing' = closing
  <2>1. closing' = [closing EXCEPT ![t] = closing[t]]
    BY <1>1, <1>5, StageParts
  <2> QED
    BY <1>1, <1>2, <1>3, <1>4, <2>1, StageParts, NoDialogFits, StageStep
<1>6. ASSUME NEW why \in Whys, BeginClosing(t, why) PROVE TabsInv'
  <2>1. PICK c \in [stage : Stages, why : Whys, op : Nat] :
          /\ c = [NotClosing EXCEPT !.stage = "flushing", !.why = why]
          /\ c.stage = "flushing" /\ c.why = why /\ c.op = 0
    BY BeginParts
  <2>2. closing' = [closing EXCEPT ![t] = c]
    BY <1>6, <2>1 DEF BeginClosing
  <2> QED
    BY <1>1, <1>2, <1>3, <1>4, <2>1, <2>2, StageParts, NoDialogFits, StageStep
<1> QED
  BY <1>5, <1>6 DEF Answer, Whys

LEMMA SaveFlushedKeeps ==
  ASSUME TabsInv, NEW t \in Tabs, SaveFlushed(t)
  PROVE  TabsInv'
<1>1. TabsTypeOK /\ DialogInv
  BY DEF TabsInv
<1>2. IsOpen(t) /\ saving[t].stage = "flushing"
  BY <1>1 DEF SaveFlushed, DialogInv
<1>3. PICK s \in [stage : {"none", "flushing", "auth", "ready", "posted"}, op : Nat] :
        /\ s = IF tab[t].authUpdate = 0 THEN [stage |-> "ready", op |-> 0] ELSE [stage |-> "auth", op |-> tab[t].authUpdate]
        /\ s.stage \in {"ready", "auth"} /\ s.op \in {0, tab[t].authUpdate}
  <2>1. [stage |-> "ready", op |-> 0] \in [stage : {"none", "flushing", "auth", "ready", "posted"}, op : Nat]
    OBVIOUS
  <2>2. [stage |-> "auth", op |-> tab[t].authUpdate] \in [stage : {"none", "flushing", "auth", "ready", "posted"}, op : Nat]
    BY <1>1, StageParts
  <2>3. CASE tab[t].authUpdate = 0
    BY <2>1, <2>3
  <2>4. CASE tab[t].authUpdate # 0
    BY <2>2, <2>4
  <2> QED
    BY <2>3, <2>4
<1>4. saving' = [saving EXCEPT ![t] = s] /\ closing' = [closing EXCEPT ![t] = closing[t]]
  BY <1>1, <1>3, StageParts DEF SaveFlushed
<1>5. /\ UNCHANGED <<tab, tree, submitted, loads, ops, jobs, reads, toPage, hostState, typed, closed, timeouts>>
      /\ dialog' = dialog
      /\ edits' \in 0 .. MaxEdits /\ clicks' \in 0 .. MaxClicks /\ failures' \in Nat
      /\ failures' + timeouts <= MaxFailures
  BY <1>1, Counted DEF SaveFlushed, bounded
<1>6. /\ dialog' \in [tab : Tabs \cup {"none"}, why : {"none", "close", "remove"}]
      /\ dialog'.tab \in Tabs => IsOpen(dialog'.tab) /\ closing'[dialog'.tab].stage = "none"
  BY <1>1, <1>4, <1>5, StageParts DEF TabsTypeOK, DialogInv
<1> QED
  BY <1>1, <1>2, <1>3, <1>4, <1>5, <1>6, StageParts, StageStep

\* a save or a close that cannot go on leaves the tab to be edited again
LEMMA StopStep ==
  ASSUME TabsInv, NEW t \in Tabs, IsOpen(t),
         UNCHANGED <<tab, dialog, tree, submitted, loads, ops, jobs, reads, toPage, hostState, typed, closed, edits, clicks, timeouts>>,
         saving' = [saving EXCEPT ![t] = saving[t]] \/ saving' = [saving EXCEPT ![t] = NotSaving],
         closing' = [closing EXCEPT ![t] = closing[t]] \/ closing' = [closing EXCEPT ![t] = Reopened],
         failures' = failures \/ Fails
  PROVE  TabsInv'
<1>1. TabsTypeOK /\ DialogInv
  BY DEF TabsInv
<1>2. PICK s \in [stage : {"none", "flushing", "auth", "ready", "posted"}, op : Nat] :
        /\ saving' = [saving EXCEPT ![t] = s]
        /\ s = saving[t] \/ (s.stage = "none" /\ s.op = 0)
  BY <1>1, StageParts DEF NotSaving
<1>3. PICK c \in [stage : Stages, why : Whys, op : Nat] :
        /\ closing' = [closing EXCEPT ![t] = c]
        /\ c = closing[t] \/ (c.stage = "none" /\ c.op = 0)
  <2>1. Reopened \in [stage : Stages, why : Whys, op : Nat] /\ Reopened.stage = "none" /\ Reopened.op = 0
    BY DEF Reopened, NotClosing, Stages, Whys
  <2> QED
    BY <1>1, <2>1, StageParts
<1>4. /\ edits' \in 0 .. MaxEdits /\ clicks' \in 0 .. MaxClicks /\ failures' \in Nat
      /\ failures' + timeouts <= MaxFailures
  BY <1>1, Counted DEF Fails
<1>5. /\ dialog' \in [tab : Tabs \cup {"none"}, why : {"none", "close", "remove"}]
      /\ dialog'.tab \in Tabs => IsOpen(dialog'.tab) /\ closing'[dialog'.tab].stage = "none"
  BY <1>1, <1>3 DEF TabsTypeOK, DialogInv
<1> QED
  BY <1>1, <1>2, <1>3, <1>4, <1>5, StageStep

LEMMA StopsKeep ==
  ASSUME TabsInv, NEW t \in Tabs, SaveFlushFails(t) \/ SaveRefused(t) \/ CloseFlushFails(t)
  PROVE  TabsInv'
<1>1. TabsTypeOK /\ DialogInv
  BY DEF TabsInv
<1>2. IsOpen(t)
  BY <1>1 DEF DialogInv, SaveFlushFails, SaveRefused, CloseFlushFails
<1>3. ClosingAfterSave(t, FALSE) \in {closing[t], Reopened}
  BY DEF ClosingAfterSave
<1>4. CASE SaveFlushFails(t)
  BY <1>1, <1>2, <1>3, <1>4, StageParts, StopStep DEF SaveFlushFails, SaveEnds
<1>5. CASE SaveRefused(t)
  BY <1>1, <1>2, <1>3, <1>5, StageParts, StopStep DEF SaveRefused, SaveEnds, bounded
<1>6. CASE CloseFlushFails(t)
  BY <1>1, <1>2, <1>6, StageParts, StopStep DEF CloseFlushFails
<1> QED
  BY <1>4, <1>5, <1>6

LEMMA CloseFlushedKeeps ==
  ASSUME TabsInv, NEW t \in Tabs, CloseFlushed(t)
  PROVE  TabsInv'
<1>1. TabsTypeOK /\ DialogInv
  BY DEF TabsInv
<1>2. IsOpen(t) /\ closing[t].stage = "flushing"
  BY <1>1 DEF CloseFlushed, DialogInv
<1>3. /\ UNCHANGED <<tab, tree, submitted, loads, ops, jobs, reads, toPage, hostState, typed, closed, timeouts>>
      /\ dialog' = dialog
      /\ edits' \in 0 .. MaxEdits /\ clicks' \in 0 .. MaxClicks /\ failures' \in Nat
      /\ failures' + timeouts <= MaxFailures
  BY <1>1, Counted DEF CloseFlushed, bounded
<1>4. PICK stage \in {"saving", "releasing"} :
        /\ stage = "saving" <=> closing[t].why = "save"
        /\ closing' = [closing EXCEPT ![t].stage = stage]
  BY DEF CloseFlushed
<1>5. PICK c \in [stage : Stages, why : Whys, op : Nat] : c = [closing[t] EXCEPT !.stage = stage]
  BY <1>1, StageParts DEF Stages
<1>6. c.stage = stage /\ c.why = closing[t].why /\ c.op = closing[t].op /\ closing' = [closing EXCEPT ![t] = c]
  BY <1>1, <1>4, <1>5, StageParts
<1>7. PICK s \in [stage : {"none", "flushing", "auth", "ready", "posted"}, op : Nat] :
        /\ saving' = [saving EXCEPT ![t] = s]
        /\ s = saving[t] \/ (s.stage = "flushing" /\ s.op = saving[t].op /\ c.stage = "saving")
  <2>1. CASE closing[t].why # "save"
    BY <1>1, <2>1, StageParts DEF CloseFlushed
  <2>2. CASE closing[t].why = "save"
    <3>1. saving' = [saving EXCEPT ![t].stage = IF saving[t].stage = "none" THEN "flushing" ELSE saving[t].stage]
      BY <1>1, <2>2 DEF CloseFlushed, TabsTypeOK
    <3>2. CASE saving[t].stage = "none"
      <4>1. PICK s \in [stage : {"none", "flushing", "auth", "ready", "posted"}, op : Nat] :
              s = [saving[t] EXCEPT !.stage = "flushing"]
        BY <1>1, StageParts
      <4>2. s.stage = "flushing" /\ s.op = saving[t].op
        BY <1>1, <4>1, StageParts
      <4> QED
        BY <1>4, <1>6, <2>2, <3>1, <3>2, <4>1, <4>2
    <3>3. CASE saving[t].stage # "none"
      <4>1. [saving[t] EXCEPT !.stage = saving[t].stage] = saving[t]
        BY <1>1, StageParts
      <4> QED
        BY <1>1, <3>1, <3>3, <4>1, StageParts
    <3> QED
      BY <3>2, <3>3
  <2> QED
    BY <2>1, <2>2
<1>8. /\ dialog' \in [tab : Tabs \cup {"none"}, why : {"none", "close", "remove"}]
      /\ dialog'.tab \in Tabs => IsOpen(dialog'.tab) /\ closing'[dialog'.tab].stage = "none"
  <2>1. dialog.tab \in Tabs => dialog.tab # t
    BY <1>1, <1>2 DEF DialogInv
  <2> QED
    BY <1>1, <1>3, <1>6, <2>1 DEF TabsTypeOK, DialogInv
<1>9. /\ c.stage \in {"none", "flushing", "saving", "releasing"} /\ c.op \in {0, closing[t].op}
      /\ (c.stage = "saving" => c.why = "save") /\ (c.stage = "releasing" => c.why # "save")
  BY <1>4, <1>6
<1>10. s = saving[t] \/ (s.stage # "posted" /\ s.op \in {0, saving[t].op, tab[t].authUpdate})
  BY <1>7
<1>11. s.stage \in {"none", saving[t].stage} \/ saving[t].stage # "none" \/ c.stage \in {"none", "flushing", "saving"}
  BY <1>7
<1> QED
  BY <1>2, <1>3, <1>6, <1>7, <1>8, <1>9, <1>10, <1>11, StageStep

LEMMA MoveTypes ==
  ASSUME TabsTypeOK, NEW d, NEW kind, NEW q, PageMoves(d, kind, q), staged' = staged,
         tab' \in [Tabs -> TabType], typed' \in [Tabs -> Texts], tree' \in [Requests -> Places],
         saving' \in [Tabs -> [stage : {"none", "flushing", "auth", "ready", "posted"}, op : Nat]],
         closing' \in [Tabs -> [stage : Stages, why : Whys, op : Nat]],
         dialog' \in [tab : Tabs \cup {"none"}, why : {"none", "close", "remove"}],
         submitted' \subseteq SnapshotType, loads' \subseteq [op : Nat, tab : Tabs],
         closed' \in [why : Whys, text : BOOLEAN, auth : BOOLEAN],
         edits' \in 0 .. MaxEdits, clicks' \in 0 .. MaxClicks,
         failures' \in Nat, timeouts' \in Nat, failures' + timeouts' <= MaxFailures
  PROVE  TabsTypeOK'
<1>1. ops' \in Nat
  BY SeqDomains DEF PageMoves
<1> QED
  BY <1>1 DEF TabsTypeOK, PageMoves

LEMMA JobTyped ==
  ASSUME TabsTypeOK, NEW kind \in {"save", "configure", "discard", "delete", "move"}, NEW r \in Requests, NEW x,
         x.place \in Places, x.text \in Texts, x.auth \in Auths
  PROVE  Job(kind, r, x) \in JobType
<1>1. ops + 1 \in Nat
  BY SeqDomains
<1> QED
  BY <1>1 DEF Job, JobType

LEMMA TabParts ==
  ASSUME TabsTypeOK, NEW t \in Tabs
  PROVE  /\ tab[t] \in TabType /\ tab[t].text \in Texts /\ tab[t].auth \in Auths /\ tab[t].place \in Places
         /\ tab[t].baseText \in Texts /\ tab[t].baseAuth \in Auths /\ tab[t].basePlace \in Places
         /\ tab[t].request \in Requests \cup {NoRequest}
         /\ IsOpen(t) => tab[t].request \in Requests
<1>1. tab[t] \in TabType
  BY DEF TabsTypeOK
<1> QED
  BY <1>1 DEF TabType, IsOpen

LEMMA ClosedTabParts ==
  /\ ClosedTab \in TabType /\ ClosedTab.text = 0 /\ ClosedTab.auth = 0 /\ ClosedTab.place = Nowhere
  /\ ClosedTab.request = NoRequest /\ ClosedTab.authUpdate = 0 /\ ClosedTab.loadFailed = FALSE
BY ValuesAreNumbers DEF ClosedTab, TabType, Places

LEMMA ApplyAuthKeeps ==
  ASSUME TabsInv, NEW t \in Tabs, NEW a \in Auths, ApplyAuth(t, a)
  PROVE  TabsInv'
<1>1. TabsTypeOK /\ DialogInv
  BY DEF TabsInv
<1>2. PICK q : q = tab[t].request
  OBVIOUS
<1>3. /\ IsOpen(t) /\ closing[t].stage = "none" /\ q \in Requests
      /\ tab[t] \in TabType /\ ops \in Nat
  BY <1>1, <1>2, TabParts, SeqDomains DEF ApplyAuth, Editing
<1>4. PICK x \in TabType : x = [tab[t] EXCEPT !.auth = a]
  BY <1>3 DEF TabType
<1>5. x.place \in Places /\ x.text \in Texts /\ x.auth \in Auths
  BY <1>4 DEF TabType
<1>6. Job("configure", q, x) \in JobType
  BY <1>1, <1>3, <1>5, JobTyped
<1>7. Post("configure", q, x)
  BY <1>2, <1>4 DEF ApplyAuth
<1>8. UNCHANGED <<saving, closing, dialog, tree, submitted, loads, reads, toPage, hostState, stored, typed, closed, edits, failures, timeouts>>
  BY DEF ApplyAuth, hostState
<1>9. PageMoves(0, "configure", q)
  BY <1>1, <1>6, <1>7, <1>8, PostMoves
<1>10. ops' = ops + 1
  BY <1>7 DEF Post
<1>11. /\ tab'[t] = [tab[t] EXCEPT !.authUpdate = ops + 1] /\ \A u \in Tabs : u # t => tab'[u] = tab[u]
       /\ tab' \in [Tabs -> TabType]
  <2>1. [tab[t] EXCEPT !.authUpdate = ops + 1] \in TabType
    BY <1>3 DEF TabType
  <2> QED
    BY <1>1, <2>1 DEF ApplyAuth, TabsTypeOK
<1>12. /\ tab'[t].authUpdate = ops + 1 /\ SameView(t) /\ tab'[t].text = tab[t].text
       /\ tab'[t].auth = tab[t].auth /\ tab'[t].baseText = tab[t].baseText
       /\ tab'[t].baseAuth = tab[t].baseAuth /\ tab'[t].basePlace = tab[t].basePlace
  BY <1>3, <1>11 DEF TabType, SameView
<1>13. TabsTypeOK'
  BY <1>1, <1>8, <1>9, <1>11, Counted, MoveTypes DEF TabsTypeOK, hostState, ApplyAuth
<1>14. DialogInv'
  <2>1. \A u \in Tabs : IsOpen(u) => tab'[u].request = tab[u].request
    BY <1>11, <1>12 DEF SameView
  <2>2. \A u \in Tabs : tab'[u].request = NoRequest => u # t /\ tab'[u] = tab[u]
    BY <1>3, <1>11, <1>12 DEF IsOpen, SameView
  <2> QED
    BY <1>1, <1>8, <2>1, <2>2 DEF DialogInv, IsOpen
<1>15. TabAlike(t, 0, "configure", q)
  BY <1>2, <1>3, <1>8, <1>10, <1>12
     DEF TabAlike, NumbersKept, BaseAlike, SaveAlike, CloseAlike, ClosesAsBefore, PlaceAlike,
         AuthAlike, Fresh, Unheard, Loaded, LoadedThen, IsOpen, SameView
<1>16. AppliedStay(0, "configure", q)
  <2>1. ops + 1 <= ops + 1
    BY <1>3
  <2>2. AppliedThen(ops + 1, q)
    BY <1>2, <1>12, <2>1 DEF AppliedThen, SameView
  <2> QED
    BY <1>1, <1>11, <1>12, <2>2, AppliedKept DEF SameView
<1>17. DraftAlike(t)
  BY <1>8, <1>12 DEF DraftAlike, SameView, Loaded, LoadedThen, IsOpen
<1> QED
  BY <1>2, <1>3, <1>8, <1>9, <1>11, <1>12, <1>13, <1>14, <1>15, <1>16, <1>17, OneTabStep DEF Untouched

LEMMA MoveKeeps ==
  ASSUME TabsInv, NEW r \in Requests, NEW c \in Collections, Move(r, c)
  PROVE  TabsInv'
<1>1. TabsTypeOK
  BY DEF TabsInv
<1>2. PICK x \in TabType : x = [ClosedTab EXCEPT !.place = c]
  BY ClosedTabParts DEF TabType, Places
<1>3. x.place = c /\ x.place \in Places /\ x.place # Nowhere /\ x.text \in Texts /\ x.auth \in Auths
  BY <1>2, ClosedTabParts, NamesAreApart DEF TabType, Places
<1>4. Job("move", r, x) \in JobType
  BY <1>1, <1>3, JobTyped
<1>5. /\ Post("move", r, x)
      /\ UNCHANGED <<tab, saving, closing, dialog, tree, submitted, loads, reads, toPage, hostState, stored, typed, closed, edits, failures, timeouts>>
  BY <1>2 DEF Move, hostState
<1>6. PageMoves(0, "move", r)
  BY <1>1, <1>3, <1>4, <1>5, PostMoves
<1>7. TabsTypeOK'
  BY <1>1, <1>5, <1>6, Counted, MoveTypes DEF TabsTypeOK, hostState, Move
<1> QED
  BY <1>5, <1>6, <1>7, NoTabStep

LEMMA AskRemoveKeeps ==
  ASSUME TabsInv, NEW r \in Requests, AskRemove(r)
  PROVE  TabsInv'
<1>1. TabsTypeOK
  BY DEF TabsInv
<1>2. CASE Showing(r) = {}
  <2>1. /\ Post("delete", r, ClosedTab)
        /\ UNCHANGED <<tab, saving, closing, dialog, tree, submitted, loads, reads, toPage, hostState, stored, typed, closed, edits, failures, timeouts>>
    BY <1>2 DEF AskRemove, hostState
  <2>2. Job("delete", r, ClosedTab) \in JobType
    BY <1>1, ClosedTabParts, ValuesAreNumbers, JobTyped DEF Places
  <2>3. PageMoves(0, "delete", r)
    BY <1>1, <2>1, <2>2, PostMoves
  <2>4. TabsTypeOK'
    BY <1>1, <2>1, <2>3, Counted, MoveTypes DEF TabsTypeOK, hostState, AskRemove
  <2>5. \A u \in Tabs : tab[u].request # r
    BY <1>2 DEF Showing
  <2> QED
    BY <2>1, <2>3, <2>4, <2>5, NoTabStep
<1>3. CASE Showing(r) # {}
  <2>1. PICK t \in Showing(r) :
          IF Dirty(tab[t]) THEN dialog' = [tab |-> t, why |-> "remove"] /\ UNCHANGED closing
          ELSE BeginClosing(t, "remove") /\ UNCHANGED dialog
    BY <1>3 DEF AskRemove
  <2>2. t \in Tabs /\ IsOpen(t) /\ closing[t].stage = "none" /\ dialog = NoDialog
    BY NamesAreApart DEF AskRemove, Showing, IsOpen
  <2>3. /\ UNCHANGED <<tab, saving, tree, submitted, loads, ops, jobs, reads, toPage, hostState, typed, closed, timeouts>>
        /\ edits' \in 0 .. MaxEdits /\ clicks' \in 0 .. MaxClicks /\ failures' \in Nat
        /\ failures' + timeouts <= MaxFailures
    BY <1>1, <1>3, Counted DEF AskRemove
  <2>4. saving' = [saving EXCEPT ![t] = saving[t]]
    BY <1>1, <2>2, <2>3, StageParts
  <2>5. CASE Dirty(tab[t])
    <3>1. dialog' = [tab |-> t, why |-> "remove"] /\ closing' = closing
      BY <2>1, <2>5
    <3>2. dialog' \in [tab : Tabs \cup {"none"}, why : {"none", "close", "remove"}] /\ dialog'.tab = t
      BY <2>2, <3>1
    <3>3. closing' = [closing EXCEPT ![t] = closing[t]]
      BY <1>1, <2>2, <3>1, StageParts
    <3>4. IsOpen(dialog'.tab) /\ closing'[dialog'.tab].stage = "none"
      BY <2>2, <3>1, <3>2
    <3> QED
      BY <1>1, <2>2, <2>3, <2>4, <3>2, <3>3, <3>4, StageParts, StageStep
  <2>6. CASE ~Dirty(tab[t])
    <3>1. dialog' = NoDialog /\ BeginClosing(t, "remove")
      BY <2>1, <2>2, <2>6
    <3>2. PICK c \in [stage : Stages, why : Whys, op : Nat] :
            /\ c = [NotClosing EXCEPT !.stage = "flushing", !.why = "remove"]
            /\ c.stage = "flushing" /\ c.why = "remove" /\ c.op = 0
      BY BeginParts DEF Whys
    <3>3. closing' = [closing EXCEPT ![t] = c]
      BY <3>1, <3>2 DEF BeginClosing
    <3> QED
      BY <1>1, <2>2, <2>3, <2>4, <3>1, <3>2, <3>3, StageParts, NoDialogFits, StageStep
  <2> QED
    BY <2>5, <2>6
<1> QED
  BY <1>2, <1>3

LEMMA ReleaseKeeps ==
  ASSUME TabsInv, NEW t \in Tabs, Release(t)
  PROVE  TabsInv'
<1>1. TabsTypeOK /\ DialogInv
  BY DEF TabsInv
<1>2. PICK q : q = tab[t].request
  OBVIOUS
<1>3. /\ IsOpen(t) /\ closing[t].stage = "releasing" /\ saving[t].stage = "none" /\ tab[t].authUpdate = 0
      /\ q \in Requests /\ ops \in Nat
  BY <1>1, <1>2, TabParts, SeqDomains DEF Release, DialogInv, NotSaving
<1>4. Job("discard", q, tab[t]) \in JobType /\ Post("discard", q, tab[t])
  BY <1>1, <1>2, <1>3, JobTyped, TabParts DEF Release
<1>5. UNCHANGED <<tab, saving, dialog, tree, submitted, loads, reads, toPage, hostState, stored, typed, closed, bounded, edits, clicks, failures, timeouts>>
  BY DEF Release, hostState, bounded
<1>6. PageMoves(0, "discard", q)
  BY <1>1, <1>4, <1>5, PostMoves
<1>7. ops' = ops + 1
  BY <1>4 DEF Post
<1>8. PICK c \in [stage : Stages, why : Whys, op : Nat] :
        /\ closing' = [closing EXCEPT ![t] = c]
        /\ c.stage = "discarding" /\ c.why = closing[t].why /\ c.op = ops + 1
  <2>1. PICK b \in [stage : Stages, why : Whys, op : Nat] : b = [closing[t] EXCEPT !.stage = "discarding"]
    BY <1>1, StageParts DEF Stages
  <2>2. b.stage = "discarding" /\ b.why = closing[t].why
    BY <1>1, <2>1, StageParts
  <2>3. PICK c \in [stage : Stages, why : Whys, op : Nat] : c = [b EXCEPT !.op = ops + 1]
    <3>1. ops + 1 \in Nat
      BY <1>3
    <3>2. [b EXCEPT !.op = ops + 1] \in [stage : Stages, why : Whys, op : Nat]
      BY <3>1
    <3> QED
      BY <3>2
  <2>4. c.stage = "discarding" /\ c.why = closing[t].why /\ c.op = ops + 1
    BY <2>2, <2>3
  <2>5. closing' = [closing EXCEPT ![t] = c]
    BY <1>1, <2>1, <2>3 DEF Release, TabsTypeOK
  <2> QED
    BY <2>4, <2>5
<1>9. /\ closing'[t] = c /\ \A u \in Tabs : u # t => closing'[u] = closing[u]
      /\ closing' \in [Tabs -> [stage : Stages, why : Whys, op : Nat]]
  BY <1>1, <1>8 DEF TabsTypeOK
<1>10. TabsTypeOK'
  BY <1>1, <1>5, <1>6, <1>9, Counted, MoveTypes DEF TabsTypeOK, hostState
<1>11. DialogInv'
  BY <1>1, <1>3, <1>5, <1>9 DEF DialogInv, IsOpen
<1>12. TabAlike(t, 0, "discard", q)
  <2>1. NumbersKept(t) /\ BaseAlike(t, 0) /\ PlaceAlike(t, 0) /\ AuthAlike(t, "discard", q)
    BY <1>3, <1>5, <1>7, <1>8, <1>9 DEF NumbersKept, BaseAlike, PlaceAlike, AuthAlike, Unheard, Loaded, LoadedThen, IsOpen
  <2>2. SaveAlike(t, "discard", q) /\ CloseAlike(t, "discard", q)
    BY <1>3, <1>5, <1>7, <1>8, <1>9 DEF SaveAlike, CloseAlike, Fresh
  <2>3. ClosesAsBefore(t, "discard", q)
    BY <1>3, <1>5, <1>8, <1>9 DEF ClosesAsBefore, ClosesAlike, Loaded, LoadedThen, IsOpen
  <2> QED
    BY <1>5, <2>1, <2>2, <2>3 DEF TabAlike
<1>13. AppliedStay(0, "discard", q)
  BY <1>1, <1>5, AppliedKept
<1>14. DraftAlike(t) /\ SameView(t)
  BY <1>5 DEF DraftAlike, SameView, Loaded, LoadedThen, IsOpen
<1> QED
  BY <1>2, <1>3, <1>5, <1>6, <1>9, <1>10, <1>11, <1>12, <1>13, <1>14, OneTabStep DEF Untouched

(***************************************************************************)
(* A promise settles and leaves its tab open.                              *)
(***************************************************************************)
SaveSettled(t, op, ok) == AwaitsSave(t, op) /\ SaveEnds(t, ok) /\ tab' = tab
AuthEnds(t, op, ok) == AwaitsAuth(t, op) /\ AuthSettles(t, op, ok)
CloseRefused(t, op, ok) ==
  AwaitsClose(t, op) /\ ~ok /\ closing' = [closing EXCEPT ![t] = Reopened] /\ UNCHANGED <<tab, saving>>
StaysOpen(t, op, ok) == SaveSettled(t, op, ok) \/ AuthEnds(t, op, ok) \/ CloseRefused(t, op, ok)

LEMMA NotSavingParts ==
  /\ NotSaving \in [stage : {"none", "flushing", "auth", "ready", "posted"}, op : Nat]
  /\ NotSaving.stage = "none" /\ NotSaving.op = 0
BY DEF NotSaving

LEMMA ReopenedParts ==
  /\ Reopened \in [stage : Stages, why : Whys, op : Nat]
  /\ Reopened.stage = "none" /\ Reopened.why = "none" /\ Reopened.op = 0
<1>1. "none" \in Stages /\ "none" \in Whys
  BY DEF Stages, Whys
<1> QED
  BY <1>1 DEF Reopened, NotClosing

LEMMA SettleParts ==
  ASSUME TabsTypeOK, NEW t \in Tabs, NEW op, NEW ok, StaysOpen(t, op, ok)
  PROVE  /\ \A u \in Tabs : u # t => Untouched(u)
         /\ tab' \in [Tabs -> TabType]
         /\ saving' \in [Tabs -> [stage : {"none", "flushing", "auth", "ready", "posted"}, op : Nat]]
         /\ closing' \in [Tabs -> [stage : Stages, why : Whys, op : Nat]]
         /\ SameView(t) /\ tab'[t].text = tab[t].text /\ tab'[t].auth = tab[t].auth
         /\ tab'[t].baseText = tab[t].baseText /\ tab'[t].baseAuth = tab[t].baseAuth
         /\ tab'[t].basePlace = tab[t].basePlace
         /\ tab'[t].authUpdate = tab[t].authUpdate \/ (tab'[t].authUpdate = 0 /\ tab[t].authUpdate = op)
         /\ \/ saving'[t] = saving[t]
            \/ saving'[t].stage = "none" /\ saving'[t].op = 0
            \/ saving'[t].stage = "ready" /\ saving'[t].op = 0 /\ saving[t].stage = "auth"
         /\ \/ closing'[t] = closing[t]
            \/ closing'[t].stage = "none" /\ closing'[t].op = 0
            \/ /\ ok /\ SaveSettled(t, op, ok) /\ closing[t].stage = "saving" /\ closing'[t].stage = "releasing"
               /\ closing'[t].why = closing[t].why /\ closing'[t].op = closing[t].op /\ ~Dirty(tab[t])
<1> DEFINE Kept == SameView(t) /\ tab'[t].text = tab[t].text /\ tab'[t].auth = tab[t].auth
                   /\ tab'[t].baseText = tab[t].baseText /\ tab'[t].baseAuth = tab[t].baseAuth
                   /\ tab'[t].basePlace = tab[t].basePlace
<1>1. tab[t] \in TabType /\ tab[t].authUpdate \in Nat
  BY TabParts, TabNumbers
<1>2. ASSUME saving' = [saving EXCEPT ![t] = NotSaving]
      PROVE  /\ saving'[t].stage = "none" /\ saving'[t].op = 0 /\ \A u \in Tabs : u # t => saving'[u] = saving[u]
             /\ saving' \in [Tabs -> [stage : {"none", "flushing", "auth", "ready", "posted"}, op : Nat]]
  BY <1>2, NotSavingParts DEF TabsTypeOK
<1>3. ASSUME closing' = [closing EXCEPT ![t] = Reopened]
      PROVE  /\ closing'[t].stage = "none" /\ closing'[t].op = 0 /\ \A u \in Tabs : u # t => closing'[u] = closing[u]
             /\ closing' \in [Tabs -> [stage : Stages, why : Whys, op : Nat]]
  BY <1>3, ReopenedParts DEF TabsTypeOK
<1>4. CASE SaveSettled(t, op, ok)
  <2>1. saving' = [saving EXCEPT ![t] = NotSaving] /\ closing' = [closing EXCEPT ![t] = ClosingAfterSave(t, ok)] /\ tab' = tab
    BY <1>4 DEF SaveSettled, SaveEnds
  <2>2. CASE ClosingAfterSave(t, ok) = closing[t]
    <3>1. closing' = closing
      BY <2>1, <2>2, StageParts
    <3> QED
      BY <1>2, <2>1, <3>1 DEF Untouched, SameView, TabsTypeOK
  <2>3. CASE ClosingAfterSave(t, ok) = Reopened
    BY <1>2, <1>3, <2>1, <2>3 DEF Untouched, SameView, TabsTypeOK
  <2>4. CASE /\ closing[t].stage = "saving" /\ ok /\ ~Dirty(tab[t])
             /\ ClosingAfterSave(t, ok) = [closing[t] EXCEPT !.stage = "releasing"]
    <3>1. PICK c \in [stage : Stages, why : Whys, op : Nat] : c = [closing[t] EXCEPT !.stage = "releasing"]
      BY StageParts DEF Stages
    <3>2. c.stage = "releasing" /\ c.why = closing[t].why /\ c.op = closing[t].op
      BY <3>1, StageParts
    <3>3. /\ closing'[t] = c /\ \A u \in Tabs : u # t => closing'[u] = closing[u]
          /\ closing' \in [Tabs -> [stage : Stages, why : Whys, op : Nat]]
      BY <2>1, <2>4, <3>1 DEF TabsTypeOK
    <3> QED
      BY <1>2, <1>4, <2>1, <2>4, <3>2, <3>3 DEF Untouched, SameView, TabsTypeOK
  <2> QED
    BY <2>2, <2>3, <2>4 DEF ClosingAfterSave
<1>5. CASE AuthEnds(t, op, ok)
  <2>1. tab' = [tab EXCEPT ![t].authUpdate = IF tab[t].authUpdate = op THEN 0 ELSE tab[t].authUpdate]
    BY <1>5 DEF AuthEnds, AuthSettles, TabsTypeOK
  <2>2. PICK n \in Nat : /\ n = IF tab[t].authUpdate = op THEN 0 ELSE tab[t].authUpdate
                         /\ n = tab[t].authUpdate \/ (n = 0 /\ tab[t].authUpdate = op)
    BY <1>1
  <2>3. PICK x \in TabType : x = [tab[t] EXCEPT !.authUpdate = n]
    BY <1>1 DEF TabType
  <2>4. tab'[t] = x /\ tab' \in [Tabs -> TabType] /\ \A u \in Tabs : u # t => tab'[u] = tab[u]
    BY <2>1, <2>2, <2>3 DEF TabsTypeOK
  <2>5. Kept /\ (tab'[t].authUpdate = tab[t].authUpdate \/ (tab'[t].authUpdate = 0 /\ tab[t].authUpdate = op))
    BY <1>1, <2>2, <2>3, <2>4 DEF TabType, SameView
  <2>6. CASE UNCHANGED <<saving, closing>>
    BY <2>4, <2>5, <2>6 DEF Untouched, TabsTypeOK
  <2>7. CASE SaveEnds(t, FALSE)
    <3>1. saving' = [saving EXCEPT ![t] = NotSaving]
      BY <2>7 DEF SaveEnds
    <3>2. closing' = closing \/ closing' = [closing EXCEPT ![t] = Reopened]
      BY <2>7, StageParts DEF SaveEnds, ClosingAfterSave
    <3>3. CASE closing' = closing
      BY <1>2, <2>4, <2>5, <3>1, <3>3 DEF Untouched, TabsTypeOK
    <3>4. CASE closing' = [closing EXCEPT ![t] = Reopened]
      BY <1>2, <1>3, <2>4, <2>5, <3>1, <3>4 DEF Untouched, TabsTypeOK
    <3> QED
      BY <3>2, <3>3, <3>4
  <2>8. CASE /\ saving[t].stage = "auth" /\ saving' = [saving EXCEPT ![t] = [stage |-> "ready", op |-> 0]]
             /\ closing' = closing
    <3>1. PICK s \in [stage : {"none", "flushing", "auth", "ready", "posted"}, op : Nat] :
            s = [stage |-> "ready", op |-> 0] /\ s.stage = "ready" /\ s.op = 0
      <4>1. [stage |-> "ready", op |-> 0] \in [stage : {"none", "flushing", "auth", "ready", "posted"}, op : Nat]
        OBVIOUS
      <4> QED
        BY <4>1
    <3>2. /\ saving'[t] = s /\ \A u \in Tabs : u # t => saving'[u] = saving[u]
          /\ saving' \in [Tabs -> [stage : {"none", "flushing", "auth", "ready", "posted"}, op : Nat]]
      BY <2>8, <3>1 DEF TabsTypeOK
    <3> QED
      BY <2>4, <2>5, <2>8, <3>1, <3>2 DEF Untouched, TabsTypeOK
  <2> QED
    BY <1>5, <2>6, <2>7, <2>8 DEF AuthEnds, AuthSettles
<1>6. CASE CloseRefused(t, op, ok)
  BY <1>3, <1>6 DEF CloseRefused, Untouched, SameView, TabsTypeOK
<1> QED
  BY <1>4, <1>5, <1>6 DEF StaysOpen

LEMMA SettleStep ==
  ASSUME TabsInv, NEW t \in Tabs, NEW op \in Nat \ {0}, NEW ok \in BOOLEAN, StaysOpen(t, op, ok), NEW d \in {0, 1},
         PageMoves(d, "move", NoRequest), d = 1 => toPage[1].kind = "reply" /\ toPage[1].op = op /\ toPage[1].ok = ok,
         d = 1 => 1 \in DOMAIN toPage, ok => d = 1,
         UNCHANGED <<reads, tree, dialog, loads, closed, typed, staged, edits, clicks, failures>>,
         timeouts' \in Nat, failures + timeouts' <= MaxFailures, timeouts' = 0 => timeouts = 0 /\ d = 1,
         \A s \in submitted' : s \in submitted,
         \A s \in submitted : s \in submitted' \/ \A r : ~SaveLeft(d, s.op, r)
  PROVE  TabsInv'
<1>1. /\ TabsTypeOK /\ DialogInv /\ SaveSettles(t) /\ CloseSettles(t) /\ ClosesSaved(t)
      /\ timeouts = 0 => AuthSettled(t)
  BY DEF TabsInv, TabInv
<1>2. /\ \A u \in Tabs : u # t => Untouched(u)
      /\ tab' \in [Tabs -> TabType]
      /\ saving' \in [Tabs -> [stage : {"none", "flushing", "auth", "ready", "posted"}, op : Nat]]
      /\ closing' \in [Tabs -> [stage : Stages, why : Whys, op : Nat]]
      /\ SameView(t) /\ tab'[t].text = tab[t].text /\ tab'[t].auth = tab[t].auth
      /\ tab'[t].baseText = tab[t].baseText /\ tab'[t].baseAuth = tab[t].baseAuth
      /\ tab'[t].basePlace = tab[t].basePlace
      /\ tab'[t].authUpdate = tab[t].authUpdate \/ (tab'[t].authUpdate = 0 /\ tab[t].authUpdate = op)
  BY <1>1, SettleParts
<1>3. \/ saving'[t] = saving[t]
      \/ saving'[t].stage = "none" /\ saving'[t].op = 0
      \/ saving'[t].stage = "ready" /\ saving'[t].op = 0 /\ saving[t].stage = "auth"
  BY <1>1, SettleParts
<1>4. \/ closing'[t] = closing[t]
      \/ closing'[t].stage = "none" /\ closing'[t].op = 0
      \/ /\ ok /\ SaveSettled(t, op, ok) /\ closing[t].stage = "saving" /\ closing'[t].stage = "releasing"
         /\ closing'[t].why = closing[t].why /\ closing'[t].op = closing[t].op /\ ~Dirty(tab[t])
  BY <1>1, SettleParts
<1>5. IsOpen(t)
  <2>1. \/ saving[t].stage # "none" \/ tab[t].authUpdate # 0 \/ closing[t].stage # "none"
    BY DEF StaysOpen, SaveSettled, AuthEnds, CloseRefused, AwaitsSave, AwaitsAuth, AwaitsClose
  <2> QED
    BY <1>1, <2>1 DEF DialogInv
<1>6. TabsTypeOK'
  <2>1. submitted' \subseteq SnapshotType /\ loads' \subseteq [op : Nat, tab : Tabs]
    BY <1>1 DEF TabsTypeOK
  <2> QED
    BY <1>1, <1>2, <2>1, MoveTypes DEF TabsTypeOK
<1>7. DialogInv'
  <2>1. dialog.tab = t => closing'[t].stage = "none"
    BY <1>1, <1>4 DEF DialogInv
  <2>2. \A u \in Tabs : IsOpen(u) <=> tab'[u].request # NoRequest
    BY <1>2 DEF IsOpen, SameView, Untouched
  <2> QED
    BY <1>1, <1>2, <1>5, <2>1, <2>2 DEF DialogInv, IsOpen, Untouched
<1>8. NumbersKept(t) /\ BaseAlike(t, d) /\ PlaceAlike(t, d) /\ DraftAlike(t) /\ AuthAlike(t, "move", NoRequest)
  <2>1. NumbersKept(t)
    <3>1. saving'[t].op \in {0, saving[t].op}
      BY <1>3
    <3>2. closing'[t].op \in {0, closing[t].op}
      BY <1>4
    <3> QED
      BY <1>2, <3>1, <3>2 DEF NumbersKept
  <2>2. Unheard(t, d)
    BY DEF Unheard, SavedAt
  <2> QED
    BY <1>2, <2>1, <2>2 DEF BaseAlike, PlaceAlike, DraftAlike, AuthAlike, SameView, Loaded, LoadedThen, IsOpen
<1>9. Loaded(t) => LoadedThen(t)
  BY <1>2 DEF SameView, Loaded, LoadedThen, IsOpen
<1>10. SaveAlike(t, "move", NoRequest)
  BY <1>2, <1>3, <1>9 DEF SaveAlike, SameView
<1>11. CloseAlike(t, "move", NoRequest)
  BY <1>1, <1>2, <1>3, <1>4 DEF CloseAlike, CloseSettles, SameView
<1>12. ClosesAsBefore(t, "move", NoRequest) \/ ClosesSaved(t)'
  <2>1. CASE closing'[t] = closing[t]
    <3>1. closing[t].stage \in {"releasing", "discarding"} /\ closing[t].why = "save" =>
            saving'[t].stage \in {"none", saving[t].stage}
      BY <1>1, <1>3 DEF ClosesSaved
    <3> QED
      BY <1>1, <1>2, <1>9, <2>1, <3>1 DEF ClosesAsBefore, ClosesAlike, ClosesSaved, SameView
  <2>2. CASE closing'[t].stage = "none"
    BY <2>2 DEF ClosesAsBefore
  <2>3. CASE /\ ok /\ SaveSettled(t, op, ok) /\ closing[t].stage = "saving" /\ closing'[t].stage = "releasing"
             /\ ~Dirty(tab[t])
    <3>1. PICK r : r = tab[t].request
      OBVIOUS
    <3>2. d = 1 /\ saving[t].stage = "posted" /\ saving[t].op = op
      BY <2>3 DEF SaveSettled, AwaitsSave
    <3>3. Loaded(t) /\ NoneLeft(r, {"save", "delete"}, 1) /\ IsStored(r)
      BY <1>1, <2>3, <3>1, <3>2 DEF SaveSettles
    <3>4. NoneLeftThen(r, {"save", "delete"}, 0)
      <4>1. NoneLeft(r, {"save", "delete"}, 0 + d)
        BY <3>2, <3>3
      <4> QED
        BY <1>1, <4>1, NoneLeftMoves
    <3>5. saving'[t].stage = "none"
      <4>1. saving' = [saving EXCEPT ![t] = NotSaving]
        BY <2>3 DEF SaveSettled, SaveEnds
      <4> QED
        BY <1>1, <4>1, NotSavingParts DEF TabsTypeOK
    <3>6. tab[t].text = tab[t].baseText /\ tab[t].auth = tab[t].baseAuth /\ tab[t].authUpdate = 0
      BY <2>3 DEF Dirty
    <3>7. stored' = stored /\ tab' = tab
      BY <2>3 DEF PageMoves, SaveSettled
    <3>8. Loaded(t)' /\ NoneLeft(r, {"save", "delete"}, 0)' /\ IsStored(r)'
      BY <1>9, <3>3, <3>4, <3>7, Thens DEF IsStored
    <3> QED
      BY <2>3, <3>1, <3>5, <3>6, <3>7, <3>8 DEF ClosesSaved
  <2> QED
    BY <1>4, <2>1, <2>2, <2>3
<1>13. timeouts' = 0 => AppliedStay(d, "move", NoRequest)
  <2> SUFFICES ASSUME timeouts' = 0 PROVE AppliedStay(d, "move", NoRequest)
    OBVIOUS
  <2>1. ASSUME NEW u \in Tabs, tab[u].authUpdate # 0
        PROVE  \/ ~AuthsLeft(tab[u].request, d)
               \/ tab'[u].request = tab[u].request /\ tab'[u].authUpdate \in {tab[u].authUpdate, ops + 1}
    <3>1. CASE tab'[u].authUpdate = tab[u].authUpdate
      BY <1>2, <3>1 DEF SameView, Untouched
    <3>2. CASE tab'[u].authUpdate # tab[u].authUpdate
      <4>1. u = t /\ tab[t].authUpdate = op
        BY <1>2, <3>2 DEF Untouched
      <4>2. AuthSettled(t) /\ d = 1 /\ 1 \in DOMAIN toPage /\ toPage[1].kind = "reply" /\ toPage[1].op = op
        BY <1>1
      <4> QED
        BY <2>1, <4>1, <4>2 DEF AuthSettled
    <3> QED
      BY <3>1, <3>2
  <2> QED
    BY <1>1, <2>1, AppliedKept
<1>14. TabAlike(t, d, "move", NoRequest)
  BY <1>8, <1>10, <1>11, <1>12 DEF TabAlike
<1>15. d = 1 => toPage[1].kind \notin {"collections", "saved"}
  OBVIOUS
<1> QED
  BY <1>2, <1>6, <1>7, <1>8, <1>13, <1>14, <1>15, OneTabStep

LEMMA TimeOutKeeps ==
  ASSUME TabsInv, NEW t \in Tabs, TimeOut(t)
  PROVE  TabsInv'
<1>1. TabsTypeOK
  BY DEF TabsInv
<1>2. PICK op \in 1 .. ops : Settle(t, op, FALSE)
  BY DEF TimeOut
<1>3. /\ StaysOpen(t, op, FALSE) /\ UNCHANGED <<loads, ops, jobs, closed, typed>>
      /\ UNCHANGED <<dialog, tree, submitted, reads, toPage, stored, staged, edits, clicks, failures>>
  BY <1>2 DEF Settle, StaysOpen, SaveSettled, AuthEnds, CloseRefused, TimeOut, hostState
<1>4. op \in Nat \ {0}
  BY <1>1, SeqDomains
<1>5. PageMoves(0, "move", NoRequest)
  BY <1>1, <1>3, StillMoves
<1>6. timeouts' \in Nat /\ failures + timeouts' <= MaxFailures /\ timeouts' # 0
  BY <1>1, Counted DEF TimeOut
<1>7. PICK ok \in BOOLEAN : ok = FALSE
  OBVIOUS
<1>8. StaysOpen(t, op, ok) /\ ~ok
  BY <1>3, <1>7
<1>9. PICK d \in {0, 1} : d = 0
  OBVIOUS
<1>10. PageMoves(d, "move", NoRequest) /\ d # 1
  BY <1>5, <1>9
<1> QED
  BY <1>3, <1>4, <1>6, <1>8, <1>10, SettleStep

LEMMA HeardParts ==
  ASSUME TabsTypeOK, NEW kind, Heard(kind)
  PROVE  /\ toPage # <<>> /\ toPage' = Tail(toPage) /\ Pushed = toPage[1] /\ toPage[1].kind = kind
         /\ 1 \in DOMAIN toPage /\ toPage[1] \in MessageType
         /\ toPage[1].op \in Nat /\ toPage[1].request \in Requests /\ toPage[1].ok \in BOOLEAN
         /\ toPage[1].text \in Texts /\ toPage[1].auth \in Auths /\ toPage[1].pending \in BOOLEAN
<1>1. /\ toPage # <<>> /\ toPage' = Tail(toPage) /\ Pushed = toPage[1] /\ toPage[1].kind = kind
      /\ 1 \in DOMAIN toPage /\ toPage[1] \in MessageType
  BY HearParts DEF Heard, Pushed
<1> QED
  BY <1>1 DEF MessageType

LEMMA NothingSettles ==
  ASSUME TabsInv, Heard("reply"), UNCHANGED <<tab, saving, closing, loads, ops, jobs, closed, typed>>,
         UNCHANGED <<dialog, tree, submitted, reads, hostState, bounded>>
  PROVE  TabsInv'
<1>1. TabsTypeOK
  BY DEF TabsInv
<1>2. PageMoves(1, "move", NoRequest)
  BY <1>1, HeardParts, HearMoves DEF hostState
<1>3. TabsTypeOK'
  BY <1>1, <1>2, Counted, MoveTypes DEF TabsTypeOK, hostState, bounded
<1> QED
  BY <1>1, <1>2, <1>3, HeardParts, NoTabStep DEF bounded

\* an answer that leaves its tab open
LEMMA AnswerStep ==
  ASSUME TabsInv, Heard("reply"), NEW t \in Tabs, StaysOpen(t, Pushed.op, Pushed.ok),
         UNCHANGED <<loads, ops, jobs, closed, typed, dialog, tree, reads, hostState, bounded>>,
         \A s \in submitted' : s \in submitted,
         \A s \in submitted : s \in submitted' \/ \A r : ~SaveLeft(1, s.op, r)
  PROVE  TabsInv'
<1>1. TabsTypeOK /\ NumbersInv
  BY DEF TabsInv, PipeInv
<1>2. /\ toPage # <<>> /\ toPage' = Tail(toPage) /\ Pushed = toPage[1] /\ toPage[1].kind = "reply"
      /\ 1 \in DOMAIN toPage /\ toPage[1].op \in Nat /\ toPage[1].ok \in BOOLEAN
  BY <1>1, HeardParts
<1>3. PICK op, ok : op = toPage[1].op /\ ok = toPage[1].ok
  OBVIOUS
<1>4. PageMoves(1, "move", NoRequest)
  BY <1>1, <1>2, HearMoves DEF hostState
<1>5. StaysOpen(t, op, ok) /\ ok \in BOOLEAN
  BY <1>2, <1>3
<1>6. op \in Nat \ {0}
  BY <1>1, <1>2, <1>3 DEF NumbersInv
<1>7. timeouts' = timeouts /\ failures' = failures /\ failures + timeouts <= MaxFailures /\ timeouts \in Nat
      /\ edits' = edits /\ clicks' = clicks /\ staged' = staged
  BY <1>1, Counted DEF bounded, hostState
<1> QED
  BY <1>2, <1>3, <1>4, <1>5, <1>6, <1>7, SettleStep

(***************************************************************************)
(* The stage of a tab that is removed is dropped: its request is deleted.  *)
(***************************************************************************)
LEMMA RemoveStep ==
  ASSUME TabsInv, Heard("reply"), NEW t \in Tabs, closing[t].stage = "discarding", closing[t].why = "remove", Discarded(t),
         UNCHANGED <<saving, dialog, tree, submitted, reads, hostState, bounded>>
  PROVE  TabsInv'
<1>1. /\ TabsTypeOK /\ DialogInv /\ NumbersInv /\ CloseSettles(t)
  BY DEF TabsInv, TabInv, PipeInv
<1>2. /\ toPage # <<>> /\ toPage' = Tail(toPage) /\ toPage[1].kind = "reply" /\ 1 \in DOMAIN toPage
  BY <1>1, HeardParts
<1>3. PICK q : q = tab[t].request
  OBVIOUS
<1>4. /\ IsOpen(t) /\ q \in Requests /\ ops \in Nat /\ saving[t].stage = "none" /\ tab[t].authUpdate = 0
  BY <1>1, <1>3, TabParts, SeqDomains DEF DialogInv, CloseSettles
<1>5. /\ Post("delete", q, ClosedTab) /\ loads' = {l \in loads : l.tab # t} /\ closed' = closed /\ typed' = typed
      /\ tab' = [tab EXCEPT ![t].auth = tab[t].baseAuth, ![t].authPending = FALSE]
      /\ closing' = [closing EXCEPT ![t].stage = "removing", ![t].op = ops + 1]
  BY <1>3 DEF Discarded
<1>6. Job("delete", q, ClosedTab) \in JobType
  BY <1>1, <1>4, ClosedTabParts, ValuesAreNumbers, JobTyped DEF Places
<1>7. PageMoves(1, "delete", q)
  BY <1>1, <1>2, <1>5, <1>6, HearPosts DEF hostState
<1>8. ops' = ops + 1
  BY <1>5 DEF Post
<1>9. PICK c \in [stage : Stages, why : Whys, op : Nat] :
        /\ closing' = [closing EXCEPT ![t] = c]
        /\ c.stage = "removing" /\ c.why = "remove" /\ c.op = ops + 1
  <2>1. PICK b \in [stage : Stages, why : Whys, op : Nat] : b = [closing[t] EXCEPT !.stage = "removing"]
    BY <1>1, StageParts DEF Stages
  <2>2. b.stage = "removing" /\ b.why = closing[t].why
    BY <1>1, <2>1, StageParts
  <2>3. PICK c \in [stage : Stages, why : Whys, op : Nat] : c = [b EXCEPT !.op = ops + 1]
    <3>1. ops + 1 \in Nat
      BY <1>4
    <3>2. [b EXCEPT !.op = ops + 1] \in [stage : Stages, why : Whys, op : Nat]
      BY <3>1
    <3> QED
      BY <3>2
  <2>4. c.stage = "removing" /\ c.why = "remove" /\ c.op = ops + 1
    BY <2>2, <2>3
  <2>5. closing' = [closing EXCEPT ![t] = c]
    BY <1>1, <1>5, <2>1, <2>3 DEF TabsTypeOK
  <2> QED
    BY <2>4, <2>5
<1>10. /\ closing'[t] = c /\ \A u \in Tabs : u # t => closing'[u] = closing[u]
       /\ closing' \in [Tabs -> [stage : Stages, why : Whys, op : Nat]]
  BY <1>1, <1>9 DEF TabsTypeOK
<1>11. PICK x \in TabType :
         /\ tab' = [tab EXCEPT ![t] = x]
         /\ x.request = q /\ x.loading = tab[t].loading /\ x.loadFailed = tab[t].loadFailed /\ x.text = tab[t].text
         /\ x.baseText = tab[t].baseText /\ x.baseAuth = tab[t].baseAuth /\ x.basePlace = tab[t].basePlace
         /\ x.authUpdate = 0
  <2>1. tab[t] \in TabType /\ tab[t].baseAuth \in Auths
    BY <1>1, TabParts
  <2>2. PICK y \in TabType : y = [tab[t] EXCEPT !.auth = tab[t].baseAuth]
    BY <2>1 DEF TabType
  <2>3. PICK x \in TabType : x = [y EXCEPT !.authPending = FALSE]
    BY <2>2 DEF TabType
  <2>4. /\ y.request = tab[t].request /\ y.loading = tab[t].loading /\ y.loadFailed = tab[t].loadFailed
        /\ y.text = tab[t].text /\ y.baseText = tab[t].baseText /\ y.baseAuth = tab[t].baseAuth
        /\ y.basePlace = tab[t].basePlace /\ y.authUpdate = tab[t].authUpdate
    BY <2>1, <2>2 DEF TabType
  <2>5. /\ x.request = y.request /\ x.loading = y.loading /\ x.loadFailed = y.loadFailed
        /\ x.text = y.text /\ x.baseText = y.baseText /\ x.baseAuth = y.baseAuth
        /\ x.basePlace = y.basePlace /\ x.authUpdate = y.authUpdate
    BY <2>2, <2>3 DEF TabType
  <2>6. tab' = [tab EXCEPT ![t] = x]
    BY <1>1, <1>5, <2>2, <2>3 DEF TabsTypeOK
  <2> QED
    BY <1>3, <1>4, <2>4, <2>5, <2>6
<1>12. tab'[t] = x /\ tab' \in [Tabs -> TabType] /\ \A u \in Tabs : u # t => tab'[u] = tab[u]
  BY <1>1, <1>11 DEF TabsTypeOK
<1>13. TabsTypeOK'
  <2>1. submitted' \subseteq SnapshotType /\ loads' \subseteq [op : Nat, tab : Tabs]
    BY <1>1, <1>5 DEF TabsTypeOK
  <2> QED
    BY <1>1, <1>5, <1>7, <1>10, <1>12, <2>1, Counted, MoveTypes DEF TabsTypeOK, hostState, bounded
<1>14. DialogInv'
  <2>1. dialog.tab # t
    BY <1>1 DEF DialogInv
  <2>2. \A u \in Tabs : IsOpen(u) <=> tab'[u].request # NoRequest
    BY <1>3, <1>11, <1>12 DEF IsOpen
  <2> QED
    BY <1>1, <1>4, <1>10, <1>12, <2>1, <2>2 DEF DialogInv, IsOpen
<1>15. SameView(t) /\ Unheard(t, 1)
  BY <1>2, <1>3, <1>11, <1>12 DEF SameView, Unheard, SavedAt
<1>16. TabAlike(t, 1, "delete", q)
  <2>1. NumbersKept(t)
    BY <1>4, <1>5, <1>8, <1>9, <1>10, <1>11, <1>12 DEF NumbersKept
  <2>2. BaseAlike(t, 1) /\ PlaceAlike(t, 1) /\ AuthAlike(t, "delete", q)
    BY <1>11, <1>12, <1>15 DEF BaseAlike, PlaceAlike, AuthAlike, SameView, Loaded, LoadedThen, IsOpen
  <2>3. SaveAlike(t, "delete", q) /\ CloseAlike(t, "delete", q)
    BY <1>4, <1>8, <1>9, <1>10, <1>11, <1>12 DEF SaveAlike, CloseAlike, Fresh
  <2>4. ClosesAsBefore(t, "delete", q)
    BY <1>9, <1>10 DEF ClosesAsBefore
  <2> QED
    BY <2>1, <2>2, <2>3, <2>4 DEF TabAlike, bounded
<1>17. AppliedStay(1, "delete", q)
  BY <1>1, <1>4, <1>12, AppliedKept
<1>18. DraftAlike(t)
  BY <1>5, <1>11, <1>12, <1>15 DEF DraftAlike, SameView, Loaded, LoadedThen, IsOpen
<1>19. \A u \in Tabs : u # t => Untouched(u) /\ typed'[u] = typed[u]
  BY <1>5, <1>10, <1>12 DEF Untouched
<1>20. \A l \in loads' : l \in loads
  BY <1>5
<1> QED
  BY <1>2, <1>3, <1>4, <1>5, <1>7, <1>13, <1>14, <1>15, <1>16, <1>17, <1>18, <1>19, <1>20, OneTabStep DEF bounded

(***************************************************************************)
(* A tab is closed once the answer it waits for has come: nothing it       *)
(* submitted is left to be heard of.                                       *)
(***************************************************************************)
LEMMA CloseTabStep ==
  ASSUME TabsInv, Heard("reply"), NEW t \in Tabs, AwaitsClose(t, Pushed.op), CloseTab(t),
         UNCHANGED <<saving, ops, jobs, dialog, tree, submitted, reads, hostState, bounded>>
  PROVE  TabsInv'
<1>1. /\ TabsTypeOK /\ DialogInv /\ NumbersInv /\ OneTab /\ LoadsInv
      /\ CloseSettles(t) /\ ClosesSaved(t) /\ BaseIsStored(t)
  BY DEF TabsInv, TabInv, PipeInv
<1>2. /\ toPage # <<>> /\ toPage' = Tail(toPage) /\ Pushed = toPage[1] /\ toPage[1].kind = "reply" /\ 1 \in DOMAIN toPage
  BY <1>1, HeardParts
<1>3. PICK r : r = tab[t].request
  OBVIOUS
<1>4. /\ IsOpen(t) /\ r \in Requests /\ saving[t].stage = "none" /\ tab[t].authUpdate = 0
      /\ closing[t].stage \in {"discarding", "removing"} /\ NoneLeft(r, {"save"}, 1)
  BY <1>1, <1>2, <1>3, TabParts DEF DialogInv, CloseSettles, AwaitsClose
<1>5. PageMoves(1, "move", NoRequest)
  BY <1>1, <1>2, HearMoves DEF hostState
<1>6. /\ tab'[t] = ClosedTab /\ tab' \in [Tabs -> TabType] /\ \A u \in Tabs : u # t => tab'[u] = tab[u]
      /\ typed' \in [Tabs -> Texts] /\ \A u \in Tabs : u # t => typed'[u] = typed[u]
      /\ loads' = {l \in loads : l.tab # t}
  BY <1>1, ClosedTabParts, ValuesAreNumbers DEF CloseTab, TabsTypeOK
<1>7. /\ closing'[t].stage = "none" /\ closing'[t].op = 0 /\ \A u \in Tabs : u # t => closing'[u] = closing[u]
      /\ closing' \in [Tabs -> [stage : Stages, why : Whys, op : Nat]]
  BY <1>1, ReopenedParts DEF CloseTab, TabsTypeOK, Reopened
<1>8. TabsTypeOK'
  <2>1. submitted' \subseteq SnapshotType /\ loads' \subseteq [op : Nat, tab : Tabs]
    BY <1>1, <1>6 DEF TabsTypeOK
  <2>2. closed' \in [why : Whys, text : BOOLEAN, auth : BOOLEAN]
    <3>1. closing[t].why \in Whys
      BY <1>1, StageParts
    <3> QED
      BY <3>1 DEF CloseTab
  <2> QED
    BY <1>1, <1>5, <1>6, <1>7, <2>1, <2>2, Counted, MoveTypes DEF TabsTypeOK, hostState, bounded
<1>9. DialogInv'
  <2>1. dialog.tab # t
    BY <1>1, <1>4 DEF DialogInv
  <2> QED
    BY <1>1, <1>4, <1>6, <1>7, <2>1, ClosedTabParts DEF DialogInv, IsOpen
<1>10. OneTab'
  BY <1>1, <1>6, ClosedTabParts DEF OneTab, IsOpen
<1>11. ClosedBySaveIsStored'
  <2> SUFFICES ASSUME closing[t].why = "save"
               PROVE  stored[r].text = tab[t].text /\ (timeouts = 0 => stored[r].auth = tab[t].auth)
    <3>1. /\ closed'.why = closing[t].why /\ closed'.text = (stored[r].text = tab[t].text)
          /\ closed'.auth = (stored[r].auth = tab[t].auth)
      BY <1>3 DEF CloseTab
    <3> QED
      BY <3>1 DEF ClosedBySaveIsStored, bounded
  <2>1. /\ Loaded(t) /\ IsStored(r) /\ NoneLeft(r, {"save", "delete"}, 0) /\ tab[t].text = tab[t].baseText
        /\ timeouts = 0 => tab[t].auth = tab[t].baseAuth
    BY <1>1, <1>3, <1>4 DEF ClosesSaved
  <2>2. \A i \in DOMAIN toPage : ~SavedAt(i, r)
    <3>1. \A i \in DOMAIN toPage : i > 0
      BY <1>1, SeqDomains
    <3> QED
      BY <2>1, <3>1 DEF NoneLeft
  <2>3. tab[t].baseText = stored[r].text /\ tab[t].baseAuth = stored[r].auth
    BY <1>1, <1>3, <2>1, <2>2 DEF BaseIsStored
  <2> QED
    BY <2>1, <2>3
<1>12. SubmittedKept(1, "move", NoRequest)
  <2>1. ASSUME NEW op, NEW q, NEW text, Owned(op, q, text), SaveLeft(1, op, q) PROVE OwnedThen(op, q, text)
    <3>1. PICK s \in submitted : s.op = op /\ s.request = q /\ s.text = text /\ tab[s.tab].request = q /\ Loaded(s.tab)
      BY <2>1 DEF Owned
    <3>2. s.tab \in Tabs
      BY <1>1 DEF TabsTypeOK, SnapshotType
    <3>3. s.tab # t
      BY <1>3, <1>4, <2>1, <3>1 DEF SaveLeft, NoneLeft, SavedAt
    <3> QED
      BY <1>6, <3>1, <3>2, <3>3 DEF OwnedThen, Loaded, IsOpen
  <2>2. \A s \in submitted : s.op # ops + 1
    BY <1>1, SeqDomains DEF NumbersInv, TabsTypeOK, SnapshotType
  <2> QED
    BY <2>1, <2>2 DEF SubmittedKept
<1>13. LoadsKept
  BY <1>1, <1>6 DEF LoadsKept, LoadsInv, StillLoading, TabsTypeOK
<1>14. \A u \in Tabs : TabAlike(u, 1, "move", NoRequest) /\ DraftAlike(u)
  <2>1. TabAlike(t, 1, "move", NoRequest)
    BY <1>4, <1>6, <1>7, ClosedTabParts
       DEF TabAlike, NumbersKept, BaseAlike, PlaceAlike, AuthAlike, SaveAlike, CloseAlike, ClosesAsBefore,
           LoadedThen, bounded
  <2>2. DraftAlike(t)
    BY <1>6, ClosedTabParts DEF DraftAlike, LoadedThen
  <2>3. ASSUME NEW u \in Tabs, u # t PROVE TabAlike(u, 1, "move", NoRequest) /\ DraftAlike(u)
    <3>1. Untouched(u) /\ typed'[u] = typed[u]
      BY <1>6, <1>7, <2>3 DEF Untouched
    <3>2. Unheard(u, 1)
      BY <1>2 DEF Unheard, SavedAt
    <3> QED
      BY <3>1, <3>2, UntouchedAlike DEF DraftAlike, Untouched, Loaded, LoadedThen, IsOpen, bounded
  <2> QED
    BY <2>1, <2>2, <2>3
<1>15. AppliedStay(1, "move", NoRequest)
  BY <1>1, <1>4, <1>6, AppliedKept
<1>16. TreeMoves(1, 0)
  BY <1>1, <1>2, TreeStays
<1> QED
  BY <1>5, <1>8, <1>9, <1>10, <1>11, <1>12, <1>13, <1>14, <1>15, <1>16, TabStep DEF bounded

LEMMA ConfirmedKeeps ==
  ASSUME TabsInv, Confirmed
  PROVE  TabsInv'
<1>1. /\ Heard("reply") /\ Pushed.ok /\ UNCHANGED <<dialog, tree, submitted, reads, hostState, bounded>>
  BY DEF Confirmed
<1>2. Pushed.ok = TRUE
  <2>1. TabsTypeOK
    BY DEF TabsInv
  <2>2. Pushed.ok \in BOOLEAN
    BY <1>1, <2>1, HeardParts
  <2> QED
    BY <1>1, <2>2
<1>3. CASE UNCHANGED <<tab, saving, closing, loads, ops, jobs, closed, typed>>
  BY <1>1, <1>3, NothingSettles
<1>4. ASSUME NEW t \in Tabs, Settle(t, Pushed.op, TRUE) PROVE TabsInv'
  <2>1. CASE StaysOpen(t, Pushed.op, TRUE) /\ UNCHANGED <<loads, ops, jobs, closed, typed>>
    <3>1. StaysOpen(t, Pushed.op, Pushed.ok)
      BY <1>2, <2>1
    <3> QED
      BY <1>1, <2>1, <3>1, AnswerStep
  <2>2. CASE /\ AwaitsClose(t, Pushed.op) /\ closing[t].stage = "discarding" /\ Discarded(t) /\ UNCHANGED saving
    <3>1. CASE closing[t].why = "remove"
      BY <1>1, <2>2, <3>1, RemoveStep
    <3>2. CASE closing[t].why # "remove"
      <4>1. CloseTab(t) /\ UNCHANGED <<ops, jobs>>
        BY <2>2, <3>2 DEF Discarded
      <4> QED
        BY <1>1, <2>2, <4>1, CloseTabStep
    <3> QED
      BY <3>1, <3>2
  <2>3. CASE AwaitsClose(t, Pushed.op) /\ CloseTab(t) /\ UNCHANGED <<saving, ops, jobs>>
    BY <1>1, <2>3, CloseTabStep
  <2> QED
    BY <1>4, <2>1, <2>2, <2>3 DEF Settle, StaysOpen, SaveSettled, AuthEnds, CloseRefused
<1> QED
  BY <1>3, <1>4 DEF Confirmed

(***************************************************************************)
(* What is refused is not answered otherwise; a load that is refused can   *)
(* be tried again.                                                         *)
(***************************************************************************)
LEMMA RefusedKeeps ==
  ASSUME TabsInv, Refused
  PROVE  TabsInv'
<1>1. /\ TabsTypeOK /\ DialogInv /\ NumbersInv /\ OneTab /\ LoadsInv /\ ErrorsInv /\ ClosedBySaveIsStored
  BY DEF TabsInv, PipeInv
<1>2. /\ Heard("reply") /\ ~Pushed.ok /\ UNCHANGED <<dialog, tree, reads, hostState, bounded>>
      /\ submitted' = {s \in submitted : s.op # Pushed.op}
  BY DEF Refused
<1>3. /\ toPage # <<>> /\ toPage' = Tail(toPage) /\ Pushed = toPage[1] /\ toPage[1].kind = "reply"
      /\ 1 \in DOMAIN toPage /\ toPage[1].ok = FALSE /\ toPage[1].op \in Nat
  BY <1>1, <1>2, HeardParts
<1>4. PICK op : op = toPage[1].op
  OBVIOUS
<1>5. \A r : ~SaveLeft(1, op, r)
  <2>1. /\ \A n \in DOMAIN jobs : jobs[n].op # op
        /\ \A j \in DOMAIN toPage : toPage[j].kind = "saved" => toPage[j].op # op
    BY <1>1, <1>3, <1>4 DEF ErrorsInv
  <2> QED
    BY <2>1 DEF SaveLeft
<1>6. /\ \A s \in submitted' : s \in submitted
      /\ \A s \in submitted : s \in submitted' \/ \A r : ~SaveLeft(1, s.op, r)
  BY <1>2, <1>3, <1>4, <1>5
<1>7. ASSUME NEW t \in Tabs, Settle(t, Pushed.op, FALSE) PROVE TabsInv'
  <2>1. StaysOpen(t, Pushed.op, FALSE) /\ UNCHANGED <<loads, ops, jobs, closed, typed>>
    BY <1>7 DEF Settle, StaysOpen, SaveSettled, AuthEnds, CloseRefused
  <2>2. StaysOpen(t, Pushed.op, Pushed.ok)
    BY <1>3, <2>1
  <2> QED
    BY <1>2, <1>6, <2>1, <2>2, AnswerStep
<1>8. ASSUME NEW owner, owner = {l.tab : l \in {l \in loads : l.op = op}},
             tab' = [t \in Tabs |-> IF t \notin owner THEN tab[t]
               ELSE [tab[t] EXCEPT !.loadFailed = tab[t].loading \/ tab[t].loadFailed, !.loading = FALSE]],
             loads' = {l \in loads : l.op # op}, UNCHANGED <<saving, closing, ops, jobs, closed, typed>>
      PROVE  TabsInv'
  <2>1. PageMoves(1, "move", NoRequest)
    BY <1>1, <1>2, <1>3, <1>8, HearMoves DEF hostState
  <2>2. ASSUME NEW t \in Tabs, t \in owner
        PROVE  /\ tab[t].loading /\ tab'[t] \in TabType /\ tab'[t].loadFailed /\ tab'[t].request = tab[t].request
               /\ tab'[t].authUpdate = tab[t].authUpdate /\ tab'[t].basePlace = tab[t].basePlace
               /\ tab'[t].text = tab[t].text /\ tab'[t].baseText = tab[t].baseText
               /\ tab'[t].auth = tab[t].auth /\ tab'[t].baseAuth = tab[t].baseAuth
    <3>1. tab[t].loading = TRUE
      <4>1. PICK l \in loads : l.op = op /\ l.tab = t
        BY <1>8, <2>2
      <4>2. tab[t].loading
        BY <1>1, <4>1 DEF LoadsInv
      <4>3. tab[t].loading \in BOOLEAN
        BY <1>1 DEF TabsTypeOK, TabType
      <4> QED
        BY <4>2, <4>3
    <3>2. tab[t] \in TabType
      BY <1>1, TabParts
    <3>3. (tab[t].loading \/ tab[t].loadFailed) = TRUE
      BY <3>1
    <3>4. tab'[t] = [tab[t] EXCEPT !.loadFailed = TRUE, !.loading = FALSE]
      BY <1>8, <2>2, <3>3
    <3>5. PICK y \in TabType : y = [tab[t] EXCEPT !.loadFailed = TRUE]
      BY <3>2 DEF TabType
    <3>6. PICK x \in TabType : x = [y EXCEPT !.loading = FALSE]
      BY <3>5 DEF TabType
    <3>7. tab'[t] = x
      BY <3>4, <3>5, <3>6
    <3>8. /\ y.request = tab[t].request /\ y.authUpdate = tab[t].authUpdate /\ y.basePlace = tab[t].basePlace
          /\ y.text = tab[t].text /\ y.baseText = tab[t].baseText /\ y.auth = tab[t].auth
          /\ y.baseAuth = tab[t].baseAuth /\ y.loadFailed = TRUE
      BY <3>2, <3>5 DEF TabType
    <3>9. /\ x.request = y.request /\ x.authUpdate = y.authUpdate /\ x.basePlace = y.basePlace
          /\ x.text = y.text /\ x.baseText = y.baseText /\ x.auth = y.auth
          /\ x.baseAuth = y.baseAuth /\ x.loadFailed = y.loadFailed
      BY <3>5, <3>6 DEF TabType
    <3> QED
      BY <3>1, <3>7, <3>8, <3>9
  <2>3. \A t \in Tabs : t \notin owner => tab'[t] = tab[t]
    BY <1>8
  <2>4. tab' \in [Tabs -> TabType]
    <3>1. \A t \in Tabs : tab'[t] \in TabType
      BY <1>1, <2>2, <2>3, TabParts
    <3>2. \E f : tab' = [t \in Tabs |-> f[t]]
      <4>1. tab' = [t \in Tabs |-> tab'[t]]
        BY <1>8
      <4> QED
        BY <4>1
    <3> QED
      BY <3>1, <3>2
  <2>5. TabsTypeOK'
    <3>1. submitted' \subseteq SnapshotType /\ loads' \subseteq [op : Nat, tab : Tabs]
      BY <1>1, <1>2, <1>8 DEF TabsTypeOK
    <3> QED
      BY <1>1, <1>2, <1>8, <2>1, <2>4, <3>1, Counted, MoveTypes DEF TabsTypeOK, hostState, bounded
  <2>6. \A t \in Tabs : tab'[t].request = tab[t].request /\ tab'[t].authUpdate = tab[t].authUpdate
    BY <2>2, <2>3
  <2>7. DialogInv' /\ OneTab' /\ ClosedBySaveIsStored'
    <3>1. DialogInv'
      BY <1>1, <1>2, <1>8, <2>6 DEF DialogInv, IsOpen
    <3>2. OneTab'
      <4>1. \A t \in owner : IsOpen(t)
        BY <1>1, <1>8 DEF LoadsInv
      <4>2. \A t \in Tabs : tab'[t].loadFailed => IsOpen(t)
        BY <1>1, <2>3, <4>1 DEF OneTab
      <4> QED
        BY <1>1, <2>6, <4>2 DEF OneTab, IsOpen
    <3>3. ClosedBySaveIsStored'
      BY <1>1, <1>2, <1>8 DEF ClosedBySaveIsStored, bounded
    <3> QED
      BY <3>1, <3>2, <3>3
  <2>8. \A t \in Tabs : Steady(t)
    BY <2>2, <2>3 DEF Steady, Loaded, LoadedThen, IsOpen
  <2>9. SubmittedKept(1, "move", NoRequest)
    BY <1>1, <1>6, <2>8, SubmittedStays
  <2>10. LoadsKept
    <3>1. ASSUME NEW l \in loads' PROVE l \in loads /\ StillLoading(l)
      <4>1. l \in loads /\ l.tab \in Tabs /\ l.op # op
        BY <1>1, <1>8, <3>1 DEF TabsTypeOK
      <4>2. l.tab \notin owner
        BY <1>1, <1>8, <4>1 DEF LoadsInv
      <4>3. tab'[l.tab] = tab[l.tab]
        BY <2>3, <4>1, <4>2
      <4> QED
        BY <1>1, <4>1, <4>3 DEF LoadsInv, StillLoading
    <3> QED
      BY <3>1 DEF LoadsKept
  <2>11. ASSUME NEW t \in Tabs PROVE TabAlike(t, 1, "move", NoRequest) /\ DraftAlike(t)
    <3>1. Unheard(t, 1)
      BY <1>3 DEF Unheard, SavedAt
    <3>2. CASE t \in owner
      <4>1. SaveSettles(t) /\ CloseSettles(t) /\ ClosesSaved(t)
        BY DEF TabsInv, TabInv
      <4>2. ~Loaded(t) /\ ~LoadedThen(t)
        BY <2>2, <3>2 DEF Loaded, LoadedThen
      <4>3. NumbersKept(t) /\ BaseAlike(t, 1) /\ PlaceAlike(t, 1) /\ AuthAlike(t, "move", NoRequest) /\ DraftAlike(t)
        BY <1>2, <1>8, <2>2, <3>1, <3>2, <4>2 DEF NumbersKept, BaseAlike, PlaceAlike, AuthAlike, DraftAlike
      <4>4. SaveAlike(t, "move", NoRequest) /\ CloseAlike(t, "move", NoRequest)
        BY <1>8, <2>2, <3>2, <4>2 DEF SaveAlike, CloseAlike
      <4>5. ClosesAsBefore(t, "move", NoRequest)
        BY <1>8, <4>1, <4>2 DEF ClosesAsBefore, ClosesSaved
      <4> QED
        BY <1>2, <4>3, <4>4, <4>5 DEF TabAlike, bounded
    <3>3. CASE t \notin owner
      <4>1. Untouched(t)
        BY <1>8, <2>3, <3>3 DEF Untouched
      <4> QED
        BY <1>2, <1>8, <3>1, <4>1, UntouchedAlike DEF DraftAlike, Untouched, Loaded, LoadedThen, IsOpen, bounded
    <3> QED
      BY <3>2, <3>3
  <2>12. AppliedStay(1, "move", NoRequest)
    BY <1>1, <2>6, AppliedKept
  <2>13. TreeMoves(1, 0)
    BY <1>1, <1>2, <1>3, TreeStays
  <2> QED
    BY <1>2, <2>1, <2>5, <2>7, <2>9, <2>10, <2>11, <2>12, <2>13, TabStep DEF bounded
<1>9. PICK owner : owner = {l.tab : l \in {l \in loads : l.op = op}}
  OBVIOUS
<1>10. owner = {l.tab : l \in {l \in loads : l.op = Pushed.op}}
  BY <1>3, <1>4, <1>9
<1> QED
  BY <1>3, <1>4, <1>7, <1>8, <1>9, <1>10 DEF Refused

LEMMA ShowAuthKeeps ==
  ASSUME TabsInv, ShowAuth
  PROVE  TabsInv'
<1>1. /\ TabsTypeOK /\ DialogInv /\ OneTab /\ ClosedBySaveIsStored
  BY DEF TabsInv, PipeInv
<1>2. /\ toPage # <<>> /\ toPage' = Tail(toPage) /\ Pushed = toPage[1] /\ toPage[1].kind = "auth"
      /\ 1 \in DOMAIN toPage /\ toPage[1].auth \in Auths /\ toPage[1].pending \in BOOLEAN
      /\ toPage[1].request \in Requests
  BY <1>1, HeardParts DEF ShowAuth
<1>3. UNCHANGED <<saving, closing, dialog, tree, submitted, loads, ops, jobs, reads, stored, staged, typed, closed, edits, clicks, failures, timeouts>>
  BY DEF ShowAuth, hostState, bounded
<1>4. PageMoves(1, "move", NoRequest)
  BY <1>1, <1>2, <1>3, HearMoves
<1>5. PICK r : r = toPage[1].request
  OBVIOUS
<1>6. tab' = [t \in Tabs |-> IF tab[t].request # r THEN tab[t]
        ELSE [tab[t] EXCEPT !.auth = toPage[1].auth, !.authPending = toPage[1].pending,
                            !.authRevision = tab[t].authRevision + 1]]
  BY <1>2, <1>5 DEF ShowAuth
<1>7. ASSUME NEW t \in Tabs, tab[t].request = r
      PROVE  /\ tab'[t] \in TabType /\ SameView(t)
             /\ tab'[t].authUpdate = tab[t].authUpdate /\ tab'[t].basePlace = tab[t].basePlace
             /\ tab'[t].text = tab[t].text /\ tab'[t].baseText = tab[t].baseText
             /\ tab'[t].baseAuth = tab[t].baseAuth
  <2>1. tab[t] \in TabType /\ tab[t].authRevision + 1 \in Nat
    BY <1>1, TabParts DEF TabType
  <2>2. tab'[t] = [tab[t] EXCEPT !.auth = toPage[1].auth, !.authPending = toPage[1].pending,
                                 !.authRevision = tab[t].authRevision + 1]
    BY <1>6, <1>7
  <2> QED
    BY <1>2, <2>1, <2>2 DEF TabType, SameView
<1>8. \A t \in Tabs : tab[t].request # r => tab'[t] = tab[t]
  BY <1>6
<1>9. tab' \in [Tabs -> TabType]
  <2>1. \A t \in Tabs : tab'[t] \in TabType
    BY <1>1, <1>7, <1>8, TabParts
  <2>2. tab' = [t \in Tabs |-> tab'[t]]
    BY <1>6
  <2> QED
    BY <2>1, <2>2
<1>10. TabsTypeOK'
  BY <1>1, <1>3, <1>4, <1>9, Counted, MoveTypes DEF TabsTypeOK
<1>11. \A t \in Tabs : SameView(t) /\ tab'[t].authUpdate = tab[t].authUpdate
  BY <1>7, <1>8 DEF SameView
<1>12. DialogInv' /\ ClosedBySaveIsStored'
  BY <1>1, <1>3, <1>11 DEF DialogInv, ClosedBySaveIsStored, IsOpen, SameView
<1>13. SubmittedKept(1, "move", NoRequest) /\ LoadsKept /\ OneTab'
  BY <1>3, <1>11, SameViews
<1>14. ASSUME NEW t \in Tabs PROVE TabAlike(t, 1, "move", NoRequest) /\ DraftAlike(t)
  <2>1. Unheard(t, 1)
    BY <1>2 DEF Unheard, SavedAt
  <2>2. CASE tab[t].request = r
    <3>1. ClosesSaved(t) /\ (timeouts = 0 => AuthsApplied)
      BY DEF TabsInv, TabInv
    <3>2. NumbersKept(t) /\ BaseAlike(t, 1) /\ PlaceAlike(t, 1) /\ AuthAlike(t, "move", NoRequest) /\ DraftAlike(t)
      BY <1>3, <1>7, <2>1, <2>2
         DEF NumbersKept, BaseAlike, PlaceAlike, AuthAlike, DraftAlike, SameView, Loaded, LoadedThen, IsOpen
    <3>3. SaveAlike(t, "move", NoRequest) /\ CloseAlike(t, "move", NoRequest)
      BY <1>3, <1>7, <2>2 DEF SaveAlike, CloseAlike, SameView, Loaded, LoadedThen, IsOpen
    <3>4. timeouts = 0 => tab[t].authUpdate # 0
      <4> SUFFICES ASSUME timeouts = 0 PROVE tab[t].authUpdate # 0
        OBVIOUS
      <4>1. Applied(toPage[1].op, r)
        BY <1>2, <1>5, <3>1 DEF AuthsApplied
      <4>2. PICK u \in Tabs : tab[u].request = r /\ toPage[1].op <= tab[u].authUpdate
        BY <4>1 DEF Applied
      <4>3. r # NoRequest
        BY <1>2, <1>5, NamesAreApart
      <4>4. u = t
        BY <1>1, <2>2, <4>2, <4>3 DEF OneTab, IsOpen
      <4>5. toPage[1].op >= 1 /\ toPage[1].op \in Nat
        BY <1>1, <1>2, SeqDomains DEF TabsInv, PipeInv, NumbersInv
      <4> QED
        BY <1>1, <4>2, <4>4, <4>5, TabNumbers
    <3>5. ClosesAsBefore(t, "move", NoRequest)
      BY <1>3, <1>7, <2>2, <3>1, <3>4 DEF ClosesAsBefore, ClosesAlike, ClosesSaved, SameView, Loaded, LoadedThen, IsOpen
    <3> QED
      BY <1>3, <3>2, <3>3, <3>5 DEF TabAlike
  <2>3. CASE tab[t].request # r
    <3>1. Untouched(t)
      BY <1>3, <1>8, <2>3 DEF Untouched
    <3> QED
      BY <1>3, <2>1, <3>1, UntouchedAlike DEF DraftAlike, Untouched, Loaded, LoadedThen, IsOpen
  <2> QED
    BY <2>2, <2>3
<1>15. AppliedStay(1, "move", NoRequest)
  BY <1>1, <1>11, AppliedKept DEF SameView
<1>16. TreeMoves(1, 0)
  BY <1>1, <1>2, <1>3, TreeStays
<1> QED
  BY <1>3, <1>4, <1>10, <1>12, <1>13, <1>14, <1>15, <1>16, TabStep

-----------------------------------------------------------------------------
(* Tabs: opening and loading *)

LEMMA OpenStep ==
  ASSUME TabsInv, TabsTypeOK', DialogInv', OneTab', PageMoves(0, "move", NoRequest),
         UNCHANGED <<tree, closed, submitted, saving, closing, timeouts, jobs>>, LoadsKept,
         NEW t \in Tabs, \A u \in Tabs : u # t => tab'[u] = tab[u] /\ typed'[u] = typed[u],
         ~Loaded(t), tab'[t].authUpdate = tab[t].authUpdate,
         IsOpen(t) => tab'[t].request = tab[t].request /\ tab'[t].basePlace = tab[t].basePlace,
         LoadedThen(t) => tab'[t].text = typed'[t] /\ stored[tab'[t].request].place = Nowhere,
         ~IsOpen(t) => tree[tab'[t].request] \in {Nowhere, tab'[t].basePlace}
  PROVE  TabsInv'
<1>1. /\ TabsTypeOK /\ NumbersInv /\ DialogInv /\ ClosedBySaveIsStored
      /\ SaveSettles(t) /\ CloseSettles(t) /\ ClosesSaved(t)
  BY DEF TabsInv, TabInv, PipeInv
<1>2. stored' = stored
  BY DEF PageMoves
<1>3. TabAlike(t, 0, "move", NoRequest)
  <2>1. NumbersKept(t) /\ BaseAlike(t, 0) /\ PlaceAlike(t, 0)
    BY <1>2 DEF NumbersKept, BaseAlike, PlaceAlike, Unheard, IsOpen
  <2>2. SaveAlike(t, "move", NoRequest) /\ ClosesAsBefore(t, "move", NoRequest)
    BY <1>1 DEF SaveAlike, SaveSettles, ClosesAsBefore, ClosesSaved
  <2>3. CloseAlike(t, "move", NoRequest)
    BY <1>1 DEF CloseAlike, DialogInv
  <2>4. AuthAlike(t, "move", NoRequest)
    BY <1>1 DEF AuthAlike, DialogInv
  <2> QED
    BY <2>1, <2>2, <2>3, <2>4 DEF TabAlike
<1>4. ASSUME NEW u \in Tabs PROVE TabAlike(u, 0, "move", NoRequest) /\ DraftAlike(u) /\ Steady(u)
  <2>1. CASE u = t
    BY <1>3, <2>1 DEF DraftAlike, Steady
  <2>2. CASE u # t
    <3>1. Untouched(u) /\ typed'[u] = typed[u] /\ Unheard(u, 0)
      BY <2>2 DEF Untouched, Unheard
    <3>2. TabAlike(u, 0, "move", NoRequest)
      BY <3>1, UntouchedAlike
    <3> QED
      BY <3>1, <3>2 DEF DraftAlike, Steady, Untouched, Loaded, LoadedThen, IsOpen
  <2> QED
    BY <2>1, <2>2
<1>5. SubmittedKept(0, "move", NoRequest)
  BY <1>1, <1>4, SubmittedStays
<1>6. AppliedStay(0, "move", NoRequest)
  BY <1>1, AppliedKept DEF DialogInv
<1>7. TreeMoves(0, 0)
  BY <1>1, TreeStays
<1>8. ClosedBySaveIsStored'
  BY <1>1 DEF ClosedBySaveIsStored
<1> QED
  BY <1>4, <1>5, <1>6, <1>7, <1>8, TabStep

LEMMA LoadParts ==
  ASSUME TabsInv, NEW t \in Tabs, Load(t), tab'[t].request \in Requests, UNCHANGED <<jobs, toPage, stored>>,
         tab'[t].loading, ~tab'[t].loadFailed, \A u \in Tabs : u # t => tab'[u] = tab[u],
         ~(IsOpen(t) /\ tab[t].loading /\ ~tab[t].loadFailed)
  PROVE  PageMoves(0, "move", NoRequest) /\ LoadsKept /\ loads' \subseteq [op : Nat, tab : Tabs]
<1>1. TabsTypeOK /\ NumbersInv /\ LoadsInv /\ ops \in Nat
  BY SeqDomains DEF TabsInv, PipeInv
<1>2. PICK q : q = tab'[t].request
  OBVIOUS
<1>3. PICK e \in ReadType : e = [op |-> ops + 1, request |-> q]
  <2>1. ops + 1 \in Nat /\ q \in Requests
    BY <1>1, <1>2
  <2> QED
    BY <2>1 DEF ReadType
<1>4. e.op = ops + 1 /\ e.request = q
  BY <1>3
<1>5. reads' = Append(reads, e) /\ reads \in Seq(ReadType)
  BY <1>1, <1>2, <1>3 DEF Load, TabsTypeOK
<1>6. /\ reads' \in Seq(ReadType)
      /\ \A n \in DOMAIN reads : n \in DOMAIN reads' /\ reads'[n] = reads[n]
      /\ \A n \in DOMAIN reads' : n \notin DOMAIN reads => reads'[n] = e
  BY <1>5, Appended
<1>7. ops' = ops + 1
  BY DEF Load
<1>8. PageMoves(0, "move", NoRequest)
  <2>1. \A i \in DOMAIN toPage : i + 0 = i /\ i - 0 = i
    BY <1>1, SeqDomains
  <2>2. \A n \in DOMAIN reads' :
          \/ n \in DOMAIN reads /\ reads'[n] = reads[n]
          \/ reads'[n].op = ops + 1 /\ ops' = ops + 1 /\ jobs' = jobs /\ toPage' = toPage
    BY <1>4, <1>6, <1>7
  <2> QED
    BY <1>1, <1>6, <1>7, <2>1, <2>2 DEF PageMoves, TabsTypeOK
<1>9. PICK new : new = [op |-> ops + 1, tab |-> t] /\ new.op = ops + 1 /\ new.tab = t
  <2>1. PICK new : new = [op |-> ops + 1, tab |-> t]
    OBVIOUS
  <2> QED
    BY <2>1
<1>10. loads' = loads \cup {new}
  BY <1>9 DEF Load
<1>11. \A l \in loads : l.tab \in Tabs /\ l.op \in Nat /\ l.op <= ops
  BY <1>1 DEF TabsTypeOK, NumbersInv
<1>12. \A l \in loads : l.op # ops + 1 /\ l.tab # t
  <2>1. \A l \in loads : l.op # ops + 1
    BY <1>1, <1>11
  <2> QED
    BY <1>1, <2>1 DEF LoadsInv
<1>13. LoadsKept
  <2>1. ASSUME NEW l \in loads PROVE StillLoading(l)
    <3>1. tab'[l.tab] = tab[l.tab]
      BY <1>11, <1>12
    <3> QED
      BY <1>1, <3>1 DEF LoadsInv, StillLoading
  <2>2. NewLoad(new)
    <3>1. q # NoRequest
      BY <1>2, NamesAreApart
    <3>2. \A n \in DOMAIN reads' : n \notin DOMAIN reads => reads'[n].request = q
      BY <1>4, <1>6
    <3>3. \A k \in loads' : k.tab = t \/ k.op = ops + 1 => k = new
      BY <1>10, <1>12
    <3> QED
      BY <1>2, <1>6, <1>7, <1>9, <3>1, <3>2, <3>3 DEF NewLoad
  <2> QED
    BY <1>10, <2>1, <2>2 DEF LoadsKept
<1>14. loads' \subseteq [op : Nat, tab : Tabs]
  BY <1>1, <1>9, <1>10 DEF TabsTypeOK
<1> QED
  BY <1>8, <1>13, <1>14

LEMMA OpenedTab ==
  ASSUME NEW r \in Requests, NEW c \in Places
  PROVE  \E x \in TabType :
           /\ x = [ClosedTab EXCEPT !.request = r, !.place = c, !.basePlace = c]
           /\ x.request = r /\ x.basePlace = c /\ x.text = 0 /\ x.authUpdate = 0 /\ ~x.loadFailed
<1>1. PICK k \in TabType : k = ClosedTab /\ k.text = 0 /\ k.authUpdate = 0 /\ k.loadFailed = FALSE
  BY ClosedTabParts DEF ClosedTab
<1>2. PICK x : x = [k EXCEPT !.request = r, !.place = c, !.basePlace = c]
  OBVIOUS
<1>3. /\ x \in TabType /\ x.request = r /\ x.basePlace = c /\ x.text = 0 /\ x.authUpdate = 0 /\ x.loadFailed = FALSE
  BY <1>1, <1>2 DEF TabType
<1> QED
  BY <1>1, <1>2, <1>3

LEMMA OpenSavedKeeps ==
  ASSUME TabsInv, NEW t \in Tabs, NEW r \in Requests, OpenSaved(t, r)
  PROVE  TabsInv'
<1>1. TabsTypeOK /\ DialogInv /\ OneTab
  BY DEF TabsInv
<1>2. PICK c \in Places : c = tree[r]
  BY <1>1 DEF TabsTypeOK
<1>3. PICK y \in TabType :
        /\ y = [ClosedTab EXCEPT !.request = r, !.place = c, !.basePlace = c]
        /\ y.request = r /\ y.basePlace = c /\ y.text = 0 /\ y.authUpdate = 0 /\ ~y.loadFailed
  BY OpenedTab
<1>4. PICK x \in TabType : x = [y EXCEPT !.loading = TRUE]
  BY <1>3 DEF TabType
<1>5. x.request = r /\ x.basePlace = c /\ x.text = 0 /\ x.authUpdate = 0 /\ ~x.loadFailed /\ x.loading
  BY <1>3, <1>4 DEF TabType
<1>6. x = [ClosedTab EXCEPT !.request = r, !.place = c, !.basePlace = c, !.loading = TRUE]
  BY <1>3, <1>4
<1>7. tab' = [tab EXCEPT ![t] = x]
  BY <1>2, <1>6 DEF OpenSaved
<1>8. /\ tab'[t] = x /\ tab' \in [Tabs -> TabType] /\ \A u \in Tabs : u # t => tab'[u] = tab[u]
      /\ typed' \in [Tabs -> Texts] /\ \A u \in Tabs : u # t => typed'[u] = typed[u]
  BY <1>1, <1>7, ValuesAreNumbers DEF OpenSaved, TabsTypeOK
<1>9. /\ UNCHANGED <<saving, closing, dialog, tree, submitted, jobs, toPage, stored, staged, closed, edits, failures, timeouts>>
      /\ ~IsOpen(t) /\ dialog = NoDialog /\ Load(t) /\ \A u \in Tabs : tab[u].request # r
  BY DEF OpenSaved, hostState, Showing
<1>10. PageMoves(0, "move", NoRequest) /\ LoadsKept /\ loads' \subseteq [op : Nat, tab : Tabs]
  BY <1>5, <1>8, <1>9, LoadParts
<1>11. TabsTypeOK'
  <2>1. clicks' \in 0 .. MaxClicks
    BY <1>1, Counted DEF OpenSaved
  <2> QED
    BY <1>1, <1>8, <1>9, <1>10, <2>1, Counted, MoveTypes DEF TabsTypeOK
<1>12. r # NoRequest
  BY NamesAreApart
<1>13. DialogInv'
  <2>1. dialog'.tab \notin Tabs
    BY <1>9, NoDialogFits
  <2> QED
    BY <1>1, <1>5, <1>8, <1>9, <1>12, <2>1 DEF DialogInv, IsOpen
<1>14. OneTab'
  BY <1>1, <1>5, <1>8, <1>9 DEF OneTab, IsOpen
<1>15. ~Loaded(t) /\ ~LoadedThen(t) /\ tab[t].authUpdate = 0
  BY <1>1, <1>5, <1>8, <1>9 DEF Loaded, LoadedThen, DialogInv
<1> QED
  BY <1>2, <1>5, <1>8, <1>9, <1>10, <1>11, <1>13, <1>14, <1>15, OpenStep

LEMMA NewDraftKeeps ==
  ASSUME TabsInv, NEW t \in Tabs, NEW r \in Requests, NEW c \in Places, NewDraft(t, r, c)
  PROVE  TabsInv'
<1>1. TabsTypeOK /\ DialogInv /\ OneTab /\ LoadsInv
  BY DEF TabsInv
<1>2. PICK x \in TabType :
        /\ x = [ClosedTab EXCEPT !.request = r, !.place = c, !.basePlace = c]
        /\ x.request = r /\ x.basePlace = c /\ x.text = 0 /\ x.authUpdate = 0 /\ ~x.loadFailed
  BY OpenedTab
<1>3. tab' = [tab EXCEPT ![t] = x]
  BY <1>2 DEF NewDraft
<1>4. /\ tab'[t] = x /\ tab' \in [Tabs -> TabType] /\ \A u \in Tabs : u # t => tab'[u] = tab[u]
      /\ typed' \in [Tabs -> Texts] /\ typed'[t] = 0 /\ \A u \in Tabs : u # t => typed'[u] = typed[u]
  BY <1>1, <1>3, ValuesAreNumbers DEF NewDraft, TabsTypeOK
<1>5. /\ UNCHANGED <<saving, closing, dialog, tree, submitted, loads, ops, jobs, reads, toPage, stored, staged, closed, clicks, failures, timeouts>>
      /\ ~IsOpen(t) /\ dialog = NoDialog /\ stored[r] = NotStored /\ tree[r] = Nowhere
      /\ \A u \in Tabs : tab[u].request # r
  BY DEF NewDraft, hostState, Showing
<1>6. PageMoves(0, "move", NoRequest)
  BY <1>1, <1>5, StillMoves
<1>7. TabsTypeOK'
  BY <1>1, <1>4, <1>5, <1>6, Counted, MoveTypes DEF TabsTypeOK, NewDraft
<1>8. r # NoRequest
  BY NamesAreApart
<1>9. DialogInv'
  <2>1. dialog'.tab \notin Tabs
    BY <1>5, NoDialogFits
  <2> QED
    BY <1>1, <1>2, <1>4, <1>5, <1>8, <2>1 DEF DialogInv, IsOpen
<1>10. OneTab'
  <2>1. tab'[t].request = r /\ ~tab'[t].loadFailed /\ \A u \in Tabs : u # t => tab'[u] = tab[u]
    BY <1>2, <1>4
  <2>2. \A u \in Tabs : tab[u].request # r
    BY <1>5
  <2> QED
    BY <1>1, <2>1, <2>2 DEF OneTab, IsOpen
<1>11. LoadsKept
  <2>1. \A l \in loads : l.tab \in Tabs /\ l.tab # t
    BY <1>1, <1>5 DEF LoadsInv, TabsTypeOK
  <2> QED
    BY <1>1, <1>4, <1>5, <2>1 DEF LoadsKept, LoadsInv, StillLoading
<1>12. ~Loaded(t) /\ tab[t].authUpdate = 0 /\ stored[r].place = Nowhere
  BY <1>1, <1>5 DEF Loaded, DialogInv, NotStored
<1> QED
  BY <1>2, <1>4, <1>5, <1>6, <1>7, <1>9, <1>10, <1>11, <1>12, OpenStep

LEMMA RetryLoadKeeps ==
  ASSUME TabsInv, NEW t \in Tabs, RetryLoad(t)
  PROVE  TabsInv'
<1>1. TabsTypeOK /\ DialogInv /\ OneTab
  BY DEF TabsInv
<1>2. tab[t] \in TabType
  BY <1>1, TabParts
<1>3. PICK y \in TabType : y = [tab[t] EXCEPT !.loading = TRUE]
  BY <1>2 DEF TabType
<1>4. PICK x \in TabType : x = [y EXCEPT !.loadFailed = FALSE]
  BY <1>3 DEF TabType
<1>5. /\ x.request = tab[t].request /\ x.basePlace = tab[t].basePlace /\ x.authUpdate = tab[t].authUpdate
      /\ x.loading = TRUE /\ x.loadFailed = FALSE
  BY <1>2, <1>3, <1>4 DEF TabType
<1>6. tab' = [tab EXCEPT ![t] = x]
  BY <1>1, <1>3, <1>4 DEF RetryLoad, TabsTypeOK
<1>7. tab'[t] = x /\ tab' \in [Tabs -> TabType] /\ \A u \in Tabs : u # t => tab'[u] = tab[u]
  BY <1>1, <1>6 DEF TabsTypeOK
<1>8. /\ UNCHANGED <<saving, closing, dialog, tree, submitted, jobs, toPage, stored, staged, typed, closed, edits, failures, timeouts>>
      /\ tab[t].loadFailed /\ Load(t)
  BY DEF RetryLoad, hostState
<1>9. ~Loaded(t) /\ ~LoadedThen(t)
  BY <1>5, <1>7, <1>8 DEF Loaded, LoadedThen
<1>10. IsOpen(t) /\ tab[t].request \in Requests
  BY <1>1, <1>8, TabParts DEF OneTab
<1>11. PageMoves(0, "move", NoRequest) /\ LoadsKept /\ loads' \subseteq [op : Nat, tab : Tabs]
  <2>1. /\ tab'[t].request \in Requests /\ tab'[t].loading /\ ~tab'[t].loadFailed
        /\ ~(IsOpen(t) /\ tab[t].loading /\ ~tab[t].loadFailed)
    BY <1>5, <1>7, <1>8, <1>10
  <2> QED
    BY <1>7, <1>8, <2>1, LoadParts
<1>12. TabsTypeOK'
  <2>1. clicks' \in 0 .. MaxClicks
    BY <1>1, Counted DEF RetryLoad
  <2> QED
    BY <1>1, <1>7, <1>8, <1>11, <2>1, Counted, MoveTypes DEF TabsTypeOK
<1>13. DialogInv' /\ OneTab'
  <2>1. \A u \in Tabs : tab'[u].request = tab[u].request /\ (tab'[u].loadFailed => tab[u].loadFailed)
    BY <1>5, <1>7, <1>8
  <2>2. \A u \in Tabs : tab'[u].authUpdate = tab[u].authUpdate
    BY <1>5, <1>7
  <2> QED
    BY <1>1, <1>8, <2>1, <2>2 DEF DialogInv, OneTab, IsOpen
<1> QED
  BY <1>5, <1>7, <1>8, <1>9, <1>10, <1>11, <1>12, <1>13, OpenStep

(***************************************************************************)
(* A save is sent as the tab shows it.                                     *)
(***************************************************************************)
LEMMA PostSaveKeeps ==
  ASSUME TabsInv, NEW t \in Tabs, PostSave(t)
  PROVE  TabsInv'
<1>1. /\ TabsTypeOK /\ DialogInv /\ OneTab /\ ClosedBySaveIsStored /\ NumbersInv /\ LoadsInv
      /\ CloseSettles(t) /\ ClosesSaved(t)
  BY DEF TabsInv, TabInv, PipeInv
<1>2. PICK q, x : q = tab[t].request /\ x = tab[t]
  OBVIOUS
<1>3. /\ Loaded(t) /\ q \in Requests /\ ops \in Nat /\ saving[t].stage = "ready" /\ x.place # Nowhere
      /\ x \in TabType /\ x.text \in Texts /\ x.auth \in Auths /\ x.place \in Places /\ x.authRevision \in Nat
  <2>1. IsOpen(t) /\ saving[t].stage = "ready"
    BY <1>1 DEF PostSave, DialogInv
  <2>2. x.authRevision \in Nat
    BY <1>1, <1>2, TabParts DEF TabType
  <2> QED
    BY <1>1, <1>2, <2>1, <2>2, TabParts, SeqDomains DEF PostSave, CanSave, Loaded
<1>4. Job("save", q, x) \in JobType /\ Post("save", q, x)
  BY <1>1, <1>2, <1>3, JobTyped DEF PostSave
<1>5. UNCHANGED <<tab, closing, dialog, tree, loads, reads, toPage, hostState, stored, staged, typed, closed, edits, clicks, failures, timeouts>>
  BY DEF PostSave, hostState, bounded
<1>6. PageMoves(0, "save", q)
  BY <1>1, <1>3, <1>4, <1>5, PostMoves
<1>7. /\ ops' = ops + 1 /\ ops + 1 \in Nat
      /\ \A n \in DOMAIN jobs' : n \notin DOMAIN jobs => jobs'[n].place = x.place /\ jobs'[n].text = x.text
  BY <1>1, <1>3, <1>4, PostParts
<1>8. PICK new \in SnapshotType :
        /\ new = [op |-> ops + 1, tab |-> t, request |-> q, text |-> x.text, auth |-> x.auth,
                  authRevision |-> x.authRevision, place |-> x.place]
        /\ new.op = ops + 1 /\ new.tab = t /\ new.request = q /\ new.text = x.text /\ new.place = x.place
  <2>1. PICK new : new = [op |-> ops + 1, tab |-> t, request |-> q, text |-> x.text, auth |-> x.auth,
                          authRevision |-> x.authRevision, place |-> x.place]
    OBVIOUS
  <2>2. new \in SnapshotType
    BY <1>3, <1>7, <2>1 DEF SnapshotType
  <2>3. new.op = ops + 1 /\ new.tab = t /\ new.request = q /\ new.text = x.text /\ new.place = x.place
    BY <2>1
  <2> QED
    BY <2>1, <2>2, <2>3
<1>9. submitted' = submitted \cup {new}
  BY <1>2, <1>8 DEF PostSave
<1>10. /\ saving'[t].stage = "posted" /\ saving'[t].op = ops + 1 /\ \A u \in Tabs : u # t => saving'[u] = saving[u]
       /\ saving' \in [Tabs -> [stage : {"none", "flushing", "auth", "ready", "posted"}, op : Nat]]
  BY <1>1, <1>7 DEF PostSave, TabsTypeOK
<1>11. TabsTypeOK'
  <2>1. submitted' \subseteq SnapshotType
    BY <1>1, <1>8, <1>9 DEF TabsTypeOK
  <2> QED
    BY <1>1, <1>5, <1>6, <1>10, <2>1, Counted, MoveTypes DEF TabsTypeOK
<1>12. DialogInv' /\ OneTab' /\ ClosedBySaveIsStored'
  <2>1. DialogInv'
    BY <1>1, <1>3, <1>5, <1>10 DEF DialogInv, IsOpen, Loaded
  <2>2. OneTab' /\ ClosedBySaveIsStored'
    BY <1>1, <1>5 DEF OneTab, ClosedBySaveIsStored, IsOpen
  <2> QED
    BY <2>1, <2>2
<1>13. LoadsKept
  BY <1>1, <1>5 DEF LoadsKept, LoadsInv, StillLoading, IsOpen
<1>14. SubmittedKept(0, "save", q)
  <2>1. \A op, r, text : Owned(op, r, text) => OwnedThen(op, r, text)
    BY <1>5, <1>9 DEF Owned, OwnedThen, Loaded, IsOpen
  <2>2. OwnedThen(ops + 1, q, x.text)
    BY <1>2, <1>3, <1>5, <1>8, <1>9 DEF OwnedThen, Loaded, IsOpen
  <2>3. \A s \in submitted : s.op # ops + 1
    <3>1. \A s \in submitted : s.op \in Nat /\ s.op <= ops
      BY <1>1 DEF TabsTypeOK, SnapshotType, NumbersInv
    <3> QED
      BY <1>3, <3>1
  <2>4. \A n \in DOMAIN jobs' : n \notin DOMAIN jobs => new.place = jobs'[n].place
    BY <1>7, <1>8
  <2> QED
    BY <1>7, <1>8, <1>9, <2>1, <2>2, <2>3, <2>4 DEF SubmittedKept
<1>15. ASSUME NEW u \in Tabs PROVE TabAlike(u, 0, "save", q) /\ DraftAlike(u)
  <2>1. Unheard(u, 0)
    BY DEF Unheard
  <2>2. DraftAlike(u)
    BY <1>5 DEF DraftAlike, Loaded, LoadedThen, IsOpen
  <2>3. CASE u = t
    <3>1. NumbersKept(u) /\ BaseAlike(u, 0) /\ PlaceAlike(u, 0) /\ AuthAlike(u, "save", q)
      BY <1>5, <1>7, <1>10, <2>1, <2>3 DEF NumbersKept, BaseAlike, PlaceAlike, AuthAlike, Loaded, LoadedThen, IsOpen
    <3>2. SaveAlike(u, "save", q)
      BY <1>2, <1>3, <1>5, <1>7, <1>10, <2>3 DEF SaveAlike, Fresh, Loaded, LoadedThen, IsOpen
    <3>3. CloseAlike(u, "save", q)
      BY <1>1, <1>3, <1>5, <2>3 DEF CloseAlike, CloseSettles
    <3>4. ClosesAsBefore(u, "save", q)
      BY <1>1, <1>3, <1>5, <2>3 DEF ClosesAsBefore, ClosesSaved
    <3>5. timeouts' = timeouts
      BY <1>5
    <3> QED
      BY <2>2, <3>1, <3>2, <3>3, <3>4, <3>5 DEF TabAlike
  <2>4. CASE u # t
    <3>1. Untouched(u) /\ q # tab[u].request
      BY <1>1, <1>2, <1>3, <1>5, <1>10, <2>4 DEF Untouched, OneTab, Loaded
    <3>2. TabAlike(u, 0, "save", q)
      BY <1>5, <2>1, <3>1, UntouchedAlike
    <3> QED
      BY <2>2, <3>2
  <2> QED
    BY <2>2, <2>3, <2>4
<1>16. AppliedStay(0, "save", q)
  BY <1>1, <1>5, AppliedKept
<1>17. TreeMoves(0, 0)
  BY <1>1, <1>5, TreeStays
<1> QED
  BY <1>5, <1>6, <1>11, <1>12, <1>13, <1>14, <1>15, <1>16, <1>17, TabStep

(***************************************************************************)
(* The answer to a save makes what was sent what is saved.                 *)
(***************************************************************************)
LEMMA MergedParts ==
  ASSUME NEW x \in TabType, NEW s \in SnapshotType, NEW m \in MessageType
  PROVE  LET y == Merged(x, s, m) IN
         /\ y \in TabType /\ y.request = x.request /\ y.loading = x.loading /\ y.loadFailed = x.loadFailed
         /\ y.authUpdate = x.authUpdate /\ y.baseText = m.text /\ y.baseAuth = m.auth /\ y.basePlace = s.place
         /\ y.text = IF x.text = s.text THEN m.text ELSE x.text
<1>1. /\ m.text \in Texts /\ m.auth \in Auths /\ s.place \in Places /\ x.text \in Texts /\ x.auth \in Auths
      /\ x.authPending \in BOOLEAN
  BY DEF TabType, SnapshotType, MessageType
<1>2. PICK v, a, p : /\ v = IF x.text = s.text THEN m.text ELSE x.text
                     /\ a = IF x.auth = s.auth THEN m.auth ELSE x.auth
                     /\ p = IF x.authRevision = s.authRevision THEN FALSE ELSE x.authPending
  OBVIOUS
<1>3. v \in Texts /\ a \in Auths /\ p \in BOOLEAN
  BY <1>1, <1>2
<1>4. PICK y1 \in TabType : y1 = [x EXCEPT !.text = v]
  BY <1>3 DEF TabType
<1>5. PICK y2 \in TabType : y2 = [y1 EXCEPT !.auth = a]
  BY <1>3, <1>4 DEF TabType
<1>6. PICK y3 \in TabType : y3 = [y2 EXCEPT !.baseText = m.text]
  BY <1>1, <1>5 DEF TabType
<1>7. PICK y4 \in TabType : y4 = [y3 EXCEPT !.baseAuth = m.auth]
  BY <1>1, <1>6 DEF TabType
<1>8. PICK y5 \in TabType : y5 = [y4 EXCEPT !.basePlace = s.place]
  BY <1>1, <1>7 DEF TabType
<1>9. PICK y \in TabType : y = [y5 EXCEPT !.authPending = p]
  BY <1>3, <1>8 DEF TabType
<1>10. Merged(x, s, m) = y
  BY <1>2, <1>4, <1>5, <1>6, <1>7, <1>8, <1>9 DEF Merged
<1>11. y1.text = v /\ y1.request = x.request /\ y1.loading = x.loading /\ y1.loadFailed = x.loadFailed
       /\ y1.authUpdate = x.authUpdate
  BY <1>4 DEF TabType
<1>12. y2.text = v /\ y2.request = x.request /\ y2.loading = x.loading /\ y2.loadFailed = x.loadFailed
       /\ y2.authUpdate = x.authUpdate
  BY <1>5, <1>11 DEF TabType
<1>13. y3.text = v /\ y3.request = x.request /\ y3.loading = x.loading /\ y3.loadFailed = x.loadFailed
       /\ y3.authUpdate = x.authUpdate /\ y3.baseText = m.text
  BY <1>6, <1>12 DEF TabType
<1>14. y4.text = v /\ y4.request = x.request /\ y4.loading = x.loading /\ y4.loadFailed = x.loadFailed
       /\ y4.authUpdate = x.authUpdate /\ y4.baseText = m.text /\ y4.baseAuth = m.auth
  BY <1>7, <1>13 DEF TabType
<1>15. y5.text = v /\ y5.request = x.request /\ y5.loading = x.loading /\ y5.loadFailed = x.loadFailed
       /\ y5.authUpdate = x.authUpdate /\ y5.baseText = m.text /\ y5.baseAuth = m.auth /\ y5.basePlace = s.place
  BY <1>8, <1>14 DEF TabType
<1>16. y.text = v /\ y.request = x.request /\ y.loading = x.loading /\ y.loadFailed = x.loadFailed
       /\ y.authUpdate = x.authUpdate /\ y.baseText = m.text /\ y.baseAuth = m.auth /\ y.basePlace = s.place
  BY <1>9, <1>15 DEF TabType
<1> QED
  BY <1>2, <1>10, <1>16

LEMMA AcceptSavedKeeps ==
  ASSUME TabsInv, AcceptSaved
  PROVE  TabsInv'
<1>1. /\ TabsTypeOK /\ DialogInv /\ OneTab /\ ClosedBySaveIsStored /\ NumbersInv /\ OrderInv /\ SavesOwned
      /\ SavedOrder /\ SavedPlace
  BY DEF TabsInv, PipeInv
<1>2. /\ toPage # <<>> /\ toPage' = Tail(toPage) /\ Pushed = toPage[1] /\ toPage[1].kind = "saved"
      /\ 1 \in DOMAIN toPage /\ toPage[1] \in MessageType
      /\ toPage[1].op \in Nat /\ toPage[1].request \in Requests
  BY <1>1, HeardParts DEF AcceptSaved
<1>3. UNCHANGED <<saving, closing, dialog, tree, loads, ops, jobs, reads, stored, staged, typed, closed, edits, clicks, failures, timeouts>>
  BY DEF AcceptSaved, hostState, bounded
<1>4. PageMoves(1, "move", NoRequest)
  BY <1>1, <1>2, <1>3, HearMoves
<1>5. PICK m \in MessageType, r \in Requests : m = toPage[1] /\ r = m.request
  BY <1>2
<1>6. PICK s \in submitted :
        /\ s.op = m.op /\ submitted' = submitted \ {s}
        /\ tab' = [tab EXCEPT ![s.tab] = IF @.request = s.request THEN Merged(@, s, m) ELSE @]
  BY <1>2, <1>5 DEF AcceptSaved
<1>7. PICK t \in Tabs : t = s.tab
  BY <1>1 DEF TabsTypeOK, SnapshotType
<1>8. s \in SnapshotType /\ s.request = r /\ s.text = m.text /\ tab[t].request = r /\ Loaded(t)
  <2>1. Owned(m.op, r, m.text)
    BY <1>1, <1>2, <1>5 DEF SavesOwned
  <2>2. PICK u \in submitted : u.op = m.op /\ u.request = r /\ u.text = m.text /\ tab[u.tab].request = r /\ Loaded(u.tab)
    BY <2>1 DEF Owned
  <2>3. u = s
    BY <1>1, <1>6, <2>2 DEF OrderInv
  <2> QED
    BY <1>1, <1>7, <2>2, <2>3 DEF TabsTypeOK
<1>9. PICK x \in TabType : x = tab[t]
  BY <1>1, TabParts
<1>10. /\ tab'[t] = Merged(x, s, m) /\ \A u \in Tabs : u # t => tab'[u] = tab[u]
  BY <1>1, <1>6, <1>7, <1>8, <1>9 DEF TabsTypeOK
<1>11. /\ tab'[t] \in TabType /\ SameView(t) /\ tab'[t].text = tab[t].text
       /\ tab'[t].authUpdate = tab[t].authUpdate
       /\ tab'[t].baseText = m.text /\ tab'[t].baseAuth = m.auth /\ tab'[t].basePlace = s.place
  BY <1>8, <1>9, <1>10, MergedParts DEF SameView
<1>12. \A u \in Tabs : SameView(u) /\ tab'[u].authUpdate = tab[u].authUpdate
  BY <1>10, <1>11 DEF SameView
<1>13. TabsTypeOK'
  <2>1. tab' \in [Tabs -> TabType]
    <3>1. \A u \in Tabs : tab'[u] \in TabType
      BY <1>1, <1>10, <1>11, TabParts
    <3>2. tab' = [u \in Tabs |-> tab'[u]]
      BY <1>1, <1>6 DEF TabsTypeOK
    <3> QED
      BY <3>1, <3>2
  <2>2. submitted' \subseteq SnapshotType
    BY <1>1, <1>6 DEF TabsTypeOK
  <2> QED
    BY <1>1, <1>3, <1>4, <2>1, <2>2, Counted, MoveTypes DEF TabsTypeOK
<1>14. DialogInv' /\ ClosedBySaveIsStored'
  BY <1>1, <1>3, <1>12 DEF DialogInv, ClosedBySaveIsStored, IsOpen, SameView
<1>15. SubmittedKept(1, "move", NoRequest) /\ LoadsKept /\ OneTab'
  <2>1. \A n \in DOMAIN jobs : m.op < jobs[n].op
    BY <1>1, <1>2, <1>5 DEF SavedOrder
  <2>2. \A i \in DOMAIN toPage : i > 1 /\ toPage[i].kind = "saved" => m.op < toPage[i].op
    <3>1. \A i \in DOMAIN toPage : i \in Nat /\ (i > 1 => 1 < i)
      BY <1>1, SeqDomains
    <3> QED
      BY <1>1, <1>2, <1>5, <3>1 DEF SavedOrder
  <2>3. \A q : ~SaveLeft(1, m.op, q)
    BY <1>1, <1>2, <1>5, <2>1, <2>2, SeqDomains DEF SaveLeft
  <2>4. \A u \in submitted : u \in submitted' \/ u = s
    BY <1>6
  <2>5. \A u \in submitted : u \in submitted' \/ \A q : ~SaveLeft(1, u.op, q)
    BY <1>6, <2>3, <2>4
  <2>6. (\A u \in submitted' : u \in submitted) /\ jobs' = jobs /\ loads' = loads
    BY <1>3, <1>6
  <2> QED
    BY <1>12, <2>5, <2>6, SameViews
<1>16. BaseIsStored(t)'
  <2> SUFFICES ASSUME stored[r].place # Nowhere
               PROVE  /\ (\A i \in DOMAIN toPage' : ~SavedAtThen(i, r)) =>
                           tab'[t].baseText = stored[r].text /\ tab'[t].baseAuth = stored[r].auth
                      /\ \A i \in DOMAIN toPage' :
                           SavedAtThen(i, r) /\ (\A j \in DOMAIN toPage' : j > i => ~SavedAtThen(j, r)) =>
                             toPage'[i].text = stored[r].text /\ toPage'[i].auth = stored[r].auth
    <3>1. tab'[t].request = r /\ stored' = stored
      BY <1>3, <1>8, <1>11 DEF SameView
    <3> QED
      BY <3>1 DEF BaseIsStored, IsStored, SavedAt, SavedAtThen
  <2>1. \A i \in DOMAIN toPage :
          SavedAt(i, r) /\ (\A j \in DOMAIN toPage : j > i => ~SavedAt(j, r)) =>
            toPage[i].text = stored[r].text /\ toPage[i].auth = stored[r].auth
    BY <1>8 DEF TabsInv, TabInv, BaseIsStored, IsStored
  <2>2. /\ \A j \in DOMAIN toPage : j > 1 => j - 1 \in DOMAIN toPage' /\ toPage'[j - 1] = toPage[j]
        /\ \A j \in DOMAIN toPage : j \in Nat /\ j >= 1
        /\ \A i \in DOMAIN toPage' : i + 1 \in DOMAIN toPage /\ toPage'[i] = toPage[i + 1] /\ i \in Nat
    BY <1>1, <1>4, SeqDomains, MovesDomains DEF PageMoves
  <2>3. ASSUME \A i \in DOMAIN toPage' : ~SavedAtThen(i, r)
        PROVE  m.text = stored[r].text /\ m.auth = stored[r].auth
    <3>1. \A j \in DOMAIN toPage : j > 1 => ~SavedAt(j, r)
      BY <2>2, <2>3 DEF SavedAt, SavedAtThen
    <3>2. SavedAt(1, r)
      BY <1>2, <1>5 DEF SavedAt
    <3> QED
      BY <1>2, <1>5, <2>1, <3>1, <3>2
  <2>4. ASSUME NEW i \in DOMAIN toPage', SavedAtThen(i, r), \A j \in DOMAIN toPage' : j > i => ~SavedAtThen(j, r)
        PROVE  toPage'[i].text = stored[r].text /\ toPage'[i].auth = stored[r].auth
    <3>1. \A j \in DOMAIN toPage : j > i + 1 => ~SavedAt(j, r)
      <4> SUFFICES ASSUME NEW j \in DOMAIN toPage, j > i + 1, SavedAt(j, r) PROVE FALSE
        OBVIOUS
      <4>1. j > 1 /\ j - 1 > i
        BY <2>2
      <4>2. SavedAtThen(j - 1, r)
        BY <2>2, <4>1 DEF SavedAt, SavedAtThen
      <4> QED
        BY <2>2, <2>4, <4>1, <4>2
    <3>2. SavedAt(i + 1, r) /\ i + 1 \in DOMAIN toPage /\ toPage'[i] = toPage[i + 1]
      BY <2>2, <2>4 DEF SavedAt, SavedAtThen
    <3> QED
      BY <2>1, <3>1, <3>2
  <2> QED
    BY <1>11, <2>3, <2>4
<1>17. s.place = tree[r]
  <2>1. \A u \in submitted : u.op = toPage[1].op => u.place = PlacesAt(1 - 1)[toPage[1].request]
    BY <1>1, <1>2 DEF SavedPlace
  <2>2. PlacesAt(1 - 1) = tree
    BY DEF PlacesAt
  <2> QED
    BY <1>5, <1>6, <2>1, <2>2
<1>18. ASSUME NEW u \in Tabs PROVE TabAlike(u, 1, "move", NoRequest) /\ DraftAlike(u)
  <2>1. CASE u = t
    <3>1. ClosesSaved(t)
      BY DEF TabsInv, TabInv
    <3>2. NumbersKept(u) /\ AuthAlike(u, "move", NoRequest) /\ DraftAlike(u)
      BY <1>3, <1>11, <2>1 DEF NumbersKept, AuthAlike, DraftAlike, SameView, Loaded, LoadedThen, IsOpen
    <3>3. SaveAlike(u, "move", NoRequest) /\ CloseAlike(u, "move", NoRequest)
      BY <1>3, <1>8, <1>11, <2>1 DEF SaveAlike, CloseAlike, SameView, Loaded, LoadedThen, IsOpen
    <3>4. ClosesAsBefore(u, "move", NoRequest)
      <4>1. SavedAt(1, r) /\ 1 > 0
        BY <1>2, <1>5 DEF SavedAt
      <4>2. ~NoneLeft(r, {"save", "delete"}, 0)
        BY <1>2, <4>1 DEF NoneLeft
      <4> QED
        BY <1>3, <1>8, <2>1, <3>1, <4>2 DEF ClosesAsBefore, ClosesSaved
    <3>5. PlaceAlike(u, 1)
      BY <1>3, <1>8, <1>11, <1>17, <2>1 DEF PlaceAlike, SameView
    <3>6. timeouts' = timeouts
      BY <1>3
    <3> QED
      BY <1>16, <2>1, <3>2, <3>3, <3>4, <3>5, <3>6 DEF TabAlike
  <2>2. CASE u # t
    <3>1. Untouched(u) /\ typed' = typed
      BY <1>3, <1>10, <2>2 DEF Untouched
    <3>2. Unheard(u, 1)
      BY <1>1, <1>2, <1>5, <1>8, <2>2 DEF Unheard, SavedAt, OneTab, Loaded
    <3>3. tree' = tree /\ timeouts' = timeouts
      BY <1>3
    <3>4. TabAlike(u, 1, "move", NoRequest)
      BY <3>1, <3>2, <3>3, UntouchedAlike
    <3> QED
      BY <3>1, <3>4 DEF DraftAlike, Untouched, Loaded, LoadedThen, IsOpen
  <2> QED
    BY <2>1, <2>2
<1>19. AppliedStay(1, "move", NoRequest)
  BY <1>1, <1>12, AppliedKept DEF SameView
<1>20. TreeMoves(1, 0)
  BY <1>1, <1>2, <1>3, TreeStays
<1> QED
  BY <1>3, <1>4, <1>13, <1>14, <1>15, <1>18, <1>19, <1>20, TabStep

(***************************************************************************)
(* A tab follows its request to the place the tree shows it in.            *)
(***************************************************************************)
LEMMA MovedParts ==
  ASSUME TabsTypeOK, NEW t \in Tabs, NEW m \in MessageType, m.places \in [Requests -> Places],
         NEW y, y = Moved(tab[t], t, m)
  PROVE  /\ y \in TabType /\ y.request = tab[t].request /\ y.loading = tab[t].loading /\ y.loadFailed = tab[t].loadFailed
         /\ y.authUpdate = tab[t].authUpdate /\ y.text = tab[t].text /\ y.auth = tab[t].auth
         /\ y.baseText = tab[t].baseText /\ y.baseAuth = tab[t].baseAuth
         /\ tab[t].request \in Requests =>
              \/ /\ Nowhere \in {tree[tab[t].request], m.places[tab[t].request]}
                     \/ tree[tab[t].request] = m.places[tab[t].request]
                 /\ y.basePlace = tab[t].basePlace
              \/ y.basePlace = m.places[tab[t].request]
<1>1. PICK x \in TabType : x = tab[t]
  BY TabParts
<1>2. CASE y = x
  <2>1. x.request \in Requests => Nowhere \in {tree[x.request], m.places[x.request]} \/ tree[x.request] = m.places[x.request]
                                  \/ y.basePlace = m.places[x.request]
    <3> SUFFICES ASSUME x.request \in Requests,
                        ~(Nowhere \in {tree[x.request], m.places[x.request]}), tree[x.request] # m.places[x.request]
                 PROVE  y.basePlace = m.places[x.request]
      OBVIOUS
    <3>1. x.request # NoRequest
      BY NamesAreApart
    <3>2. PICK p : p = IF /\ ~\E s \in submitted : s.op = m.op /\ s.tab = t
                          /\ x.basePlace # m.places[x.request] /\ x.place = tree[x.request]
                       THEN m.places[x.request] ELSE x.place
      OBVIOUS
    <3>3. y = [x EXCEPT !.basePlace = m.places[x.request], !.place = p]
      BY <1>1, <3>1, <3>2 DEF Moved
    <3> QED
      BY <3>3 DEF TabType
  <2> QED
    BY <1>1, <1>2, <2>1
<1>3. CASE y # x
  <2>1. x.request # NoRequest /\ x.request \in Requests
    BY <1>1, <1>3 DEF Moved, TabType
  <2>2. PICK new \in Places : new = m.places[x.request]
    BY <2>1
  <2>3. PICK p \in Places : p = IF /\ ~\E s \in submitted : s.op = m.op /\ s.tab = t
                                   /\ x.basePlace # new /\ x.place = tree[x.request]
                                THEN new ELSE x.place
    BY <2>2 DEF TabType
  <2>4. y = [x EXCEPT !.basePlace = new, !.place = p]
    BY <1>1, <1>3, <2>1, <2>2, <2>3 DEF Moved
  <2>5. PICK z \in TabType : z = [x EXCEPT !.basePlace = new]
    BY <1>1 DEF TabType
  <2>6. y = [z EXCEPT !.place = p] /\ y \in TabType
    BY <2>4, <2>5 DEF TabType
  <2>7. /\ z.request = x.request /\ z.loading = x.loading /\ z.loadFailed = x.loadFailed
        /\ z.authUpdate = x.authUpdate /\ z.text = x.text /\ z.auth = x.auth
        /\ z.baseText = x.baseText /\ z.baseAuth = x.baseAuth /\ z.basePlace = new
    BY <2>5 DEF TabType
  <2>8. /\ y.request = x.request /\ y.loading = x.loading /\ y.loadFailed = x.loadFailed
        /\ y.authUpdate = x.authUpdate /\ y.text = x.text /\ y.auth = x.auth
        /\ y.baseText = x.baseText /\ y.baseAuth = x.baseAuth /\ y.basePlace = new
    BY <2>5, <2>6, <2>7 DEF TabType
  <2> QED
    BY <1>1, <2>2, <2>6, <2>8
<1> QED
  BY <1>2, <1>3

LEMMA ShowTreeKeeps ==
  ASSUME TabsInv, ShowTree
  PROVE  TabsInv'
<1>1. /\ TabsTypeOK /\ DialogInv /\ OneTab /\ ClosedBySaveIsStored /\ OrderInv /\ PlacesInv
  BY DEF TabsInv, PipeInv
<1>2. /\ toPage # <<>> /\ toPage' = Tail(toPage) /\ Pushed = toPage[1] /\ toPage[1].kind = "collections"
      /\ 1 \in DOMAIN toPage /\ toPage[1] \in MessageType
  BY <1>1, HeardParts DEF ShowTree
<1>3. UNCHANGED <<saving, closing, dialog, submitted, loads, ops, jobs, reads, stored, staged, typed, closed, edits, clicks, failures, timeouts>>
  BY DEF ShowTree, hostState, bounded
<1>4. PageMoves(1, "move", NoRequest)
  BY <1>1, <1>2, <1>3, HearMoves
<1>5. PICK m \in MessageType : m = toPage[1] /\ m.places \in [Requests -> Places]
  BY <1>1, <1>2 DEF OrderInv
<1>6. tab' = [t \in Tabs |-> Moved(tab[t], t, m)] /\ tree' = m.places
  BY <1>2, <1>5 DEF ShowTree
<1>7. ASSUME NEW t \in Tabs
      PROVE  /\ tab'[t] \in TabType /\ SameView(t) /\ tab'[t].authUpdate = tab[t].authUpdate
             /\ tab'[t].text = tab[t].text /\ tab'[t].auth = tab[t].auth
             /\ tab'[t].baseText = tab[t].baseText /\ tab'[t].baseAuth = tab[t].baseAuth
             /\ tab[t].request \in Requests =>
                  \/ /\ Nowhere \in {tree[tab[t].request], m.places[tab[t].request]}
                         \/ tree[tab[t].request] = m.places[tab[t].request]
                     /\ tab'[t].basePlace = tab[t].basePlace
                  \/ tab'[t].basePlace = m.places[tab[t].request]
  <2>1. tab'[t] = Moved(tab[t], t, m)
    BY <1>6
  <2> QED
    BY <1>1, <1>5, <2>1, MovedParts DEF SameView
<1>8. \A t \in Tabs : SameView(t) /\ tab'[t].authUpdate = tab[t].authUpdate
  BY <1>7
<1>9. TabsTypeOK'
  <2>1. tab' \in [Tabs -> TabType]
    <3>1. \A u \in Tabs : tab'[u] \in TabType
      BY <1>7
    <3>2. tab' = [u \in Tabs |-> tab'[u]]
      BY <1>6
    <3> QED
      BY <3>1, <3>2
  <2>2. tree' \in [Requests -> Places]
    BY <1>5, <1>6
  <2> QED
    BY <1>1, <1>3, <1>4, <2>1, <2>2, Counted, MoveTypes DEF TabsTypeOK
<1>10. DialogInv' /\ ClosedBySaveIsStored'
  BY <1>1, <1>3, <1>8 DEF DialogInv, ClosedBySaveIsStored, IsOpen, SameView
<1>11. SubmittedKept(1, "move", NoRequest) /\ LoadsKept /\ OneTab'
  BY <1>3, <1>8, SameViews
<1>12. ASSUME NEW t \in Tabs PROVE BasePlace(t)'
  <2>1. PICK r : r = tab[t].request
    OBVIOUS
  <2> SUFFICES ASSUME r # NoRequest, m.places[r] # Nowhere
               PROVE  tab'[t].basePlace = m.places[r] \/ SavedAtThen(1, r)
    BY <1>6, <1>8, <2>1 DEF BasePlace, IsOpen, SameView, SavedAt, SavedAtThen
  <2>2. r \in Requests
    BY <1>1, <2>1, TabParts DEF IsOpen
  <2>3. CASE tree[r] = Nowhere
    <3>1. /\ IsTree(0) /\ IsTree(1) /\ PlacesAt(0) = tree /\ PlacesAt(1) = m.places /\ 0 < 1
          /\ \A k \in DOMAIN toPage : ~(0 < k /\ k < 1)
      <4>1. \A k \in DOMAIN toPage : k \in Nat
        BY <1>1, SeqDomains
      <4> QED
        BY <1>2, <1>5, <4>1 DEF IsTree, PlacesAt
    <3>2. 0 \in 0 .. Len(toPage)
      BY <1>1 DEF TabsTypeOK
    <3>3. SavedAt(1 + 1, r)
      BY <1>1, <1>2, <2>2, <2>3, <3>1, <3>2 DEF PlacesInv
    <3>4. SavedAtThen(1, r)
      <4>1. PICK k : k = 1 + 1 /\ k > 1 /\ k - 1 = 1
        OBVIOUS
      <4>2. k \in DOMAIN toPage /\ toPage[k].kind = "saved" /\ toPage[k].request = r
        BY <3>3, <4>1 DEF SavedAt
      <4>3. k - 1 \in DOMAIN toPage' /\ toPage'[k - 1] = toPage[k]
        BY <1>4, <4>1, <4>2 DEF PageMoves
      <4> QED
        BY <4>1, <4>2, <4>3 DEF SavedAtThen
    <3> QED
      BY <3>4
  <2>4. CASE tree[r] # Nowhere
    <3>1. tab[t].basePlace = tree[r]
      BY <1>2, <2>1, <2>4 DEF TabsInv, TabInv, BasePlace, IsOpen, SavedAt
    <3> QED
      BY <1>7, <2>1, <2>2, <2>4, <3>1
  <2> QED
    BY <2>3, <2>4
<1>13. ASSUME NEW t \in Tabs PROVE TabAlike(t, 1, "move", NoRequest) /\ DraftAlike(t)
  <2>1. Unheard(t, 1)
    BY <1>2 DEF Unheard, SavedAt
  <2>2. ClosesSaved(t)
    BY DEF TabsInv, TabInv
  <2>3. NumbersKept(t) /\ BaseAlike(t, 1) /\ AuthAlike(t, "move", NoRequest) /\ DraftAlike(t)
    BY <1>3, <1>7, <2>1
       DEF NumbersKept, BaseAlike, AuthAlike, DraftAlike, SameView, Loaded, LoadedThen, IsOpen
  <2>4. SaveAlike(t, "move", NoRequest) /\ CloseAlike(t, "move", NoRequest)
    BY <1>3, <1>7 DEF SaveAlike, CloseAlike, SameView, Loaded, LoadedThen, IsOpen
  <2>5. ClosesAsBefore(t, "move", NoRequest)
    BY <1>3, <1>7, <2>2 DEF ClosesAsBefore, ClosesAlike, ClosesSaved, SameView, Loaded, LoadedThen, IsOpen
  <2>6. timeouts' = timeouts
    BY <1>3
  <2> QED
    BY <1>12, <2>3, <2>4, <2>5, <2>6 DEF TabAlike
<1>14. AppliedStay(1, "move", NoRequest)
  BY <1>1, <1>8, AppliedKept DEF SameView
<1>15. TreeMoves(1, 1)
  <2>1. 1 \in 0 .. 1 /\ 1 \in 0 .. Len(toPage)
    BY <1>1, <1>2 DEF TabsTypeOK
  <2>2. \A j \in DOMAIN toPage : ~(1 < j /\ j <= 1)
    BY <1>1, SeqDomains
  <2> QED
    BY <1>2, <1>5, <1>6, <2>1, <2>2 DEF TreeMoves, IsTree, PlacesAt
<1> QED
  BY <1>3, <1>4, <1>9, <1>10, <1>11, <1>13, <1>14, <1>15, TabStep

(***************************************************************************)
(* What a load brings is what is stored.                                   *)
(***************************************************************************)
LEMMA LoadedParts ==
  ASSUME NEW x \in TabType, NEW m \in MessageType,
         NEW y, y = [x EXCEPT !.text = m.text, !.baseText = m.text, !.auth = m.auth,
                              !.baseAuth = m.auth, !.loading = FALSE, !.loadFailed = FALSE]
  PROVE  /\ y \in TabType /\ y.request = x.request /\ y.basePlace = x.basePlace /\ y.authUpdate = x.authUpdate
         /\ y.text = m.text /\ y.baseText = m.text /\ y.baseAuth = m.auth /\ ~y.loading /\ ~y.loadFailed
<1>1. m.text \in Texts /\ m.auth \in Auths
  BY DEF MessageType
<1>2. PICK y1 \in TabType : y1 = [x EXCEPT !.text = m.text]
  BY <1>1 DEF TabType
<1>3. PICK y2 \in TabType : y2 = [y1 EXCEPT !.baseText = m.text]
  BY <1>1, <1>2 DEF TabType
<1>4. PICK y3 \in TabType : y3 = [y2 EXCEPT !.auth = m.auth]
  BY <1>1, <1>3 DEF TabType
<1>5. PICK y4 \in TabType : y4 = [y3 EXCEPT !.baseAuth = m.auth]
  BY <1>1, <1>4 DEF TabType
<1>6. PICK y5 \in TabType : y5 = [y4 EXCEPT !.loading = FALSE]
  BY <1>5 DEF TabType
<1>7. y = [y5 EXCEPT !.loadFailed = FALSE]
  BY <1>2, <1>3, <1>4, <1>5, <1>6
<1>8. y1.text = m.text /\ y1.request = x.request /\ y1.basePlace = x.basePlace /\ y1.authUpdate = x.authUpdate
  BY <1>2 DEF TabType
<1>9. /\ y2.text = m.text /\ y2.request = x.request /\ y2.basePlace = x.basePlace /\ y2.authUpdate = x.authUpdate
      /\ y2.baseText = m.text
  BY <1>3, <1>8 DEF TabType
<1>10. /\ y3.text = m.text /\ y3.request = x.request /\ y3.basePlace = x.basePlace /\ y3.authUpdate = x.authUpdate
       /\ y3.baseText = m.text
  BY <1>4, <1>9 DEF TabType
<1>11. /\ y4.text = m.text /\ y4.request = x.request /\ y4.basePlace = x.basePlace /\ y4.authUpdate = x.authUpdate
       /\ y4.baseText = m.text /\ y4.baseAuth = m.auth
  BY <1>5, <1>10 DEF TabType
<1>12. /\ y5.text = m.text /\ y5.request = x.request /\ y5.basePlace = x.basePlace /\ y5.authUpdate = x.authUpdate
       /\ y5.baseText = m.text /\ y5.baseAuth = m.auth /\ y5.loading = FALSE
  BY <1>6, <1>11 DEF TabType
<1>13. y \in TabType
  BY <1>6, <1>7 DEF TabType
<1> QED
  BY <1>6, <1>7, <1>12, <1>13 DEF TabType

LEMMA ShowLoadedKeeps ==
  ASSUME TabsInv, ShowLoaded
  PROVE  TabsInv'
<1>1. /\ TabsTypeOK /\ DialogInv /\ OneTab /\ ClosedBySaveIsStored /\ NumbersInv /\ LoadsInv /\ SavesOwned
  BY DEF TabsInv, PipeInv
<1>2. /\ toPage # <<>> /\ toPage' = Tail(toPage) /\ Pushed = toPage[1] /\ toPage[1].kind = "loaded"
      /\ 1 \in DOMAIN toPage /\ toPage[1] \in MessageType
  BY <1>1, HeardParts DEF ShowLoaded
<1>3. UNCHANGED <<saving, closing, dialog, tree, submitted, ops, jobs, reads, stored, staged, closed, edits, clicks, failures, timeouts>>
  BY DEF ShowLoaded, hostState, bounded
<1>4. PageMoves(1, "move", NoRequest)
  BY <1>1, <1>2, <1>3, HearMoves
<1>5. PICK m \in MessageType : m = toPage[1] /\ m.text \in Texts
  BY <1>2 DEF MessageType
<1>6. PICK into :
        /\ into = {t \in {l.tab : l \in {l \in loads : l.op = m.op}} : tab[t].request = m.request}
        /\ tab' = [t \in Tabs |-> IF t \notin into THEN tab[t]
             ELSE [tab[t] EXCEPT !.text = m.text, !.baseText = m.text, !.auth = m.auth,
                                 !.baseAuth = m.auth, !.loading = FALSE, !.loadFailed = FALSE]]
        /\ typed' = [t \in Tabs |-> IF t \in into THEN m.text ELSE typed[t]]
        /\ loads' = {l \in loads : l.op # m.op}
  BY <1>2, <1>5 DEF ShowLoaded
<1>7. ASSUME NEW t \in Tabs, t \in into
      PROVE  /\ IsOpen(t) /\ tab[t].loading /\ tab[t].request = m.request
             /\ IsStored(m.request) => m.text = stored[m.request].text /\ m.auth = stored[m.request].auth
             /\ tab'[t] \in TabType /\ tab'[t].request = tab[t].request /\ tab'[t].basePlace = tab[t].basePlace
             /\ tab'[t].authUpdate = tab[t].authUpdate /\ tab'[t].text = m.text /\ tab'[t].baseText = m.text
             /\ tab'[t].baseAuth = m.auth /\ ~tab'[t].loadFailed /\ typed'[t] = m.text
  <2>1. PICK l \in loads : l.op = m.op /\ l.tab = t /\ tab[t].request = m.request
    BY <1>6, <1>7
  <2>2. IsOpen(t) /\ tab[t].loading
    BY <1>1, <2>1 DEF LoadsInv
  <2>3. IsStored(m.request) => m.text = stored[m.request].text /\ m.auth = stored[m.request].auth
    BY <1>1, <1>2, <1>5, <2>1 DEF LoadsInv
  <2>4. PICK x \in TabType : x = tab[t]
    BY <1>1, TabParts
  <2>5. tab'[t] = [x EXCEPT !.text = m.text, !.baseText = m.text, !.auth = m.auth,
                            !.baseAuth = m.auth, !.loading = FALSE, !.loadFailed = FALSE]
    BY <1>6, <1>7, <2>4
  <2>6. /\ tab'[t] \in TabType /\ tab'[t].request = x.request /\ tab'[t].basePlace = x.basePlace
        /\ tab'[t].authUpdate = x.authUpdate /\ tab'[t].text = m.text /\ tab'[t].baseText = m.text
        /\ tab'[t].baseAuth = m.auth /\ ~tab'[t].loadFailed
    <3>1. PICK y : y = tab'[t]
      OBVIOUS
    <3>2. y = [x EXCEPT !.text = m.text, !.baseText = m.text, !.auth = m.auth,
                        !.baseAuth = m.auth, !.loading = FALSE, !.loadFailed = FALSE]
      BY <2>5, <3>1
    <3>3. /\ y \in TabType /\ y.request = x.request /\ y.basePlace = x.basePlace /\ y.authUpdate = x.authUpdate
          /\ y.text = m.text /\ y.baseText = m.text /\ y.baseAuth = m.auth /\ ~y.loading /\ ~y.loadFailed
      BY <3>2, LoadedParts
    <3> QED
      BY <3>1, <3>3
  <2>7. typed'[t] = m.text
    BY <1>6, <1>7
  <2> QED
    BY <2>1, <2>2, <2>3, <2>4, <2>6, <2>7
<1>8. \A t \in Tabs : t \notin into => tab'[t] = tab[t] /\ typed'[t] = typed[t]
  BY <1>6
<1>9. TabsTypeOK'
  <2>1. tab' \in [Tabs -> TabType]
    <3>1. \A u \in Tabs : tab'[u] \in TabType
      BY <1>1, <1>7, <1>8, TabParts
    <3>2. tab' = [u \in Tabs |-> tab'[u]]
      BY <1>6
    <3> QED
      BY <3>1, <3>2
  <2>2. typed' \in [Tabs -> Texts] /\ loads' \subseteq [op : Nat, tab : Tabs]
    BY <1>1, <1>5, <1>6 DEF TabsTypeOK
  <2> QED
    BY <1>1, <1>3, <1>4, <2>1, <2>2, Counted, MoveTypes DEF TabsTypeOK
<1>10. \A t \in Tabs : /\ tab'[t].request = tab[t].request /\ tab'[t].authUpdate = tab[t].authUpdate
                       /\ tab'[t].loadFailed => tab[t].loadFailed
  BY <1>7, <1>8
<1>11. DialogInv' /\ ClosedBySaveIsStored' /\ OneTab'
  BY <1>1, <1>3, <1>10 DEF DialogInv, ClosedBySaveIsStored, OneTab, IsOpen
<1>12. \A t \in Tabs : Steady(t)
  BY <1>7, <1>8 DEF Steady, Loaded, LoadedThen, IsOpen
<1>13. SubmittedKept(1, "move", NoRequest)
  BY <1>1, <1>3, <1>12, SubmittedStays
<1>14. LoadsKept
  <2> SUFFICES ASSUME NEW l \in loads' PROVE l \in loads /\ StillLoading(l)
    BY DEF LoadsKept
  <2>1. l \in loads /\ l.op # m.op /\ l.tab \in Tabs
    BY <1>1, <1>6 DEF TabsTypeOK
  <2>2. l.tab \notin into
    <3> SUFFICES ASSUME l.tab \in into PROVE FALSE
      OBVIOUS
    <3>1. PICK k \in loads : k.op = m.op /\ k.tab = l.tab
      BY <1>6
    <3> QED
      BY <1>1, <2>1, <3>1 DEF LoadsInv
  <2>3. tab'[l.tab] = tab[l.tab]
    BY <1>8, <2>1, <2>2
  <2> QED
    BY <1>1, <2>1, <2>3 DEF LoadsInv, StillLoading
<1>15. ASSUME NEW t \in Tabs, t \in into PROVE BaseIsStored(t)'
  <2>1. PICK r : r = m.request
    OBVIOUS
  <2>2. \A i \in DOMAIN toPage' : ~SavedAtThen(i, r)
    <3> SUFFICES ASSUME NEW i \in DOMAIN toPage', SavedAtThen(i, r) PROVE FALSE
      OBVIOUS
    <3>1. i + 1 \in DOMAIN toPage /\ toPage[i + 1].kind = "saved" /\ toPage[i + 1].request = r
      BY <1>4 DEF PageMoves, SavedAtThen
    <3>2. Owned(toPage[i + 1].op, r, toPage[i + 1].text)
      BY <1>1, <3>1 DEF SavesOwned
    <3>3. PICK s \in submitted : tab[s.tab].request = r /\ Loaded(s.tab)
      BY <3>2 DEF Owned
    <3>4. s.tab \in Tabs
      BY <1>1 DEF TabsTypeOK, SnapshotType
    <3> QED
      BY <1>1, <1>7, <1>15, <2>1, <3>3, <3>4 DEF OneTab, Loaded
  <2>3. /\ tab'[t].request = r /\ stored' = stored /\ tab'[t].baseText = m.text /\ tab'[t].baseAuth = m.auth
        /\ stored[r].place # Nowhere => m.text = stored[r].text /\ m.auth = stored[r].auth
    BY <1>3, <1>7, <1>15, <2>1 DEF IsStored
  <2> QED
    BY <2>2, <2>3 DEF BaseIsStored, IsStored, SavedAt, SavedAtThen
<1>16. ASSUME NEW t \in Tabs PROVE TabAlike(t, 1, "move", NoRequest) /\ DraftAlike(t)
  <2>1. Unheard(t, 1)
    BY <1>2 DEF Unheard, SavedAt
  <2>2. tree' = tree /\ timeouts' = timeouts
    BY <1>3
  <2>3. CASE t \in into
    <3>1. ClosesSaved(t) /\ SaveSettles(t) /\ ~Loaded(t)
      BY <1>7, <2>3 DEF TabsInv, TabInv, Loaded
    <3>2. NumbersKept(t) /\ PlaceAlike(t, 1) /\ AuthAlike(t, "move", NoRequest) /\ DraftAlike(t)
      BY <1>3, <1>7, <2>1, <2>3 DEF NumbersKept, PlaceAlike, AuthAlike, DraftAlike
    <3>3. SaveAlike(t, "move", NoRequest) /\ CloseAlike(t, "move", NoRequest)
      BY <1>3, <1>7, <2>3, <3>1 DEF SaveAlike, SaveSettles, CloseAlike
    <3>4. ClosesAsBefore(t, "move", NoRequest)
      BY <1>3, <3>1 DEF ClosesAsBefore, ClosesSaved
    <3> QED
      BY <1>15, <2>2, <2>3, <3>2, <3>3, <3>4 DEF TabAlike
  <2>4. CASE t \notin into
    <3>1. Untouched(t) /\ typed'[t] = typed[t]
      BY <1>3, <1>8, <2>4 DEF Untouched
    <3>2. TabAlike(t, 1, "move", NoRequest)
      BY <2>1, <2>2, <3>1, UntouchedAlike
    <3> QED
      BY <3>1, <3>2 DEF DraftAlike, Untouched, Loaded, LoadedThen, IsOpen
  <2> QED
    BY <2>3, <2>4
<1>17. AppliedStay(1, "move", NoRequest)
  BY <1>1, <1>10, AppliedKept
<1>18. TreeMoves(1, 0)
  BY <1>1, <1>2, <1>3, TreeStays
<1> QED
  BY <1>3, <1>4, <1>9, <1>11, <1>13, <1>14, <1>16, <1>17, <1>18, TabStep

-----------------------------------------------------------------------------
(* Tabs: what a step of the host does to what is on its way *)

\* the host takes the job that waits longest, or the request that waits longest to be read
Taken(j, kind) ==
  \/ /\ kind = j.kind /\ kind \in {"save", "configure", "discard", "delete", "move"}
     /\ jobs # <<>> /\ j = Head(jobs) /\ jobs' = Tail(jobs) /\ reads' = reads
  \/ kind = "read" /\ reads # <<>> /\ j = Head(reads) /\ reads' = Tail(reads) /\ jobs' = jobs

LEMMA TakenParts ==
  ASSUME TabsInv, NEW j, NEW kind, Taken(j, kind)
  PROVE  /\ jobs' \in Seq(JobType) /\ reads' \in Seq(ReadType)
         /\ j.op \in Nat /\ j.op >= 1 /\ j.op <= ops /\ j.request \in Requests
         /\ \A n \in DOMAIN jobs' : n \in Nat /\ jobs'[n].op \in Nat /\ \E k \in DOMAIN jobs : jobs'[n] = jobs[k]
         /\ \A m, n \in DOMAIN jobs' : m < n => jobs'[m].op < jobs'[n].op
         /\ \A n \in DOMAIN jobs' : jobs'[n].op # j.op /\ (kind # "read" => jobs'[n].op > j.op)
         /\ \A n \in DOMAIN reads' : \E k \in DOMAIN reads : reads'[n] = reads[k]
         /\ kind # "read" => j.kind = kind /\ j \in JobType /\ \E k \in DOMAIN jobs : jobs[k] = j
         /\ kind = "read" => \E k \in DOMAIN reads : reads[k] = j
<1>1. /\ TabsTypeOK /\ NumbersInv /\ OrderInv /\ ReadsApart /\ ops \in Nat
      /\ jobs \in Seq(JobType) /\ reads \in Seq(ReadType)
  BY SeqDomains DEF TabsInv, PipeInv, TabsTypeOK
<1>2. \A n \in DOMAIN jobs : n \in Nat /\ n >= 1 /\ jobs[n].op \in Nat /\ jobs[n] \in JobType
  BY <1>1, SeqDomains
<1>3. CASE /\ kind = j.kind /\ kind \in {"save", "configure", "discard", "delete", "move"}
           /\ jobs # <<>> /\ j = Head(jobs) /\ jobs' = Tail(jobs) /\ reads' = reads
  <2>1. /\ j = jobs[1] /\ jobs[1] \in JobType /\ jobs' \in Seq(JobType) /\ 1 \in DOMAIN jobs
        /\ \A n \in DOMAIN jobs' : n \in Nat /\ n >= 1 /\ n + 1 \in DOMAIN jobs /\ jobs'[n] = jobs[n + 1]
    BY <1>1, <1>3, TailParts
  <2>2. j.op \in Nat /\ j.op >= 1 /\ j.op <= ops /\ j.request \in Requests
    BY <1>1, <2>1 DEF NumbersInv, JobType
  <2>3. \A n \in DOMAIN jobs' : jobs'[n].op > j.op /\ jobs'[n].op \in Nat
    <3> TAKE n \in DOMAIN jobs'
    <3>1. 1 < n + 1
      BY <2>1
    <3>2. jobs[1].op < jobs[n + 1].op
      BY <1>1, <2>1, <3>1 DEF OrderInv
    <3> QED
      BY <1>2, <2>1, <3>2
  <2>4. \A m, n \in DOMAIN jobs' : m < n => jobs'[m].op < jobs'[n].op
    <3> SUFFICES ASSUME NEW m \in DOMAIN jobs', NEW n \in DOMAIN jobs', m < n PROVE jobs'[m].op < jobs'[n].op
      OBVIOUS
    <3>1. m + 1 < n + 1
      BY <2>1
    <3> QED
      BY <1>1, <2>1, <3>1 DEF OrderInv
  <2>5. \A n \in DOMAIN jobs' : jobs'[n].op # j.op
    BY <2>2, <2>3
  <2> QED
    BY <1>1, <1>3, <2>1, <2>2, <2>3, <2>4, <2>5
<1>4. CASE kind = "read" /\ reads # <<>> /\ j = Head(reads) /\ reads' = Tail(reads) /\ jobs' = jobs
  <2>1. /\ j = reads[1] /\ reads[1] \in ReadType /\ reads' \in Seq(ReadType) /\ 1 \in DOMAIN reads
        /\ \A n \in DOMAIN reads' : n + 1 \in DOMAIN reads /\ reads'[n] = reads[n + 1]
    BY <1>1, <1>4, TailParts
  <2>2. j.op \in Nat /\ j.op >= 1 /\ j.op <= ops /\ j.request \in Requests
    BY <1>1, <2>1 DEF NumbersInv, ReadType
  <2>3. \A n \in DOMAIN jobs : jobs[n].op # j.op
    BY <1>1, <2>1 DEF ReadsApart
  <2>4. \A m, n \in DOMAIN jobs' : m < n => jobs'[m].op < jobs'[n].op
    BY <1>1, <1>4 DEF OrderInv
  <2> QED
    BY <1>1, <1>2, <1>4, <2>1, <2>2, <2>3, <2>4
<1> QED
  BY <1>3, <1>4 DEF Taken

(***************************************************************************)
(* Its answers come behind all others; the last tells how it went.  What   *)
(* it stores, and the places of what is stored, are in the others.         *)
(***************************************************************************)
NewAt(i, k) == i \in DOMAIN toPage' /\ i \notin DOMAIN toPage /\ toPage'[i].kind = k
NothingSaved == \A i \in DOMAIN toPage' : ~NewAt(i, "saved")
Answered(j, kind) ==
  /\ toPage' \in Seq(MessageType)
  /\ \A i \in DOMAIN toPage : i \in DOMAIN toPage' /\ toPage'[i] = toPage[i]
  /\ \A i \in DOMAIN toPage' : i \notin DOMAIN toPage =>
       toPage'[i].op = j.op /\ toPage'[i].request = j.request /\ \A k \in DOMAIN toPage : k < i
  /\ \A i \in DOMAIN toPage' : NewAt(i, "reply") =>
       /\ \A k \in DOMAIN toPage' : k <= i
       /\ ~toPage'[i].ok => NothingSaved
       /\ toPage'[i].ok /\ kind = "save" => stored'[j.request].place # Nowhere
  /\ \A i \in DOMAIN toPage' : NewAt(i, "auth") => kind = "configure"
  /\ \A i \in DOMAIN toPage' : NewAt(i, "loaded") =>
       kind = "read" /\ toPage'[i].text = stored[j.request].text /\ toPage'[i].auth = stored[j.request].auth
  /\ \A i \in DOMAIN toPage' : NewAt(i, "saved") =>
       /\ kind = "save" /\ toPage'[i].text = j.text
       /\ toPage'[i].text = stored'[j.request].text /\ toPage'[i].auth = stored'[j.request].auth
       /\ NewAt(i - 1, "collections") /\ toPage'[i - 1].places[j.request] = j.place
       /\ \A k \in DOMAIN toPage' : NewAt(k, "saved") => k = i
  /\ \A i \in DOMAIN toPage' : NewAt(i, "collections") =>
       /\ toPage'[i].places \in [Requests -> Places] /\ \A q \in Requests : toPage'[i].places[q] = stored'[q].place
       /\ \A k \in DOMAIN toPage' : NewAt(k, "collections") => k = i
       /\ \A q \in Requests :
            stored[q].place = Nowhere /\ stored'[q].place # Nowhere => q = j.request /\ NewAt(i + 1, "saved")
Writes(j, kind) ==
  /\ stored' \in [Requests -> [place : Places, text : Texts, auth : Auths]] /\ staged' \in [Requests -> Auths \cup {NoStage}]
  /\ \A q \in Requests : q # j.request => stored'[q] = stored[q]
  /\ NothingSaved => \A q \in Requests : stored'[q].place # Nowhere =>
       stored[q].place # Nowhere /\ stored'[q].text = stored[q].text /\ stored'[q].auth = stored[q].auth
  /\ (\A i \in DOMAIN toPage' : ~NewAt(i, "collections")) =>
       \A q \in Requests : stored'[q].place = stored[q].place
  /\ kind # "delete" => \A q \in Requests : stored[q].place # Nowhere => stored'[q].place # Nowhere
PageStays ==
  UNCHANGED <<tab, saving, closing, dialog, tree, submitted, loads, ops, typed, closed, edits, clicks, timeouts>>

LEMMA AnsweredDomains ==
  ASSUME TabsInv, NEW j, NEW kind, Answered(j, kind)
  PROVE  /\ \A i \in DOMAIN toPage' : i \in Nat /\ i >= 1 /\ toPage'[i].op \in Nat
         /\ \A i \in DOMAIN toPage : i \in Nat /\ i >= 1 /\ toPage[i].op \in Nat
<1>1. toPage' \in Seq(MessageType) /\ TabsTypeOK
  BY DEF Answered, TabsInv
<1>2. \A i \in DOMAIN toPage' : i \in Nat /\ i >= 1 /\ toPage'[i] \in MessageType
  BY <1>1
<1> QED
  BY <1>1, <1>2, SeqDomains DEF MessageType

LEMMA HostPipe ==
  ASSUME TabsInv, NEW j, NEW kind, Taken(j, kind), Answered(j, kind), PageStays
  PROVE  PipeInv'
<1>1. NumbersInv /\ OrderInv /\ ReadsApart /\ SavesOwned /\ SavedOrder /\ ErrorsInv
  BY DEF TabsInv, PipeInv
<1>2. /\ j.op \in Nat /\ j.op >= 1 /\ j.op <= ops
      /\ \A n \in DOMAIN jobs' : \E k \in DOMAIN jobs : jobs'[n] = jobs[k]
      /\ \A m, n \in DOMAIN jobs' : m < n => jobs'[m].op < jobs'[n].op
      /\ \A n \in DOMAIN jobs' : jobs'[n].op # j.op /\ (kind # "read" => jobs'[n].op > j.op)
      /\ \A n \in DOMAIN reads' : \E k \in DOMAIN reads : reads'[n] = reads[k]
      /\ kind # "read" => j.kind = kind /\ \E k \in DOMAIN jobs : jobs[k] = j
      /\ kind = "read" => \E k \in DOMAIN reads : reads[k] = j
  BY TakenParts
<1>3. /\ \A i \in DOMAIN toPage' : i \in Nat /\ i >= 1 /\ toPage'[i].op \in Nat
      /\ \A i \in DOMAIN toPage : i \in Nat /\ i >= 1 /\ toPage[i].op \in Nat
  BY AnsweredDomains
<1>4. /\ \A i \in DOMAIN toPage' :
           \/ i \in DOMAIN toPage /\ toPage'[i] = toPage[i]
           \/ /\ i \notin DOMAIN toPage /\ toPage'[i].op = j.op /\ toPage'[i].request = j.request
              /\ \A k \in DOMAIN toPage : k < i
      /\ \A i \in DOMAIN toPage' : NewAt(i, "saved") =>
           /\ kind = "save" /\ toPage'[i].text = j.text
           /\ \A k \in DOMAIN toPage' : NewAt(k, "saved") => k = i
  BY DEF Answered
<1>5. NumbersInv'
  <2>1. \A i \in DOMAIN toPage' : toPage'[i].op >= 1 /\ toPage'[i].op <= ops
    BY <1>1, <1>2, <1>4 DEF NumbersInv
  <2>2. \A n \in DOMAIN jobs' : jobs'[n].op >= 1 /\ jobs'[n].op <= ops
    BY <1>1, <1>2 DEF NumbersInv
  <2>3. \A n \in DOMAIN reads' : reads'[n].op >= 1 /\ reads'[n].op <= ops
    BY <1>1, <1>2 DEF NumbersInv
  <2> QED
    BY <1>1, <2>1, <2>2, <2>3 DEF NumbersInv, PageStays
<1>6. OrderInv'
  <2>1. \A n \in DOMAIN jobs' : jobs'[n].kind \in {"save", "move"} => jobs'[n].place # Nowhere
    BY <1>1, <1>2 DEF OrderInv
  <2>2. \A i \in DOMAIN toPage' : toPage'[i].kind = "collections" => toPage'[i].places \in [Requests -> Places]
    BY <1>1 DEF OrderInv, Answered, NewAt
  <2> QED
    BY <1>1, <1>2, <2>1, <2>2 DEF OrderInv, PageStays
<1>7. ReadsApart'
  <2> SUFFICES ASSUME NEW n \in DOMAIN reads'
               PROVE  /\ \A m \in DOMAIN jobs' : jobs'[m].op # reads'[n].op
                      /\ \A i \in DOMAIN toPage' : toPage'[i].kind = "saved" => toPage'[i].op # reads'[n].op
                      /\ \A t \in Tabs : reads'[n].op \notin {saving[t].op, closing[t].op, tab[t].authUpdate}
    BY DEF ReadsApart, PageStays
  <2>1. PICK k \in DOMAIN reads : reads'[n] = reads[k]
    BY <1>2
  <2>2. \A i \in DOMAIN toPage' : toPage'[i].kind = "saved" => toPage'[i].op # reads[k].op
    <3> SUFFICES ASSUME NEW i \in DOMAIN toPage', toPage'[i].kind = "saved" PROVE toPage'[i].op # reads[k].op
      OBVIOUS
    <3>1. CASE i \in DOMAIN toPage
      BY <1>1, <1>4, <3>1 DEF ReadsApart
    <3>2. CASE i \notin DOMAIN toPage
      <4>1. kind = "save" /\ toPage'[i].op = j.op
        BY <1>4, <3>2 DEF NewAt
      <4> QED
        BY <1>1, <1>2, <4>1 DEF ReadsApart
    <3> QED
      BY <3>1, <3>2
  <2> QED
    BY <1>1, <1>2, <2>1, <2>2 DEF ReadsApart
<1>9. SavesOwned'
  <2>1. \A n \in DOMAIN jobs' : jobs'[n].kind = "save" => Owned(jobs'[n].op, jobs'[n].request, jobs'[n].text)
    BY <1>1, <1>2 DEF SavesOwned
  <2>2. \A i \in DOMAIN toPage' : toPage'[i].kind = "saved" => Owned(toPage'[i].op, toPage'[i].request, toPage'[i].text)
    <3> SUFFICES ASSUME NEW i \in DOMAIN toPage', toPage'[i].kind = "saved"
                 PROVE  Owned(toPage'[i].op, toPage'[i].request, toPage'[i].text)
      OBVIOUS
    <3>1. CASE i \in DOMAIN toPage
      BY <1>1, <1>4, <3>1 DEF SavesOwned
    <3>2. CASE i \notin DOMAIN toPage
      <4>1. kind = "save" /\ toPage'[i].op = j.op /\ toPage'[i].request = j.request /\ toPage'[i].text = j.text
        BY <1>4, <3>2 DEF NewAt
      <4> QED
        BY <1>1, <1>2, <4>1 DEF SavesOwned
    <3> QED
      BY <3>1, <3>2
  <2>3. \A n \in DOMAIN jobs' : jobs'[n].kind = "save" => OwnedThen(jobs'[n].op, jobs'[n].request, jobs'[n].text)
    BY <2>1 DEF Owned, OwnedThen, Loaded, IsOpen, PageStays
  <2>4. \A i \in DOMAIN toPage' : toPage'[i].kind = "saved" =>
          OwnedThen(toPage'[i].op, toPage'[i].request, toPage'[i].text)
    BY <2>2 DEF Owned, OwnedThen, Loaded, IsOpen, PageStays
  <2> QED
    BY <2>3, <2>4 DEF SavesOwned, Owned, OwnedThen, Loaded, IsOpen
<1>10. SavedOrder'
  <2> SUFFICES ASSUME NEW i \in DOMAIN toPage', toPage'[i].kind = "saved"
               PROVE  /\ \A k \in DOMAIN toPage' : i < k /\ toPage'[k].kind = "saved" => toPage'[i].op < toPage'[k].op
                      /\ \A n \in DOMAIN jobs' : toPage'[i].op < jobs'[n].op
    BY DEF SavedOrder
  <2>1. CASE i \in DOMAIN toPage
    <3>1. /\ toPage'[i] = toPage[i] /\ \A n \in DOMAIN jobs : toPage[i].op < jobs[n].op
          /\ \A k \in DOMAIN toPage : i < k /\ toPage[k].kind = "saved" => toPage[i].op < toPage[k].op
      BY <1>1, <1>4, <2>1 DEF SavedOrder
    <3>2. ASSUME NEW k \in DOMAIN toPage', i < k, toPage'[k].kind = "saved" PROVE toPage'[i].op < toPage'[k].op
      <4>1. CASE k \in DOMAIN toPage
        BY <1>4, <3>1, <3>2, <4>1
      <4>2. CASE k \notin DOMAIN toPage
        <5>1. kind = "save" /\ toPage'[k].op = j.op
          BY <1>4, <3>2, <4>2 DEF NewAt
        <5> QED
          BY <1>2, <3>1, <5>1
      <4> QED
        BY <4>1, <4>2
    <3> QED
      BY <1>2, <3>1, <3>2
  <2>2. CASE i \notin DOMAIN toPage
    <3>1. NewAt(i, "saved") /\ kind = "save" /\ toPage'[i].op = j.op
      BY <1>4, <2>2 DEF NewAt
    <3>2. ASSUME NEW k \in DOMAIN toPage', i < k, toPage'[k].kind = "saved" PROVE FALSE
      <4>1. k \notin DOMAIN toPage
        BY <1>3, <1>4, <2>2, <3>2
      <4> QED
        BY <1>3, <1>4, <3>1, <3>2, <4>1 DEF NewAt
    <3> QED
      BY <1>2, <3>1, <3>2
  <2> QED
    BY <2>1, <2>2
<1>11. ErrorsInv'
  <2> SUFFICES ASSUME NEW i \in DOMAIN toPage', toPage'[i].kind = "reply", ~toPage'[i].ok
               PROVE  /\ \A n \in DOMAIN jobs' : jobs'[n].op # toPage'[i].op
                      /\ \A k \in DOMAIN toPage' : toPage'[k].kind = "saved" => toPage'[k].op # toPage'[i].op
    BY DEF ErrorsInv
  <2>1. CASE i \in DOMAIN toPage
    <3>1. /\ toPage'[i] = toPage[i] /\ \A n \in DOMAIN jobs : jobs[n].op # toPage[i].op
          /\ \A k \in DOMAIN toPage : toPage[k].kind = "saved" => toPage[k].op # toPage[i].op
      BY <1>1, <1>4, <2>1 DEF ErrorsInv
    <3>2. ASSUME NEW k \in DOMAIN toPage', toPage'[k].kind = "saved" PROVE toPage'[k].op # toPage[i].op
      <4>1. CASE k \in DOMAIN toPage
        BY <1>4, <3>1, <3>2, <4>1
      <4>2. CASE k \notin DOMAIN toPage
        <5>1. kind = "save" /\ toPage'[k].op = j.op
          BY <1>4, <3>2, <4>2 DEF NewAt
        <5> QED
          BY <1>2, <3>1, <5>1
      <4> QED
        BY <4>1, <4>2
    <3> QED
      BY <1>2, <3>1, <3>2
  <2>2. CASE i \notin DOMAIN toPage
    <3>1. toPage'[i].op = j.op /\ NothingSaved
      BY <1>4, <2>2 DEF NewAt, Answered
    <3>2. ASSUME NEW k \in DOMAIN toPage', toPage'[k].kind = "saved" PROVE toPage'[k].op # j.op
      <4>1. k \in DOMAIN toPage /\ toPage'[k] = toPage[k]
        BY <1>4, <3>1, <3>2 DEF NothingSaved, NewAt
      <4>2. CASE kind = "read"
        BY <1>1, <1>2, <3>2, <4>1, <4>2 DEF ReadsApart
      <4>3. CASE kind # "read"
        <5>1. toPage[k].op < j.op
          BY <1>1, <1>2, <3>2, <4>1, <4>3 DEF SavedOrder
        <5> QED
          BY <1>2, <1>3, <4>1, <5>1
      <4> QED
        BY <4>2, <4>3
    <3> QED
      BY <1>2, <3>1, <3>2
  <2> QED
    BY <2>1, <2>2
<1> QED
  BY <1>5, <1>6, <1>7, <1>9, <1>10, <1>11 DEF PipeInv

\* what a save stores is of a request that a tab shows
LEMMA SaverShows ==
  ASSUME TabsInv, NEW j, NEW kind, Taken(j, kind), kind = "save"
  PROVE  \E s \in submitted : s.op = j.op /\ tab[s.tab].request = j.request /\ Loaded(s.tab) /\ s.tab \in Tabs
<1>1. SavesOwned /\ TabsTypeOK
  BY DEF TabsInv, PipeInv
<1>2. PICK k \in DOMAIN jobs : jobs[k] = j /\ j.kind = "save"
  BY TakenParts
<1>3. Owned(j.op, j.request, j.text)
  BY <1>1, <1>2 DEF SavesOwned
<1> QED
  BY <1>1, <1>3 DEF Owned, TabsTypeOK, SnapshotType

LEMMA HostLoads ==
  ASSUME TabsInv, NEW j, NEW kind, Taken(j, kind), Answered(j, kind), Writes(j, kind), PageStays
  PROVE  LoadsInv'
<1>1. LoadsInv /\ OneTab /\ TabsTypeOK
  BY DEF TabsInv
<1>2. /\ \A n \in DOMAIN reads' : \E k \in DOMAIN reads : reads'[n] = reads[k]
      /\ kind = "read" => \E k \in DOMAIN reads : reads[k] = j
      /\ j.request \in Requests
  BY TakenParts
<1>3. \A k, l \in loads' : k.tab = l.tab \/ k.op = l.op => k = l
  BY <1>1 DEF LoadsInv, PageStays
<1>4. ASSUME NEW l \in loads
      PROVE  /\ \A n \in DOMAIN reads' : reads'[n].op = l.op => reads'[n].request = tab[l.tab].request
             /\ \A i \in DOMAIN toPage' : toPage'[i].kind = "loaded" /\ toPage'[i].op = l.op =>
                  /\ toPage'[i].request = tab[l.tab].request
                  /\ stored'[toPage'[i].request].place # Nowhere =>
                       /\ toPage'[i].text = stored'[toPage'[i].request].text
                       /\ toPage'[i].auth = stored'[toPage'[i].request].auth
  <2>1. \A n \in DOMAIN reads' : reads'[n].op = l.op => reads'[n].request = tab[l.tab].request
    BY <1>1, <1>2 DEF LoadsInv
  <2>2. l.tab \in Tabs /\ IsOpen(l.tab) /\ tab[l.tab].loading
    BY <1>1 DEF LoadsInv, TabsTypeOK
  <2>3. PICK r : r = tab[l.tab].request
    OBVIOUS
  <2>4. r \in Requests
    BY <1>1, <2>2, <2>3, TabParts
  <2>5. stored'[r].place # Nowhere =>
          stored[r].place # Nowhere /\ stored'[r].text = stored[r].text /\ stored'[r].auth = stored[r].auth
    <3>1. CASE NothingSaved
      BY <2>4, <3>1 DEF Writes
    <3>2. CASE ~NothingSaved
      <4>1. kind = "save"
        BY <3>2 DEF NothingSaved, Answered
      <4>2. PICK s \in submitted : tab[s.tab].request = j.request /\ Loaded(s.tab) /\ s.tab \in Tabs
        BY <4>1, SaverShows
      <4>3. r # j.request
        BY <1>1, <2>2, <2>3, <4>2 DEF OneTab, Loaded
      <4>4. stored'[r] = stored[r]
        BY <2>4, <4>3 DEF Writes
      <4> QED
        BY <4>4
    <3> QED
      BY <3>1, <3>2
  <2>6. ASSUME NEW i \in DOMAIN toPage', toPage'[i].kind = "loaded", toPage'[i].op = l.op
        PROVE  /\ toPage'[i].request = r
               /\ stored'[r].place # Nowhere => toPage'[i].text = stored'[r].text /\ toPage'[i].auth = stored'[r].auth
    <3>1. CASE i \in DOMAIN toPage
      <4>1. toPage'[i] = toPage[i]
        BY <3>1 DEF Answered
      <4>2. /\ toPage[i].request = r
            /\ stored[r].place # Nowhere => toPage[i].text = stored[r].text /\ toPage[i].auth = stored[r].auth
        BY <1>1, <2>3, <2>6, <3>1, <4>1 DEF LoadsInv, IsStored
      <4> QED
        BY <2>5, <4>1, <4>2
    <3>2. CASE i \notin DOMAIN toPage
      <4>1. /\ kind = "read" /\ toPage'[i].op = j.op /\ toPage'[i].request = j.request
            /\ toPage'[i].text = stored[j.request].text /\ toPage'[i].auth = stored[j.request].auth
        BY <2>6, <3>2 DEF Answered, NewAt
      <4>2. PICK k \in DOMAIN reads : reads[k] = j
        BY <1>2, <4>1
      <4>3. \A n \in DOMAIN reads : reads[n].op = l.op => reads[n].request = r
        BY <1>1, <2>3 DEF LoadsInv
      <4>4. reads[k].op = l.op
        BY <2>6, <4>1, <4>2
      <4>5. j.request = r
        BY <4>2, <4>3, <4>4
      <4> QED
        BY <2>5, <4>1, <4>5
    <3> QED
      BY <3>1, <3>2
  <2> QED
    BY <2>1, <2>3, <2>6
<1> QED
  BY <1>1, <1>3, <1>4 DEF LoadsInv, PageStays, IsOpen, IsStored

LEMMA HostPlaces ==
  ASSUME TabsInv, NEW j, NEW kind, Taken(j, kind), Answered(j, kind), Writes(j, kind), PageStays
  PROVE  PlacesInv'
<1>1. PlacesInv /\ TabsTypeOK
  BY DEF TabsInv
<1>2. /\ \A i \in DOMAIN toPage' : i \in Nat /\ i >= 1
      /\ \A i \in DOMAIN toPage : i \in Nat /\ i >= 1
  BY AnsweredDomains
<1>3. /\ toPage' \in Seq(MessageType) /\ toPage \in Seq(MessageType)
      /\ \A i \in DOMAIN toPage : i \in DOMAIN toPage' /\ toPage'[i] = toPage[i]
      /\ \A i \in DOMAIN toPage' : i \notin DOMAIN toPage => \A k \in DOMAIN toPage : k < i
  BY <1>1 DEF Answered, TabsTypeOK
<1>4. \A i \in DOMAIN toPage' : NewAt(i, "collections") =>
        /\ \A q \in Requests : toPage'[i].places[q] = stored'[q].place
        /\ \A k \in DOMAIN toPage' : NewAt(k, "collections") => k = i
        /\ \A q \in Requests :
             stored[q].place = Nowhere /\ stored'[q].place # Nowhere => q = j.request /\ NewAt(i + 1, "saved")
  BY DEF Answered
<1>5. tree' = tree
  BY DEF PageStays
<1> SUFFICES ASSUME NEW i \in 0 .. Len(toPage'), IsTreeThen(i)
             PROVE  /\ (\A k \in DOMAIN toPage' : k > i => ~IsTreeThen(k)) =>
                         \A r \in Requests : PlacesAtThen(i)[r] = stored'[r].place
                    /\ \A k \in DOMAIN toPage' :
                         i < k /\ IsTreeThen(k) /\ (\A h \in DOMAIN toPage' : i < h /\ h < k => ~IsTreeThen(h)) =>
                         \A r \in Requests :
                           PlacesAtThen(i)[r] = Nowhere /\ PlacesAtThen(k)[r] # Nowhere => SavedAtThen(k + 1, r)
  BY DEF PlacesInv, IsTree, IsTreeThen, PlacesAt, PlacesAtThen, SavedAt, SavedAtThen
<1>6. /\ DOMAIN toPage = 1 .. Len(toPage) /\ DOMAIN toPage' = 1 .. Len(toPage')
      /\ Len(toPage) \in Nat /\ Len(toPage') \in Nat /\ i \in Nat
  BY <1>3
<1>7. i # 0 => i \in DOMAIN toPage'
  BY <1>6
<1>8. CASE i = 0 \/ i \in DOMAIN toPage
  <2>1. i \in 0 .. Len(toPage) /\ IsTree(i) /\ PlacesAt(i) = PlacesAtThen(i)
    BY <1>3, <1>5, <1>6, <1>8 DEF IsTree, IsTreeThen, PlacesAt, PlacesAtThen
  <2>2. \A k \in DOMAIN toPage : k \in DOMAIN toPage' /\ (IsTreeThen(k) <=> IsTree(k))
    BY <1>3 DEF IsTree, IsTreeThen
  <2>3. (\A k \in DOMAIN toPage : k > i => ~IsTree(k)) => \A r \in Requests : PlacesAtThen(i)[r] = stored[r].place
    BY <1>1, <2>1 DEF PlacesInv
  <2>4. ASSUME \A k \in DOMAIN toPage' : k > i => ~IsTreeThen(k)
        PROVE  \A r \in Requests : PlacesAtThen(i)[r] = stored'[r].place
    <3>1. \A k \in DOMAIN toPage' : ~NewAt(k, "collections")
      <4> SUFFICES ASSUME NEW k \in DOMAIN toPage', NewAt(k, "collections") PROVE FALSE
        OBVIOUS
      <4>1. k > i
        BY <1>2, <1>3, <1>8 DEF NewAt
      <4> QED
        BY <2>4, <4>1 DEF NewAt, IsTreeThen
    <3>2. \A k \in DOMAIN toPage : k > i => ~IsTree(k)
      BY <2>2, <2>4
    <3> QED
      BY <2>3, <3>1, <3>2 DEF Writes
  <2>5. ASSUME NEW k \in DOMAIN toPage', i < k, IsTreeThen(k), \A h \in DOMAIN toPage' : i < h /\ h < k => ~IsTreeThen(h),
               NEW r \in Requests, PlacesAtThen(i)[r] = Nowhere, PlacesAtThen(k)[r] # Nowhere
        PROVE  SavedAtThen(k + 1, r)
    <3>1. CASE k \in DOMAIN toPage
      <4>1. IsTree(k) /\ PlacesAt(k) = PlacesAtThen(k)
        BY <1>3, <2>2, <2>5, <3>1, <1>2 DEF PlacesAt, PlacesAtThen
      <4>2. \A h \in DOMAIN toPage : i < h /\ h < k => ~IsTree(h)
        BY <2>2, <2>5
      <4>3. SavedAt(k + 1, r)
        BY <1>1, <2>1, <2>5, <3>1, <4>1, <4>2 DEF PlacesInv
      <4> QED
        BY <1>3, <4>3 DEF SavedAt, SavedAtThen
    <3>2. CASE k \notin DOMAIN toPage
      <4>1. NewAt(k, "collections") /\ k # 0
        BY <1>2, <2>5, <3>2 DEF NewAt, IsTreeThen
      <4>2. \A h \in DOMAIN toPage : h > i => ~IsTree(h)
        <5> SUFFICES ASSUME NEW h \in DOMAIN toPage, h > i PROVE ~IsTree(h)
          OBVIOUS
        <5>1. h < k /\ i < h
          BY <1>2, <1>3, <1>6, <3>2
        <5> QED
          BY <2>2, <2>5, <5>1
      <4>3. stored[r].place = Nowhere
        BY <2>3, <2>5, <4>2
      <4>4. stored'[r].place # Nowhere
        BY <1>4, <2>5, <4>1 DEF PlacesAtThen
      <4>5. r = j.request /\ NewAt(k + 1, "saved")
        BY <1>4, <4>1, <4>3, <4>4
      <4> QED
        BY <4>5 DEF NewAt, SavedAtThen, Answered
    <3> QED
      BY <3>1, <3>2
  <2> QED
    BY <2>4, <2>5
<1>9. CASE i # 0 /\ i \notin DOMAIN toPage
  <2>1. NewAt(i, "collections")
    BY <1>7, <1>9 DEF NewAt, IsTreeThen
  <2>2. \A r \in Requests : PlacesAtThen(i)[r] = stored'[r].place
    BY <1>4, <1>7, <1>9, <2>1 DEF PlacesAtThen
  <2>3. ASSUME NEW k \in DOMAIN toPage', i < k, IsTreeThen(k) PROVE FALSE
    <3>1. k \notin DOMAIN toPage
      BY <1>2, <1>3, <1>6, <1>7, <1>9, <2>3
    <3>2. NewAt(k, "collections")
      BY <1>2, <2>3, <3>1 DEF NewAt, IsTreeThen
    <3>3. k = i
      BY <1>4, <1>7, <1>9, <2>1, <3>2
    <3> QED
      BY <1>6, <2>3, <3>3
  <2> QED
    BY <2>2, <2>3
<1> QED
  BY <1>8, <1>9

LEMMA HostSavedPlace ==
  ASSUME TabsInv, NEW j, NEW kind, Taken(j, kind), Answered(j, kind), PageStays
  PROVE  SavedPlace'
<1>1. SavedPlace
  BY DEF TabsInv
<1>2. /\ \A n \in DOMAIN jobs' : \E k \in DOMAIN jobs : jobs'[n] = jobs[k]
      /\ kind # "read" => j.kind = kind /\ \E k \in DOMAIN jobs : jobs[k] = j
  BY TakenParts
<1>3. /\ \A i \in DOMAIN toPage' : i \in Nat /\ i >= 1
      /\ \A i \in DOMAIN toPage : i \in Nat /\ i >= 1
  BY AnsweredDomains
<1>4. \A n \in DOMAIN jobs', s \in submitted : jobs'[n].kind = "save" /\ s.op = jobs'[n].op => s.place = jobs'[n].place
  BY <1>1, <1>2 DEF SavedPlace
<1>5. ASSUME NEW i \in DOMAIN toPage', toPage'[i].kind = "saved"
      PROVE  /\ IsTreeThen(i - 1)
             /\ \A s \in submitted : s.op = toPage'[i].op => s.place = PlacesAtThen(i - 1)[toPage'[i].request]
  <2>1. CASE i \in DOMAIN toPage
    <3>1. /\ toPage'[i] = toPage[i] /\ IsTree(i - 1)
          /\ \A s \in submitted : s.op = toPage[i].op => s.place = PlacesAt(i - 1)[toPage[i].request]
      BY <1>1, <1>5, <2>1 DEF SavedPlace, Answered
    <3>2. i - 1 = 0 \/ i - 1 \in DOMAIN toPage
      <4>1. DOMAIN toPage = 1 .. Len(toPage) /\ Len(toPage) \in Nat
        BY DEF TabsInv, TabsTypeOK
      <4> QED
        BY <2>1, <4>1
    <3>3. IsTreeThen(i - 1) /\ PlacesAtThen(i - 1) = PlacesAt(i - 1)
      BY <3>1, <3>2 DEF IsTree, IsTreeThen, PlacesAt, PlacesAtThen, Answered, PageStays
    <3> QED
      BY <3>1, <3>3
  <2>2. CASE i \notin DOMAIN toPage
    <3>1. /\ kind = "save" /\ NewAt(i - 1, "collections") /\ toPage'[i - 1].places[j.request] = j.place
          /\ toPage'[i].op = j.op /\ toPage'[i].request = j.request
      BY <1>5, <2>2 DEF Answered, NewAt
    <3>2. i - 1 # 0
      BY <1>3, <3>1 DEF NewAt
    <3>3. \A s \in submitted : s.op = j.op => s.place = j.place
      BY <1>1, <1>2, <3>1 DEF SavedPlace
    <3> QED
      BY <3>1, <3>2, <3>3 DEF NewAt, IsTreeThen, PlacesAtThen
  <2> QED
    BY <2>1, <2>2
<1> QED
  BY <1>4, <1>5 DEF SavedPlace, IsTree, IsTreeThen, PlacesAt, PlacesAtThen, PageStays

-----------------------------------------------------------------------------
(* Tabs: what a step of the host means to a tab *)

\* it changes what a request is, with a new answer to its save, or neither
LEMMA HostView ==
  ASSUME TabsInv, NEW j, NEW kind, Taken(j, kind), Answered(j, kind), Writes(j, kind), NEW r \in Requests
  PROVE  /\ \A k : SavedAt(k, r) => SavedAtThen(k, r)
         /\ \A k : SavedAtThen(k, r) => SavedAt(k, r) \/ (NewAt(k, "saved") /\ kind = "save" /\ j.request = r)
         /\ \/ \E k : NewAt(k, "saved") /\ toPage'[k].request = r
            \/ /\ \A k : SavedAtThen(k, r) => SavedAt(k, r)
               /\ stored'[r].place # Nowhere =>
                    stored[r].place # Nowhere /\ stored'[r].text = stored[r].text /\ stored'[r].auth = stored[r].auth
         /\ stored[r].place # Nowhere /\ ~(kind = "delete" /\ j.request = r) => stored'[r].place # Nowhere
<1>1. /\ \A i \in DOMAIN toPage : i \in DOMAIN toPage' /\ toPage'[i] = toPage[i]
      /\ \A i \in DOMAIN toPage' : i \notin DOMAIN toPage => toPage'[i].request = j.request
      /\ \A i \in DOMAIN toPage' : NewAt(i, "saved") => kind = "save"
  BY DEF Answered
<1>2. \A k : SavedAt(k, r) => SavedAtThen(k, r)
  BY <1>1 DEF SavedAt, SavedAtThen
<1>3. \A k : SavedAtThen(k, r) => SavedAt(k, r) \/ (NewAt(k, "saved") /\ toPage'[k].request = r)
  BY <1>1 DEF SavedAt, SavedAtThen, NewAt
<1>4. \A k : NewAt(k, "saved") => kind = "save" /\ toPage'[k].request = j.request
  BY <1>1 DEF NewAt
<1>5. stored'[r].place # Nowhere /\ (\A k : ~(NewAt(k, "saved") /\ toPage'[k].request = r)) =>
        stored[r].place # Nowhere /\ stored'[r].text = stored[r].text /\ stored'[r].auth = stored[r].auth
  <2>1. CASE NothingSaved
    BY <2>1 DEF Writes
  <2>2. CASE ~NothingSaved
    BY <1>4, <2>2 DEF NothingSaved, Writes
  <2> QED
    BY <2>1, <2>2
<1>6. stored[r].place # Nowhere /\ ~(kind = "delete" /\ j.request = r) => stored'[r].place # Nowhere
  BY DEF Writes
<1> QED
  BY <1>2, <1>3, <1>4, <1>5, <1>6

LEMMA HostBase ==
  ASSUME TabsInv, NEW j, NEW kind, Taken(j, kind), Answered(j, kind), Writes(j, kind), PageStays, NEW t \in Tabs
  PROVE  BaseIsStored(t)'
<1>1. TabsTypeOK /\ BaseIsStored(t) /\ tab' = tab
  BY DEF TabsInv, TabInv, PageStays
<1>2. PICK r : r = tab[t].request
  OBVIOUS
<1> SUFFICES ASSUME Loaded(t), stored'[r].place # Nowhere
             PROVE  /\ (\A i \in DOMAIN toPage' : ~SavedAtThen(i, r)) =>
                         tab[t].baseText = stored'[r].text /\ tab[t].baseAuth = stored'[r].auth
                    /\ \A i \in DOMAIN toPage' :
                         SavedAtThen(i, r) /\ (\A k \in DOMAIN toPage' : k > i => ~SavedAtThen(k, r)) =>
                           toPage'[i].text = stored'[r].text /\ toPage'[i].auth = stored'[r].auth
  BY <1>1, <1>2 DEF BaseIsStored, Loaded, IsOpen, SavedAt, SavedAtThen, IsStored
<1>3. r \in Requests
  BY <1>1, <1>2, TabParts DEF Loaded, IsOpen
<1>4. /\ \A k : SavedAt(k, r) => SavedAtThen(k, r)
      /\ \A k : SavedAtThen(k, r) => SavedAt(k, r) \/ (NewAt(k, "saved") /\ j.request = r)
      /\ \/ \E k : NewAt(k, "saved") /\ toPage'[k].request = r
         \/ /\ \A k : SavedAtThen(k, r) => SavedAt(k, r)
            /\ stored[r].place # Nowhere /\ stored'[r].text = stored[r].text /\ stored'[r].auth = stored[r].auth
  BY <1>3, HostView
<1>5. /\ \A i \in DOMAIN toPage' : i \in Nat
      /\ \A i \in DOMAIN toPage : i \in Nat /\ i \in DOMAIN toPage' /\ toPage'[i] = toPage[i]
      /\ \A i \in DOMAIN toPage' : i \notin DOMAIN toPage => \A k \in DOMAIN toPage : k < i
  BY AnsweredDomains DEF Answered
<1>6. CASE \E k : NewAt(k, "saved") /\ toPage'[k].request = r
  <2>1. PICK k : NewAt(k, "saved") /\ toPage'[k].request = r
    BY <1>6
  <2>2. /\ k \in DOMAIN toPage' /\ k \notin DOMAIN toPage /\ SavedAtThen(k, r)
        /\ toPage'[k].request = j.request
        /\ toPage'[k].text = stored'[j.request].text /\ toPage'[k].auth = stored'[j.request].auth
        /\ \A i \in DOMAIN toPage' : NewAt(i, "saved") => i = k
    BY <2>1 DEF NewAt, Answered, SavedAtThen
  <2>3. ASSUME NEW i \in DOMAIN toPage', SavedAtThen(i, r), \A h \in DOMAIN toPage' : h > i => ~SavedAtThen(h, r)
        PROVE  i = k
    <3>1. ~(k > i)
      BY <2>2, <2>3
    <3>2. i \notin DOMAIN toPage
      BY <1>5, <2>2, <3>1
    <3> QED
      BY <2>2, <2>3, <3>2 DEF NewAt, SavedAtThen
  <2> QED
    BY <2>1, <2>2, <2>3
<1>7. CASE /\ \A k : SavedAtThen(k, r) => SavedAt(k, r)
           /\ stored[r].place # Nowhere /\ stored'[r].text = stored[r].text /\ stored'[r].auth = stored[r].auth
  <2>1. /\ (\A i \in DOMAIN toPage : ~SavedAt(i, r)) =>
             tab[t].baseText = stored[r].text /\ tab[t].baseAuth = stored[r].auth
        /\ \A i \in DOMAIN toPage : SavedAt(i, r) /\ (\A k \in DOMAIN toPage : k > i => ~SavedAt(k, r)) =>
             toPage[i].text = stored[r].text /\ toPage[i].auth = stored[r].auth
    BY <1>1, <1>2, <1>7 DEF BaseIsStored, IsStored
  <2>2. (\A i \in DOMAIN toPage' : ~SavedAtThen(i, r)) => \A i \in DOMAIN toPage : ~SavedAt(i, r)
    BY <1>4, <1>5
  <2>3. ASSUME NEW i \in DOMAIN toPage', SavedAtThen(i, r), \A k \in DOMAIN toPage' : k > i => ~SavedAtThen(k, r)
        PROVE  toPage'[i].text = stored[r].text /\ toPage'[i].auth = stored[r].auth
    <3>1. i \in DOMAIN toPage /\ SavedAt(i, r) /\ toPage'[i] = toPage[i]
      BY <1>5, <1>7, <2>3 DEF SavedAt
    <3>2. \A k \in DOMAIN toPage : k > i => ~SavedAt(k, r)
      BY <1>4, <1>5, <2>3
    <3> QED
      BY <2>1, <3>1, <3>2
  <2> QED
    BY <1>7, <2>1, <2>2, <2>3
<1> QED
  BY <1>4, <1>6, <1>7

\* no job of these kinds was left behind a message, and none comes back
LEMMA HostNoneLeft ==
  ASSUME TabsInv, NEW j, NEW kind, Taken(j, kind), Answered(j, kind), Writes(j, kind), NEW r \in Requests,
         NEW kinds, "save" \in kinds, NEW i, NoneLeft(r, kinds, i)
  PROVE  /\ NoneLeftThen(r, kinds, i)
         /\ "delete" \in kinds /\ stored[r].place # Nowhere => stored'[r].place # Nowhere
<1>1. /\ \A n \in DOMAIN jobs' : \E k \in DOMAIN jobs : jobs'[n] = jobs[k]
      /\ kind # "read" => j.kind = kind /\ \E k \in DOMAIN jobs : jobs[k] = j
  BY TakenParts
<1>2. ~(kind # "read" /\ kind \in kinds /\ j.request = r)
  BY <1>1 DEF NoneLeft
<1>3. /\ \A k : SavedAtThen(k, r) => SavedAt(k, r) \/ (kind = "save" /\ j.request = r)
      /\ stored[r].place # Nowhere /\ ~(kind = "delete" /\ j.request = r) => stored'[r].place # Nowhere
  BY HostView
<1>4. \A k : SavedAtThen(k, r) => SavedAt(k, r)
  BY <1>2, <1>3
<1>5. \A k \in DOMAIN toPage' : k > i => ~SavedAtThen(k, r)
  BY <1>4 DEF NoneLeft, SavedAt
<1>6. \A n \in DOMAIN jobs' : ~(jobs'[n].request = r /\ jobs'[n].kind \in kinds)
  BY <1>1 DEF NoneLeft
<1> QED
  BY <1>2, <1>3, <1>5, <1>6 DEF NoneLeftThen

LEMMA HostSettles ==
  ASSUME TabsInv, NEW j, NEW kind, Taken(j, kind), Answered(j, kind), Writes(j, kind), PageStays, NEW t \in Tabs
  PROVE  SaveSettles(t)' /\ CloseSettles(t)'
<1>1. TabsTypeOK /\ SaveSettles(t) /\ CloseSettles(t) /\ DialogInv /\ ReadsApart
  BY DEF TabsInv, TabInv, PipeInv
<1>2. UNCHANGED <<tab, saving, closing>>
  BY DEF PageStays
<1>3. PICK r : r = tab[t].request
  OBVIOUS
<1>4. /\ j.op \in Nat
      /\ \A n \in DOMAIN jobs' : jobs'[n].op \in Nat /\ \E k \in DOMAIN jobs : jobs'[n] = jobs[k]
      /\ \A n \in DOMAIN jobs' : kind # "read" => jobs'[n].op > j.op
      /\ kind # "read" => j.kind = kind /\ \E k \in DOMAIN jobs : jobs[k] = j
      /\ kind = "read" => \E k \in DOMAIN reads : reads[k] = j
  BY TakenParts
<1>5. /\ \A i \in DOMAIN toPage : i \in DOMAIN toPage' /\ toPage'[i] = toPage[i]
      /\ \A i \in DOMAIN toPage' : i \in Nat
      /\ \A i \in DOMAIN toPage' : i \notin DOMAIN toPage /\ toPage'[i].kind = "reply" =>
           /\ toPage'[i].op = j.op /\ \A k \in DOMAIN toPage' : k <= i
           /\ toPage'[i].ok /\ kind = "save" => stored'[j.request].place # Nowhere
  BY AnsweredDomains DEF Answered, NewAt
<1>6. saving[t].op \in Nat /\ closing[t].op \in Nat
  BY <1>1, TabNumbers
<1>7. kind = "read" => j.op # saving[t].op /\ j.op # closing[t].op
  BY <1>1, <1>4 DEF ReadsApart
<1>8. SaveSettles(t)'
  <2> SUFFICES ASSUME saving[t].stage = "posted"
               PROVE  /\ LoadedThen(t)
                      /\ \A n \in DOMAIN jobs' : jobs'[n].request = r =>
                           /\ jobs'[n].kind = "save" => jobs'[n].op <= saving[t].op
                           /\ jobs'[n].kind = "delete" => jobs'[n].op < saving[t].op
                      /\ \A n \in DOMAIN jobs' : jobs'[n].op = saving[t].op =>
                           jobs'[n].kind = "save" /\ jobs'[n].request = r
                      /\ \A i \in DOMAIN toPage' : toPage'[i].kind = "reply" /\ toPage'[i].op = saving[t].op =>
                           NoneLeftThen(r, {"save", "delete"}, i) /\ (toPage'[i].ok => stored'[r].place # Nowhere)
    BY <1>2, <1>3, Thens DEF SaveSettles, LoadedThen, Loaded, IsOpen, IsStored, NoneLeft, NoneLeftThen, SavedAt, SavedAtThen
  <2>1. /\ Loaded(t)
        /\ \A n \in DOMAIN jobs : jobs[n].request = r =>
             /\ jobs[n].kind = "save" => jobs[n].op <= saving[t].op
             /\ jobs[n].kind = "delete" => jobs[n].op < saving[t].op
        /\ \A n \in DOMAIN jobs : jobs[n].op = saving[t].op => jobs[n].kind = "save" /\ jobs[n].request = r
        /\ \A i \in DOMAIN toPage : toPage[i].kind = "reply" /\ toPage[i].op = saving[t].op =>
             NoneLeft(r, {"save", "delete"}, i) /\ (toPage[i].ok => stored[r].place # Nowhere)
    BY <1>1, <1>3 DEF SaveSettles, IsStored
  <2>2. LoadedThen(t) /\ r \in Requests
    BY <1>1, <1>2, <1>3, <2>1, TabParts DEF LoadedThen, Loaded, IsOpen
  <2>3. /\ \A n \in DOMAIN jobs' : jobs'[n].request = r =>
             /\ jobs'[n].kind = "save" => jobs'[n].op <= saving[t].op
             /\ jobs'[n].kind = "delete" => jobs'[n].op < saving[t].op
        /\ \A n \in DOMAIN jobs' : jobs'[n].op = saving[t].op => jobs'[n].kind = "save" /\ jobs'[n].request = r
    BY <1>4, <2>1
  <2>4. ASSUME NEW i \in DOMAIN toPage', toPage'[i].kind = "reply", toPage'[i].op = saving[t].op
        PROVE  NoneLeftThen(r, {"save", "delete"}, i) /\ (toPage'[i].ok => stored'[r].place # Nowhere)
    <3>1. CASE i \in DOMAIN toPage
      <4>1. NoneLeft(r, {"save", "delete"}, i) /\ (toPage'[i].ok => stored[r].place # Nowhere)
        BY <1>5, <2>1, <2>4, <3>1
      <4>2. PICK kinds : kinds = {"save", "delete"}
        OBVIOUS
      <4>3. NoneLeft(r, kinds, i) /\ "save" \in kinds /\ "delete" \in kinds
        BY <4>1, <4>2
      <4>4. NoneLeftThen(r, kinds, i) /\ (stored[r].place # Nowhere => stored'[r].place # Nowhere)
        BY <2>2, <4>3, HostNoneLeft
      <4> QED
        BY <4>1, <4>2, <4>4
    <3>2. CASE i \notin DOMAIN toPage
      <4>1. /\ j.op = saving[t].op /\ kind # "read" /\ \A k \in DOMAIN toPage' : k <= i
            /\ toPage'[i].ok /\ kind = "save" => stored'[j.request].place # Nowhere
        BY <1>5, <1>7, <2>4, <3>2
      <4>2. kind = "save" /\ j.request = r
        BY <1>4, <2>1, <4>1
      <4>3. \A n \in DOMAIN jobs' : ~(jobs'[n].request = r /\ jobs'[n].kind \in {"save", "delete"})
        BY <1>4, <1>6, <2>3, <4>1
      <4>4. \A k \in DOMAIN toPage' : ~(k > i)
        BY <1>5, <4>1
      <4> QED
        BY <4>1, <4>2, <4>3, <4>4 DEF NoneLeftThen
    <3> QED
      BY <3>1, <3>2
  <2> QED
    BY <2>2, <2>3, <2>4
<1>9. CloseSettles(t)'
  <2> SUFFICES ASSUME closing[t].stage \in {"discarding", "removing"}
               PROVE  /\ saving[t].stage = "none" /\ tab[t].authUpdate = 0
                      /\ \A n \in DOMAIN jobs' : jobs'[n].request = r /\ jobs'[n].kind = "save" =>
                           jobs'[n].op < closing[t].op
                      /\ \A i \in DOMAIN toPage' : toPage'[i].kind = "reply" /\ toPage'[i].op = closing[t].op =>
                           NoneLeftThen(r, {"save"}, i)
    BY <1>2, <1>3, Thens DEF CloseSettles, NoneLeft, NoneLeftThen, SavedAt, SavedAtThen
  <2>1. /\ saving[t].stage = "none" /\ tab[t].authUpdate = 0
        /\ \A n \in DOMAIN jobs : jobs[n].request = r /\ jobs[n].kind = "save" => jobs[n].op < closing[t].op
        /\ \A i \in DOMAIN toPage : toPage[i].kind = "reply" /\ toPage[i].op = closing[t].op => NoneLeft(r, {"save"}, i)
    BY <1>1, <1>3 DEF CloseSettles
  <2>2. r \in Requests
    <3>1. IsOpen(t)
      BY <1>1 DEF DialogInv
    <3> QED
      BY <1>1, <1>3, <3>1, TabParts DEF IsOpen
  <2>3. \A n \in DOMAIN jobs' : jobs'[n].request = r /\ jobs'[n].kind = "save" => jobs'[n].op < closing[t].op
    BY <1>4, <2>1
  <2>4. ASSUME NEW i \in DOMAIN toPage', toPage'[i].kind = "reply", toPage'[i].op = closing[t].op
        PROVE  NoneLeftThen(r, {"save"}, i)
    <3>1. CASE i \in DOMAIN toPage
      <4>1. PICK kinds : kinds = {"save"}
        OBVIOUS
      <4>2. NoneLeft(r, kinds, i) /\ "save" \in kinds
        BY <1>5, <2>1, <2>4, <3>1, <4>1
      <4>3. NoneLeftThen(r, kinds, i)
        BY <2>2, <4>2, HostNoneLeft
      <4> QED
        BY <4>1, <4>3
    <3>2. CASE i \notin DOMAIN toPage
      <4>1. j.op = closing[t].op /\ kind # "read" /\ \A k \in DOMAIN toPage' : k <= i
        BY <1>5, <1>7, <2>4, <3>2
      <4>2. \A n \in DOMAIN jobs' : ~(jobs'[n].request = r /\ jobs'[n].kind \in {"save"})
        BY <1>4, <1>6, <2>3, <4>1
      <4>3. \A k \in DOMAIN toPage' : ~(k > i)
        BY <1>5, <4>1
      <4> QED
        BY <4>2, <4>3 DEF NoneLeftThen
    <3> QED
      BY <3>1, <3>2
  <2> QED
    BY <2>1, <2>3, <2>4
<1> QED
  BY <1>8, <1>9

LEMMA HostCloses ==
  ASSUME TabsInv, NEW j, NEW kind, Taken(j, kind), Answered(j, kind), Writes(j, kind), PageStays, NEW t \in Tabs
  PROVE  ClosesSaved(t)' /\ BasePlace(t)'
<1>1. TabsTypeOK /\ ClosesSaved(t) /\ BasePlace(t)
  BY DEF TabsInv, TabInv
<1>2. UNCHANGED <<tab, saving, closing, tree, timeouts>>
  BY DEF PageStays
<1>3. PICK r : r = tab[t].request
  OBVIOUS
<1>4. ClosesSaved(t)'
  <2> SUFFICES ASSUME closing[t].stage \in {"releasing", "discarding"}, closing[t].why = "save"
               PROVE  stored'[r].place # Nowhere /\ NoneLeftThen(r, {"save", "delete"}, 0)
    BY <1>1, <1>2, <1>3, Thens
       DEF ClosesSaved, Loaded, IsOpen, IsStored, NoneLeft, NoneLeftThen, SavedAt, SavedAtThen
  <2>1. Loaded(t) /\ stored[r].place # Nowhere /\ NoneLeft(r, {"save", "delete"}, 0)
    BY <1>1, <1>3 DEF ClosesSaved, IsStored
  <2>2. r \in Requests
    BY <1>1, <1>3, <2>1, TabParts DEF Loaded, IsOpen
  <2>3. PICK kinds : kinds = {"save", "delete"}
    OBVIOUS
  <2>4. NoneLeft(r, kinds, 0) /\ "save" \in kinds /\ "delete" \in kinds
    BY <2>1, <2>3
  <2>5. NoneLeftThen(r, kinds, 0) /\ stored'[r].place # Nowhere
    BY <2>1, <2>2, <2>4, HostNoneLeft
  <2> QED
    BY <2>3, <2>5
<1>5. BasePlace(t)'
  <2>1. \A i \in DOMAIN toPage : i \in DOMAIN toPage' /\ toPage'[i] = toPage[i]
    BY DEF Answered
  <2> QED
    BY <1>1, <1>2, <2>1 DEF BasePlace, IsOpen, SavedAt
<1> QED
  BY <1>4, <1>5

LEMMA HostAuths ==
  ASSUME TabsInv, NEW j, NEW kind, Taken(j, kind), Answered(j, kind), PageStays, timeouts = 0
  PROVE  AuthsApplied' /\ \A t \in Tabs : AuthSettled(t)'
<1>1. TabsTypeOK /\ AuthsApplied /\ (\A t \in Tabs : AuthSettled(t)) /\ DialogInv /\ OneTab /\ ReadsApart
  BY DEF TabsInv, TabInv, PipeInv
<1>2. tab' = tab
  BY DEF PageStays
<1>3. /\ j.op \in Nat
      /\ \A n \in DOMAIN jobs' : jobs'[n].op \in Nat /\ \E k \in DOMAIN jobs : jobs'[n] = jobs[k]
      /\ \A n \in DOMAIN jobs' : kind # "read" => jobs'[n].op > j.op
      /\ kind # "read" => j.kind = kind /\ \E k \in DOMAIN jobs : jobs[k] = j
      /\ kind = "read" => \E k \in DOMAIN reads : reads[k] = j
  BY TakenParts
<1>4. /\ \A i \in DOMAIN toPage : i \in DOMAIN toPage' /\ toPage'[i] = toPage[i]
      /\ \A i \in DOMAIN toPage' : i \in Nat
      /\ \A i \in DOMAIN toPage' : i \notin DOMAIN toPage => toPage'[i].op = j.op /\ toPage'[i].request = j.request
      /\ \A i \in DOMAIN toPage' : i \notin DOMAIN toPage /\ toPage'[i].kind = "reply" =>
           \A k \in DOMAIN toPage' : k <= i
      /\ \A i \in DOMAIN toPage' : i \notin DOMAIN toPage /\ toPage'[i].kind = "auth" => kind = "configure"
  BY AnsweredDomains DEF Answered, NewAt
<1>5. /\ \A n \in DOMAIN jobs' : jobs'[n].kind = "configure" => Applied(jobs'[n].op, jobs'[n].request)
      /\ \A i \in DOMAIN toPage' : toPage'[i].kind = "auth" => Applied(toPage'[i].op, toPage'[i].request)
  <2>1. kind = "configure" => Applied(j.op, j.request)
    BY <1>1, <1>3 DEF AuthsApplied
  <2>2. \A n \in DOMAIN jobs' : jobs'[n].kind = "configure" => Applied(jobs'[n].op, jobs'[n].request)
    BY <1>1, <1>3 DEF AuthsApplied
  <2>3. \A i \in DOMAIN toPage' : toPage'[i].kind = "auth" => Applied(toPage'[i].op, toPage'[i].request)
    BY <1>1, <1>4, <2>1 DEF AuthsApplied
  <2> QED
    BY <2>2, <2>3
<1>6. AuthsApplied'
  BY <1>2, <1>5 DEF AuthsApplied, Applied
<1>7. ASSUME NEW t \in Tabs PROVE AuthSettled(t)'
  <2>1. PICK r : r = tab[t].request
    OBVIOUS
  <2> SUFFICES ASSUME NEW i \in DOMAIN toPage', tab[t].authUpdate # 0, toPage'[i].kind = "reply",
                      toPage'[i].op = tab[t].authUpdate
               PROVE  /\ \A n \in DOMAIN jobs' : ~(jobs'[n].kind = "configure" /\ jobs'[n].request = r)
                      /\ \A k \in DOMAIN toPage' : ~(k > i /\ toPage'[k].kind = "auth" /\ toPage'[k].request = r)
    BY <1>2, <2>1 DEF AuthSettled, AuthsLeft
  <2>2. CASE i \in DOMAIN toPage
    <3>1. /\ \A n \in DOMAIN jobs : ~(jobs[n].kind = "configure" /\ jobs[n].request = r)
          /\ \A k \in DOMAIN toPage : ~(k > i /\ toPage[k].kind = "auth" /\ toPage[k].request = r)
      BY <1>1, <1>4, <2>1, <2>2 DEF AuthSettled, AuthsLeft
    <3>2. ~(kind = "configure" /\ j.request = r)
      BY <1>3, <3>1
    <3> QED
      BY <1>3, <1>4, <3>1, <3>2
  <2>3. CASE i \notin DOMAIN toPage
    <3>1. toPage'[i].op = j.op /\ (\A k \in DOMAIN toPage' : k <= i)
      BY <1>4, <2>3
    <3>2. kind # "read"
      BY <1>1, <1>3, <3>1 DEF ReadsApart
    <3>3. IsOpen(t)
      BY <1>1 DEF DialogInv
    <3>4. ASSUME NEW n \in DOMAIN jobs', jobs'[n].kind = "configure", jobs'[n].request = r PROVE FALSE
      <4>1. PICK u \in Tabs : tab[u].request = r /\ jobs'[n].op <= tab[u].authUpdate
        BY <1>5, <3>4 DEF Applied
      <4>2. u = t
        BY <1>1, <2>1, <3>3, <4>1 DEF OneTab
      <4>3. jobs'[n].op <= j.op
        BY <3>1, <4>1, <4>2
      <4>4. jobs'[n].op > j.op /\ jobs'[n].op \in Nat /\ j.op \in Nat
        BY <1>3, <3>2
      <4> QED
        BY <4>3, <4>4
    <3>5. \A k \in DOMAIN toPage' : ~(k > i)
      BY <1>4, <3>1
    <3> QED
      BY <3>4, <3>5
  <2> QED
    BY <2>2, <2>3
<1> QED
  BY <1>6, <1>7

(***************************************************************************)
(* A step of the host that takes a job, answers it and writes no more than *)
(* its answers tell keeps the invariant.                                   *)
(***************************************************************************)
LEMMA HostStepKeeps ==
  ASSUME TabsInv, NEW j, NEW kind, Taken(j, kind), Answered(j, kind), Writes(j, kind), PageStays,
         failures' = failures \/ (failures + timeouts < MaxFailures /\ failures' = failures + 1)
  PROVE  TabsInv'
<1>1. TabsTypeOK
  BY DEF TabsInv
<1>2. /\ UNCHANGED <<tab, saving, closing, dialog, tree, submitted, loads, ops>>
      /\ UNCHANGED <<typed, closed, edits, clicks>> /\ timeouts' = timeouts
  BY DEF PageStays
<1>3. TabsTypeOK'
  <2>1. failures' \in Nat /\ failures' + timeouts <= MaxFailures
    BY <1>1, Counted
  <2>2. toPage' \in Seq(MessageType) /\ jobs' \in Seq(JobType) /\ reads' \in Seq(ReadType)
    BY TakenParts DEF Answered
  <2>3. /\ stored' \in [Requests -> [place : Places, text : Texts, auth : Auths]]
        /\ staged' \in [Requests -> Auths \cup {NoStage}]
    BY DEF Writes
  <2> QED
    BY <1>1, <1>2, <2>1, <2>2, <2>3 DEF TabsTypeOK
<1>4. DialogInv' /\ OneTab' /\ DraftKeepsEdits' /\ ClosedBySaveIsStored'
  <2>1. DialogInv'
    BY <1>2 DEF TabsInv, DialogInv, IsOpen
  <2>2. OneTab'
    BY <1>2 DEF TabsInv, OneTab, IsOpen
  <2>3. DraftKeepsEdits'
    BY <1>2 DEF TabsInv, DraftKeepsEdits, IsOpen
  <2>4. ClosedBySaveIsStored'
    BY <1>2 DEF TabsInv, ClosedBySaveIsStored
  <2> QED
    BY <2>1, <2>2, <2>3, <2>4
<1>5. PipeInv' /\ LoadsInv' /\ PlacesInv' /\ SavedPlace'
  BY HostPipe, HostLoads, HostPlaces, HostSavedPlace
<1>6. timeouts' = 0 => AuthsApplied' /\ \A t \in Tabs : AuthSettled(t)'
  BY <1>2, HostAuths
<1>7. \A t \in Tabs : TabInv(t)'
  BY <1>6, HostBase, HostSettles, HostCloses DEF TabInv
<1> QED
  BY <1>3, <1>4, <1>5, <1>6, <1>7 DEF TabsInv

-----------------------------------------------------------------------------
(* Tabs: what the host answers *)

\* three messages at most come behind the others, those of its answers that there are
Behind3(s, u, new, n) ==
  /\ \A i \in DOMAIN s : i \in Nat /\ i <= n
  /\ {n + 1, n + 2, n + 3} \subseteq DOMAIN new
  /\ n + 1 \notin DOMAIN s /\ n + 2 \notin DOMAIN s /\ n + 3 \notin DOMAIN s
  /\ new[n + 1] = u[1] /\ new[n + 2] = u[2] /\ new[n + 3] = u[3]
  /\ \A i \in DOMAIN new : i \in DOMAIN s \/ i \in {n + 1, n + 2, n + 3}
Behind2(s, u, new, n) ==
  /\ \A i \in DOMAIN s : i \in Nat /\ i <= n
  /\ {n + 1, n + 2} \subseteq DOMAIN new
  /\ n + 1 \notin DOMAIN s /\ n + 2 \notin DOMAIN s
  /\ new[n + 1] = u[1] /\ new[n + 2] = u[2]
  /\ \A i \in DOMAIN new : i \in DOMAIN s \/ i \in {n + 1, n + 2}

LEMMA ThreeBehind ==
  ASSUME NEW S, NEW s \in Seq(S), NEW u \in Seq(S), Len(u) = 3, NEW new, new = s \o u
  PROVE  /\ new \in Seq(S)
         /\ \A i \in DOMAIN s : i \in DOMAIN new /\ new[i] = s[i]
         /\ \E n \in Nat : Behind3(s, u, new, n)
<1>1. Len(s) \in Nat /\ DOMAIN s = 1 .. Len(s)
  OBVIOUS
<1>2. /\ s \o u \in Seq(S) /\ DOMAIN (s \o u) = 1 .. Len(s) + Len(u)
      /\ \A i \in 1 .. Len(s) : (s \o u)[i] = s[i]
      /\ \A i \in 1 .. Len(s) + Len(u) : i > Len(s) => (s \o u)[i] = u[i - Len(s)]
  BY ConcatParts
<1>3. /\ new \in Seq(S) /\ DOMAIN new = 1 .. Len(s) + 3
      /\ \A i \in 1 .. Len(s) : new[i] = s[i]
      /\ \A i \in 1 .. Len(s) + 3 : i > Len(s) => new[i] = u[i - Len(s)]
  BY <1>2
<1>4. PICK n \in Nat : n = Len(s)
  BY <1>1
<1>5. new[n + 1] = u[1] /\ new[n + 2] = u[2] /\ new[n + 3] = u[3]
  <2>1. n + 1 - n = 1 /\ n + 2 - n = 2 /\ n + 3 - n = 3
    BY <1>4
  <2>2. {n + 1, n + 2, n + 3} \subseteq 1 .. n + 3 /\ n + 1 > n /\ n + 2 > n /\ n + 3 > n
    BY <1>4
  <2> QED
    BY <1>1, <1>3, <1>4, <2>1, <2>2
<1>6. /\ \A i \in DOMAIN s : i \in DOMAIN new /\ new[i] = s[i] /\ i \in Nat /\ i <= n
      /\ {n + 1, n + 2, n + 3} \subseteq DOMAIN new
      /\ n + 1 \notin DOMAIN s /\ n + 2 \notin DOMAIN s /\ n + 3 \notin DOMAIN s
      /\ \A i \in DOMAIN new : i \in DOMAIN s \/ i \in {n + 1, n + 2, n + 3}
  BY <1>1, <1>3, <1>4
<1>7. Behind3(s, u, new, n)
  BY <1>5, <1>6 DEF Behind3
<1> QED
  BY <1>3, <1>6, <1>7

LEMMA TwoBehind ==
  ASSUME NEW S, NEW s \in Seq(S), NEW u \in Seq(S), Len(u) = 2, NEW new, new = s \o u
  PROVE  /\ new \in Seq(S)
         /\ \A i \in DOMAIN s : i \in DOMAIN new /\ new[i] = s[i]
         /\ \E n \in Nat : Behind2(s, u, new, n)
<1>1. Len(s) \in Nat /\ DOMAIN s = 1 .. Len(s)
  OBVIOUS
<1>2. /\ s \o u \in Seq(S) /\ DOMAIN (s \o u) = 1 .. Len(s) + Len(u)
      /\ \A i \in 1 .. Len(s) : (s \o u)[i] = s[i]
      /\ \A i \in 1 .. Len(s) + Len(u) : i > Len(s) => (s \o u)[i] = u[i - Len(s)]
  BY ConcatParts
<1>3. /\ new \in Seq(S) /\ DOMAIN new = 1 .. Len(s) + 2
      /\ \A i \in 1 .. Len(s) : new[i] = s[i]
      /\ \A i \in 1 .. Len(s) + 2 : i > Len(s) => new[i] = u[i - Len(s)]
  BY <1>2
<1>4. PICK n \in Nat : n = Len(s)
  BY <1>1
<1>5. new[n + 1] = u[1] /\ new[n + 2] = u[2]
  <2>1. n + 1 - n = 1 /\ n + 2 - n = 2
    BY <1>4
  <2>2. {n + 1, n + 2} \subseteq 1 .. n + 2 /\ n + 1 > n /\ n + 2 > n
    BY <1>4
  <2> QED
    BY <1>1, <1>3, <1>4, <2>1, <2>2
<1>6. /\ \A i \in DOMAIN s : i \in DOMAIN new /\ new[i] = s[i] /\ i \in Nat /\ i <= n
      /\ {n + 1, n + 2} \subseteq DOMAIN new
      /\ n + 1 \notin DOMAIN s /\ n + 2 \notin DOMAIN s
      /\ \A i \in DOMAIN new : i \in DOMAIN s \/ i \in {n + 1, n + 2}
  BY <1>1, <1>3, <1>4
<1>7. Behind2(s, u, new, n)
  BY <1>5, <1>6 DEF Behind2
<1> QED
  BY <1>3, <1>6, <1>7

\* what an operation is answered with
LEMMA MessageParts ==
  ASSUME TabsTypeOK, NEW j, j.op \in Nat, j.request \in Requests, NEW kind \in {"collections", "saved", "auth", "loaded", "reply"}
  PROVE  /\ Message(kind, j) \in MessageType
         /\ Message(kind, j).kind = kind /\ Message(kind, j).op = j.op /\ Message(kind, j).request = j.request
         /\ Message(kind, j).ok = TRUE
         /\ Message(kind, j).text = stored[j.request].text /\ Message(kind, j).auth = stored[j.request].auth
<1>1. stored[j.request] \in [place : Places, text : Texts, auth : Auths]
  BY DEF TabsTypeOK
<1>2. stored[j.request].text \in Texts /\ stored[j.request].auth \in Auths
  BY <1>1
<1> QED
  BY <1>2 DEF Message, MessageType

LEMMA AckParts ==
  ASSUME TabsTypeOK, NEW j, j.op \in Nat, j.request \in Requests
  PROVE  /\ Ack(j) \in MessageType
         /\ Ack(j).kind = "reply" /\ Ack(j).op = j.op /\ Ack(j).request = j.request /\ Ack(j).ok = TRUE
         /\ Error(j) \in MessageType
         /\ Error(j).kind = "reply" /\ Error(j).op = j.op /\ Error(j).request = j.request /\ Error(j).ok = FALSE
<1>1. PICK m \in MessageType : m = Ack(j) /\ m.kind = "reply" /\ m.op = j.op /\ m.request = j.request /\ m.ok = TRUE
  BY MessageParts DEF Ack
<1>2. Error(j) = [m EXCEPT !.ok = FALSE]
  BY <1>1 DEF Error
<1>3. /\ [m EXCEPT !.ok = FALSE] \in MessageType
      /\ [m EXCEPT !.ok = FALSE].kind = m.kind /\ [m EXCEPT !.ok = FALSE].op = m.op
      /\ [m EXCEPT !.ok = FALSE].request = m.request /\ [m EXCEPT !.ok = FALSE].ok = FALSE
  BY <1>1 DEF MessageType
<1> QED
  BY <1>1, <1>2, <1>3

LEMMA TreesParts ==
  ASSUME TabsTypeOK, NEW j, j.op \in Nat, j.request \in Requests,
         NEW now \in [Requests -> [place : Places, text : Texts, auth : Auths]]
  PROVE  /\ Trees(j, now) \in MessageType
         /\ Trees(j, now).kind = "collections" /\ Trees(j, now).op = j.op /\ Trees(j, now).request = j.request
         /\ Trees(j, now).places \in [Requests -> Places]
         /\ \A q \in Requests : Trees(j, now).places[q] = now[q].place
<1>1. PICK m \in MessageType :
        m = Message("collections", j) /\ m.kind = "collections" /\ m.op = j.op /\ m.request = j.request
  BY MessageParts
<1>2. PICK p : p = [r \in Requests |-> now[r].place]
  OBVIOUS
<1>3. p \in [Requests -> Places] /\ \A q \in Requests : p[q] = now[q].place
  BY <1>2
<1>4. Trees(j, now) = [m EXCEPT !.places = p]
  BY <1>1, <1>2 DEF Trees
<1>5. p \in {<<>>} \cup [Requests -> Places]
  BY <1>3
<1>6. /\ [m EXCEPT !.places = p] \in MessageType
      /\ [m EXCEPT !.places = p].kind = m.kind /\ [m EXCEPT !.places = p].op = m.op
      /\ [m EXCEPT !.places = p].request = m.request /\ [m EXCEPT !.places = p].places = p
  BY <1>1, <1>5 DEF MessageType
<1> QED
  BY <1>1, <1>3, <1>4, <1>6

-----------------------------------------------------------------------------
(* Tabs: steps of the host *)

LEMMA HandleParts ==
  ASSUME TabsInv, NEW kind, Handle(kind), reads' = reads
  PROVE  /\ Taken(Job1, kind) /\ Job1 \in JobType
         /\ Job1.kind \in {"save", "configure", "discard", "delete", "move"} /\ Job1.kind = kind
         /\ Job1.op \in Nat /\ Job1.request \in Requests
         /\ Job1.place \in Places /\ Job1.text \in Texts /\ Job1.auth \in Auths
         /\ kind \in {"save", "move"} => Job1.place # Nowhere
<1>1. TabsTypeOK /\ OrderInv
  BY DEF TabsInv, PipeInv
<1>2. jobs \in Seq(JobType) /\ jobs # <<>> /\ jobs' = Tail(jobs) /\ Job1 = Head(jobs) /\ Job1.kind = kind
  BY <1>1 DEF TabsTypeOK, Handle, Job1
<1>3. Job1 = jobs[1] /\ jobs[1] \in JobType /\ 1 \in DOMAIN jobs
  BY <1>2, TailParts
<1>4. /\ Job1.kind \in {"save", "configure", "discard", "delete", "move"}
      /\ Job1.op \in Nat /\ Job1.request \in Requests
      /\ Job1.place \in Places /\ Job1.text \in Texts /\ Job1.auth \in Auths
  BY <1>3 DEF JobType
<1>5. kind \in {"save", "move"} => Job1.place # Nowhere
  BY <1>1, <1>2, <1>3 DEF OrderInv
<1>6. Taken(Job1, kind)
  BY <1>2, <1>4 DEF Taken
<1> QED
  BY <1>2, <1>3, <1>4, <1>5, <1>6

\* a reply alone tells that nothing was saved
LEMMA OneAnswer ==
  ASSUME TabsTypeOK, NEW j, NEW kind, NEW e \in MessageType, e.kind = "reply", e.op = j.op, e.request = j.request,
         kind = "save" => ~e.ok, toPage' = Append(toPage, e)
  PROVE  Answered(j, kind) /\ NothingSaved
<1>1. toPage \in Seq(MessageType)
  BY DEF TabsTypeOK
<1>2. /\ toPage' \in Seq(MessageType)
      /\ \A i \in DOMAIN toPage : i \in DOMAIN toPage' /\ toPage'[i] = toPage[i]
      /\ \A i \in DOMAIN toPage' : i \notin DOMAIN toPage => toPage'[i] = e /\ \A k \in DOMAIN toPage' : ~(k > i)
  BY <1>1, Appended
<1>3. \A i \in DOMAIN toPage' : i \in Nat
  BY <1>2
<1>4. \A i \in DOMAIN toPage' : i \notin DOMAIN toPage =>
        toPage'[i] = e /\ (\A k \in DOMAIN toPage' : k <= i) /\ \A k \in DOMAIN toPage : k < i
  <2> SUFFICES ASSUME NEW i \in DOMAIN toPage', i \notin DOMAIN toPage
               PROVE  toPage'[i] = e /\ (\A k \in DOMAIN toPage' : k <= i) /\ \A k \in DOMAIN toPage : k < i
    OBVIOUS
  <2>1. \A k \in DOMAIN toPage' : k <= i
    BY <1>2, <1>3
  <2>2. \A k \in DOMAIN toPage : k # i
    OBVIOUS
  <2> QED
    BY <1>2, <1>3, <2>1, <2>2
<1>5. \A i \in DOMAIN toPage', k \in {"auth", "loaded", "saved", "collections"} : ~NewAt(i, k)
  BY <1>4 DEF NewAt
<1>6. NothingSaved
  BY <1>5 DEF NothingSaved
<1>7. \A i \in DOMAIN toPage' : NewAt(i, "reply") =>
        (\A k \in DOMAIN toPage' : k <= i) /\ ~(toPage'[i].ok /\ kind = "save")
  BY <1>4 DEF NewAt
<1> QED
  BY <1>2, <1>4, <1>5, <1>6, <1>7 DEF Answered

TreeComes == \E i \in DOMAIN toPage' : NewAt(i, "collections")

\* what a read finds, an authentication, or a tree that brings nothing back comes before its reply
LEMMA TwoAnswers ==
  ASSUME TabsTypeOK, NEW j, NEW kind, NEW a \in MessageType, NEW e \in MessageType, kind # "save",
         e.kind = "reply", e.op = j.op, e.request = j.request, e.ok,
         a.kind \in {"auth", "loaded", "collections"}, a.op = j.op, a.request = j.request,
         a.kind = "auth" => kind = "configure",
         a.kind = "loaded" => kind = "read" /\ a.text = stored[j.request].text /\ a.auth = stored[j.request].auth,
         a.kind = "collections" =>
           /\ a.places \in [Requests -> Places] /\ \A q \in Requests : a.places[q] = stored'[q].place
           /\ \A q \in Requests : ~(stored[q].place = Nowhere /\ stored'[q].place # Nowhere),
         toPage' = toPage \o <<a, e>>
  PROVE  /\ Answered(j, kind) /\ NothingSaved
         /\ a.kind = "collections" => TreeComes
<1>1. toPage \in Seq(MessageType)
  BY DEF TabsTypeOK
<1>2. PICK u : u = <<a, e>>
  OBVIOUS
<1>14. u \in Seq(MessageType) /\ Len(u) = 2 /\ u[1] = a /\ u[2] = e /\ toPage' = toPage \o u
  BY <1>2
<1>15. /\ toPage' \in Seq(MessageType)
       /\ \A i \in DOMAIN toPage : i \in DOMAIN toPage' /\ toPage'[i] = toPage[i]
       /\ \E n \in Nat : Behind2(toPage, u, toPage', n)
  BY <1>1, <1>14, TwoBehind
<1>16. PICK n \in Nat : Behind2(toPage, u, toPage', n)
  BY <1>15
<1>3. /\ \A i \in DOMAIN toPage : i \in Nat /\ i <= n
      /\ {n + 1, n + 2} \subseteq DOMAIN toPage'
      /\ n + 1 \notin DOMAIN toPage /\ n + 2 \notin DOMAIN toPage
      /\ toPage'[n + 1] = a /\ toPage'[n + 2] = e
      /\ \A i \in DOMAIN toPage' : i \in DOMAIN toPage \/ i \in {n + 1, n + 2}
  BY <1>14, <1>16 DEF Behind2
<1>4. \A i \in DOMAIN toPage' : i \notin DOMAIN toPage =>
        /\ i \in {n + 1, n + 2} /\ toPage'[i].op = j.op /\ toPage'[i].request = j.request
        /\ \A k \in DOMAIN toPage : k < i
  BY <1>3
<1>5. \A i, k : NewAt(i, k) => (i = n + 1 /\ k = a.kind) \/ (i = n + 2 /\ k = "reply")
  BY <1>3 DEF NewAt
<1>6. NothingSaved
  BY <1>5 DEF NothingSaved
<1>7. \A i \in DOMAIN toPage' : NewAt(i, "reply") => i = n + 2 /\ toPage'[i].ok /\ \A k \in DOMAIN toPage' : k <= i
  <2>1. \A k \in DOMAIN toPage' : k <= n + 2
    BY <1>3
  <2>2. \A i \in DOMAIN toPage' : NewAt(i, "reply") => i = n + 2
    BY <1>5
  <2> QED
    BY <1>3, <2>1, <2>2
<1>8. \A i \in DOMAIN toPage' : NewAt(i, "auth") => kind = "configure"
  BY <1>5
<1>9. \A i \in DOMAIN toPage' : NewAt(i, "loaded") =>
        kind = "read" /\ toPage'[i].text = stored[j.request].text /\ toPage'[i].auth = stored[j.request].auth
  BY <1>3, <1>5
<1>10. \A i \in DOMAIN toPage' : NewAt(i, "collections") => i = n + 1 /\ a.kind = "collections" /\ toPage'[i] = a
  BY <1>3, <1>5
<1>11. \A i \in DOMAIN toPage' : NewAt(i, "collections") =>
         /\ toPage'[i].places \in [Requests -> Places] /\ \A q \in Requests : toPage'[i].places[q] = stored'[q].place
         /\ \A k \in DOMAIN toPage' : NewAt(k, "collections") => k = i
         /\ \A q \in Requests : ~(stored[q].place = Nowhere /\ stored'[q].place # Nowhere)
  BY <1>10
<1>12. Answered(j, kind)
  <2>1. \A i \in DOMAIN toPage' : NewAt(i, "reply") =>
          /\ \A k \in DOMAIN toPage' : k <= i
          /\ ~toPage'[i].ok => NothingSaved
          /\ toPage'[i].ok /\ kind = "save" => stored'[j.request].place # Nowhere
    BY <1>6, <1>7
  <2>2. \A i \in DOMAIN toPage' : ~NewAt(i, "saved")
    BY <1>6 DEF NothingSaved
  <2>3. \A i \in DOMAIN toPage' : i \notin DOMAIN toPage =>
          toPage'[i].op = j.op /\ toPage'[i].request = j.request /\ \A k \in DOMAIN toPage : k < i
    BY <1>4
  <2> QED
    BY <1>15, <1>8, <1>9, <1>11, <2>1, <2>2, <2>3 DEF Answered
<1>13. a.kind = "collections" => NewAt(n + 1, "collections") /\ n + 1 \in DOMAIN toPage'
  BY <1>3 DEF NewAt
<1> QED
  BY <1>6, <1>12, <1>13 DEF TreeComes

LEMMA FrameStays ==
  ASSUME UNCHANGED hostFrame
  PROVE  PageStays
BY DEF hostFrame, PageStays

LEMMA StoredTypes ==
  ASSUME TabsTypeOK
  PROVE  /\ stored \in [Requests -> [place : Places, text : Texts, auth : Auths]]
         /\ staged \in [Requests -> Auths \cup {NoStage}]
         /\ \A q \in Requests :
              stored[q].place \in Places /\ stored[q].text \in Texts /\ stored[q].auth \in Auths
         /\ \A q \in Requests, a \in Auths \cup {NoStage} :
              [staged EXCEPT ![q] = a] \in [Requests -> Auths \cup {NoStage}]
BY DEF TabsTypeOK

LEMMA ConfigureKeeps ==
  ASSUME TabsInv, HandleConfigure
  PROVE  TabsInv'
<1>1. PICK j : j = Job1
  OBVIOUS
<1>2. /\ Taken(j, "configure") /\ j.op \in Nat /\ j.request \in Requests /\ j.auth \in Auths
      /\ TabsTypeOK
  BY <1>1, HandleParts DEF HandleConfigure, TabsInv
<1>3. PICK m \in MessageType : m = Message("auth", j) /\ m.kind = "auth" /\ m.op = j.op /\ m.request = j.request
  BY <1>2, MessageParts
<1>4. PICK a \in MessageType :
        a = [m EXCEPT !.auth = j.auth, !.pending = TRUE] /\ a.kind = "auth" /\ a.op = j.op /\ a.request = j.request
  <2>1. [m EXCEPT !.auth = j.auth, !.pending = TRUE] \in MessageType
    BY <1>2 DEF MessageType
  <2>2. /\ [m EXCEPT !.auth = j.auth, !.pending = TRUE].kind = m.kind
        /\ [m EXCEPT !.auth = j.auth, !.pending = TRUE].op = m.op
        /\ [m EXCEPT !.auth = j.auth, !.pending = TRUE].request = m.request
    BY DEF MessageType
  <2> QED
    BY <1>3, <2>1, <2>2
<1>5. PICK e \in MessageType : e = Ack(j) /\ e.kind = "reply" /\ e.op = j.op /\ e.request = j.request /\ e.ok
  BY <1>2, AckParts
<1>6. toPage' = toPage \o <<a, e>> /\ stored' = stored /\ failures' = failures
  BY <1>1, <1>3, <1>4, <1>5 DEF HandleConfigure
<1>7. PICK kind : kind = "configure"
  OBVIOUS
<1>8. Answered(j, kind) /\ NothingSaved
  BY <1>2, <1>4, <1>5, <1>6, <1>7, TwoAnswers
<1>9. staged' = [staged EXCEPT ![j.request] = j.auth] /\ PageStays
  BY <1>1, FrameStays DEF HandleConfigure
<1>10. Writes(j, kind)
  BY <1>2, <1>6, <1>9, StoredTypes DEF Writes
<1>11. Taken(j, kind)
  BY <1>2, <1>7
<1> QED
  BY <1>6, <1>8, <1>9, <1>10, <1>11, HostStepKeeps

LEMMA DiscardKeeps ==
  ASSUME TabsInv, HandleDiscard
  PROVE  TabsInv'
<1>1. PICK j : j = Job1
  OBVIOUS
<1>2. Taken(j, "discard") /\ j.op \in Nat /\ j.request \in Requests /\ TabsTypeOK
  BY <1>1, HandleParts DEF HandleDiscard, TabsInv
<1>3. PICK e \in MessageType : e = Ack(j) /\ e.kind = "reply" /\ e.op = j.op /\ e.request = j.request /\ e.ok
  BY <1>2, AckParts
<1>4. /\ toPage' = Append(toPage, e) /\ stored' = stored /\ failures' = failures
      /\ staged' = [staged EXCEPT ![j.request] = NoStage] /\ PageStays
  BY <1>1, <1>3, FrameStays DEF HandleDiscard
<1>5. PICK kind : kind = "discard"
  OBVIOUS
<1>6. Answered(j, kind)
  BY <1>2, <1>3, <1>4, <1>5, OneAnswer
<1>7. Writes(j, kind)
  BY <1>2, <1>4, StoredTypes DEF Writes
<1>8. Taken(j, kind)
  BY <1>2, <1>5
<1> QED
  BY <1>4, <1>6, <1>7, <1>8, HostStepKeeps

LEMMA FailsKeeps ==
  ASSUME TabsInv, HandlerFails
  PROVE  TabsInv'
<1>1. PICK j : j = Job1
  OBVIOUS
<1>2. PICK kind : kind = j.kind
  OBVIOUS
<1>3. Handle(kind) /\ reads' = reads
  BY <1>1, <1>2 DEF HandlerFails, Handle, Job1
<1>4. Taken(j, kind) /\ j.op \in Nat /\ j.request \in Requests /\ TabsTypeOK
  BY <1>1, <1>3, HandleParts DEF TabsInv
<1>5. PICK e \in MessageType : e = Error(j) /\ e.kind = "reply" /\ e.op = j.op /\ e.request = j.request /\ e.ok = FALSE
  BY <1>4, AckParts
<1>6. /\ toPage' = Append(toPage, e) /\ stored' = stored /\ staged' = staged /\ PageStays
      /\ failures' = failures \/ (failures + timeouts < MaxFailures /\ failures' = failures + 1)
  BY <1>1, <1>5, FrameStays DEF HandlerFails, Fails, hostState
<1>7. Answered(j, kind)
  BY <1>4, <1>5, <1>6, OneAnswer
<1>8. Writes(j, kind)
  BY <1>4, <1>6, StoredTypes DEF Writes
<1> QED
  BY <1>4, <1>6, <1>7, <1>8, HostStepKeeps

LEMMA ReadKeeps ==
  ASSUME TabsInv, HandleRead
  PROVE  TabsInv'
<1>1. PICK j : j = Head(reads)
  OBVIOUS
<1>2. PICK kind : kind = "read"
  OBVIOUS
<1>3. Taken(j, kind) /\ TabsTypeOK
  BY <1>1, <1>2 DEF HandleRead, Taken, TabsInv
<1>4. j.op \in Nat /\ j.request \in Requests
  BY <1>3, TakenParts
<1>5. stored' = stored /\ staged' = staged /\ failures' = failures /\ PageStays
  BY FrameStays DEF HandleRead, hostState
<1>6. Writes(j, kind)
  BY <1>3, <1>5, StoredTypes DEF Writes
<1>7. Answered(j, kind)
  <2>1. CASE IsStored(j.request)
    <3>1. PICK a \in MessageType :
            /\ a = Message("loaded", j) /\ a.kind = "loaded" /\ a.op = j.op /\ a.request = j.request
            /\ a.text = stored[j.request].text /\ a.auth = stored[j.request].auth
      BY <1>3, <1>4, MessageParts
    <3>2. PICK e \in MessageType : e = Ack(j) /\ e.kind = "reply" /\ e.op = j.op /\ e.request = j.request /\ e.ok
      BY <1>3, <1>4, AckParts
    <3>3. toPage' = toPage \o <<a, e>>
      BY <1>1, <2>1, <3>1, <3>2 DEF HandleRead
    <3> QED
      BY <1>2, <1>3, <3>1, <3>2, <3>3, TwoAnswers
  <2>2. CASE ~IsStored(j.request)
    <3>1. PICK e \in MessageType :
            e = Error(j) /\ e.kind = "reply" /\ e.op = j.op /\ e.request = j.request /\ e.ok = FALSE
      BY <1>3, <1>4, AckParts
    <3>2. toPage' = toPage \o <<e>> /\ toPage \in Seq(MessageType)
      BY <1>1, <1>3, <2>2, <3>1 DEF HandleRead, TabsTypeOK
    <3>3. toPage' = Append(toPage, e)
      BY <3>2
    <3> QED
      BY <1>2, <1>3, <3>1, <3>3, OneAnswer
  <2> QED
    BY <2>1, <2>2
<1> QED
  BY <1>3, <1>5, <1>6, <1>7, HostStepKeeps

LEMMA DeleteKeeps ==
  ASSUME TabsInv, HandleDelete
  PROVE  TabsInv'
<1>1. PICK j : j = Job1
  OBVIOUS
<1>2. Taken(j, "delete") /\ j.op \in Nat /\ j.request \in Requests /\ TabsTypeOK
  BY <1>1, HandleParts DEF HandleDelete, TabsInv
<1>3. PICK x \in [place : Places, text : Texts, auth : Auths] : x = NotStored /\ x.place = Nowhere
  <2>1. NotStored \in [place : Places, text : Texts, auth : Auths]
    BY ValuesAreNumbers DEF NotStored, Places
  <2>2. NotStored.place = Nowhere
    BY DEF NotStored
  <2> QED
    BY <2>1, <2>2
<1>4. stored' = [stored EXCEPT ![j.request] = x] /\ failures' = failures
  BY <1>1, <1>3 DEF HandleDelete
<1>5. /\ stored' \in [Requests -> [place : Places, text : Texts, auth : Auths]]
      /\ stored'[j.request] = x /\ \A q \in Requests : q # j.request => stored'[q] = stored[q]
  BY <1>2, <1>4, StoredTypes
<1>6. PICK a \in MessageType :
        /\ a = Trees(j, stored') /\ a.kind = "collections" /\ a.op = j.op /\ a.request = j.request
        /\ a.places \in [Requests -> Places] /\ \A q \in Requests : a.places[q] = stored'[q].place
  BY <1>2, <1>5, TreesParts
<1>7. PICK e \in MessageType : e = Ack(j) /\ e.kind = "reply" /\ e.op = j.op /\ e.request = j.request /\ e.ok
  BY <1>2, AckParts
<1>8. toPage' = toPage \o <<a, e>> /\ staged' = [staged EXCEPT ![j.request] = NoStage] /\ PageStays
  BY <1>1, <1>6, <1>7, FrameStays DEF HandleDelete
<1>9. PICK kind : kind = "delete"
  OBVIOUS
<1>10. \A q \in Requests : stored'[q].place # Nowhere => q # j.request /\ stored'[q] = stored[q]
  BY <1>3, <1>5
<1>11. Answered(j, kind) /\ NothingSaved /\ TreeComes
  <2>1. \A q \in Requests : ~(stored[q].place = Nowhere /\ stored'[q].place # Nowhere)
    BY <1>10
  <2>2. /\ kind # "save" /\ a.kind \in {"auth", "loaded", "collections"}
        /\ a.kind = "auth" => kind = "configure"
        /\ a.kind = "loaded" => kind = "read" /\ a.text = stored[j.request].text /\ a.auth = stored[j.request].auth
    BY <1>6, <1>9
  <2> QED
    <3>1. /\ a.op = j.op /\ a.request = j.request /\ a.kind = "collections"
          /\ a.places \in [Requests -> Places] /\ (\A q \in Requests : a.places[q] = stored'[q].place)
      BY <1>6
    <3>2. e.kind = "reply" /\ e.op = j.op /\ e.request = j.request /\ e.ok
      BY <1>7
    <3>3. TabsTypeOK /\ toPage' = toPage \o <<a, e>>
      BY <1>2, <1>8
    <3> QED
      BY <2>1, <2>2, <3>1, <3>2, <3>3, TwoAnswers
<1>12. staged' \in [Requests -> Auths \cup {NoStage}]
  BY <1>2, <1>8, StoredTypes
<1>13. Writes(j, kind)
  BY <1>5, <1>9, <1>10, <1>11, <1>12 DEF Writes, TreeComes
<1>14. Taken(j, kind)
  BY <1>2, <1>9
<1> QED
  BY <1>4, <1>8, <1>11, <1>13, <1>14, HostStepKeeps

LEMMA HandleMoveKeeps ==
  ASSUME TabsInv, HandleMove
  PROVE  TabsInv'
<1>1. PICK j : j = Job1
  OBVIOUS
<1>2. /\ Taken(j, "move") /\ j.op \in Nat /\ j.request \in Requests /\ TabsTypeOK
      /\ j.place \in Places /\ j.place # Nowhere /\ stored[j.request].place # Nowhere
  BY <1>1, HandleParts DEF HandleMove, TabsInv, IsStored
<1>3. PICK x \in [place : Places, text : Texts, auth : Auths] :
        /\ x = [stored[j.request] EXCEPT !.place = j.place]
        /\ x.place = j.place /\ x.text = stored[j.request].text /\ x.auth = stored[j.request].auth
  <2>1. PICK y \in [place : Places, text : Texts, auth : Auths] : y = stored[j.request]
    BY <1>2, StoredTypes
  <2>2. /\ [y EXCEPT !.place = j.place] \in [place : Places, text : Texts, auth : Auths]
        /\ [y EXCEPT !.place = j.place].place = j.place
        /\ [y EXCEPT !.place = j.place].text = y.text /\ [y EXCEPT !.place = j.place].auth = y.auth
    BY <1>2
  <2> QED
    BY <2>1, <2>2
<1>4. stored' = [stored EXCEPT ![j.request] = x] /\ failures' = failures
  BY <1>1, <1>3 DEF HandleMove
<1>5. /\ stored' \in [Requests -> [place : Places, text : Texts, auth : Auths]]
      /\ stored'[j.request] = x /\ \A q \in Requests : q # j.request => stored'[q] = stored[q]
  BY <1>2, <1>4, StoredTypes
<1>6. PICK a \in MessageType :
        /\ a = Trees(j, stored') /\ a.kind = "collections" /\ a.op = j.op /\ a.request = j.request
        /\ a.places \in [Requests -> Places] /\ \A q \in Requests : a.places[q] = stored'[q].place
  BY <1>2, <1>5, TreesParts
<1>7. PICK e \in MessageType : e = Ack(j) /\ e.kind = "reply" /\ e.op = j.op /\ e.request = j.request /\ e.ok
  BY <1>2, AckParts
<1>8. toPage' = toPage \o <<a, e>> /\ staged' = staged /\ PageStays
  BY <1>1, <1>6, <1>7, FrameStays DEF HandleMove
<1>9. PICK kind : kind = "move"
  OBVIOUS
<1>10. \A q \in Requests :
         /\ stored'[q].text = stored[q].text /\ stored'[q].auth = stored[q].auth
         /\ stored'[q].place # Nowhere <=> stored[q].place # Nowhere
  BY <1>2, <1>3, <1>5
<1>11. \A q \in Requests : ~(stored[q].place = Nowhere /\ stored'[q].place # Nowhere)
  BY <1>10
<1>12. Answered(j, kind) /\ NothingSaved /\ TreeComes
  <2>1. /\ kind # "save" /\ a.kind \in {"auth", "loaded", "collections"}
        /\ a.kind = "auth" => kind = "configure"
        /\ a.kind = "loaded" => kind = "read" /\ a.text = stored[j.request].text /\ a.auth = stored[j.request].auth
    BY <1>6, <1>9
  <2> QED
    <3>1. /\ a.op = j.op /\ a.request = j.request /\ a.kind = "collections"
          /\ a.places \in [Requests -> Places] /\ (\A q \in Requests : a.places[q] = stored'[q].place)
      BY <1>6
    <3>2. e.kind = "reply" /\ e.op = j.op /\ e.request = j.request /\ e.ok
      BY <1>7
    <3>3. TabsTypeOK /\ toPage' = toPage \o <<a, e>>
      BY <1>2, <1>8
    <3> QED
      BY <1>11, <2>1, <3>1, <3>2, <3>3, TwoAnswers
<1>13. staged' \in [Requests -> Auths \cup {NoStage}]
  BY <1>2, <1>8, StoredTypes
<1>14. Writes(j, kind)
  BY <1>5, <1>10, <1>12, <1>13 DEF Writes, TreeComes
<1>15. Taken(j, kind)
  BY <1>2, <1>9
<1> QED
  BY <1>4, <1>8, <1>12, <1>14, <1>15, HostStepKeeps

LEMMA HandleSaveKeeps ==
  ASSUME TabsInv, HandleSave
  PROVE  TabsInv'
<1>1. PICK j : j = Job1
  OBVIOUS
<1>2. /\ Taken(j, "save") /\ j.op \in Nat /\ j.request \in Requests /\ TabsTypeOK
      /\ j.place \in Places /\ j.place # Nowhere /\ j.text \in Texts /\ j.auth \in Auths
  BY <1>1, HandleParts DEF HandleSave, TabsInv
<1>3. PICK b \in SavedAuth(j) :
        /\ stored' = [stored EXCEPT ![j.request] = [place |-> j.place, text |-> j.text, auth |-> b]]
        /\ toPage' = toPage \o <<Trees(j, stored'), [Message("saved", j) EXCEPT !.text = j.text, !.auth = b], Ack(j)>>
  BY <1>1 DEF HandleSave
<1>4. b \in Auths
  <2>1. staged[j.request] \in Auths \cup {NoStage}
    BY <1>2, StoredTypes
  <2> QED
    BY <1>2, <1>3, <2>1 DEF SavedAuth
<1>5. PICK x \in [place : Places, text : Texts, auth : Auths] :
        /\ x = [place |-> j.place, text |-> j.text, auth |-> b]
        /\ x.place = j.place /\ x.text = j.text /\ x.auth = b
  <2>1. [place |-> j.place, text |-> j.text, auth |-> b] \in [place : Places, text : Texts, auth : Auths]
    BY <1>2, <1>4
  <2> QED
    BY <2>1
<1>6. /\ stored' \in [Requests -> [place : Places, text : Texts, auth : Auths]]
      /\ stored'[j.request] = x /\ \A q \in Requests : q # j.request => stored'[q] = stored[q]
  BY <1>2, <1>3, <1>5, StoredTypes
<1>7. PICK a \in MessageType :
        /\ a = Trees(j, stored') /\ a.kind = "collections" /\ a.op = j.op /\ a.request = j.request
        /\ a.places \in [Requests -> Places] /\ \A q \in Requests : a.places[q] = stored'[q].place
  BY <1>2, <1>6, TreesParts
<1>8. PICK m \in MessageType : m = Message("saved", j) /\ m.kind = "saved" /\ m.op = j.op /\ m.request = j.request
  <2>1. PICK kind : kind = "saved"
    OBVIOUS
  <2>2. /\ Message(kind, j) \in MessageType /\ Message(kind, j).kind = kind
        /\ Message(kind, j).op = j.op /\ Message(kind, j).request = j.request
    BY <1>2, <2>1, MessageParts
  <2> QED
    BY <2>1, <2>2
<1>9. PICK s \in MessageType :
        /\ s = [m EXCEPT !.text = j.text, !.auth = b]
        /\ s.kind = "saved" /\ s.op = j.op /\ s.request = j.request /\ s.text = j.text /\ s.auth = b
  <2>1. PICK y : y = [m EXCEPT !.text = j.text, !.auth = b]
    OBVIOUS
  <2>2. y \in MessageType
    BY <1>2, <1>4, <2>1 DEF MessageType
  <2>3. y.kind = m.kind /\ y.op = m.op /\ y.request = m.request /\ y.text = j.text /\ y.auth = b
    BY <2>1 DEF MessageType
  <2> QED
    BY <1>8, <2>1, <2>2, <2>3
<1>10. PICK e \in MessageType : e = Ack(j) /\ e.kind = "reply" /\ e.op = j.op /\ e.request = j.request /\ e.ok
  BY <1>2, AckParts
<1>11. PICK u : u = <<a, s, e>>
  OBVIOUS
<1>12. u \in Seq(MessageType) /\ Len(u) = 3 /\ u[1] = a /\ u[2] = s /\ u[3] = e
  BY <1>11
<1>13. toPage' = toPage \o u /\ toPage \in Seq(MessageType)
  BY <1>2, <1>3, <1>7, <1>8, <1>9, <1>10, <1>11 DEF TabsTypeOK
<1>14. /\ toPage' \in Seq(MessageType)
       /\ \A i \in DOMAIN toPage : i \in DOMAIN toPage' /\ toPage'[i] = toPage[i]
       /\ \E n \in Nat : Behind3(toPage, u, toPage', n)
  BY <1>12, <1>13, ThreeBehind
<1>15. PICK n \in Nat : Behind3(toPage, u, toPage', n)
  BY <1>14
<1>16. /\ \A i \in DOMAIN toPage : i \in Nat /\ i <= n
       /\ {n + 1, n + 2, n + 3} \subseteq DOMAIN toPage'
       /\ n + 1 \notin DOMAIN toPage /\ n + 2 \notin DOMAIN toPage /\ n + 3 \notin DOMAIN toPage
       /\ toPage'[n + 1] = a /\ toPage'[n + 2] = s /\ toPage'[n + 3] = e
       /\ \A i \in DOMAIN toPage' : i \in DOMAIN toPage \/ i \in {n + 1, n + 2, n + 3}
  BY <1>12, <1>15 DEF Behind3
<1>17. PICK kind : kind = "save"
  OBVIOUS
<1>18. \A i, k : NewAt(i, k) => \/ i = n + 1 /\ k = "collections"
                                \/ i = n + 2 /\ k = "saved"
                                \/ i = n + 3 /\ k = "reply"
  <2> SUFFICES ASSUME NEW i, NEW k, NewAt(i, k)
               PROVE  \/ i = n + 1 /\ k = "collections"
                      \/ i = n + 2 /\ k = "saved"
                      \/ i = n + 3 /\ k = "reply"
    OBVIOUS
  <2>1. i \in {n + 1, n + 2, n + 3} /\ toPage'[i].kind = k
    BY <1>16 DEF NewAt
  <2>2. /\ i = n + 1 => toPage'[i] = a
        /\ i = n + 2 => toPage'[i] = s
        /\ i = n + 3 => toPage'[i] = e
    BY <1>16
  <2> QED
    BY <1>7, <1>9, <1>10, <2>1, <2>2
<1>19. NewAt(n + 1, "collections") /\ NewAt(n + 2, "saved") /\ n + 2 - 1 = n + 1 /\ n + 1 + 1 = n + 2
  BY <1>7, <1>9, <1>16 DEF NewAt
<1>20. Answered(j, kind)
  <2>1. \A i \in DOMAIN toPage' : i \notin DOMAIN toPage =>
          toPage'[i].op = j.op /\ toPage'[i].request = j.request /\ \A k \in DOMAIN toPage : k < i
    <3> SUFFICES ASSUME NEW i \in DOMAIN toPage', i \notin DOMAIN toPage
                 PROVE  toPage'[i].op = j.op /\ toPage'[i].request = j.request /\ \A k \in DOMAIN toPage : k < i
      OBVIOUS
    <3>1. i \in {n + 1, n + 2, n + 3}
      BY <1>16
    <3>2. toPage'[i] \in {a, s, e}
      BY <1>16, <3>1
    <3>3. \A k \in DOMAIN toPage : k < i
      BY <1>16, <3>1
    <3> QED
      BY <1>7, <1>9, <1>10, <3>2, <3>3
  <2>2. \A i \in DOMAIN toPage' : NewAt(i, "reply") =>
          /\ \A k \in DOMAIN toPage' : k <= i
          /\ ~toPage'[i].ok => NothingSaved
          /\ toPage'[i].ok /\ kind = "save" => stored'[j.request].place # Nowhere
    <3>1. \A k \in DOMAIN toPage' : k <= n + 3
      BY <1>16
    <3>2. \A i \in DOMAIN toPage' : NewAt(i, "reply") => i = n + 3
      BY <1>18
    <3>3. toPage'[n + 3].ok /\ stored'[j.request].place # Nowhere
      BY <1>2, <1>5, <1>6, <1>10, <1>16
    <3> QED
      BY <3>1, <3>2, <3>3
  <2>3. \A i \in DOMAIN toPage' : ~NewAt(i, "auth") /\ ~NewAt(i, "loaded")
    BY <1>18
  <2>4. \A i \in DOMAIN toPage' : NewAt(i, "saved") =>
          /\ kind = "save" /\ toPage'[i].text = j.text
          /\ toPage'[i].text = stored'[j.request].text /\ toPage'[i].auth = stored'[j.request].auth
          /\ NewAt(i - 1, "collections") /\ toPage'[i - 1].places[j.request] = j.place
          /\ \A k \in DOMAIN toPage' : NewAt(k, "saved") => k = i
    <3>1. \A i \in DOMAIN toPage' : NewAt(i, "saved") => i = n + 2
      BY <1>18
    <3>2. /\ toPage'[n + 2].text = j.text
          /\ toPage'[n + 2].text = stored'[j.request].text /\ toPage'[n + 2].auth = stored'[j.request].auth
      BY <1>5, <1>6, <1>9, <1>16
    <3>3. toPage'[n + 1].places[j.request] = j.place
      BY <1>2, <1>5, <1>6, <1>7, <1>16
    <3> QED
      BY <1>17, <1>19, <3>1, <3>2, <3>3
  <2>5. \A i \in DOMAIN toPage' : NewAt(i, "collections") =>
          /\ toPage'[i].places \in [Requests -> Places] /\ \A q \in Requests : toPage'[i].places[q] = stored'[q].place
          /\ \A k \in DOMAIN toPage' : NewAt(k, "collections") => k = i
          /\ \A q \in Requests :
               stored[q].place = Nowhere /\ stored'[q].place # Nowhere => q = j.request /\ NewAt(i + 1, "saved")
    <3>1. \A i \in DOMAIN toPage' : NewAt(i, "collections") => i = n + 1
      BY <1>18
    <3>2. /\ toPage'[n + 1].places \in [Requests -> Places]
          /\ \A q \in Requests : toPage'[n + 1].places[q] = stored'[q].place
      BY <1>7, <1>16
    <3>3. \A q \in Requests : stored[q].place = Nowhere /\ stored'[q].place # Nowhere => q = j.request
      BY <1>6
    <3> QED
      BY <1>19, <3>1, <3>2, <3>3
  <2> QED
    BY <1>14, <2>1, <2>2, <2>3, <2>4, <2>5 DEF Answered
<1>21. /\ staged' \in [Requests -> Auths \cup {NoStage}] /\ failures' = failures /\ PageStays
  <2>1. staged' = [staged EXCEPT ![j.request] = NoStage] /\ failures' = failures /\ PageStays
    BY <1>1, FrameStays DEF HandleSave
  <2> QED
    BY <1>2, <2>1, StoredTypes
<1>22. Writes(j, kind)
  <2>1. ~NothingSaved /\ ~(\A i \in DOMAIN toPage' : ~NewAt(i, "collections"))
    BY <1>16, <1>19 DEF NothingSaved
  <2>2. \A q \in Requests : stored[q].place # Nowhere => stored'[q].place # Nowhere
    BY <1>2, <1>5, <1>6
  <2> QED
    BY <1>6, <1>21, <2>1, <2>2 DEF Writes
<1>23. Taken(j, kind)
  BY <1>2, <1>17
<1> QED
  BY <1>20, <1>21, <1>22, <1>23, HostStepKeeps

-----------------------------------------------------------------------------
(* Tabs: the invariant holds, and what follows *)

LEMMA TabsStart ==
  ASSUME TabsInit
  PROVE  TabsInv
<1>1. /\ tab = [t \in Tabs |-> ClosedTab] /\ saving = [t \in Tabs |-> NotSaving]
      /\ closing = [t \in Tabs |-> NotClosing] /\ dialog = NoDialog
      /\ stored = [r \in Requests |-> IF r \in DOMAIN Home THEN [NotStored EXCEPT !.place = Home[r]] ELSE NotStored]
      /\ tree = [r \in Requests |-> stored[r].place] /\ staged = [r \in Requests |-> NoStage]
      /\ submitted = {} /\ loads = {} /\ ops = 0 /\ jobs = <<>> /\ reads = <<>> /\ toPage = <<>>
      /\ typed = [t \in Tabs |-> 0] /\ closed = NothingClosed
      /\ edits = 0 /\ clicks = 0 /\ failures = 0 /\ timeouts = 0
  BY DEF TabsInit
<1>2. \A t \in Tabs :
        /\ tab[t] = ClosedTab /\ ~IsOpen(t) /\ ~Loaded(t) /\ tab[t].authUpdate = 0 /\ ~tab[t].loadFailed
        /\ saving[t].stage = "none" /\ saving[t].op = 0
        /\ closing[t].stage = "none" /\ closing[t].op = 0
  BY <1>1 DEF IsOpen, Loaded, ClosedTab, NotSaving, NotClosing
<1>3. DOMAIN jobs = {} /\ DOMAIN reads = {} /\ DOMAIN toPage = {} /\ Len(toPage) = 0
  BY <1>1
<1>4. TabsTypeOK
  <2>1. tab \in [Tabs -> TabType]
    <3>1. ClosedTab \in TabType
      BY ValuesAreNumbers DEF ClosedTab, TabType, Places
    <3> QED
      BY <1>1, <3>1
  <2>2. saving \in [Tabs -> [stage : {"none", "flushing", "auth", "ready", "posted"}, op : Nat]]
    BY <1>1, NotSavingParts
  <2>3. closing \in [Tabs -> [stage : Stages, why : Whys, op : Nat]]
    BY <1>1, ReopenedParts DEF Reopened
  <2>4. dialog \in [tab : Tabs \cup {"none"}, why : {"none", "close", "remove"}]
    BY <1>1 DEF NoDialog
  <2>5. stored \in [Requests -> [place : Places, text : Texts, auth : Auths]]
    <3>1. NotStored \in [place : Places, text : Texts, auth : Auths]
      BY ValuesAreNumbers DEF NotStored, Places
    <3>2. \A r \in DOMAIN Home : [NotStored EXCEPT !.place = Home[r]] \in [place : Places, text : Texts, auth : Auths]
      BY <3>1, HomeIsAPlacing DEF Places
    <3> QED
      BY <1>1, <3>1, <3>2
  <2>6. tree \in [Requests -> Places] /\ staged \in [Requests -> Auths \cup {NoStage}]
    BY <1>1, <2>5
  <2>7. /\ submitted \subseteq SnapshotType /\ loads \subseteq [op : Nat, tab : Tabs]
        /\ jobs \in Seq(JobType) /\ reads \in Seq(ReadType) /\ toPage \in Seq(MessageType)
    BY <1>1
  <2>8. ops \in Nat /\ typed \in [Tabs -> Texts]
    BY <1>1, ValuesAreNumbers
  <2>9. closed \in [why : Whys, text : BOOLEAN, auth : BOOLEAN]
    BY <1>1 DEF NothingClosed, Whys
  <2>10. /\ edits \in 0 .. MaxEdits /\ clicks \in 0 .. MaxClicks
         /\ failures \in Nat /\ timeouts \in Nat /\ failures + timeouts <= MaxFailures
    <3>1. MaxEdits \in Nat /\ MaxClicks \in Nat /\ MaxFailures \in Nat
      BY TabBounds
    <3> QED
      BY <1>1, <3>1
  <2> QED
    BY <2>1, <2>2, <2>3, <2>4, <2>5, <2>6, <2>7, <2>8, <2>9, <2>10 DEF TabsTypeOK
<1>5. DialogInv /\ OneTab
  <2>1. dialog.tab \notin Tabs
    BY <1>1, NamesAreApart DEF NoDialog
  <2> QED
    BY <1>2, <2>1 DEF DialogInv, OneTab
<1>6. PipeInv
  <2>1. NumbersInv
    BY <1>1, <1>2, <1>3 DEF NumbersInv
  <2>2. OrderInv /\ ReadsApart /\ SavesOwned /\ SavedOrder /\ ErrorsInv
    BY <1>1, <1>3 DEF OrderInv, ReadsApart, SavesOwned, SavedOrder, ErrorsInv
  <2> QED
    BY <2>1, <2>2 DEF PipeInv
<1>7. LoadsInv /\ SavedPlace
  BY <1>1, <1>3 DEF LoadsInv, SavedPlace
<1>8. PlacesInv
  <2>1. \A i \in 0 .. Len(toPage) : i = 0
    BY <1>3
  <2> QED
    BY <1>1, <1>3, <2>1 DEF PlacesInv, PlacesAt
<1>9. ASSUME NEW t \in Tabs PROVE TabInv(t)
  <2>1. BaseIsStored(t) /\ BasePlace(t) /\ AuthSettled(t)
    BY <1>2, <1>3 DEF BaseIsStored, BasePlace, AuthSettled
  <2>2. SaveSettles(t) /\ CloseSettles(t) /\ ClosesSaved(t)
    BY <1>2 DEF SaveSettles, CloseSettles, ClosesSaved
  <2> QED
    BY <2>1, <2>2 DEF TabInv
<1>10. AuthsApplied /\ DraftKeepsEdits /\ ClosedBySaveIsStored
  <2>1. closed.why # "save"
    BY <1>1 DEF NothingClosed
  <2> QED
    BY <1>2, <1>3, <2>1 DEF AuthsApplied, DraftKeepsEdits, ClosedBySaveIsStored
<1> QED
  BY <1>4, <1>5, <1>6, <1>7, <1>8, <1>9, <1>10 DEF TabsInv

LEMMA TabsUnchanged ==
  ASSUME TabsInv, UNCHANGED tabVars
  PROVE  TabsInv'
<1>1. /\ UNCHANGED <<tab, saving, closing, dialog, tree, submitted, loads, ops, jobs, reads, toPage>>
      /\ UNCHANGED <<stored, staged, typed, closed, edits, clicks, failures, timeouts>>
  BY DEF tabVars
<1>2. TabsTypeOK
  BY DEF TabsInv
<1>3. TabsTypeOK'
  BY <1>1, <1>2 DEF TabsTypeOK
<1>4. PageMoves(0, "move", NoRequest)
  BY <1>1, <1>2, StillMoves
<1>5. PICK d \in {0, 1} : d = 0
  OBVIOUS
<1>6. PICK kind : kind = "move"
  OBVIOUS
<1>7. PageMoves(d, kind, NoRequest) /\ kind # "save" /\ d # 1
  BY <1>4, <1>5, <1>6
<1>8. UNCHANGED <<tab, saving, closing, dialog, typed, tree, loads, closed, timeouts>> /\ submitted' = submitted
  BY <1>1
<1> QED
  BY <1>3, <1>6, <1>7, <1>8, NoTabStep

LEMMA TabsSteps ==
  ASSUME TabsInv, TabsNext
  PROVE  TabsInv'
<1>1. CASE UserStep
  <2>1. ASSUME NEW t \in Tabs, NEW r \in Requests, OpenSaved(t, r) PROVE TabsInv'
    BY <2>1, OpenSavedKeeps
  <2>2. ASSUME NEW t \in Tabs, NEW r \in Requests, NEW c \in Places, NewDraft(t, r, c) PROVE TabsInv'
    BY <2>2, NewDraftKeeps
  <2>3. ASSUME NEW t \in Tabs, RetryLoad(t) \/ PressSave(t) \/ AskClose(t) \/ Answer(t) PROVE TabsInv'
    BY <2>3, RetryLoadKeeps, PressSaveKeeps, AskCloseKeeps, AnswerKeeps
  <2>4. ASSUME NEW t \in Tabs, NEW v \in Texts, Type(t, v) PROVE TabsInv'
    BY <2>4, TypeKeeps
  <2>5. ASSUME NEW t \in Tabs, NEW c \in Places, Choose(t, c) PROVE TabsInv'
    BY <2>5, ChooseKeeps
  <2>6. ASSUME NEW t \in Tabs, NEW a \in Auths, ApplyAuth(t, a) PROVE TabsInv'
    BY <2>6, ApplyAuthKeeps
  <2>7. ASSUME NEW r \in Requests, AskRemove(r) PROVE TabsInv'
    BY <2>7, AskRemoveKeeps
  <2>8. ASSUME NEW r \in Requests, NEW c \in Collections, Move(r, c) PROVE TabsInv'
    BY <2>8, MoveKeeps
  <2> QED
    BY <1>1, <2>1, <2>2, <2>3, <2>4, <2>5, <2>6, <2>7, <2>8 DEF UserStep
<1>2. CASE HearStep
  BY <1>2, ShowTreeKeeps, AcceptSavedKeeps, ShowAuthKeeps, ShowLoadedKeeps, ConfirmedKeeps, RefusedKeeps DEF HearStep
<1>3. CASE HostStep \/ HandleRead
  BY <1>3, HandleSaveKeeps, ConfigureKeeps, DiscardKeeps, DeleteKeeps, HandleMoveKeeps, FailsKeeps, ReadKeeps DEF HostStep
<1>4. ASSUME NEW t \in Tabs, SaveStep(t) PROVE TabsInv'
  BY <1>4, SaveFlushedKeeps, StopsKeep, PostSaveKeeps DEF SaveStep
<1>5. ASSUME NEW t \in Tabs, CloseStep(t) PROVE TabsInv'
  BY <1>5, CloseFlushedKeeps, StopsKeep, ReleaseKeeps DEF CloseStep
<1>6. ASSUME NEW t \in Tabs, TimeOut(t) PROVE TabsInv'
  BY <1>6, TimeOutKeeps
<1> QED
  BY <1>1, <1>2, <1>3, <1>4, <1>5, <1>6 DEF TabsNext

\* when nothing is on its way, the tree is what is stored, and a tab takes for saved what is stored
LEMMA QuietIsSaved ==
  ASSUME TabsInv
  PROVE  CleanMeansSaved
<1> SUFFICES ASSUME Quiet, NEW t \in Tabs, IsOpen(t), ~tab[t].loading, ~tab[t].loadFailed, ~Dirty(tab[t]),
                    IsStored(tab[t].request)
             PROVE  stored[tab[t].request] = [place |-> tab[t].place, text |-> tab[t].text, auth |-> tab[t].auth]
  BY DEF CleanMeansSaved
<1>1. TabsTypeOK /\ PlacesInv /\ BaseIsStored(t) /\ BasePlace(t)
  BY DEF TabsInv, TabInv
<1>2. PICK r : r = tab[t].request
  OBVIOUS
<1>3. r \in Requests /\ Loaded(t)
  BY <1>1, <1>2, TabParts DEF Loaded, IsOpen
<1>4. DOMAIN toPage = {} /\ Len(toPage) = 0
  BY DEF Quiet
<1>5. tab[t].baseText = stored[r].text /\ tab[t].baseAuth = stored[r].auth
  BY <1>1, <1>2, <1>3, <1>4 DEF BaseIsStored
<1>6. tree[r] = stored[r].place
  BY <1>1, <1>3, <1>4 DEF PlacesInv, IsTree, PlacesAt
<1>7. tab[t].basePlace = stored[r].place
  BY <1>1, <1>2, <1>4, <1>6 DEF BasePlace, SavedAt, IsStored
<1>8. tab[t].place = stored[r].place /\ tab[t].text = stored[r].text /\ tab[t].auth = stored[r].auth
  BY <1>5, <1>7 DEF Dirty
<1>9. PICK x \in [place : Places, text : Texts, auth : Auths] : x = stored[r]
  BY <1>1, <1>3 DEF TabsTypeOK
<1>10. x = [place |-> x.place, text |-> x.text, auth |-> x.auth]
  BY <1>9
<1> QED
  BY <1>2, <1>8, <1>9, <1>10

\* no step of the page, of its tabs or of its variables, breaks the invariant of the tabs
LEMMA TabsInvHolds == PageSpec => []TabsInv
<1>1. PageInit => TabsInv
  BY TabsStart DEF PageInit
<1>2. TabsInv /\ [PageNext]_pageAllVars => TabsInv'
  <2> SUFFICES ASSUME TabsInv, [PageNext]_pageAllVars PROVE TabsInv'
    OBVIOUS
  <2>1. CASE EditsTabs
    BY <2>1, TabsSteps DEF EditsTabs
  <2>2. CASE UNCHANGED tabVars
    BY <2>2, TabsUnchanged
  <2> QED
    BY <2>1, <2>2 DEF PageNext, Autosaves, pageAllVars
<1> QED
  BY <1>1, <1>2, PTL DEF PageSpec

(***************************************************************************)
(* What is typed in a tab stays typed whatever the host answers, and a tab *)
(* that shows no unsaved changes shows what is stored, place and           *)
(* authentication included: App.tsx and useRequestStore.ts neither lose an *)
(* edit nor take it for saved, for any number of tabs, requests,           *)
(* operations on their way, failures and late answers.                     *)
(***************************************************************************)
THEOREM TabsKeep == PageSpec => [](TabsTypeOK /\ TabsKeepEdits)
<1>1. TabsInv => TabsTypeOK /\ TabsKeepEdits
  BY QuietIsSaved DEF TabsInv, TabsKeepEdits
<1> QED
  BY <1>1, TabsInvHolds, PTL

(***************************************************************************)
(* Save and close (closeRequestTab in App.tsx) closes a tab only when all  *)
(* that is typed in it is stored, whatever was saved, moved, deleted or    *)
(* refused while it waited.                                                *)
(***************************************************************************)
THEOREM SavedWhenClosed == PageSpec => []ClosedBySaveIsStored
<1>1. TabsInv => ClosedBySaveIsStored
  BY DEF TabsInv
<1> QED
  BY <1>1, TabsInvHolds, PTL
=============================================================================
