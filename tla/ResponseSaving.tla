--------------------------- MODULE ResponseSaving ---------------------------
(***************************************************************************)
(* The bodies of responses kept for saving, and the save itself:           *)
(* src/services/ResponseDownloadService.ts.  The picker, the write of the  *)
(* temporary file and beforeCommit are waited for; meanwhile responses are *)
(* retained and released.  A body is its number, in the order of arrival.  *)
(***************************************************************************)
EXTENDS Integers, Sequences, Functions, InsertionOrder

CONSTANTS
  Senders,         \* ids of requests
  Sizes,           \* sizes of bodies
  MaximumBytes,    \* of all bodies kept
  MaximumEntries,
  MaxBodies,       \* bound: responses
  MaxBodyResets    \* bound: resets

ASSUME BodyLimits == MaximumBytes \in Nat \ {0} /\ MaximumEntries \in Nat \ {0} /\ Sizes \subseteq Nat
ASSUME BodyBounds == MaxBodies \in Nat /\ MaxBodyResets \in Nat

VARIABLES
  bodies,      \* this.bodies, in the order of the Map
  size,        \* this.size
  bodyCount,   \* responses so far
  bodyView,    \* this.generation
  saving,      \* the call of save under way, if any
  temporary,   \* body in the temporary file: 0 no file, Partial an unfinished one
  destination  \* body in the file the user chose, 0 what was there before

savingVars == <<bodies, size, bodyCount, bodyView, saving, temporary, destination>>

Partial == -1
Idle == [stage |-> "idle", body |-> 0, view |-> 0, bytes |-> 0]
BodyType == [id : 1 .. MaxBodies, sender : Senders, bytes : Sizes]

SavingTypeOK ==
  /\ bodies \in Seq(BodyType)
  /\ size \in Nat /\ bodyCount \in 0 .. MaxBodies /\ bodyView \in 1 .. MaxBodyResets + 1
  /\ saving \in [stage : {"idle", "picking", "writing", "written", "renaming", "renamed"}, body : 0 .. MaxBodies,
                 view : 0 .. bodyView, bytes : Sizes \cup {0}]
  /\ temporary \in {Partial} \cup 0 .. MaxBodies /\ destination \in 0 .. MaxBodies

SavingInit ==
  /\ bodies = <<>> /\ size = 0 /\ bodyCount = 0 /\ bodyView = 1 /\ saving = Idle
  /\ temporary = 0 /\ destination = 0

BodyWith(i) == {b \in Range(bodies) : b.id = i}
BodiesOf(r) == {b \in Range(bodies) : b.sender = r}

\* releaseRequest
WithoutSender(r) ==
  [kept |-> Kept(bodies, Range(bodies) \ BodiesOf(r)),
   size |-> size - Total(Kept(bodies, BodiesOf(r)))]

\* release of the first k keys of the Map.
Evicted(s, k) ==
  [kept |-> SubSeq(s.kept, k + 1, Len(s.kept)), size |-> s.size - Total(SubSeq(s.kept, 1, k))]
HasRoom(s, bytes) == Len(s.kept) < MaximumEntries /\ s.size + bytes <= MaximumBytes

\* retain: no more of the oldest bodies than necessary make room.
MadeRoom(s, bytes) ==
  Evicted(s, CHOOSE k \in 0 .. Len(s.kept) :
               /\ HasRoom(Evicted(s, k), bytes)
               /\ \A j \in 0 .. k - 1 : ~HasRoom(Evicted(s, j), bytes))

\* A body that is too large, or of a response that failed, is not retained at all.
Retain(r, bytes) ==
  /\ bodyCount < MaxBodies /\ bodyCount' = bodyCount + 1
  /\ LET s == WithoutSender(r)
         room == MadeRoom(s, bytes)
         body == [id |-> bodyCount + 1, sender |-> r, bytes |-> bytes]
     IN IF bytes > MaximumBytes
        THEN bodies' = s.kept /\ size' = s.size
        ELSE bodies' = Append(room.kept, body) /\ size' = room.size + bytes
  /\ UNCHANGED <<bodyView, saving, temporary, destination>>

\* releaseResponseBody, and the release of what a closed tab or a new request of it leaves.
ReleaseSender(r) ==
  /\ BodiesOf(r) # {}
  /\ bodies' = WithoutSender(r).kept /\ size' = WithoutSender(r).size
  /\ UNCHANGED <<bodyCount, bodyView, saving, temporary, destination>>

ResetBodies ==
  /\ bodyView <= MaxBodyResets /\ bodyView' = bodyView + 1
  /\ bodies' = <<>> /\ size' = 0
  /\ UNCHANGED <<bodyCount, saving, temporary, destination>>

Save(i) ==
  /\ saving = Idle /\ BodyWith(i) # {}
  /\ saving' = [stage |-> "picking", body |-> i, view |-> bodyView, bytes |-> 0]
  /\ UNCHANGED <<bodies, size, bodyCount, bodyView, temporary, destination>>

\* Planted fault: only the generation is looked at.
SameGeneration(s) == s.view = bodyView
\* current()
Current(s) == s.view = bodyView /\ BodyWith(s.body) # {}

\* The picker is closed; the body has to be there still, and is then held by the call.
DestinationPicked ==
  /\ saving.stage = "picking"
  /\ IF Current(saving)
     THEN \E b \in BodyWith(saving.body) :
            saving' = [saving EXCEPT !.stage = "writing", !.bytes = b.bytes] /\ temporary' = Partial
     ELSE saving' = Idle /\ UNCHANGED temporary
  /\ UNCHANGED <<bodies, size, bodyCount, bodyView, destination>>

PickerCancelled ==
  /\ saving.stage = "picking" /\ saving' = Idle
  /\ UNCHANGED <<bodies, size, bodyCount, bodyView, temporary, destination>>

TemporaryWritten ==
  /\ saving.stage = "writing"
  /\ saving' = [saving EXCEPT !.stage = "written"] /\ temporary' = saving.body
  /\ UNCHANGED <<bodies, size, bodyCount, bodyView, destination>>

\* An error of the disk, before or at the rename: the finally block removes the temporary file.
SaveFails ==
  /\ saving.stage \in {"writing", "written", "renaming"} /\ saving' = Idle /\ temporary' = 0
  /\ UNCHANGED <<bodies, size, bodyCount, bodyView, destination>>

\* After beforeCommit: the rename is issued, or the temporary file is removed.
CheckBeforeCommit ==
  /\ saving.stage = "written"
  /\ IF Current(saving)
     THEN saving' = [saving EXCEPT !.stage = "renaming"] /\ UNCHANGED temporary
     ELSE saving' = Idle /\ temporary' = 0
  /\ UNCHANGED <<bodies, size, bodyCount, bodyView, destination>>

CommitSave ==
  /\ saving.stage = "renaming" /\ saving' = [saving EXCEPT !.stage = "renamed"]
  /\ destination' = temporary /\ temporary' = 0
  /\ UNCHANGED <<bodies, size, bodyCount, bodyView>>

\* The finally block has waited for its rm: a body that is still there becomes the one used last.
Refresh ==
  /\ saving.stage = "renamed" /\ saving' = Idle
  /\ bodies' = IF Current(saving)
               THEN Kept(bodies, Range(bodies) \ BodyWith(saving.body)) \o Kept(bodies, BodyWith(saving.body))
               ELSE bodies
  /\ UNCHANGED <<size, bodyCount, bodyView, temporary, destination>>

SavingNext ==
  \/ \E r \in Senders : ReleaseSender(r) \/ \E bytes \in Sizes : Retain(r, bytes)
  \/ \E i \in 1 .. MaxBodies : Save(i)
  \/ ResetBodies \/ DestinationPicked \/ PickerCancelled
  \/ TemporaryWritten \/ SaveFails \/ CheckBeforeCommit \/ CommitSave \/ Refresh
-----------------------------------------------------------------------------
\* The count of the bytes kept is that of the bodies kept, and within the limits, after any
\* series of retaining, releasing, evicting and saving (lines 42-62 and 87).
BytesAreCounted ==
  /\ size = Total(bodies) /\ size <= MaximumBytes /\ Len(bodies) <= MaximumEntries
  /\ \A b, c \in Range(bodies) : b.sender = c.sender => b = c

\* For what was released, replaced or reset while the picker was open or the file was written
\* no rename is issued; what a rename puts at the destination is the whole body that was asked for.
SavesWhatIsKept ==
  [][/\ destination' # destination => saving.stage = "renaming" /\ destination' = saving.body
     /\ (saving.stage # "renaming" /\ saving'.stage = "renaming") =>
          temporary = saving'.body /\ BodyWith(saving'.body) # {}]_savingVars
=============================================================================
