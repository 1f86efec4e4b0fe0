---------------------------- MODULE RequestFiles ----------------------------
(***************************************************************************)
(* The local files a request sends: src/services/RequestFileService.ts.    *)
(* The user picks a file for a row of a request in a native dialog; the    *)
(* service takes a snapshot of it and gives the page an opaque selection.  *)
(* When the request is sent the file is read again and has to be the one   *)
(* that was selected.                                                      *)
(*                                                                         *)
(* A file is its version: stat fingerprint and digest change together      *)
(* here, and a version never comes back.  Selections and revisions are     *)
(* both named by the number of the call of select that makes them.  reset  *)
(* empties selections and pending, so that the comparisons of generation   *)
(* in the code follow from those of pending and selections made here.      *)
(***************************************************************************)
EXTENDS Integers, FiniteSets

CONSTANTS
  Owners,         \* ids of the requests being edited
  Fields,         \* rows of a body that name a file
  Paths,          \* files of the user
  MaxSelections,  \* FILE_UPLOAD_LIMITS.maximumSelections
  MaxPicks,       \* bound: dialogs opened
  MaxVersions     \* bound: versions of files

ASSUME PickBound == MaxPicks \in Nat
ASSUME VersionBound == MaxVersions \in Nat \ {0}
ASSUME SelectionLimit == MaxSelections \in Nat
ASSUME SomethingToPick == Fields # {} /\ Paths # {}

Slots == Owners \X Fields
Picks == 1 .. MaxPicks
Absent == 0  \* no readable file, and no selection

VARIABLES
  disk,        \* version of the file at each path
  versions,    \* versions made so far
  picks,       \* calls of select so far
  pick,        \* the calls of select
  pending,     \* the latest call of each slot that is still open
  selections,  \* ids of selections the service keeps
  chosen,      \* page: the selection in each row
  released     \* history: calls made when a request was last released

fileVars == <<disk, versions, picks, pick, pending, selections, chosen, released>>

PickType ==
  [stage : {"none", "dialog", "reading", "done"}, slot : Slots, path : Paths,
   version : 0 .. MaxVersions]

FilesTypeOK ==
  /\ versions \in 0 .. MaxVersions /\ disk \in [Paths -> 0 .. versions]
  /\ picks \in 0 .. MaxPicks
  /\ pick \in [Picks -> PickType]
  /\ pending \in [Slots -> 0 .. picks]
  /\ selections \subseteq 1 .. picks
  /\ chosen \in [Slots -> 0 .. picks]
  /\ released \in [Owners -> 0 .. picks]

FilesInit ==
  /\ versions = 1 /\ disk = [p \in Paths |-> 1]
  /\ picks = 0 /\ selections = {}
  /\ pick \in [Picks -> [stage : {"none"}, slot : {CHOOSE s \in Slots : TRUE},
                         path : {CHOOSE p \in Paths : TRUE}, version : {Absent}]]
  /\ pending = [s \in Slots |-> 0]
  /\ chosen = [s \in Slots |-> Absent]
  /\ released = [o \in Owners |-> 0]

(***************************************************************************)
(* The version a selection was made of, and match: a selection is only     *)
(* good for the request it was made for.                                   *)
(***************************************************************************)
SelectedVersion(id) == pick[id].version

Matches(owner, id) == id \in selections /\ pick[id].slot[1] = owner

-----------------------------------------------------------------------------
(* select *)

Select(s) ==
  /\ picks < MaxPicks
  /\ picks' = picks + 1
  /\ pick' = [pick EXCEPT ![picks'].stage = "dialog", ![picks'].slot = s]
  /\ pending' = [pending EXCEPT ![s] = picks']
  /\ UNCHANGED <<disk, versions, selections, chosen, released>>

IsLatest(n) == pending[pick[n].slot] = n

(***************************************************************************)
(* finally: the call is over, and is the slot's pending one no more.       *)
(***************************************************************************)
Close(n, p, version) ==
  /\ pick' = [pick EXCEPT ![n].stage = "done", ![n].path = p, ![n].version = version]
  /\ pending' = IF IsLatest(n) THEN [pending EXCEPT ![pick[n].slot] = 0] ELSE pending

(***************************************************************************)
(* The dialog is dismissed, its call superseded, the limit is reached, or  *)
(* there is no readable file.                                              *)
(***************************************************************************)
PickEnds(n) ==
  /\ pick[n].stage = "dialog"
  /\ Close(n, pick[n].path, Absent)
  /\ UNCHANGED <<disk, versions, picks, selections, chosen, released>>

PickChosen(n, p) ==
  /\ pick[n].stage = "dialog" /\ IsLatest(n)
  /\ Cardinality(selections) < MaxSelections
  /\ disk[p] # Absent
  /\ pick' = [pick EXCEPT ![n].stage = "reading", ![n].path = p, ![n].version = disk[p]]
  /\ UNCHANGED <<disk, versions, picks, pending, selections, chosen, released>>

(***************************************************************************)
(* The file was read while it did not change, and no later call, release   *)
(* or reset has taken this one's place.                                    *)
(***************************************************************************)
Takes(n) == disk[pick[n].path] = pick[n].version /\ IsLatest(n)

PickRead(n) ==
  /\ pick[n].stage = "reading"
  /\ IF Takes(n)
       THEN /\ selections' = selections \cup {n}
            /\ chosen' = [chosen EXCEPT ![pick[n].slot] = n]
       ELSE UNCHANGED <<selections, chosen>>
  /\ Close(n, pick[n].path, pick[n].version)
  /\ UNCHANGED <<disk, versions, picks, released>>

-----------------------------------------------------------------------------
(* Releasing *)

PendingAfter(o) == [s \in Slots |-> IF s[1] = o THEN 0 ELSE pending[s]]

(***************************************************************************)
(* releaseRequest, when the tab of the request closes.                     *)
(***************************************************************************)
ReleaseRequest(o) ==
  /\ selections' = {n \in selections : pick[n].slot[1] # o}
  /\ pending' = PendingAfter(o)
  /\ chosen' = [s \in Slots |-> IF s[1] = o THEN Absent ELSE chosen[s]]
  /\ released' = [released EXCEPT ![o] = picks]
  /\ UNCHANGED <<disk, versions, picks, pick>>

(***************************************************************************)
(* reset: the view is created again, with drafts that name no files.       *)
(***************************************************************************)
Reset ==
  /\ selections' = {}
  /\ pending' = [s \in Slots |-> 0]
  /\ chosen' = [s \in Slots |-> Absent]
  /\ released' = [o \in Owners |-> picks]
  /\ UNCHANGED <<disk, versions, picks, pick>>

-----------------------------------------------------------------------------
(* The files change under the user's hands *)

Change(p) ==
  /\ versions < MaxVersions
  /\ versions' = versions + 1
  /\ disk' = [disk EXCEPT ![p] = versions']
  /\ UNCHANGED <<picks, pick, pending, selections, chosen, released>>

Remove(p) ==
  /\ disk[p] # Absent
  /\ disk' = [disk EXCEPT ![p] = Absent]
  /\ UNCHANGED <<versions, picks, pick, pending, selections, chosen, released>>

FilesNext ==
  \/ \E s \in Slots : Select(s)
  \/ \E n \in Picks : PickEnds(n) \/ PickRead(n) \/ \E p \in Paths : PickChosen(n, p)
  \/ \E o \in Owners : ReleaseRequest(o)
  \/ Reset
  \/ \E p \in Paths : Change(p) \/ Remove(p)

-----------------------------------------------------------------------------
(* Properties *)

(***************************************************************************)
(* "Closing/reloading the view requires choosing files again": once a      *)
(* request is released, no selection made before is kept or comes back,    *)
(* not even one whose file was still being read.                           *)
(***************************************************************************)
ReleasedStaysReleased ==
  \A n \in selections : n > released[pick[n].slot[1]]
=============================================================================
