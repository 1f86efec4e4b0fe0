----------------------------- MODULE Transport ------------------------------
(***************************************************************************)
(* HttpClient sending a request whose body is made of files: its readFile  *)
(* is RequestFileService.bytes, and what happens to files and selections   *)
(* while the body is being built decides what is sent.                     *)
(*                                                                         *)
(* Files and selections matter to an execution until it has read its last  *)
(* file: their steps are not followed any further.                         *)
(***************************************************************************)
EXTENDS HttpClient, RequestFiles

CONSTANTS Owner  \* the request that is sent

ASSUME OwnerIsRequest == Owner \in Owners

VARIABLES
  rows,     \* the selections named by the request, in order
  reading,  \* version of the file bytes is reading, Absent between files
  payload   \* selection and version of the files read

transportVars == <<vars, fileVars, rows, reading, payload>>

Row(f) == <<Owner, f>>

(***************************************************************************)
(* The user sends the request: preparation requires a selection in each    *)
(* row and validates it.                                                   *)
(***************************************************************************)
Valid(id) ==
  Matches(Owner, id) /\ disk[pick[id].path] = SelectedVersion(id)

Send ==
  /\ \E order \in [1 .. request.files -> Fields] :
       /\ \A i, j \in DOMAIN order : i # j => order[i] # order[j]
       /\ \A i \in DOMAIN order : Valid(chosen[Row(order[i])])
       /\ rows' = [i \in DOMAIN order |-> chosen[Row(order[i])]]
  /\ Start
  /\ UNCHANGED <<fileVars, reading, payload>>

NextRow == rows[Len(payload) + 1]

(***************************************************************************)
(* bytes: without a matching selection it throws; otherwise it reads the   *)
(* file, which has to be the selected version before and after.            *)
(***************************************************************************)
BytesBegins ==
  /\ stage = "building" /\ ~Aborted /\ reading = Absent
  /\ Matches(Owner, NextRow) /\ disk[pick[NextRow].path] # Absent
  /\ reading' = disk[pick[NextRow].path]
  /\ UNCHANGED <<vars, fileVars, rows, payload>>

(***************************************************************************)
(* A fault in bytes, for UploadIsSelected: the file only has to stay what  *)
(* it was when the read began.                                             *)
(***************************************************************************)
AnyUnchanged(id, version) == id \in selections /\ disk[pick[id].path] = version

IsSelected(id, version) ==
  /\ id \in selections
  /\ disk[pick[id].path] = version /\ version = SelectedVersion(id)

BytesEnds ==
  /\ stage = "building" /\ reading # Absent
  /\ FileRead(IsSelected(NextRow, reading))
  /\ payload' = IF stage' # "settled" THEN Append(payload, <<NextRow, reading>>) ELSE payload
  /\ reading' = Absent
  /\ UNCHANGED <<fileVars, rows>>

BytesThrows ==
  /\ stage = "building" /\ reading = Absent
  /\ Aborted \/ ~Matches(Owner, NextRow) \/ disk[pick[NextRow].path] = Absent
  /\ FileRead(FALSE)
  /\ UNCHANGED <<fileVars, rows, reading, payload>>

-----------------------------------------------------------------------------
TransportInit ==
  Init /\ FilesInit /\ rows = <<>> /\ reading = Absent /\ payload = <<>>

ClientAlone ==
  /\ \/ \E kind \in Outcomes : SocketFails(kind)
     \/ Server \/ Decoder \/ AbortStopsHop \/ Cancel \/ TimeOut
  /\ UNCHANGED <<fileVars, rows, reading, payload>>

FilesAlone ==
  /\ stage \in {"idle", "building"} /\ request.files > 0
  /\ FilesNext
  /\ UNCHANGED <<vars, rows, reading, payload>>

Refused ==
  /\ \E kind \in Outcomes : StartFails(kind)
  /\ UNCHANGED <<fileVars, rows, reading, payload>>

TransportNext ==
  \/ Send \/ Refused \/ BytesBegins \/ BytesEnds \/ BytesThrows
  \/ ClientAlone \/ FilesAlone

(***************************************************************************)
(* The fairness of the client: the reading of a file comes to an end.      *)
(***************************************************************************)
TransportSpec ==
  /\ TransportInit /\ [][TransportNext]_transportVars
  /\ WF_transportVars(BytesBegins) /\ WF_transportVars(BytesEnds \/ BytesThrows)
  /\ WF_transportVars(TimeOut /\ ClientAlone)
  /\ WF_transportVars(Decoder /\ ClientAlone)
  /\ WF_transportVars(stage # "decoding" /\ AbortStopsHop /\ ClientAlone)

-----------------------------------------------------------------------------
(* Properties *)

(***************************************************************************)
(* Types of the client, of the files and of the body being built: an       *)
(* execution is never both cancelled and timed out, and the files read are *)
(* those of the first rows.                                                *)
(***************************************************************************)
TransportTypeOK ==
  /\ TypeOK /\ FilesTypeOK
  /\ rows \in Seq(1 .. picks) /\ reading \in 0 .. versions
  /\ payload \in Seq((1 .. picks) \X (1 .. versions))
  /\ Len(payload) <= Len(rows)
  /\ stage = "building" => Len(rows) = Len(payload) + unread

(***************************************************************************)
(* "Choosing another file is required after changing its contents": every  *)
(* file of a request that is sent is the version the user selected for it, *)
(* although it may change, be picked again or be released at any time.     *)
(***************************************************************************)
UploadIsSelected ==
  sent # <<>> =>
    /\ Len(payload) = request.files
    /\ \A i \in DOMAIN payload :
         payload[i] = <<rows[i], SelectedVersion(rows[i])>>

(***************************************************************************)
(* A selection stands for one version of one file until its row or its     *)
(* request is released, and is sent as that version or not at all.         *)
(***************************************************************************)
FilesAreAsSelected == UploadIsSelected /\ ReleasedStaysReleased
=============================================================================
