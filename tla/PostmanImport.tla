--------------------------- MODULE PostmanImport ---------------------------
(***************************************************************************)
(* Importing a Postman export: src/services/PostmanImportService.ts.  At   *)
(* most one export is staged; the file is read again when it is confirmed, *)
(* and importing it waits for the store.  Exports are named by the call of *)
(* preview that staged them, previewSequence.  What the parser makes of an *)
(* export is PostmanConversion's.                                          *)
(***************************************************************************)
EXTENDS Integers, FiniteSets

CONSTANTS
  Exports,          \* contents of the file
  MaxExportCalls,   \* bound: calls of preview, and of confirm
  MaxExportChanges, \* bound: changes of the file
  MaxExportResets   \* bound: new pages

ASSUME ExportBounds == MaxExportCalls \in Nat /\ MaxExportResets \in Nat

NoExport == "no readable export"
Nothing == [call |-> 0, content |-> NoExport, view |-> 0]

VARIABLES
  export,          \* contents of the file
  exportView,      \* this.generation
  exportCalls,     \* previewSequence
  exportChoices,   \* calls of preview that wait for the dialog or for the file
  exportStaged,    \* the one entry of this.staged, or Nothing
  exportConfirms,  \* calls of confirm under way
  exportCount,     \* calls of confirm so far
  exportChanges,   \* changes of the file so far
  exportImports    \* history: how often what each call staged was imported

exportVars == <<export, exportView, exportCalls, exportChoices, exportStaged, exportConfirms,
                exportCount, exportChanges, exportImports>>

ExportCalls == 1 .. MaxExportCalls
ExportTypeOK ==
  /\ export \in Exports \cup {NoExport} /\ exportView \in 1 .. MaxExportResets + 1
  /\ exportCalls \in 0 .. MaxExportCalls /\ exportCount \in 0 .. MaxExportCalls
  /\ exportChoices \subseteq [call : ExportCalls, view : 1 .. exportView,
                              content : Exports \cup {NoExport}, chosen : BOOLEAN]
  /\ exportStaged = Nothing \/ exportStaged \in [call : ExportCalls, content : Exports,
                                                view : 1 .. exportView]
  /\ exportConfirms \subseteq [entry : [call : ExportCalls, content : Exports, view : 1 .. exportView],
                               view : 1 .. exportView, importing : BOOLEAN, number : ExportCalls]
  /\ exportImports \in [ExportCalls -> Nat]

ExportInit ==
  /\ export \in Exports /\ exportView = 1 /\ exportCalls = 0 /\ exportChoices = {}
  /\ exportStaged = Nothing /\ exportConfirms = {} /\ exportCount = 0 /\ exportChanges = 0
  /\ exportImports = [c \in ExportCalls |-> 0]

ChooseExport ==
  /\ exportCalls < MaxExportCalls /\ exportCalls' = exportCalls + 1
  /\ exportChoices' = exportChoices \cup
       {[call |-> exportCalls + 1, view |-> exportView, content |-> NoExport, chosen |-> FALSE]}
  /\ UNCHANGED <<export, exportView, exportStaged, exportConfirms, exportCount, exportChanges, exportImports>>

\* preview: neither the page was replaced nor was it called again.
LatestCall(c) == c.view = exportView /\ c.call = exportCalls

\* The dialog ends with a file, and the read of it gets its contents.
ExportChosen(c) ==
  /\ c \in exportChoices /\ ~c.chosen
  /\ exportChoices' = (exportChoices \ {c}) \cup
       (IF LatestCall(c) THEN {[c EXCEPT !.chosen = TRUE, !.content = export]} ELSE {})
  /\ UNCHANGED <<export, exportView, exportCalls, exportStaged, exportConfirms, exportCount,
                 exportChanges, exportImports>>

\* The export was read and parsed: it takes the place of the one staged before.
StageExport(c) ==
  /\ c \in exportChoices /\ c.chosen /\ exportChoices' = exportChoices \ {c}
  /\ exportStaged' = IF LatestCall(c) /\ c.content # NoExport
                     THEN [call |-> c.call, content |-> c.content, view |-> c.view]
                     ELSE exportStaged
  /\ UNCHANGED <<export, exportView, exportCalls, exportConfirms, exportCount, exportChanges, exportImports>>

CancelExport ==
  /\ exportStaged # Nothing /\ exportStaged' = Nothing
  /\ UNCHANGED <<export, exportView, exportCalls, exportChoices, exportConfirms, exportCount,
                 exportChanges, exportImports>>

NotBeingImported(entry) == \A c \in exportConfirms : c.entry # entry

ConfirmExport ==
  /\ exportStaged # Nothing /\ NotBeingImported(exportStaged)
  /\ exportCount < MaxExportCalls /\ exportCount' = exportCount + 1
  /\ exportConfirms' = exportConfirms \cup
       {[entry |-> exportStaged, view |-> exportView, importing |-> FALSE, number |-> exportCount + 1]}
  /\ UNCHANGED <<export, exportView, exportCalls, exportChoices, exportStaged, exportChanges, exportImports>>

\* confirm read the file again: it goes on with the same contents, page and preview only.
ExportReread(c) ==
  /\ c \in exportConfirms /\ ~c.importing
  /\ exportConfirms' = (exportConfirms \ {c}) \cup
       (IF c.view = exportView /\ exportStaged = c.entry /\ export = c.entry.content
        THEN {[c EXCEPT !.importing = TRUE]} ELSE {})
  /\ UNCHANGED <<export, exportView, exportCalls, exportChoices, exportStaged, exportCount,
                 exportChanges, exportImports>>

\* importDocument or sets.create succeeded: the preview is dropped, if it is still there.
ExportImported(c) ==
  /\ c \in exportConfirms /\ c.importing /\ exportConfirms' = exportConfirms \ {c}
  /\ exportImports' = [exportImports EXCEPT ![c.entry.call] = @ + 1]
  /\ exportStaged' = IF exportStaged = c.entry THEN Nothing ELSE exportStaged
  /\ UNCHANGED <<export, exportView, exportCalls, exportChoices, exportCount, exportChanges>>

\* It failed: nothing was stored, and the preview may be confirmed again.
ExportImportFails(c) ==
  /\ c \in exportConfirms /\ c.importing /\ exportConfirms' = exportConfirms \ {c}
  /\ UNCHANGED <<export, exportView, exportCalls, exportChoices, exportStaged, exportCount,
                 exportChanges, exportImports>>

ExportChanges(v) ==
  /\ exportChanges < MaxExportChanges /\ exportChanges' = exportChanges + 1
  /\ v # export /\ export' = v
  /\ UNCHANGED <<exportView, exportCalls, exportChoices, exportStaged, exportConfirms, exportCount, exportImports>>

\* resetForNewView
ResetExports ==
  /\ exportView <= MaxExportResets /\ exportView' = exportView + 1 /\ exportStaged' = Nothing
  /\ UNCHANGED <<export, exportCalls, exportChoices, exportConfirms, exportCount, exportChanges, exportImports>>

ExportNext ==
  \/ ChooseExport \/ CancelExport \/ ConfirmExport \/ ResetExports
  \/ \E c \in exportChoices : ExportChosen(c) \/ StageExport(c)
  \/ \E c \in exportConfirms : ExportReread(c) \/ ExportImported(c) \/ ExportImportFails(c)
  \/ \E v \in Exports \cup {NoExport} : ExportChanges(v)
-----------------------------------------------------------------------------
\* What was staged is imported at most once, although the import waits for the file and the
\* store while the preview can be confirmed again.
ExportImportedOnce == \A c \in ExportCalls : exportImports[c] <= 1

\* What is staged is for the page that is there.
StagedIsForThisView == exportStaged # Nothing => exportStaged.view = exportView

\* A choice never takes the place of a later one: neither the dialog nor the read of an older
\* call of preview, ending late, replaces what a newer call staged (lines 23-31).
LaterChoiceStays ==
  [][exportStaged # Nothing /\ exportStaged' # Nothing => exportStaged'.call >= exportStaged.call]_exportVars
=============================================================================
