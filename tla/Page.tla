-------------------------------- MODULE Page --------------------------------
(***************************************************************************)
(* What the page of the extension keeps until it is saved: variables, in   *)
(* VariableAutosave, and requests, in RequestTabs.  They meet only where a *)
(* save or a close of a tab waits for the variables to be flushed, which   *)
(* RequestTabs takes as a step that succeeds or fails; a behaviour is      *)
(* therefore one of either, and part says of which.                        *)
(***************************************************************************)
EXTENDS VariableAutosave, RequestTabs

VARIABLE part  \* the part of the page a behaviour is about

pageAllVars == <<autosaveVars, tabVars, part>>

PageTypeOK == AutosaveTypeOK /\ TabsTypeOK

PageInit == part \in {"variables", "tabs"} /\ AutosaveInit /\ TabsInit

Autosaves == part = "variables" /\ AutosaveNext /\ UNCHANGED <<tabVars, part>>
EditsTabs == part = "tabs" /\ TabsNext /\ UNCHANGED <<autosaveVars, part>>
PageNext == Autosaves \/ EditsTabs

PageSpec ==
  /\ PageInit /\ [][PageNext]_pageAllVars
  /\ WF_pageAllVars(part = "tabs" /\ HearStep /\ UNCHANGED <<autosaveVars, part>>)
  /\ WF_pageAllVars(part = "tabs" /\ (HostStep \/ HandleRead) /\ UNCHANGED <<autosaveVars, part>>)
  /\ \A t \in Tabs :
       WF_pageAllVars(part = "tabs" /\ (SaveStep(t) \/ CloseStep(t)) /\ UNCHANGED <<autosaveVars, part>>)
-----------------------------------------------------------------------------
\* An edit of a variable is what the panel shows until the next one, and what a request sent after it uses
\* (VariableAutosave.ts:17-61, App.tsx:274-313).
VariableEditsCount == EditsStayVisible /\ SendSeesEdits

\* What is typed in a tab stays typed whatever the host answers, and is not taken for saved before it is
\* (App.tsx:344-443, useRequestStore.ts).
TabsKeepEdits == DraftKeepsEdits /\ CleanMeansSaved
=============================================================================
