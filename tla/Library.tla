------------------------------ MODULE Library ------------------------------
(***************************************************************************)
(* What the user brings into the extension and takes out of it: .env files *)
(* and environments, Postman exports, and saved response bodies.  The      *)
(* three services share nothing but the reset for a new page; a behaviour  *)
(* is one of any of them, and focus says of which.                         *)
(***************************************************************************)
EXTENDS EnvironmentFiles, PostmanImport, ResponseSaving

VARIABLE focus  \* the service a behaviour is about

libraryVars == <<envVars, exportVars, savingVars, focus>>

LibraryTypeOK == EnvTypeOK /\ ExportTypeOK /\ SavingTypeOK

LibraryInit ==
  /\ focus \in {"environments", "exports", "bodies"}
  /\ EnvInit /\ ExportInit /\ SavingInit
  /\ focus # "environments" => file = export /\ \A e \in Environments :
                                sets[e].state = "unused" /\ sets[e].vars = export
  /\ focus # "exports" => export = file

UsesEnvironments == focus = "environments" /\ EnvNext /\ UNCHANGED <<exportVars, savingVars, focus>>
UsesExports == focus = "exports" /\ ExportNext /\ UNCHANGED <<envVars, savingVars, focus>>
UsesBodies == focus = "bodies" /\ SavingNext /\ UNCHANGED <<envVars, exportVars, focus>>
LibraryNext == UsesEnvironments \/ UsesExports \/ UsesBodies

LibrarySpec == LibraryInit /\ [][LibraryNext]_libraryVars
-----------------------------------------------------------------------------
\* What was reviewed once is imported at most once, although a preview can be confirmed again
\* while the import waits for the file or the store (EnvironmentFileService.ts:48-52,
\* PostmanImportService.ts:33-39).
ImportedAtMostOnce == ImportedOnce /\ ExportImportedOnce

\* What the services keep is of the page that is there: no preview, staged export or watch outlives its
\* page or its environment, a watch is up to date with its file, and the bodies kept are the bytes counted
\* (resetForNewView; applyPreview's first re-read; changed's check for newer calls; retain and release).
KeptIsCurrent ==
  /\ NothingOutlivesTheView /\ StagedIsForThisView
  /\ OnlyStoredAreWatched /\ WatchIsUpToDate
  /\ BytesAreCounted

\* Nothing newer is replaced: neither variables changed since an edit began or a preview was made, nor a
\* later choice of an export (update and applyPreview; the call numbers of preview).
NothingNewerIsReplaced == NothingUnseenIsReplaced /\ LaterChoiceStays
=============================================================================
