# JustAPI by Sergio: formal models

JustAPI is a local HTTP client inside VS Code. The extension host owns
storage, secrets, files and the network; a webview page owns the tabs and the
forms. This directory holds TLA+ models of the parts of that program whose
correctness depends on the order in which things happen, the TLC
configurations that check them on small instances, and TLAPS proofs of the
theorems that matter most. Source paths are relative to the repository, whose
root is `src/` here (so its code is `src/src/...` and `src/webview-ui/...`).

`PROJECT.json` maps every definition to the lines it models, and lists the
runs, the hazards of the code and which property covers each.

## The system

Everything in the extension host runs on one event loop: code runs to its next
`await`, and any other continuation may run there. Several VS Code windows run
several extension hosts on the same storage directory. Host and page exchange
messages over two FIFO channels; requests carry an operation id, executions an
execution id. The page survives being hidden, and is lost when VS Code
resolves the view again.

| Component | State | Operations | What makes it hard | What makes it correct |
|---|---|---|---|---|
| Storage lock (`storage/JsonFileStore.ts`) | the lock file: pid, token | acquire, inspect, reclaim, time out, release | processes that die anywhere, unlink by path | exclusion, bounded waiting, orphans go away |
| Versioned document store (`storage/JsonFileStore.ts`) | one JSON document per key, backup journal, known revisions, cache, read-only keys | read (with migration, normalisation, recovery), write, prune | two windows, failing file operations, damage, death in the middle | no lost update, recoverable, never silently reset |
| Persistence (`services/PersistenceService.ts`, `storage/PersistentDomains.ts`) | keys and schemas of the domains | read, write | through the store only | as above |
| History (`services/HistoryService.ts`) | the summaries | record, list, clear, delete | a read-modify-write around awaits, a byte limit | serial, no secret kept |
| Startup action queue (`commands/StartupActionQueue.ts`, `webview/JustAPIWebviewProvider.ts`) | pending actions, delivered marks, timers, ready flag, generation | enqueue, flush, settle, acknowledge, time out, reset, dispose | late settlements, replaced views, lost messages | performed once per page, success means performed, always settles |
| Commands (`commands/CommandController.ts`) | none | one startup action per command | through the queue | as above |
| Request execution (`services/RequestService.ts`, `protocol/OperationRegistry.ts`) | active executions, cancelled marks | execute, cancel, cancel all, finalize | cancellation in every await | dropped once cancelled, always finalized |
| Response downloads (`services/ResponseDownloadService.ts`) | retained bodies, saves under way | retain, release, reset, save | eviction and release while a dialog is open | what is offered exists, what is released goes |
| Protocol (`protocol/*.ts`, `webview/WebviewProtocol.ts`) | claimed operations, latest operation of a scope | route, acknowledge, correlate | duplicate and superseded operations | one outcome per operation, stale replies suppressed |
| HTTP client (`engine/http/HttpClient.ts`) | one abort controller per execution | build body, hop, redirect, decode | timeout, abort, socket and decoder race to settle | settles once, limits hold, credentials stay with their origin |
| Request preparation and variables (`services/RequestPreparationService.ts`, `engine/variables/*`) | none (reads the stores) | capture, resolve | reads of shared documents | precedence of variables, nothing recursive |
| Credentials (`engine/auth/AuthService.ts`, `services/CollectionService.ts`) | secret store, staged references, owners | configure, stage, commit, roll back, resolve, clean up | two stores that cannot commit together | no dangling reference, no orphaned secret |
| Collections (`engine/collection/*`) | tree of collections, folders, requests | create, move, duplicate, delete, import, save | long sequences, failing saves | a forest that owns every request once |
| Environments and imports (`engine/variables/VariableSetManager.ts`, `services/EnvironmentFileService.ts`, `services/PostmanImportService.ts`) | environments, active one, staged previews | create, update, select, preview, confirm | previews confirmed after the world changed | a confirmed preview applies to what it showed |
| Request files (`services/RequestFileService.ts`) | selected files by slot | select, validate, read, release | files that change after selection | only the selected, unchanged bytes are sent |
| Tabs and autosave (`webview-ui/src/App.tsx`, `hooks/useRequestStore.ts`, `utils/VariableAutosave.ts`) | tabs, dirty marks, overlays, save queues | edit, save, send, cancel, close | replies that arrive after the state changed | no edit lost, no stale reply applied |
| Code generation and redaction (`services/CodeGenerationService.ts`, `commands/CodeGenerator.ts`, `commands/FileUploadCodeGenerator.ts`, `engine/auth/CredentialRedaction.ts`) | none | preview, sample, export, import of an export | seven generators for one request; credentials in headers, addresses and names given by variables, which change while a question is open | samples send what the request would, no credential shown unconfirmed |
| cURL and Postman parsing (`engine/http/CurlParser.ts`, `engine/import/PostmanParser.ts`) | none | read a command, convert an export | options in every order, inheritance through folders | what was dropped is said, credentials are handed over |
| Message validation (`protocol/MessageValidator.ts`) | none | judge one message | none | the shapes of messages |
| Search (`webview/SearchIndex.ts`) | none | filter | none | none here |
| User interface panels | presentation | render | none here | none here |

## The modules

| Module | What it is |
|---|---|
| `StorageLock` | the lock file protocol between windows |
| `VersionedStore` | abstract specification: a register with a revision, shared by windows |
| `JsonFileStore` | one document of the store in detail; refines `VersionedStore` |
| `StartupActions` | commands, the startup queue, the lifecycle of views and the page |
| `RequestExecution` | executions in the host, the bodies it retains, and the tabs of the page |
| `CredentialStaging` | credentials in the secret store around the writes of the collections document, by several windows |
| `HttpClient` | one execution of the HTTP client: body, hops, response, decoding, cancellation and timeout |
| `RequestFiles` | the local files a request sends: dialogs, selections, releases, changes on disk |
| `Transport` | composes the two: the client reads the selected files while it builds a body; implements `HttpClient` |
| `EnvironmentFiles` | .env files: previews, confirmations, watches and the environments they go to |
| `PostmanImport` | the staged preview of a Postman export and its confirmation |
| `ResponseSaving` | the bodies kept for saving and the save through a dialog and a temporary file |
| `InsertionOrder` | Maps and arrays whose order matters, for the previews and bodies of these and the headers of `Derivatives` |
| `Library` | composes `EnvironmentFiles`, `PostmanImport` and `ResponseSaving` |
| `VariableAutosave` | variables edited in the page until the host has stored them, and Send waiting for them |
| `RequestTabs` | tabs: load, edit, authenticate, save, close, remove |
| `Page` | composes the last two |
| `CollectionTree` | the operations on collections, folders and requests |
| `CurlImport`, `ShellWords` | a cURL command option by option, and the splitting and quoting of its words |
| `RequestResolution` | substituting variables, and the checks before a request is sent |
| `Derivatives` | previews, samples in seven languages, exports and what importing one stores |
| `PostmanConversion` | what an export becomes |
| `Content` | composes the last six |
| `JsonFileStoreProofs` (and of `StorageLock`), `StartupActionsProofs`, `RequestExecutionProofs`, `CredentialStagingProofs`, `TransportProofs`, `LibraryProofs`, `PageProofs`, `ContentProofs` | theorems about these components |
| `MC...` | the same modules with the small sets and bounds of the runs |

`Library`, `Page` and `Content` put components side by side that share no
state but a new page; a behaviour is about one of them, which keeps the state
space the sum and not the product. `Transport` is a real composition: every
file the client reads is a file the service hands out.

Definitions whose comment calls them a fault are never part of a
specification. They are plausible errors in the modelled code, kept beside the
definition they would replace; every checked property is refuted by at least
one of them.

### StorageLock

A window has one locked operation at a time (`operationQueue`), so its program
counter is its state: `open` and `write` are acquireLock, `inspect` and
`reclaim` are reclaimStaleLock, `retry` is the end of a round, `critical` is
the operation, `release` and `unlinkOwn` are releaseLock. A lock record is its
owner and whether the JSON text has been written: the file is created empty
and filled in a second step. The age of a file and the deadline depend on
wall-clock time, so both outcomes are open wherever the code tests them. What
is unlinked is whatever is at the path by then. A process that dies stays
dead; a reopened window is another element of `Windows`.

### VersionedStore and JsonFileStore

`JsonFileStore` models one storage key. An operation holds the lock from its
begin to its end and is cut at every file operation: check, compare, backup,
unlink and prune, commit, verify, recover and restore. Each of them may fail
where `Faults` says so, before or after its effect where the code cannot tell,
and the window may die between any two of them (`DyingWindows`). A document is
its kind (absent, legacy, envelope, an envelope a transform will change,
unreadable, of a newer schema), a revision and an abstract content. Every
write stores a content of its own, and `includes` remembers which contents it
was derived from; that is what "lost update" is defined by. `last`, `before`
and `past` are history of what the file held.

`VersionedStore` is what callers may rely on: a window replaces the content
only while the register has the revision it holds (or it holds none), and a
damaged document comes back only as something it once was. The refinement maps
the register to the last readable document and "lost" to an unreadable or
missing file.

Left out: documents that fail domain validation, a damaged journal, and time
stamps and checksums beyond what they decide.

### StartupActions

A command is its `Enqueue` and the outcome of its promise. `pending` and
`delivered` are the sets of the code, `inserted` the order in which a Map
holds what is pending: the loop sends the oldest that is not delivered. `Send` is
flushPending up to its `await postMessage`; `Delivers` is the settlement of
that promise with what follows it, for an action that may have been completed,
timed out or reset meanwhile. `ResolveBegins`/`ResolveEnds` are the two halves
of resolveWebviewView around its await, and `WebviewReady`/`Greeted`/
`GreetingFails` the two halves of the handler's answer to webviewReady.

### RequestExecution

The host side of an execution is the await it is in (`stage`): preparing,
building the body, connected, recording history, settled. `active`,
`cancelled` and `aborted` are the registry entry, its mark and the signal of
the HTTP client. The page side is, by tab, the execution it runs, the response
it shows, whether its download is offered, and the handshake of closing.
`bodies` are the executions whose body the host keeps; a number above the
limit evicts the oldest, and the byte budget, whose sizes are left out, may
evict more of them. What is released together is one message. Error messages, the history entry itself, the native save of a body
and time-outs of acknowledgements are left out.

### CredentialStaging

A request is its credential: a secret reference, none, or still in an ordinary
header. Each window runs one job at a time (`CollectionService.operations`),
whose `step` is the await it is in: a secret is stored, the secret staged
before is deleted (`swap`), the document is written, secrets are deleted
(`clean`). What a job is about (`on`), the secrets it made and those it will
delete go with it. A write is one step, which commits only at the known
revision; that this is what a window may rely on is what `JsonFileStore` is
about. `abandoned` is history: the references that are lost because a window
died, a delete failed, a load gave another credential to a request that has
a stage, or a write replaced them and was reported as failed. `disowned` is
history too: the references saved by a write reported as failed, of which the
promises do not hold (`CredentialStaging_acknowledge`). Left out: the content of secrets, transport (it reads), exports, and
the tree of the collection.

Beginning a job is a step of its own although the code reaches its first await
in it: nothing another window does can come between that matters.

### HttpClient, RequestFiles and Transport

`stage` of `HttpClient` is what `execute` awaits. A hop is its origin, the
kind of its user information, its method, header names and whether it has a
body: all that `redirectTransition` and `buildHeaders` decide by. `sent` is
history. Bytes are counted in blocks; a content encoding may be undone,
unknown or the identity. `cancelled` and `timedOut` are the flags of the abort;
Node delivers no event of a response after the abort, but decompression goes
on (`decoding`) and its result may come when the execution is settled.

In `RequestFiles` a file is its version: fingerprint and digest change
together. Selections, like revisions in the code, are named by the call that
made them, and the comparisons of generations in the code follow from those of
`pending` and `selections`. `Transport` cuts `bytes` in two: the file is read
between `BytesBegins` and `BytesEnds`, and may change in between.

### EnvironmentFiles, PostmanImport, ResponseSaving

A preview is staged by a call that has waited for a dialog and a file; a
confirmation reads the file again and waits for the queue of
`VariableSetManager`. `seen` is what the author of a write had seen, by which
`NothingUnseenIsReplaced` judges it; it is never read by an action. A watch has
the turn of its latest read, and `notify` says which watcher has a change to
report. Of an export `PostmanImport` keeps the one entry of `staged` and the
number of the call that made it. `ResponseSaving` follows the Map of bodies in
its order, the running total, and one save from the picker by the last check
that the body is still kept (`CheckBeforeCommit`) to the rename of the temporary
file (`CommitSave`) and, a wait later, to the body's becoming the one used last
(`Refresh`). A body released between check and rename is saved all the same:
nothing undoes a rename that was issued. `Kept` and `Total` of `InsertionOrder` are the entries that stay
when others are deleted and the sum of their bytes.

### VariableAutosave and RequestTabs

A value is the number of the edit that made it. `pending` is the Map of the
code as a sequence, because a drain iterates it while it grows; `drain` is its
place in the iteration. The queues of the host and what is on its way to the
page are explicit, so that an acknowledgement may come after its timeout.
`RequestTabs` has the draft, the baseline and the authentication of a tab, the
save under way in it (flushing, saving) and what closes it (flushing, releasing,
saving, discarding, removing), with the snapshots by which an answer is
compared with what was submitted. `typed` and `closed` are history.

### CollectionTree and the content

`CollectionTree` has one action for each operation of `CollectionManager` that
changes the tree, on copies that are committed when `CollectionGraph` finds no
fault: `mangled` remembers a commit that was refused for anything but a limit.
What is below an item (`Below`) is stated as a least set, not by recursion, so
that it can be reasoned about.

The other five read one input from start to end, in the steps of the code's
own loop or recursion: `CurlImport` a token, `ShellWords` a character,
`PostmanConversion` an item, `RequestResolution` a part of a template in the
innermost call. Inputs are chosen in the initial state. What they are compared
with is stated apart from them: the meaning of a command read off its words at
once, the request a sample was generated from, the folders an item is in read
off the depths, the effective request. Characters, headers and values are
members of small sets, and their lower case, attached values and separators
tables.

## The runs

| Run | Distinct states | Shows |
|---|---|---|
| `StorageLock` | 1,377 | exclusion as long as nobody died leaving its lock file behind; a live window's lock is removed by itself only; every request is served or times out; a dead owner's complete lock file is reclaimed |
| `JsonFileStore_shared` | 26,665 | for a file that stays readable, with every operation failing and windows dying anywhere: a known revision names the content seen, no update is lost |
| `JsonFileStore_damage` | 1,809,067 | a legacy or versioned file that becomes unreadable twice: what was overwritten stays recoverable and nothing is silently reset (`DocumentSurvives`), recovery costs at most the last write, the register is implemented |
| `StartupActions` | 50,123 | performed at most once per page and success means performed, only the current target fails an action, every command settles unless its view is never greeted |
| `RequestExecution` | 1,187,432 | a tab shows only its latest execution, an offered download exists and belongs to it, no connection once cancelled, an execution shown as running still has something under way that will end it |
| `CredentialStaging` | 1,766,034 | a saved or staged reference leads to a secret unless a write that saved it was reported as failed, no secret is left behind but in the ways listed, memory agrees with the revision it knows, a write changes its own requests only |
| `Transport` | 600,785 | redirects keep credentials at home and bodies described, a kept response is whole, a file is sent as selected or not at all, every execution settles |
| `Library` | 849,216 | a preview is imported at most once, nothing outlives its page, a watch misses no change, nothing newer than what was reviewed is replaced, a saved file is the body asked for |
| `Page` | 648,908 | an edited variable is what the next request uses, no answer overwrites what was typed, Save and close stores what it closes, closing ends |
| `Page_silent_close` | violation | a tab judged clean while its save is in flight is closed after the save has made it dirty |
| `Content` | 797,516 | trees stay whole, an import without a warning is complete, samples come back, templates are substituted or refused with the reason, no credential is shown unconfirmed, samples send what the request would, conversions say what the export said |
| `Content_import` | violation | importing an export with its credential leaves it in a plain header when another header looks like a credential |

Every property has a mutant in `PROJECT.json`: a definition of the model, and
the fault that replaces it and is found by that property in that run.

### Bounds, and why they are enough

* `StorageLock`: three windows are the smallest number where one dies and two
  contend for what it left. Nothing is counted, so the state space is the whole
  one. The third window may neither die nor fail to unlink: with everybody
  dead nobody reclaims.
* `JsonFileStore`: two windows, because a conflict is between the window that
  writes and the one whose content it replaces. `MaxWrites` 3 overwrites often
  enough to prune with one or two kept backups. `MaxBackupFiles` bounds
  how long the journal grows: in the damage run to one more than is kept. `MaxMissing` bounds how many kept
  backups a failing prune may find missing: each prune that fails loses the
  oldest backup and the newest, so `DocumentSurvives` and
  `RecoveryLosesAtMostOne` need runtime backups to spare (the code keeps 5,
  the run 2 with none missing; the proofs have the general condition). The damage
  run keeps the clock advancing and lets windows die only between operations
  (one that dies between quarantine and restore leaves no file); prunes, commits, quarantines and
  restores fail there, but not the move that puts a quarantined file back, and
  failing backups and verifications are in the shared run.
* `StartupActions`: two actions, so that one is sent while another waits; three
  views, so that a view is replaced which itself replaced another.
* `RequestExecution`: two tabs compete for the one body kept (the code keeps
  20); two executions let a tab resend while its first is under way; two views
  give one replacement; `MaxWaiting` lets the user act while fewer than two
  messages wait for the host.
* `CredentialStaging`: two windows; two requests, one with a credential, the
  other with a header to migrate; three references, so two may be minted;
  two commits, which allow a rotation in one window under the other's stage or
  stale memory. Only the first commit may be reported as failed
  (`MaxMisreported`), so that another one follows it.

* `Transport`: two origins, so that a chain of three redirects may leave home
  and come back; bodies one block over the limit; two encodings, so that one
  may fail after another was undone. Six requests: each kind of credential and
  of body, HEAD, no redirects. Files: two rows, two files, two versions and two
  dialogs, so that a row is picked again while its file is read. Requests that
  send files follow no redirects in the run: the two halves meet only in the
  first hop.
* `Library`: two environments and one preview kept, so that a preview is evicted
  by another; any two disturbances (`MaxEvents`), the fewest that make a second
  author and a change of the file; three calls of an export's preview; four
  bodies of three sizes, two kept.
* `Page`: two edits of each of two keys, which are in different stores; one save
  that fails and one that is late; one tab with a stored request and a draft,
  two collections, two edits, three clicks, one failure. Tabs share no state
  but the queue of the host, and one tab is enough for every race of a save
  with an edit, a close and a removal.
* `Content`: four of five items in two collections and two folders, three levels
  deep, so that a move below oneself and a limit are met; all commands of four
  tokens out of fifteen, every family of options with its attached and following
  form (not among them: `-b` with the name of a file, `$'..'`; the type of the
  body a command gives is not compared, nor are samples with text or urlencoded
  bodies read back); texts of four characters and all pairs of words of two;
  variables a, b and c at five levels, in cycles; requests with each credential
  in each place, also under a name given by a variable that stands for one of
  three, and with each body in each of seven languages; two folders and an item,
  nested and side by side.

### Fairness

* `StorageLock`: a live window runs its pending continuation (weak fairness of
  its steps); the deadline is tested on every round, so a window that keeps
  retrying eventually takes the time-out (strong fairness). For reclamation
  also that users keep working in live windows and that an old file is
  eventually judged old. No fairness of death.
* `StartupActions`: VS Code's promises settle, a page that loads reports and is
  answered, timers fire. No view need be replaced, closed or disposed.
* `Transport`: the timer fires, the read of a file and a decompression end, and
  Node reports an abort to a hop that waits. The server owes nothing.
* `Page`: the host works off its queue, the page hears what was posted and goes
  on where it waits. Persons owe nothing.
* `RequestExecution` has none: `RunningIsUnderWay` says that a tab shown as
  running waits for a message in a channel or for an await of the host, and
  each of those ends by itself, transport included, since executions have a
  timeout.

### Disagreements with the documentation

* `Page_silent_close`: `README.md:24`, "Tabs marked ● have unsaved changes.
  Closing offers ...". closeRequestTab decides whether to ask before releaseTab
  awaits the save in flight (`App.tsx:229-234`, `183`).
* `Content_import`: `README.md:80`, "Explicit credential-bearing native exports
  import into the destination SecretStorage". findLegacyAuth gives up when two
  headers match (`AuthService.ts:563`).

Others were met while modelling, and no property is claimed of them:

* Two windows judge the same orphaned lock stale, and the slower one unlinks the
  lock the faster one has just created (`JsonFileStore.ts:893-904`); an owner
  that dies between creating and writing its lock file leaves a lock nobody can
  parse or reclaim. `ExclusionUnlessOrphaned` says what is left.
* Preparing a request reads the variables and moves the known revision, while
  the page keeps what it had (`RequestPreparationService.ts:147`); so does a
  write that first recovers a damaged file. `NoLostUpdate` is claimed for
  windows that show what they read.
* Death between quarantining a damaged file and restoring its backup leaves an
  empty, writable domain (`JsonFileStore.ts:797`).
* When the initial state cannot be sent, a waiting command never settles
  (`WebviewMessageHandler.ts:61`); an old page's webviewReady opens the queue
  for its successor.
* A response on its way while its tab closes leaves its body in the host until
  it is evicted or the view is created again (`App.tsx:194`).
* When the read that verifies a write fails after its rename, the write throws
  although the document was replaced (`JsonFileStore.ts:522-530`, `384-401`),
  and a migration deletes secrets the saved document refers to
  (`AuthService.ts:353`).
* Of several enabled headers or parameters with the name of the
  authentication, previews and exports hide the first (`AuthService.ts:480-487`);
  a second one, or one that is crossed out, keeps what was typed, unless it is a
  header known to hold credentials. An export looks at the names as they are
  stored (`CollectionService.ts:202-206`): a header whose name is a variable is
  written as it was typed. No document promises otherwise.
* A drain of autosave stops at the first key that fails, and closing the window
  posts only the first pending key (`VariableAutosave.ts:54-61`).
* An authentication that is applied after its 30 seconds while Save and close
  waits is discarded with the tab; removing collection items does not look at
  tabs that are closing.
* Selecting an environment gives it a new revision, after which a preview its
  watch made before can no longer be confirmed.
* A sample with form fields, or with a body that begins with a dash, does not
  paste back as it was, and says so; C# samples drop Content-Type without a
  body; only some samples carry the timeout.
* Redaction adds an Authorization placeholder only when no authentication is
  chosen (`CredentialRedaction.ts:24`), and names of query parameters are
  compared without case there and with case by the transport.

## The proofs

All theorems hold for every value of the constants that satisfies the
assumptions named in the modules.

`StorageLock`, at the end of `JsonFileStoreProofs`. The invariant checked by
TLC is not inductive: nothing in it says that a window about to unlink owns
what it unlinks. The strengthening is
`LockIInv == LockTypeOK /\ (orphans = {} => NotOrphaned)`: while nobody died
leaving its lock file behind, every window between `write` and `unlinkOwn` owns
the file, an existing file has a live owner, and nobody is about to reclaim.
`LockTypeCorrect`, `Exclusion` (`[]ExclusionUnlessOrphaned`) and `OwnerUnlinks`
follow for any number of windows, deaths and faults.

`JsonFileStoreProofs`.

* `TypeCorrect`: the type invariant, for all constants; with it `Serial`, only
  the lock's holder is inside an operation.
* `KnownIsSeen`: `[]KnownMeansSeen` under `AlwaysReadable` (no legacy document
  to begin with, `MaxDamage = 0`). The inductive invariant `RevisionInv` adds
  that the file is readable, and what each stage of an operation knows: the
  document it works from is the one on disk until its commit, and the one it
  committed afterwards.
* `NoUpdateLost`: `NoLostUpdate` under `AlwaysReadable` and `ResultsShown` (no
  window reads without showing, none writes without having read). `ShownInv`
  adds that what a window shows includes what it has cached and that what it
  writes includes what it shows.

* `RegisterImplemented`: `RegisterSpec`, the refinement of `VersionedStore`,
  step by step. `RegisterInv` says that the file is the last document it held,
  or is damaged, or is away while a window restores it (`FileInv`), and that
  what an operation is about to commit follows from that last document even if
  the file was damaged meanwhile (`CommitsNext`, `WorkInv`).
* `NothingIsLost` (`[]DocumentSurvives`) and `RecoveredIsRecent`
  (`RecoveryLosesAtMostOne`). `BackupInv` says that the newest backup is of the
  last document or the one before it, and while backups are pruned, that the
  one just made is there and so is a recent one among those not obsolete
  (`OthersRecent`). The heart is `AnotherIsKept`: when there are more runtime
  backups than are kept, those kept include an intact one beside the newest.
* They assume `RepairsEnd`, without which they are false: a window that dies
  between quarantining a file and replacing it, or whose move back fails,
  leaves no file, and the next window takes that for an empty store. The last
  two assume `BackupsToSpare`: with the five backups of the code at most three
  may be missing, and the clock must not step back, because a new backup that
  sorts behind the old ones is pruned first.

`CredentialStagingProofs`.

* `TypeCorrect`, and `MemoryAgrees` (`[]MemoryIsDisk`): the only strengthening
  needed is that nobody knows a revision from the future. `DocumentStep` sums
  up what a step does to the document, by the window that takes it.
* `OthersKeepTheirs`: `OnlyNamedRequestsChange`, because a write that commits
  starts from the document it replaces.
* `SavedExists` and `StagedExists`: `[]SavedUnlessDisowned` and
  `[]StagedUnlessDisowned`. That no secret in use is deleted needs `SecretInv`:
  a reference not yet saved is held once, by one request of one window
  (`HeldOnce`), and no window remembers it, has it as the credential a save
  will replace, or is about to delete it (`Apart`); all of it but for
  references in `disowned`. `StepOfOne` reduces a step to what it does to the
  references of the window that takes it, and there is a lemma for each kind
  of step.

* `NothingLeaks`: `[]NoLeak`. `LeakInv` adds that a reference comes from
  `minted`, so that a new one is nobody's, and that what a job is about to make,
  save or delete is what its step says; `LeakOfOne` reduces a step to the secrets
  the window that takes it carries before and after.

`StartupActionsProofs`, for any actions, views and failing posts. `IInv` has
the queue (an action is pending while its promise is; what was delivered was
sent to the current target), the pages (what has an action before it has not
performed it) and `UnsentIsNew`: what has still to be sent has not reached the
current page. That the loop sends something that waits (`NextIsWaiting`) rests
on the least element of a set of positions, which is derived from the
well-foundedness of finite sets.

* `PerformedAndReported`: `[]PerformedAsReported`.
* `OnlyCurrentTargetMayFail`: `OnlyCurrentTargetFails`.

`RequestExecutionProofs`, for any tabs, executions, views, limits and messages
under way. The invariants TLC checks say nothing of what is on its way, so
`IInv` does: an execution is taken before it is cancelled, and once
(`ToHostInv`); a response whose body is gone is followed by the message that
withdraws it (`ResponsesAreRetained`); an execution that may still answer is
the one its tab runs, or its cancellation comes before the tab's next one
(`OlderAreCancelled`).

* `OnlyLatestIsShown`: `[]ShowsLatestOnly`.
* `BodiesAreThoseOfTabs`: `[]BodiesMatchTabs`.
* `NoEndIsLost`: `[]RunningIsUnderWay`.
* `CancelledNeverConnects`: `NoConnectionOnceCancelled`.

`TransportProofs`, for any origins, requests, limits, redirects and encodings.

* `TransportIsTheClient`: `Transport` implements `HttpClient`; each of its
  steps is one of the client's or none, so what is proved of the client holds
  with files.
* `ClientTypeCorrect`, `RedirectsAlwaysSafe` and `ResponsesAlwaysComplete` from
  `ClientInv`. It adds to the properties `Progress` (the hop under way is the
  last one sent, only a response that has ended is decoded) and `BareIsKnown`
  (a response to HEAD is known to have no content). `RedirectStaysSafe` is the
  heart of the first: a hop that still carries credentials has the origin and
  the credentials of the one before, and by induction along `sent` they have
  never left home. A lemma for each action follows.
* `FilesAlwaysAsSelected`, for any files, rows and dialogs. `FilesInv` says
  that a selection is made by a call that is over, whose version never changes
  again (`DoneStays`), and that what a slot waits for is newer than the last
  release of its request. `BodyInv` relates what has been read to the rows, one
  by one, and counts what is left.

`LibraryProofs`, for any environments, files, exports, bodies and limits. The
three services have an inductive invariant each.

* `ExportInv`: a call of preview waits, is staged, is being confirmed or was
  imported, and is only one of these.
* `SavingInv` relates the running total to `Total`, a recursive function. What
  releasing and evicting do to it (`Released`, `EvictedIsCounted`,
  `RoomIsMade`) follows from `TotalOfParts` and `TotalOfBoth`, which are proved
  by induction along the sequence.
* `EnvInv`: `BasedInv`, what the author of a draft, a preview or a write saw of an
  environment is what it holds unless it has a later revision; `IdInv`, a
  preview that may still be imported was not imported, no watch comes from it,
  and one call is about it; `WatchInv`, a read for a watch is of that watch and
  its page and no newer than its newest, and what the newest has read is what
  the file holds unless a change is reported.
* From these, `TypeCorrect`, `ImportsHappenOnce` (`[]ImportedAtMostOnce`),
  `NothingKeptIsStale` (`[]KeptIsCurrent`), `NewerStays`
  (`NothingNewerIsReplaced`) and `OnlyKeptIsSaved` (`SavesWhatIsKept`).

`PageProofs`, for any collections, tabs, requests, bounds and late answers.
They assume `NamesAreApart`: the names for no collection, no request and no tab
are no ids, as in the code, where they are null. The two parts of the page have
an inductive invariant each.

* `VariablesCount`: `[]VariableEditsCount`, from `AutosaveInv`. The property
  says what the panel shows; the invariant says where the latest edit is until
  it is stored. What is pending is the latest edit of its key, and of a key
  with nothing pending no other value is waiting, stored or on its way to the
  page (`PendingIsLatest`, `SavedIsLatest`). A drain waits for the last message
  sent (`DrainInv`), so that behind its acknowledgement its value is the only
  one left (`RepliesInv`); what a press of Send needs is stored when its flush
  has ended, and stays so (`PressInv`).
* `TabsKeep` (`[]TabsKeepEdits`) and `SavedWhenClosed` (`[]ClosedBySaveIsStored`),
  from `TabsInv`, which relates three queues, the tabs and the store:
  - `PipeInv`: operations are numbered as they start and jobs wait in that
    order; a save that waits or was answered belongs to what a tab that still
    shows the request submitted (`SavesOwned`); an error is the only answer to
    its operation. `LoadsInv`: what answers a load is what is stored.
  - `BaseIsStored`: what a tab takes for saved is what is stored once it has
    heard of the last save on its way. `PlacesInv`, `SavedPlace` and
    `BasePlace` say the same of places, along the trees on their way: a tree
    that brings a request back is followed by the message of its save.
  - `SaveSettles`, `CloseSettles` and `AuthSettled`: when the answer a tab waits
    for is read, nothing older of its request is left in front of or behind it;
    the last holds only while no answer came too late, which is why the
    authentication is promised only then. `ClosesSaved` carries this from the
    end of a save to the close.

  A step of the page is described by what it does to the queues (`PageMoves`)
  and to the tab it is about (`TabStep`, `AnswerStep`, `RemoveStep`,
  `CloseTabStep`), a step of the host by what it takes, answers and writes
  (`Taken`, `Answered`, `Writes`); each keeps the invariant once
  (`PipeKeeps`, `HostStepKeeps`), and a lemma for every action shows that it is
  such a step. `QuietIsSaved` derives the second half of `TabsKeepEdits`.

`ContentProofs`, for any ids, exports and limits.

* `TreeIsWhole`: `[]TreeStaysWhole`, for any ids that are apart from each other
  (`IdsAreApart`; the code draws them at random). `TreeInv` is that of each item
  there is one place (`Unique`), that the requests in reach are those with a
  document (`Sound`), and that ids that were given up have left no items behind,
  which a new owner would inherit (`Clean`). What is in reach is the least set
  that is closed under children (`Below`), and the proofs are about such sets:
  where each item has one place, taking one away takes away what is below it and
  nothing else (`ReachTaken`), and putting it where the tree holds it, and not
  below itself, brings it all back (`ReachPut`). This is where a move into a
  folder of its own would fail. `PutSound` and `TakenSound` carry this to a
  sound tree, `CommitKeeps` says that such a tree is committed or refused for a
  limit, and a lemma for each operation shows that it makes one.
* `ConversionFaithful`: `[]ConversionIsFaithful`, for exports as the walk meets
  them (`ExportsAreWellFormed`: an item is at most one deeper than the folder
  before it). The property reads the folders an item is in off the depths; the
  walk keeps one entry for each depth. `HandsDown` relates them: at each depth
  the next item may have, what is handed down is what the folders around such an
  item say. `EnclosingNext` says how these folders change from one item to the
  next, `SaidNext` and `VariablesNext` what that does to the innermost that says
  something, and `CredentialIsSaid` what becomes of it in a request.
* `SamplesReflect`: `[]SampleReflectsRequest`, for requests with any headers,
  parameters, fields and files (`JobsAreWellFormed`). A product is a sequence of
  statements, put together from the pieces of its language; `IsPart` says of a
  piece which kinds of statements it has and that it has those of headers in
  order, `PartsTogether` that two pieces of kinds apart make a piece, and
  `SampleIsWhole` that each of the seven languages has every kind. `MapFacts`
  says that the Map of headers has each name once, and `HeadersFacts` with it
  that the type of a multipart body comes from one place: where the sample adds
  one, the headers have none. `DerivativeInv` relates the product to the request
  it was made from.
* `NothingUnconfirmed`: `[]NoUnconfirmedCredential`, for any requests and any
  variables that name their headers, parameters, fields and API key. All that is
  assumed of a request is that its stored credential is in the secret store and
  nowhere else (`KeepsCredentialsApart`, part of `JobsAreWellFormed`; the code
  keeps a reference, `Request.ts:71-73`). Hiding makes a request that can be shown
  (`Masks`): in the first pass (`RedactedMasks`), in the second, which meets the
  placeholders of the first (`RedactedAgainMasks`), and in what it amounts to
  (`EffectiveMasks`); and it reveals nothing that was hidden (`OnlyHides`,
  `Hides`), so that what is typed under the name of the authentication, which a
  conflict refuses, is in no sample. `CredentialInv` says that what is prepared
  without a confirmation is such a request.

  The property is as strong as the code. Names are the resolved ones in a
  preview and a sample, and the stored ones in an export. The first enabled pair
  with the name of the authentication, in any case, holds a placeholder
  (`HoldsPlaceholder`). It does not say that a preview or an export hides a
  second pair of that name, or one that is crossed out, or that an export hides a
  header named by a variable: the code shows them (see the disagreements above).

* `ResolvedOrRefused`: `[]SentOrRefusedWithReason`, for any variables in any
  scopes, any template and any nesting allowed (`CasesAreWellFormed`: the
  context is finite, and a body without a list of fields has no place in one).
  The property compares the outcome with what the whole template means; the
  engine is a stack of calls that stops where it is. `ResolutionInv` relates
  them: while nothing is reported, each call has given a part of what it owes,
  and owes the rest as what the call above it owes and what it has still to
  read (`OnCourse`). Copying, entering a value and leaving it keep this
  (`CallCopies`, `CallEnters`, `CallReturns`), and at the end what was given is
  the meaning. At the first report, what the innermost call reads is part of
  the meaning of the template (`StillToCome`), and so the template has none:
  directly for what is malformed, missing, ambiguous or too deep, and for a
  cycle because a name whose value leads back to it has no meaning at any depth
  (`CycleHasNoMeaning`). `SymbolIs` says that the symbol table holds the
  narrowest definition, and `NeededIsUsed` that what is substituted is what
  reaches the server.

Induction over data is not at the provers' hands as a theorem to cite: those of
the library take an operator as a parameter. Where it is needed it is derived
from well-founded finite sets (`Least`, `Induction`, `Recursion` in
`LibraryProofs` and `ContentProofs`), with a set in place of the operator, and
recursive functions are used in the form these lemmas give them;
`SequenceInduction` of `ContentProofs` is the same for sequences. That carries as
far as `Kept`, `Total`, the Map of headers, `Meanings`, and of the community
modules `FlattenSeq` (`FlattenFunction`); their folds and selections stay opaque.

Only model-checked: liveness (the prover does not treat fairness) and two
invariants of `Content`, `SilentMeansComplete` and `SamplesComeBack`, which
compare what a walk over a command computes, word by word and option by option,
with the meaning of all its input at once.

Each component but those of `Content` also states its types (`TypeOK` or a name
like it). The runs spend their properties on other things; the types were checked
on the same instances, and all are proved. In `Content` they are part of the
invariants of the proofs (`TreeInv`, `DerivativeInv`, `ResolutionInv`). The invariants the proofs
add were checked on small instances before they were proved.

## Not modelled, and the plan

* Message validation: predicates on the shape of one value, which a model could
  only restate; presentation, panels and search: filters and rendering without
  an order of events. Together these are most of what the map does not cover.
* Of the tracker of correlated replies (`CorrelationTracker.ts`) nothing: it
  hides notices and stale lists, and no state that is stored or sent depends on
  it.
* The history list: summaries that are capped and replaced as a whole. The
  draft cache of the page. Linked variable sets: more of the same store.
* The grammar of .env files, URLs, charsets, TLS, and byte limits on texts.
* Of the store: documents that fail domain validation, a damaged journal,
  disposal and the limit on sizes.

Abstract specifications worth stating next: a secret store with owners, which
`CredentialStaging` implements, and a register per key for `VariableAutosave`.
