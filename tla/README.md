# BreakGen in TLA+

BreakGen designs small hardware products (keyboards, macro pads, MIDI and game
controllers): a FastAPI server keeps each project as a JSON document in a
relational database, compiles electronics and mechanics from it, has keycap
appearances generated by a remote service, validates the result and exports a
bundle; a React client edits the document. This directory holds a TLA+ model of
the parts where requests, revisions, files and outside services interact, and of
the compilers whose outputs have to agree with each other, TLC configurations
that check it, and TLAPS proofs.

## Inventory of the system

| Component (source) | State it keeps | Operations | What is hard | What makes it correct |
|---|---|---|---|---|
| Project state service (`server/services/project_state.py`, `db/models.py`) | `projects` row (columns and JSON document), `project_revisions` | load, create, commit a mutation, persist metadata, invalidate derived state | any number of workers interleave at every `await`; the only lock is `UNIQUE (project_id, revision)` | linear immutable history, row and history agree, no acknowledged edit lost |
| Project requests (`api/projects.py`, `pcb.py`, `export.py`, `geometry.py`) | none of their own | create, PATCH, compile-pcb, validate, export, compile mechanical, delete | documents loaded long before they are written back | evidence belongs to the content it stands beside; optimistic lock |
| Appearance generation (`api/generation.py`, `services/keycap_ingestion.py`, `ai/providers/`) | style request, assets and layout in the document | submit, poll, ingest, accept/reject, apply | a remote service, several polls of one task, two transactions per completing poll, crashes | meshes before assets before finished jobs; acceptance revisioned; every finished task gets a finished job |
| Job registry (`services/job_registry.py`) | `project_jobs` | create, update by external reference | late answers | a job follows its task |
| Usage registry (`services/usage_registry.py`) | usage events | record, total | quota is check-then-act | counter is the provider jobs recorded; the limit overrun by no more than the overlap |
| Artifact registry and storage (`services/artifact_registry.py`, `artifact_storage.py`) | `project_artifacts`, files or objects | register, upsert, replace, copy, delete tree | rows and files are not one transaction; ids and paths are fixed per revision and collide | a row's file is there and is what the row says; what is registered stays until the project goes |
| Records, quality gate (`api/records.py`, `services/quality_gate.py`) | none | read views, counted downloads, readiness | the gate reads the project, the newest report and the newest bundle one after the other; a download is counted before its file is opened | ready only on evidence of that revision |
| Layout (`models/project.py`) | keys and elements, two views of one layout | parse and synchronise, at every load and PATCH | each request parses what another wrote; limits on one view and on both | parsing settles at once and moves nothing |
| Validation, export bundler (`validation/engine.py`, `export/bundler.py`) | report and bundle ids in the document | check, bundle, preview | assets accepted when assigned, not when used; ten files made by different functions | what is let pass compiles and can be cut; the files of a bundle agree |
| Electronics (`eda/matrix_compiler.py`, `control_surface_electronics.py`) | `derived["electronics"]`, rows and columns in the layout | rows, columns, pins | tolerance boundaries, pin budget, shared ids | every key one place, no two keys one place, rows as on the board |
| Mechanical geometry (`geometry/plate_generator.py`, `handheld_shell_generator.py`) | `derived["mechanical"]` | outline, openings, holes, summary, shell | summary and drawing go through the elements separately | openings inside the outline and apart; the summary counts what is drawn |
| Firmware (`firmware/qmk_generator.py`) | none | keymap, info.json, VIA rows, control map | three orders of the same keys | one key, one code, one place in all files |
| Rate limiting (`services/rate_limit.py`, `api/launch.py`) | per-process windows | enforce | several workers, restart, boundary of the window | never more than the limit in a window of a worker |
| Accounts, launch leads (`api/auth.py`, `api/launch.py`) | users, leads | signup, login, record interest | check-then-insert | one row per email |
| Catalogue, platform, observability, start-up | constants | lookups | - | - |
| Browser project store (`client/src/stores/projectStore.ts`, `App.tsx`) | shown project, dirty fields, undo and redo | load, edit, save, undo | responses out of order, edits during a save, several tabs | a clean field shows what the server has; a conflict is real |
| Browser session (`client/src/stores/authStore.ts`) | token, user | login, load session, 401 | a late 401 | a live session is not ended by an old answer |

Components meet in four places: the row of `projects` (every request), the
registries keyed by project (`project_jobs`, `project_artifacts`, usage events),
the artifact store's paths, and the HTTP answers the client stores apply. There
are no server-side background tasks: a job advances only when somebody polls it.

## Modules

| Module | Models |
|---|---|
| `ProjectStore` | `services/project_state.py` over the two tables, one project: what each function commits |
| `RevisionHistory` | abstract specification: an append-only log of edits, open until it is deleted |
| `ProjectRevisions` | the requests over `ProjectStore`: one action per handler step between two awaits on the database |
| `KeycapGeneration` | submission, polling, ingestion, acceptance, application and PATCH over `ProjectStore`, with jobs, meshes, usage and the remote provider |
| `ClientStore` | the browser's project store in several tabs, its calls in flight, and the histories of the projects they edit |
| `ArtifactRegistry` | rows of `project_artifacts`, files, usage and the requests that write, read and delete them: validation, export, panel and shell compiles, downloads, the quality gate, deletion, on either storage backend |
| `DurableOutputs` | abstract specification: outputs appear while the project exists, stay, come with their reports, and go together |
| `Layouts` | `models/project.py`: the two views of a layout, their limits and their synchronisation |
| `Electronics` | matrix strategies, pin budget, footprint readiness (extends `Layouts`) |
| `DesignValidation` | the ten checks of `validation/engine.py` (extends `Electronics`) |
| `Firmware` | what the generated keymap, info.json, VIA rows and control map say (extends `Electronics`) |
| `Panels`, `HandheldShell` | the openings, holes and summary of a panel; the features of a shell (extend `Electronics`) |
| `ReviewBundle` | bill of materials, contents, readiness and preview of an export (extends `DesignValidation`, `Firmware`) |
| `DesignPipeline` | one project's document through PATCH, compile, validation, generation and export, over all the modules from `Layouts` on |
| `MCProjectRevisions`, `MCKeycapGeneration`, `MCClientStore`, `MCArtifactRegistry` | symmetry for TLC |
| `MCDesignPipeline` | the layouts that clients send, by product family |
| `ProjectRevisionsProofs`, `KeycapGenerationProofs`, `ArtifactRegistryProofs`, `ClientStoreProofs` | TLAPS proofs about the module each is named after |
| `LayoutsProofs` | TLAPS lemmas about parsing and about least and greatest members of lists (extends `Layouts`) |
| `ElectronicsProofs` | TLAPS lemmas about rows, columns and places of the matrix, rows of VIA and the keymap (extends `Firmware`, `LayoutsProofs`) |
| `PanelsProofs` | TLAPS lemmas about openings, outlines, counts and shells (extends `LayoutsProofs`) |
| `DesignPipelineProofs` | TLAPS proofs about `DesignPipeline`, on top of the three before |

### How state and actions correspond to the code

`row` is the committed row: the columns `revision` and `status`, and `data`, the
JSON column. They are separate because a session's UPDATE contains only the
columns whose value differs from what that session last read, whereas `data`
contains `updated_at` and is always written. `SyncProjectRow(loaded, project)` is
that UPDATE: `loaded` is the row as the session last read it. `snapshots` is
`project_revisions` as a function from revision to document; its domain is the
unique constraint. The database is at READ COMMITTED (PostgreSQL's default), each
commit is one step and each read before it another.

`req[r]` is the local state of one HTTP call: the handler, the `expected_revision`
it was sent (0 for none), the row its session last read and its copy of the
document. `LoadProjectState` is the load that opens every handler,
`RefreshAndCheck` the `db.refresh` and second comparison inside
`commit_project_mutation`, `CommitEdit` / `CommitConflict` its two outcomes, and
`RunValidation`, `ExportProjectBundle`, `CompileMechanical`, `DeleteProject` the
commits of the other handlers. `Fail` is every way to end without a commit. A
request is answered once; a set of N requests is every behaviour of N calls.

In `ProjectRevisions` the specification part of the document (layout, switch,
name, style) is the sequence of the edits in it. Two contents are equal exactly
when they came from the same edits, which is what the properties ask. A report,
bundle, electronics or mechanical result is the revision it was computed for.

In `KeycapGeneration` a document keeps the assets with their acceptance states and
the layout's assignment of assets. `CheckQuota`, `SubmitToProvider` (or
`ProviderRefuses`) and `RecordSubmission` are the three steps of a remote
submission; `SubmitToShellLibrary` the local provider that answers at once, whose
job row (completed, without an external reference) is in `libraryJobs` as the set of
placeholders it delivered: it is never polled and counts for no quota. A poll
is `FindJob`, `PollProvider`, then, for a task that succeeded, one of
`FindIngestedAsset`, `IngestAsset`, `IngestCollides`, `IngestionFails`, then
`ReadJobs` and `FinishPoll`. `ReadJobs` uses the session's own copy of the
document: a second SELECT in one session does not refresh an object already
loaded. `jobs` and `artifacts` are the registry rows, `submitted` and `completed`
usage. `provider` and `ProviderProgress` stand for the remote service, known only
through how the code calls it. `Abandon` is a crash, a cancelled call or an
unreachable provider at any point.

In `ArtifactRegistry` a request takes its steps between `idle` and `idle`:
`loaded` (it has read the project), `checked` (an export past quota and
validation), `recorded` (its files are written and its rows are in the session),
`built` (a download about to be answered). Files appear with `Record`, rows with
`CommitRows`, which also puts the document as loaded back into the row of
`projects`, as `persist_project_metadata` does. An id is a record of what the code
puts into it: a validation run's report has a number of its own (a uuid), an
export's report and bundle have the revision only, a panel has its configuration
and a shell has not (artifact_registry.py:399). What a file holds is the
configuration it was compiled with; `rows[id].cfg` is what its row says of it,
UPDATEd only in columns this session changed (`WrittenConfig`). `clock` orders
`created_at`; an export's report carries the project's own creation time, which
is 0. `CommitEdit` is every committed revision as one step, its interleavings
being the subject of `ProjectRevisions`. `purged`, `raced`, `misled`, `dropped`
and `ready` record what has happened, for the properties; no guard reads them.

In `DesignPipeline` requests are atomic and documents have contents. Lengths are
whole 400ths of a millimetre, in which every constant of the code is exact, and
`KeyView`, `SyncedElements` and `LayoutSpec` are the parse that every load repeats.
`saved` is the document's layout as written, `Loaded` as the next request parses
it. A matrix place and a cell of VIA are ranks: the code sorts and numbers, the model
counts what sorts before. Openings and holes are the boxes around them as they are
turned, features of a shell boxes. A bundle is what its files
say of each other, not their text.

In `ClientStore`, `tab[t]` is one browser tab: `route` is the project its URL
names, the other fields are those of the store (`id` and `revision` of the shown
project, `dirty` is `dirtyFields`, `undo` and `redo` the stacks). `failed` records
that some call of the tab has failed. A layout is a set of marks, a mark being an
element as one edit left it, so that two layouts are equal when they hold the
same edits. Of the four dirty fields two are kept: the layout, which undo
touches, and the switch, which stands for name and style as well. Each editing
action is one `set` of the store. `calls[t][s]` is a promise in flight:
`ReloadLatest`, `StartAction` (a panel compiles, validates or generates, then
loads), `Save` and `Navigate` start one, `ServeLoad` and `ServeSave` are the
server's answer, and `LoadAnswered`, `SaveAnswered`, `SaveRefused`,
`ActionAnswered`, `CallFails` the continuations, in any order. `Take` adds the
effect of App.tsx:308, which loads the URL's project when an answer has changed
the project shown. The server here is the one `EditsKeepLock` describes; that
metadata writes can break it is the subject of `ProjectRevisions` and is not
repeated. `OtherClientSaves` is another user's client or a script.

## Runs

| Run | Instance | Result and what it shows |
|---|---|---|
| `project_revisions` | 3 requests, every handler | passes: the history stays linear, immutable and complete; a document never carries one revision's number and another's content; evidence is current; the store implements `RevisionHistory`; edits alone keep the row latest and the lock exact |
| `project_row_stale` | 2 requests, PATCH and validate | violated: see below |
| `project_lock_bypassed` | 5 requests, PATCH of the name and mechanical compile | violated: see below |
| `generation_jobs` | 3 requests, 3 tasks, 2 placeholders, up to 3 variants, limit 2 | passes: meshes are committed before assets and finished jobs; the counter is the provider's jobs, and the limit is overrun by no more than the overlap; jobs follow their tasks |
| `generation_assets` | 4 requests, 1 asset delivered, 1 key | passes: acceptance and application change only with the revision; an applied asset is never left rejected |
| `generation_polling` | 1 client that polls again and again, 2 requests that submit or poll, 1 task, 1 placeholder, fair polls | passes: a task the provider finishes gets a job that is finished for good, unless a stale write has erased its asset |
| `generation_asset_lost` | 3 requests, 2 tasks | violated: see below |
| `client_store` | 1 tab, 2 projects, 2 calls in flight, 1 mark, 2 revisions | passes: clean fields are what is recorded for the revision shown; a save replaces only what its tab has shown; the tab ends at its URL's project |
| `client_undo` | 1 tab, 1 project, 2 calls, 2 marks, limit 2, 1 revision | passes: the stacks stay in the limit and undo and redo lose no layout |
| `client_projects_mix` | as `client_store` | violated: see below |
| `artifacts` | 2 overlapping requests, 3 in all, of nine kinds; 2 configurations, 2 revisions, 1 free export, either backend | passes: rows name files that are there and describe them, downloads are what was asked for, exports overrun their limit by no more than the overlap, bundles and readiness rest on validated revisions, the registry implements `DurableOutputs` |
| `design` | 7 product families, 65 layouts, 1 asset, 2 panel configurations | passes: documents settle when parsed, what is recorded as compiled is what compiling gives, places are distinct and follow the board, what validation passes compiles and can be cut, a bundle's files agree and carry accepted assets |

Every instance is finite without a state constraint, since a request runs once
and tasks are named in advance; `Requests`, `Tasks`, `Placeholders`, `Keys`,
`MaxVariants` and `JobLimit` are the only bounds of the server modules; `ClientStore` has `Slots`,
`Marks`, `MaxUndo` and `MaxSaves`. Two requests suffice to lose an edit of the row,
three to put a stale write between an edit and its successor, which is the
shortest way to any break of the history; the lock needs five, the counterexample
of `project_lock_bypassed` being the shortest. Four requests in `generation_assets`
let an acceptance, an application, a layout edit and a poll all be in flight
together. In `generation_jobs` three requests of up to three variants against a limit
of two reach the largest overrun there is, so that the bound fails when one more is let
through; its two placeholders let library submissions meet. In `generation_polling` the
polls of the two other requests overlap the client's, stop after the mesh rows or are
answered late, so that a finished job goes back to running, and either may be a second
submission whose document erases the asset; one task is enough, since polls of different
tasks meet only in the document, which is what the second submission writes. Tabs of one user meet only through the histories, where any other
client is `OtherClientSaves`, so that one tab beside it already meets every
conflict; two calls in flight let a load and a save, or two loads, cross. One
mark is enough to tell an edited document from an unedited one; replacing one
element by another (`UpdateElement`) takes two, in `client_undo`. `MaxUndo`
stands for 50 and is reached in a few edits; `MaxSaves` bounds the revisions.

Every hazard of the artifact registry is between two requests (two compiles, an
export and an edit, a deletion and a download), with a third that reads the
result: `MaxRequests` is 3, of which two overlap. Two configurations tell a file
from the one asked for; two revisions tell current evidence from stale; one free
export makes the second the one too many.

A layout is large in values rather than in steps, so that `design` has few states
(some thousands) and each is a whole document. Its payloads are chosen at the
edges of the code's own conditions: centres exactly half a unit apart and one
400th more, a staircase that chains, 25 and 26 columns, ids shared between keys
and between a key and an encoder, views that disagree, elements of no size, pin
budgets met and exceeded, layouts at and above the limits, each part of a
companion missing in turn, neighbours and long parts turned by 15 to 300 degrees.
`Turn`, the sines in thousandths, is a table of whole degrees. `MaxKeys`, `MaxElements` and `MaxItems` are
28, 42 and 56 for the code's 512, 768 and 1024, in the same proportion: a full board
of 28 keys is exactly at the combined limit, one with a display more is above it.
Only keyboards have an asset, since assets multiply the documents and no check of
them depends on the family. Four of the families can be created by a request
(`streamdeck`, the fifth, takes the macropad's branches but for a firmware target
and an encoder's wording); the pedal, breath and companion families exist only in
projects recorded otherwise, and have checks of their own.

The proofs hold for every number of requests, tasks, workers, configurations,
revisions, tabs, projects, marks, slots and layouts.
The runs do not check for deadlock: a behaviour ends when every request
is answered.

### Where code and documents disagree

- `RowIsLatestRevision` (docs/BACKEND_ARCHITECTURE.md:40, "latest canonical
  project row"): a validation loads revision 1, a PATCH commits revision 2, the
  validation persists its copy. The row's `data` is revision 1 again while the
  `revision` column, which the validation leaves alone, stays 2. The edit is safe
  in the history but no read of the project shows it. The next edit computes
  revision 2 and is refused by the unique constraint, until some other metadata
  write repairs the row, if one that holds the newer document is still in flight.
- `ExpectedHonoured` (README.md:34, "Optimistic locking for spec-changing
  mutations"): from a row whose column and document differ, an edit is compared
  with the column and applied to the document.
- `FinishedJobsKeepTheirAsset` (README.md:142, "The canonical project record is
  the source of truth."): stale metadata writes erase an ingested asset while the
  job stays finished; a finished job is never ingested again.
- `ProjectsDoNotMix` (client/src/stores/projectStore.ts:2, "canonical client-side
  state for the current project"): `save` replaces the project and leaves the undo
  and redo stacks. With the save of p in flight, the user opens q, goes back to
  p's URL and edits q before p is loaded; the save's answer then shows p over q's
  undo stack. An undo and a save, which succeed, record q's layout in p.

Observations that have no run, each seen while modelling the code that does it.
Of the browser and of generation:

- Edits made while a save is in flight are replaced by its answer and marked clean
  (projectStore.ts:177): the field then shows what the server has, as
  `CleanFieldsAreCommitted` says, but not what was edited last.
- A job may stay unfinished for good: a status write or a submission that had loaded the
  document before erases the ingested asset, the poll that ingested it stops before
  finishing the job, and every later poll collides with the mesh rows
  (`IngestCollides`). `FinishedTasksFinishTheirJobs` excepts a task so `Erased`, and no
  other: without the exception the run finds it violated.
- The generation quota is compared before the provider call and counted after it, so
  overlapping submissions together exceed `JobLimit`. `QuotaCountsJobs` bounds the overrun
  by what all requests but one can reserve, each at most the limit itself; jobs of the
  shell library are rows that the counter never sees (generation.py:255).
- A request that fails between creating provider tasks and recording jobs leaves tasks
  that the provider works on and nobody polls or counts; `QuotaCountsJobs` says that
  such a task delivers nothing (meshes are of recorded jobs).

Of the artifact registry:

- The bundle's row is stamped with the present and the export's report with the
  project's creation (export.py:65), so that an older report of a validation run
  is "newest" (records.py:231) and the gate answers "Run validation again" after a
  successful export. `ReadyMeansExported` is the direction that holds.
- A deletion removes the files before it commits (projects.py:307): if the commit
  fails, the rows are left without them. `FilesOutliveTheirRows` ends there.
- A shell has one path and one id per revision: two compiles with different
  configurations, overlapping or failing between file and commit, leave the row of
  one beside the file of the other. `raced` marks exactly those revisions.
- Under R2 a row's path is never a path of the server's, so that mechanical
  downloads always compile again and then have no file to send
  (geometry.py:383, :412, :436); deletion leaves the compiled files of the server.

Of designs:

- The combined limit (models/project.py:206) counts both views; a PATCH with
  elements only passes it, and the document saved, which has both, may not load
  again. `LoadingIsStable` states the half that always loads.
- The first reload of an elements-only layout changes it (footprints, assets)
  within one revision; later ones do not.
- An encoder that shares a key's id is given the key's place of the matrix.
  `UniqueIds` is a hypothesis of the properties about agreement for this reason.
- Validation skips the asset check when the project has no asset, although its
  elements may refer to some (engine.py:463); the properties about verdicts speak
  of those reached with assets attached.
- The overlap check ignores rotation while the panel turns its openings: two neighbouring
  1u switches turned by 45 degrees pass, and their 14 mm cutouts, 19.80 mm from tip to
  tip, meet on a pitch of 19.05 mm (the design run has this layout). `ValidatedPanelsCut`
  keeps openings at any angle on the board and off its corner holes, and apart from each
  other those of `Upright` controls: turned by half turns, or by quarter turns if square.
  The hole in the middle of a panel is checked against nothing.
- Stabiliser wires are looked up by the decimal text of the width in units
  (plate_generator.py:177). For a 7u key that is 133.35 / 19.05, in doubles
  6.999999999999999, so that the entry for 7u (57.15 mm) is never found and the wires are
  cut at 2u's 11.938 mm. `StabOffset` does what the code does.
- The ring of a speaker's grille has a radius of at least 6 mm whatever the speaker's
  size (plate_generator.py:287): below 15 mm its holes leave the speaker's outline, and
  validation knows the outline only. `Ordinary` asks 15 mm of speakers and 14 mm, the
  switch opening, of the rest.
- Nothing checks sizes: they may be zero or negative (models/project.py:258). The
  overlap check does not see a key smaller than its tolerance, so that ids can be shared
  unseen, hence the hypothesis on sizes in `ValidatedDesignsCompile`. A panel's outline
  contains an element of negative size, whose corners it takes, a shell's does not: the
  shell half of `OpeningsMatchControls` speaks of sizes that are not negative.
- A board so small that corner holes and the middle hole coincide still has five drawn,
  as the summary counts.
- VIA groups keys by their upper edge, the matrix by their centre
  (qmk_generator.py:426): they agree for keys of one height.

### Fairness

`Spec` has none. `PolledSpec` adds `PollingFairness`: a polling client polls again
and again (server/README.md:132 gives the endpoint to API clients; the server has
no worker of its own), and each step of a poll that is possible again and again
is eventually taken. Fairness is strong and per task, since a poll may be
abandoned at any step, infinitely often, but not always. Nothing is assumed of the
provider, of `IngestionFails` or of any other request: the property speaks of
tasks the provider did finish.

## Proofs

For every set of requests and every subset of the handlers, from the one assumption
`HandlersAssumption`:

- `ProjectRevisionsProofs`. `TypeOK` is inductive together with the facts about
  the domain of `snapshots`. `HistoryIsLinear` is not inductive alone: a stale
  request could commit a document whose number and content differ. `HistoryInv`
  adds that every document in existence - the row's, and each request's copy -
  has the content its revision was recorded with, and that a successful edit is in
  the history. From it follow `LinearHistory`, `RowContent`, `AcknowledgedEdits`,
  the action property `ImmutableSnapshots`, and `Implementation`: every step is a
  step of `RevisionHistory` or a stutter under the mapping that keeps, of each
  snapshot, its edits.
- The same module on locking. While only edits have been written, `LockInv` relates
  each request's loaded row to the history at the time: the row's column and
  document agree, the row's revision is the maximum of the snapshots, and what a
  request has checked against the column is what it will commit on. It gives
  `EditsKeepTheRow` and `OptimisticLocking`. The hypothesis `OnlyEdits` is
  necessary: the two violated runs show what a metadata write does.
- The same module on evidence. `EvidenceInv` extends `EvidenceIsCurrent` to the copies
  requests hold, and to the fact that a document's content is a prefix of what its
  successors hold, so that a result computed on a stale copy is still about the
  revision it is stored beside. It gives `CurrentEvidence`.

About `KeycapGeneration`, for every set of requests, tasks, placeholders and keys and
every job limit, from `GenerationAssumption` (`KeycapGenerationProofs`):

- `TypeInv` adds to `TypeOK` what a request was started with: that a poll's task is a
  task and a decision's asset an asset depends on the handler. Each action is first
  shown to be a metadata write, a revision or a step that touches no table
  (`WritesMetadata`, `RevisesProject`), and the invariants are about those kinds.
- `JobsInv` makes the job properties inductive. `Knows` is what a request has learned
  and not yet written: a poll that is to finish a job was told so by the provider,
  and the provider does not go back; what a submission has created has no job yet.
  `TasksApart`: no two submissions created one task. `CounterExact`: the counter is the
  number of provider tasks with a job. It gives `JobsFollow`.
- `QuotaInv`, for the limit: when a request is let through it and the counter are within
  the limit, and every other request has reserved `MostVariants` at most (`Granted`), so
  that the counter and all reservations together are `WithinOverrun`; recording a job
  moves one from the reservations to the counter (`OverrunRecorded`), every other end of a
  submission only drops reservations (`OverrunShrinks`). With `LibraryExact`, which
  `TypeInv` carries for the shell library's jobs, it gives `QuotaExact`.
- `DocsInv`: every document held anywhere - the row, each request's copy, each
  snapshot - agrees with the snapshot of its revision on the accepted assets and
  the layout, and shows no asset ahead of its mesh (`DocInv`); each snapshot is a
  permitted successor of the one before (`History`); a decision past its check was
  checked on the document it is made on (`Checked`), and a poll about to finish has
  its mesh registered (`Registered`). That is why a stale write is harmless here, and
  gives `MeshesFirst`, `CanonicalRevisioned` and `AppliedStayAccepted`.

About `ArtifactRegistry`, for every finite set of workers, any configurations, either
backend, any quota and bounds, from `RegistryAssumption` (`ArtifactRegistryProofs`):

- `FilesInv` extends `FilesOutliveTheirRows` to the files a request has written and not
  registered, or found and not sent (`Held`). It gives `FilesThere`.
- `BundlesInv`: exports past their check are of revisions that did not fail, verdicts
  of revisions do not change, and what was called ready stays so. It gives
  `BundlesValidated`, `ReadyIsExported` and, with the step simulation, `Durable`:
  the registry implements `DurableOutputs`.
- `QuotaInv` counts with the exports done those past their check: the sum is at most
  the limit and the workers less one, and a commit moves one across.
- `CompiledInv`: a revision's shell that is not `raced` is used by one request at a time,
  whose configuration the file has (`ShellInv`); a panel's file has its id's. It gives
  `ShellRowsTrue` and `DownloadsAsAsked`.

About `DesignPipeline`, for layouts of any length with elements at any position and of
any size at any angle, every family, limit, set of footprints and set of panel and shell
configurations that contains the default, from four assumptions.
`LimitsAssumption`: the limits are naturals. `FootprintsAssumption`: `Footprints`
contains the two footprints the parser itself writes. `PipelineAssumption`: what
clients send has the types of the request models, and its keys' units convert to
400ths of a millimetre without a remainder (`ExactPayload`; a model of exact numbers
says nothing of rounding), and asset ids differ from "none". `TurnAssumption`: in the
table of sines quarter turns are exact, and a cosine and a sine have no smaller sum than
the unit. No other fact of trigonometry is used.

- `DesignInv` (`DesignPipelineProofs`) is inductive. The properties are about what is
  recorded beside the document as *loaded now*, whereas an action writes what it has
  computed from the document as loaded then, and writes that document back. So
  `DesignTyped` keeps of `saved` that it is a document (`IsDocument`): its keys are the
  view of its elements, and their lengths survive the conversion to units and back.
  Parsing such a document once settles it (`ParsedSettles`: key-like elements of one id
  agree, and no footprint or asset is left to fill in), and a settled one is parsed into
  itself. `ElectronicsKept`, `MechanicalKept`, `ReportKept` and `BundleKept` say of each
  thing recorded that it is what computing it from `Loaded` gives. The steps that write a
  document which is *not* the one loaded have to be shown harmless to it, or to drop it:
  a compile writes the places into the keys it compiled (`MatrixApplied`,
  `MatrixOfSameBoard`: the same matrix again), an application changes what elements wear
  (`KeycapApplied`), and a decision about an asset changes the assets (`VerdictOfAssets`,
  `BundleOfAssets`). It gives `TypeCorrect`, `LoadingStable`, `DerivedTrue` and
  `ExportsAccepted`.
- `LayoutsProofs`. What the parser keeps of a list, as a subsequence given by its
  positions (`KeptPositions`); that one parse settles a document; that a payload's keys
  become elements and come back as they were (`PayloadParsed`).
- `ElectronicsProofs`. A column is a rank under a strict total order, and a smaller
  key's predecessors are properly contained in a larger one's; a balanced place is the
  quotient and the remainder of such a rank. Rows are found by a recursive function over
  the starts found so far (`StartsAmong`); what it returns is reached without an induction
  theorem, as the least index at which it would fail (`StartsByStep`): starts are
  further apart than the tolerance and every centre is within the tolerance above one
  (`StartsCover`). It gives `PlacesDistinct` (with `PlacesDiffer` for any list of keys),
  `FollowsBoard` and, with the ten checks, `ValidatedCompile`.
- `PanelsProofs`. A rectangle inside the sides of a control is inside the box around the
  control after both are turned (`BoxInside`: along an axis, an offset and a half side
  together are no longer than the control's, and stay so when scaled by a cosine), and so
  is a circle, whose size is not turned (`BoreInside`), and one that is not turned at all
  (`FixedInside`, a speaker's grille). So openings of an ordinary control lie in its box
  (`OpeningsInside`, by type), the box lies in the outline with the margin of 7.5 mm
  around it while corner holes are centred 6 mm from the edge (`OutlineAround`,
  `CornerBeyond`), and boxes of upright controls (`UprightBody`), which are what the overlap
  check compares, are apart when it lets them pass (`ApartBodies`): `ValidatedPanels`. The counts of the summary are compared with the
  drawing by one-to-one maps from pairs of an element and a part (`MadeOfPairs`), and
  features of a shell stay within its margin of 14 mm around their element:
  `OpeningsMatch`.
- `FilesAgree`, on top of both: the files a bundle is made of speak of the *compiled*
  copy of the design and the property of the design itself. That copy has the keys, the
  labels, the heights and the ids of the design (`SameControls`) and compiles to the
  same matrix, and no check reads a place, so that its verdict is the design's
  (`VerdictOfCompiled`), which is why preview and bundle agree. In the keymap, places
  inside the matrix that differ have slots that differ (`SlotsDiffer`), so that no key's
  code is written over (`KeymapTells`). In the VIA definition, the ranks of a row's keys
  fill an interval (`RanksFill`), so that the cells are numbered without a gap and each
  key is in one (`CellsOfVia`). Rows of VIA start among upper edges, rows of the matrix
  among centres. Edges chosen as starts, further apart than the tolerance and with every
  edge within it above one of them, can be chosen in one way only (`OneChoiceOfStarts`,
  by the least edge where two choices would differ). For keys of one height, centres are
  edges moved by a constant, and so are starts (`RowsOfEqualHeights`).

About `ClientStore`, for every instance that satisfies `ClientAssumption`:

- `ClientStoreProofs`. `TypeInv` is `TypeOK` with what calls and
  histories always are (a call that is not free names a project, only a save is
  refused, a history is never empty).
  `StacksBounded` needs the sum of both stacks, since undo and redo move a layout
  from one to the other: `Newest` on either would cut only if the sum had passed
  the limit, so neither ever cuts in an undo or a redo, which is `TimelineKept`.
- The same module on answers. `RouteInv`: a tab that shows another project than its
  URL's is loading that one, unless a call has failed; it needs the effect of
  App.tsx after every answer, and gives `RouteShown`. `SoundInv`: what is shown
  clean, and every answer not yet applied, is a recorded revision, and every save
  in flight carries a revision whose content its tab has shown in full. It gives
  `CleanFields` and, with the server's comparison, `NothingLostUnseen`.

Only model-checked: liveness (`FinishedTasksFinishTheirJobs`; TLAPS does not do
`ENABLED` and fairness), and the violated properties, which are false. Every safety
property of a passing run has a theorem.

## Not modelled, and why

- Rate limiting, accounts, launch leads and the browser's session: each is apart from
  every project, and the requests modelled here are those of an authenticated owner.
  Their hazards are listed in PROJECT.json without a property.
- Text: generated code, Markdown, CSV, DXF entities and prompts. What they say of the
  design is modelled where another file says it too.
- `case_generator` and `mesh_processor`: solid and mesh operations of other libraries.
- Catalogue, templates and platform routes are constants, but for the readiness of
  footprints. Lists of revisions, artifacts and usage only read.
- The gate's asset and job conditions are one free choice (`settled`): the documents
  they read are in `KeycapGeneration`.
- The database is not assumed to fail a commit halfway; a failed commit is `Fail`.
- One project, since no handler touches two; `ClientStore` has several. Of the client,
  `createProject` (a load of a project nobody has edited), `setLayout` and
  `setStylePrompt` (which no editor calls), the selection, the notices and the demo
  page are left out.
- Numbers are exact: sizes are multiples of a 400th of a millimetre, rotations whole
  degrees, sines thousandths. Rounding of floating-point values is modelled in the one
  place found where it decides something, `StabOffset`. Elsewhere it is not: a last place
  may differ from what the model says at an exact tie (rows half a unit apart, a gap that
  is exactly the clearance asked for, a width sent in units that the parser converts).

## Plan

1. `ProjectStore`, `ProjectRevisions`, `RevisionHistory` with their proofs - done.
2. `KeycapGeneration` with its proofs - done.
3. `ClientStore` with its proofs - done.
4. `ArtifactRegistry`, `DurableOutputs` with their proofs - done.
5. `Layouts`, `Electronics`, `DesignValidation`, `Firmware`, `Panels`, `HandheldShell`,
   `ReviewBundle`, composed in `DesignPipeline` - done, with `LayoutsProofs`,
   `ElectronicsProofs`, `PanelsProofs` and `DesignPipelineProofs`.
6. `ExportedFilesAgree`, VIA's rows being starts among upper edges, like the matrix's
   among centres - done.
7. Open: rate limiter (a sliding window per worker) and the check-then-insert of accounts,
   as small modules of their own.
