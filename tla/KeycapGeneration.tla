-------------------------- MODULE KeycapGeneration --------------------------
(***************************************************************************)
(* Appearance generation for one project: server/api/generation.py with    *)
(* the job registry, the usage registry, the keycap ingestion service and  *)
(* the providers behind it, over the store of ProjectStore.                *)
(*                                                                         *)
(* A submission reserves quota, creates tasks at the remote provider and   *)
(* records one job per task; a client polls each job; the poll that finds  *)
(* the task done downloads and registers the mesh, puts the asset into the *)
(* project document, and only then, in a second transaction, finishes the  *)
(* job and counts the usage.  Assets are accepted or rejected and applied  *)
(* to the layout by further requests.  Any of these may overlap, in one    *)
(* worker or in several, and any of them may stop between two steps.       *)
(*                                                                         *)
(* The generated asset of a task has the task's name (_asset_id_for_task). *)
(* A request runs once, except the Pollers, each of which is the loop of a *)
(* client that polls again when it has its answer.                         *)
(***************************************************************************)
EXTENDS ProjectStore, FiniteSets, FiniteSetsExt

CONSTANTS
    Requests,       \* the HTTP calls of a behaviour
    Pollers,        \* those that stand for a client's polling loop
    Handlers,       \* the handlers the others may call
    Tasks,          \* task ids the remote provider may hand out
    Delivered,      \* those whose asset a behaviour starts with
    Placeholders,   \* asset ids the shell library may hand out
    Keys,           \* the layout elements that can carry an asset
    JobLimit,       \* settings.free_generation_jobs_per_project
    MaxVariants,    \* the most variants one submission may ask for
    NoAsset         \* no asset assigned

Assets == Tasks \cup Placeholders

AllHandlers == {"submit", "poll", "accept", "apply", "patch_layout"}
AssetHandlers == {"accept", "apply"}

ASSUME GenerationAssumption ==
    /\ Pollers \subseteq Requests
    /\ Handlers \subseteq AllHandlers
    /\ Delivered \subseteq Tasks
    /\ Tasks \cap Placeholders = {}
    /\ NoAsset \notin Assets
    /\ JobLimit \in Nat \ {0}
    /\ MaxVariants \in Nat \ {0}
    /\ IsFiniteSet(Tasks) /\ Cardinality(Delivered) <= JobLimit
    /\ IsFiniteSet(Requests) /\ Requests # {}

VARIABLES
    req,        \* the requests
    provider,   \* the remote provider's tasks: "none" until submitted
    jobs,       \* project_jobs, by external_ref: "none" when there is no row
    libraryJobs,\* project_jobs without external_ref, by the assets in their output
    artifacts,  \* the assets whose three mesh rows are in project_artifacts
    submitted,  \* usage_total("generation_submitted")
    completed   \* generation_completed events, by asset

vars == <<live, row, snapshots, req, provider, jobs, libraryJobs, artifacts, submitted,
          completed>>

Statuses == {"configured", "generating", "previewable"}
AcceptanceStates ==
    {"absent", "candidate", "preview_only", "accepted", "production_ready", "rejected"}
Canonical == {"accepted", "production_ready"}                   \* _CANONICAL_ASSET_STATES
Manual == {"accepted", "rejected", "production_ready"}          \* _MANUAL_ASSET_STATES
JobStates == {"none", "submitted", "in_progress", "succeeded", "failed"}
IsTerminal(status) == status \in {"succeeded", "failed"}

PCs == {"idle", "loaded", "allowed", "created", "polling", "fetched", "ingested",
        "reconciled", "checked", "ok", "rejected", "conflict", "failed"}

\* Mutant of NewProject: revisions numbered from 0.
NewProjectAtZero ==
    [revision |-> 0, status |-> "configured",
     assets |-> [a \in Assets |-> "absent"],
     layout |-> [k \in Keys |-> NoAsset]]

\* The document of a project made from a template, before any generation.
NewProject ==
    [revision |-> 1, status |-> "configured",
     assets |-> [a \in Assets |-> "absent"],
     layout |-> [k \in Keys |-> NoAsset]]

\* ... and after the undisturbed generation of the Delivered assets.
StartProject ==
    [NewProject EXCEPT
        !.status = IF Delivered = {} THEN @ ELSE "previewable",
        !.assets = [a \in Assets |-> IF a \in Delivered THEN "candidate" ELSE "absent"]]

\* A request not made yet, and one whose session is closed.
Closed(outcome) ==
    [pc |-> outcome, handler |-> "poll", asset |-> NoAsset, goal |-> "none",
     expected |-> 0, loaded |-> RowOf(NewProject), project |-> NewProject,
     job |-> "none", n |-> 0, tasks |-> {}]

Init ==
    LET finished == [t \in Tasks |-> IF t \in Delivered THEN "succeeded" ELSE "none"]
    IN  /\ live = TRUE
        /\ row = RowOf(StartProject)
        /\ snapshots = [n \in {1} |-> NewProject]
        /\ req = [r \in Requests |-> Closed("idle")]
        /\ provider = finished
        /\ jobs = finished
        /\ libraryJobs = {}
        /\ artifacts = Delivered
        /\ submitted = Cardinality(Delivered)
        /\ completed = [a \in Assets |-> IF a \in Delivered THEN 1 ELSE 0]

registryVars == <<jobs, libraryJobs, artifacts, submitted, completed>>

At(r, handler, pc) == req[r].handler = handler /\ req[r].pc = pc
Goto(r, pc) == req' = [req EXCEPT ![r].pc = pc]
Answer(r, outcome) ==
    req' = [req EXCEPT ![r] = Closed(IF r \in Pollers THEN "idle" ELSE outcome)]

\* The documents a client may have been shown.
Seen == {snapshots[n] : n \in DOMAIN snapshots} \cup {row.data}

\* load_project_state at the head of every handler; the parameters are the
\* request's: the task polled or the asset meant, the acceptance state asked for,
\* the revision expected.
LoadProjectState(r, handler, asset, goal, expected) ==
    /\ req[r].pc = "idle"
    /\ handler \in {"submit", "poll"} => expected = 0
    /\ handler = "apply" => expected # 0
    /\ IF RevisionAsExpected(expected, row)
       THEN req' = [req EXCEPT ![r] =
                [Closed("loaded") EXCEPT
                    !.handler = handler, !.asset = asset, !.goal = goal,
                    !.expected = expected, !.loaded = row, !.project = row.data]]
       ELSE Answer(r, "conflict")
    /\ UNCHANGED <<storeVars, provider, registryVars>>

-----------------------------------------------------------------------------
(* _submit_keycap_generation_request                                       *)

\* Mutant of CheckQuota: what is used is compared, without what is asked for.
ChecksUsedOnly(r, n) ==
    /\ At(r, "submit", "loaded")
    /\ IF submitted >= JobLimit
       THEN Answer(r, "rejected")
       ELSE req' = [req EXCEPT ![r].pc = "allowed", ![r].n = n]
    /\ UNCHANGED <<storeVars, provider, registryVars>>

\* usage_total against the limit, for n variants: 403 or on.
CheckQuota(r, n) ==
    /\ At(r, "submit", "loaded")
    /\ IF submitted + n > JobLimit
       THEN Answer(r, "rejected")
       ELSE req' = [req EXCEPT ![r].pc = "allowed", ![r].n = n]
    /\ UNCHANGED <<storeVars, provider, registryVars>>

FreshTasks == {t \in Tasks : provider[t] = "none"}

\* The remote provider creates one task per variant ...
SubmitToProvider(r) ==
    /\ At(r, "submit", "allowed")
    /\ \E ts \in kSubset(req[r].n, FreshTasks) :
        /\ provider' = [t \in Tasks |-> IF t \in ts THEN "in_progress" ELSE provider[t]]
        /\ req' = [req EXCEPT ![r].pc = "created", ![r].tasks = ts]
    /\ UNCHANGED <<storeVars, registryVars>>

\* ... or fails on the way: 502, and the tasks made so far have no job.
ProviderRefuses(r) ==
    /\ At(r, "submit", "allowed")
    /\ \E ts \in SUBSET FreshTasks :
        /\ Cardinality(ts) < req[r].n
        /\ provider' = [t \in Tasks |-> IF t \in ts THEN "in_progress" ELSE provider[t]]
    /\ Answer(r, "failed")
    /\ UNCHANGED <<storeVars, registryVars>>

\* Jobs, usage event and document in one transaction.
RecordSubmission(r) ==
    /\ At(r, "submit", "created")
    /\ PersistProjectMetadata(req[r].loaded,
            [req[r].project EXCEPT !.status = "generating"])
    /\ jobs' = [t \in Tasks |-> IF t \in req[r].tasks THEN "submitted" ELSE jobs[t]]
    /\ submitted' = submitted + Cardinality(req[r].tasks)
    /\ Answer(r, "ok")
    /\ UNCHANGED <<provider, libraryJobs, artifacts, completed>>

\* The shell library answers at once with placeholders: a completed job that has no
\* external_ref and no generation_submitted event, the usage of what it delivered
\* and the assets, in one transaction.
SubmitToShellLibrary(r) ==
    /\ At(r, "submit", "allowed")
    /\ \E as \in kSubset(req[r].n, Placeholders \ UNION libraryJobs) :
        /\ PersistProjectMetadata(req[r].loaded,
                [req[r].project EXCEPT
                    !.assets = [a \in Assets |-> IF a \in as THEN "preview_only" ELSE @[a]],
                    !.status = "previewable"])
        /\ libraryJobs' = libraryJobs \cup {as}
        /\ completed' = [a \in Assets |-> completed[a] + (IF a \in as THEN 1 ELSE 0)]
    /\ Answer(r, "ok")
    /\ UNCHANGED <<provider, jobs, artifacts, submitted>>

-----------------------------------------------------------------------------
(* get_generation_status                                                   *)

\* get_project_job_by_external_ref: 404, a finished job, or one to poll.
FindJob(r) ==
    /\ At(r, "poll", "loaded")
    /\ LET status == jobs[req[r].asset]
       IN  IF status = "none"
           THEN Answer(r, "rejected")
           ELSE req' = [req EXCEPT
                    ![r].pc = IF IsTerminal(status) THEN "ingested" ELSE "polling",
                    ![r].job = status,
                    ![r].goal = status]
    /\ UNCHANGED <<storeVars, provider, registryVars>>

\* Mutant of PollProvider: the job is finished before its mesh is ingested.
FinishesBeforeIngesting(r) ==
    /\ At(r, "poll", "polling")
    /\ req' = [req EXCEPT ![r].pc = "ingested", ![r].goal = provider[req[r].asset]]
    /\ UNCHANGED <<storeVars, provider, registryVars>>

\* Mutant of PollProvider: no answer yet is taken for a failure.
PendingIsFailure(r) ==
    /\ At(r, "poll", "polling")
    /\ req' = [req EXCEPT
            ![r].pc = IF provider[req[r].asset] = "succeeded" THEN "fetched" ELSE "ingested",
            ![r].goal = IF provider[req[r].asset] = "succeeded" THEN "succeeded" ELSE "failed"]
    /\ UNCHANGED <<storeVars, provider, registryVars>>

\* provider.poll_keycap_generation: what the provider says now.
PollProvider(r) ==
    /\ At(r, "poll", "polling")
    /\ req' = [req EXCEPT
            ![r].pc = IF provider[req[r].asset] = "succeeded" THEN "fetched" ELSE "ingested",
            ![r].goal = provider[req[r].asset]]
    /\ UNCHANGED <<storeVars, provider, registryVars>>

\* Mutant of FindIngestedAsset: a poll that finds its asset there already is
\* answered without finishing the job.
FoundIsDone(r) ==
    /\ At(r, "poll", "fetched")
    /\ req[r].project.assets[req[r].asset] # "absent"
    /\ Answer(r, "ok")
    /\ UNCHANGED <<storeVars, provider, registryVars>>

\* ingest_completed_keycap_generation, the asset already in the document loaded:
\* at most the status moves on.
FindIngestedAsset(r) ==
    LET p == req[r].project
    IN  /\ At(r, "poll", "fetched")
        /\ p.assets[req[r].asset] # "absent"
        /\ IF p.status = "generating"
           THEN LET new == [p EXCEPT !.status = "previewable"]
                IN  /\ PersistProjectMetadata(req[r].loaded, new)
                    /\ req' = [req EXCEPT ![r].pc = "ingested", ![r].project = new,
                                          ![r].loaded = RowOf(new)]
           ELSE Goto(r, "ingested") /\ UNCHANGED storeVars
        /\ UNCHANGED <<provider, registryVars>>

\* ... and the asset not there: mesh rows and document in the first transaction.
IngestAsset(r) ==
    LET t == req[r].asset
        new == [req[r].project EXCEPT !.assets[t] = "candidate",
                                      !.status = "previewable"]
    IN  /\ At(r, "poll", "fetched")
        /\ req[r].project.assets[t] = "absent"
        /\ t \notin artifacts
        /\ artifacts' = artifacts \cup {t}
        /\ PersistProjectMetadata(req[r].loaded, new)
        /\ req' = [req EXCEPT ![r].pc = "ingested", ![r].project = new,
                              ![r].loaded = RowOf(new)]
        /\ UNCHANGED <<provider, jobs, libraryJobs, submitted, completed>>

\* The mesh rows are registered already under the same primary keys: the commit
\* raises IntegrityError, which nothing on this path handles.
IngestCollides(r) ==
    /\ At(r, "poll", "fetched")
    /\ req[r].project.assets[req[r].asset] = "absent"
    /\ req[r].asset \in artifacts
    /\ Answer(r, "failed")
    /\ UNCHANGED <<storeVars, provider, registryVars>>

\* The UPDATE of a job row: a status equal to the one this session read stays
\* out of it.
JobStatusAfter(r, status) ==
    IF status # req[r].job THEN status ELSE jobs[req[r].asset]

\* KeycapIngestionError (download or normalisation): the job fails for good.
IngestionFails(r) ==
    /\ At(r, "poll", "fetched")
    /\ req[r].project.assets[req[r].asset] = "absent"
    /\ jobs' = [jobs EXCEPT ![req[r].asset] = JobStatusAfter(r, "failed")]
    /\ Answer(r, "failed")
    /\ UNCHANGED <<storeVars, provider, libraryJobs, artifacts, submitted, completed>>

\* _reconcile_generation_project_status, the reading part: the session's own copy
\* of the document, and every job as committed, its own as just updated.
Desired(r) ==
    LET status(t) == IF t = req[r].asset THEN req[r].goal ELSE jobs[t]
    IN  IF \E a \in Assets : req[r].project.assets[a] # "absent" THEN "previewable"
        ELSE IF \E t \in Tasks : status(t) # "none" /\ ~IsTerminal(status(t))
             THEN "generating" ELSE "configured"

ReadJobs(r) ==
    /\ At(r, "poll", "ingested")
    /\ req' = [req EXCEPT ![r].pc = "reconciled",
                          ![r].project = [@ EXCEPT !.status = Desired(r)]]
    /\ UNCHANGED <<storeVars, provider, registryVars>>

\* The rest of the poll, in one transaction: the project status if it moved, and,
\* unless the job was finished when the poll began, the job and its usage.
FinishPoll(r) ==
    LET t == req[r].asset
        polled == ~IsTerminal(req[r].job)
    IN  /\ At(r, "poll", "reconciled")
        /\ IF req[r].project.status # req[r].loaded.data.status
           THEN PersistProjectMetadata(req[r].loaded, req[r].project)
           ELSE UNCHANGED storeVars
        /\ jobs' = [jobs EXCEPT ![t] = IF polled THEN JobStatusAfter(r, req[r].goal) ELSE @]
        /\ completed' = [completed EXCEPT
                ![t] = IF polled /\ req[r].goal = "succeeded" THEN @ + 1 ELSE @]
        /\ Answer(r, "ok")
        /\ UNCHANGED <<provider, libraryJobs, artifacts, submitted>>

\* External: a task runs at the provider until it succeeds or fails.
ProviderProgress(t) ==
    /\ provider[t] = "in_progress"
    /\ \E status \in {"succeeded", "failed"} :
            provider' = [provider EXCEPT ![t] = status]
    /\ UNCHANGED <<storeVars, req, registryVars>>

-----------------------------------------------------------------------------
(* apply_keycap, update_keycap_asset_acceptance, update_project            *)

Applied(project) == {project.layout[k] : k \in Keys} \ {NoAsset}

\* Mutant of TouchesCanonical: only the state asked for counts.
TouchesCanonicalByGoal(project, asset, goal) == goal \in Canonical

\* Whether an acceptance change is a mutation of the canonical state.
TouchesCanonical(project, asset, goal) ==
    \/ project.assets[asset] \in Canonical
    \/ goal \in Canonical
    \/ asset \in Applied(project)

\* Mutant of AcceptanceRefused: an applied asset may be rejected.
AppliedMayBeRejected(r) ==
    LET p == req[r].project  a == req[r].asset
    IN  \/ p.assets[a] \in {"absent", req[r].goal}
        \/ TouchesCanonical(p, a, req[r].goal) /\ req[r].expected = 0

\* The checks of update_keycap_asset_acceptance before it changes anything.
AcceptanceRefused(r) ==
    LET p == req[r].project  a == req[r].asset
    IN  \/ p.assets[a] \in {"absent", req[r].goal}
        \/ TouchesCanonical(p, a, req[r].goal) /\ req[r].expected = 0
        \/ req[r].goal = "rejected" /\ a \in Applied(p)

\* The asset must be accepted and some targeted element must change; no targets
\* means all of them.
ApplyRefused(r, targets) ==
    LET p == req[r].project  a == req[r].asset
    IN  \/ p.assets[a] \notin Canonical
        \/ \A k \in targets : p.layout[k] = a

\* 400, 409 or nothing to do: the request ends without a write.
RefuseAssetChange(r) ==
    /\ \/ At(r, "accept", "loaded") /\ AcceptanceRefused(r)
       \/ At(r, "apply", "loaded") /\ \E ts \in (SUBSET Keys) \ {{}} : ApplyRefused(r, ts)
    /\ Answer(r, "rejected")
    /\ UNCHANGED <<storeVars, provider, registryVars>>

\* Where a mutation handler stands before its commit: with expected_revision it
\* re-reads the row first.
MutationReady(r, handler) ==
    \/ At(r, handler, "checked")
    \/ At(r, handler, "loaded") /\ req[r].expected = 0

RefreshAndCheck(r) ==
    /\ req[r].pc = "loaded" /\ req[r].expected # 0
    /\ \/ At(r, "accept", "loaded")
            /\ ~AcceptanceRefused(r)
            /\ TouchesCanonical(req[r].project, req[r].asset, req[r].goal)
       \/ At(r, "apply", "loaded") \/ At(r, "patch_layout", "loaded")
    /\ IF RevisionAsExpected(req[r].expected, row)
       THEN req' = [req EXCEPT ![r].pc = "checked", ![r].loaded = row]
       ELSE Answer(r, "conflict")
    /\ UNCHANGED <<storeVars, provider, registryVars>>

\* The row and the snapshot of a mutation, or 409 from the unique constraint.
CommitOrConflict(r, new) ==
    /\ \/ CommitProjectMutation(req[r].loaded, new) /\ Answer(r, "ok")
       \/ MutationConflicts(new) /\ Answer(r, "conflict") /\ UNCHANGED storeVars
    /\ UNCHANGED <<provider, registryVars>>

WithAcceptance(r) ==
    [req[r].project EXCEPT !.assets[req[r].asset] = req[r].goal]

\* invalidate_derived_state, as far as this document goes.
Invalidated(project) == [project EXCEPT !.status = "configured"]

AcceptCanonical(r) ==
    /\ At(r, "accept", "checked")
    /\ CommitOrConflict(r, Invalidated(WithAcceptance(r)))

AcceptMetadataOnly(r) ==
    /\ At(r, "accept", "loaded")
    /\ ~AcceptanceRefused(r)
    /\ ~TouchesCanonical(req[r].project, req[r].asset, req[r].goal)
    /\ PersistProjectMetadata(req[r].loaded, WithAcceptance(r))
    /\ Answer(r, "ok")
    /\ UNCHANGED <<provider, registryVars>>

ApplyKeycap(r, targets) ==
    /\ MutationReady(r, "apply")
    /\ ~ApplyRefused(r, targets)
    /\ CommitOrConflict(r, Invalidated(
            [req[r].project EXCEPT
                !.layout = [k \in Keys |-> IF k \in targets THEN req[r].asset ELSE @[k]]]))

\* PATCH of the layout: the client sends a layout it was shown before, as undo does.
PatchLayout(r) ==
    /\ MutationReady(r, "patch_layout")
    /\ \E doc \in Seen :
            CommitOrConflict(r, Invalidated(
                [req[r].project EXCEPT !.layout = doc.layout]))

\* The worker stops, the call is cancelled or the provider cannot be reached: the
\* session rolls back what it has not committed.
Abandon(r) ==
    /\ req[r].pc \in {"loaded", "allowed", "created", "polling", "fetched",
                      "ingested", "reconciled", "checked"}
    /\ Answer(r, "failed")
    /\ UNCHANGED <<storeVars, provider, registryVars>>

ArrivePoll(r, t) == LoadProjectState(r, "poll", t, "none", 0)

Arrive(r) ==
    \/ "submit" \in Handlers /\ LoadProjectState(r, "submit", NoAsset, "none", 0)
    \/ "poll" \in Handlers /\ \E t \in Tasks : ArrivePoll(r, t)
    \/ /\ "accept" \in Handlers
       /\ \E a \in Assets, goal \in Manual, e \in {0} \cup DOMAIN snapshots :
            LoadProjectState(r, "accept", a, goal, e)
    \/ /\ "apply" \in Handlers
       /\ \E a \in Assets, e \in DOMAIN snapshots :
            LoadProjectState(r, "apply", a, "none", e)
    \/ /\ "patch_layout" \in Handlers
       /\ \E e \in {0} \cup DOMAIN snapshots :
            LoadProjectState(r, "patch_layout", NoAsset, "none", e)

Submit(r) ==
    \/ \E n \in 1..MaxVariants : CheckQuota(r, n)
    \/ SubmitToProvider(r) \/ ProviderRefuses(r)
    \/ RecordSubmission(r) \/ SubmitToShellLibrary(r)

Poll(r) ==
    \/ FindJob(r) \/ PollProvider(r)
    \/ FindIngestedAsset(r) \/ IngestAsset(r) \/ IngestCollides(r) \/ IngestionFails(r)
    \/ ReadJobs(r) \/ FinishPoll(r)

ChangeAssets(r) ==
    \/ RefuseAssetChange(r) \/ RefreshAndCheck(r)
    \/ AcceptCanonical(r) \/ AcceptMetadataOnly(r)
    \/ \E targets \in (SUBSET Keys) \ {{}} : ApplyKeycap(r, targets)
    \/ PatchLayout(r)

Next ==
    \/ \E r \in Requests \ Pollers : Arrive(r) \/ Submit(r) \/ ChangeAssets(r)
    \/ \E r \in Pollers, t \in Tasks : ArrivePoll(r, t)
    \/ \E r \in Requests : Poll(r) \/ Abandon(r)
    \/ \E t \in Tasks : ProviderProgress(t)

Spec == Init /\ [][Next]_vars

\* A client polls each of its tasks until it has the answer.  Any single poll may
\* be lost, to a restart or an unreachable provider, but not every poll for ever.
PollingFairness ==
    \A r \in Pollers, t \in Tasks :
        LET OfTask(A) == req[r].asset = t /\ A
        IN  /\ SF_vars(ArrivePoll(r, t))
            /\ SF_vars(OfTask(FindJob(r)))
            /\ SF_vars(OfTask(PollProvider(r)))
            /\ SF_vars(OfTask(FindIngestedAsset(r) \/ IngestAsset(r) \/ IngestCollides(r)))
            /\ SF_vars(OfTask(ReadJobs(r)))
            /\ SF_vars(OfTask(FinishPoll(r)))

PolledSpec == Spec /\ PollingFairness

-----------------------------------------------------------------------------
(* Properties.                                                             *)

Documents ==
    [revision : Nat \ {0}, status : Statuses,
     assets : [Assets -> AcceptanceStates], layout : [Keys -> Assets \cup {NoAsset}]]

Rows == [revision : Nat \ {0}, status : Statuses, data : Documents]

RequestStates ==
    [pc : PCs, handler : AllHandlers, asset : Assets \cup {NoAsset},
     goal : Manual \cup JobStates, expected : Nat, loaded : Rows,
     project : Documents, job : JobStates, n : Nat, tasks : SUBSET Tasks]

\* Every variable has the shape its table, its request or the provider gives it.
TypeOK ==
    /\ live \in BOOLEAN
    /\ row \in Rows
    /\ DOMAIN snapshots \subseteq Nat \ {0}
    /\ snapshots \in [DOMAIN snapshots -> Documents]
    /\ req \in [Requests -> RequestStates]
    /\ provider \in [Tasks -> {"none", "in_progress", "succeeded", "failed"}]
    /\ jobs \in [Tasks -> JobStates]
    /\ libraryJobs \subseteq SUBSET Placeholders
    /\ artifacts \subseteq Tasks
    /\ submitted \in Nat
    /\ completed \in [Assets -> Nat]

\* The documents some table or some request holds.
LiveDocuments ==
    Seen \cup {req[r].project : r \in {q \in Requests : req[q].pc \in {"loaded", "checked"}}}

CanonicalAssets(doc) == {a \in Assets : doc.assets[a] \in Canonical}

\* Which assets are accepted, and where they are applied, is a function of the
\* revision: no poll, submission or metadata-only decision, however stale the
\* document it writes back, changes either under an existing revision number.
CanonicalStateIsRevisioned ==
    \A doc \in LiveDocuments :
        /\ doc.revision \in DOMAIN snapshots
        /\ CanonicalAssets(doc) = CanonicalAssets(snapshots[doc.revision])
        /\ doc.layout = snapshots[doc.revision].layout

\* An asset that is accepted and stays applied from one revision to the next stays
\* accepted: a rejection never strands an applied asset, and neither does a
\* request whose checks were made on an older document.
AppliedAssetsStayAccepted ==
    \A n \in DOMAIN snapshots :
        n > 1 =>
            \A a \in Applied(snapshots[n - 1]) \cap Applied(snapshots[n]) :
                a \in CanonicalAssets(snapshots[n - 1]) =>
                    a \in CanonicalAssets(snapshots[n])

\* A generated asset never appears in a document, and a job or a usage event never
\* reports it, before its mesh rows are committed: the two transactions of a poll
\* are in an order that a crash between them leaves explainable.
MeshesBeforeAssets ==
    \A t \in Tasks :
        t \notin artifacts =>
            /\ \A doc \in LiveDocuments : doc.assets[t] = "absent"
            /\ jobs[t] # "succeeded"
            /\ completed[t] = 0

\* The provider tasks with a job row, and the variants let through the quota check
\* that are not counted yet, as pairs of a request and a number.
Recorded == {t \in Tasks : jobs[t] # "none"}
LetThrough(r) == At(r, "submit", "allowed") \/ At(r, "submit", "created")
Reserved ==
    {v \in Requests \X (1..MaxVariants) : LetThrough(v[1]) /\ v[2] <= req[v[1]].n}

\* One request is let through with at most this many variants.
MostVariants == IF MaxVariants <= JobLimit THEN MaxVariants ELSE JobLimit

\* The counter of the quota, wherever submissions overlap, fail or stop: it is the
\* number of jobs recorded for provider tasks.  Check and count are apart, so the
\* limit is overrun, but by no more than what the other requests reserve at once.
\* The shell library's jobs are not counted; each is behind the usage of the
\* assets it delivered and of no other.  A provider task without a job (the
\* request failed after creating it) never delivers a mesh.
QuotaCountsJobs ==
    /\ submitted = Cardinality(Recorded)
    /\ submitted + Cardinality(Reserved)
            <= JobLimit + (Cardinality(Requests) - 1) * MostVariants
    /\ \A p \in Placeholders :
            completed[p] = Cardinality({job \in libraryJobs : p \in job})
    /\ artifacts \subseteq Recorded
    /\ \A t \in Recorded : provider[t] # "none"

\* A job is reported failed only if the provider failed it or its mesh could not be
\* ingested, and succeeded only if the provider succeeded: a late answer about one
\* poll is never credited to another state of the task.
JobFollowsProvider ==
    \A t \in Tasks :
        /\ jobs[t] = "succeeded" => provider[t] = "succeeded"
        /\ jobs[t] = "failed" => provider[t] \in {"failed", "succeeded"}

\* The mesh of the task is registered, but a request that had loaded the document
\* before wrote it back without the asset: every later poll collides.
Erased(t) == t \in artifacts /\ row.data.assets[t] = "absent"

\* A generation the provider has finished is finished here: while one client keeps
\* polling, the job becomes terminal and stays so, whatever other polls overlap,
\* are answered late (and write `in progress` over a finished job) or stop between
\* registering the mesh and finishing the job; unless a stale write, of a status or
\* of another submission, erases the asset in between.
FinishedTasksFinishTheirJobs ==
    \A t \in Tasks :
        jobs[t] # "none" /\ provider[t] \in {"succeeded", "failed"}
            ~> [](IsTerminal(jobs[t]) \/ Erased(t))

AtRest == \A r \in Requests : Closed(req[r].pc) = req[r]

\* The canonical project record shows every asset a finished job delivered.
FinishedJobsKeepTheirAsset ==
    AtRest => \A t \in Tasks : jobs[t] = "succeeded" => row.data.assets[t] # "absent"
=============================================================================
