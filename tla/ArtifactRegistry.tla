-------------------------- MODULE ArtifactRegistry --------------------------
(***************************************************************************)
(* The artifact registry of one project: rows of project_artifacts beside  *)
(* the files (or R2 objects) they name, written by validation, export and  *)
(* mechanical compiles, read by downloads and by the quality gate, removed *)
(* with the project.  server/services/artifact_registry.py,                *)
(* artifact_storage.py, usage_registry.py, quality_gate.py and the         *)
(* handlers of server/api/export.py, geometry.py, records.py and           *)
(* projects.py that use them.                                              *)
(*                                                                         *)
(* A handler loads the project, computes, writes its files, adds its rows  *)
(* to the session and commits once.  Files are visible to everybody as     *)
(* soon as they are written; rows when the transaction commits.  What a    *)
(* file contains is abstracted to the configuration it was compiled with,  *)
(* and the outcome of validating a revision to a verdict.                  *)
(***************************************************************************)
EXTENDS Naturals, FiniteSets

CONSTANTS
    Workers,        \* requests that may be in progress at one time
    Configs,        \* mechanical compile configurations
    DefaultConfig,  \* PlateConfig() and HandheldShellConfig()
    Verdicts,       \* validation outcomes that occur: "pass", "warn", "fail"
    Backends,       \* artifact_storage_backend: "local", "r2"
    FreeExports,    \* settings.free_export_bundles_per_project
    MaxRevision,    \* bound on the edits of a behaviour
    MaxRequests     \* bound on the requests of a behaviour

ASSUME RegistryAssumption ==
    /\ IsFiniteSet(Workers)
    /\ DefaultConfig \in Configs
    /\ {"none", "nothing"} \cap Configs = {}
    /\ Verdicts \subseteq {"pass", "warn", "fail"}
    /\ Backends \subseteq {"local", "r2"}
    /\ FreeExports \in Nat \ {0}
    /\ MaxRevision \in Nat \ {0}
    /\ MaxRequests \in Nat \ {0}

VARIABLES
    backend,        \* the storage backend the process was started with
    verdict,        \* what validate_project says of each revision so far
    exists,         \* the row of projects is there
    doc,            \* the revision of the document in it
    top,            \* the newest snapshot of project_revisions
    rows,           \* project_artifacts, by artifact_id
    files,          \* what the store holds at the path of each artifact_id
    exports,        \* usage_total("export_bundle")
    req,            \* the requests in progress
    issued,         \* requests made so far
    clock,          \* now(), as the reports and bundles recorded so far
    (* Observations of the behaviour, for the properties only. *)
    purged,         \* a deletion has removed the files
    raced,          \* revisions with two overlapping, or one failed, shell compile
    misled,         \* mechanical artifacts served with another configuration's file
    dropped,        \* an artifact download ended without its file
    ready           \* revisions the quality gate called export_ready

registryVars == <<backend, verdict, exists, doc, top, rows, files, exports>>
observed == <<purged, raced, misled, dropped, ready>>
vars == <<registryVars, req, issued, clock, observed>>

Revisions == 1 .. MaxRevision
NoConfig == "none"
Handlers == {"validate", "export", "plate", "shell", "get_plate", "get_shell",
             "download", "gate", "delete"}

-----------------------------------------------------------------------------
(* Artifact ids.  n tells the reports of run_validation apart (a uuid);    *)
(* the ids of an export are digests of the revision's state; a panel's id  *)
(* and path carry its configuration, a shell's do not.                     *)

Id(kind, rev, cfg, n) == [kind |-> kind, rev |-> rev, cfg |-> cfg, n |-> n]

RunReport(rev, n) == Id("run_report", rev, NoConfig, n)
ExportReport(rev) == Id("export_report", rev, NoConfig, 0)
Bundle(rev) == Id("bundle", rev, NoConfig, 0)
Panel(rev, cfg) == Id("panel", rev, cfg, 0)
Shell(rev) == Id("shell", rev, NoConfig, 0)

Reports == {RunReport(r, n) : r \in Revisions, n \in 1 .. MaxRequests}
               \cup {ExportReport(r) : r \in Revisions}
BundleIds == {Bundle(r) : r \in Revisions}
Ids == Reports \cup BundleIds \cup {Shell(r) : r \in Revisions}
           \cup {Panel(r, c) : r \in Revisions, c \in Configs}

NoRow == [cfg |-> "none", at |-> 0, there |-> FALSE]
Row(cfg, at) == [cfg |-> cfg, at |-> at, there |-> TRUE]

Registered == {id \in Ids : rows[id].there}

NoFile == "nothing"
Plain == "content"                  \* a file that no configuration shapes

Idle == [pc |-> "idle", handler |-> "gate", rev |-> 1, cfg |-> DefaultConfig,
         seen |-> {}, old |-> NoConfig, at |-> 0, n |-> 1, target |-> ExportReport(1)]

Init ==
    /\ backend \in Backends
    /\ verdict \in [1 .. 1 -> Verdicts]
    /\ exists = TRUE
    /\ doc = 1
    /\ top = 1
    /\ rows = [id \in Ids |-> NoRow]
    /\ files = [id \in Ids |-> NoFile]
    /\ exports = 0
    /\ req = [w \in Workers |-> Idle]
    /\ issued = 0
    /\ clock = 1
    /\ purged = FALSE
    /\ raced = {}
    /\ misled = {}
    /\ dropped = FALSE
    /\ ready = {}

-----------------------------------------------------------------------------
(* Steps shared by the handlers.                                           *)

At(w, pc, handlers) == req[w].pc = pc /\ req[w].handler \in handlers
Goto(w, q) == req' = [req EXCEPT ![w] = q]
Answer(w) == Goto(w, Idle)

\* Mutant of Record: the row is made before its file.
RecordRowOnly(w, written, content, q) ==
    /\ Goto(w, [q EXCEPT !.pc = "recorded"])
    /\ UNCHANGED <<registryVars, issued>>

\* store_artifact_file: the file is readable by every request from here on.
Record(w, written, content, q) ==
    /\ files' = [id \in Ids |-> IF id \in written THEN content ELSE files[id]]
    /\ Goto(w, [q EXCEPT !.pc = "recorded"])
    /\ UNCHANGED <<backend, verdict, exists, doc, top, rows, exports, issued>>

\* now(), taken when a report or bundle is recorded, not when it is committed.
Stamped(q) == [q EXCEPT !.at = clock]
Tick == clock' = clock + 1

\* Mutant of CommitRows: a metadata write numbers the document as an edit would.
CommitRowsNumbered(w, new) ==
    /\ exists
    /\ rows' = [id \in Ids |-> IF id \in DOMAIN new THEN new[id] ELSE rows[id]]
    /\ doc' = req[w].rev + 1
    /\ UNCHANGED <<backend, verdict, exists, top, files, issued, clock>>

\* Mutant of CommitRows: nothing ties the rows to the project's row.
CommitRowsOrphaned(w, new) ==
    /\ rows' = [id \in Ids |-> IF id \in DOMAIN new THEN new[id] ELSE rows[id]]
    /\ UNCHANGED <<backend, verdict, exists, doc, top, files, issued, clock>>

\* persist_project_metadata: the rows added to the session and the document as
\* this request loaded it, in one transaction.  The UPDATE of a deleted project
\* matches no row and the transaction fails.
CommitRows(w, new) ==
    /\ exists
    /\ rows' = [id \in Ids |-> IF id \in DOMAIN new THEN new[id] ELSE rows[id]]
    /\ doc' = req[w].rev
    /\ UNCHANGED <<backend, verdict, exists, top, files, issued, clock>>

-----------------------------------------------------------------------------
(* Requests.                                                               *)

LoadProject(w, h, c) ==
    /\ req[w].pc = "idle"
    /\ exists
    /\ issued < MaxRequests
    /\ h \in {"plate", "shell", "get_plate"} \/ c = DefaultConfig
    /\ issued' = issued + 1
    /\ Goto(w, [Idle EXCEPT !.pc = "loaded", !.handler = h, !.rev = doc, !.cfg = c])
    /\ UNCHANGED <<registryVars, clock, observed>>

\* Any handler that commits a revision, as one step: the snapshot's primary key
\* lets it through only when its document was the newest (module ProjectRevisions).
CommitEdit(v) ==
    /\ exists
    /\ doc = top
    /\ top < MaxRevision
    /\ top' = top + 1
    /\ doc' = top + 1
    /\ verdict' = [r \in 1 .. top + 1 |-> IF r = top + 1 THEN v ELSE verdict[r]]
    /\ UNCHANGED <<backend, exists, rows, files, exports, req, issued, clock, observed>>

\* The report's uuid is new: no other report has it.
Unused(n) ==
    /\ \A r \in Revisions : files[RunReport(r, n)] = NoFile /\ ~ rows[RunReport(r, n)].there
    /\ \A o \in Workers : At(o, "recorded", {"validate"}) => req[o].n # n

RunValidation(w) ==
    /\ At(w, "loaded", {"validate"})
    /\ \E n \in 1 .. MaxRequests :
        /\ Unused(n)
        /\ \A m \in 1 .. n - 1 : ~ Unused(m)
        /\ Record(w, {RunReport(req[w].rev, n)}, Plain, [Stamped(req[w]) EXCEPT !.n = n])
    /\ Tick
    /\ UNCHANGED observed

CommitValidation(w) ==
    /\ At(w, "recorded", {"validate"})
    /\ CommitRows(w, [id \in {RunReport(req[w].rev, req[w].n)} |-> Row(NoConfig, req[w].at)])
    /\ Answer(w)
    /\ UNCHANGED <<exports, observed>>

\* Mutants of MayExport: the limit compared with <=; the failed validation exported.
MayExportOneMore(q) == exports <= FreeExports /\ verdict[q.rev] # "fail"
MayExportFailed(q) == exports < FreeExports

\* usage_total and validate_project.
MayExport(q) == exports < FreeExports /\ verdict[q.rev] # "fail"

CheckExport(w) ==
    /\ At(w, "loaded", {"export"})
    /\ IF MayExport(req[w]) THEN Goto(w, [req[w] EXCEPT !.pc = "checked"]) ELSE Answer(w)
    /\ UNCHANGED <<registryVars, issued, clock, observed>>

ExportIds(q) == {ExportReport(q.rev), Bundle(q.rev)}

\* _replace_artifact_ids selects the rows of an earlier identical export and
\* deletes them; the report and the ZIP are written at the same paths.
BuildExport(w) ==
    /\ At(w, "checked", {"export"})
    /\ Record(w, ExportIds(req[w]), Plain,
              [Stamped(req[w]) EXCEPT !.seen = ExportIds(req[w]) \cap Registered])
    /\ Tick
    /\ UNCHANGED observed

\* The INSERT of an id that the select did not see hits the primary key.  The
\* report's row carries the project's creation time (_stable_export_created_at).
CommitExport(w) ==
    LET q == req[w]
    IN  /\ At(w, "recorded", {"export"})
        /\ ExportIds(q) \cap Registered \subseteq q.seen
        /\ CommitRows(w, [id \in ExportIds(q) |->
                              Row(NoConfig, IF id = Bundle(q.rev) THEN q.at ELSE 0)])
        /\ exports' = exports + 1
        /\ Answer(w)
        /\ UNCHANGED observed

-----------------------------------------------------------------------------
(* Mechanical artifacts.                                                   *)

CompileHandlers == {"plate", "shell", "get_plate", "get_shell"}

Compiled(q) ==
    IF q.handler \in {"plate", "get_plate"} THEN Panel(q.rev, q.cfg) ELSE Shell(q.rev)

\* Path(row.path).exists(): an object key is no path of the server's.
OnServer(id) == backend = "local" /\ files[id] # NoFile

\* Mutant of Usable: any configuration will do.
UsableAsIs(q) == rows[Compiled(q)].there /\ OnServer(Compiled(q))

\* The row found for a download can be served as it is.
Usable(q) ==
    LET id == Compiled(q)
    IN  rows[id].there /\ rows[id].cfg = q.cfg /\ OnServer(id)

\* Another request has written these files, and not answered yet.
InUse(w, id) ==
    \E o \in Workers \ {w} :
        At(o, "recorded", CompileHandlers) /\ Compiled(req[o]) = id

\* _compile_and_record_panel, _compile_and_record_shell, up to the commit; old is
\* the configuration in the row that upsert_artifact finds.
Compile(w) ==
    LET q == req[w]
        id == Compiled(q)
        shared == InUse(w, id)
                      \/ \E o \in Workers \ {w} :
                             At(o, "built", CompileHandlers) /\ Compiled(req[o]) = id
    IN  /\ At(w, "loaded", CompileHandlers)
        /\ q.handler \in {"get_plate", "get_shell"} => ~ Usable(q)
        /\ Record(w, {id}, q.cfg, [q EXCEPT !.old = rows[id].cfg])
        /\ UNCHANGED clock
        /\ raced' = IF id.kind = "shell" /\ shared THEN raced \cup {id.rev} ELSE raced
        /\ UNCHANGED <<purged, misled, dropped, ready>>

\* Mutant of WrittenConfig: a row that is there keeps its configuration.
WrittenOnce(q) == IF q.old # NoConfig THEN rows[Compiled(q)].cfg ELSE q.cfg

\* A row that was found is UPDATEd in the columns this session changed, so a
\* configuration that was the row's own is not written again.
WrittenConfig(q) == IF q.old = q.cfg THEN rows[Compiled(q)].cfg ELSE q.cfg

\* A row that was not found is INSERTed and collides with one committed since.  A
\* mechanical artifact has one row per revision (and configuration), so its time
\* decides nothing.
CommitCompile(w) ==
    LET q == req[w]
        id == Compiled(q)
    IN  /\ At(w, "recorded", CompileHandlers)
        /\ q.old = NoConfig => ~ rows[id].there
        /\ CommitRows(w, [i \in {id} |-> Row(WrittenConfig(q), 0)])
        /\ IF q.handler \in {"get_plate", "get_shell"}
           THEN Goto(w, [q EXCEPT !.pc = "built"])
           ELSE Answer(w)
        /\ UNCHANGED <<exports, observed>>

\* FileResponse of a mechanical artifact, found or just built; under R2 there is
\* never a file to respond with.
ServeMechanical(w) ==
    LET q == req[w]
        id == Compiled(q)
    IN  /\ \/ At(w, "loaded", {"get_plate", "get_shell"}) /\ Usable(q)
           \/ At(w, "built", CompileHandlers) /\ OnServer(id)
        /\ misled' = IF files[id] = q.cfg THEN misled ELSE misled \cup {id}
        /\ raced' = IF id.kind = "shell" /\ InUse(w, id) THEN raced \cup {id.rev} ELSE raced
        /\ Answer(w)
        /\ UNCHANGED <<registryVars, issued, clock, purged, dropped, ready>>

-----------------------------------------------------------------------------
(* Records.                                                                *)

\* download_project_artifact: the row and its file are looked up ...
FindArtifact(w, id) ==
    /\ At(w, "loaded", {"download"})
    /\ rows[id].there
    /\ files[id] # NoFile
    /\ Goto(w, [req[w] EXCEPT !.pc = "recorded", !.target = id])
    /\ UNCHANGED <<registryVars, issued, clock, observed>>

\* ... the download is counted (the event refers to the project's row) ...
CountDownload(w) ==
    /\ At(w, "recorded", {"download"})
    /\ exists
    /\ Goto(w, [req[w] EXCEPT !.pc = "built"])
    /\ UNCHANGED <<registryVars, issued, clock, observed>>

\* ... and then the file is opened.
SendArtifact(w) ==
    /\ At(w, "built", {"download"})
    /\ dropped' = (dropped \/ files[req[w].target] = NoFile)
    /\ Answer(w)
    /\ UNCHANGED <<registryVars, issued, clock, purged, raced, misled, ready>>

\* The rows of these ids that list_project_artifacts may put first: the newest
\* by created_at, in any order when they tie.
Newest(ids) ==
    {id \in ids \cap Registered :
        \A other \in ids \cap Registered : rows[other].at <= rows[id].at}

\* Mutant of GateStatus: a bundle of any revision counts.
GateStatusOfAny(rev, report, bundle, settled) ==
    IF report = {} \/ \E v \in report : v.rev # rev \/ verdict[v.rev] = "fail" THEN "blocked"
    ELSE IF (\A v \in report : verdict[v.rev] = "pass") /\ bundle # {} /\ settled
    THEN "export_ready" ELSE "review_ready"

\* build_quality_gate_summary for the document of revision rev, with the newest
\* report ("none" when its row or its file is missing) and the newest bundle.
\* settled: assets are accepted and no job is active.
GateStatus(rev, report, bundle, settled) ==
    IF report = {} \/ \E v \in report : v.rev # rev \/ verdict[v.rev] = "fail" THEN "blocked"
    ELSE IF /\ \A v \in report : verdict[v.rev] = "pass"
            /\ bundle # {} /\ \A b \in bundle : b.rev = rev
            /\ settled
    THEN "export_ready" ELSE "review_ready"

First(ids) == IF Newest(ids) = {} THEN {{}} ELSE {{id} : id \in Newest(ids)}

BuildQualityGate(w) ==
    LET q == req[w]
    IN  /\ At(w, "loaded", {"gate"})
        /\ \E report \in First(Reports), bundle \in First(BundleIds), settled \in BOOLEAN :
               LET readable == {v \in report : files[v] # NoFile}
               IN  ready' = IF GateStatus(q.rev, readable, bundle, settled) = "export_ready"
                            THEN ready \cup {q.rev} ELSE ready
        /\ Answer(w)
        /\ UNCHANGED <<registryVars, issued, clock, purged, raced, misled, dropped>>

-----------------------------------------------------------------------------
(* Deletion and failure.                                                   *)

\* delete_project marks the rows and removes the artifact tree ...
RemoveFiles(w) ==
    /\ At(w, "loaded", {"delete"})
    /\ files' = [id \in Ids |-> NoFile]
    /\ purged' = TRUE
    /\ Goto(w, [req[w] EXCEPT !.pc = "recorded"])
    /\ UNCHANGED <<backend, verdict, exists, doc, top, rows, exports, issued, clock,
                   raced, misled, dropped, ready>>

\* ... before it commits; the foreign keys cascade to what was added since.
CommitDelete(w) ==
    /\ At(w, "recorded", {"delete"})
    /\ exists
    /\ exists' = FALSE
    /\ rows' = [id \in Ids |-> NoRow]
    /\ exports' = 0
    /\ Answer(w)
    /\ UNCHANGED <<backend, verdict, doc, top, files, issued, clock, observed>>

\* A 4xx, a primary-key collision, an UPDATE that finds no row, a cancelled call, a
\* crash: the session rolls back and the files stay as they are.
Fail(w) ==
    LET id == Compiled(req[w])
    IN  /\ req[w].pc # "idle"
        /\ Answer(w)
        /\ raced' = IF At(w, "recorded", CompileHandlers) /\ id.kind = "shell"
                    THEN raced \cup {id.rev} ELSE raced
        /\ UNCHANGED <<registryVars, issued, clock, purged, misled, dropped, ready>>

Next ==
    \/ \E v \in Verdicts : CommitEdit(v)
    \/ \E w \in Workers :
        \/ \E h \in Handlers, c \in Configs : LoadProject(w, h, c)
        \/ RunValidation(w)
        \/ CommitValidation(w)
        \/ CheckExport(w)
        \/ BuildExport(w)
        \/ CommitExport(w)
        \/ Compile(w)
        \/ CommitCompile(w)
        \/ ServeMechanical(w)
        \/ \E id \in Ids : FindArtifact(w, id)
        \/ CountDownload(w)
        \/ SendArtifact(w)
        \/ BuildQualityGate(w)
        \/ RemoveFiles(w)
        \/ CommitDelete(w)
        \/ Fail(w)

Spec == Init /\ [][Next]_vars

-----------------------------------------------------------------------------
(* Properties.                                                             *)

PCs == {"idle", "loaded", "checked", "recorded", "built"}
Contents == Configs \cup {NoFile, Plain}
RowValues == [cfg : Configs \cup {NoConfig}, at : Nat, there : BOOLEAN]
RequestStates ==
    [pc : PCs, handler : Handlers, rev : Revisions, cfg : Configs, seen : SUBSET Ids,
     old : Configs \cup {NoConfig}, at : Nat, n : 1 .. MaxRequests, target : Ids]

\* Every variable has the shape its table, its store or its request gives it.
TypeOK ==
    /\ backend \in Backends
    /\ verdict \in [1 .. top -> Verdicts]
    /\ exists \in BOOLEAN
    /\ top \in Revisions
    /\ doc \in 1 .. top
    /\ rows \in [Ids -> RowValues]
    /\ files \in [Ids -> Contents]
    /\ exports \in Nat
    /\ req \in [Workers -> RequestStates]
    /\ issued \in 0 .. MaxRequests
    /\ clock \in Nat \ {0}
    /\ purged \in BOOLEAN
    /\ raced \subseteq Revisions
    /\ misled \subseteq Ids
    /\ dropped \in BOOLEAN
    /\ ready \subseteq Revisions

\* Until a deletion removes the tree, every row of project_artifacts names a file
\* that is there, and every download that was counted is sent: files are written
\* before their rows and never removed on their own (register_artifact, upsert_artifact).
FilesOutliveTheirRows ==
    ~ purged => ~ dropped /\ \A id \in Registered : files[id] # NoFile

\* A shell's row states the configuration its files were compiled with, unless a
\* compile of the same revision failed after writing or overlapped another use of
\* the files: neither the id nor the path carries the configuration.
ShellRowsDescribeTheirFiles ==
    \A r \in Revisions \ raced :
        (/\ rows[Shell(r)].there
         /\ files[Shell(r)] # NoFile
         /\ \A w \in Workers : ~ (At(w, "recorded", CompileHandlers) /\ Compiled(req[w]) = Shell(r)))
            => rows[Shell(r)].cfg = files[Shell(r)]

\* A mechanical download is a file compiled with the configuration asked for: for
\* panels in every interleaving, for shells while nothing overlapped them or failed.
MechanicalDownloadsAsAsked ==
    \A id \in misled : id.kind = "shell" /\ id.rev \in raced

\* The free export limit is overrun by at most one bundle per overlapping request:
\* export_project_bundle counts the usage events before it builds and adds its own
\* with its commit.
ExportsWithinQuota == exports <= FreeExports + Cardinality(Workers) - 1

\* A registered export bundle has its validation report registered beside it, and
\* its revision did not fail validation, whatever replaced or raced with it.
BundlesAreValidated ==
    \A r \in Revisions :
        rows[Bundle(r)].there => rows[ExportReport(r)].there /\ verdict[r] # "fail"

\* What the quality gate called export_ready has a bundle of that very revision and
\* passed validation, although it reads the project, the rows and the report's file
\* one after the other while requests commit in between.
ReadyMeansExported ==
    \A r \in ready : verdict[r] = "pass" /\ (exists => rows[Bundle(r)].there)

\* The registry implements its promise: outputs appear only while the project
\* exists, stay, come with their reports, and go together with the project.
Promise == INSTANCE DurableOutputs WITH
    Outputs <- Ids, Bundles <- BundleIds, ReportOf <- LAMBDA b : ExportReport(b.rev),
    alive <- exists, registered <- Registered

ImplementsDurableOutputs == Promise!Spec
=============================================================================
