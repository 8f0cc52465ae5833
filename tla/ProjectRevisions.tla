-------------------------- MODULE ProjectRevisions --------------------------
(***************************************************************************)
(* The requests that read and write one project document concurrently: the *)
(* PATCH, compile, validate, export and delete handlers of server/api,     *)
(* over the store of ProjectStore.                                         *)
(*                                                                         *)
(* A request is one HTTP call served by one database session.  It loads    *)
(* the row, possibly re-reads it, and commits; every `await` on the        *)
(* database between those steps lets other requests run, in this worker or *)
(* in another one.  A request runs once, so a set of N requests bounds     *)
(* every behaviour without any counter.                                    *)
(*                                                                         *)
(* The specification part of the document (layout, switch, name, style) is *)
(* abstracted to the sequence of the edits it contains, an edit being      *)
(* named by the request that made it: two contents are equal exactly when  *)
(* they come from the same edits.  A result derived from the specification *)
(* is abstracted to the revision it was computed for, 0 for none.          *)
(***************************************************************************)
EXTENDS ProjectStore, Sequences

CONSTANTS
    Requests,   \* the HTTP calls of a behaviour
    Handlers    \* the handlers they may call

UpdateHandlers   == {"patch_layout", "patch_name"}
MutationHandlers == UpdateHandlers \cup {"compile_pcb"}
MetadataHandlers == {"validate", "export", "compile_mechanical"}
AllHandlers      == MutationHandlers \cup MetadataHandlers \cup {"delete"}

ASSUME HandlersAssumption == Handlers \subseteq AllHandlers

VARIABLE req    \* [Requests -> [pc, handler, expected, loaded, project]]

vars == <<live, row, snapshots, req>>

Statuses == {"draft", "configured", "validated"}
PCs == {"idle", "loaded", "checked", "ok", "conflict", "failed"}
InFlight(r) == req[r].pc \in {"loaded", "checked"}

\* Mutant of NewProject: revisions numbered from 0.
NewProjectAtZero(status) ==
    [revision |-> 0, spec |-> <<>>, status |-> status,
     report |-> 0, bundle |-> 0, electronics |-> 0, mechanical |-> 0]

\* The document create_project builds.
NewProject(status) ==
    [revision |-> 1, spec |-> <<>>, status |-> status,
     report |-> 0, bundle |-> 0, electronics |-> 0, mechanical |-> 0]

\* The project as create_project leaves it: DRAFT, CONFIGURED from a template.
Init ==
    /\ \E status \in {"draft", "configured"} :
            CreateProjectRecord(NewProject(status))
    /\ req = [r \in Requests |->
                [pc |-> "idle", handler |-> "patch_name", expected |-> 0,
                 loaded |-> row, project |-> row.data]]

-----------------------------------------------------------------------------
(* What the handlers do to the document in memory.                         *)

\* Mutant of Invalidated: the mechanical result is left in place.
InvalidatedKeepsMechanical(project) ==
    [project EXCEPT !.status = "configured", !.report = 0, !.bundle = 0,
                    !.electronics = 0]

\* invalidate_derived_state
Invalidated(project) ==
    [project EXCEPT !.status = "configured", !.report = 0, !.bundle = 0,
                    !.electronics = 0, !.mechanical = 0]

\* The document a mutation commits, its revision not yet counted up.
Edited(r) ==
    LET p == [req[r].project EXCEPT !.spec = Append(@, r)]
    IN  CASE req[r].handler = "patch_name"   -> p
          [] req[r].handler = "patch_layout" -> Invalidated(p)
          [] OTHER -> [Invalidated(p) EXCEPT !.electronics = NextRevision(p)]

\* The document run_validation persists: checks that fail, or not.
Validated(project, verdict) ==
    [project EXCEPT !.report = project.revision,
                    !.status = IF verdict = "fail" THEN "configured"
                                                   ELSE "validated"]

\* The document export_project_bundle persists: only after checks that pass.
Exported(project) ==
    [project EXCEPT !.report = project.revision, !.bundle = project.revision,
                    !.status = "validated"]

\* The document _persist_mechanical_summary persists.
WithMechanical(project) == [project EXCEPT !.mechanical = project.revision]

-----------------------------------------------------------------------------
(* The steps of a request.                                                 *)

Answer(r, outcome) == req' = [req EXCEPT ![r].pc = outcome]

\* load_project_state at the head of every handler: 404, 409 or the document.
\* A client sends as expected_revision the number of a revision it has seen.
LoadProjectState(r, handler, expected) ==
    /\ req[r].pc = "idle"
    /\ expected \in {0} \cup DOMAIN snapshots
    /\ handler \notin UpdateHandlers => expected = 0
    /\ req' = [req EXCEPT ![r] =
                [pc |-> IF ~live THEN "failed"
                        ELSE IF RevisionAsExpected(expected, row)
                             THEN "loaded" ELSE "conflict",
                 handler |-> handler, expected |-> expected,
                 loaded |-> row, project |-> row.data]]
    /\ UNCHANGED storeVars

\* commit_project_mutation: db.refresh(row) and the second comparison, made only
\* for a caller that passed expected_revision.  The document loaded before stays.
RefreshAndCheck(r) ==
    /\ req[r].pc = "loaded"
    /\ req[r].handler \in MutationHandlers
    /\ req[r].expected # 0
    /\ req' = [req EXCEPT
                ![r].pc = IF ~live THEN "failed"
                          ELSE IF RevisionAsExpected(req[r].expected, row)
                               THEN "checked" ELSE "conflict",
                ![r].loaded = row]
    /\ UNCHANGED storeVars

ReadyToCommit(r) ==
    /\ req[r].handler \in MutationHandlers
    /\ \/ req[r].pc = "checked"
       \/ req[r].pc = "loaded" /\ req[r].expected = 0

\* update_project and compile_pcb_for_project: the edit, the next revision, the
\* row and the snapshot in one transaction ...
CommitEdit(r) ==
    /\ ReadyToCommit(r)
    /\ CommitProjectMutation(req[r].loaded, Edited(r))
    /\ Answer(r, "ok")

\* Mutant of CommitConflict: the IntegrityError is swallowed.
CommitConflictSwallowed(r) ==
    /\ ReadyToCommit(r)
    /\ MutationConflicts(Edited(r))
    /\ Answer(r, "ok")
    /\ UNCHANGED storeVars

\* ... or the unique constraint finds the revision taken.
CommitConflict(r) ==
    /\ ReadyToCommit(r)
    /\ MutationConflicts(Edited(r))
    /\ Answer(r, "conflict")
    /\ UNCHANGED storeVars

RunValidation(r, verdict) ==
    /\ req[r].pc = "loaded" /\ req[r].handler = "validate"
    /\ PersistProjectMetadata(req[r].loaded, Validated(req[r].project, verdict))
    /\ Answer(r, "ok")

ExportProjectBundle(r) ==
    /\ req[r].pc = "loaded" /\ req[r].handler = "export"
    /\ PersistProjectMetadata(req[r].loaded, Exported(req[r].project))
    /\ Answer(r, "ok")

CompileMechanical(r) ==
    /\ req[r].pc = "loaded" /\ req[r].handler = "compile_mechanical"
    /\ PersistProjectMetadata(req[r].loaded, WithMechanical(req[r].project))
    /\ Answer(r, "ok")

DeleteProject(r) ==
    /\ req[r].pc = "loaded" /\ req[r].handler = "delete"
    /\ DeleteProjectRecord
    /\ Answer(r, "ok")

\* A request that ends without a commit: a 400 (unsupported switch, no elements,
\* GPIO budget, failed checks), an UPDATE that finds the row deleted, a cancelled
\* call or a worker that stops.  The session rolls back.
Fail(r) ==
    /\ InFlight(r)
    /\ Answer(r, "failed")
    /\ UNCHANGED storeVars

Next ==
    \E r \in Requests :
        \/ \E h \in Handlers, e \in {0} \cup DOMAIN snapshots :
                LoadProjectState(r, h, e)
        \/ RefreshAndCheck(r)
        \/ CommitEdit(r)
        \/ CommitConflict(r)
        \/ \E verdict \in {"pass", "fail"} : RunValidation(r, verdict)
        \/ ExportProjectBundle(r)
        \/ CompileMechanical(r)
        \/ DeleteProject(r)
        \/ Fail(r)

Spec == Init /\ [][Next]_vars

-----------------------------------------------------------------------------
(* Properties.                                                             *)

Documents ==
    [revision : Nat \ {0}, spec : Seq(Requests), status : Statuses,
     report : Nat, bundle : Nat, electronics : Nat, mechanical : Nat]

Rows == [revision : Nat \ {0}, status : Statuses, data : Documents]

RequestStates == [pc : PCs, handler : AllHandlers, expected : Nat,
                  loaded : Rows, project : Documents]

\* Every variable has the shape its table, or its request, gives it.
TypeOK ==
    /\ live \in BOOLEAN
    /\ row \in Rows
    /\ DOMAIN snapshots \subseteq Nat \ {0}
    /\ snapshots \in [DOMAIN snapshots -> Documents]
    /\ req \in [Requests -> RequestStates]

\* project_revisions is a line: the entry of revision n says n, revision 1 has no
\* edit, and each further one is its predecessor with exactly one request's edit
\* added.  No interleaving of stale requests leaves a gap or drops an edit that
\* an earlier revision holds.
HistoryIsLinear ==
    \A n \in DOMAIN snapshots :
        /\ snapshots[n].revision = n
        /\ n = 1 => snapshots[n].spec = <<>>
        /\ n > 1 => /\ n - 1 \in DOMAIN snapshots
                    /\ \E r \in Requests :
                            snapshots[n].spec = Append(snapshots[n - 1].spec, r)

\* A document never carries one revision's number with another one's content,
\* however late a stale request writes it back.
MatchesItsSnapshot(doc) ==
    /\ doc.revision \in DOMAIN snapshots
    /\ doc.spec = snapshots[doc.revision].spec

RowMatchesItsSnapshot == live => MatchesItsSnapshot(row.data)

\* A spec edit answered with 200 is part of the revision history.
AcknowledgedEditsAreRecorded ==
    \A r \in Requests :
        live /\ req[r].pc = "ok" /\ req[r].handler \in MutationHandlers =>
            \E n \in DOMAIN snapshots :
                n > 1 /\ snapshots[n].spec = Append(snapshots[n - 1].spec, r)

\* Evidence computed for revision k still describes this document: no layout,
\* switch or matrix edit lies between k and the document's revision.
Covers(doc, k) ==
    k # 0 => /\ k <= doc.revision
             /\ \A i \in DOMAIN doc.spec :
                    i >= k => req[doc.spec[i]].handler = "patch_name"

EvidenceIsCurrentIn(doc) ==
    /\ Covers(doc, doc.report)
    /\ Covers(doc, doc.bundle)
    /\ Covers(doc, doc.electronics)
    /\ Covers(doc, doc.mechanical)
    /\ doc.status = "validated" => doc.report # 0

\* A validation report, export bundle, electronics or mechanical result that the
\* current row or any recorded revision refers to was computed for its content,
\* and a document marked validated names the report.
EvidenceIsCurrent ==
    live => /\ EvidenceIsCurrentIn(row.data)
            /\ \A n \in DOMAIN snapshots : EvidenceIsCurrentIn(snapshots[n])

\* No request ever rewrites or drops a recorded revision of a project that exists.
SnapshotsImmutable ==
    [][\A n \in DOMAIN snapshots :
          live' => n \in DOMAIN snapshots' /\ snapshots'[n] = snapshots[n]]_vars

\* The detailed store implements the abstract revision log.
History ==
    INSTANCE RevisionHistory
        WITH Edits <- Requests, open <- live,
             log <- [n \in DOMAIN snapshots |-> snapshots[n].spec]

ImplementsRevisionHistory == History!Spec

\* The row of `projects` is the latest revision, and its columns say so.
RowIsLatestRevision ==
    live => /\ row.revision = row.data.revision
            /\ row.status = row.data.status
            /\ NextRevision(row.data) \notin DOMAIN snapshots

\* Optimistic locking: an edit acknowledged under expected_revision e was built
\* on revision e, and on nothing the client had not seen.
ExpectedHonoured ==
    \A r \in Requests :
        LET e == req[r].expected
        IN  live /\ req[r].pc = "ok" /\ e # 0 =>
                /\ {e, e + 1} \subseteq DOMAIN snapshots
                /\ snapshots[e + 1].spec = Append(snapshots[e].spec, r)

\* No validation, export or mechanical result has been written yet.
OnlyEdits == \A r \in Requests : req[r].pc = "ok" => req[r].handler \notin MetadataHandlers

\* Edits, conflicts, failures and deletions alone, however they interleave, keep
\* the row at the latest revision ...
EditsKeepRowLatest == OnlyEdits => RowIsLatestRevision

\* ... and their optimistic lock exact: it takes a metadata write to undo either.
EditsKeepLock == OnlyEdits => ExpectedHonoured
=============================================================================
