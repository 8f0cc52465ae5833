---------------------------- MODULE ProjectStore ----------------------------
(***************************************************************************)
(* The persistence contract of server/services/project_state.py over the   *)
(* tables `projects` and `project_revisions`, for one project.             *)
(*                                                                         *)
(* The row of `projects` keeps the project three times over: the JSON      *)
(* column `data` (the canonical document) and, copied out of it, columns   *)
(* such as `revision` and `status`.  A request reads the row, builds a     *)
(* KeyboardProject from `data`, changes it in memory, and writes every     *)
(* column back.  SQLAlchemy's unit of work puts into the UPDATE only the   *)
(* columns whose new value differs from the one THIS session last read, so *)
(* a column another session changed meanwhile survives whenever this       *)
(* session leaves it as it had read it, while `data`, which carries        *)
(* updated_at and so always differs, is always written.                    *)
(*                                                                         *)
(* The database runs at READ COMMITTED: a SELECT sees the committed row, a *)
(* transaction takes effect at its commit, and the only constraint between *)
(* two sessions is UNIQUE (project_id, revision) on project_revisions.     *)
(***************************************************************************)
EXTENDS Naturals

VARIABLES
    live,       \* BOOLEAN: the row of `projects` exists (meaningless once deleted)
    row,        \* [revision, status, data]: the committed row
    snapshots   \* project_revisions: a function from revision to document

storeVars == <<live, row, snapshots>>

\* The row built for a document: create_project_record.
RowOf(project) ==
    [revision |-> project.revision, status |-> project.status, data |-> project]

\* The committed effect of create_project_record: a row and the snapshot of
\* its first revision, in one transaction.
CreateProjectRecord(project) ==
    /\ live = TRUE
    /\ row = RowOf(project)
    /\ snapshots = [n \in {project.revision} |-> project]

\* Mutant of SyncProjectRow: the document takes its number from the row's column.
SyncTakesRevisionFromRow(loaded, project) ==
    [revision |-> row.revision, status |-> project.status,
     data |-> [project EXCEPT !.revision = row.revision]]

\* Mutant of SyncProjectRow: the revision column is forgotten.
SyncForgetsRevision(loaded, project) ==
    [revision |-> row.revision, status |-> project.status, data |-> project]

\* The UPDATE that _sync_project_row causes in a session that last read the row
\* as `loaded`: unchanged columns stay out of it.
SyncProjectRow(loaded, project) ==
    [revision |-> IF project.revision # loaded.revision
                  THEN project.revision ELSE row.revision,
     status   |-> IF project.status # loaded.status
                  THEN project.status ELSE row.status,
     data     |-> project]

\* Mutant of RevisionAsExpected: expected_revision is accepted and ignored.
RevisionUnchecked(expected, current) == TRUE

\* The guard of load_project_state and of the re-check in commit_project_mutation;
\* 0 stands for expected_revision = None.
RevisionAsExpected(expected, current) ==
    expected # 0 => current.revision = expected

\* Mutant of NextRevision: counted from the row's column, not from the document.
NextRevisionOfRow(project) == row.revision + 1

\* The revision the next mutation of this document is given: it is counted from
\* the document, not from the row's column.
NextRevision(project) == project.revision + 1

\* Mutant of CommitProjectMutation: no unique constraint, the snapshot is replaced.
CommitReplacesSnapshot(loaded, project) ==
    LET new == [project EXCEPT !.revision = NextRevision(project)]
    IN  /\ live
        /\ row' = SyncProjectRow(loaded, new)
        /\ snapshots' = [n \in DOMAIN snapshots \cup {new.revision} |->
                            IF n = new.revision THEN new ELSE snapshots[n]]
        /\ UNCHANGED live

\* commit_project_mutation, the part after the re-check, when the unique
\* constraint lets it through: row and snapshot in one transaction.
CommitProjectMutation(loaded, project) ==
    LET new == [project EXCEPT !.revision = NextRevision(project)]
    IN  /\ live
        /\ new.revision \notin DOMAIN snapshots
        /\ row' = SyncProjectRow(loaded, new)
        /\ snapshots' = [n \in DOMAIN snapshots \cup {new.revision} |->
                            IF n = new.revision THEN new ELSE snapshots[n]]
        /\ UNCHANGED live

\* ... and when it does not: IntegrityError, rollback, 409.
MutationConflicts(project) ==
    live /\ NextRevision(project) \in DOMAIN snapshots

\* persist_project_metadata: no revision check and no snapshot.
PersistProjectMetadata(loaded, project) ==
    /\ live
    /\ row' = SyncProjectRow(loaded, project)
    /\ UNCHANGED <<live, snapshots>>

\* Mutant of DeleteProjectRecord: the revisions outlive the row.
DeleteKeepsSnapshots ==
    /\ live
    /\ live' = FALSE
    /\ UNCHANGED <<row, snapshots>>

\* The transaction of delete_project: the row and its revisions go together.
DeleteProjectRecord ==
    /\ live
    /\ live' = FALSE
    /\ snapshots' = [n \in {} |-> row.data]
    /\ UNCHANGED row
=============================================================================
