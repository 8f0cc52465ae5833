----------------------- MODULE ProjectRevisionsProofs -----------------------
(***************************************************************************)
(* Theorems of ProjectRevisions, for every set of requests and every       *)
(* choice of handlers.                                                     *)
(***************************************************************************)
EXTENDS ProjectRevisions, SequenceTheorems, TLAPS

-----------------------------------------------------------------------------
(* What the pieces of a step return.                                       *)

\* The document an edit commits is well formed, keeps the revision it was loaded
\* with and adds exactly this request to the loaded content.
LEMMA EditedDocument ==
    ASSUME TypeOK, NEW r \in Requests
    PROVE  /\ Edited(r) \in Documents
           /\ Edited(r).revision = req[r].project.revision
           /\ Edited(r).spec = Append(req[r].project.spec, r)
<1> DEFINE p == req[r].project
           q == [p EXCEPT !.spec = Append(@, r)]
<1>1. p \in Documents
  BY DEF TypeOK, RequestStates
<1>2. Append(p.spec, r) \in Seq(Requests)
  BY <1>1, AppendProperties DEF Documents
<1>3. q \in Documents /\ q.revision = p.revision /\ q.spec = Append(p.spec, r)
  BY <1>1, <1>2 DEF Documents
<1>4. NextRevision(q) \in Nat
  BY <1>3 DEF NextRevision, Documents
<1>5. /\ Invalidated(q) \in Documents
      /\ Invalidated(q).revision = p.revision
      /\ Invalidated(q).spec = Append(p.spec, r)
  BY <1>3 DEF Invalidated, Documents, Statuses
<1>6. [Invalidated(q) EXCEPT !.electronics = NextRevision(q)] \in Documents
  BY <1>4, <1>5 DEF Documents
<1>7. \/ Edited(r) = q
      \/ Edited(r) = Invalidated(q)
      \/ Edited(r) = [Invalidated(q) EXCEPT !.electronics = NextRevision(q)]
  BY DEF Edited
<1> HIDE DEF q
<1>8. \A d \in Documents : /\ [d EXCEPT !.electronics = NextRevision(q)].revision = d.revision
                           /\ [d EXCEPT !.electronics = NextRevision(q)].spec = d.spec
  BY DEF Documents
<1> QED
  BY <1>3, <1>5, <1>6, <1>7, <1>8

\* The documents the metadata handlers persist keep revision and content.
LEMMA MetadataDocuments ==
    ASSUME NEW p \in Documents, NEW verdict
    PROVE  /\ Validated(p, verdict) \in Documents
           /\ Validated(p, verdict).revision = p.revision
           /\ Validated(p, verdict).spec = p.spec
           /\ Exported(p) \in Documents
           /\ Exported(p).revision = p.revision
           /\ Exported(p).spec = p.spec
           /\ WithMechanical(p) \in Documents
           /\ WithMechanical(p).revision = p.revision
           /\ WithMechanical(p).spec = p.spec
  BY DEF Documents, Validated, Exported, WithMechanical, Statuses

\* Writing a well-formed document leaves a well-formed row that holds it.
LEMMA SyncedRow ==
    ASSUME row \in Rows, NEW loaded, NEW p \in Documents
    PROVE  /\ SyncProjectRow(loaded, p) \in Rows
           /\ SyncProjectRow(loaded, p).data = p
  BY DEF Rows, Documents, SyncProjectRow

-----------------------------------------------------------------------------
(* Type correctness.                                                       *)

LEMMA InitType == Init => TypeOK
<1> SUFFICES ASSUME Init PROVE TypeOK
  OBVIOUS
<1>1. PICK status \in {"draft", "configured"} : CreateProjectRecord(NewProject(status))
  BY DEF Init
<1>2. NewProject(status) \in Documents
  BY EmptySeq DEF NewProject, Documents, Statuses
<1>3. live \in BOOLEAN /\ row = RowOf(NewProject(status)) /\ row \in Rows
  BY <1>1, <1>2 DEF CreateProjectRecord, RowOf, Rows, Documents
<1>4. /\ DOMAIN snapshots \subseteq Nat \ {0}
      /\ snapshots \in [DOMAIN snapshots -> Documents]
  BY <1>1, <1>2 DEF CreateProjectRecord, Documents
<1>5. row.data \in Documents
  BY <1>3 DEF Rows
<1>6. req \in [Requests -> RequestStates]
  BY <1>3, <1>5 DEF Init, RequestStates, PCs, AllHandlers, MutationHandlers, UpdateHandlers
<1> QED
  BY <1>3, <1>4, <1>6 DEF TypeOK

\* An answer changes nothing but the request's program counter.
LEMMA AnswerType ==
    ASSUME TypeOK, NEW r \in Requests, NEW outcome \in PCs, Answer(r, outcome)
    PROVE  req' \in [Requests -> RequestStates]
  BY DEF TypeOK, Answer, RequestStates

\* A metadata write of a well-formed document keeps the store well formed.
LEMMA PersistType ==
    ASSUME TypeOK, NEW loaded, NEW p \in Documents,
           PersistProjectMetadata(loaded, p)
    PROVE  /\ live' \in BOOLEAN
           /\ row' \in Rows
           /\ DOMAIN snapshots' \subseteq Nat \ {0}
           /\ snapshots' \in [DOMAIN snapshots' -> Documents]
  BY SyncedRow DEF TypeOK, PersistProjectMetadata

\* A committed mutation keeps the store well formed.
LEMMA CommitType ==
    ASSUME TypeOK, NEW loaded, NEW p \in Documents,
           CommitProjectMutation(loaded, p)
    PROVE  /\ live' \in BOOLEAN
           /\ row' \in Rows
           /\ DOMAIN snapshots' \subseteq Nat \ {0}
           /\ snapshots' \in [DOMAIN snapshots' -> Documents]
<1> DEFINE new == [p EXCEPT !.revision = NextRevision(p)]
<1>1. new \in Documents /\ new.revision \in Nat \ {0}
  BY DEF Documents, NextRevision
<1> HIDE DEF new
<1>2. /\ row' = SyncProjectRow(loaded, new)
      /\ snapshots' = [n \in DOMAIN snapshots \cup {new.revision} |->
                            IF n = new.revision THEN new ELSE snapshots[n]]
      /\ live' = live
  BY DEF CommitProjectMutation, new
<1>3. row' \in Rows
  BY <1>1, <1>2, SyncedRow DEF TypeOK
<1> QED
  BY <1>1, <1>2, <1>3 DEF TypeOK

LEMMA NextType == TypeOK /\ [Next]_vars => TypeOK'
<1> SUFFICES ASSUME TypeOK, [Next]_vars PROVE TypeOK'
  OBVIOUS
<1>1. ASSUME NEW r \in Requests, NEW h \in Handlers, NEW e \in {0} \cup DOMAIN snapshots,
             LoadProjectState(r, h, e)
      PROVE  TypeOK'
  <2>1. h \in AllHandlers /\ e \in Nat
    BY HandlersAssumption DEF TypeOK
  <2>2. row.data \in Documents
    BY DEF TypeOK, Rows
  <2> QED
    BY <1>1, <2>1, <2>2 DEF LoadProjectState, TypeOK, RequestStates, storeVars, PCs
<1>2. ASSUME NEW r \in Requests, RefreshAndCheck(r)
      PROVE  TypeOK'
  <2>1. PICK outcome \in PCs :
            req' = [req EXCEPT ![r] = [req[r] EXCEPT !.pc = outcome, !.loaded = row]]
    BY <1>2 DEF RefreshAndCheck, PCs, TypeOK
  <2>2. [req[r] EXCEPT !.pc = outcome, !.loaded = row] \in RequestStates
    BY DEF TypeOK, RequestStates
  <2> QED
    BY <1>2, <2>1, <2>2 DEF RefreshAndCheck, TypeOK, storeVars
<1>3. ASSUME NEW r \in Requests, CommitEdit(r)
      PROVE  TypeOK'
  BY <1>3, EditedDocument, CommitType, AnswerType, "ok" \in PCs DEF CommitEdit, TypeOK, PCs
<1>4. ASSUME NEW r \in Requests, CommitConflict(r) \/ Fail(r)
      PROVE  TypeOK'
  <2>1. PICK outcome \in PCs : Answer(r, outcome)
    BY <1>4 DEF CommitConflict, Fail, PCs
  <2> QED
    BY <1>4, <2>1, AnswerType DEF CommitConflict, Fail, TypeOK, storeVars
<1>5. ASSUME NEW r \in Requests, NEW verdict, RunValidation(r, verdict)
      PROVE  TypeOK'
  <2>1. Validated(req[r].project, verdict) \in Documents
    BY MetadataDocuments DEF TypeOK, RequestStates
  <2> QED
    BY <1>5, <2>1, PersistType, AnswerType, "ok" \in PCs DEF RunValidation, TypeOK, PCs
<1>6. ASSUME NEW r \in Requests, ExportProjectBundle(r)
      PROVE  TypeOK'
  <2>1. Exported(req[r].project) \in Documents
    BY MetadataDocuments DEF TypeOK, RequestStates
  <2> QED
    BY <1>6, <2>1, PersistType, AnswerType, "ok" \in PCs DEF ExportProjectBundle, TypeOK, PCs
<1>7. ASSUME NEW r \in Requests, CompileMechanical(r)
      PROVE  TypeOK'
  <2>1. WithMechanical(req[r].project) \in Documents
    BY MetadataDocuments DEF TypeOK, RequestStates
  <2> QED
    BY <1>7, <2>1, PersistType, AnswerType, "ok" \in PCs DEF CompileMechanical, TypeOK, PCs
<1>8. ASSUME NEW r \in Requests, DeleteProject(r)
      PROVE  TypeOK'
  <2>1. req' \in [Requests -> RequestStates]
    BY <1>8, AnswerType, "ok" \in PCs DEF DeleteProject, PCs
  <2>2. /\ live' = FALSE
        /\ row' = row
        /\ snapshots' = [n \in {} |-> row.data]
    BY <1>8 DEF DeleteProject, DeleteProjectRecord
  <2> QED
    BY <2>1, <2>2 DEF TypeOK
<1>9. CASE UNCHANGED vars
  BY <1>9 DEF vars, TypeOK
<1> QED
  BY <1>1, <1>2, <1>3, <1>4, <1>5, <1>6, <1>7, <1>8, <1>9 DEF Next

\* The type invariant holds of every behaviour of the store.
THEOREM TypeCorrect == Spec => []TypeOK
  BY InitType, NextType, PTL DEF Spec

-----------------------------------------------------------------------------
(* The revision history.                                                   *)
(*                                                                         *)
(* HistoryIsLinear is not inductive by itself: a commit adds revision k+1  *)
(* for a document that was loaded when k was current and may be long stale.*)
(* What carries over is that any document, in the row or in the memory of  *)
(* a request, still matches the snapshot of the revision it names, since   *)
(* snapshots only grow: then k+1 either is taken, and the unique constraint*)
(* rejects it, or is the next one and extends exactly snapshot k.          *)

\* Every document a request still works on matches the snapshot it names.
InFlightMatchesItsSnapshot ==
    \A r \in Requests :
        live /\ InFlight(r) => MatchesItsSnapshot(req[r].project)

\* The inductive invariant behind the theorems on the history.
HistoryInv ==
    /\ TypeOK
    /\ HistoryIsLinear
    /\ RowMatchesItsSnapshot
    /\ InFlightMatchesItsSnapshot
    /\ AcknowledgedEditsAreRecorded

\* A committed edit adds the successor of the revision its document was loaded
\* at, built from that revision's content, and touches no other snapshot.
LEMMA CommitExtends ==
    ASSUME HistoryInv, NEW r \in Requests, CommitEdit(r),
           NEW k, k = req[r].project.revision
    PROVE  /\ live /\ live'
           /\ k \in Nat \ {0} /\ k \in DOMAIN snapshots
           /\ k + 1 \notin DOMAIN snapshots
           /\ DOMAIN snapshots' = DOMAIN snapshots \cup {k + 1}
           /\ \A n \in DOMAIN snapshots : snapshots'[n] = snapshots[n]
           /\ snapshots'[k + 1].revision = k + 1
           /\ snapshots'[k + 1].spec = Append(snapshots[k].spec, r)
           /\ row'.data = snapshots'[k + 1]
           /\ req' = [req EXCEPT ![r].pc = "ok"]
<1> DEFINE p == Edited(r)
           new == [p EXCEPT !.revision = NextRevision(p)]
<1>1. req[r] \in RequestStates /\ req[r].project \in Documents
  BY DEF HistoryInv, TypeOK, RequestStates
<1>2. /\ p \in Documents /\ p.revision = k
      /\ p.spec = Append(req[r].project.spec, r)
  BY EditedDocument DEF HistoryInv
<1> HIDE DEF p
<1>3. k \in Nat \ {0}
  BY <1>1 DEF Documents
<1>4. /\ new \in Documents /\ new.revision = k + 1
      /\ new.spec = Append(req[r].project.spec, r)
  <2>1. NextRevision(p) = k + 1 /\ k + 1 \in Nat \ {0}
    BY <1>2, <1>3 DEF NextRevision
  <2>2. \A d \in Documents, n \in Nat \ {0} :
            /\ [d EXCEPT !.revision = n] \in Documents
            /\ [d EXCEPT !.revision = n].revision = n
            /\ [d EXCEPT !.revision = n].spec = d.spec
    BY DEF Documents
  <2> QED
    BY <1>2, <2>1, <2>2
<1> HIDE DEF new
<1>5. /\ live /\ live' = live
      /\ new.revision \notin DOMAIN snapshots
      /\ row' = SyncProjectRow(req[r].loaded, new)
      /\ snapshots' = [n \in DOMAIN snapshots \cup {new.revision} |->
                            IF n = new.revision THEN new ELSE snapshots[n]]
  BY DEF CommitEdit, CommitProjectMutation, new, p
<1>6. InFlight(r)
  BY DEF CommitEdit, ReadyToCommit, InFlight
<1>7. k \in DOMAIN snapshots /\ req[r].project.spec = snapshots[k].spec
  BY <1>5, <1>6 DEF HistoryInv, InFlightMatchesItsSnapshot, MatchesItsSnapshot
<1>8. row'.data = new
  BY <1>4, <1>5, SyncedRow DEF HistoryInv, TypeOK
<1>9. req' = [req EXCEPT ![r].pc = "ok"]
  BY DEF CommitEdit, Answer
<1> QED
  BY <1>3, <1>4, <1>5, <1>7, <1>8, <1>9

\* The invariant holds of the created project.
LEMMA InitHistory == Init => HistoryInv
<1> SUFFICES ASSUME Init PROVE HistoryInv
  OBVIOUS
<1>1. TypeOK
  BY InitType
<1>2. PICK status \in {"draft", "configured"} : CreateProjectRecord(NewProject(status))
  BY DEF Init
<1>3. /\ DOMAIN snapshots = {1}
      /\ snapshots[1] = NewProject(status)
      /\ row.data = NewProject(status)
      /\ NewProject(status).revision = 1 /\ NewProject(status).spec = <<>>
  BY <1>2 DEF CreateProjectRecord, RowOf, NewProject
<1>4. \A r \in Requests : req[r].pc = "idle"
  BY DEF Init
<1> QED
  BY <1>1, <1>3, <1>4 DEF HistoryInv, HistoryIsLinear, RowMatchesItsSnapshot,
     MatchesItsSnapshot, InFlightMatchesItsSnapshot, InFlight,
     AcknowledgedEditsAreRecorded

\* A step that leaves the snapshots alone, and puts into the row or a request
\* only documents that match theirs, keeps the invariant.
LEMMA QuietStep ==
    ASSUME HistoryInv, TypeOK', UNCHANGED <<live, snapshots>>,
           NEW r \in Requests,
           \A q \in Requests \ {r} : req'[q] = req[q],
           live => row'.data.revision \in DOMAIN snapshots
                   /\ row'.data.spec = snapshots[row'.data.revision].spec,
           live /\ InFlight(r)' =>
                      req'[r].project.revision \in DOMAIN snapshots
                   /\ req'[r].project.spec = snapshots[req'[r].project.revision].spec,
           req'[r].pc = "ok" => req'[r].handler \notin MutationHandlers
    PROVE  HistoryInv'
<1>1. HistoryIsLinear'
  BY DEF HistoryInv, HistoryIsLinear
<1>2. RowMatchesItsSnapshot'
  BY DEF RowMatchesItsSnapshot, MatchesItsSnapshot
<1>3. InFlightMatchesItsSnapshot'
  BY DEF HistoryInv, InFlightMatchesItsSnapshot, MatchesItsSnapshot, InFlight
<1>4. AcknowledgedEditsAreRecorded'
  BY DEF HistoryInv, AcknowledgedEditsAreRecorded
<1> QED
  BY <1>1, <1>2, <1>3, <1>4 DEF HistoryInv

\* A committed edit keeps the invariant.
LEMMA CommitKeepsHistory ==
    ASSUME HistoryInv, TypeOK', NEW r \in Requests, CommitEdit(r)
    PROVE  HistoryInv'
<1> DEFINE k == req[r].project.revision
<1>1. /\ live /\ live'
      /\ k \in Nat \ {0} /\ k \in DOMAIN snapshots
      /\ k + 1 \notin DOMAIN snapshots
      /\ DOMAIN snapshots' = DOMAIN snapshots \cup {k + 1}
      /\ \A n \in DOMAIN snapshots : snapshots'[n] = snapshots[n]
      /\ snapshots'[k + 1].revision = k + 1
      /\ snapshots'[k + 1].spec = Append(snapshots[k].spec, r)
      /\ row'.data = snapshots'[k + 1]
      /\ req' = [req EXCEPT ![r].pc = "ok"]
  BY CommitExtends
<1> HIDE DEF k
<1>2. DOMAIN snapshots \subseteq Nat \ {0}
  BY DEF HistoryInv, TypeOK
<1>3. HistoryIsLinear'
  <2> SUFFICES ASSUME NEW n \in DOMAIN snapshots'
               PROVE  /\ snapshots'[n].revision = n
                      /\ n = 1 => snapshots'[n].spec = <<>>
                      /\ n > 1 => /\ n - 1 \in DOMAIN snapshots'
                                  /\ \E q \in Requests :
                                       snapshots'[n].spec = Append(snapshots'[n - 1].spec, q)
    BY DEF HistoryIsLinear
  <2>1. CASE n = k + 1
    <3>1. n # 1 /\ n - 1 = k
      BY <1>1, <2>1
    <3> QED
      BY <1>1, <2>1, <3>1
  <2>2. CASE n \in DOMAIN snapshots
    <3>1. /\ snapshots[n].revision = n
          /\ n = 1 => snapshots[n].spec = <<>>
          /\ n > 1 => /\ n - 1 \in DOMAIN snapshots
                      /\ \E q \in Requests :
                            snapshots[n].spec = Append(snapshots[n - 1].spec, q)
      BY <2>2 DEF HistoryInv, HistoryIsLinear
    <3> QED
      BY <1>1, <2>2, <3>1
  <2> QED
    BY <1>1, <2>1, <2>2
<1>4. RowMatchesItsSnapshot'
  BY <1>1 DEF RowMatchesItsSnapshot, MatchesItsSnapshot
<1>5. InFlightMatchesItsSnapshot'
  <2> SUFFICES ASSUME NEW q \in Requests, InFlight(q)'
               PROVE  /\ req'[q].project.revision \in DOMAIN snapshots'
                      /\ req'[q].project.spec = snapshots'[req'[q].project.revision].spec
    BY DEF InFlightMatchesItsSnapshot, MatchesItsSnapshot
  <2>1. req'[q].project = req[q].project /\ InFlight(q)
    BY <1>1 DEF InFlight, HistoryInv, TypeOK, RequestStates
  <2> QED
    BY <1>1, <2>1 DEF HistoryInv, InFlightMatchesItsSnapshot, MatchesItsSnapshot
<1>6. AcknowledgedEditsAreRecorded'
  <2> SUFFICES ASSUME NEW q \in Requests, req'[q].pc = "ok",
                      req'[q].handler \in MutationHandlers
               PROVE  \E n \in DOMAIN snapshots' :
                        n > 1 /\ snapshots'[n].spec = Append(snapshots'[n - 1].spec, q)
    BY DEF AcknowledgedEditsAreRecorded
  <2>1. CASE q = r
    <3>1. k + 1 > 1 /\ (k + 1) - 1 = k
      BY <1>1
    <3> QED
      BY <1>1, <2>1, <3>1
  <2>2. CASE q # r
    <3>1. req'[q] = req[q]
      BY <1>1, <2>2 DEF HistoryInv, TypeOK
    <3>2. PICK n \in DOMAIN snapshots :
             n > 1 /\ snapshots[n].spec = Append(snapshots[n - 1].spec, q)
      BY <1>1, <3>1 DEF HistoryInv, AcknowledgedEditsAreRecorded
    <3>3. n - 1 \in DOMAIN snapshots
      BY <3>2 DEF HistoryInv, HistoryIsLinear
    <3> QED
      BY <1>1, <3>2, <3>3
  <2> QED
    BY <2>1, <2>2
<1> QED
  BY <1>3, <1>4, <1>5, <1>6 DEF HistoryInv

\* A metadata write keeps the invariant: it may bring back an old revision's
\* document, but that document still matches its own snapshot.
LEMMA PersistKeepsHistory ==
    ASSUME HistoryInv, TypeOK', NEW r \in Requests, NEW p \in Documents,
           InFlight(r), req[r].handler \notin MutationHandlers,
           p.revision = req[r].project.revision, p.spec = req[r].project.spec,
           PersistProjectMetadata(req[r].loaded, p), Answer(r, "ok")
    PROVE  HistoryInv'
<1>1. live /\ UNCHANGED <<live, snapshots>> /\ row'.data = p
  BY SyncedRow DEF PersistProjectMetadata, HistoryInv, TypeOK
<1>2. /\ \A q \in Requests \ {r} : req'[q] = req[q]
      /\ req'[r].pc = "ok" /\ req'[r].handler = req[r].handler
  BY DEF Answer, HistoryInv, TypeOK, RequestStates
<1>3. /\ p.revision \in DOMAIN snapshots
      /\ p.spec = snapshots[p.revision].spec
  BY <1>1 DEF HistoryInv, InFlightMatchesItsSnapshot, MatchesItsSnapshot
<1> QED
  BY <1>1, <1>2, <1>3, QuietStep DEF InFlight

\* Every step keeps the invariant.
LEMMA NextHistory == HistoryInv /\ [Next]_vars => HistoryInv'
<1> SUFFICES ASSUME HistoryInv, [Next]_vars PROVE HistoryInv'
  OBVIOUS
<1>0. TypeOK /\ TypeOK'
  BY NextType DEF HistoryInv
<1>t. \A q \in Requests : req[q].project \in Documents
  BY <1>0 DEF TypeOK, RequestStates
<1>1. ASSUME NEW r \in Requests, NEW h \in Handlers, NEW e \in {0} \cup DOMAIN snapshots,
             LoadProjectState(r, h, e)
      PROVE  HistoryInv'
  <2>1. /\ UNCHANGED storeVars
        /\ \A q \in Requests \ {r} : req'[q] = req[q]
        /\ req'[r].project = row.data
        /\ req'[r].pc # "ok"
    BY <1>0, <1>1 DEF LoadProjectState, TypeOK
  <2>2. live => /\ row.data.revision \in DOMAIN snapshots
                /\ row.data.spec = snapshots[row.data.revision].spec
    BY DEF HistoryInv, RowMatchesItsSnapshot, MatchesItsSnapshot
  <2> QED
    BY <1>0, <2>1, <2>2, QuietStep DEF storeVars
<1>2. ASSUME NEW r \in Requests, RefreshAndCheck(r) \/ CommitConflict(r) \/ Fail(r)
      PROVE  HistoryInv'
  <2>1. /\ UNCHANGED storeVars /\ InFlight(r)
        /\ \A q \in Requests \ {r} : req'[q] = req[q]
        /\ req'[r].project = req[r].project
        /\ req'[r].pc # "ok"
    BY <1>0, <1>2 DEF RefreshAndCheck, CommitConflict, ReadyToCommit, Fail, Answer,
       InFlight, TypeOK, RequestStates
  <2>2. /\ live => /\ row.data.revision \in DOMAIN snapshots
                   /\ row.data.spec = snapshots[row.data.revision].spec
        /\ live => /\ req[r].project.revision \in DOMAIN snapshots
                   /\ req[r].project.spec = snapshots[req[r].project.revision].spec
    BY <2>1 DEF HistoryInv, RowMatchesItsSnapshot, InFlightMatchesItsSnapshot,
       MatchesItsSnapshot
  <2> QED
    BY <1>0, <2>1, <2>2, QuietStep DEF storeVars
<1>3. ASSUME NEW r \in Requests, CommitEdit(r)
      PROVE  HistoryInv'
  BY <1>0, <1>3, CommitKeepsHistory
<1>4. ASSUME NEW r \in Requests, NEW verdict, RunValidation(r, verdict)
      PROVE  HistoryInv'
  BY <1>0, <1>t, <1>4, MetadataDocuments, PersistKeepsHistory
     DEF RunValidation, InFlight, MutationHandlers, UpdateHandlers
<1>5. ASSUME NEW r \in Requests, ExportProjectBundle(r)
      PROVE  HistoryInv'
  BY <1>0, <1>t, <1>5, MetadataDocuments, PersistKeepsHistory
     DEF ExportProjectBundle, InFlight, MutationHandlers, UpdateHandlers
<1>6. ASSUME NEW r \in Requests, CompileMechanical(r)
      PROVE  HistoryInv'
  BY <1>0, <1>t, <1>6, MetadataDocuments, PersistKeepsHistory
     DEF CompileMechanical, InFlight, MutationHandlers, UpdateHandlers
<1>7. ASSUME NEW r \in Requests, DeleteProject(r)
      PROVE  HistoryInv'
  <2>1. ~live' /\ DOMAIN snapshots' = {}
    BY <1>7 DEF DeleteProject, DeleteProjectRecord
  <2> QED
    BY <1>0, <2>1 DEF HistoryInv, HistoryIsLinear, RowMatchesItsSnapshot,
       InFlightMatchesItsSnapshot, AcknowledgedEditsAreRecorded
<1>8. CASE UNCHANGED vars
  BY <1>8, <1>0 DEF vars, HistoryInv, HistoryIsLinear, RowMatchesItsSnapshot,
     InFlightMatchesItsSnapshot, AcknowledgedEditsAreRecorded, MatchesItsSnapshot, InFlight
<1> QED
  BY <1>1, <1>2, <1>3, <1>4, <1>5, <1>6, <1>7, <1>8 DEF Next

LEMMA HistoryInvariant == Spec => []HistoryInv
  BY InitHistory, NextHistory, PTL DEF Spec

\* The recorded revisions form a gapless line of single edits.
THEOREM LinearHistory == Spec => []HistoryIsLinear
<1>1. HistoryInv => HistoryIsLinear
  BY DEF HistoryInv
<1> QED
  BY <1>1, HistoryInvariant, PTL

\* The canonical row always shows the content of the revision it names.
THEOREM RowContent == Spec => []RowMatchesItsSnapshot
<1>1. HistoryInv => RowMatchesItsSnapshot
  BY DEF HistoryInv
<1> QED
  BY <1>1, HistoryInvariant, PTL

\* An edit answered with 200 is in the recorded history.
THEOREM AcknowledgedEdits == Spec => []AcknowledgedEditsAreRecorded
<1>1. HistoryInv => AcknowledgedEditsAreRecorded
  BY DEF HistoryInv
<1> QED
  BY <1>1, HistoryInvariant, PTL

-----------------------------------------------------------------------------
(* Steps: snapshots are immutable, and the store implements the log.       *)

\* A recorded revision stays what it is as long as the project exists.
THEOREM ImmutableSnapshots == Spec => SnapshotsImmutable
<1> DEFINE Kept == \A n \in DOMAIN snapshots :
                live' => n \in DOMAIN snapshots' /\ snapshots'[n] = snapshots[n]
<1>1. HistoryInv /\ [Next]_vars => [Kept]_vars
  <2> SUFFICES ASSUME HistoryInv, Next PROVE Kept
    OBVIOUS
  <2>1. ASSUME NEW r \in Requests, CommitEdit(r)
        PROVE  Kept
    BY <2>1, CommitExtends
  <2>2. ASSUME NEW r \in Requests, DeleteProject(r)
        PROVE  Kept
    BY <2>2 DEF DeleteProject, DeleteProjectRecord
  <2>3. CASE UNCHANGED snapshots
    BY <2>3
  <2> QED
    BY <2>1, <2>2, <2>3 DEF Next, LoadProjectState, RefreshAndCheck, CommitConflict,
       RunValidation, ExportProjectBundle, CompileMechanical, Fail,
       PersistProjectMetadata, storeVars
<1> QED
  BY <1>1, HistoryInvariant, PTL DEF Spec, SnapshotsImmutable

\* Seen through its snapshots, the store is the abstract revision log: it starts
\* as one, and each of its steps extends or removes the log or leaves it alone.
THEOREM Implementation == Spec => ImplementsRevisionHistory
<1> DEFINE lg == [n \in DOMAIN snapshots |-> snapshots[n].spec]
<1>1. Init => History!Init
  <2> SUFFICES ASSUME Init PROVE History!Init
    OBVIOUS
  <2>1. PICK status \in {"draft", "configured"} : CreateProjectRecord(NewProject(status))
    BY DEF Init
  <2>2. /\ live = TRUE /\ DOMAIN snapshots = {1}
        /\ snapshots[1].spec = <<>>
    BY <2>1 DEF CreateProjectRecord, NewProject
  <2> QED
    BY <2>2 DEF History!Init
<1>2. HistoryInv /\ [Next]_vars => [History!Next]_<<live, lg>>
  <2> SUFFICES ASSUME HistoryInv, [Next]_vars
               PROVE  History!Next \/ UNCHANGED <<live, lg>>
    OBVIOUS
  <2>1. ASSUME NEW r \in Requests, CommitEdit(r)
        PROVE  History!Next
    <3> DEFINE k == req[r].project.revision
    <3>1. /\ live /\ live'
          /\ k \in Nat \ {0} /\ k \in DOMAIN snapshots
          /\ k + 1 \notin DOMAIN snapshots
          /\ DOMAIN snapshots' = DOMAIN snapshots \cup {k + 1}
          /\ \A n \in DOMAIN snapshots : snapshots'[n] = snapshots[n]
          /\ snapshots'[k + 1].spec = Append(snapshots[k].spec, r)
      BY <2>1, CommitExtends
    <3> HIDE DEF k
    <3>2. live \in BOOLEAN /\ live' \in BOOLEAN
      BY NextType DEF HistoryInv, TypeOK
    <3>3. lg' = [m \in DOMAIN lg \cup {k + 1} |->
                    IF m = k + 1 THEN Append(lg[k], r) ELSE lg[m]]
      BY <3>1
    <3>4. History!Extend(k, r)
      BY <3>1, <3>2, <3>3 DEF History!Extend
    <3> QED
      BY <3>1, <3>4 DEF History!Next
  <2>2. ASSUME NEW r \in Requests, DeleteProject(r)
        PROVE  History!Next
    <3>1. /\ live /\ live' = FALSE
          /\ lg' = [n \in {} |-> <<>>]
      BY <2>2 DEF DeleteProject, DeleteProjectRecord
    <3> QED
      BY <3>1 DEF History!Next, History!Remove
  <2>3. CASE UNCHANGED <<live, snapshots>>
    BY <2>3
  <2> QED
    BY <2>1, <2>2, <2>3 DEF Next, vars, LoadProjectState, RefreshAndCheck,
       CommitConflict, RunValidation, ExportProjectBundle, CompileMechanical, Fail,
       PersistProjectMetadata, storeVars
<1> QED
  BY <1>1, <1>2, HistoryInvariant, PTL
     DEF Spec, ImplementsRevisionHistory, History!Spec, History!historyVars

-----------------------------------------------------------------------------
(* Optimistic locking: as long as no metadata write has completed, the row  *)
(* is the latest revision and every edit was made on the revision its       *)
(* client named.                                                            *)

\* A request in flight holds the row as one commit left it, with the revision its
\* client expects, and the row itself unless a later revision was committed.
HoldsARevision(r) ==
    /\ req[r].loaded = RowOf(req[r].project)
    /\ req[r].expected # 0 => req[r].expected = req[r].project.revision
    /\ req[r].project.revision = row.data.revision => req[r].project = row.data

\* The strengthening of the two properties: revisions are numbered without a gap
\* up to the row's, and every request in flight holds a revision.
LockInv ==
    OnlyEdits /\ live =>
        /\ DOMAIN snapshots = 1..row.data.revision
        /\ row = RowOf(row.data)
        /\ \A r \in Requests : InFlight(r) => HoldsARevision(r)
        /\ ExpectedHonoured

\* A step leaves OnlyEdits and live only in one direction.
LEMMA OnlyEditsStable ==
    ASSUME TypeOK, [Next]_vars, OnlyEdits', live'
    PROVE  OnlyEdits /\ live
<1>1. ASSUME NEW r \in Requests, req[r].pc = "ok"
      PROVE  req'[r] = req[r]
  BY <1>1 DEF Next, vars, TypeOK, RequestStates, LoadProjectState, RefreshAndCheck, CommitEdit,
     ReadyToCommit, CommitConflict, RunValidation, ExportProjectBundle,
     CompileMechanical, DeleteProject, Fail, InFlight, Answer
<1>2. OnlyEdits
  BY <1>1 DEF OnlyEdits
<1>3. live
  BY DEF Next, vars, storeVars, LoadProjectState, RefreshAndCheck, CommitEdit, CommitConflict,
     RunValidation, ExportProjectBundle, CompileMechanical, DeleteProject, Fail,
     CommitProjectMutation, PersistProjectMetadata, DeleteProjectRecord
<1> QED
  BY <1>2, <1>3

\* A step of one request that writes nothing keeps the invariant, if the request
\* then holds a revision and was not answered with 200.
LEMMA ReadingStep ==
    ASSUME LockInv, OnlyEdits, live, UNCHANGED storeVars,
           NEW r \in Requests,
           \A q \in Requests \ {r} : req'[q] = req[q],
           InFlight(r)' => HoldsARevision(r)',
           req'[r].pc # "ok"
    PROVE  LockInv'
<1>1. \A q \in Requests : InFlight(q)' => HoldsARevision(q)'
  BY DEF LockInv, storeVars, InFlight, HoldsARevision
<1>2. ExpectedHonoured'
  BY DEF LockInv, ExpectedHonoured, storeVars
<1> QED
  BY <1>1, <1>2 DEF LockInv, storeVars, RowOf

\* A committed edit keeps the invariant: only a request that holds the row can
\* commit, and its write brings every column to the new revision.
LEMMA CommitKeepsLock ==
    ASSUME HistoryInv, HistoryInv', LockInv, OnlyEdits, NEW r \in Requests, CommitEdit(r)
    PROVE  LockInv'
<1> DEFINE k == req[r].project.revision
           new == [Edited(r) EXCEPT !.revision = NextRevision(Edited(r))]
<1>1. /\ live /\ live'
      /\ k \in Nat \ {0} /\ k \in DOMAIN snapshots
      /\ k + 1 \notin DOMAIN snapshots
      /\ DOMAIN snapshots' = DOMAIN snapshots \cup {k + 1}
      /\ \A n \in DOMAIN snapshots : snapshots'[n] = snapshots[n]
      /\ snapshots'[k + 1].revision = k + 1
      /\ snapshots'[k + 1].spec = Append(snapshots[k].spec, r)
      /\ row'.data = snapshots'[k + 1]
      /\ req' = [req EXCEPT ![r].pc = "ok"]
  BY CommitExtends
<1>2. /\ InFlight(r) /\ row'.data = new /\ row' = SyncProjectRow(req[r].loaded, new)
  <2>1. Edited(r) \in Documents
    BY EditedDocument DEF HistoryInv
  <2>2. new \in Documents
    BY <2>1 DEF Documents, NextRevision
  <2>3. row' = SyncProjectRow(req[r].loaded, new)
    BY DEF CommitEdit, CommitProjectMutation
  <2>4. InFlight(r)
    BY DEF CommitEdit, ReadyToCommit, InFlight
  <2> HIDE DEF new
  <2> QED
    BY <2>2, <2>3, <2>4, SyncedRow DEF HistoryInv, TypeOK
<1>3. new.revision = k + 1
  BY <1>1, <1>2
<1> HIDE DEF new
<1>4. /\ DOMAIN snapshots = 1..row.data.revision /\ row.data.revision \in Nat
      /\ row = RowOf(row.data) /\ HoldsARevision(r)
  BY <1>1, <1>2 DEF LockInv, HistoryInv, TypeOK, Rows, Documents
<1>5. k = row.data.revision /\ req[r].project = row.data /\ req[r].loaded = row
  <2>1. \A m \in Nat : \A j \in 1..m : j + 1 \notin 1..m => j = m
    OBVIOUS
  <2>2. k = row.data.revision
    BY <1>1, <1>4, <2>1
  <2> QED
    BY <1>4, <2>2 DEF HoldsARevision
<1>6. DOMAIN snapshots' = 1..row'.data.revision
  BY <1>1, <1>2, <1>3, <1>4, <1>5
<1>7. row' = RowOf(row'.data)
  <2>1. row.revision = k /\ req[r].loaded.revision = k /\ req[r].loaded.status = row.status
    BY <1>4, <1>5 DEF RowOf
  <2> QED
    BY <1>1, <1>2, <1>3, <2>1 DEF SyncProjectRow, RowOf
<1>8. ASSUME NEW q \in Requests, InFlight(q)'
      PROVE  HoldsARevision(q)'
  <2>1. q # r /\ req'[q] = req[q] /\ InFlight(q)
    BY <1>1, <1>8 DEF InFlight, HistoryInv, TypeOK, RequestStates
  <2>2. req[q].project.revision \in DOMAIN snapshots /\ HoldsARevision(q)
    BY <1>1, <2>1 DEF HistoryInv, InFlightMatchesItsSnapshot, MatchesItsSnapshot, LockInv
  <2>3. req[q].project.revision # row'.data.revision
    BY <1>1, <1>2, <1>3, <2>2
  <2> QED
    BY <2>1, <2>2, <2>3 DEF HoldsARevision
<1>9. ASSUME NEW q \in Requests, req'[q].pc = "ok", req'[q].expected # 0
      PROVE  /\ {req'[q].expected, req'[q].expected + 1} \subseteq DOMAIN snapshots'
             /\ snapshots'[req'[q].expected + 1].spec =
                    Append(snapshots'[req'[q].expected].spec, q)
  <2>1. CASE q = r
    <3>1. req'[r].expected = k
      BY <1>1, <1>4, <1>9, <2>1 DEF HoldsARevision, HistoryInv, TypeOK, RequestStates
    <3> QED
      BY <1>1, <2>1, <3>1
  <2>2. CASE q # r
    <3>1. req'[q] = req[q]
      BY <1>1, <2>2 DEF HistoryInv, TypeOK
    <3>2. /\ {req[q].expected, req[q].expected + 1} \subseteq DOMAIN snapshots
          /\ snapshots[req[q].expected + 1].spec = Append(snapshots[req[q].expected].spec, q)
      BY <1>1, <1>9, <3>1 DEF LockInv, ExpectedHonoured
    <3> QED
      BY <1>1, <3>1, <3>2
  <2> QED
    BY <2>1, <2>2
<1> QED
  BY <1>6, <1>7, <1>8, <1>9 DEF LockInv, ExpectedHonoured

LEMMA InitLock == Init => LockInv
<1> SUFFICES ASSUME Init PROVE LockInv
  OBVIOUS
<1>1. PICK status \in {"draft", "configured"} : CreateProjectRecord(NewProject(status))
  BY DEF Init
<1>2. row = RowOf(NewProject(status)) /\ DOMAIN snapshots = {1} /\ row.data.revision = 1
  BY <1>1 DEF CreateProjectRecord, RowOf, NewProject
<1>3. row = RowOf(row.data)
  BY <1>2 DEF RowOf
<1>4. \A r \in Requests : req[r].pc = "idle"
  BY DEF Init
<1> QED
  BY <1>2, <1>3, <1>4 DEF LockInv, InFlight, ExpectedHonoured

LEMMA NextLock == HistoryInv /\ LockInv /\ [Next]_vars => LockInv'
<1> SUFFICES ASSUME HistoryInv, LockInv, [Next]_vars, OnlyEdits', live' PROVE LockInv'
  BY DEF LockInv
<1>0. TypeOK /\ HistoryInv' /\ OnlyEdits /\ live
  BY NextHistory, OnlyEditsStable DEF HistoryInv
<1>1. ASSUME NEW r \in Requests, NEW h \in Handlers, NEW e \in {0} \cup DOMAIN snapshots,
             LoadProjectState(r, h, e)
      PROVE  LockInv'
  <2>1. /\ UNCHANGED storeVars
        /\ \A q \in Requests \ {r} : req'[q] = req[q]
        /\ req'[r].pc # "ok" /\ req'[r].project = row.data /\ req'[r].loaded = row
        /\ req'[r].expected = e
        /\ InFlight(r)' => RevisionAsExpected(e, row)
    BY <1>0, <1>1 DEF LoadProjectState, TypeOK, InFlight
  <2>2. row = RowOf(row.data) /\ row.revision = row.data.revision
    BY <1>0 DEF LockInv, RowOf
  <2>3. InFlight(r)' => HoldsARevision(r)'
    BY <2>1, <2>2 DEF HoldsARevision, RevisionAsExpected, RowOf, storeVars
  <2> QED
    BY <1>0, <2>1, <2>3, ReadingStep
<1>2. ASSUME NEW r \in Requests, RefreshAndCheck(r)
      PROVE  LockInv'
  <2>1. /\ UNCHANGED storeVars
        /\ \A q \in Requests \ {r} : req'[q] = req[q]
        /\ req'[r].pc # "ok" /\ req'[r].project = req[r].project /\ req'[r].loaded = row
        /\ req'[r].expected = req[r].expected /\ req[r].expected # 0
        /\ InFlight(r)' => RevisionAsExpected(req[r].expected, row)
        /\ InFlight(r)
    BY <1>0, <1>2 DEF RefreshAndCheck, TypeOK, RequestStates, InFlight
  <2>2. HoldsARevision(r) /\ row = RowOf(row.data) /\ row.revision = row.data.revision
    BY <1>0, <2>1 DEF LockInv, RowOf
  <2>3. InFlight(r)' => HoldsARevision(r)'
    BY <2>1, <2>2 DEF HoldsARevision, RevisionAsExpected, RowOf, storeVars
  <2> QED
    BY <1>0, <2>1, <2>3, ReadingStep
<1>3. ASSUME NEW r \in Requests, CommitEdit(r)
      PROVE  LockInv'
  BY <1>0, <1>3, CommitKeepsLock
<1>4. ASSUME NEW r \in Requests, CommitConflict(r) \/ Fail(r)
      PROVE  LockInv'
  <2>1. /\ UNCHANGED storeVars
        /\ \A q \in Requests \ {r} : req'[q] = req[q]
        /\ req'[r].pc \in {"conflict", "failed"}
    BY <1>0, <1>4 DEF CommitConflict, Fail, Answer, TypeOK, RequestStates
  <2> QED
    BY <1>0, <2>1, ReadingStep DEF InFlight
<1>5. ASSUME NEW r \in Requests, NEW verdict,
             RunValidation(r, verdict) \/ ExportProjectBundle(r) \/ CompileMechanical(r)
      PROVE  LockInv'
  <2>1. req'[r].pc = "ok" /\ req'[r].handler \in MetadataHandlers
    BY <1>0, <1>5 DEF RunValidation, ExportProjectBundle, CompileMechanical, Answer,
       TypeOK, RequestStates, MetadataHandlers
  <2> QED
    BY <2>1 DEF OnlyEdits
<1>6. ASSUME NEW r \in Requests, DeleteProject(r)
      PROVE  LockInv'
  BY <1>6 DEF DeleteProject, DeleteProjectRecord
<1>7. CASE UNCHANGED vars
  BY <1>7, <1>0 DEF vars, LockInv, InFlight, HoldsARevision, ExpectedHonoured, RowOf
<1> QED
  BY <1>1, <1>2, <1>3, <1>4, <1>5, <1>6, <1>7 DEF Next

LEMMA LockInvariant == Spec => [](TypeOK /\ LockInv)
<1>1. HistoryInv => TypeOK
  BY DEF HistoryInv
<1> QED
  BY <1>1, InitLock, NextLock, HistoryInvariant, PTL DEF Spec

\* While only edits and deletions have been answered, the row is the latest
\* revision, in its document and in its columns.
THEOREM EditsKeepTheRow == Spec => []EditsKeepRowLatest
<1>1. TypeOK /\ LockInv => EditsKeepRowLatest
  BY DEF LockInv, EditsKeepRowLatest, RowIsLatestRevision, RowOf, NextRevision, TypeOK,
     Rows, Documents
<1> QED
  BY <1>1, LockInvariant, PTL

\* ... and an edit accepted under expected_revision was made on that revision.
THEOREM OptimisticLocking == Spec => []EditsKeepLock
<1>1. LockInv => EditsKeepLock
  BY DEF LockInv, EditsKeepLock, ExpectedHonoured
<1> QED
  BY <1>1, LockInvariant, PTL

-----------------------------------------------------------------------------
(* Derived results stay current: no report, bundle, electronics or          *)
(* mechanical result survives an edit it does not cover, however the        *)
(* handlers interleave.                                                     *)

\* A document names one answered request for each revision after the first: the
\* handlers that its evidence is judged by can no longer change.
Settled(doc) ==
    /\ Len(doc.spec) = doc.revision - 1
    /\ \A i \in DOMAIN doc.spec : req[doc.spec[i]].pc = "ok"

\* A document that may be in the store, or on its way there.
Sound(doc) == Settled(doc) /\ EvidenceIsCurrentIn(doc)

\* The inductive invariant: stale copies in the memory of a request are sound too.
EvidenceInv ==
    live => /\ Sound(row.data)
            /\ \A n \in DOMAIN snapshots : Sound(snapshots[n])
            /\ \A r \in Requests : InFlight(r) => Sound(req[r].project)

\* Evidence for the revision of a settled document covers it.
LEMMA OwnRevisionCovers ==
    ASSUME NEW doc \in Documents, Len(doc.spec) = doc.revision - 1
    PROVE  Covers(doc, doc.revision)
<1>1. DOMAIN doc.spec = 1..(doc.revision - 1) /\ doc.revision \in Nat
  BY DEF Documents
<1> QED
  BY <1>1 DEF Covers

\* What the metadata handlers persist is sound if what they loaded was.
LEMMA MetadataSound ==
    ASSUME NEW p \in Documents, Sound(p), NEW verdict
    PROVE  /\ Sound(Validated(p, verdict))
           /\ Sound(Exported(p))
           /\ Sound(WithMechanical(p))
<1>1. /\ Covers(p, p.revision) /\ p.revision # 0
      /\ Covers(p, p.report) /\ Covers(p, p.bundle)
      /\ Covers(p, p.electronics) /\ Covers(p, p.mechanical)
      /\ p.status = "validated" => p.report # 0
  BY OwnRevisionCovers DEF Sound, Settled, EvidenceIsCurrentIn, Documents
<1>2. ASSUME NEW d \in Documents, d.spec = p.spec, d.revision = p.revision,
             NEW k, Covers(p, k)
      PROVE  Covers(d, k)
  BY <1>2 DEF Covers
<1>3. ASSUME NEW d \in Documents, d.spec = p.spec, d.revision = p.revision
      PROVE  Settled(d)
  BY <1>3 DEF Sound, Settled
<1>4. Sound(Validated(p, verdict))
  <2> DEFINE d == Validated(p, verdict)
  <2>1. /\ d \in Documents /\ d.spec = p.spec /\ d.revision = p.revision
        /\ d.report = p.revision /\ d.bundle = p.bundle
        /\ d.electronics = p.electronics /\ d.mechanical = p.mechanical
    BY MetadataDocuments DEF Validated, Documents
  <2> QED
    BY <1>1, <1>2, <1>3, <2>1 DEF Sound, EvidenceIsCurrentIn
<1>5. Sound(Exported(p))
  <2> DEFINE d == Exported(p)
  <2>1. /\ d \in Documents /\ d.spec = p.spec /\ d.revision = p.revision
        /\ d.report = p.revision /\ d.bundle = p.revision
        /\ d.electronics = p.electronics /\ d.mechanical = p.mechanical
    BY MetadataDocuments DEF Exported, Documents
  <2> QED
    BY <1>1, <1>2, <1>3, <2>1 DEF Sound, EvidenceIsCurrentIn
<1>6. Sound(WithMechanical(p))
  <2> DEFINE d == WithMechanical(p)
  <2>1. /\ d \in Documents /\ d.spec = p.spec /\ d.revision = p.revision
        /\ d.report = p.report /\ d.bundle = p.bundle /\ d.status = p.status
        /\ d.electronics = p.electronics /\ d.mechanical = p.revision
    BY MetadataDocuments DEF WithMechanical, Documents
  <2> QED
    BY <1>1, <1>2, <1>3, <2>1 DEF Sound, EvidenceIsCurrentIn
<1> QED
  BY <1>4, <1>5, <1>6

\* A document is as sound after a step as before it, since answered requests stay
\* as they are.
LEMMA SoundStable ==
    ASSUME \A q \in Requests : req[q].pc = "ok" => req'[q] = req[q],
           NEW doc \in Documents, Sound(doc)
    PROVE  Sound(doc)'
<1>1. \A i \in DOMAIN doc.spec : doc.spec[i] \in Requests
  BY DEF Documents
<1>2. \A i \in DOMAIN doc.spec : req'[doc.spec[i]] = req[doc.spec[i]]
  BY <1>1 DEF Sound, Settled
<1>3. Settled(doc)'
  BY <1>2 DEF Sound, Settled
<1>4. ASSUME NEW k, Covers(doc, k) PROVE Covers(doc, k)'
  BY <1>2, <1>4 DEF Covers
<1> QED
  BY <1>3, <1>4 DEF Sound, EvidenceIsCurrentIn

\* Answered requests are done.
LEMMA AnsweredStays ==
    ASSUME TypeOK, [Next]_vars
    PROVE  \A q \in Requests : req[q].pc = "ok" => req'[q] = req[q]
  BY DEF Next, vars, TypeOK, RequestStates, LoadProjectState, RefreshAndCheck, CommitEdit,
     ReadyToCommit, CommitConflict, RunValidation, ExportProjectBundle,
     CompileMechanical, DeleteProject, Fail, InFlight, Answer

\* A document that adds the edit of request r to a sound one is sound, once r is
\* answered: what the edit does not invalidate, it does not affect.
LEMMA ExtendedSound ==
    ASSUME NEW p \in Documents, Sound(p), NEW d \in Documents, NEW r \in Requests,
           d.revision = p.revision + 1, d.spec = Append(p.spec, r),
           \A q \in Requests : req[q].pc = "ok" => req'[q] = req[q],
           req'[r].pc = "ok",
           \/ /\ req'[r].handler = "patch_name"
              /\ d.report = p.report /\ d.bundle = p.bundle /\ d.status = p.status
              /\ d.electronics = p.electronics /\ d.mechanical = p.mechanical
           \/ /\ d.report = 0 /\ d.bundle = 0 /\ d.mechanical = 0
              /\ d.electronics \in {0, d.revision} /\ d.status = "configured"
    PROVE  Sound(d)'
<1> DEFINE k == p.revision
<1>1. p.spec \in Seq(Requests) /\ Len(p.spec) = k - 1 /\ k \in Nat \ {0}
  BY DEF Sound, Settled, Documents
<1> HIDE DEF k
<1>2. /\ Len(d.spec) = k /\ DOMAIN d.spec = 1..k /\ DOMAIN p.spec = 1..(k - 1)
      /\ d.spec[k] = r
      /\ \A i \in 1..(k - 1) : d.spec[i] = p.spec[i]
  <2>1. /\ Len(d.spec) = Len(p.spec) + 1
        /\ \A i \in 1..Len(p.spec) : d.spec[i] = p.spec[i]
        /\ d.spec[Len(p.spec) + 1] = r
    BY <1>1, AppendProperties
  <2>2. DOMAIN p.spec = 1..Len(p.spec) /\ DOMAIN d.spec = 1..Len(d.spec)
    BY DEF Documents
  <2> QED
    BY <1>1, <2>1, <2>2
<1>3. \A i \in 1..(k - 1) : /\ req[d.spec[i]].pc = "ok"
                            /\ req'[d.spec[i]] = req[d.spec[i]]
  BY <1>1, <1>2 DEF Sound, Settled
<1>4. \A i \in 1..k : i = k \/ i \in 1..(k - 1)
  BY <1>1
<1>5. d.revision = k + 1
  BY DEF k
<1>6. Settled(d)'
  <2>1. Len(d.spec) = d.revision - 1
    BY <1>1, <1>2, <1>5
  <2>2. \A i \in DOMAIN d.spec : req'[d.spec[i]].pc = "ok"
    BY <1>2, <1>3, <1>4
  <2> QED
    BY <2>1, <2>2 DEF Settled
<1>7. ASSUME req'[r].handler = "patch_name", NEW j \in Nat, Covers(p, j)
      PROVE  Covers(d, j)'
  <2> SUFFICES ASSUME j # 0
               PROVE  /\ j <= d.revision
                      /\ \A i \in DOMAIN d.spec : i >= j => req'[d.spec[i]].handler = "patch_name"
    BY DEF Covers
  <2>1. j <= k /\ \A i \in 1..(k - 1) : i >= j => req[p.spec[i]].handler = "patch_name"
    BY <1>2, <1>7 DEF Covers, k
  <2>2. j <= d.revision
    BY <1>1, <1>5, <2>1
  <2>3. \A i \in 1..(k - 1) : i >= j => req'[d.spec[i]].handler = "patch_name"
    BY <1>2, <1>3, <2>1
  <2> QED
    BY <1>2, <1>4, <1>7, <2>2, <2>3
<1>8. Covers(d, 0)' /\ Covers(d, d.revision)'
  BY <1>1, <1>2, <1>5 DEF Covers
<1>9. EvidenceIsCurrentIn(d)'
  <2>1. /\ p.report \in Nat /\ p.bundle \in Nat
        /\ p.electronics \in Nat /\ p.mechanical \in Nat
        /\ Covers(p, p.report) /\ Covers(p, p.bundle)
        /\ Covers(p, p.electronics) /\ Covers(p, p.mechanical)
        /\ p.status = "validated" => p.report # 0
    BY DEF Documents, Sound, EvidenceIsCurrentIn
  <2> QED
    BY <1>7, <1>8, <2>1 DEF EvidenceIsCurrentIn
<1> QED
  BY <1>6, <1>9 DEF Sound

\* What an edit leaves of the derived results.
LEMMA EditedEvidence ==
    ASSUME TypeOK, NEW r \in Requests, ReadyToCommit(r),
           NEW e, e = Edited(r), NEW p, p = req[r].project
    PROVE  \/ /\ req[r].handler = "patch_name"
              /\ e.report = p.report /\ e.bundle = p.bundle /\ e.status = p.status
              /\ e.electronics = p.electronics /\ e.mechanical = p.mechanical
           \/ /\ e.report = 0 /\ e.bundle = 0 /\ e.mechanical = 0
              /\ e.electronics \in {0, NextRevision(e)} /\ e.status = "configured"
<1> DEFINE q == [p EXCEPT !.spec = Append(@, r)]
           v == Invalidated(q)
           w == [v EXCEPT !.electronics = NextRevision(q)]
<1>1. p \in Documents
  BY DEF TypeOK, RequestStates
<1>2. /\ q \in Documents /\ q.revision = p.revision /\ q.status = p.status
      /\ q.report = p.report /\ q.bundle = p.bundle
      /\ q.electronics = p.electronics /\ q.mechanical = p.mechanical
  BY <1>1, AppendProperties DEF Documents
<1>3. \/ req[r].handler = "patch_name" /\ e = q
      \/ e = v
      \/ e = w
  BY DEF Edited
<1> HIDE DEF q
<1>4. v.report = 0 /\ v.bundle = 0 /\ v.mechanical = 0 /\ v.electronics = 0
      /\ v.status = "configured" /\ v.revision = q.revision
  BY <1>2 DEF Invalidated, Documents
<1>5. w.report = 0 /\ w.bundle = 0 /\ w.mechanical = 0
      /\ w.electronics = NextRevision(q)
      /\ w.status = "configured" /\ w.revision = q.revision
  BY <1>2 DEF Invalidated, Documents
<1> HIDE DEF v, w
<1>6. CASE e = v
  BY <1>4, <1>6
<1>7. CASE e = w
  BY <1>5, <1>7 DEF NextRevision
<1>8. CASE req[r].handler = "patch_name" /\ e = q
  BY <1>2, <1>8
<1> QED
  BY <1>3, <1>6, <1>7, <1>8

\* A committed edit puts a sound document into the row and the history.
LEMMA CommitSound ==
    ASSUME HistoryInv, TypeOK', EvidenceInv, [Next]_vars, NEW r \in Requests, CommitEdit(r)
    PROVE  Sound(row.data)'
<1> DEFINE p == req[r].project
           d == [Edited(r) EXCEPT !.revision = NextRevision(Edited(r))]
<1>1. /\ live
      /\ snapshots'[p.revision + 1].revision = p.revision + 1
      /\ snapshots'[p.revision + 1].spec = Append(snapshots[p.revision].spec, r)
      /\ row'.data = snapshots'[p.revision + 1]
      /\ req' = [req EXCEPT ![r].pc = "ok"]
  BY CommitExtends
<1>2. InFlight(r) /\ ReadyToCommit(r)
  BY DEF CommitEdit, ReadyToCommit, InFlight
<1>3. Sound(p) /\ p \in Documents /\ p.spec = snapshots[p.revision].spec
  BY <1>1, <1>2 DEF EvidenceInv, HistoryInv, TypeOK,
     RequestStates, InFlightMatchesItsSnapshot, MatchesItsSnapshot
<1>4. row'.data = d /\ d \in Documents
  <2>1. Edited(r) \in Documents
    BY EditedDocument DEF HistoryInv
  <2>2. d \in Documents
    BY <2>1 DEF Documents, NextRevision
  <2>3. row' = SyncProjectRow(req[r].loaded, d)
    BY DEF CommitEdit, CommitProjectMutation
  <2> HIDE DEF d
  <2> QED
    BY <2>2, <2>3, SyncedRow DEF HistoryInv, TypeOK
<1>5. d.revision = p.revision + 1 /\ d.spec = Append(p.spec, r)
  BY <1>1, <1>3, <1>4
<1>6. /\ \A q \in Requests : req[q].pc = "ok" => req'[q] = req[q]
      /\ req'[r].pc = "ok" /\ req'[r].handler = req[r].handler
  BY <1>1, AnsweredStays DEF HistoryInv, TypeOK, RequestStates
<1>7. /\ d.revision = NextRevision(Edited(r)) /\ d.status = Edited(r).status
      /\ d.report = Edited(r).report /\ d.bundle = Edited(r).bundle
      /\ d.electronics = Edited(r).electronics /\ d.mechanical = Edited(r).mechanical
  <2>1. ASSUME NEW e \in Documents, NEW n \in Nat
        PROVE  LET f == [e EXCEPT !.revision = n]
               IN  /\ f.revision = n /\ f.status = e.status
                   /\ f.report = e.report /\ f.bundle = e.bundle
                   /\ f.electronics = e.electronics /\ f.mechanical = e.mechanical
    BY DEF Documents
  <2>2. Edited(r) \in Documents /\ NextRevision(Edited(r)) \in Nat
    BY EditedDocument DEF HistoryInv, Documents, NextRevision
  <2> QED
    BY <2>1, <2>2
<1>8. \A e : e = Edited(r) =>
         \/ /\ req[r].handler = "patch_name"
            /\ e.report = p.report /\ e.bundle = p.bundle /\ e.status = p.status
            /\ e.electronics = p.electronics /\ e.mechanical = p.mechanical
         \/ /\ e.report = 0 /\ e.bundle = 0 /\ e.mechanical = 0
            /\ e.electronics \in {0, NextRevision(e)} /\ e.status = "configured"
  BY <1>2, EditedEvidence DEF HistoryInv
<1> HIDE DEF p, d
<1>9. \/ /\ req[r].handler = "patch_name"
         /\ d.report = p.report /\ d.bundle = p.bundle /\ d.status = p.status
         /\ d.electronics = p.electronics /\ d.mechanical = p.mechanical
      \/ /\ d.report = 0 /\ d.bundle = 0 /\ d.mechanical = 0
         /\ d.electronics \in {0, d.revision} /\ d.status = "configured"
  BY <1>7, <1>8
<1> QED
  BY <1>3, <1>4, <1>5, <1>6, <1>9, ExtendedSound

LEMMA InitEvidence == Init => EvidenceInv
<1> SUFFICES ASSUME Init PROVE EvidenceInv
  OBVIOUS
<1>1. PICK status \in {"draft", "configured"} : CreateProjectRecord(NewProject(status))
  BY DEF Init
<1> DEFINE d == NewProject(status)
<1>2. row.data = d /\ \A n \in DOMAIN snapshots : snapshots[n] = d
  BY <1>1 DEF CreateProjectRecord, RowOf
<1>3. Sound(d)
  BY DEF NewProject, Sound, Settled, EvidenceIsCurrentIn, Covers
<1>4. \A r \in Requests : req[r].pc = "idle"
  BY DEF Init
<1> HIDE DEF d
<1> QED
  BY <1>2, <1>3, <1>4 DEF EvidenceInv, InFlight

\* A step that leaves the snapshots alone, and puts into the row or a request only
\* sound documents, keeps the invariant.
LEMMA QuietEvidence ==
    ASSUME HistoryInv, EvidenceInv, [Next]_vars, UNCHANGED snapshots, live,
           NEW r \in Requests,
           \A q \in Requests \ {r} : req'[q] = req[q],
           NEW d \in Documents, Sound(d), row'.data = d,
           NEW p \in Documents, InFlight(r)' => Sound(p) /\ req'[r].project = p
    PROVE  EvidenceInv'
<1>1. \A doc \in Documents : Sound(doc) => Sound(doc)'
  BY SoundStable, AnsweredStays DEF HistoryInv
<1>2. Sound(row.data)'
  BY <1>1 DEF Sound, Settled, EvidenceIsCurrentIn, Covers
<1>3. ASSUME NEW n \in DOMAIN snapshots
      PROVE  Sound(snapshots[n])'
  <2>1. snapshots[n] \in Documents /\ Sound(snapshots[n])
    BY DEF HistoryInv, TypeOK, EvidenceInv
  <2> QED
    BY <1>1, <2>1 DEF Sound, Settled, EvidenceIsCurrentIn, Covers
<1>4. ASSUME NEW q \in Requests, InFlight(q)'
      PROVE  Sound(req[q].project)'
  <2>1. CASE q = r
    BY <1>1, <1>4, <2>1 DEF Sound, Settled, EvidenceIsCurrentIn, Covers
  <2>2. CASE q # r
    <3>1. /\ req'[q] = req[q] /\ req[q].project \in Documents
          /\ Sound(req[q].project)
      BY <1>4, <2>2 DEF InFlight, EvidenceInv, HistoryInv, TypeOK, RequestStates
    <3> QED
      BY <1>1, <3>1 DEF Sound, Settled, EvidenceIsCurrentIn, Covers
  <2> QED
    BY <2>1, <2>2
<1> QED
  BY <1>2, <1>3, <1>4 DEF EvidenceInv

\* A committed edit keeps the invariant.
LEMMA CommitKeepsEvidence ==
    ASSUME HistoryInv, TypeOK', EvidenceInv, [Next]_vars, NEW r \in Requests, CommitEdit(r)
    PROVE  EvidenceInv'
<1> DEFINE k == req[r].project.revision
<1>1. /\ live
      /\ DOMAIN snapshots' = DOMAIN snapshots \cup {k + 1}
      /\ \A n \in DOMAIN snapshots : snapshots'[n] = snapshots[n]
      /\ row'.data = snapshots'[k + 1]
      /\ req' = [req EXCEPT ![r].pc = "ok"]
  BY CommitExtends
<1> HIDE DEF k
<1>2. \A doc \in Documents : Sound(doc) => Sound(doc)'
  BY SoundStable, AnsweredStays DEF HistoryInv
<1>3. Sound(row.data)'
  BY CommitSound
<1>4. ASSUME NEW n \in DOMAIN snapshots'
      PROVE  Sound(snapshots[n])'
  <2>1. CASE n = k + 1
    BY <1>1, <1>3, <2>1 DEF Sound, Settled, EvidenceIsCurrentIn, Covers
  <2>2. CASE n \in DOMAIN snapshots
    <3>1. snapshots[n] \in Documents /\ Sound(snapshots[n]) /\ snapshots'[n] = snapshots[n]
      BY <1>1, <2>2 DEF HistoryInv, TypeOK, EvidenceInv
    <3> QED
      BY <1>2, <3>1 DEF Sound, Settled, EvidenceIsCurrentIn, Covers
  <2> QED
    BY <1>1, <2>1, <2>2
<1>5. ASSUME NEW q \in Requests, InFlight(q)'
      PROVE  Sound(req[q].project)'
  <2>1. req'[q] = req[q] /\ InFlight(q)
    BY <1>1, <1>5 DEF InFlight, HistoryInv, TypeOK, RequestStates
  <2>2. req[q].project \in Documents /\ Sound(req[q].project)
    BY <1>1, <2>1 DEF EvidenceInv, HistoryInv, TypeOK, RequestStates
  <2> QED
    BY <1>2, <2>1, <2>2 DEF Sound, Settled, EvidenceIsCurrentIn, Covers
<1> QED
  BY <1>3, <1>4, <1>5 DEF EvidenceInv

\* A metadata write of a sound document keeps the invariant.
LEMMA PersistKeepsEvidence ==
    ASSUME HistoryInv, TypeOK', EvidenceInv, [Next]_vars, NEW r \in Requests,
           NEW d \in Documents, Sound(d),
           PersistProjectMetadata(req[r].loaded, d), Answer(r, "ok")
    PROVE  EvidenceInv'
<1>1. live /\ UNCHANGED snapshots /\ row'.data = d
  BY SyncedRow DEF PersistProjectMetadata, HistoryInv, TypeOK
<1>2. /\ \A q \in Requests \ {r} : req'[q] = req[q]
      /\ ~InFlight(r)'
  BY DEF Answer, InFlight, HistoryInv, TypeOK, RequestStates
<1> QED
  BY <1>1, <1>2, QuietEvidence

LEMMA NextEvidence == HistoryInv /\ EvidenceInv /\ [Next]_vars => EvidenceInv'
<1> SUFFICES ASSUME HistoryInv, EvidenceInv, [Next]_vars, live' PROVE EvidenceInv'
  BY DEF EvidenceInv
<1>0. TypeOK /\ TypeOK' /\ row.data \in Documents
      /\ \A q \in Requests : req[q].project \in Documents
  BY NextType DEF HistoryInv, TypeOK, Rows, RequestStates
<1>1. live
  BY DEF Next, vars, storeVars, LoadProjectState, RefreshAndCheck, CommitEdit, CommitConflict,
     RunValidation, ExportProjectBundle, CompileMechanical, DeleteProject, Fail,
     CommitProjectMutation, PersistProjectMetadata, DeleteProjectRecord
<1>2. Sound(row.data) /\ \A q \in Requests : InFlight(q) => Sound(req[q].project)
  BY <1>1 DEF EvidenceInv
<1>3. ASSUME NEW r \in Requests, NEW h \in Handlers, NEW e \in {0} \cup DOMAIN snapshots,
             LoadProjectState(r, h, e)
      PROVE  EvidenceInv'
  <2>1. /\ UNCHANGED storeVars
        /\ \A q \in Requests \ {r} : req'[q] = req[q]
        /\ req'[r].project = row.data
    BY <1>0, <1>3 DEF LoadProjectState, TypeOK
  <2> QED
    BY <1>0, <1>1, <1>2, <2>1, QuietEvidence DEF storeVars
<1>4. ASSUME NEW r \in Requests, RefreshAndCheck(r) \/ CommitConflict(r) \/ Fail(r)
      PROVE  EvidenceInv'
  <2>1. /\ UNCHANGED storeVars /\ InFlight(r)
        /\ \A q \in Requests \ {r} : req'[q] = req[q]
        /\ req'[r].project = req[r].project
    BY <1>0, <1>4 DEF RefreshAndCheck, CommitConflict, ReadyToCommit, Fail, Answer,
       InFlight, TypeOK, RequestStates
  <2> QED
    BY <1>0, <1>1, <1>2, <2>1, QuietEvidence DEF storeVars
<1>5. ASSUME NEW r \in Requests, CommitEdit(r)
      PROVE  EvidenceInv'
  BY <1>0, <1>5, CommitKeepsEvidence
<1>6. ASSUME NEW r \in Requests, NEW verdict,
             RunValidation(r, verdict) \/ ExportProjectBundle(r) \/ CompileMechanical(r)
      PROVE  EvidenceInv'
  <2>1. /\ req[r].project \in Documents /\ Sound(req[r].project)
    BY <1>0, <1>2, <1>6 DEF RunValidation, ExportProjectBundle, CompileMechanical, InFlight
  <2>2. \E d \in Documents : /\ Sound(d) /\ PersistProjectMetadata(req[r].loaded, d)
                             /\ Answer(r, "ok")
    BY <1>6, <2>1, MetadataDocuments, MetadataSound
       DEF RunValidation, ExportProjectBundle, CompileMechanical
  <2> QED
    BY <1>0, <2>2, PersistKeepsEvidence
<1>7. ASSUME NEW r \in Requests, DeleteProject(r)
      PROVE  EvidenceInv'
  BY <1>7 DEF DeleteProject, DeleteProjectRecord
<1>8. CASE UNCHANGED vars
  BY <1>8 DEF vars, EvidenceInv, InFlight, Sound, Settled, EvidenceIsCurrentIn, Covers
<1> QED
  BY <1>3, <1>4, <1>5, <1>6, <1>7, <1>8 DEF Next

\* No report, bundle, electronics or mechanical result of a stored document belongs
\* to a layout, switch or matrix other than the document's.
THEOREM CurrentEvidence == Spec => []EvidenceIsCurrent
<1>1. EvidenceInv => EvidenceIsCurrent
  BY DEF EvidenceInv, EvidenceIsCurrent, Sound
<1> QED
  BY <1>1, InitEvidence, NextEvidence, HistoryInvariant, PTL DEF Spec
=============================================================================
