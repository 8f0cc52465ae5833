----------------------- MODULE KeycapGenerationProofs -----------------------
(***************************************************************************)
(* Theorems of KeycapGeneration, for every set of requests, pollers,       *)
(* tasks, placeholders and keys, every choice of handlers and every limit. *)
(***************************************************************************)
EXTENDS KeycapGeneration, FiniteSetTheorems, TLAPS

-----------------------------------------------------------------------------
(* What the pieces of a step return.                                       *)

\* The documents the handlers make keep their revision and are well formed.
LEMMA StatusDocument ==
    ASSUME NEW p \in Documents, NEW s \in Statuses
    PROVE  /\ [p EXCEPT !.status = s] \in Documents
           /\ [p EXCEPT !.status = s].revision = p.revision
           /\ [p EXCEPT !.status = s].assets = p.assets
           /\ [p EXCEPT !.status = s].layout = p.layout
           /\ [p EXCEPT !.status = s].status = s
  BY DEF Documents

LEMMA AssetsDocument ==
    ASSUME NEW p \in Documents, NEW as \in [Assets -> AcceptanceStates], NEW s \in Statuses
    PROVE  /\ [p EXCEPT !.assets = as] \in Documents
           /\ [p EXCEPT !.assets = as].revision = p.revision
           /\ [p EXCEPT !.assets = as].assets = as
           /\ [p EXCEPT !.assets = as].layout = p.layout
           /\ [p EXCEPT !.assets = as].status = p.status
           /\ [p EXCEPT !.assets = as, !.status = s]
                  = [[p EXCEPT !.assets = as] EXCEPT !.status = s]
  BY DEF Documents

LEMMA LayoutDocument ==
    ASSUME NEW p \in Documents, NEW layout \in [Keys -> Assets \cup {NoAsset}]
    PROVE  /\ [p EXCEPT !.layout = layout] \in Documents
           /\ [p EXCEPT !.layout = layout].revision = p.revision
           /\ [p EXCEPT !.layout = layout].assets = p.assets
           /\ [p EXCEPT !.layout = layout].layout = layout
  BY DEF Documents

LEMMA NextDocument ==
    ASSUME NEW p \in Documents
    PROVE  /\ NextRevision(p) = p.revision + 1
           /\ [p EXCEPT !.revision = NextRevision(p)] \in Documents
           /\ [p EXCEPT !.revision = NextRevision(p)].revision = p.revision + 1
           /\ [p EXCEPT !.revision = NextRevision(p)].assets = p.assets
           /\ [p EXCEPT !.revision = NextRevision(p)].layout = p.layout
  BY DEF Documents, NextRevision

\* Of one asset, by name.
LEMMA AssetDocument ==
    ASSUME NEW p \in Documents, NEW a, NEW state \in AcceptanceStates
    PROVE  /\ [p EXCEPT !.assets[a] = state] = [p EXCEPT !.assets = [p.assets EXCEPT ![a] = state]]
           /\ [p.assets EXCEPT ![a] = state] \in [Assets -> AcceptanceStates]
           /\ \A b \in Assets : [p.assets EXCEPT ![a] = state][b] = IF b = a THEN state ELSE p.assets[b]
  BY DEF Documents

LEMMA NewDocuments ==
    /\ NewProject \in Documents /\ StartProject \in Documents
    /\ NewProject.revision = 1 /\ StartProject.revision = 1
    /\ StartProject.layout = NewProject.layout
    /\ \A a \in Assets : /\ NewProject.assets[a] = "absent"
                         /\ StartProject.assets[a] = IF a \in Delivered THEN "candidate" ELSE "absent"
<1> DEFINE as == [a \in Assets |-> IF a \in Delivered THEN "candidate" ELSE "absent"]
           s == IF Delivered = {} THEN NewProject.status ELSE "previewable"
<1>1. /\ NewProject \in Documents /\ NewProject.revision = 1
      /\ \A a \in Assets : NewProject.assets[a] = "absent"
      /\ NewProject.status \in Statuses
  BY DEF NewProject, Documents, Statuses, AcceptanceStates
<1>2. StartProject = [NewProject EXCEPT !.status = s, !.assets = as]
  BY DEF StartProject, NewProject
<1>3. s \in Statuses /\ as \in [Assets -> AcceptanceStates]
  BY <1>1 DEF Statuses, AcceptanceStates
<1> HIDE DEF s, as
<1>4. /\ StartProject \in Documents /\ StartProject.revision = 1
      /\ StartProject.layout = NewProject.layout /\ StartProject.assets = as
  BY <1>1, <1>2, <1>3 DEF Documents
<1> QED
  BY <1>1, <1>4 DEF as

\* The row a write leaves holds the document written.
LEMMA SyncedRow ==
    ASSUME row \in Rows, NEW loaded, NEW p \in Documents
    PROVE  /\ SyncProjectRow(loaded, p) \in Rows
           /\ SyncProjectRow(loaded, p).data = p
  BY DEF Rows, Documents, SyncProjectRow

LEMMA RowOfDocument ==
    ASSUME NEW p \in Documents
    PROVE  RowOf(p) \in Rows /\ RowOf(p).data = p
  BY DEF Rows, Documents, RowOf

-----------------------------------------------------------------------------
(* Type correctness.  TypeOK is not inductive: that a poll reads a task's  *)
(* job, and that a decision is one an asset can have, depends on what the  *)
(* request was started with.                                               *)

Over == {"idle", "ok", "rejected", "conflict", "failed"}

\* What a request in progress was started with.
Started(q) ==
    q.pc \in Over
      \/ /\ q.handler = "poll" => q.asset \in Tasks /\ q.goal \in JobStates
         /\ q.handler = "accept" => q.asset \in Assets /\ q.goal \in Manual
         /\ q.handler = "apply" => q.asset \in Assets

\* The usage of a placeholder is that of the library jobs that delivered it.
LibraryExact ==
    \A p \in Placeholders : completed[p] = Cardinality({job \in libraryJobs : p \in job})

TypeInv ==
    /\ TypeOK
    /\ LibraryExact
    /\ \A r \in Requests : Started(req[r])

LEMMA ClosedRequest ==
    ASSUME NEW outcome \in PCs
    PROVE  /\ Closed(outcome) \in RequestStates
           /\ Closed(outcome).pc = outcome /\ Closed(outcome).handler = "poll"
           /\ Closed(outcome).project = NewProject
           /\ Closed(outcome).tasks = {} /\ Closed(outcome).loaded = RowOf(NewProject)
  BY NewDocuments, RowOfDocument
     DEF Closed, RequestStates, AllHandlers, JobStates

LEMMA Answered ==
    ASSUME NEW r \in Requests, NEW outcome \in Over, Answer(r, outcome)
    PROVE  \E x \in Over : req' = [req EXCEPT ![r] = Closed(x)]
  BY DEF Answer, Over

\* One request changes, and becomes well formed and started with what it needs.
LEMMA OneRequest ==
    ASSUME TypeInv, NEW r \in Requests, NEW q \in RequestStates, Started(q),
           req' = [req EXCEPT ![r] = q]
    PROVE  /\ req' \in [Requests -> RequestStates]
           /\ \A o \in Requests : Started(req'[o])
           /\ req'[r] = q
           /\ \A o \in Requests \ {r} : req'[o] = req[o]
  BY DEF TypeInv, TypeOK

LEMMA AnsweredRequest ==
    ASSUME TypeInv, NEW r \in Requests, NEW outcome \in Over, Answer(r, outcome)
    PROVE  /\ req' \in [Requests -> RequestStates]
           /\ \A o \in Requests : Started(req'[o])
           /\ req'[r].pc \in Over /\ req'[r].project = NewProject /\ req'[r].tasks = {}
           /\ req'[r].handler = "poll"
           /\ \A o \in Requests \ {r} : req'[o] = req[o]
<1>1. PICK x \in Over : req' = [req EXCEPT ![r] = Closed(x)]
  BY Answered
<1>2. x \in PCs
  BY DEF Over, PCs
<1>3. Closed(x) \in RequestStates /\ Started(Closed(x))
      /\ Closed(x).project = NewProject /\ Closed(x).tasks = {} /\ Closed(x).pc = x
      /\ Closed(x).handler = "poll"
  BY <1>2, ClosedRequest DEF Started
<1> QED
  BY <1>1, <1>3, OneRequest

\* A request that arrives holds the row as it is, or is refused.
LEMMA ArrivedRequest ==
    ASSUME TypeInv, NEW r \in Requests, Arrive(r) \/ \E t \in Tasks : ArrivePoll(r, t)
    PROVE  /\ UNCHANGED <<storeVars, provider, registryVars>>
           /\ req' \in [Requests -> RequestStates]
           /\ \A o \in Requests : Started(req'[o])
           /\ \A o \in Requests \ {r} : req'[o] = req[o]
           /\ req[r].pc = "idle"
           /\ req'[r].tasks = {}
           /\ \/ req'[r].pc \in Over /\ req'[r].project = NewProject
              \/ req'[r].pc = "loaded" /\ req'[r].project = row.data
<1>1. PICK h \in AllHandlers, a \in Assets \cup {NoAsset}, g \in Manual \cup JobStates, e \in Nat :
        /\ LoadProjectState(r, h, a, g, e)
        /\ h = "poll" => a \in Tasks /\ g \in JobStates
        /\ h = "accept" => a \in Assets /\ g \in Manual
        /\ h = "apply" => a \in Assets
  <2>1. CASE LoadProjectState(r, "submit", NoAsset, "none", 0)
    BY <2>1 DEF AllHandlers, JobStates
  <2>2. CASE \E t \in Tasks : ArrivePoll(r, t)
    BY <2>2 DEF AllHandlers, JobStates, ArrivePoll, Assets
  <2>3. CASE \E a \in Assets, goal \in Manual, e \in {0} \cup DOMAIN snapshots :
                 LoadProjectState(r, "accept", a, goal, e)
    BY <2>3 DEF AllHandlers, TypeInv, TypeOK
  <2>4. CASE \E a \in Assets, e \in DOMAIN snapshots : LoadProjectState(r, "apply", a, "none", e)
    BY <2>4 DEF AllHandlers, JobStates, TypeInv, TypeOK
  <2>5. CASE \E e \in {0} \cup DOMAIN snapshots :
                 LoadProjectState(r, "patch_layout", NoAsset, "none", e)
    BY <2>5 DEF AllHandlers, JobStates, TypeInv, TypeOK
  <2> QED
    BY <2>1, <2>2, <2>3, <2>4, <2>5 DEF Arrive
<1>2. CASE RevisionAsExpected(e, row)
  <2> DEFINE q == [Closed("loaded") EXCEPT !.handler = h, !.asset = a, !.goal = g,
                       !.expected = e, !.loaded = row, !.project = row.data]
  <2>1. row \in Rows /\ row.data \in Documents
    BY DEF TypeInv, TypeOK, Rows
  <2>2. Closed("loaded") \in RequestStates /\ Closed("loaded").pc = "loaded"
        /\ Closed("loaded").tasks = {}
    BY ClosedRequest DEF PCs
  <2>3. /\ q \in RequestStates /\ q.pc = "loaded" /\ q.handler = h /\ q.asset = a /\ q.goal = g
        /\ q.project = row.data /\ q.tasks = {}
    BY <2>1, <2>2 DEF RequestStates
  <2>4. req' = [req EXCEPT ![r] = q]
    BY <1>1, <1>2 DEF LoadProjectState
  <2> HIDE DEF q
  <2>5. Started(q)
    BY <1>1, <2>3 DEF Started
  <2> QED
    BY <1>1, <2>3, <2>4, <2>5, OneRequest DEF LoadProjectState
<1>3. CASE ~ RevisionAsExpected(e, row)
  <2>1. Answer(r, "conflict")
    BY <1>1, <1>3 DEF LoadProjectState
  <2> QED
    BY <1>1, <2>1, AnsweredRequest DEF LoadProjectState, Over
<1> QED
  BY <1>2, <1>3

-----------------------------------------------------------------------------
(* What a step does to the documents, so that the invariants below need no *)
(* more than that.                                                         *)

\* How a metadata write may move an asset of the document it was made from: a
\* placeholder handed out just now, a mesh registered just now, or a decision that
\* does not touch what is accepted.
Moved(r, a, state) ==
    LET old == req[r].project.assets[a]
    IN  \/ state = old
        \/ a \in Placeholders /\ completed[a] = 0 /\ completed'[a] # 0 /\ state = "preview_only"
        \/ a \in Tasks /\ old = "absent" /\ a \in artifacts' /\ state = "candidate"
        \/ old # "absent" /\ old \notin Canonical /\ state \notin Canonical

Written(r, new) ==
    /\ new \in Documents
    /\ new.revision = req[r].project.revision
    /\ new.layout = req[r].project.layout
    /\ \A a \in Assets : Moved(r, a, new.assets[a])

\* The request is over, or goes on with its document or one written from it.
GoesOn(r) ==
    /\ req' \in [Requests -> RequestStates]
    /\ \A o \in Requests : Started(req'[o])
    /\ \A o \in Requests \ {r} : req'[o] = req[o]
    /\ \/ req'[r].pc \in Over /\ req'[r].project = NewProject /\ req'[r].tasks = {}
       \/ /\ Written(r, req'[r].project)
          /\ req'[r].handler = req[r].handler
          /\ req'[r].tasks = req[r].tasks \/ SubmitToProvider(r)

WritesMetadata(r) == \E new \in Documents : PersistProjectMetadata(req[r].loaded, new) /\ Written(r, new)

LEMMA Unwritten ==
    ASSUME TypeInv, NEW r \in Requests
    PROVE  /\ req[r] \in RequestStates /\ req[r].project \in Documents
           /\ Written(r, req[r].project)
           /\ \A s \in Statuses : Written(r, [req[r].project EXCEPT !.status = s])
<1>1. req[r] \in RequestStates /\ req[r].project \in Documents
  BY DEF TypeInv, TypeOK, RequestStates
<1>2. \A s \in Statuses :
          /\ [req[r].project EXCEPT !.status = s] \in Documents
          /\ [req[r].project EXCEPT !.status = s].revision = req[r].project.revision
          /\ [req[r].project EXCEPT !.status = s].assets = req[r].project.assets
          /\ [req[r].project EXCEPT !.status = s].layout = req[r].project.layout
  BY <1>1, StatusDocument
<1> QED
  BY <1>1, <1>2, Zenon DEF Written, Moved

\* The requests that move on without a write.
LEMMA QuietStep ==
    ASSUME TypeInv, NEW r \in Requests,
           \/ \E n \in 1 .. MaxVariants : CheckQuota(r, n)
           \/ SubmitToProvider(r) \/ FindJob(r) \/ PollProvider(r)
    PROVE  GoesOn(r) /\ UNCHANGED storeVars
<1>1. req[r] \in RequestStates /\ req[r].project \in Documents /\ Written(r, req[r].project)
  BY Unwritten
<1>2. ASSUME NEW q \in RequestStates, req' = [req EXCEPT ![r] = q], Started(q),
             q.project = req[r].project, q.handler = req[r].handler,
             q.tasks = req[r].tasks \/ SubmitToProvider(r)
      PROVE  GoesOn(r)
  <2>1. req'[r] = q /\ Written(r, q.project)
    BY <1>1, <1>2, OneRequest
  <2> QED
    BY <1>2, <2>1, OneRequest DEF GoesOn
<1>3. ASSUME NEW n \in 1 .. MaxVariants, CheckQuota(r, n)
      PROVE  GoesOn(r) /\ UNCHANGED storeVars
  <2>1. CASE submitted + n > JobLimit
    BY <1>3, <2>1, AnsweredRequest DEF CheckQuota, GoesOn, Over
  <2>2. CASE ~ (submitted + n > JobLimit)
    <3> DEFINE q == [req[r] EXCEPT !.pc = "allowed", !.n = n]
    <3>1. req' = [req EXCEPT ![r] = q]
      BY <1>3, <2>2 DEF CheckQuota, TypeInv, TypeOK
    <3>2. /\ q \in RequestStates /\ q.project = req[r].project /\ q.tasks = req[r].tasks
          /\ q.handler = "submit" /\ req[r].handler = "submit"
      <4>1. n \in Nat /\ "allowed" \in PCs /\ At(r, "submit", "loaded")
        BY <1>3, GenerationAssumption DEF CheckQuota, PCs
      <4> QED
        BY <1>1, <4>1 DEF RequestStates, At
    <3>3. Started(q)
      BY <3>2 DEF Started
    <3> HIDE DEF q
    <3> QED
      BY <1>2, <1>3, <3>1, <3>2, <3>3 DEF CheckQuota
  <2> QED
    BY <2>1, <2>2
<1>4. ASSUME SubmitToProvider(r)
      PROVE  GoesOn(r) /\ UNCHANGED storeVars
  <2>1. PICK ts \in SUBSET Tasks :
            req' = [req EXCEPT ![r].pc = "created", ![r].tasks = ts]
    BY <1>4 DEF SubmitToProvider, kSubset, FreshTasks
  <2> DEFINE q == [req[r] EXCEPT !.pc = "created", !.tasks = ts]
  <2>2. req' = [req EXCEPT ![r] = q]
    BY <2>1 DEF TypeInv, TypeOK
  <2>3. q \in RequestStates /\ q.project = req[r].project /\ q.handler = "submit" /\ req[r].handler = "submit"
    BY <1>1, <1>4 DEF RequestStates, SubmitToProvider, At, PCs
  <2>4. Started(q)
    BY <2>3 DEF Started
  <2> HIDE DEF q
  <2> QED
    BY <1>2, <1>4, <2>2, <2>3, <2>4 DEF SubmitToProvider
<1>5. ASSUME FindJob(r)
      PROVE  GoesOn(r) /\ UNCHANGED storeVars
  <2>1. /\ req[r].asset \in Tasks /\ req[r].handler = "poll"
        /\ jobs[req[r].asset] \in JobStates
    BY <1>5 DEF FindJob, At, TypeInv, TypeOK, Started, Over
  <2>2. CASE jobs[req[r].asset] = "none"
    BY <1>5, <2>2, AnsweredRequest DEF FindJob, GoesOn, Over
  <2>3. CASE jobs[req[r].asset] # "none"
    <3>1. PICK pc \in {"ingested", "polling"} :
              req' = [req EXCEPT ![r].pc = pc, ![r].job = jobs[req[r].asset],
                                 ![r].goal = jobs[req[r].asset]]
      BY <1>5, <2>3 DEF FindJob
    <3> DEFINE q == [req[r] EXCEPT !.pc = pc, !.job = jobs[req[r].asset],
                                   !.goal = jobs[req[r].asset]]
    <3>2. req' = [req EXCEPT ![r] = q]
      BY <3>1 DEF TypeInv, TypeOK
    <3>3. q \in RequestStates /\ q.project = req[r].project /\ q.handler = "poll" /\ q.tasks = req[r].tasks
          /\ q.asset = req[r].asset /\ q.goal \in JobStates
      BY <1>1, <2>1 DEF RequestStates, PCs
    <3>4. Started(q)
      BY <2>1, <3>3 DEF Started
    <3> HIDE DEF q
    <3> QED
      BY <1>2, <1>5, <2>1, <3>2, <3>3, <3>4 DEF FindJob
  <2> QED
    BY <2>2, <2>3
<1>6. ASSUME PollProvider(r)
      PROVE  GoesOn(r) /\ UNCHANGED storeVars
  <2>1. /\ req[r].asset \in Tasks /\ req[r].handler = "poll"
        /\ provider[req[r].asset] \in JobStates
    BY <1>6 DEF PollProvider, At, TypeInv, TypeOK, Started, Over, JobStates
  <2>2. PICK pc \in {"fetched", "ingested"} :
            req' = [req EXCEPT ![r].pc = pc, ![r].goal = provider[req[r].asset]]
    BY <1>6 DEF PollProvider
  <2> DEFINE q == [req[r] EXCEPT !.pc = pc, !.goal = provider[req[r].asset]]
  <2>3. req' = [req EXCEPT ![r] = q]
    BY <2>2 DEF TypeInv, TypeOK
  <2>4. q \in RequestStates /\ q.project = req[r].project /\ q.handler = "poll" /\ q.tasks = req[r].tasks
        /\ q.asset = req[r].asset /\ q.goal \in JobStates
    BY <1>1, <2>1 DEF RequestStates, PCs
  <2>5. Started(q)
    BY <2>1, <2>4 DEF Started
  <2> HIDE DEF q
  <2> QED
    BY <1>2, <1>6, <2>1, <2>3, <2>4, <2>5 DEF PollProvider
<1> QED
  BY <1>3, <1>4, <1>5, <1>6

\* The requests that end without a write of the document.
LEMMA EndingStep ==
    ASSUME TypeInv, NEW r \in Requests,
           ProviderRefuses(r) \/ IngestCollides(r) \/ IngestionFails(r) \/ RefuseAssetChange(r)
               \/ Abandon(r)
    PROVE  GoesOn(r) /\ UNCHANGED storeVars
<1>1. PICK outcome \in Over : Answer(r, outcome)
  BY DEF ProviderRefuses, IngestCollides, IngestionFails, RefuseAssetChange, Abandon, Over
<1>2. UNCHANGED storeVars
  BY DEF ProviderRefuses, IngestCollides, IngestionFails, RefuseAssetChange, Abandon
<1> QED
  BY <1>1, <1>2, AnsweredRequest DEF GoesOn

\* A placeholder no library job delivered has no usage.
LEMMA UnusedPlaceholder ==
    ASSUME LibraryExact, NEW p \in Placeholders \ UNION libraryJobs
    PROVE  completed[p] = 0
<1>1. {job \in libraryJobs : p \in job} = {}
  OBVIOUS
<1> QED
  BY <1>1, FS_EmptySet DEF LibraryExact

\* The writes of a submission.
LEMMA SubmissionStep ==
    ASSUME TypeInv, NEW r \in Requests, RecordSubmission(r) \/ SubmitToShellLibrary(r)
    PROVE  GoesOn(r) /\ WritesMetadata(r)
<1> DEFINE p == req[r].project
<1>1. p \in Documents /\ \A s \in Statuses : Written(r, [p EXCEPT !.status = s])
  BY Unwritten
<1>2. GoesOn(r)
  BY AnsweredRequest DEF RecordSubmission, SubmitToShellLibrary, GoesOn, Over
<1>3. CASE RecordSubmission(r)
  BY <1>1, <1>2, <1>3 DEF RecordSubmission, WritesMetadata, Statuses, Written
<1>4. CASE SubmitToShellLibrary(r)
  <2>1. PICK as \in SUBSET (Placeholders \ UNION libraryJobs) :
          /\ PersistProjectMetadata(req[r].loaded,
                [req[r].project EXCEPT
                    !.assets = [a \in Assets |-> IF a \in as THEN "preview_only" ELSE @[a]],
                    !.status = "previewable"])
          /\ completed' = [a \in Assets |-> completed[a] + (IF a \in as THEN 1 ELSE 0)]
    BY <1>4 DEF SubmitToShellLibrary, kSubset
  <2> DEFINE shown == [a \in Assets |-> IF a \in as THEN "preview_only" ELSE p.assets[a]]
             new == [p EXCEPT !.assets = shown, !.status = "previewable"]
  <2>2. shown \in [Assets -> AcceptanceStates]
    BY <1>1 DEF Documents, AcceptanceStates
  <2>3. \A a \in Assets : Moved(r, a, shown[a])
    <3> SUFFICES ASSUME NEW a \in Assets PROVE Moved(r, a, shown[a])
      OBVIOUS
    <3>1. CASE a \in as
      <4>1. completed[a] = 0 /\ a \in Placeholders
        BY <2>1, <3>1, UnusedPlaceholder DEF TypeInv
      <4>2. completed'[a] = completed[a] + 1
        BY <2>1, <3>1
      <4> QED
        BY <3>1, <4>1, <4>2 DEF Moved
    <3>2. CASE a \notin as
      BY <3>2 DEF Moved
    <3> QED
      BY <3>1, <3>2
  <2>4. PersistProjectMetadata(req[r].loaded, new)
    BY <2>1
  <2> HIDE DEF shown
  <2>5. new \in Documents /\ new.revision = p.revision /\ new.layout = p.layout /\ new.assets = shown
    BY <1>1, <2>2 DEF Documents, Statuses
  <2> HIDE DEF new
  <2> QED
    BY <1>2, <2>3, <2>4, <2>5 DEF Written, WritesMetadata
<1> QED
  BY <1>3, <1>4

\* The writes of a poll.
LEMMA PollStep ==
    ASSUME TypeInv, NEW r \in Requests,
           FindIngestedAsset(r) \/ IngestAsset(r) \/ ReadJobs(r) \/ FinishPoll(r)
    PROVE  GoesOn(r) /\ (UNCHANGED storeVars \/ WritesMetadata(r))
<1> DEFINE p == req[r].project
           t == req[r].asset
<1>1. /\ req[r] \in RequestStates /\ p \in Documents /\ Written(r, p)
      /\ \A s \in Statuses : Written(r, [p EXCEPT !.status = s])
  BY Unwritten
<1>2. /\ req[r].handler = "poll" /\ t \in Tasks /\ req[r].goal \in JobStates /\ t \in Assets
  BY DEF FindIngestedAsset, IngestAsset, ReadJobs, FinishPoll, At, TypeInv, Started, Over, Assets
\* A poll that goes on with a document it has written.
<1>3. ASSUME NEW pc \in PCs, NEW new \in Documents, NEW loaded \in Rows, Written(r, new),
             req' = [req EXCEPT ![r].pc = pc, ![r].project = new, ![r].loaded = loaded]
      PROVE  GoesOn(r)
  <2> DEFINE q == [req[r] EXCEPT !.pc = pc, !.project = new, !.loaded = loaded]
  <2>1. req' = [req EXCEPT ![r] = q]
    BY <1>3 DEF TypeInv, TypeOK
  <2>2. q \in RequestStates /\ q.project = new /\ q.handler = req[r].handler /\ q.tasks = req[r].tasks
        /\ q.asset = t /\ q.goal = req[r].goal
    BY <1>1 DEF RequestStates
  <2>3. Started(q)
    BY <1>2, <2>2 DEF Started
  <2> HIDE DEF q
  <2>4. req'[r] = q
    BY <2>1, <2>2, <2>3, OneRequest
  <2> QED
    BY <1>3, <2>1, <2>2, <2>3, <2>4, OneRequest DEF GoesOn
<1>4. CASE FindIngestedAsset(r)
  <2> DEFINE new == [p EXCEPT !.status = "previewable"]
  <2>1. new \in Documents /\ Written(r, new) /\ RowOf(new) \in Rows /\ "ingested" \in PCs
    BY <1>1, StatusDocument, RowOfDocument DEF Statuses, PCs
  <2>2. CASE p.status = "generating"
    <3>1. /\ PersistProjectMetadata(req[r].loaded, new)
          /\ req' = [req EXCEPT ![r].pc = "ingested", ![r].project = new, ![r].loaded = RowOf(new)]
      BY <1>4, <2>2 DEF FindIngestedAsset
    <3> HIDE DEF new
    <3> QED
      BY <1>3, <2>1, <3>1 DEF WritesMetadata
  <2>3. CASE p.status # "generating"
    <3>1. UNCHANGED storeVars /\ req' = [req EXCEPT ![r].pc = "ingested"]
      BY <1>4, <2>3 DEF FindIngestedAsset, Goto
    <3>2. req' = [req EXCEPT ![r].pc = "ingested", ![r].project = p, ![r].loaded = req[r].loaded]
      BY <1>1, <3>1 DEF TypeInv, TypeOK, RequestStates
    <3>3. req[r].loaded \in Rows
      BY <1>1 DEF RequestStates
    <3> QED
      BY <1>1, <1>3, <2>1, <3>1, <3>2, <3>3
  <2> QED
    BY <2>2, <2>3
<1>5. CASE IngestAsset(r)
  <2> DEFINE as == [p.assets EXCEPT ![t] = "candidate"]
             new == [p EXCEPT !.assets[t] = "candidate", !.status = "previewable"]
  <2>1. /\ as \in [Assets -> AcceptanceStates]
        /\ \A a \in Assets : as[a] = IF a = t THEN "candidate" ELSE p.assets[a]
    BY <1>1, AssetDocument DEF AcceptanceStates
  <2>2. new = [p EXCEPT !.assets = as, !.status = "previewable"]
    BY <1>1 DEF Documents
  <2>3. /\ PersistProjectMetadata(req[r].loaded, new)
        /\ req' = [req EXCEPT ![r].pc = "ingested", ![r].project = new, ![r].loaded = RowOf(new)]
        /\ p.assets[t] = "absent" /\ t \in artifacts'
    BY <1>5 DEF IngestAsset
  <2> HIDE DEF new, as
  <2>4. new \in Documents /\ new.revision = p.revision /\ new.layout = p.layout /\ new.assets = as
    BY <1>1, <2>1, <2>2 DEF Documents, Statuses
  <2>5. \A a \in Assets : Moved(r, a, as[a])
    BY <1>2, <2>1, <2>3 DEF Moved
  <2>6. Written(r, new)
    BY <2>4, <2>5 DEF Written
  <2> QED
    BY <1>3, <2>3, <2>4, <2>6, RowOfDocument DEF WritesMetadata, PCs
<1>6. CASE ReadJobs(r)
  <2>1. PICK s \in Statuses : s = Desired(r)
    BY DEF Desired, Statuses
  <2>2. req' = [req EXCEPT ![r].pc = "reconciled", ![r].project = [p EXCEPT !.status = s]]
    BY <1>6, <2>1 DEF ReadJobs
  <2>3. req[r].loaded \in Rows /\ "reconciled" \in PCs
    BY <1>1 DEF RequestStates, PCs
  <2>4. req' = [req EXCEPT ![r].pc = "reconciled", ![r].project = [p EXCEPT !.status = s],
                           ![r].loaded = req[r].loaded]
    BY <1>1, <2>2 DEF TypeInv, TypeOK, RequestStates
  <2>5. [p EXCEPT !.status = s] \in Documents /\ Written(r, [p EXCEPT !.status = s])
    BY <1>1, StatusDocument
  <2> QED
    BY <1>3, <1>6, <2>3, <2>4, <2>5 DEF ReadJobs
<1>7. CASE FinishPoll(r)
  <2>1. GoesOn(r)
    BY <1>7, AnsweredRequest DEF FinishPoll, GoesOn, Over
  <2>2. PersistProjectMetadata(req[r].loaded, p) \/ UNCHANGED storeVars
    BY <1>7 DEF FinishPoll
  <2> QED
    BY <1>1, <2>1, <2>2 DEF WritesMetadata
<1> QED
  BY <1>4, <1>5, <1>6, <1>7

\* A decision that is no revision, and the check before one that is.
LEMMA DecisionStep ==
    ASSUME TypeInv, NEW r \in Requests, AcceptMetadataOnly(r) \/ RefreshAndCheck(r)
    PROVE  GoesOn(r) /\ (UNCHANGED storeVars \/ WritesMetadata(r))
<1> DEFINE p == req[r].project
           a == req[r].asset
<1>1. req[r] \in RequestStates /\ p \in Documents /\ Written(r, p)
  BY Unwritten
<1>2. CASE AcceptMetadataOnly(r)
  <2>1. a \in Assets /\ req[r].goal \in Manual /\ req[r].goal \in AcceptanceStates
    BY <1>2 DEF AcceptMetadataOnly, At, TypeInv, Started, Over, Manual, AcceptanceStates
  <2>2. /\ p.assets[a] # "absent" /\ p.assets[a] \notin Canonical /\ req[r].goal \notin Canonical
    BY <1>2 DEF AcceptMetadataOnly, AcceptanceRefused, TouchesCanonical
  <2> DEFINE as == [p.assets EXCEPT ![a] = req[r].goal]
             new == [p EXCEPT !.assets = as]
  <2>3. /\ as \in [Assets -> AcceptanceStates]
        /\ \A b \in Assets : as[b] = IF b = a THEN req[r].goal ELSE p.assets[b]
    BY <1>1, <2>1, AssetDocument
  <2>4. WithAcceptance(r) = new
    BY <1>1, <2>1, AssetDocument DEF WithAcceptance
  <2> HIDE DEF as
  <2>5. new \in Documents /\ new.revision = p.revision /\ new.layout = p.layout /\ new.assets = as
    BY <1>1, <2>3 DEF Documents
  <2> HIDE DEF new
  <2>6. \A b \in Assets : Moved(r, b, as[b])
    BY <2>2, <2>3 DEF Moved
  <2>7. WritesMetadata(r)
    BY <1>2, <2>4, <2>5, <2>6 DEF AcceptMetadataOnly, WritesMetadata, Written
  <2> QED
    BY <1>2, <2>7, AnsweredRequest DEF AcceptMetadataOnly, GoesOn, Over
<1>3. CASE RefreshAndCheck(r)
  <2>1. CASE RevisionAsExpected(req[r].expected, row)
    <3> DEFINE q == [req[r] EXCEPT !.pc = "checked", !.loaded = row]
    <3>1. req' = [req EXCEPT ![r] = q]
      BY <1>3, <2>1 DEF RefreshAndCheck, TypeInv, TypeOK
    <3>2. q \in RequestStates /\ q.project = p /\ q.handler = req[r].handler /\ q.tasks = req[r].tasks
          /\ q.asset = a /\ q.goal = req[r].goal
      BY <1>1 DEF TypeInv, TypeOK, RequestStates, PCs
    <3>3. Started(q)
      BY <1>3, <3>2 DEF Started, RefreshAndCheck, TypeInv, Over
    <3> HIDE DEF q
    <3>4. req'[r] = q
      BY <3>1, <3>2, <3>3, OneRequest
    <3> QED
      BY <1>1, <1>3, <3>1, <3>2, <3>3, <3>4, OneRequest DEF GoesOn, RefreshAndCheck
  <2>2. CASE ~ RevisionAsExpected(req[r].expected, row)
    BY <1>3, <2>2, AnsweredRequest DEF RefreshAndCheck, GoesOn, Over
  <2> QED
    BY <2>1, <2>2
<1> QED
  BY <1>2, <1>3

\* What a mutation makes of the document it was made from: a decision on its asset,
\* checked on this document, or another layout.
Revised(r, new) ==
    /\ new \in Documents
    /\ new.revision = req[r].project.revision
    /\ \/ new.assets = req[r].project.assets
       \/ /\ At(r, "accept", "checked")
          /\ new.layout = req[r].project.layout
          /\ \A a \in Assets : new.assets[a] =
                 IF a = req[r].asset THEN req[r].goal ELSE req[r].project.assets[a]

RevisesProject(r) ==
    \E new \in Documents : CommitProjectMutation(req[r].loaded, new) /\ Revised(r, new)

LEMMA InvalidatedDocument ==
    ASSUME NEW p \in Documents
    PROVE  /\ Invalidated(p) \in Documents
           /\ Invalidated(p).revision = p.revision
           /\ Invalidated(p).assets = p.assets
           /\ Invalidated(p).layout = p.layout
  BY StatusDocument DEF Invalidated, Statuses

LEMMA MutationStep ==
    ASSUME TypeInv, NEW r \in Requests,
           \/ AcceptCanonical(r) \/ PatchLayout(r)
           \/ \E targets \in (SUBSET Keys) \ {{}} : ApplyKeycap(r, targets)
    PROVE  GoesOn(r) /\ (UNCHANGED storeVars \/ RevisesProject(r))
<1> DEFINE p == req[r].project
<1>1. req[r] \in RequestStates /\ p \in Documents /\ Written(r, p)
  BY Unwritten
<1>2. ASSUME NEW new, CommitOrConflict(r, new), Revised(r, new)
      PROVE  GoesOn(r) /\ (UNCHANGED storeVars \/ RevisesProject(r))
  <2>1. PICK outcome \in Over : Answer(r, outcome)
    BY <1>2 DEF CommitOrConflict, Over
  <2>2. GoesOn(r)
    BY <2>1, AnsweredRequest DEF GoesOn
  <2>3. UNCHANGED storeVars \/ CommitProjectMutation(req[r].loaded, new)
    BY <1>2 DEF CommitOrConflict
  <2> QED
    BY <1>2, <2>2, <2>3 DEF RevisesProject, Revised
<1>3. ASSUME NEW layout \in [Keys -> Assets \cup {NoAsset}]
      PROVE  Revised(r, Invalidated([p EXCEPT !.layout = layout]))
  <2> DEFINE new == [p EXCEPT !.layout = layout]
  <2>1. new \in Documents /\ new.revision = p.revision /\ new.assets = p.assets
    BY <1>1, LayoutDocument
  <2>2. /\ Invalidated(new) \in Documents
        /\ Invalidated(new).revision = p.revision /\ Invalidated(new).assets = p.assets
    BY <2>1, InvalidatedDocument
  <2> QED
    BY <2>2, Zenon DEF Revised
<1>4. CASE AcceptCanonical(r)
  <2>1. req[r].asset \in Assets /\ req[r].goal \in AcceptanceStates
    BY <1>4 DEF AcceptCanonical, At, TypeInv, Started, Over, Manual, AcceptanceStates
  <2> DEFINE as == [p.assets EXCEPT ![req[r].asset] = req[r].goal]
             new == [p EXCEPT !.assets = as]
  <2>2. /\ as \in [Assets -> AcceptanceStates]
        /\ \A b \in Assets : as[b] = IF b = req[r].asset THEN req[r].goal ELSE p.assets[b]
    BY <1>1, <2>1, AssetDocument
  <2>3. WithAcceptance(r) = new
    BY <1>1, <2>1, AssetDocument DEF WithAcceptance
  <2> HIDE DEF as
  <2>4. new \in Documents /\ new.revision = p.revision /\ new.layout = p.layout /\ new.assets = as
    BY <1>1, <2>2 DEF Documents
  <2> HIDE DEF new
  <2>5. Revised(r, Invalidated(new))
    BY <1>4, <2>2, <2>4, InvalidatedDocument DEF Revised, AcceptCanonical
  <2> QED
    BY <1>2, <1>4, <2>3, <2>5 DEF AcceptCanonical
<1>5. ASSUME NEW targets \in (SUBSET Keys) \ {{}}, ApplyKeycap(r, targets)
      PROVE  GoesOn(r) /\ (UNCHANGED storeVars \/ RevisesProject(r))
  <2> DEFINE layout == [k \in Keys |-> IF k \in targets THEN req[r].asset ELSE p.layout[k]]
  <2>1. layout \in [Keys -> Assets \cup {NoAsset}]
    BY <1>1 DEF RequestStates, Documents
  <2>2. CommitOrConflict(r, Invalidated([p EXCEPT !.layout = layout]))
    BY <1>5 DEF ApplyKeycap
  <2> HIDE DEF layout
  <2> QED
    BY <1>2, <1>3, <2>1, <2>2
<1>6. CASE PatchLayout(r)
  <2>1. PICK doc \in Seen : CommitOrConflict(r, Invalidated([p EXCEPT !.layout = doc.layout]))
    BY <1>6 DEF PatchLayout
  <2>2. doc \in Documents
    BY DEF Seen, TypeInv, TypeOK, Rows
  <2>3. doc.layout \in [Keys -> Assets \cup {NoAsset}]
    BY <2>2 DEF Documents
  <2> QED
    BY <1>2, <1>3, <2>1, <2>3
<1> QED
  BY <1>4, <1>5, <1>6

Arrives(r) == Arrive(r) \/ \E t \in Tasks : ArrivePoll(r, t)

\* Every step is the provider's, or one request's of one of four kinds.
LEMMA StepKinds ==
    ASSUME TypeInv, Next
    PROVE  \/ \E t \in Tasks : ProviderProgress(t)
           \/ \E r \in Requests :
               \/ Arrives(r)
               \/ GoesOn(r) /\ (UNCHANGED storeVars \/ WritesMetadata(r) \/ RevisesProject(r))
<1>1. ASSUME NEW r \in Requests, Submit(r)
      PROVE  GoesOn(r) /\ (UNCHANGED storeVars \/ WritesMetadata(r))
  BY <1>1, QuietStep, EndingStep, SubmissionStep DEF Submit
<1>2. ASSUME NEW r \in Requests, Poll(r)
      PROVE  GoesOn(r) /\ (UNCHANGED storeVars \/ WritesMetadata(r))
  BY <1>2, QuietStep, EndingStep, PollStep DEF Poll
<1>3. ASSUME NEW r \in Requests, ChangeAssets(r)
      PROVE  GoesOn(r) /\ (UNCHANGED storeVars \/ WritesMetadata(r) \/ RevisesProject(r))
  BY <1>3, EndingStep, DecisionStep, MutationStep DEF ChangeAssets
<1>4. ASSUME NEW r \in Requests, Abandon(r)
      PROVE  GoesOn(r) /\ UNCHANGED storeVars
  BY <1>4, EndingStep
<1>5. Pollers \subseteq Requests
  BY GenerationAssumption
<1> QED
  BY <1>1, <1>2, <1>3, <1>4, <1>5 DEF Next, Arrives

\* The store stays well formed under both kinds of write.
LEMMA StoreType ==
    ASSUME TypeInv, NEW r \in Requests,
           UNCHANGED storeVars \/ WritesMetadata(r) \/ RevisesProject(r)
    PROVE  /\ live' \in BOOLEAN
           /\ row' \in Rows
           /\ DOMAIN snapshots' \subseteq Nat \ {0}
           /\ snapshots' \in [DOMAIN snapshots' -> Documents]
<1>1. CASE UNCHANGED storeVars
  BY <1>1 DEF storeVars, TypeInv, TypeOK
<1>2. CASE WritesMetadata(r)
  BY <1>2, SyncedRow DEF WritesMetadata, PersistProjectMetadata, TypeInv, TypeOK
<1>3. CASE RevisesProject(r)
  <2>1. PICK p \in Documents : CommitProjectMutation(req[r].loaded, p)
    BY <1>3 DEF RevisesProject
  <2> DEFINE new == [p EXCEPT !.revision = NextRevision(p)]
  <2>2. new \in Documents /\ new.revision \in Nat \ {0}
    BY NextDocument DEF Documents
  <2> HIDE DEF new
  <2>3. /\ row' = SyncProjectRow(req[r].loaded, new)
        /\ snapshots' = [n \in DOMAIN snapshots \cup {new.revision} |->
                              IF n = new.revision THEN new ELSE snapshots[n]]
        /\ live' = live
    BY <2>1 DEF CommitProjectMutation, new
  <2>4. row' \in Rows
    BY <2>2, <2>3, SyncedRow DEF TypeInv, TypeOK
  <2> QED
    BY <2>2, <2>3, <2>4 DEF TypeInv, TypeOK
<1> QED
  BY <1>1, <1>2, <1>3

\* What a step does to the registries and the provider, request by request.
RegistryTypes ==
    /\ provider \in [Tasks -> {"none", "in_progress", "succeeded", "failed"}]
    /\ jobs \in [Tasks -> JobStates]
    /\ libraryJobs \subseteq SUBSET Placeholders
    /\ artifacts \subseteq Tasks
    /\ submitted \in Nat
    /\ completed \in [Assets -> Nat]

\* A library job adds itself to the usage of what it delivers, and to no other.
LEMMA LibraryAdds ==
    ASSUME TypeInv, NEW as \in SUBSET (Placeholders \ UNION libraryJobs),
           libraryJobs' = libraryJobs \cup {as},
           completed' = [a \in Assets |-> completed[a] + (IF a \in as THEN 1 ELSE 0)]
    PROVE  completed' \in [Assets -> Nat] /\ LibraryExact'
<1>1. completed \in [Assets -> Nat] /\ Placeholders \subseteq Assets
  BY DEF TypeInv, TypeOK, Assets
<1>2. \A a \in Assets : completed[a] \in Nat /\ completed[a] + 1 \in Nat /\ completed[a] + 0 \in Nat
  BY <1>1
<1>3. completed' \in [Assets -> Nat]
  <2>1. \A a \in Assets : completed[a] + (IF a \in as THEN 1 ELSE 0) \in Nat
    BY <1>2, Zenon
  <2> QED
    BY <2>1, Zenon
<1>4. ASSUME NEW p \in Placeholders
      PROVE  completed'[p] = Cardinality({job \in libraryJobs' : p \in job})
  <2>1. completed'[p] = completed[p] + (IF p \in as THEN 1 ELSE 0) /\ completed[p] \in Nat
    BY <1>1
  <2>2. CASE p \in as
    <3>1. {job \in libraryJobs' : p \in job} = {as}
      <4>1. \A job \in libraryJobs : p \notin job
        BY <2>2
      <4> QED
        BY <2>2, <4>1
    <3>2. completed[p] = 0
      BY <2>2, UnusedPlaceholder DEF TypeInv
    <3>3. completed'[p] = 1
      BY <2>1, <2>2, <3>2
    <3>4. Cardinality({as}) = 1
      BY FS_Singleton
    <3> QED
      BY <3>1, <3>3, <3>4
  <2>3. CASE p \notin as
    <3>1. {job \in libraryJobs' : p \in job} = {job \in libraryJobs : p \in job}
      BY <2>3
    <3>2. completed[p] = Cardinality({job \in libraryJobs : p \in job})
      BY DEF TypeInv, LibraryExact
    <3>3. completed'[p] = completed[p]
      BY <2>1, <2>3
    <3> QED
      BY <3>1, <3>2, <3>3
  <2> QED
    BY <2>2, <2>3
<1> QED
  BY <1>3, <1>4 DEF LibraryExact

\* Steps that record no library job leave the usage of the placeholders alone.
LEMMA LibraryUnmoved ==
    ASSUME LibraryExact, UNCHANGED libraryJobs,
           \A p \in Placeholders : completed'[p] = completed[p]
    PROVE  LibraryExact'
  BY DEF LibraryExact

\* A poll in progress is about a task.
LEMMA PolledTask ==
    ASSUME TypeInv, NEW r \in Requests, req[r].handler = "poll", req[r].pc \notin Over
    PROVE  req[r].asset \in Tasks /\ req[r].goal \in JobStates /\ req[r].job \in JobStates
           /\ jobs[req[r].asset] \in JobStates
  BY DEF TypeInv, TypeOK, Started, RequestStates

LEMMA RegistryType ==
    ASSUME TypeInv, Next
    PROVE  RegistryTypes'
<1>1. RegistryTypes
  BY DEF TypeInv, TypeOK, RegistryTypes
<1>2. ASSUME UNCHANGED <<provider, registryVars>>
      PROVE  RegistryTypes'
  BY <1>1, <1>2 DEF RegistryTypes, registryVars
<1>3. ASSUME NEW r \in Requests, Submit(r)
      PROVE  RegistryTypes'
  <2>1. CASE SubmitToProvider(r) \/ ProviderRefuses(r)
    <3>1. PICK ts \in SUBSET FreshTasks :
              provider' = [t \in Tasks |-> IF t \in ts THEN "in_progress" ELSE provider[t]]
      BY <2>1 DEF SubmitToProvider, ProviderRefuses, kSubset
    <3> QED
      BY <1>1, <2>1, <3>1 DEF RegistryTypes, registryVars, SubmitToProvider, ProviderRefuses
  <2>2. CASE RecordSubmission(r)
    <3>1. req[r].tasks \in SUBSET Tasks
      BY DEF TypeInv, TypeOK, RequestStates
    <3>2. Cardinality(req[r].tasks) \in Nat
      BY <3>1, FS_Subset, FS_CardinalityType, GenerationAssumption
    <3> QED
      BY <1>1, <2>2, <3>2 DEF RegistryTypes, RecordSubmission, JobStates
  <2>3. CASE SubmitToShellLibrary(r)
    <3>1. PICK as \in SUBSET (Placeholders \ UNION libraryJobs) :
              /\ libraryJobs' = libraryJobs \cup {as}
              /\ completed' = [a \in Assets |-> completed[a] + (IF a \in as THEN 1 ELSE 0)]
      BY <2>3 DEF SubmitToShellLibrary, kSubset
    <3>2. completed' \in [Assets -> Nat] /\ LibraryExact'
      BY <3>1, LibraryAdds
    <3>3. libraryJobs' \subseteq SUBSET Placeholders
      BY <1>1, <3>1 DEF RegistryTypes
    <3> QED
      BY <1>1, <2>3, <3>2, <3>3 DEF RegistryTypes, SubmitToShellLibrary
  <2>4. CASE \E n \in 1 .. MaxVariants : CheckQuota(r, n)
    BY <1>2, <2>4 DEF CheckQuota
  <2> QED
    BY <1>3, <2>1, <2>2, <2>3, <2>4 DEF Submit
<1>4. ASSUME NEW r \in Requests, Poll(r)
      PROVE  RegistryTypes'
  <2>1. CASE IngestAsset(r)
    <3>1. req[r].asset \in Tasks
      BY <2>1, PolledTask DEF IngestAsset, At, Over
    <3> QED
      BY <1>1, <2>1, <3>1 DEF RegistryTypes, IngestAsset
  <2>2. CASE IngestionFails(r)
    <3>1. JobStatusAfter(r, "failed") \in JobStates
      BY <2>2, PolledTask DEF IngestionFails, At, Over, JobStatusAfter, JobStates
    <3> QED
      BY <1>1, <2>2, <3>1 DEF RegistryTypes, IngestionFails
  <2>3. CASE FinishPoll(r)
    <3>1. req[r].asset \in Tasks /\ req[r].asset \in Assets
          /\ JobStatusAfter(r, req[r].goal) \in JobStates
      BY <2>3, PolledTask DEF FinishPoll, At, Over, JobStatusAfter, Assets
    <3>2. jobs' \in [Tasks -> JobStates]
      BY <1>1, <2>3, <3>1 DEF RegistryTypes, FinishPoll
    <3>3. completed' \in [Assets -> Nat]
      BY <1>1, <2>3, <3>1 DEF RegistryTypes, FinishPoll
    <3> QED
      BY <1>1, <2>3, <3>2, <3>3 DEF RegistryTypes, FinishPoll
  <2>4. CASE \/ FindJob(r) \/ PollProvider(r) \/ FindIngestedAsset(r) \/ IngestCollides(r)
             \/ ReadJobs(r)
    BY <1>2, <2>4 DEF FindJob, PollProvider, FindIngestedAsset, IngestCollides, ReadJobs
  <2> QED
    BY <1>4, <2>1, <2>2, <2>3, <2>4 DEF Poll
<1>5. ASSUME NEW r \in Requests, ChangeAssets(r) \/ Abandon(r)
      PROVE  RegistryTypes'
  BY <1>2, <1>5 DEF ChangeAssets, Abandon, RefuseAssetChange, RefreshAndCheck, AcceptCanonical,
                    AcceptMetadataOnly, ApplyKeycap, PatchLayout, CommitOrConflict
<1>6. ASSUME NEW r \in Requests, Arrives(r)
      PROVE  RegistryTypes'
  BY <1>2, <1>6, ArrivedRequest DEF Arrives
<1>7. ASSUME NEW t \in Tasks, ProviderProgress(t)
      PROVE  RegistryTypes'
  BY <1>1, <1>7 DEF RegistryTypes, ProviderProgress, registryVars
<1>8. Pollers \subseteq Requests
  BY GenerationAssumption
<1> QED
  BY <1>3, <1>4, <1>5, <1>6, <1>7, <1>8 DEF Next, Arrives

LEMMA LibraryStep ==
    ASSUME TypeInv, Next
    PROVE  LibraryExact'
<1>1. LibraryExact
  BY DEF TypeInv
<1>2. ASSUME UNCHANGED registryVars
      PROVE  LibraryExact'
  BY <1>1, <1>2, LibraryUnmoved DEF registryVars
<1>3. ASSUME NEW r \in Requests, Submit(r)
      PROVE  LibraryExact'
  <2>1. CASE SubmitToShellLibrary(r)
    <3>1. PICK as \in SUBSET (Placeholders \ UNION libraryJobs) :
              /\ libraryJobs' = libraryJobs \cup {as}
              /\ completed' = [a \in Assets |-> completed[a] + (IF a \in as THEN 1 ELSE 0)]
      BY <2>1 DEF SubmitToShellLibrary, kSubset
    <3> QED
      BY <3>1, LibraryAdds
  <2>2. CASE RecordSubmission(r)
    BY <1>1, <2>2, LibraryUnmoved DEF RecordSubmission
  <2>3. CASE \/ \E n \in 1 .. MaxVariants : CheckQuota(r, n)
             \/ SubmitToProvider(r) \/ ProviderRefuses(r)
    BY <1>2, <2>3 DEF CheckQuota, SubmitToProvider, ProviderRefuses
  <2> QED
    BY <1>3, <2>1, <2>2, <2>3 DEF Submit
<1>4. ASSUME NEW r \in Requests, Poll(r)
      PROVE  LibraryExact'
  <2>1. CASE IngestAsset(r) \/ IngestionFails(r)
    BY <1>1, <2>1, LibraryUnmoved DEF IngestAsset, IngestionFails
  <2>2. CASE FinishPoll(r)
    <3>1. req[r].asset \in Tasks
      BY <2>2, PolledTask DEF FinishPoll, At, Over
    <3>2. \A p \in Placeholders : p # req[r].asset
      BY <3>1, GenerationAssumption
    <3>3. PICK n : completed' = [completed EXCEPT ![req[r].asset] = n]
      BY <2>2 DEF FinishPoll
    <3>4. completed \in [Assets -> Nat] /\ Placeholders \subseteq Assets
      BY DEF TypeInv, TypeOK, Assets
    <3>5. \A p \in Placeholders : completed'[p] = completed[p]
      BY <3>2, <3>3, <3>4
    <3> QED
      BY <1>1, <2>2, <3>5, LibraryUnmoved DEF FinishPoll
  <2>3. CASE \/ FindJob(r) \/ PollProvider(r) \/ FindIngestedAsset(r) \/ IngestCollides(r)
             \/ ReadJobs(r)
    BY <1>2, <2>3 DEF FindJob, PollProvider, FindIngestedAsset, IngestCollides, ReadJobs
  <2> QED
    BY <1>4, <2>1, <2>2, <2>3 DEF Poll
<1>5. ASSUME NEW r \in Requests, ChangeAssets(r) \/ Abandon(r)
      PROVE  LibraryExact'
  BY <1>2, <1>5 DEF ChangeAssets, Abandon, RefuseAssetChange, RefreshAndCheck, AcceptCanonical,
                    AcceptMetadataOnly, ApplyKeycap, PatchLayout, CommitOrConflict
<1>6. ASSUME NEW r \in Requests, Arrives(r)
      PROVE  LibraryExact'
  BY <1>2, <1>6, ArrivedRequest DEF Arrives
<1>7. ASSUME NEW t \in Tasks, ProviderProgress(t)
      PROVE  LibraryExact'
  BY <1>2, <1>7 DEF ProviderProgress
<1>8. Pollers \subseteq Requests
  BY GenerationAssumption
<1> QED
  BY <1>3, <1>4, <1>5, <1>6, <1>7, <1>8 DEF Next, Arrives

LEMMA TypeStep == TypeInv /\ [Next]_vars => TypeInv'
<1> SUFFICES ASSUME TypeInv, [Next]_vars PROVE TypeInv'
  OBVIOUS
<1>1. CASE Next
  <2>1. RegistryTypes' /\ LibraryExact'
    BY <1>1, RegistryType, LibraryStep
  <2>2. ASSUME NEW t \in Tasks, ProviderProgress(t)
        PROVE  TypeInv'
    BY <2>1, <2>2 DEF ProviderProgress, storeVars, TypeInv, TypeOK, RegistryTypes
  <2>3. ASSUME NEW r \in Requests, Arrives(r)
        PROVE  TypeInv'
    <3>1. /\ UNCHANGED storeVars
          /\ req' \in [Requests -> RequestStates] /\ \A o \in Requests : Started(req'[o])
      BY <2>3, ArrivedRequest DEF Arrives
    <3> QED
      BY <2>1, <3>1 DEF storeVars, TypeInv, TypeOK, RegistryTypes
  <2>4. ASSUME NEW r \in Requests, GoesOn(r),
               UNCHANGED storeVars \/ WritesMetadata(r) \/ RevisesProject(r)
        PROVE  TypeInv'
    <3>1. req' \in [Requests -> RequestStates] /\ \A o \in Requests : Started(req'[o])
      BY <2>4 DEF GoesOn
    <3> QED
      BY <2>1, <2>4, <3>1, StoreType DEF TypeInv, TypeOK, RegistryTypes
  <2> QED
    BY <1>1, <2>2, <2>3, <2>4, StepKinds
<1>2. CASE UNCHANGED vars
  <2>1. LibraryExact'
    BY <1>2, LibraryUnmoved DEF vars, TypeInv
  <2> QED
    BY <1>2, <2>1 DEF vars, TypeInv, TypeOK
<1> QED
  BY <1>1, <1>2

LEMMA InitType == Init => TypeInv
<1> SUFFICES ASSUME Init PROVE TypeInv
  OBVIOUS
<1>1. NewProject \in Documents /\ StartProject \in Documents /\ NewProject.revision = 1
  BY NewDocuments
<1>2. live \in BOOLEAN /\ row \in Rows
  BY <1>1, RowOfDocument DEF Init
<1>3. /\ DOMAIN snapshots \subseteq Nat \ {0}
      /\ snapshots \in [DOMAIN snapshots -> Documents]
  BY <1>1 DEF Init
<1>4. Closed("idle") \in RequestStates /\ Closed("idle").pc = "idle"
  BY ClosedRequest DEF PCs
<1>5. req \in [Requests -> RequestStates] /\ \A r \in Requests : Started(req[r])
  BY <1>4 DEF Init, Started, Over
<1>6. Cardinality(Delivered) \in Nat
  BY GenerationAssumption, FS_Subset, FS_CardinalityType
<1>7. RegistryTypes
  BY <1>6, GenerationAssumption DEF Init, RegistryTypes, JobStates
<1>8. LibraryExact
  <2> SUFFICES ASSUME NEW p \in Placeholders
               PROVE  completed[p] = Cardinality({job \in libraryJobs : p \in job})
    BY DEF LibraryExact
  <2>1. p \in Assets /\ p \notin Delivered
    BY GenerationAssumption DEF Assets
  <2>2. {job \in libraryJobs : p \in job} = {}
    BY DEF Init
  <2> QED
    BY <2>1, <2>2, FS_EmptySet DEF Init
<1> QED
  BY <1>2, <1>3, <1>5, <1>7, <1>8 DEF TypeInv, TypeOK, RegistryTypes

\* The type invariant holds of every behaviour of the generation requests.
THEOREM TypeCorrect == Spec => []TypeOK
<1>1. TypeInv => TypeOK
  BY DEF TypeInv
<1> QED
  BY <1>1, InitType, TypeStep, PTL DEF Spec

-----------------------------------------------------------------------------
(* Jobs, the quota and the provider.  That jobs follow their tasks is only *)
(* inductive with what each poll has been told and not yet written, and    *)
(* that the counter counts jobs with what each submission has created and  *)
(* not yet recorded.                                                       *)

\* What a request has learned of its task, or created, with the states of the
\* provider and of the jobs it was learned from.
Knows(q, prov, js) ==
    /\ q.handler = "poll" /\ q.pc \in {"polling", "fetched", "ingested", "reconciled"} =>
        /\ js[q.asset] # "none" /\ q.job # "none" /\ q.goal # "none"
        /\ q.pc = "fetched" => q.goal = "succeeded"
        /\ q.goal = "succeeded" => prov[q.asset] = "succeeded"
        /\ q.goal = "failed" => prov[q.asset] \in {"failed", "succeeded"}
    /\ \A t \in q.tasks : prov[t] # "none" /\ js[t] = "none"

\* The counter counts the jobs of provider tasks.
CounterExact ==
    /\ submitted = Cardinality({t \in Tasks : jobs[t] # "none"})
    /\ \A t \in Tasks : jobs[t] # "none" => provider[t] # "none"

TasksApart == \A r, o \in Requests : r # o => req[r].tasks \cap req[o].tasks = {}

JobsInv ==
    /\ TypeInv
    /\ CounterExact
    /\ JobFollowsProvider
    /\ \A r \in Requests : Knows(req[r], provider, jobs)
    /\ TasksApart

\* Neither the jobs nor the provider's tasks go back.
Advances(prov, js, prov2, js2) ==
    \A t \in Tasks :
        /\ js[t] # "none" => js2[t] # "none"
        /\ prov[t] # "none" => prov2[t] # "none"
        /\ prov[t] \in {"succeeded", "failed"} => prov2[t] = prov[t]

LEMMA KnowsStays ==
    ASSUME NEW q \in RequestStates, NEW prov, NEW js, NEW prov2, NEW js2,
           Started(q), Knows(q, prov, js), Advances(prov, js, prov2, js2),
           \A t \in q.tasks : js[t] = "none" => js2[t] = "none"
    PROVE  Knows(q, prov2, js2)
<1>1. q.tasks \subseteq Tasks
  BY DEF RequestStates
<1>2. CASE q.handler = "poll" /\ q.pc \in {"polling", "fetched", "ingested", "reconciled"}
  <2>1. q.asset \in Tasks
    BY <1>2 DEF Started, Over
  <2> QED
    BY <1>1, <1>2, <2>1 DEF Knows, Advances
<1>3. CASE ~ (q.handler = "poll" /\ q.pc \in {"polling", "fetched", "ingested", "reconciled"})
  BY <1>1, <1>3 DEF Knows, Advances
<1> QED
  BY <1>2, <1>3

\* A step of one request keeps the part of the invariant that is about requests.
LEMMA RequestsKnow ==
    ASSUME JobsInv, NEW r \in Requests, TypeInv',
           \A o \in Requests \ {r} : req'[o] = req[o],
           Advances(provider, jobs, provider', jobs'),
           \A t \in Tasks : jobs[t] = "none" /\ jobs'[t] # "none" => t \in req[r].tasks,
           req'[r].tasks \subseteq req[r].tasks,
           Knows(req'[r], provider', jobs')
    PROVE  (\A o \in Requests : Knows(req'[o], provider', jobs')) /\ TasksApart'
<1>1. ASSUME NEW o \in Requests, o # r
      PROVE  Knows(req'[o], provider', jobs')
  <2>1. req'[o] = req[o] /\ req[o] \in RequestStates /\ Started(req[o])
    BY <1>1 DEF JobsInv, TypeInv, TypeOK
  <2>2. req[o].tasks \subseteq Tasks
    BY <2>1 DEF RequestStates
  <2>3. \A t \in req[o].tasks : jobs[t] = "none" => jobs'[t] = "none"
    BY <1>1, <2>2 DEF JobsInv, TasksApart
  <2>4. Knows(req[o], provider, jobs)
    BY DEF JobsInv
  <2>5. Knows(req[o], provider', jobs')
    BY <2>1, <2>3, <2>4, KnowsStays
  <2> QED
    BY <2>1, <2>5
<1>2. TasksApart'
  <2> SUFFICES ASSUME NEW o1 \in Requests, NEW o2 \in Requests, o1 # o2
               PROVE  req'[o1].tasks \cap req'[o2].tasks = {}
    BY Zenon DEF TasksApart
  <2>1. req'[o1].tasks \subseteq req[o1].tasks /\ req'[o2].tasks \subseteq req[o2].tasks
    OBVIOUS
  <2> QED
    BY <2>1 DEF JobsInv, TasksApart
<1> QED
  BY <1>1, <1>2

\* A request that is over, has only arrived, or is no poll, knows nothing.
LEMMA KnowsNothing ==
    ASSUME NEW q, NEW prov, NEW js, q.tasks = {},
           q.handler # "poll" \/ q.pc \in Over \/ q.pc = "loaded"
    PROVE  Knows(q, prov, js)
  BY DEF Knows, Over

\* Nothing of the registries or the provider that the invariant speaks of changes.
LEMMA JobsUnmoved ==
    ASSUME JobsInv, UNCHANGED <<provider, jobs, submitted>>
    PROVE  /\ CounterExact' /\ JobFollowsProvider'
           /\ Advances(provider, jobs, provider', jobs')
           /\ \A t \in Tasks : jobs[t] = "none" /\ jobs'[t] # "none" => t \in {}
  BY DEF JobsInv, CounterExact, JobFollowsProvider, Advances

\* Steps that leave jobs and tasks alone, of a request that is not polling on.
LEMMA JobsAside ==
    ASSUME JobsInv, TypeInv', NEW r \in Requests, GoesOn(r), ~ SubmitToProvider(r),
           UNCHANGED <<provider, jobs, submitted>>,
           req[r].handler # "poll" \/ req'[r].pc \in Over
    PROVE  JobsInv'
<1>1. req'[r].tasks \subseteq req[r].tasks /\ \A o \in Requests \ {r} : req'[o] = req[o]
  BY DEF GoesOn
<1>2. Knows(req[r], provider, jobs)
  BY DEF JobsInv
<1>3. Knows(req'[r], provider', jobs')
  <2>1. CASE req'[r].pc \in Over
    BY <1>1, <1>2, <2>1 DEF Knows, Over
  <2>2. CASE req'[r].pc \notin Over
    <3>1. req[r].handler # "poll" /\ req'[r].handler = req[r].handler
      BY <2>2 DEF GoesOn
    <3> QED
      BY <1>1, <1>2, <3>1 DEF Knows
  <2> QED
    BY <2>1, <2>2
<1>4. /\ CounterExact' /\ JobFollowsProvider'
      /\ Advances(provider, jobs, provider', jobs')
      /\ \A t \in Tasks : jobs[t] = "none" /\ jobs'[t] # "none" => t \in req[r].tasks
  BY JobsUnmoved
<1>5. (\A o \in Requests : Knows(req'[o], provider', jobs')) /\ TasksApart'
  BY <1>1, <1>3, <1>4, RequestsKnow
<1> QED
  BY <1>4, <1>5 DEF JobsInv

\* The steps of a poll that only learn.
LEMMA JobsLearned ==
    ASSUME JobsInv, TypeInv', NEW r \in Requests,
           \/ FindJob(r) \/ PollProvider(r)
           \/ FindIngestedAsset(r) \/ IngestAsset(r) \/ ReadJobs(r)
    PROVE  JobsInv'
<1> DEFINE t == req[r].asset
<1>1. /\ UNCHANGED <<provider, jobs, submitted>>
      /\ req[r].handler = "poll" /\ req[r].pc \notin Over
      /\ ~ SubmitToProvider(r)
  BY DEF FindJob, PollProvider, FindIngestedAsset, IngestAsset, ReadJobs, registryVars, At, Over,
         SubmitToProvider
<1>2. /\ TypeInv /\ t \in Tasks /\ Knows(req[r], provider, jobs)
      /\ req[r] \in RequestStates /\ req \in [Requests -> RequestStates]
  BY <1>1, PolledTask DEF JobsInv, TypeInv, TypeOK
<1>3. GoesOn(r)
  BY <1>2, QuietStep, PollStep
<1>4. CASE req'[r].pc \in Over
  BY <1>1, <1>3, <1>4, JobsAside
<1>5. CASE req'[r].pc \notin Over
  <2>1. req'[r].tasks = req[r].tasks /\ req'[r].handler = "poll"
        /\ \A o \in Requests \ {r} : req'[o] = req[o]
    BY <1>1, <1>3, <1>5 DEF GoesOn
  <2>2. Knows(req'[r], provider', jobs')
    <3>1. CASE FindJob(r)
      <4>1. jobs[t] # "none"
        <5> SUFFICES ASSUME jobs[t] = "none" PROVE FALSE
          OBVIOUS
        <5>1. Answer(r, "rejected")
          BY <3>1 DEF FindJob
        <5> QED
          BY <1>2, <1>5, <5>1, AnsweredRequest DEF Over
      <4>2. req'[r].asset = t /\ req'[r].job = jobs[t] /\ req'[r].goal = jobs[t]
            /\ req'[r].pc \in {"polling", "ingested"}
        BY <1>2, <3>1, <4>1 DEF FindJob, RequestStates
      <4>3. /\ jobs[t] = "succeeded" => provider[t] = "succeeded"
            /\ jobs[t] = "failed" => provider[t] \in {"failed", "succeeded"}
        BY <1>2 DEF JobsInv, JobFollowsProvider
      <4> QED
        BY <1>1, <1>2, <2>1, <4>1, <4>2, <4>3 DEF Knows
    <3>2. CASE PollProvider(r)
      <4>1. req'[r].asset = t /\ req'[r].job = req[r].job /\ req'[r].goal = provider[t]
            /\ req'[r].pc = IF provider[t] = "succeeded" THEN "fetched" ELSE "ingested"
        BY <1>2, <3>2 DEF PollProvider, RequestStates
      <4>2. req[r].pc = "polling"
        BY <3>2 DEF PollProvider, At
      <4>3. jobs[t] # "none" /\ provider[t] # "none"
        BY <1>1, <1>2, <4>2 DEF Knows, JobsInv, CounterExact
      <4> QED
        BY <1>1, <1>2, <2>1, <4>1, <4>2, <4>3 DEF Knows
    <3>3. CASE FindIngestedAsset(r) \/ IngestAsset(r) \/ ReadJobs(r)
      <4>1. req'[r].asset = t /\ req'[r].job = req[r].job /\ req'[r].goal = req[r].goal
            /\ req'[r].pc \in {"ingested", "reconciled"}
        BY <1>2, <3>3 DEF FindIngestedAsset, IngestAsset, ReadJobs, Goto, RequestStates
      <4>2. req[r].pc \in {"fetched", "ingested"}
        BY <3>3 DEF FindIngestedAsset, IngestAsset, ReadJobs, At
      <4> QED
        BY <1>1, <1>2, <2>1, <4>1, <4>2 DEF Knows
    <3> QED
      BY <3>1, <3>2, <3>3
  <2>3. /\ CounterExact' /\ JobFollowsProvider'
        /\ Advances(provider, jobs, provider', jobs')
        /\ \A u \in Tasks : jobs[u] = "none" /\ jobs'[u] # "none" => u \in req[r].tasks
    BY <1>1, JobsUnmoved
  <2>4. (\A o \in Requests : Knows(req'[o], provider', jobs')) /\ TasksApart'
    BY <2>1, <2>2, <2>3, RequestsKnow
  <2> QED
    BY <2>3, <2>4 DEF JobsInv
<1> QED
  BY <1>4, <1>5

\* The steps of a poll that move its job.
LEMMA JobsMoved ==
    ASSUME JobsInv, TypeInv', NEW r \in Requests, IngestionFails(r) \/ FinishPoll(r)
    PROVE  JobsInv'
<1> DEFINE t == req[r].asset
<1>1. /\ UNCHANGED <<provider, submitted>>
      /\ req[r].handler = "poll" /\ req[r].pc \in {"fetched", "reconciled"}
      /\ Answer(r, "ok") \/ Answer(r, "failed")
  BY DEF IngestionFails, FinishPoll, At
<1>2. /\ TypeInv /\ t \in Tasks /\ Knows(req[r], provider, jobs) /\ jobs[t] \in JobStates
      /\ jobs \in [Tasks -> JobStates]
  BY <1>1, PolledTask DEF JobsInv, TypeInv, TypeOK, Over
<1>3. PICK status \in JobStates :
          /\ jobs' = [jobs EXCEPT ![t] = status]
          /\ status # "none"
          /\ status = "succeeded" => provider[t] = "succeeded"
          /\ status = "failed" => provider[t] \in {"failed", "succeeded"}
  <2>1. /\ jobs[t] # "none" /\ req[r].goal # "none"
        /\ req[r].goal = "succeeded" => provider[t] = "succeeded"
        /\ req[r].goal = "failed" => provider[t] \in {"failed", "succeeded"}
        /\ jobs[t] = "succeeded" => provider[t] = "succeeded"
        /\ jobs[t] = "failed" => provider[t] \in {"failed", "succeeded"}
        /\ req[r].pc = "fetched" => provider[t] = "succeeded"
    BY <1>1, <1>2 DEF Knows, JobsInv, JobFollowsProvider
  <2>2. CASE IngestionFails(r)
    BY <1>2, <2>1, <2>2 DEF IngestionFails, JobStatusAfter, At, JobStates
  <2>3. CASE FinishPoll(r)
    <3>1. req[r].goal \in JobStates
      BY <1>1, <1>2, PolledTask DEF Over
    <3> QED
      BY <1>2, <2>1, <2>3, <3>1 DEF FinishPoll, JobStatusAfter
  <2> QED
    BY <2>2, <2>3
<1>4. req'[r].pc \in Over /\ req'[r].tasks = {} /\ \A o \in Requests \ {r} : req'[o] = req[o]
  BY <1>1, <1>2, AnsweredRequest DEF Over
<1>5. \A u \in Tasks : jobs'[u] = IF u = t THEN status ELSE jobs[u]
  BY <1>2, <1>3
<1>6. Knows(req'[r], provider', jobs')
  BY <1>4, KnowsNothing
<1>7. jobs[t] # "none"
  BY <1>1, <1>2 DEF Knows
<1>8. Advances(provider, jobs, provider', jobs')
  BY <1>1, <1>3, <1>5 DEF Advances
<1>9. CounterExact' /\ JobFollowsProvider'
  <2>1. {u \in Tasks : jobs'[u] # "none"} = {u \in Tasks : jobs[u] # "none"}
    BY <1>3, <1>5, <1>7
  <2> QED
    BY <1>1, <1>3, <1>5, <1>7, <2>1 DEF JobsInv, CounterExact, JobFollowsProvider
<1>10. (\A o \in Requests : Knows(req'[o], provider', jobs')) /\ TasksApart'
  BY <1>4, <1>5, <1>6, <1>7, <1>8, RequestsKnow
<1> QED
  BY <1>9, <1>10 DEF JobsInv

\* A submission creates fresh tasks ...
LEMMA JobsCreated ==
    ASSUME JobsInv, TypeInv', NEW r \in Requests, SubmitToProvider(r)
    PROVE  JobsInv'
<1>1. PICK ts \in SUBSET FreshTasks :
        /\ provider' = [t \in Tasks |-> IF t \in ts THEN "in_progress" ELSE provider[t]]
        /\ req' = [req EXCEPT ![r].pc = "created", ![r].tasks = ts]
        /\ UNCHANGED <<jobs, submitted>>
        /\ req[r].handler = "submit"
  BY DEF SubmitToProvider, kSubset, registryVars, At
<1>2. /\ \A t \in Tasks : provider'[t] = IF t \in ts THEN "in_progress" ELSE provider[t]
      /\ \A t \in ts : t \in Tasks /\ provider[t] = "none" /\ jobs[t] = "none"
  BY <1>1 DEF FreshTasks, JobsInv, CounterExact
<1>3. /\ req'[r].tasks = ts /\ req'[r].handler = "submit"
      /\ \A o \in Requests \ {r} : req'[o] = req[o]
  BY <1>1 DEF JobsInv, TypeInv, TypeOK, RequestStates
<1>4. Advances(provider, jobs, provider', jobs')
  BY <1>1, <1>2 DEF Advances
<1>5. ASSUME NEW o \in Requests
      PROVE  Knows(req'[o], provider', jobs')
  <2>1. CASE o = r
    BY <1>1, <1>2, <1>3, <2>1 DEF Knows
  <2>2. CASE o # r
    <3>1. /\ req'[o] = req[o] /\ req[o] \in RequestStates /\ Started(req[o])
          /\ Knows(req[o], provider, jobs)
      BY <1>3, <2>2 DEF JobsInv, TypeInv, TypeOK
    <3>2. \A t \in req[o].tasks : jobs[t] = "none" => jobs'[t] = "none"
      BY <1>1
    <3>3. Knows(req[o], provider', jobs')
      BY <1>4, <3>1, <3>2, KnowsStays
    <3> QED
      BY <3>1, <3>3
  <2> QED
    BY <2>1, <2>2
<1>6. TasksApart'
  <2> SUFFICES ASSUME NEW o1 \in Requests, NEW o2 \in Requests, o1 # o2
               PROVE  req'[o1].tasks \cap req'[o2].tasks = {}
    BY Zenon DEF TasksApart
  <2>1. \A o \in Requests : req[o].tasks \cap ts = {}
    BY <1>2 DEF JobsInv, Knows
  <2> QED
    BY <1>3, <2>1 DEF JobsInv, TasksApart
<1>7. CounterExact' /\ JobFollowsProvider'
  <2>1. {t \in Tasks : jobs'[t] # "none"} = {t \in Tasks : jobs[t] # "none"}
    BY <1>1
  <2> QED
    BY <1>1, <1>2, <2>1 DEF JobsInv, CounterExact, JobFollowsProvider
<1> QED
  BY <1>5, <1>6, <1>7 DEF JobsInv

\* ... and records a job for each of them, and no other.
LEMMA JobsRecorded ==
    ASSUME JobsInv, TypeInv', NEW r \in Requests, RecordSubmission(r)
    PROVE  JobsInv'
<1> DEFINE ts == req[r].tasks
           recorded == {t \in Tasks : jobs[t] # "none"}
<1>1. /\ jobs' = [t \in Tasks |-> IF t \in ts THEN "submitted" ELSE jobs[t]]
      /\ submitted' = submitted + Cardinality(ts)
      /\ UNCHANGED provider
      /\ Answer(r, "ok")
  BY DEF RecordSubmission
<1>2. /\ TypeInv /\ ts \subseteq Tasks /\ \A t \in ts : provider[t] # "none" /\ jobs[t] = "none"
  BY DEF JobsInv, TypeInv, TypeOK, RequestStates, Knows
<1>3. \A t \in Tasks : jobs'[t] = IF t \in ts THEN "submitted" ELSE jobs[t]
  BY <1>1
<1>4. req'[r].pc \in Over /\ req'[r].tasks = {} /\ \A o \in Requests \ {r} : req'[o] = req[o]
  BY <1>1, <1>2, AnsweredRequest DEF Over
<1>5. Advances(provider, jobs, provider', jobs')
  BY <1>1, <1>3 DEF Advances
<1>6. Knows(req'[r], provider', jobs')
  BY <1>4, KnowsNothing
<1>7. (\A o \in Requests : Knows(req'[o], provider', jobs')) /\ TasksApart'
  BY <1>3, <1>4, <1>5, <1>6, RequestsKnow
<1>8. CounterExact' /\ JobFollowsProvider'
  <2>1. {t \in Tasks : jobs'[t] # "none"} = recorded \cup ts
    BY <1>2, <1>3
  <2>2. recorded \cap ts = {}
    BY <1>2
  <2>3. recorded \in SUBSET Tasks /\ ts \in SUBSET Tasks /\ IsFiniteSet(Tasks)
    BY <1>2, GenerationAssumption
  <2>4. IsFiniteSet(recorded) /\ IsFiniteSet(ts)
    BY <2>3, FS_Subset
  <2>5. /\ Cardinality(recorded) \in Nat /\ Cardinality(ts) \in Nat
        /\ Cardinality(recorded \cup ts)
               = Cardinality(recorded) + Cardinality(ts) - Cardinality(recorded \cap ts)
    BY <2>4, FS_CardinalityType, FS_Union
  <2>6. Cardinality(recorded \cap ts) = 0
    BY <2>2, FS_EmptySet
  <2>7. submitted = Cardinality(recorded)
    BY DEF JobsInv, CounterExact
  <2> HIDE DEF recorded, ts
  <2>8. Cardinality(recorded \cup ts) = submitted + Cardinality(ts)
    BY <2>5, <2>6, <2>7
  <2>9. submitted' = Cardinality({t \in Tasks : jobs'[t] # "none"})
    BY <1>1, <2>1, <2>8
  <2> QED
    BY <1>1, <1>2, <1>3, <2>9 DEF JobsInv, CounterExact, JobFollowsProvider, ts
<1> QED
  BY <1>7, <1>8 DEF JobsInv

\* The provider, on its own or when it fails a submission.
LEMMA JobsProvided ==
    ASSUME JobsInv, TypeInv',
           \/ \E r \in Requests : ProviderRefuses(r)
           \/ \E t \in Tasks : ProviderProgress(t)
    PROVE  JobsInv'
<1>1. CASE \E t \in Tasks : ProviderProgress(t)
  <2>1. PICK t \in Tasks, status \in {"succeeded", "failed"} :
            /\ provider[t] = "in_progress" /\ provider' = [provider EXCEPT ![t] = status]
            /\ UNCHANGED <<jobs, submitted, req>>
    BY <1>1 DEF ProviderProgress, registryVars
  <2>2. \A u \in Tasks : provider'[u] = IF u = t THEN status ELSE provider[u]
    BY <2>1 DEF JobsInv, TypeInv, TypeOK
  <2>3. Advances(provider, jobs, provider', jobs')
    BY <2>1, <2>2 DEF Advances
  <2>4. ASSUME NEW o \in Requests
        PROVE  Knows(req'[o], provider', jobs')
    <3>1. /\ req'[o] = req[o] /\ req[o] \in RequestStates /\ Started(req[o])
          /\ Knows(req[o], provider, jobs)
      BY <2>1 DEF JobsInv, TypeInv, TypeOK
    <3>2. \A u \in req[o].tasks : jobs[u] = "none" => jobs'[u] = "none"
      BY <2>1
    <3>3. Knows(req[o], provider', jobs')
      BY <2>3, <3>1, <3>2, KnowsStays
    <3> QED
      BY <3>1, <3>3
  <2>5. CounterExact' /\ JobFollowsProvider' /\ TasksApart'
    BY <2>1, <2>2 DEF JobsInv, CounterExact, JobFollowsProvider, TasksApart
  <2> QED
    BY <2>4, <2>5 DEF JobsInv
<1>2. ASSUME NEW r \in Requests, ProviderRefuses(r)
      PROVE  JobsInv'
  <2>1. PICK ts \in SUBSET FreshTasks :
            /\ provider' = [t \in Tasks |-> IF t \in ts THEN "in_progress" ELSE provider[t]]
            /\ UNCHANGED <<jobs, submitted>>
            /\ Answer(r, "failed")
    BY <1>2 DEF ProviderRefuses, registryVars
  <2>2. /\ \A t \in Tasks : provider'[t] = IF t \in ts THEN "in_progress" ELSE provider[t]
        /\ \A t \in ts : t \in Tasks /\ provider[t] = "none" /\ jobs[t] = "none"
    BY <2>1 DEF FreshTasks, JobsInv, CounterExact
  <2>3. req'[r].pc \in Over /\ req'[r].tasks = {} /\ \A o \in Requests \ {r} : req'[o] = req[o]
    BY <2>1, AnsweredRequest DEF Over, JobsInv
  <2>4. Advances(provider, jobs, provider', jobs')
    BY <2>1, <2>2 DEF Advances
  <2>5. Knows(req'[r], provider', jobs')
    BY <2>3, KnowsNothing
  <2>6. (\A o \in Requests : Knows(req'[o], provider', jobs')) /\ TasksApart'
    BY <2>1, <2>3, <2>4, <2>5, RequestsKnow
  <2>7. CounterExact' /\ JobFollowsProvider'
    <3>1. {t \in Tasks : jobs'[t] # "none"} = {t \in Tasks : jobs[t] # "none"}
      BY <2>1
    <3> QED
      BY <2>1, <2>2, <3>1 DEF JobsInv, CounterExact, JobFollowsProvider
  <2> QED
    BY <2>6, <2>7 DEF JobsInv
<1> QED
  BY <1>1, <1>2

\* A request that ends without touching jobs or tasks.
LEMMA JobsAnswered ==
    ASSUME JobsInv, TypeInv', NEW r \in Requests, NEW outcome \in Over, Answer(r, outcome),
           UNCHANGED <<provider, jobs, submitted>>
    PROVE  JobsInv'
<1>1. /\ req'[r].pc \in Over /\ req'[r].tasks = {}
      /\ \A o \in Requests \ {r} : req'[o] = req[o]
  BY AnsweredRequest DEF JobsInv
<1>2. /\ CounterExact' /\ JobFollowsProvider'
      /\ Advances(provider, jobs, provider', jobs')
      /\ \A u \in Tasks : jobs[u] = "none" /\ jobs'[u] # "none" => u \in req[r].tasks
  BY JobsUnmoved
<1>3. (\A o \in Requests : Knows(req'[o], provider', jobs')) /\ TasksApart'
  BY <1>1, <1>2, KnowsNothing, RequestsKnow
<1> QED
  BY <1>2, <1>3 DEF JobsInv

LEMMA JobsStep == JobsInv /\ [Next]_vars => JobsInv'
<1> SUFFICES ASSUME JobsInv, [Next]_vars PROVE JobsInv'
  OBVIOUS
<1>1. TypeInv /\ TypeInv'
  BY TypeStep DEF JobsInv
<1>2. CASE UNCHANGED vars
  BY <1>1, <1>2 DEF vars, JobsInv, CounterExact, JobFollowsProvider, TasksApart
<1>3. CASE Next
  <2>1. ASSUME NEW r \in Requests, Arrives(r)
        PROVE  JobsInv'
    <3>1. /\ UNCHANGED <<provider, jobs, submitted>>
          /\ req'[r].tasks = {} /\ req'[r].pc \in Over \cup {"loaded"}
          /\ \A o \in Requests \ {r} : req'[o] = req[o]
      BY <1>1, <2>1, ArrivedRequest DEF Arrives, registryVars
    <3>2. Knows(req'[r], provider', jobs')
      BY <3>1, KnowsNothing
    <3>3. /\ CounterExact' /\ JobFollowsProvider'
          /\ Advances(provider, jobs, provider', jobs')
          /\ \A u \in Tasks : jobs[u] = "none" /\ jobs'[u] # "none" => u \in req[r].tasks
      BY <3>1, JobsUnmoved
    <3>4. (\A o \in Requests : Knows(req'[o], provider', jobs')) /\ TasksApart'
      BY <1>1, <3>1, <3>2, <3>3, RequestsKnow
    <3> QED
      BY <1>1, <3>3, <3>4 DEF JobsInv
  <2>2. ASSUME NEW r \in Requests, Submit(r)
        PROVE  JobsInv'
    <3>1. CASE \E n \in 1 .. MaxVariants : CheckQuota(r, n)
      <4>1. GoesOn(r)
        BY <1>1, <3>1, QuietStep
      <4>2. /\ UNCHANGED <<provider, jobs, submitted>> /\ ~ SubmitToProvider(r)
            /\ req[r].handler # "poll"
        BY <3>1 DEF CheckQuota, SubmitToProvider, registryVars, At
      <4> QED
        BY <1>1, <4>1, <4>2, JobsAside
    <3>2. CASE SubmitToShellLibrary(r)
      BY <1>1, <3>2, JobsAnswered DEF SubmitToShellLibrary, Over
    <3> QED
      BY <1>1, <2>2, <3>1, <3>2, JobsCreated, JobsRecorded, JobsProvided DEF Submit
  <2>3. ASSUME NEW r \in Requests, Poll(r)
        PROVE  JobsInv'
    <3>1. CASE IngestCollides(r)
      BY <1>1, <3>1, JobsAnswered DEF IngestCollides, registryVars, Over
    <3> QED
      BY <1>1, <2>3, <3>1, JobsLearned, JobsMoved DEF Poll
  <2>4. ASSUME NEW r \in Requests, ChangeAssets(r)
        PROVE  JobsInv'
    <3>1. GoesOn(r)
      BY <1>1, <2>4, EndingStep, DecisionStep, MutationStep DEF ChangeAssets
    <3>2. UNCHANGED <<provider, jobs, submitted>>
      BY <2>4 DEF ChangeAssets, RefuseAssetChange, RefreshAndCheck, AcceptCanonical,
                  AcceptMetadataOnly, ApplyKeycap, PatchLayout, CommitOrConflict, registryVars
    <3>3. req[r].handler \in {"accept", "apply", "patch_layout"}
      BY <2>4 DEF ChangeAssets, RefuseAssetChange, RefreshAndCheck, AcceptCanonical,
                  AcceptMetadataOnly, ApplyKeycap, PatchLayout, MutationReady, At
    <3>4. ~ SubmitToProvider(r)
      BY <3>3 DEF SubmitToProvider, At
    <3> QED
      BY <1>1, <3>1, <3>2, <3>3, <3>4, JobsAside
  <2>5. ASSUME NEW r \in Requests, Abandon(r)
        PROVE  JobsInv'
    BY <1>1, <2>5, JobsAnswered DEF Abandon, registryVars, Over
  <2>6. Pollers \subseteq Requests
    BY GenerationAssumption
  <2> QED
    BY <1>1, <1>3, <2>1, <2>2, <2>3, <2>4, <2>5, <2>6, JobsProvided DEF Next, Arrives
<1> QED
  BY <1>2, <1>3

LEMMA InitJobs == Init => JobsInv
<1> SUFFICES ASSUME Init PROVE JobsInv
  OBVIOUS
<1>1. /\ TypeInv /\ jobs = provider
      /\ provider = [t \in Tasks |-> IF t \in Delivered THEN "succeeded" ELSE "none"]
  BY InitType DEF Init
<1>2. \A t \in Tasks : provider[t] = IF t \in Delivered THEN "succeeded" ELSE "none"
  BY <1>1
<1>3. {t \in Tasks : jobs[t] # "none"} = Delivered
  BY <1>1, <1>2, GenerationAssumption
<1>4. CounterExact /\ JobFollowsProvider
  BY <1>1, <1>2, <1>3 DEF Init, CounterExact, JobFollowsProvider
<1>5. \A r \in Requests : req[r].tasks = {} /\ req[r].pc = "idle"
  BY ClosedRequest DEF Init, PCs
<1>6. \A r \in Requests : Knows(req[r], provider, jobs)
  BY <1>5 DEF Knows
<1> QED
  BY <1>1, <1>4, <1>5, <1>6 DEF JobsInv, TasksApart

LEMMA JobsAlways == Spec => []JobsInv
  BY InitJobs, JobsStep, PTL DEF Spec

-----------------------------------------------------------------------------
(* The limit.  A request let through the check reserves its variants until *)
(* it has recorded its jobs or is over; at the moment it is let through    *)
(* the counter and its own variants are within the limit, and each of the  *)
(* other requests reserves at most MostVariants.                           *)

\* What a request let through the check holds.
Granted(q) ==
    q.handler = "submit" /\ q.pc \in {"allowed", "created"} =>
        /\ q.n \in 1 .. MostVariants
        /\ q.pc = "created" => Cardinality(q.tasks) = q.n

WithinOverrun ==
    submitted + Cardinality(Reserved) <= JobLimit + (Cardinality(Requests) - 1) * MostVariants

QuotaInv ==
    /\ artifacts \subseteq Recorded
    /\ \A r \in Requests : Granted(req[r])
    /\ WithinOverrun

LEMMA MostVariantsType == MostVariants \in 1 .. MaxVariants /\ MostVariants <= JobLimit
  BY GenerationAssumption DEF MostVariants

\* The pairs of some requests with the first n numbers.
LEMMA PairsCount ==
    ASSUME NEW S \in SUBSET Requests, NEW n \in Nat
    PROVE  /\ IsFiniteSet(S \X (1 .. n))
           /\ Cardinality(S \X (1 .. n)) = Cardinality(S) * n
<1>1. IsFiniteSet(S)
  BY FS_Subset, GenerationAssumption
<1>2. IsFiniteSet(1 .. n) /\ Cardinality(1 .. n) = n
  BY FS_Interval
<1> QED
  BY <1>1, <1>2, FS_Product

LEMMA ReservedType == IsFiniteSet(Reserved) /\ Cardinality(Reserved) \in Nat
<1>1. IsFiniteSet(Requests \X (1 .. MaxVariants))
  BY PairsCount, GenerationAssumption
<1>2. Reserved \in SUBSET (Requests \X (1 .. MaxVariants))
  BY DEF Reserved
<1>3. IsFiniteSet(Reserved)
  BY <1>1, <1>2, FS_Subset
<1> QED
  BY <1>3, FS_CardinalityType

LEMMA RequestsCount == Cardinality(Requests) \in Nat \ {0}
  BY GenerationAssumption, FS_CardinalityType, FS_EmptySet

\* A request that is not let through after its step reserves nothing.
LEMMA ReservedShrinks ==
    ASSUME NEW r \in Requests, ~ LetThrough(r)',
           \A o \in Requests \ {r} : req'[o] = req[o]
    PROVE  Reserved' \subseteq Reserved /\ \A v \in Reserved' : v[1] # r
<1> SUFFICES ASSUME NEW v \in Reserved' PROVE v \in Reserved /\ v[1] # r
  OBVIOUS
<1>1. v \in Requests \X (1 .. MaxVariants) /\ v[1] \in Requests
  BY DEF Reserved
<1>2. /\ req'[v[1]].handler = "submit" /\ req'[v[1]].pc \in {"allowed", "created"}
      /\ v[2] <= req'[v[1]].n
  BY DEF Reserved, LetThrough, At
<1>3. v[1] # r
  BY <1>2 DEF LetThrough, At
<1>4. req'[v[1]] = req[v[1]]
  BY <1>1, <1>3
<1> QED
  BY <1>1, <1>2, <1>3, <1>4 DEF Reserved, LetThrough, At

\* A step that ends or does not grant a reservation, and counts nothing.
LEMMA OverrunShrinks ==
    ASSUME TypeInv, WithinOverrun, Reserved' \subseteq Reserved, UNCHANGED submitted
    PROVE  WithinOverrun'
<1>1. Cardinality(Reserved') <= Cardinality(Reserved) /\ Cardinality(Reserved') \in Nat
      /\ Cardinality(Reserved) \in Nat
  BY ReservedType, FS_Subset, FS_CardinalityType
<1>2. submitted \in Nat /\ submitted' = submitted
  BY DEF TypeInv, TypeOK
<1>3. PICK bound : bound = JobLimit + (Cardinality(Requests) - 1) * MostVariants
  OBVIOUS
<1>4. bound \in Int
  BY <1>3, RequestsCount, MostVariantsType, GenerationAssumption
<1>5. submitted + Cardinality(Reserved) <= bound
  BY <1>3 DEF WithinOverrun
<1>6. submitted' + Cardinality(Reserved') <= bound
  BY ONLY <1>1, <1>2, <1>4, <1>5, SMT
<1> QED
  BY <1>3, <1>6 DEF WithinOverrun

\* The request let through just now.
LEMMA OverrunGranted ==
    ASSUME TypeInv, \A o \in Requests : Granted(req[o]),
           NEW r \in Requests, NEW n \in 1 .. MaxVariants, submitted + n <= JobLimit,
           UNCHANGED submitted, req'[r].n = n,
           \A o \in Requests \ {r} : req'[o] = req[o]
    PROVE  WithinOverrun'
<1> DEFINE others == (Requests \ {r}) \X (1 .. MostVariants)
           own == {r} \X (1 .. n)
<1>1. Reserved' \subseteq others \cup own
  <2> SUFFICES ASSUME NEW v \in Reserved' PROVE v \in others \cup own
    OBVIOUS
  <2>1. PICK o \in Requests, i \in 1 .. MaxVariants : v = <<o, i>>
    BY DEF Reserved
  <2>2. /\ req'[o].handler = "submit" /\ req'[o].pc \in {"allowed", "created"}
        /\ i <= req'[o].n
    BY <2>1 DEF Reserved, LetThrough, At
  <2>3. CASE o = r
    <3>1. i \in 1 .. n
      BY <2>2, <2>3
    <3> QED
      BY <2>1, <2>3, <3>1
  <2>4. CASE o # r
    <3>1. req[o].n \in 1 .. MostVariants /\ i <= req[o].n
      BY <2>2, <2>4 DEF Granted
    <3>2. i \in 1 .. MostVariants
      BY <3>1, MostVariantsType
    <3> QED
      BY <2>1, <2>4, <3>2
  <2> QED
    BY <2>3, <2>4
<1>2. /\ IsFiniteSet(others) /\ Cardinality(others) = (Cardinality(Requests) - 1) * MostVariants
      /\ Cardinality(others) \in Nat
  <2>1. Cardinality(Requests \ {r}) = Cardinality(Requests) - 1
    BY FS_RemoveElement, GenerationAssumption
  <2>2. MostVariants \in Nat /\ Requests \ {r} \in SUBSET Requests
    BY MostVariantsType
  <2>3. /\ IsFiniteSet(others)
        /\ Cardinality(others) = Cardinality(Requests \ {r}) * MostVariants
    BY <2>2, PairsCount
  <2> QED
    BY <2>1, <2>3, FS_CardinalityType
<1>3. IsFiniteSet(own) /\ Cardinality(own) = n
  <2>1. Cardinality({r}) = 1
    BY FS_Singleton
  <2>2. n \in Nat /\ {r} \in SUBSET Requests
    OBVIOUS
  <2>3. IsFiniteSet(own) /\ Cardinality(own) = 1 * n
    BY <2>1, <2>2, PairsCount
  <2> QED
    BY <2>2, <2>3
<1> HIDE DEF others, own
<1>4. /\ IsFiniteSet(others \cup own)
      /\ Cardinality(others \cup own) = Cardinality(others) + Cardinality(own) - Cardinality(others \cap own)
      /\ Cardinality(others \cap own) \in Nat
  BY <1>2, <1>3, FS_Union, FS_Intersection, FS_CardinalityType
<1>5. Cardinality(Reserved') <= Cardinality(others \cup own) /\ Cardinality(Reserved') \in Nat
  BY <1>1, <1>4, FS_Subset, FS_CardinalityType
<1>6. submitted \in Nat /\ submitted' = submitted
  BY DEF TypeInv, TypeOK
<1>7. submitted' + Cardinality(Reserved') <= JobLimit + Cardinality(others)
  <2>1. Cardinality(Reserved') <= Cardinality(others) + n
    BY <1>2, <1>3, <1>4, <1>5
  <2>2. JobLimit \in Nat /\ n \in Nat
    BY GenerationAssumption
  <2> QED
    BY <1>2, <1>5, <1>6, <2>1, <2>2
<1> QED
  BY <1>2, <1>7 DEF WithinOverrun

\* The request that records what it reserved.
LEMMA OverrunRecorded ==
    ASSUME TypeInv, WithinOverrun, NEW r \in Requests, LetThrough(r), ~ LetThrough(r)',
           req[r].n \in 1 .. MostVariants, submitted' = submitted + req[r].n,
           \A o \in Requests \ {r} : req'[o] = req[o]
    PROVE  WithinOverrun'
<1> DEFINE n == req[r].n
           own == {r} \X (1 .. n)
<1>1. n \in 1 .. MaxVariants /\ n \in Nat
  <2>1. PICK m \in Int : m = MostVariants /\ m <= MaxVariants
    BY MostVariantsType, GenerationAssumption
  <2> QED
    BY <2>1, GenerationAssumption
<1>2. own \subseteq Reserved
  <2> SUFFICES ASSUME NEW i \in 1 .. n PROVE <<r, i>> \in Reserved
    OBVIOUS
  <2>1. i \in 1 .. MaxVariants /\ i <= req[r].n
    BY <1>1, GenerationAssumption
  <2> QED
    BY <2>1 DEF Reserved
<1>3. Reserved' \subseteq Reserved /\ Reserved' \cap own = {}
  BY ReservedShrinks
<1>4. IsFiniteSet(own) /\ Cardinality(own) = n
  <2>1. Cardinality({r}) = 1
    BY FS_Singleton
  <2>2. IsFiniteSet(own) /\ Cardinality(own) = 1 * n
    BY <1>1, <2>1, PairsCount
  <2> QED
    BY <1>1, <2>2
<1> HIDE DEF own, n
<1>5. IsFiniteSet(Reserved) /\ Cardinality(Reserved) \in Nat /\ IsFiniteSet(Reserved')
      /\ Cardinality(Reserved') \in Nat
  BY <1>3, ReservedType, FS_Subset, FS_CardinalityType
<1>6. Cardinality(Reserved' \cup own) = Cardinality(Reserved') + n
  <2>1. Cardinality(Reserved' \cap own) = 0
    BY <1>3, FS_EmptySet
  <2>2. Cardinality(Reserved' \cup own) = Cardinality(Reserved') + Cardinality(own) - Cardinality(Reserved' \cap own)
    BY <1>4, <1>5, FS_Union
  <2> QED
    BY <1>1, <1>4, <1>5, <2>1, <2>2
<1>7. Cardinality(Reserved' \cup own) <= Cardinality(Reserved)
  BY <1>2, <1>3, <1>5, FS_Subset
<1>8. PICK bound : bound = JobLimit + (Cardinality(Requests) - 1) * MostVariants
  OBVIOUS
<1>9. bound \in Int
  BY <1>8, RequestsCount, MostVariantsType, GenerationAssumption
<1>10. submitted \in Nat /\ submitted' = submitted + n
  BY DEF TypeInv, TypeOK, n
<1>11. submitted + Cardinality(Reserved) <= bound
  BY <1>8 DEF WithinOverrun
<1>12. submitted' + Cardinality(Reserved') <= bound
  BY ONLY <1>1, <1>5, <1>6, <1>7, <1>9, <1>10, <1>11, SMT
<1> QED
  BY <1>8, <1>12 DEF WithinOverrun

\* A job, once recorded, stays.
LEMMA RecordedGrows ==
    ASSUME JobsInv, Next
    PROVE  Recorded \subseteq Recorded'
<1>1. TypeInv /\ jobs \in [Tasks -> JobStates]
  BY DEF JobsInv, TypeInv, TypeOK
<1>2. ASSUME UNCHANGED jobs
      PROVE  Recorded \subseteq Recorded'
  BY <1>2 DEF Recorded
<1>3. ASSUME NEW r \in Requests, Submit(r)
      PROVE  Recorded \subseteq Recorded'
  <2>1. CASE RecordSubmission(r)
    <3>1. \A t \in Tasks : jobs'[t] = IF t \in req[r].tasks THEN "submitted" ELSE jobs[t]
      BY <2>1 DEF RecordSubmission
    <3> QED
      BY <3>1 DEF Recorded
  <2> QED
    BY <1>2, <1>3, <2>1 DEF Submit, CheckQuota, SubmitToProvider, ProviderRefuses,
                            SubmitToShellLibrary, registryVars
<1>4. ASSUME NEW r \in Requests, Poll(r)
      PROVE  Recorded \subseteq Recorded'
  <2>1. CASE IngestionFails(r) \/ FinishPoll(r)
    <3>1. req[r].handler = "poll" /\ req[r].pc \in {"fetched", "reconciled"}
      BY <2>1 DEF IngestionFails, FinishPoll, At
    <3>2. req[r].goal # "none" /\ jobs[req[r].asset] # "none" /\ req[r].asset \in Tasks
      BY <1>1, <3>1, PolledTask DEF JobsInv, Knows, Over
    <3>3. PICK status : jobs' = [jobs EXCEPT ![req[r].asset] = status] /\ status # "none"
      BY <2>1, <3>2 DEF IngestionFails, FinishPoll, JobStatusAfter
    <3> QED
      BY <1>1, <3>2, <3>3 DEF Recorded
  <2> QED
    BY <1>2, <1>4, <2>1 DEF Poll, FindJob, PollProvider, FindIngestedAsset, IngestAsset,
                            IngestCollides, ReadJobs, registryVars
<1>5. ASSUME NEW r \in Requests, Arrives(r) \/ ChangeAssets(r) \/ Abandon(r)
      PROVE  UNCHANGED jobs
  <2>1. CASE Arrives(r)
    BY <1>1, <2>1, ArrivedRequest DEF Arrives, registryVars
  <2> QED
    BY <1>5, <2>1 DEF ChangeAssets, Abandon, RefuseAssetChange, RefreshAndCheck, AcceptCanonical,
                      AcceptMetadataOnly, ApplyKeycap, PatchLayout, CommitOrConflict, registryVars
<1>6. ASSUME NEW t \in Tasks, ProviderProgress(t)
      PROVE  UNCHANGED jobs
  BY <1>6 DEF ProviderProgress, registryVars
<1>7. Pollers \subseteq Requests
  BY GenerationAssumption
<1> QED
  BY <1>2, <1>3, <1>4, <1>5, <1>6, <1>7 DEF Next, Arrives

\* Meshes are registered by polls, and a poll has found its job.
LEMMA MeshesHaveJobs ==
    ASSUME JobsInv, Next, artifacts \subseteq Recorded
    PROVE  (artifacts \subseteq Recorded)'
<1>1. Recorded \subseteq Recorded'
  BY RecordedGrows
<1>2. TypeInv
  BY DEF JobsInv
<1>3. ASSUME NEW r \in Requests, IngestAsset(r)
      PROVE  artifacts' \subseteq Recorded
  <2>1. req[r].handler = "poll" /\ req[r].pc = "fetched"
    BY <1>3 DEF IngestAsset, At
  <2>2. req[r].asset \in Recorded
    BY <1>2, <2>1, PolledTask DEF JobsInv, Knows, Over, Recorded
  <2> QED
    BY <1>3, <2>2 DEF IngestAsset
<1>4. ASSUME NEW r \in Requests, Submit(r) \/ Poll(r) \/ ChangeAssets(r) \/ Abandon(r),
             ~ IngestAsset(r)
      PROVE  UNCHANGED artifacts
  BY <1>4 DEF Submit, CheckQuota, SubmitToProvider, ProviderRefuses, RecordSubmission,
              SubmitToShellLibrary, Poll, FindJob, PollProvider, FindIngestedAsset, IngestCollides,
              IngestionFails, ReadJobs, FinishPoll, ChangeAssets, Abandon, RefuseAssetChange,
              RefreshAndCheck, AcceptCanonical, AcceptMetadataOnly, ApplyKeycap, PatchLayout,
              CommitOrConflict, registryVars
<1>5. ASSUME NEW r \in Requests, Arrives(r)
      PROVE  UNCHANGED artifacts
  BY <1>2, <1>5, ArrivedRequest DEF Arrives, registryVars
<1>6. ASSUME NEW t \in Tasks, ProviderProgress(t)
      PROVE  UNCHANGED artifacts
  BY <1>6 DEF ProviderProgress, registryVars
<1>7. Pollers \subseteq Requests
  BY GenerationAssumption
<1>8. artifacts' \subseteq Recorded
  BY <1>3, <1>4, <1>5, <1>6, <1>7 DEF Next, Arrives
<1> QED
  BY <1>1, <1>8

\* A step of one request that is not let through after it, and counts nothing.
LEMMA QuotaAside ==
    ASSUME TypeInv, QuotaInv, NEW r \in Requests, ~ LetThrough(r)', UNCHANGED submitted,
           \A o \in Requests \ {r} : req'[o] = req[o]
    PROVE  WithinOverrun' /\ \A o \in Requests : Granted(req'[o])
<1>1. WithinOverrun'
  BY ReservedShrinks, OverrunShrinks DEF QuotaInv
<1>2. Granted(req'[r])
  BY DEF Granted, LetThrough, At
<1> QED
  BY <1>1, <1>2 DEF QuotaInv

LEMMA QuotaSubmit ==
    ASSUME TypeInv, QuotaInv, NEW r \in Requests, Submit(r)
    PROVE  WithinOverrun' /\ \A o \in Requests : Granted(req'[o])
<1>1. /\ req \in [Requests -> RequestStates] /\ req[r] \in RequestStates
      /\ Granted(req[r])
  BY DEF TypeInv, TypeOK, QuotaInv
<1>2. ASSUME NEW outcome \in Over, Answer(r, outcome), UNCHANGED submitted
      PROVE  WithinOverrun' /\ \A o \in Requests : Granted(req'[o])
  <2>1. req'[r].pc \in Over /\ \A o \in Requests \ {r} : req'[o] = req[o]
    BY <1>2, AnsweredRequest
  <2>2. ~ LetThrough(r)'
    BY <2>1 DEF LetThrough, At, Over
  <2> QED
    BY <1>2, <2>1, <2>2, QuotaAside
<1>3. ASSUME NEW n \in 1 .. MaxVariants, CheckQuota(r, n)
      PROVE  WithinOverrun' /\ \A o \in Requests : Granted(req'[o])
  <2>1. CASE submitted + n > JobLimit
    BY <1>2, <1>3, <2>1 DEF CheckQuota, registryVars, Over
  <2>2. CASE ~ (submitted + n > JobLimit)
    <3>1. req' = [req EXCEPT ![r].pc = "allowed", ![r].n = n] /\ UNCHANGED submitted
      BY <1>3, <2>2 DEF CheckQuota, registryVars
    <3>2. /\ req'[r].n = n /\ req'[r].pc = "allowed"
          /\ \A o \in Requests \ {r} : req'[o] = req[o]
      BY <1>1, <3>1 DEF RequestStates
    <3>3. submitted \in Nat /\ JobLimit \in Nat /\ MaxVariants \in Nat
      BY GenerationAssumption DEF TypeInv, TypeOK
    <3>4. submitted + n <= JobLimit /\ n <= JobLimit
      BY <2>2, <3>3
    <3>5. n \in 1 .. MostVariants
      BY <3>3, <3>4 DEF MostVariants
    <3>6. WithinOverrun'
      BY <3>1, <3>2, <3>4, OverrunGranted DEF QuotaInv
    <3>7. Granted(req'[r])
      BY <3>2, <3>5 DEF Granted
    <3> QED
      BY <3>2, <3>6, <3>7 DEF QuotaInv
  <2> QED
    BY <2>1, <2>2
<1>4. ASSUME SubmitToProvider(r)
      PROVE  WithinOverrun' /\ \A o \in Requests : Granted(req'[o])
  <2>1. PICK ts : /\ Cardinality(ts) = req[r].n
                  /\ req' = [req EXCEPT ![r].pc = "created", ![r].tasks = ts]
    BY <1>4 DEF SubmitToProvider, kSubset
  <2>2. /\ req'[r].n = req[r].n /\ req'[r].tasks = ts /\ req'[r].pc = "created"
        /\ req'[r].handler = req[r].handler
        /\ \A o \in Requests \ {r} : req'[o] = req[o]
    BY <1>1, <2>1 DEF RequestStates
  <2>3. req[r].handler = "submit" /\ req[r].pc = "allowed" /\ UNCHANGED submitted
    BY <1>4 DEF SubmitToProvider, At, registryVars
  <2>4. Reserved' \subseteq Reserved
    <3> SUFFICES ASSUME NEW v \in Reserved' PROVE v \in Reserved
      OBVIOUS
    <3>1. v \in Requests \X (1 .. MaxVariants) /\ v[1] \in Requests
          /\ req'[v[1]].handler = "submit" /\ req'[v[1]].pc \in {"allowed", "created"}
          /\ v[2] <= req'[v[1]].n
      BY DEF Reserved, LetThrough, At
    <3>2. CASE v[1] = r
      BY <2>2, <2>3, <3>1, <3>2 DEF Reserved, LetThrough, At
    <3>3. CASE v[1] # r
      BY <2>2, <3>1, <3>3 DEF Reserved, LetThrough, At
    <3> QED
      BY <3>2, <3>3
  <2>5. WithinOverrun'
    BY <2>3, <2>4, OverrunShrinks DEF QuotaInv
  <2>6. Granted(req'[r])
    BY <1>1, <2>1, <2>2, <2>3 DEF Granted
  <2> QED
    BY <2>2, <2>5, <2>6 DEF QuotaInv
<1>5. ASSUME RecordSubmission(r)
      PROVE  WithinOverrun' /\ \A o \in Requests : Granted(req'[o])
  <2>1. /\ req[r].handler = "submit" /\ req[r].pc = "created"
        /\ submitted' = submitted + Cardinality(req[r].tasks) /\ Answer(r, "ok")
    BY <1>5 DEF RecordSubmission, At
  <2>2. req'[r].pc \in Over /\ \A o \in Requests \ {r} : req'[o] = req[o]
    BY <2>1, AnsweredRequest DEF Over
  <2>3. LetThrough(r) /\ ~ LetThrough(r)'
    BY <2>1, <2>2 DEF LetThrough, At, Over
  <2>4. req[r].n \in 1 .. MostVariants /\ submitted' = submitted + req[r].n
    BY <1>1, <2>1 DEF Granted
  <2>5. WithinOverrun'
    BY <2>2, <2>3, <2>4, OverrunRecorded DEF QuotaInv
  <2>6. Granted(req'[r])
    BY <2>3 DEF Granted, LetThrough, At
  <2> QED
    BY <2>2, <2>5, <2>6 DEF QuotaInv
<1>6. CASE ProviderRefuses(r) \/ SubmitToShellLibrary(r)
  BY <1>2, <1>6 DEF ProviderRefuses, SubmitToShellLibrary, registryVars, Over
<1> QED
  BY <1>3, <1>4, <1>5, <1>6 DEF Submit

LEMMA QuotaStep == JobsInv /\ QuotaInv /\ [Next]_vars => QuotaInv'
<1> SUFFICES ASSUME JobsInv, QuotaInv, [Next]_vars PROVE QuotaInv'
  OBVIOUS
<1>1. TypeInv
  BY DEF JobsInv
<1>2. CASE UNCHANGED vars
  BY <1>2 DEF vars, QuotaInv, WithinOverrun, Reserved, Recorded, LetThrough, At
<1>3. CASE Next
  <2>1. (artifacts \subseteq Recorded)'
    BY <1>3, MeshesHaveJobs DEF QuotaInv
  <2>2. ASSUME NEW r \in Requests, GoesOn(r), req[r].handler # "submit", UNCHANGED submitted
        PROVE  WithinOverrun' /\ \A o \in Requests : Granted(req'[o])
    <3>1. ~ LetThrough(r)' /\ \A o \in Requests \ {r} : req'[o] = req[o]
      BY <2>2 DEF GoesOn, LetThrough, At, Over
    <3> QED
      BY <1>1, <2>2, <3>1, QuotaAside
  <2>3. ASSUME NEW r \in Requests, Arrives(r)
        PROVE  WithinOverrun' /\ \A o \in Requests : Granted(req'[o])
    <3>1. /\ UNCHANGED submitted /\ req'[r].pc \in Over \cup {"loaded"}
          /\ \A o \in Requests \ {r} : req'[o] = req[o]
      BY <1>1, <2>3, ArrivedRequest DEF Arrives, registryVars
    <3>2. ~ LetThrough(r)'
      BY <3>1 DEF LetThrough, At, Over
    <3> QED
      BY <1>1, <3>1, <3>2, QuotaAside
  <2>4. ASSUME NEW r \in Requests, Poll(r)
        PROVE  WithinOverrun' /\ \A o \in Requests : Granted(req'[o])
    <3>1. GoesOn(r)
      BY <1>1, <2>4, QuietStep, EndingStep, PollStep DEF Poll
    <3>2. req[r].handler = "poll" /\ UNCHANGED submitted
      BY <2>4 DEF Poll, FindJob, PollProvider, FindIngestedAsset, IngestAsset, IngestCollides,
                  IngestionFails, ReadJobs, FinishPoll, At, registryVars
    <3> QED
      BY <2>2, <3>1, <3>2
  <2>5. ASSUME NEW r \in Requests, ChangeAssets(r)
        PROVE  WithinOverrun' /\ \A o \in Requests : Granted(req'[o])
    <3>1. GoesOn(r)
      BY <1>1, <2>5, EndingStep, DecisionStep, MutationStep DEF ChangeAssets
    <3>2. UNCHANGED submitted
      BY <2>5 DEF ChangeAssets, RefuseAssetChange, RefreshAndCheck, AcceptCanonical,
                  AcceptMetadataOnly, ApplyKeycap, PatchLayout, CommitOrConflict, registryVars
    <3>3. req[r].handler \in {"accept", "apply", "patch_layout"}
      BY <2>5 DEF ChangeAssets, RefuseAssetChange, RefreshAndCheck, AcceptCanonical,
                  AcceptMetadataOnly, ApplyKeycap, PatchLayout, MutationReady, At
    <3> QED
      BY <2>2, <3>1, <3>2, <3>3
  <2>6. ASSUME NEW r \in Requests, Abandon(r)
        PROVE  WithinOverrun' /\ \A o \in Requests : Granted(req'[o])
    <3>1. /\ UNCHANGED submitted /\ req'[r].pc \in Over
          /\ \A o \in Requests \ {r} : req'[o] = req[o]
      BY <1>1, <2>6, AnsweredRequest DEF Abandon, registryVars, Over
    <3>2. ~ LetThrough(r)'
      BY <3>1 DEF LetThrough, At, Over
    <3> QED
      BY <1>1, <3>1, <3>2, QuotaAside
  <2>7. ASSUME NEW t \in Tasks, ProviderProgress(t)
        PROVE  WithinOverrun' /\ \A o \in Requests : Granted(req'[o])
    BY <2>7 DEF ProviderProgress, registryVars, QuotaInv, WithinOverrun, Reserved, LetThrough, At
  <2>8. Pollers \subseteq Requests
    BY GenerationAssumption
  <2>9. WithinOverrun' /\ \A o \in Requests : Granted(req'[o])
    BY <1>1, <1>3, <2>3, <2>4, <2>5, <2>6, <2>7, <2>8, QuotaSubmit DEF Next, Arrives
  <2> QED
    BY <2>1, <2>9 DEF QuotaInv
<1> QED
  BY <1>2, <1>3

LEMMA InitQuota == Init => QuotaInv
<1> SUFFICES ASSUME Init PROVE QuotaInv
  OBVIOUS
<1>1. artifacts \subseteq Recorded
  BY GenerationAssumption DEF Init, Recorded
<1>2. \A r \in Requests : req[r].pc = "idle"
  BY ClosedRequest DEF Init, PCs
<1>3. Reserved = {}
  BY <1>2 DEF Reserved, LetThrough, At
<1>4. \A r \in Requests : Granted(req[r])
  BY <1>2 DEF Granted
<1>5. WithinOverrun
  <2>1. submitted = Cardinality(Delivered) /\ Cardinality(Delivered) \in Nat
    BY GenerationAssumption, FS_Subset, FS_CardinalityType DEF Init
  <2>2. Cardinality(Reserved) = 0
    BY <1>3, FS_EmptySet
  <2>3. PICK more \in Nat : more = Cardinality(Requests) - 1
    BY RequestsCount
  <2>4. PICK most \in Nat : most = MostVariants
    BY MostVariantsType
  <2>5. more * most \in Nat
    OBVIOUS
  <2>6. PICK overrun \in Nat : overrun = (Cardinality(Requests) - 1) * MostVariants
    BY <2>3, <2>4, <2>5
  <2> QED
    BY <2>1, <2>2, <2>6, GenerationAssumption DEF WithinOverrun
<1> QED
  BY <1>1, <1>4, <1>5 DEF QuotaInv

\* The counter is the number of jobs recorded for provider tasks, it overruns the
\* limit by no more than what overlapping submissions reserve, library jobs are
\* behind the usage of what they delivered, and only tasks with a job deliver.
THEOREM QuotaExact == Spec => []QuotaCountsJobs
<1>1. JobsInv /\ QuotaInv => QuotaCountsJobs
  BY DEF JobsInv, TypeInv, LibraryExact, CounterExact, QuotaInv, WithinOverrun, Recorded,
         QuotaCountsJobs
<1>2. JobsInv /\ QuotaInv /\ [Next]_vars => QuotaInv'
  BY QuotaStep
<1> QED
  BY <1>1, <1>2, InitQuota, JobsAlways, PTL DEF Spec

\* No job ends otherwise than its provider task, whatever answers come late.
THEOREM JobsFollow == Spec => []JobFollowsProvider
<1>1. JobsInv => JobFollowsProvider
  BY DEF JobsInv
<1> QED
  BY <1>1, JobsAlways, PTL

-----------------------------------------------------------------------------
(* The documents.  A poll, a submission or a decision writes back the      *)
(* document its request was started with; what makes that harmless is that *)
(* every document held anywhere agrees with the snapshot of its revision.  *)

\* A decision past its check was checked on the document it will be made on.
Checked(q) ==
    q.handler = "accept" /\ q.pc = "checked" =>
        /\ q.project.assets[q.asset] # "absent"
        /\ q.goal = "rejected" => q.asset \notin Applied(q.project)

LEMMA CheckedStep ==
    ASSUME TypeInv, Next, NEW o \in Requests, Checked(req[o])
    PROVE  Checked(req'[o])
<1>1. ASSUME NEW r \in Requests, Answer(r, "ok") \/ Answer(r, "rejected") \/ Answer(r, "conflict")
                                     \/ Answer(r, "failed")
      PROVE  Checked(req'[o])
  <2>1. PICK outcome \in Over : Answer(r, outcome)
    BY <1>1 DEF Over
  <2>2. req'[r].handler = "poll" /\ \A u \in Requests \ {r} : req'[u] = req[u]
    BY <2>1, AnsweredRequest
  <2> QED
    BY <2>2 DEF Checked
<1>2. ASSUME NEW r \in Requests, \A u \in Requests \ {r} : req'[u] = req[u],
             req'[r].pc # "checked"
      PROVE  Checked(req'[o])
  BY <1>2 DEF Checked
<1>3. req \in [Requests -> RequestStates] /\ \A r \in Requests : req[r] \in RequestStates
  BY DEF TypeInv, TypeOK
<1>4. ASSUME NEW r \in Requests, Arrives(r)
      PROVE  Checked(req'[o])
  BY <1>2, <1>4, ArrivedRequest DEF Arrives, Over
<1>5. ASSUME NEW r \in Requests, Submit(r)
      PROVE  Checked(req'[o])
  <2>1. CASE (\E n \in 1 .. MaxVariants : CheckQuota(r, n)) \/ SubmitToProvider(r)
    BY <1>1, <1>2, <1>3, <2>1 DEF CheckQuota, SubmitToProvider, RequestStates
  <2> QED
    BY <1>1, <1>5, <2>1 DEF Submit, ProviderRefuses, RecordSubmission, SubmitToShellLibrary
<1>6. ASSUME NEW r \in Requests, Poll(r)
      PROVE  Checked(req'[o])
  <2>1. CASE FindJob(r) \/ PollProvider(r) \/ FindIngestedAsset(r) \/ IngestAsset(r) \/ ReadJobs(r)
    BY <1>1, <1>2, <1>3, <2>1
       DEF FindJob, PollProvider, FindIngestedAsset, IngestAsset, ReadJobs, Goto, RequestStates
  <2> QED
    BY <1>1, <1>6, <2>1 DEF Poll, IngestCollides, IngestionFails, FinishPoll
<1>7. ASSUME NEW r \in Requests, RefreshAndCheck(r)
      PROVE  Checked(req'[o])
  <2>1. CASE RevisionAsExpected(req[r].expected, row)
    <3>1. /\ req'[r].handler = req[r].handler /\ req'[r].asset = req[r].asset
          /\ req'[r].goal = req[r].goal /\ req'[r].project = req[r].project
          /\ \A u \in Requests \ {r} : req'[u] = req[u]
      BY <1>3, <1>7, <2>1 DEF RefreshAndCheck, RequestStates
    <3>2. req[r].handler = "accept" => ~ AcceptanceRefused(r)
      BY <1>7 DEF RefreshAndCheck, At
    <3> QED
      BY <3>1, <3>2 DEF Checked, AcceptanceRefused
  <2>2. CASE ~ RevisionAsExpected(req[r].expected, row)
    BY <1>1, <1>7, <2>2 DEF RefreshAndCheck
  <2> QED
    BY <2>1, <2>2
<1>8. ASSUME NEW r \in Requests, ChangeAssets(r)
      PROVE  Checked(req'[o])
  BY <1>1, <1>7, <1>8 DEF ChangeAssets, RefuseAssetChange, AcceptCanonical, AcceptMetadataOnly,
                          ApplyKeycap, PatchLayout, CommitOrConflict
<1>9. ASSUME NEW r \in Requests, Abandon(r)
      PROVE  Checked(req'[o])
  BY <1>1, <1>9 DEF Abandon
<1>10. ASSUME NEW t \in Tasks, ProviderProgress(t)
       PROVE  Checked(req'[o])
  BY <1>10 DEF ProviderProgress
<1>11. Pollers \subseteq Requests
  BY GenerationAssumption
<1> QED
  BY <1>4, <1>5, <1>6, <1>8, <1>9, <1>10, <1>11 DEF Next, Arrives

\* Mesh rows and usage events are never taken back.
LEMMA RegistryGrows ==
    ASSUME TypeInv, Next
    PROVE  /\ artifacts \subseteq artifacts'
           /\ \A a \in Assets : completed'[a] = 0 => completed[a] = 0
<1>1. completed \in [Assets -> Nat] /\ Tasks \subseteq Assets
  BY DEF TypeInv, TypeOK, Assets
<1>2. ASSUME NEW r \in Requests, Submit(r)
      PROVE  /\ artifacts \subseteq artifacts'
             /\ \A a \in Assets : completed'[a] = 0 => completed[a] = 0
  <2>1. CASE SubmitToShellLibrary(r)
    <3>1. PICK as : completed' = [a \in Assets |-> completed[a] + (IF a \in as THEN 1 ELSE 0)]
      BY <2>1 DEF SubmitToShellLibrary
    <3>2. ASSUME NEW a \in Assets, completed'[a] = 0
          PROVE  completed[a] = 0
      <4>1. completed[a] \in Nat
        BY <1>1
      <4>2. CASE a \in as
        <5>1. completed'[a] = completed[a] + 1
          BY <3>1, <4>2
        <5> QED
          BY <3>2, <4>1, <5>1
      <4>3. CASE a \notin as
        <5>1. completed'[a] = completed[a] + 0
          BY <3>1, <4>3
        <5> QED
          BY <3>2, <4>1, <5>1
      <4> QED
        BY <4>2, <4>3
    <3> QED
      BY <2>1, <3>2 DEF SubmitToShellLibrary
  <2> QED
    BY <1>2, <2>1 DEF Submit, CheckQuota, SubmitToProvider, ProviderRefuses, RecordSubmission,
                      registryVars
<1>3. ASSUME NEW r \in Requests, Poll(r)
      PROVE  /\ artifacts \subseteq artifacts'
             /\ \A a \in Assets : completed'[a] = 0 => completed[a] = 0
  <2>1. CASE FinishPoll(r)
    <3>1. PICK n \in {completed[req[r].asset], completed[req[r].asset] + 1} :
              completed' = [completed EXCEPT ![req[r].asset] = n]
      BY <2>1 DEF FinishPoll
    <3>2. req[r].asset \in Assets /\ UNCHANGED artifacts
      BY <1>1, <2>1, PolledTask DEF FinishPoll, At, Over
    <3>3. \A a \in Assets : completed[a] \in Nat
                            /\ completed'[a] = IF a = req[r].asset THEN n ELSE completed[a]
      BY <1>1, <3>1, <3>2
    <3> QED
      BY <3>1, <3>2, <3>3
  <2> QED
    BY <1>3, <2>1 DEF Poll, FindJob, PollProvider, FindIngestedAsset, IngestAsset, IngestCollides,
                      IngestionFails, ReadJobs, registryVars
<1>4. ASSUME NEW r \in Requests, Arrives(r) \/ ChangeAssets(r) \/ Abandon(r)
      PROVE  UNCHANGED <<artifacts, completed>>
  <2>1. CASE Arrives(r)
    BY <2>1, ArrivedRequest DEF Arrives, registryVars
  <2> QED
    BY <1>4, <2>1 DEF ChangeAssets, Abandon, RefuseAssetChange, RefreshAndCheck, AcceptCanonical,
                      AcceptMetadataOnly, ApplyKeycap, PatchLayout, CommitOrConflict, registryVars
<1>5. ASSUME NEW t \in Tasks, ProviderProgress(t)
      PROVE  UNCHANGED <<artifacts, completed>>
  BY <1>5 DEF ProviderProgress, registryVars
<1>6. Pollers \subseteq Requests
  BY GenerationAssumption
<1> QED
  BY <1>2, <1>3, <1>4, <1>5, <1>6 DEF Next, Arrives

\* A document agrees with the snapshot of its revision on what is accepted and
\* where it is applied, and shows no asset ahead of its mesh or of its usage event.
DocInv(doc, snaps, arts, comp) ==
    /\ doc.revision \in DOMAIN snaps
    /\ \A a \in Assets :
           doc.assets[a] \in Canonical <=> snaps[doc.revision].assets[a] \in Canonical
    /\ doc.layout = snaps[doc.revision].layout
    /\ \A t \in Tasks \ arts : doc.assets[t] = "absent"
    /\ \A a \in Placeholders : comp[a] = 0 => doc.assets[a] = "absent"

\* What a mutation may make of one snapshot in the next.
Succeeds(old, new) ==
    \A a \in Applied(old) \cap Applied(new) : old.assets[a] \in Canonical => new.assets[a] \in Canonical

History(snaps, arts, comp) ==
    /\ 1 \in DOMAIN snaps /\ snaps[1] = NewProject
    /\ \A n \in DOMAIN snaps :
           /\ snaps[n].revision = n
           /\ DocInv(snaps[n], snaps, arts, comp)
           /\ n > 1 => n - 1 \in DOMAIN snaps /\ Succeeds(snaps[n - 1], snaps[n])

\* What a poll that is to finish its job relies on.
Registered(q) ==
    q.handler = "poll" /\ q.pc \in {"ingested", "reconciled"} /\ q.goal = "succeeded" =>
        q.asset \in artifacts

DocsInv ==
    /\ TypeInv
    /\ History(snapshots, artifacts, completed)
    /\ DocInv(row.data, snapshots, artifacts, completed)
    /\ \A r \in Requests :
           /\ DocInv(req[r].project, snapshots, artifacts, completed)
           /\ Checked(req[r])
           /\ Registered(req[r])
    /\ \A t \in Tasks \ artifacts : jobs[t] # "succeeded" /\ completed[t] = 0

Extends(snaps, snaps2) == \A n \in DOMAIN snaps : n \in DOMAIN snaps2 /\ snaps2[n] = snaps[n]

LEMMA DocKept ==
    ASSUME NEW doc, NEW snaps, NEW arts, NEW comp, NEW snaps2, NEW arts2, NEW comp2,
           DocInv(doc, snaps, arts, comp), Extends(snaps, snaps2), arts \subseteq arts2,
           \A a \in Assets : comp2[a] = 0 => comp[a] = 0
    PROVE  DocInv(doc, snaps2, arts2, comp2)
  BY DEF DocInv, Extends, Assets

\* A metadata write keeps it: what it moves, it moves outside the accepted assets.
LEMMA DocWritten ==
    ASSUME NEW r \in Requests, NEW new, Written(r, new),
           DocInv(req[r].project, snapshots, artifacts, completed),
           artifacts \subseteq artifacts',
           \A a \in Assets : completed'[a] = 0 => completed[a] = 0
    PROVE  DocInv(new, snapshots, artifacts', completed')
<1> DEFINE p == req[r].project
<1>1. new.revision = p.revision /\ new.layout = p.layout /\ \A a \in Assets : Moved(r, a, new.assets[a])
  BY DEF Written
<1>2. \A a \in Assets : new.assets[a] \in Canonical <=> p.assets[a] \in Canonical
  <2> SUFFICES ASSUME NEW a \in Assets
               PROVE  new.assets[a] \in Canonical <=> p.assets[a] \in Canonical
    OBVIOUS
  <2>1. Moved(r, a, new.assets[a])
    BY <1>1
  <2> QED
    BY <2>1 DEF Moved, Canonical, DocInv
<1>3. ASSUME NEW t \in Tasks \ artifacts'
      PROVE  new.assets[t] = "absent"
  <2>1. t \in Assets /\ t \notin Placeholders /\ p.assets[t] = "absent"
    BY <1>3, GenerationAssumption DEF DocInv, Assets
  <2>2. Moved(r, t, new.assets[t])
    BY <1>1, <2>1
  <2> QED
    BY <1>3, <2>1, <2>2 DEF Moved
<1>4. ASSUME NEW a \in Placeholders, completed'[a] = 0
      PROVE  new.assets[a] = "absent"
  <2>1. a \in Assets /\ a \notin Tasks
    BY GenerationAssumption DEF Assets
  <2>2. p.assets[a] = "absent" /\ Moved(r, a, new.assets[a])
    BY <1>1, <1>4, <2>1 DEF DocInv
  <2> QED
    BY <1>4, <2>1, <2>2 DEF Moved
<1> QED
  BY <1>1, <1>2, <1>3, <1>4 DEF DocInv

\* A mutation keeps it, with the snapshot it adds.
LEMMA DocRevised ==
    ASSUME DocsInv, NEW r \in Requests, RevisesProject(r),
           artifacts \subseteq artifacts',
           \A a \in Assets : completed'[a] = 0 => completed[a] = 0
    PROVE  /\ Extends(snapshots, snapshots')
           /\ DocInv(row'.data, snapshots', artifacts', completed')
           /\ History(snapshots', artifacts', completed')
<1> DEFINE p == req[r].project
<1>1. PICK q \in Documents : CommitProjectMutation(req[r].loaded, q) /\ Revised(r, q)
  BY DEF RevisesProject
<1> DEFINE new == [q EXCEPT !.revision = NextRevision(q)]
           n == p.revision
<1>2. /\ p \in Documents /\ DocInv(p, snapshots, artifacts, completed) /\ Checked(req[r])
      /\ req[r].handler = "accept" /\ req[r].pc = "checked" =>
            req[r].asset \in Assets /\ req[r].goal \in Manual
  BY DEF DocsInv, TypeInv, TypeOK, RequestStates, Started, Over
<1>3. /\ new \in Documents /\ new.revision = n + 1 /\ new.assets = q.assets /\ new.layout = q.layout
      /\ n \in Nat \ {0} /\ n \in DOMAIN snapshots
  BY <1>1, <1>2, NextDocument DEF Revised, Documents, DocInv
<1>4. /\ row' = SyncProjectRow(req[r].loaded, new)
      /\ n + 1 \notin DOMAIN snapshots
      /\ snapshots' = [m \in DOMAIN snapshots \cup {n + 1} |->
                            IF m = n + 1 THEN new ELSE snapshots[m]]
  BY <1>1, <1>3 DEF CommitProjectMutation
<1> HIDE DEF new
<1>5. /\ row'.data = new
      /\ DOMAIN snapshots' = DOMAIN snapshots \cup {n + 1} /\ snapshots'[n + 1] = new
      /\ Extends(snapshots, snapshots')
  BY <1>3, <1>4, SyncedRow DEF DocsInv, TypeInv, TypeOK, Extends
\* What the mutation does to the assets, by what was checked.
<1>6. \A a \in Assets :
          \/ q.assets[a] = p.assets[a]
          \/ /\ p.assets[a] # "absent"
             /\ q.layout = p.layout
             /\ a \in Applied(p) => q.assets[a] \in Canonical
  <2>1. CASE q.assets = p.assets
    BY <2>1
  <2>2. CASE /\ At(r, "accept", "checked") /\ q.layout = p.layout
             /\ \A a \in Assets : q.assets[a] =
                    IF a = req[r].asset THEN req[r].goal ELSE p.assets[a]
    <3>1. /\ p.assets[req[r].asset] # "absent" /\ req[r].goal \in Manual
          /\ req[r].goal = "rejected" => req[r].asset \notin Applied(p)
      BY <1>2, <2>2 DEF Checked, At
    <3> QED
      BY <2>2, <3>1 DEF Manual, Canonical
  <2> QED
    BY <1>1, <2>1, <2>2 DEF Revised
<1>7. DocInv(new, snapshots', artifacts', completed')
  <2>1. ASSUME NEW t \in Tasks \ artifacts'
        PROVE  new.assets[t] = "absent"
    BY <1>2, <1>3, <1>6 DEF DocInv, Assets
  <2>2. ASSUME NEW a \in Placeholders, completed'[a] = 0
        PROVE  new.assets[a] = "absent"
    BY <1>2, <1>3, <1>6, <2>2 DEF DocInv, Assets
  <2> QED
    BY <1>3, <1>5, <2>1, <2>2 DEF DocInv
<1>8. Succeeds(snapshots[n], new)
  <2> SUFFICES ASSUME NEW a \in Assets, a \in Applied(snapshots[n]), a \in Applied(new),
                      snapshots[n].assets[a] \in Canonical
               PROVE  new.assets[a] \in Canonical
    <3>1. Applied(new) \subseteq Assets
      BY <1>3 DEF Applied, Documents
    <3> QED
      BY <3>1 DEF Succeeds
  <2>1. p.layout = snapshots[n].layout /\ p.assets[a] \in Canonical
    BY <1>2 DEF DocInv
  <2>2. a \in Applied(p)
    BY <2>1 DEF Applied
  <2> QED
    BY <1>3, <1>6, <2>1, <2>2
<1>9. History(snapshots', artifacts', completed')
  <2>1. 1 \in DOMAIN snapshots' /\ snapshots'[1] = NewProject
    BY <1>5 DEF DocsInv, History, Extends
  <2>2. ASSUME NEW m \in DOMAIN snapshots'
        PROVE  /\ snapshots'[m].revision = m
               /\ DocInv(snapshots'[m], snapshots', artifacts', completed')
               /\ m > 1 => m - 1 \in DOMAIN snapshots' /\ Succeeds(snapshots'[m - 1], snapshots'[m])
    <3>1. CASE m = n + 1
      <4>1. m - 1 = n /\ snapshots'[n] = snapshots[n] /\ n \in DOMAIN snapshots'
        BY <1>3, <1>5, <3>1 DEF Extends
      <4> QED
        BY <1>3, <1>5, <1>7, <1>8, <3>1, <4>1
    <3>2. CASE m # n + 1
      <4>1. m \in DOMAIN snapshots /\ snapshots'[m] = snapshots[m]
        BY <1>5, <2>2, <3>2 DEF Extends
      <4>2. /\ snapshots[m].revision = m
            /\ DocInv(snapshots[m], snapshots, artifacts, completed)
            /\ m > 1 => m - 1 \in DOMAIN snapshots /\ Succeeds(snapshots[m - 1], snapshots[m])
        BY <4>1 DEF DocsInv, History
      <4>3. DocInv(snapshots[m], snapshots', artifacts', completed')
        BY <1>5, <4>2, DocKept
      <4>4. m > 1 => m - 1 \in DOMAIN snapshots' /\ snapshots'[m - 1] = snapshots[m - 1]
        BY <1>5, <4>2 DEF Extends
      <4> QED
        BY <4>1, <4>2, <4>3, <4>4
    <3> QED
      BY <3>1, <3>2
  <2> QED
    BY <2>1, <2>2 DEF History
<1> QED
  BY <1>5, <1>7, <1>9

\* A poll finishes its job as succeeded only with the mesh rows there, and so does a
\* usage event count it.
LEMMA RegisteredStep ==
    ASSUME DocsInv, Next
    PROVE  /\ \A r \in Requests : Registered(req[r])'
           /\ \A t \in Tasks \ artifacts' : jobs'[t] # "succeeded" /\ completed'[t] = 0
<1>1. /\ TypeInv
      /\ artifacts \subseteq artifacts' /\ \A a \in Assets : completed'[a] = 0 => completed[a] = 0
      /\ \A r \in Requests : Registered(req[r])
      /\ \A t \in Tasks \ artifacts : jobs[t] # "succeeded" /\ completed[t] = 0
      /\ \A r \in Requests : \A t \in Tasks \ artifacts : req[r].project.assets[t] = "absent"
  BY RegistryGrows DEF DocsInv, DocInv
<1>2. ASSUME NEW r \in Requests, \A u \in Requests \ {r} : req'[u] = req[u], Registered(req[r])'
      PROVE  \A u \in Requests : Registered(req[u])'
  BY <1>1, <1>2 DEF Registered
<1>3. ASSUME NEW r \in Requests, Answer(r, "ok") \/ Answer(r, "rejected") \/ Answer(r, "conflict")
                                     \/ Answer(r, "failed")
      PROVE  \A u \in Requests : Registered(req[u])'
  <2>1. PICK outcome \in Over : Answer(r, outcome)
    BY <1>3 DEF Over
  <2>2. req'[r].pc \in Over /\ \A u \in Requests \ {r} : req'[u] = req[u]
    BY <1>1, <2>1, AnsweredRequest
  <2> QED
    BY <1>2, <2>2 DEF Registered, Over
<1>4. req \in [Requests -> RequestStates] /\ \A r \in Requests : req[r] \in RequestStates
  BY <1>1 DEF TypeInv, TypeOK
<1>5. ASSUME UNCHANGED <<jobs, completed>>
      PROVE  \A t \in Tasks \ artifacts' : jobs'[t] # "succeeded" /\ completed'[t] = 0
  BY <1>1, <1>5
<1>6. ASSUME NEW r \in Requests, Submit(r)
      PROVE  /\ \A u \in Requests : Registered(req[u])'
             /\ \A t \in Tasks \ artifacts' : jobs'[t] # "succeeded" /\ completed'[t] = 0
  <2>1. \A u \in Requests : Registered(req[u])'
    <3>1. CASE (\E n \in 1 .. MaxVariants : CheckQuota(r, n)) \/ SubmitToProvider(r)
      BY <1>2, <1>3, <1>4, <3>1 DEF CheckQuota, SubmitToProvider, RequestStates, Registered, At
    <3> QED
      BY <1>3, <1>6, <3>1 DEF Submit, ProviderRefuses, RecordSubmission, SubmitToShellLibrary
  <2>2. CASE RecordSubmission(r)
    <3>1. \A t \in Tasks : jobs'[t] = IF t \in req[r].tasks THEN "submitted" ELSE jobs[t]
      BY <2>2 DEF RecordSubmission
    <3> QED
      BY <1>1, <2>1, <2>2, <3>1 DEF RecordSubmission
  <2>3. CASE SubmitToShellLibrary(r)
    <3>1. PICK as \in SUBSET Placeholders :
              completed' = [a \in Assets |-> completed[a] + (IF a \in as THEN 1 ELSE 0)]
      BY <2>3 DEF SubmitToShellLibrary, kSubset
    <3>2. \A t \in Tasks \ artifacts' : completed'[t] = 0
      <4> SUFFICES ASSUME NEW t \in Tasks \ artifacts' PROVE completed'[t] = 0
        OBVIOUS
      <4>1. t \in Assets /\ t \notin as /\ completed[t] = 0
        BY <1>1, GenerationAssumption DEF Assets
      <4>2. completed'[t] = completed[t] + 0
        BY <3>1, <4>1
      <4> QED
        BY <4>1, <4>2
    <3> QED
      BY <1>1, <2>1, <2>3, <3>2 DEF SubmitToShellLibrary
  <2> QED
    BY <1>5, <1>6, <2>1, <2>2, <2>3 DEF Submit, CheckQuota, SubmitToProvider, ProviderRefuses,
                                        registryVars
<1>7. ASSUME NEW r \in Requests, Poll(r)
      PROVE  /\ \A u \in Requests : Registered(req[u])'
             /\ \A t \in Tasks \ artifacts' : jobs'[t] # "succeeded" /\ completed'[t] = 0
  <2> DEFINE t == req[r].asset
  <2>1. req[r].handler = "poll" /\ req[r].pc \notin Over /\ t \in Tasks /\ t \in Assets
    BY <1>1, <1>7, PolledTask DEF Poll, FindJob, PollProvider, FindIngestedAsset, IngestAsset,
         IngestCollides, IngestionFails, ReadJobs, FinishPoll, At, Over, Assets
  <2>2. CASE FindJob(r)
    <3>1. CASE jobs[t] = "none"
      BY <1>3, <1>5, <2>2, <3>1 DEF FindJob, registryVars
    <3>2. CASE jobs[t] # "none"
      <4>1. /\ req'[r].asset = t /\ req'[r].goal = jobs[t] /\ UNCHANGED <<jobs, completed, artifacts>>
            /\ \A u \in Requests \ {r} : req'[u] = req[u]
        BY <1>4, <2>2, <3>2 DEF FindJob, registryVars, RequestStates
      <4> QED
        BY <1>1, <1>2, <1>5, <2>1, <4>1 DEF Registered
    <3> QED
      BY <3>1, <3>2
  <2>3. CASE PollProvider(r)
    <3>1. /\ req'[r].goal = provider[t] /\ UNCHANGED <<jobs, completed>>
          /\ req'[r].pc = IF provider[t] = "succeeded" THEN "fetched" ELSE "ingested"
          /\ \A u \in Requests \ {r} : req'[u] = req[u]
      BY <1>4, <2>3 DEF PollProvider, registryVars, RequestStates
    <3> QED
      BY <1>2, <1>5, <3>1 DEF Registered
  <2>4. CASE FindIngestedAsset(r) \/ IngestAsset(r)
    <3>1. /\ req'[r].asset = t /\ UNCHANGED <<jobs, completed>>
          /\ \A u \in Requests \ {r} : req'[u] = req[u]
      BY <1>4, <2>4 DEF FindIngestedAsset, IngestAsset, Goto, registryVars, RequestStates
    <3>2. t \in artifacts'
      BY <1>1, <2>1, <2>4 DEF FindIngestedAsset, IngestAsset
    <3> QED
      BY <1>2, <1>5, <3>1, <3>2 DEF Registered
  <2>5. CASE ReadJobs(r)
    <3>1. /\ req'[r].asset = t /\ req'[r].goal = req[r].goal /\ req[r].pc = "ingested"
          /\ UNCHANGED <<jobs, completed>> /\ \A u \in Requests \ {r} : req'[u] = req[u]
      BY <1>4, <2>5 DEF ReadJobs, registryVars, RequestStates, At
    <3> QED
      BY <1>1, <1>2, <1>5, <2>1, <3>1 DEF Registered
  <2>6. CASE IngestionFails(r)
    <3>1. PICK status \in {"failed", jobs[t]} : jobs' = [jobs EXCEPT ![t] = status]
      BY <2>6 DEF IngestionFails, JobStatusAfter
    <3>2. \A u \in Tasks : jobs'[u] = IF u = t THEN status ELSE jobs[u]
      BY <1>1, <2>1, <3>1 DEF TypeInv, TypeOK
    <3> QED
      BY <1>1, <1>3, <2>6, <3>1, <3>2 DEF IngestionFails
  <2>7. CASE FinishPoll(r)
    <3>1. req[r].goal = "succeeded" => t \in artifacts
      BY <1>1, <2>1, <2>7 DEF FinishPoll, At, Registered
    <3>2. PICK status \in {req[r].goal, jobs[t]} : jobs' = [jobs EXCEPT ![t] = status]
      BY <2>7 DEF FinishPoll, JobStatusAfter
    <3>3. \A u \in Tasks : jobs'[u] = IF u = t THEN status ELSE jobs[u]
      BY <1>1, <2>1, <3>2 DEF TypeInv, TypeOK
    <3>4. \A u \in Tasks \ {t} : completed'[u] = completed[u]
      BY <1>1, <2>7 DEF FinishPoll, TypeInv, TypeOK, Assets
    <3>5. req[r].goal # "succeeded" => completed'[t] = completed[t]
      BY <1>1, <2>1, <2>7 DEF FinishPoll, TypeInv, TypeOK
    <3>6. \A u \in Requests : Registered(req[u])'
      BY <1>3, <2>7 DEF FinishPoll
    <3> QED
      BY <1>1, <2>7, <3>1, <3>2, <3>3, <3>4, <3>5, <3>6 DEF FinishPoll
  <2>8. CASE IngestCollides(r)
    BY <1>3, <1>5, <2>8 DEF IngestCollides, registryVars
  <2> QED
    BY <1>7, <2>2, <2>3, <2>4, <2>5, <2>6, <2>7, <2>8 DEF Poll
<1>8. ASSUME NEW r \in Requests, Arrives(r)
      PROVE  /\ \A u \in Requests : Registered(req[u])'
             /\ \A t \in Tasks \ artifacts' : jobs'[t] # "succeeded" /\ completed'[t] = 0
  <2>1. /\ UNCHANGED <<jobs, completed>> /\ req'[r].pc \in Over \cup {"loaded"}
        /\ \A u \in Requests \ {r} : req'[u] = req[u]
    BY <1>1, <1>8, ArrivedRequest DEF Arrives, registryVars
  <2> QED
    BY <1>2, <1>5, <2>1 DEF Registered, Over
<1>9. ASSUME NEW r \in Requests, ChangeAssets(r) \/ Abandon(r)
      PROVE  /\ \A u \in Requests : Registered(req[u])'
             /\ \A t \in Tasks \ artifacts' : jobs'[t] # "succeeded" /\ completed'[t] = 0
  <2>1. UNCHANGED <<jobs, completed>>
    BY <1>9 DEF ChangeAssets, Abandon, RefuseAssetChange, RefreshAndCheck, AcceptCanonical,
                AcceptMetadataOnly, ApplyKeycap, PatchLayout, CommitOrConflict, registryVars
  <2>2. CASE RefreshAndCheck(r)
    <3>1. CASE RevisionAsExpected(req[r].expected, row)
      <4>1. req'[r].pc = "checked" /\ \A u \in Requests \ {r} : req'[u] = req[u]
        BY <1>4, <2>2, <3>1 DEF RefreshAndCheck, RequestStates
      <4> QED
        BY <1>2, <1>5, <2>1, <4>1 DEF Registered
    <3>2. CASE ~ RevisionAsExpected(req[r].expected, row)
      BY <1>3, <1>5, <2>1, <2>2, <3>2 DEF RefreshAndCheck
    <3> QED
      BY <3>1, <3>2
  <2> QED
    BY <1>3, <1>5, <1>9, <2>1, <2>2 DEF ChangeAssets, Abandon, RefuseAssetChange, AcceptCanonical,
         AcceptMetadataOnly, ApplyKeycap, PatchLayout, CommitOrConflict
<1>10. ASSUME NEW t \in Tasks, ProviderProgress(t)
       PROVE  /\ \A u \in Requests : Registered(req[u])'
              /\ \A u \in Tasks \ artifacts' : jobs'[u] # "succeeded" /\ completed'[u] = 0
  BY <1>1, <1>10 DEF ProviderProgress, registryVars, Registered
<1>11. Pollers \subseteq Requests
  BY GenerationAssumption
<1> QED
  BY <1>6, <1>7, <1>8, <1>9, <1>10, <1>11 DEF Next, Arrives

LEMMA DocsStep == DocsInv /\ [Next]_vars => DocsInv'
<1> SUFFICES ASSUME DocsInv, [Next]_vars PROVE DocsInv'
  OBVIOUS
<1>1. CASE UNCHANGED vars
  BY <1>1, TypeStep DEF vars, DocsInv, Registered
<1>2. CASE Next
  <2>1. /\ TypeInv /\ TypeInv'
        /\ artifacts \subseteq artifacts' /\ \A a \in Assets : completed'[a] = 0 => completed[a] = 0
    BY <1>2, TypeStep, RegistryGrows DEF DocsInv
  <2>2. /\ \A o \in Requests : Checked(req'[o])
        /\ \A o \in Requests : Registered(req[o])'
        /\ \A t \in Tasks \ artifacts' : jobs'[t] # "succeeded" /\ completed'[t] = 0
    BY <1>2, <2>1, CheckedStep, RegisteredStep DEF DocsInv
  <2>3. ASSUME UNCHANGED snapshots
        PROVE  Extends(snapshots, snapshots') /\ History(snapshots', artifacts', completed')
    <3>1. Extends(snapshots, snapshots')
      BY <2>3 DEF Extends
    <3>2. \A n \in DOMAIN snapshots : DocInv(snapshots[n], snapshots', artifacts', completed')
      BY <2>1, <3>1, DocKept DEF DocsInv, History
    <3> QED
      BY <2>3, <3>1, <3>2 DEF DocsInv, History
  <2>4. ASSUME UNCHANGED storeVars
        PROVE  DocInv(row'.data, snapshots', artifacts', completed')
    BY <2>1, <2>3, <2>4, DocKept DEF DocsInv, storeVars
  <2>5. ASSUME Extends(snapshots, snapshots'), NEW o \in Requests
        PROVE  DocInv(req[o].project, snapshots', artifacts', completed')
    BY <2>1, <2>5, DocKept DEF DocsInv
  <2>6. ASSUME Extends(snapshots, snapshots'), History(snapshots', artifacts', completed')
        PROVE  DocInv(NewProject, snapshots', artifacts', completed')
    BY <2>6 DEF History
  <2>7. ASSUME Extends(snapshots, snapshots'), NEW r \in Requests, NEW new, Written(r, new)
        PROVE  DocInv(new, snapshots', artifacts', completed')
    <3>1. DocInv(new, snapshots, artifacts', completed')
      BY <2>1, <2>7, DocWritten DEF DocsInv
    <3> QED
      BY <2>7, <3>1, DocKept
  <2>8. ASSUME NEW t \in Tasks, ProviderProgress(t)
        PROVE  DocsInv'
    <3>1. UNCHANGED storeVars /\ UNCHANGED snapshots /\ UNCHANGED req
      BY <2>8 DEF ProviderProgress, storeVars
    <3> QED
      BY <2>1, <2>2, <2>3, <2>4, <2>5, <3>1 DEF DocsInv
  <2>9. ASSUME NEW r \in Requests, Arrives(r)
        PROVE  DocsInv'
    <3>1. /\ UNCHANGED storeVars /\ UNCHANGED snapshots
          /\ req'[r].project \in {NewProject, row'.data}
          /\ \A o \in Requests \ {r} : req'[o] = req[o]
      BY <2>1, <2>9, ArrivedRequest DEF Arrives, storeVars
    <3>2. \A o \in Requests : DocInv(req'[o].project, snapshots', artifacts', completed')
      BY <2>3, <2>4, <2>5, <2>6, <3>1
    <3> QED
      BY <2>1, <2>2, <2>3, <2>4, <3>1, <3>2 DEF DocsInv
  <2>10. ASSUME NEW r \in Requests, GoesOn(r),
                UNCHANGED storeVars \/ WritesMetadata(r) \/ RevisesProject(r)
         PROVE  DocsInv'
    <3>1. /\ Extends(snapshots, snapshots') /\ History(snapshots', artifacts', completed')
          /\ DocInv(row'.data, snapshots', artifacts', completed')
      <4>1. CASE UNCHANGED storeVars
        BY <2>3, <2>4, <4>1 DEF storeVars
      <4>2. CASE WritesMetadata(r)
        <5>1. PICK new \in Documents : PersistProjectMetadata(req[r].loaded, new) /\ Written(r, new)
          BY <4>2 DEF WritesMetadata
        <5>2. UNCHANGED snapshots /\ row'.data = new
          BY <2>1, <5>1, SyncedRow DEF PersistProjectMetadata, TypeInv, TypeOK
        <5> QED
          BY <2>3, <2>7, <5>1, <5>2
      <4>3. CASE RevisesProject(r)
        BY <2>1, <4>3, DocRevised
      <4> QED
        BY <2>10, <4>1, <4>2, <4>3
    <3>2. ASSUME NEW o \in Requests
          PROVE  DocInv(req'[o].project, snapshots', artifacts', completed')
      <4>1. CASE o # r
        BY <2>5, <2>10, <3>1, <4>1 DEF GoesOn
      <4>2. CASE o = r
        BY <2>6, <2>7, <2>10, <3>1, <4>2 DEF GoesOn
      <4> QED
        BY <4>1, <4>2
    <3> QED
      BY <2>1, <2>2, <3>1, <3>2 DEF DocsInv
  <2> QED
    BY <1>2, <2>1, <2>8, <2>9, <2>10, StepKinds
<1> QED
  BY <1>1, <1>2

LEMMA InitDocs == Init => DocsInv
<1> SUFFICES ASSUME Init PROVE DocsInv
  OBVIOUS
<1>1. /\ TypeInv /\ row = RowOf(StartProject) /\ artifacts = Delivered /\ jobs = provider
      /\ snapshots = [n \in {1} |-> NewProject]
      /\ provider = [t \in Tasks |-> IF t \in Delivered THEN "succeeded" ELSE "none"]
      /\ completed = [a \in Assets |-> IF a \in Delivered THEN 1 ELSE 0]
      /\ \A r \in Requests : req[r] = Closed("idle")
  BY InitType DEF Init
<1>2. row.data = StartProject
  BY <1>1, NewDocuments, RowOfDocument
<1>3. DocInv(NewProject, snapshots, artifacts, completed)
  BY <1>1, NewDocuments DEF DocInv, Assets
<1>4. DocInv(StartProject, snapshots, artifacts, completed)
  BY <1>1, NewDocuments, GenerationAssumption DEF DocInv, Assets, Canonical
<1>5. History(snapshots, artifacts, completed)
  BY <1>1, <1>3, NewDocuments DEF History
<1>6. \A r \in Requests : req[r].project = NewProject /\ req[r].pc = "idle"
  BY <1>1, ClosedRequest DEF PCs
<1>7. \A t \in Tasks \ artifacts : jobs[t] # "succeeded" /\ completed[t] = 0
  BY <1>1 DEF Assets
<1> QED
  BY <1>1, <1>2, <1>3, <1>4, <1>5, <1>6, <1>7 DEF DocsInv, Checked, Registered

LEMMA DocsAlways == Spec => []DocsInv
  BY InitDocs, DocsStep, PTL DEF Spec

LEMMA LiveDoc ==
    ASSUME DocsInv, NEW doc \in LiveDocuments
    PROVE  DocInv(doc, snapshots, artifacts, completed)
  BY DEF LiveDocuments, Seen, DocsInv, History

\* No document shows a generated asset, no job reports it and no usage event counts
\* it before its mesh rows are committed, wherever a poll stops.
THEOREM MeshesFirst == Spec => []MeshesBeforeAssets
<1>1. DocsInv => MeshesBeforeAssets
  BY LiveDoc DEF MeshesBeforeAssets, DocsInv, DocInv
<1> QED
  BY <1>1, DocsAlways, PTL

\* What is accepted and where it is applied is a function of the revision, in every
\* document a table or a request holds.
THEOREM CanonicalRevisioned == Spec => []CanonicalStateIsRevisioned
<1>1. ASSUME DocsInv
      PROVE  CanonicalStateIsRevisioned
  <2> SUFFICES ASSUME NEW doc \in LiveDocuments
               PROVE  /\ doc.revision \in DOMAIN snapshots
                      /\ CanonicalAssets(doc) = CanonicalAssets(snapshots[doc.revision])
                      /\ doc.layout = snapshots[doc.revision].layout
    BY DEF CanonicalStateIsRevisioned
  <2>1. DocInv(doc, snapshots, artifacts, completed)
    BY <1>1, LiveDoc
  <2> QED
    BY <2>1 DEF DocInv, CanonicalAssets
<1> QED
  BY <1>1, DocsAlways, PTL

\* An accepted asset that stays applied from one revision to the next stays accepted.
THEOREM AppliedStayAccepted == Spec => []AppliedAssetsStayAccepted
<1>1. ASSUME DocsInv
      PROVE  AppliedAssetsStayAccepted
  <2> SUFFICES ASSUME NEW n \in DOMAIN snapshots, n > 1,
                      NEW a \in Applied(snapshots[n - 1]) \cap Applied(snapshots[n]),
                      a \in CanonicalAssets(snapshots[n - 1])
               PROVE  a \in CanonicalAssets(snapshots[n])
    BY DEF AppliedAssetsStayAccepted
  <2>1. Succeeds(snapshots[n - 1], snapshots[n])
    BY <1>1 DEF DocsInv, History
  <2> QED
    BY <2>1 DEF Succeeds, CanonicalAssets
<1> QED
  BY <1>1, DocsAlways, PTL
=============================================================================
