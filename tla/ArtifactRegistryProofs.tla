----------------------- MODULE ArtifactRegistryProofs -----------------------
(***************************************************************************)
(* Theorems of ArtifactRegistry, for every finite set of workers, every    *)
(* set of configurations, either backend, every quota and every bound on   *)
(* the edits and requests of a behaviour.                                  *)
(***************************************************************************)
EXTENDS ArtifactRegistry, FiniteSetTheorems, TLAPS

-----------------------------------------------------------------------------
(* Type correctness: a metadata write puts the revision its request loaded *)
(* back into the document, so the invariant needs that one in range.       *)

TypeInv ==
    /\ TypeOK
    /\ \A w \in Workers : req[w].rev <= top

LEMMA IdsOfRevision ==
    ASSUME NEW r \in Revisions
    PROVE  /\ ExportReport(r) \in Ids /\ Bundle(r) \in Ids /\ Shell(r) \in Ids
           /\ \A n \in 1 .. MaxRequests : RunReport(r, n) \in Ids
           /\ \A c \in Configs : Panel(r, c) \in Ids
  BY DEF Ids, Reports, BundleIds

LEMMA IdsOfRequest ==
    ASSUME NEW q \in RequestStates
    PROVE  /\ q.rev \in Revisions /\ q.cfg \in Configs
           /\ Compiled(q) \in Ids /\ ExportIds(q) \subseteq Ids
           /\ RunReport(q.rev, q.n) \in Ids
<1>1. q.rev \in Revisions /\ q.cfg \in Configs /\ q.n \in 1 .. MaxRequests
  BY DEF RequestStates
<1> QED
  BY <1>1, IdsOfRevision DEF Compiled, ExportIds

LEMMA IdleRequest == Idle \in RequestStates /\ Idle.rev = 1 /\ Idle.pc = "idle" /\ Idle.handler = "gate"
<1>1. 1 \in Revisions /\ 1 \in 1 .. MaxRequests
  BY RegistryAssumption DEF Revisions
<1>2. ExportReport(1) \in Ids
  BY <1>1, IdsOfRevision
<1> QED
  BY <1>1, <1>2, RegistryAssumption DEF Idle, RequestStates, PCs, Handlers, NoConfig

\* One request changes.
LEMMA OneRequest ==
    ASSUME TypeOK, NEW w \in Workers, NEW q \in RequestStates, Goto(w, q)
    PROVE  /\ req' \in [Workers -> RequestStates]
           /\ req'[w] = q
           /\ \A o \in Workers \ {w} : req'[o] = req[o]
  BY DEF TypeOK, Goto

\* What a request's steps make of its record.
LEMMA RequestMoves ==
    ASSUME NEW q \in RequestStates
    PROVE  /\ \A pc \in PCs : /\ [q EXCEPT !.pc = pc] \in RequestStates
                              /\ [q EXCEPT !.pc = pc].rev = q.rev
                              /\ [q EXCEPT !.pc = pc].pc = pc
           /\ \A at \in Nat : [q EXCEPT !.at = at] \in RequestStates /\ [q EXCEPT !.at = at].rev = q.rev
  BY DEF RequestStates

\* The steps of a request that touch neither the tables nor the store.
QuietSteps(w) ==
    \/ \E h \in Handlers, c \in Configs : LoadProject(w, h, c)
    \/ CheckExport(w) \/ ServeMechanical(w)
    \/ (\E id \in Ids : FindArtifact(w, id)) \/ CountDownload(w) \/ SendArtifact(w)
    \/ BuildQualityGate(w) \/ Fail(w)

LEMMA QuietRequest ==
    ASSUME TypeInv, NEW w \in Workers, QuietSteps(w)
    PROVE  /\ UNCHANGED registryVars
           /\ UNCHANGED <<clock, purged>>
           /\ issued' \in 0 .. MaxRequests
           /\ req' \in [Workers -> RequestStates]
           /\ \A o \in Workers \ {w} : req'[o] = req[o]
           /\ req'[w].rev <= top
           /\ raced \subseteq raced' /\ raced' \subseteq Revisions
           /\ misled' \subseteq Ids /\ dropped' \in BOOLEAN /\ ready' \subseteq Revisions
<1> DEFINE q == req[w]
<1>1. /\ q \in RequestStates /\ q.rev <= top /\ doc \in Revisions /\ doc <= top
      /\ q.rev \in Revisions /\ Compiled(q) \in Ids
      /\ raced \subseteq Revisions /\ misled \subseteq Ids /\ dropped \in BOOLEAN
      /\ ready \subseteq Revisions /\ issued \in 0 .. MaxRequests
      /\ top \in Nat /\ 1 <= top /\ MaxRequests \in Nat
  <2>1. q \in RequestStates /\ q.rev <= top
    BY DEF TypeInv, TypeOK
  <2>2. doc \in Revisions /\ doc <= top /\ top \in Nat /\ 1 <= top /\ MaxRequests \in Nat
    BY RegistryAssumption DEF TypeInv, TypeOK, Revisions
  <2> QED
    BY <2>1, <2>2, IdsOfRequest DEF TypeInv, TypeOK
<1>2. ASSUME NEW s \in RequestStates, Goto(w, s), s.rev <= top
      PROVE  /\ req' \in [Workers -> RequestStates]
             /\ \A o \in Workers \ {w} : req'[o] = req[o]
             /\ req'[w].rev <= top
  BY <1>2, OneRequest DEF TypeInv
<1>3. ASSUME Answer(w)
      PROVE  /\ req' \in [Workers -> RequestStates]
             /\ \A o \in Workers \ {w} : req'[o] = req[o]
             /\ req'[w].rev <= top
  BY <1>1, <1>2, <1>3, IdleRequest DEF Answer
<1>4. ASSUME NEW h \in Handlers, NEW c \in Configs, LoadProject(w, h, c)
      PROVE  /\ req' \in [Workers -> RequestStates]
             /\ \A o \in Workers \ {w} : req'[o] = req[o]
             /\ req'[w].rev <= top
             /\ issued' \in 0 .. MaxRequests
  <2> DEFINE s == [Idle EXCEPT !.pc = "loaded", !.handler = h, !.rev = doc, !.cfg = c]
  <2>1. s \in RequestStates /\ s.rev = doc
    BY <1>1, IdleRequest DEF RequestStates, PCs
  <2>2. Goto(w, s)
    BY <1>4 DEF LoadProject
  <2> HIDE DEF s
  <2>3. issued' \in 0 .. MaxRequests
    BY <1>1, <1>4 DEF LoadProject
  <2> QED
    BY <1>1, <1>2, <2>1, <2>2, <2>3
<1>5. CASE \E h \in Handlers, c \in Configs : LoadProject(w, h, c)
  BY <1>1, <1>4, <1>5 DEF LoadProject, observed
<1>6. CASE CheckExport(w)
  BY <1>1, <1>2, <1>3, <1>6, RequestMoves DEF CheckExport, observed, PCs
<1>7. CASE ServeMechanical(w)
  BY <1>1, <1>3, <1>7 DEF ServeMechanical, Compiled, Shell, Panel, Id
<1>8. ASSUME NEW id \in Ids, FindArtifact(w, id)
      PROVE  /\ req' \in [Workers -> RequestStates]
             /\ \A o \in Workers \ {w} : req'[o] = req[o]
             /\ req'[w].rev <= top
  <2> DEFINE s == [q EXCEPT !.pc = "recorded", !.target = id]
  <2>1. s \in RequestStates /\ s.rev = q.rev
    BY <1>1 DEF RequestStates, PCs
  <2> QED
    BY <1>1, <1>2, <1>8, <2>1 DEF FindArtifact
<1>9. CASE \E id \in Ids : FindArtifact(w, id)
  BY <1>1, <1>8, <1>9 DEF FindArtifact, observed
<1>10. CASE CountDownload(w)
  BY <1>1, <1>2, <1>10, RequestMoves DEF CountDownload, observed, PCs
<1>11. CASE SendArtifact(w)
  BY <1>1, <1>3, <1>11 DEF SendArtifact
<1>12. CASE BuildQualityGate(w)
  BY <1>1, <1>3, <1>12 DEF BuildQualityGate
<1>13. CASE Fail(w)
  BY <1>1, <1>3, <1>13 DEF Fail, Compiled, Shell, Panel, Id
<1> QED
  BY <1>5, <1>6, <1>7, <1>9, <1>10, <1>11, <1>12, <1>13 DEF QuietSteps

\* What a request that writes files registers with its commit.
RegisteredBy(q) ==
    IF q.handler = "validate" THEN {RunReport(q.rev, q.n)}
    ELSE IF q.handler = "export" THEN ExportIds(q)
    ELSE {Compiled(q)}

\* The steps that write files: what they write, and who writes.
Writes(w, written, content) ==
    /\ files' = [id \in Ids |-> IF id \in written THEN content ELSE files[id]]
    /\ UNCHANGED <<backend, verdict, exists, doc, top, rows, exports, issued, purged, misled,
                   dropped, ready>>

LEMMA WritingRequest ==
    ASSUME TypeInv, NEW w \in Workers, RunValidation(w) \/ BuildExport(w) \/ Compile(w)
    PROVE  /\ \E content \in Contents \ {NoFile} : Writes(w, RegisteredBy(req'[w]), content)
           /\ RegisteredBy(req'[w]) \subseteq Ids
           /\ req[w].handler \in {"validate", "export"} \cup CompileHandlers
           /\ req' \in [Workers -> RequestStates]
           /\ \A o \in Workers \ {w} : req'[o] = req[o]
           /\ req'[w].rev = req[w].rev /\ req'[w].handler = req[w].handler
           /\ req'[w].cfg = req[w].cfg /\ req'[w].pc = "recorded"
           /\ clock' \in Nat \ {0}
           /\ raced \subseteq raced' /\ raced' \subseteq Revisions
<1> DEFINE q == req[w]
<1>1. q \in RequestStates /\ clock \in Nat \ {0} /\ raced \subseteq Revisions
      /\ rows \in [Ids -> RowValues]
  BY DEF TypeInv, TypeOK
<1>2. q.rev \in Revisions /\ q.cfg \in Configs /\ Compiled(q) \in Ids /\ ExportIds(q) \subseteq Ids
  BY <1>1, IdsOfRequest
<1>3. Plain \in Contents \ {NoFile} /\ q.cfg \in Contents \ {NoFile}
  BY <1>2, RegistryAssumption DEF Contents, Plain, NoFile
<1>4. CASE RunValidation(w)
  <2>1. PICK n \in 1 .. MaxRequests :
          Record(w, {RunReport(q.rev, n)}, Plain, [Stamped(q) EXCEPT !.n = n])
    BY <1>4 DEF RunValidation
  <2> DEFINE s == [[Stamped(q) EXCEPT !.n = n] EXCEPT !.pc = "recorded"]
  <2>2. s \in RequestStates /\ s.rev = q.rev /\ s.handler = q.handler /\ s.cfg = q.cfg
        /\ s.pc = "recorded" /\ s.n = n
    BY <1>1, <2>1 DEF Stamped, RequestStates, PCs
  <2>3. Goto(w, s)
    BY <2>1 DEF Record
  <2> HIDE DEF s
  <2>4. RunReport(q.rev, n) \in Ids
    BY <1>2, IdsOfRevision
  <2>5. Writes(w, {RunReport(q.rev, n)}, Plain)
    BY <1>4, <2>1 DEF RunValidation, Record, Writes, observed
  <2>6. q.handler = "validate" /\ RegisteredBy(s) = {RunReport(q.rev, n)}
    BY <1>4, <2>2 DEF RunValidation, At, RegisteredBy
  <2>7. /\ req' \in [Workers -> RequestStates] /\ req'[w] = s
        /\ \A o \in Workers \ {w} : req'[o] = req[o]
    BY <2>2, <2>3, OneRequest DEF TypeInv
  <2>8. clock' \in Nat \ {0} /\ raced' = raced
    BY <1>1, <1>4 DEF RunValidation, Tick, observed
  <2> QED
    BY <1>1, <1>3, <2>2, <2>4, <2>5, <2>6, <2>7, <2>8
<1>5. CASE BuildExport(w)
  <2> DEFINE s == [[Stamped(q) EXCEPT !.seen = ExportIds(q) \cap Registered] EXCEPT !.pc = "recorded"]
  <2>1. s \in RequestStates /\ s.rev = q.rev /\ s.handler = q.handler /\ s.cfg = q.cfg
        /\ s.pc = "recorded"
    BY <1>1, <1>2 DEF Stamped, RequestStates, PCs
  <2>2. Goto(w, s)
    BY <1>5 DEF BuildExport, Record
  <2> HIDE DEF s
  <2>3. Writes(w, ExportIds(q), Plain)
    BY <1>5 DEF BuildExport, Record, Writes, observed
  <2>4. q.handler = "export" /\ RegisteredBy(s) = ExportIds(q)
    BY <1>5, <2>1 DEF BuildExport, At, RegisteredBy, ExportIds
  <2>5. /\ req' \in [Workers -> RequestStates] /\ req'[w] = s
        /\ \A o \in Workers \ {w} : req'[o] = req[o]
    BY <2>1, <2>2, OneRequest DEF TypeInv
  <2>6. clock' \in Nat \ {0} /\ raced' = raced
    BY <1>1, <1>5 DEF BuildExport, Tick, observed
  <2> QED
    BY <1>1, <1>2, <1>3, <2>1, <2>3, <2>4, <2>5, <2>6
<1>6. CASE Compile(w)
  <2> DEFINE s == [[q EXCEPT !.old = rows[Compiled(q)].cfg] EXCEPT !.pc = "recorded"]
  <2>1. rows[Compiled(q)].cfg \in Configs \cup {NoConfig}
    BY <1>1, <1>2 DEF RowValues
  <2>2. s \in RequestStates /\ s.rev = q.rev /\ s.handler = q.handler /\ s.cfg = q.cfg
        /\ s.pc = "recorded"
    BY <1>1, <2>1 DEF RequestStates, PCs
  <2>3. Goto(w, s)
    BY <1>6 DEF Compile, Record
  <2> HIDE DEF s
  <2>4. Writes(w, {Compiled(q)}, q.cfg)
    BY <1>6 DEF Compile, Record, Writes
  <2>5. raced \subseteq raced' /\ raced' \subseteq Revisions
    BY <1>1, <1>2, <1>6 DEF Compile, Compiled, Panel, Shell, Id
  <2>6. q.handler \in CompileHandlers /\ RegisteredBy(s) = {Compiled(q)}
    BY <1>6, <2>2 DEF Compile, At, RegisteredBy, CompileHandlers, Compiled
  <2>7. /\ req' \in [Workers -> RequestStates] /\ req'[w] = s
        /\ \A o \in Workers \ {w} : req'[o] = req[o]
    BY <2>2, <2>3, OneRequest DEF TypeInv
  <2>8. clock' \in Nat \ {0}
    BY <1>1, <1>6 DEF Compile
  <2> QED
    BY <1>2, <1>3, <2>2, <2>4, <2>5, <2>6, <2>7, <2>8
<1> QED
  BY <1>4, <1>5, <1>6

\* The steps that commit rows: what they register.
Registers(w, new) ==
    /\ new # {}
    /\ exists
    /\ \A id \in Ids : rows'[id] \in RowValues
                       /\ IF id \in new THEN rows'[id].there ELSE rows'[id] = rows[id]
    /\ rows' \in [Ids -> RowValues]
    /\ doc' = req[w].rev
    /\ UNCHANGED <<backend, verdict, exists, top, files, issued, clock, observed>>

LEMMA RegisteringRequest ==
    ASSUME TypeInv, NEW w \in Workers, CommitValidation(w) \/ CommitExport(w) \/ CommitCompile(w)
    PROVE  /\ Registers(w, RegisteredBy(req[w]))
           /\ req[w].pc = "recorded" /\ req[w].handler \in {"validate", "export"} \cup CompileHandlers
           /\ req' \in [Workers -> RequestStates]
           /\ \A o \in Workers \ {w} : req'[o] = req[o]
           /\ \/ req'[w] = Idle
              \/ req[w].handler \in CompileHandlers /\ req'[w] = [req[w] EXCEPT !.pc = "built"]
           /\ req'[w].rev <= top
           /\ \/ exports' = exports + 1 /\ req[w].handler = "export"
              \/ exports' = exports
<1> DEFINE q == req[w]
<1>1. /\ q \in RequestStates /\ rows \in [Ids -> RowValues] /\ q.at \in Nat
      /\ q.rev <= top /\ 1 <= top
  BY RegistryAssumption DEF TypeInv, TypeOK, RequestStates, Revisions
<1>2. q.rev \in Revisions /\ q.cfg \in Configs /\ Compiled(q) \in Ids /\ ExportIds(q) \subseteq Ids
      /\ RunReport(q.rev, q.n) \in Ids
  BY <1>1, IdsOfRequest
<1>3. ASSUME NEW new \in SUBSET Ids, NEW f \in [new -> RowValues], new # {}, CommitRows(w, f),
             \A id \in new : f[id].there, UNCHANGED observed
      PROVE  Registers(w, new)
  BY <1>1, <1>3 DEF CommitRows, Registers
<1>4. ASSUME Answer(w)
      PROVE  /\ req' \in [Workers -> RequestStates] /\ req'[w] = Idle
             /\ \A o \in Workers \ {w} : req'[o] = req[o]
             /\ req'[w].rev <= top
  BY <1>1, <1>4, IdleRequest, OneRequest DEF Answer, TypeInv
<1>5. CASE CommitValidation(w)
  <2> DEFINE new == {RunReport(q.rev, q.n)}
             f == [id \in new |-> Row(NoConfig, q.at)]
  <2>1. /\ CommitRows(w, f) /\ Answer(w) /\ UNCHANGED <<exports, observed>>
        /\ q.pc = "recorded" /\ q.handler = "validate"
    BY <1>5 DEF CommitValidation, At
  <2>2. f \in [new -> RowValues] /\ \A id \in new : f[id].there
    BY <1>1 DEF Row, RowValues
  <2>3. new \in SUBSET Ids /\ new # {} /\ UNCHANGED observed
    BY <1>2, <2>1 DEF observed
  <2> HIDE DEF f, new
  <2>4. Registers(w, new)
    BY <1>3, <2>1, <2>2, <2>3
  <2>5. ~ CommitExport(w)
    BY <2>1 DEF CommitExport, At
  <2> QED
    BY <1>4, <2>1, <2>4, <2>5 DEF RegisteredBy, new
<1>6. CASE CommitExport(w)
  <2> DEFINE f == [id \in ExportIds(q) |-> Row(NoConfig, IF id = Bundle(q.rev) THEN q.at ELSE 0)]
  <2>1. /\ CommitRows(w, f) /\ Answer(w) /\ UNCHANGED observed /\ exports' = exports + 1
        /\ q.pc = "recorded" /\ q.handler = "export"
    BY <1>6 DEF CommitExport, At
  <2>2. f \in [ExportIds(q) -> RowValues] /\ \A id \in ExportIds(q) : f[id].there
    BY <1>1 DEF Row, RowValues
  <2>3. ExportIds(q) # {}
    BY DEF ExportIds
  <2> HIDE DEF f
  <2>4. Registers(w, ExportIds(q))
    BY <1>2, <1>3, <2>1, <2>2, <2>3
  <2> QED
    BY <1>4, <1>6, <2>1, <2>4 DEF RegisteredBy
<1>7. CASE CommitCompile(w)
  <2> DEFINE new == {Compiled(q)}
             f == [id \in new |-> Row(WrittenConfig(q), 0)]
  <2>1. /\ CommitRows(w, f) /\ UNCHANGED <<exports, observed>>
        /\ q.pc = "recorded" /\ q.handler \in CompileHandlers
        /\ Answer(w) \/ Goto(w, [q EXCEPT !.pc = "built"])
    BY <1>7 DEF CommitCompile, At
  <2>2. WrittenConfig(q) \in Configs \cup {NoConfig}
    BY <1>1, <1>2 DEF WrittenConfig, RowValues
  <2>3. f \in [new -> RowValues] /\ \A id \in new : f[id].there
    BY <2>2 DEF Row, RowValues
  <2>4. new \in SUBSET Ids /\ new # {} /\ UNCHANGED observed
    BY <1>2, <2>1
  <2> HIDE DEF f, new
  <2>5. Registers(w, new)
    BY <1>3, <2>1, <2>3, <2>4
  <2>6. ~ CommitExport(w) /\ q.handler \notin {"validate", "export"}
    BY <2>1 DEF CommitExport, At, CompileHandlers
  <2>7. [q EXCEPT !.pc = "built"] \in RequestStates /\ [q EXCEPT !.pc = "built"].rev = q.rev
    BY <1>1, RequestMoves DEF PCs
  <2>8. /\ req' \in [Workers -> RequestStates]
        /\ \A o \in Workers \ {w} : req'[o] = req[o]
        /\ req'[w] = Idle \/ req'[w] = [q EXCEPT !.pc = "built"]
        /\ req'[w].rev <= top
    BY <1>1, <1>4, <2>1, <2>7, OneRequest DEF TypeInv
  <2> QED
    BY <2>1, <2>5, <2>6, <2>8 DEF RegisteredBy, new
<1> QED
  BY <1>5, <1>6, <1>7

\* The two steps of a deletion.
LEMMA DeletingRequest ==
    ASSUME TypeInv, NEW w \in Workers, RemoveFiles(w) \/ CommitDelete(w)
    PROVE  /\ req' \in [Workers -> RequestStates]
           /\ \A o \in Workers \ {w} : req'[o] = req[o]
           /\ req'[w] = Idle \/ req'[w] = [req[w] EXCEPT !.pc = "recorded"]
           /\ req[w].handler = "delete" /\ req'[w].rev <= top
<1> DEFINE s == [req[w] EXCEPT !.pc = "recorded"]
<1>1. /\ req[w] \in RequestStates /\ req[w].rev <= top /\ 1 <= top
      /\ s \in RequestStates /\ s.rev = req[w].rev /\ Idle \in RequestStates /\ Idle.rev = 1
  <2>1. req[w] \in RequestStates /\ req[w].rev <= top /\ 1 <= top /\ "recorded" \in PCs
    BY DEF TypeInv, TypeOK, Revisions, PCs
  <2> QED
    BY <2>1, RequestMoves, IdleRequest
<1>2. (Goto(w, s) \/ Goto(w, Idle)) /\ req[w].handler = "delete"
  BY DEF RemoveFiles, CommitDelete, Answer, At
<1> HIDE DEF s
<1>3. /\ req' \in [Workers -> RequestStates]
      /\ \A o \in Workers \ {w} : req'[o] = req[o]
      /\ req'[w] = Idle \/ req'[w] = s
      /\ req'[w].rev <= top
  BY <1>1, <1>2, OneRequest DEF TypeInv
<1> QED
  BY <1>2, <1>3 DEF s

WritingSteps(w) == RunValidation(w) \/ BuildExport(w) \/ Compile(w)
RegisteringSteps(w) == CommitValidation(w) \/ CommitExport(w) \/ CommitCompile(w)

LEMMA StepKinds ==
    ASSUME Next
    PROVE  \/ \E v \in Verdicts : CommitEdit(v)
           \/ \E w \in Workers : QuietSteps(w) \/ WritingSteps(w) \/ RegisteringSteps(w)
                                   \/ RemoveFiles(w) \/ CommitDelete(w)
  BY DEF Next, QuietSteps, WritingSteps, RegisteringSteps

LEMMA TypeStep == TypeInv /\ [Next]_vars => TypeInv'
<1> SUFFICES ASSUME TypeInv, [Next]_vars PROVE TypeInv'
  OBVIOUS
<1>1. CASE UNCHANGED vars
  BY <1>1 DEF vars, registryVars, observed, TypeInv, TypeOK, Registered
<1>2. ASSUME NEW v \in Verdicts, CommitEdit(v)
      PROVE  TypeInv'
  <2>1. top \in Nat /\ 1 <= top /\ top < MaxRevision /\ MaxRevision \in Nat
    BY <1>2, RegistryAssumption DEF CommitEdit, TypeInv, TypeOK, Revisions
  <2>2. /\ top' = top + 1 /\ doc' = top + 1
        /\ verdict' = [r \in 1 .. top + 1 |-> IF r = top + 1 THEN v ELSE verdict[r]]
        /\ UNCHANGED <<backend, exists, rows, files, exports, req, issued, clock, observed>>
    BY <1>2 DEF CommitEdit
  <2>3. \A r \in 1 .. top + 1 : r # top + 1 => r \in 1 .. top
    BY <2>1
  <2>4. verdict' \in [1 .. top' -> Verdicts]
    BY <2>2, <2>3 DEF TypeInv, TypeOK
  <2>5. top' \in Revisions /\ doc' \in 1 .. top' /\ \A w \in Workers : req'[w].rev <= top'
    <3>1. \A w \in Workers : req[w].rev \in Nat /\ req[w].rev <= top
      BY DEF TypeInv, TypeOK, RequestStates, Revisions
    <3> QED
      BY <2>1, <2>2, <3>1 DEF Revisions
  <2> QED
    BY <2>2, <2>4, <2>5 DEF TypeInv, TypeOK, observed
<1>3. top \in Nat /\ 1 <= top
  BY DEF TypeInv, TypeOK, Revisions
<1>4. ASSUME NEW w \in Workers, QuietSteps(w)
      PROVE  TypeInv'
  <2>1. /\ UNCHANGED registryVars /\ UNCHANGED <<clock, purged>>
        /\ issued' \in 0 .. MaxRequests
        /\ req' \in [Workers -> RequestStates] /\ \A o \in Workers : req'[o].rev <= top
        /\ raced' \subseteq Revisions
        /\ misled' \subseteq Ids /\ dropped' \in BOOLEAN /\ ready' \subseteq Revisions
    BY <1>4, QuietRequest DEF TypeInv
  <2> QED
    BY <2>1 DEF TypeInv, TypeOK, registryVars
<1>5. ASSUME NEW w \in Workers, WritingSteps(w)
      PROVE  TypeInv'
  <2>1. PICK content \in Contents : Writes(w, RegisteredBy(req'[w]), content)
    BY <1>5, WritingRequest DEF WritingSteps
  <2>2. files' \in [Ids -> Contents]
    BY <2>1 DEF Writes, TypeInv, TypeOK
  <2>3. /\ req' \in [Workers -> RequestStates] /\ \A o \in Workers : req'[o].rev <= top
        /\ clock' \in Nat \ {0} /\ raced' \subseteq Revisions
    BY <1>5, WritingRequest DEF WritingSteps, TypeInv
  <2> QED
    BY <2>1, <2>2, <2>3 DEF Writes, TypeInv, TypeOK
<1>6. ASSUME NEW w \in Workers, RegisteringSteps(w)
      PROVE  TypeInv'
  <2>1. /\ Registers(w, RegisteredBy(req[w])) /\ exports' \in Nat
        /\ req' \in [Workers -> RequestStates] /\ \A o \in Workers : req'[o].rev <= top
    <3>1. /\ Registers(w, RegisteredBy(req[w]))
          /\ req' \in [Workers -> RequestStates]
          /\ \A o \in Workers \ {w} : req'[o] = req[o]
          /\ req'[w].rev <= top
          /\ exports' = exports + 1 \/ exports' = exports
      BY <1>6, RegisteringRequest, Zenon DEF RegisteringSteps
    <3> QED
      BY <3>1 DEF TypeInv, TypeOK
  <2>2. req[w].rev \in 1 .. top
    BY <1>3 DEF TypeInv, TypeOK, RequestStates, Revisions
  <2>3. /\ rows' \in [Ids -> RowValues] /\ doc' = req[w].rev
        /\ UNCHANGED <<backend, verdict, exists, top, files, issued, clock, observed>>
    BY <2>1 DEF Registers
  <2>4. UNCHANGED <<purged, raced, misled, dropped, ready>>
    BY <2>3 DEF observed
  <2>5. TypeOK'
    BY <2>1, <2>2, <2>3, <2>4 DEF TypeInv, TypeOK
  <2> QED
    BY <2>1, <2>3, <2>5 DEF TypeInv
<1>7. ASSUME NEW w \in Workers, RemoveFiles(w) \/ CommitDelete(w)
      PROVE  TypeInv'
  <2>1. /\ req' \in [Workers -> RequestStates] /\ \A o \in Workers : req'[o].rev <= top
    BY <1>7, DeletingRequest DEF TypeInv
  <2>2. CASE RemoveFiles(w)
    BY <2>1, <2>2 DEF RemoveFiles, TypeInv, TypeOK, Contents
  <2>3. CASE CommitDelete(w)
    BY <2>1, <2>3 DEF CommitDelete, TypeInv, TypeOK, observed, NoRow, RowValues, NoConfig
  <2> QED
    BY <1>7, <2>2, <2>3
<1> QED
  BY <1>1, <1>2, <1>4, <1>5, <1>6, <1>7, StepKinds

LEMMA InitType == Init => TypeInv
<1> SUFFICES ASSUME Init PROVE TypeInv
  OBVIOUS
<1>1. 1 \in Revisions /\ 0 \in 0 .. MaxRequests
  BY RegistryAssumption DEF Revisions
<1>2. rows \in [Ids -> RowValues] /\ files \in [Ids -> Contents]
  BY DEF Init, NoRow, RowValues, NoConfig, Contents
<1>3. req \in [Workers -> RequestStates] /\ \A w \in Workers : req[w].rev = 1
  BY IdleRequest DEF Init
<1>4. top = 1 /\ doc = 1 /\ verdict \in [1 .. 1 -> Verdicts] /\ issued = 0 /\ clock = 1 /\ exports = 0
  BY DEF Init
<1>5. top \in Revisions /\ doc \in 1 .. top /\ issued \in 0 .. MaxRequests /\ clock \in Nat \ {0}
      /\ verdict \in [1 .. top -> Verdicts] /\ exports \in Nat
  BY <1>1, <1>4
<1>6. /\ backend \in Backends /\ exists \in BOOLEAN /\ purged \in BOOLEAN /\ dropped \in BOOLEAN
      /\ raced \subseteq Revisions /\ misled \subseteq Ids /\ ready \subseteq Revisions
  BY DEF Init
<1>7. \A w \in Workers : req[w].rev <= top
  BY <1>3, <1>4
<1> QED
  BY <1>2, <1>3, <1>5, <1>6, <1>7 DEF TypeInv, TypeOK

\* The type invariant holds of every behaviour of the artifact registry.
THEOREM TypeCorrect == Spec => []TypeOK
<1>1. TypeInv => TypeOK
  BY DEF TypeInv
<1> QED
  BY <1>1, InitType, TypeStep, PTL DEF Spec

-----------------------------------------------------------------------------
(* Files and rows.                                                         *)

FilingHandlers == {"validate", "export"} \cup CompileHandlers

\* The ids whose files a request in progress relies on.
Held(q) ==
    IF q.pc = "recorded" /\ q.handler \in FilingHandlers THEN RegisteredBy(q)
    ELSE IF q.pc \in {"recorded", "built"} /\ q.handler = "download" THEN {q.target}
    ELSE {}

\* Where the steps that touch no table lead a request.
LEMMA QuietMoves ==
    ASSUME TypeInv, NEW w \in Workers, QuietSteps(w)
    PROVE  \/ req'[w] = Idle
           \/ req'[w].pc = "loaded"
           \/ /\ req'[w].pc = "checked" /\ req'[w].handler = "export"
              /\ req'[w].rev = req[w].rev /\ MayExport(req[w])
           \/ /\ req'[w].pc \in {"recorded", "built"} /\ req'[w].handler = "download"
              /\ files[req'[w].target] # NoFile \/ req'[w].target \in Held(req[w])
<1> DEFINE q == req[w]
<1>1. q \in RequestStates /\ req \in [Workers -> RequestStates]
  BY DEF TypeInv, TypeOK
<1>2. ASSUME Answer(w)
      PROVE  req'[w] = Idle
  BY <1>1, <1>2 DEF Answer, Goto
<1>3. CASE \E h \in Handlers, c \in Configs : LoadProject(w, h, c)
  <2>1. PICK h \in Handlers, c \in Configs : LoadProject(w, h, c)
    BY <1>3
  <2>2. req'[w] = [Idle EXCEPT !.pc = "loaded", !.handler = h, !.rev = doc, !.cfg = c]
    BY <1>1, <2>1 DEF LoadProject, Goto
  <2> QED
    BY <2>2 DEF Idle
<1>4. CASE CheckExport(w)
  <2>1. CASE MayExport(q)
    <3>1. req'[w] = [q EXCEPT !.pc = "checked"] /\ q.handler = "export"
      BY <1>1, <1>4, <2>1 DEF CheckExport, Goto, At
    <3> QED
      BY <1>1, <2>1, <3>1 DEF RequestStates
  <2>2. CASE ~ MayExport(q)
    BY <1>2, <1>4, <2>2 DEF CheckExport
  <2> QED
    BY <2>1, <2>2
<1>5. CASE \E id \in Ids : FindArtifact(w, id)
  <2>1. PICK id \in Ids : FindArtifact(w, id)
    BY <1>5
  <2>2. /\ req'[w] = [q EXCEPT !.pc = "recorded", !.target = id]
        /\ q.handler = "download" /\ files[id] # NoFile
    BY <1>1, <2>1 DEF FindArtifact, Goto, At
  <2> QED
    BY <1>1, <2>2 DEF RequestStates
<1>6. CASE CountDownload(w)
  <2>1. req'[w] = [q EXCEPT !.pc = "built"] /\ q.handler = "download" /\ q.pc = "recorded"
    BY <1>1, <1>6 DEF CountDownload, Goto, At
  <2>2. /\ req'[w].pc = "built" /\ req'[w].handler = "download" /\ req'[w].target = q.target
    BY <1>1, <2>1 DEF RequestStates
  <2>3. q.handler \notin FilingHandlers
    BY <2>1 DEF FilingHandlers, CompileHandlers
  <2> QED
    BY <2>1, <2>2, <2>3 DEF Held
<1>7. CASE ServeMechanical(w) \/ SendArtifact(w) \/ BuildQualityGate(w) \/ Fail(w)
  BY <1>2, <1>7 DEF ServeMechanical, SendArtifact, BuildQualityGate, Fail
<1> QED
  BY <1>3, <1>4, <1>5, <1>6, <1>7 DEF QuietSteps

FilesInv ==
    /\ TypeInv
    /\ ~ purged =>
        /\ ~ dropped
        /\ \A id \in Registered : files[id] # NoFile
        /\ \A w \in Workers : \A id \in Held(req[w]) : files[id] # NoFile

LEMMA IdleHolds == Held(Idle) = {} /\ \A q : q.pc = "loaded" \/ q.pc = "checked" => Held(q) = {}
  BY DEF Held, Idle

LEMMA FilesStep == FilesInv /\ [Next]_vars => FilesInv'
<1> SUFFICES ASSUME FilesInv, [Next]_vars PROVE FilesInv'
  OBVIOUS
<1>1. TypeInv /\ TypeInv'
  BY TypeStep DEF FilesInv
<1>2. CASE UNCHANGED vars
  BY <1>1, <1>2 DEF FilesInv, vars, registryVars, observed, Registered
<1>3. ASSUME NEW v \in Verdicts, CommitEdit(v)
      PROVE  FilesInv'
  BY <1>1, <1>3 DEF FilesInv, CommitEdit, observed, Registered
<1>4. ASSUME NEW w \in Workers, QuietSteps(w)
      PROVE  FilesInv'
  <2>1. /\ UNCHANGED <<files, rows, purged>> /\ \A o \in Workers \ {w} : req'[o] = req[o]
    BY <1>1, <1>4, QuietRequest DEF registryVars
  <2>2. ASSUME ~ purged
        PROVE  ~ dropped'
    <3>1. CASE SendArtifact(w)
      <4>1. req[w].target \in Held(req[w])
        BY <3>1 DEF SendArtifact, At, Held, FilingHandlers, CompileHandlers
      <4> QED
        BY <2>2, <3>1, <4>1 DEF SendArtifact, FilesInv
    <3>2. CASE ~ SendArtifact(w)
      BY <1>4, <2>2, <3>2 DEF QuietSteps, LoadProject, CheckExport, ServeMechanical, FindArtifact,
           CountDownload, BuildQualityGate, Fail, observed, FilesInv
    <3> QED
      BY <3>1, <3>2
  <2>3. ASSUME ~ purged, NEW id \in Held(req'[w])
        PROVE  files[id] # NoFile
    <3>1. CASE req'[w] = Idle \/ req'[w].pc \in {"loaded", "checked"}
      BY <2>3, <3>1, IdleHolds
    <3>2. CASE /\ req'[w].pc \in {"recorded", "built"} /\ req'[w].handler = "download"
               /\ files[req'[w].target] # NoFile \/ req'[w].target \in Held(req[w])
      <4>1. id = req'[w].target
        BY <2>3, <3>2 DEF Held, FilingHandlers, CompileHandlers
      <4> QED
        BY <2>3, <3>2, <4>1 DEF FilesInv
    <3> QED
      BY <1>1, <1>4, <3>1, <3>2, QuietMoves
  <2> QED
    BY <1>1, <2>1, <2>2, <2>3 DEF FilesInv, Registered
<1>5. ASSUME NEW w \in Workers, WritingSteps(w)
      PROVE  FilesInv'
  <2>1. PICK content \in Contents \ {NoFile} : Writes(w, RegisteredBy(req'[w]), content)
    BY <1>1, <1>5, WritingRequest DEF WritingSteps
  <2>2. \A id \in Ids : /\ files[id] # NoFile => files'[id] # NoFile
                        /\ id \in RegisteredBy(req'[w]) => files'[id] # NoFile
    BY <2>1 DEF Writes
  <2>3. /\ RegisteredBy(req'[w]) \subseteq Ids /\ req'[w].pc = "recorded"
        /\ req'[w].handler \in FilingHandlers
        /\ \A o \in Workers \ {w} : req'[o] = req[o]
    BY <1>1, <1>5, WritingRequest DEF WritingSteps, FilingHandlers
  <2>4. \A o \in Workers : Held(req[o]) \subseteq Ids
    <3> SUFFICES ASSUME NEW o \in Workers PROVE Held(req[o]) \subseteq Ids
      OBVIOUS
    <3>1. req[o] \in RequestStates
      BY <1>1 DEF TypeInv, TypeOK
    <3>2. RegisteredBy(req[o]) \subseteq Ids
      BY <3>1, IdsOfRequest DEF RegisteredBy
    <3> QED
      BY <3>1, <3>2 DEF Held, RequestStates
  <2>5. ASSUME ~ purged, NEW o \in Workers, NEW id \in Held(req'[o])
        PROVE  files'[id] # NoFile
    <3>1. CASE o = w
      BY <2>2, <2>3, <2>5, <3>1 DEF Held
    <3>2. CASE o # w
      BY <2>2, <2>3, <2>4, <2>5, <3>2 DEF FilesInv
    <3> QED
      BY <3>1, <3>2
  <2>6. Registered' = Registered /\ Registered \subseteq Ids /\ purged' = purged /\ dropped' = dropped
    BY <2>1 DEF Writes, Registered
  <2> QED
    BY <1>1, <2>2, <2>5, <2>6 DEF FilesInv
<1>6. ASSUME NEW w \in Workers, RegisteringSteps(w)
      PROVE  FilesInv'
  <2>1. /\ Registers(w, RegisteredBy(req[w])) /\ req[w].pc = "recorded"
        /\ req[w].handler \in FilingHandlers
        /\ \A o \in Workers \ {w} : req'[o] = req[o]
        /\ \/ req'[w] = Idle
           \/ req[w].handler \in CompileHandlers /\ req'[w] = [req[w] EXCEPT !.pc = "built"]
    BY <1>1, <1>6, RegisteringRequest DEF RegisteringSteps, FilingHandlers
  <2>2. Held(req[w]) = RegisteredBy(req[w])
    BY <2>1 DEF Held
  <2>3. UNCHANGED <<files, purged, dropped>>
        /\ \A id \in Ids : id \notin RegisteredBy(req[w]) => rows'[id] = rows[id]
    BY <2>1 DEF Registers, observed
  <2>4. Held(req'[w]) = {}
    <3>1. CASE req'[w] = Idle
      BY <3>1, IdleHolds
    <3>2. CASE req[w].handler \in CompileHandlers /\ req'[w] = [req[w] EXCEPT !.pc = "built"]
      <4>1. req'[w].pc = "built" /\ req'[w].handler # "download"
        BY <1>1, <3>2 DEF TypeInv, TypeOK, RequestStates, CompileHandlers
      <4> QED
        BY <4>1 DEF Held
    <3> QED
      BY <2>1, <3>1, <3>2
  <2> QED
    BY <1>1, <2>1, <2>2, <2>3, <2>4 DEF FilesInv, Registered
<1>7. ASSUME NEW w \in Workers, RemoveFiles(w) \/ CommitDelete(w)
      PROVE  FilesInv'
  <2>1. CASE RemoveFiles(w)
    BY <1>1, <2>1 DEF RemoveFiles, FilesInv
  <2>2. CASE CommitDelete(w)
    <3>1. Registered' = {} /\ UNCHANGED <<files, purged, dropped>> /\ req'[w] = Idle
          /\ \A o \in Workers \ {w} : req'[o] = req[o]
      BY <1>1, <2>2 DEF CommitDelete, Registered, NoRow, observed, Answer, Goto, TypeInv, TypeOK
    <3> QED
      BY <1>1, <3>1, IdleHolds DEF FilesInv
  <2> QED
    BY <1>7, <2>1, <2>2
<1> QED
  BY <1>2, <1>3, <1>4, <1>5, <1>6, <1>7, StepKinds

LEMMA InitFiles == Init => FilesInv
<1> SUFFICES ASSUME Init PROVE FilesInv
  OBVIOUS
<1>1. Registered = {} /\ \A w \in Workers : Held(req[w]) = {}
  BY IdleHolds DEF Init, Registered, NoRow
<1> QED
  BY <1>1, InitType DEF FilesInv, Init

\* Until a deletion removes the tree, every row has its file and every counted
\* download is sent, whatever replaces, fails or overlaps.
THEOREM FilesThere == Spec => []FilesOutliveTheirRows
<1>1. FilesInv => FilesOutliveTheirRows
  BY DEF FilesInv, FilesOutliveTheirRows
<1> QED
  BY <1>1, InitFiles, FilesStep, PTL DEF Spec

-----------------------------------------------------------------------------
(* Exports, verdicts and the quality gate.                                 *)

BundlesInv ==
    /\ TypeInv
    /\ \A r \in Revisions :
           rows[Bundle(r)].there =>
               rows[ExportReport(r)].there /\ r <= top /\ verdict[r] # "fail"
    /\ \A w \in Workers :
           req[w].handler = "export" /\ req[w].pc \in {"checked", "recorded"} =>
               verdict[req[w].rev] # "fail"
    /\ \A r \in ready :
           r <= top /\ verdict[r] = "pass" /\ (exists => rows[Bundle(r)].there)

\* What is registered stays so while the project is there; a verdict never changes.
LEMMA RowsGrow ==
    ASSUME TypeInv, Next
    PROVE  /\ top <= top'
           /\ \A r \in Revisions : r <= top => verdict'[r] = verdict[r]
           /\ exists' => exists /\ \A id \in Ids : rows[id].there => rows'[id].there
<1>1. top \in Nat /\ top <= top + 1
  BY DEF TypeInv, TypeOK, Revisions
<1>2. ASSUME NEW v \in Verdicts, CommitEdit(v)
      PROVE  /\ top <= top'
             /\ \A r \in Revisions : r <= top => verdict'[r] = verdict[r]
             /\ UNCHANGED <<exists, rows>>
  BY <1>1, <1>2 DEF CommitEdit, Revisions
<1>3. ASSUME NEW w \in Workers, QuietSteps(w)
      PROVE  UNCHANGED <<top, verdict, exists, rows>>
  BY <1>3, QuietRequest DEF registryVars
<1>4. ASSUME NEW w \in Workers, WritingSteps(w)
      PROVE  UNCHANGED <<top, verdict, exists, rows>>
  BY <1>4, WritingRequest DEF WritingSteps, Writes
<1>5. ASSUME NEW w \in Workers, RegisteringSteps(w)
      PROVE  /\ UNCHANGED <<top, verdict, exists>>
             /\ \A id \in Ids : rows[id].there => rows'[id].there
  <2>1. Registers(w, RegisteredBy(req[w]))
    BY <1>5, RegisteringRequest DEF RegisteringSteps
  <2> QED
    BY <2>1 DEF Registers
<1>6. ASSUME NEW w \in Workers, RemoveFiles(w) \/ CommitDelete(w)
      PROVE  /\ UNCHANGED <<top, verdict>>
             /\ exists' => exists /\ rows' = rows
  BY <1>6 DEF RemoveFiles, CommitDelete
<1> QED
  BY <1>1, <1>2, <1>3, <1>4, <1>5, <1>6, StepKinds

\* Ids of one kind are told apart by their revision.
LEMMA DistinctIds ==
    /\ \A q \in RequestStates : Compiled(q).kind \in {"panel", "shell"}
    /\ \A r \in Revisions, n \in 1 .. MaxRequests :
           RunReport(r, n).kind = "run_report"
    /\ \A r \in Revisions : Bundle(r).kind = "bundle" /\ Bundle(r).rev = r
                            /\ ExportReport(r).kind = "export_report" /\ ExportReport(r).rev = r
  BY DEF Compiled, Panel, Shell, RunReport, Bundle, ExportReport, Id

\* A bundle is registered by the export of its revision, with its report.
LEMMA RegisteredBundle ==
    ASSUME TypeInv, NEW w \in Workers, req[w].handler \in FilingHandlers,
           NEW r \in Revisions, Bundle(r) \in RegisteredBy(req[w])
    PROVE  req[w].handler = "export" /\ req[w].rev = r
           /\ ExportReport(r) \in RegisteredBy(req[w])
<1> DEFINE q == req[w]
<1>1. q \in RequestStates /\ q.n \in 1 .. MaxRequests /\ q.rev \in Revisions
  BY DEF TypeInv, TypeOK, RequestStates
<1>2. q.handler = "export"
  BY <1>1, DistinctIds DEF RegisteredBy, FilingHandlers
<1>3. Bundle(r) \in {ExportReport(q.rev), Bundle(q.rev)}
  BY <1>2 DEF RegisteredBy, ExportIds
<1>4. Bundle(r) = Bundle(q.rev)
  BY <1>1, <1>3, DistinctIds
<1>5. r = q.rev
  BY <1>1, <1>4, DistinctIds
<1> QED
  BY <1>2, <1>5 DEF RegisteredBy, ExportIds

\* What the quality gate calls export_ready.
LEMMA GateReads ==
    ASSUME TypeInv, NEW w \in Workers, BuildQualityGate(w), NEW r \in ready', r \notin ready
    PROVE  r = req[w].rev /\ verdict[r] = "pass" /\ rows[Bundle(r)].there
<1>1. PICK report \in First(Reports), bundle \in First(BundleIds), settled \in BOOLEAN :
          LET readable == {v \in report : files[v] # NoFile}
          IN  ready' = IF GateStatus(req[w].rev, readable, bundle, settled) = "export_ready"
                       THEN ready \cup {req[w].rev} ELSE ready
  BY DEF BuildQualityGate
<1> DEFINE readable == {v \in report : files[v] # NoFile}
<1>2. r = req[w].rev /\ GateStatus(r, readable, bundle, settled) = "export_ready"
  BY <1>1
<1>3. /\ readable # {} /\ \A v \in readable : v.rev = r /\ verdict[v.rev] = "pass"
      /\ bundle # {} /\ \A b \in bundle : b.rev = r
  BY <1>2 DEF GateStatus
<1>4. PICK b \in BundleIds \cap Registered : b \in bundle
  BY <1>3 DEF First, Newest
<1>5. b.rev = r /\ b \in Registered /\ b \in BundleIds
  BY <1>3, <1>4
<1>6. b = Bundle(r)
  BY <1>5, DistinctIds DEF BundleIds
<1> QED
  BY <1>2, <1>3, <1>5, <1>6 DEF Registered

LEMMA BundlesStep == BundlesInv /\ [Next]_vars => BundlesInv'
<1> SUFFICES ASSUME BundlesInv, [Next]_vars PROVE BundlesInv'
  OBVIOUS
<1>1. /\ TypeInv /\ TypeInv'
      /\ \A r \in Revisions : Bundle(r) \in Ids /\ ExportReport(r) \in Ids
      /\ \A w \in Workers : req[w].rev \in Revisions /\ req[w].rev <= top
  BY TypeStep, IdsOfRevision DEF BundlesInv, TypeInv, TypeOK, RequestStates
<1>2. CASE UNCHANGED vars
  BY <1>1, <1>2 DEF BundlesInv, vars, registryVars, observed
<1>3. CASE Next
  <2>1. /\ top <= top' /\ top \in Nat /\ top' \in Nat /\ ready \subseteq Revisions
        /\ \A r \in Revisions : r <= top => verdict'[r] = verdict[r] /\ r <= top'
        /\ exists' => exists /\ \A id \in Ids : rows[id].there => rows'[id].there
    BY <1>1, <1>3, RowsGrow DEF TypeInv, TypeOK, Revisions
\* What was validated, ready or in progress stays so.
  <2>2. ASSUME NEW w \in Workers, NEW q \in RequestStates, req[w] = q,
               q.handler = "export" /\ q.pc \in {"checked", "recorded"}
        PROVE  verdict'[q.rev] # "fail"
    BY <1>1, <2>1, <2>2 DEF BundlesInv
  <2>3. ASSUME NEW r \in ready
        PROVE  r <= top' /\ verdict'[r] = "pass" /\ (exists' => rows'[Bundle(r)].there)
    BY <1>1, <2>1, <2>3 DEF BundlesInv
  <2>4. ASSUME UNCHANGED rows
        PROVE  \A r \in Revisions : rows'[Bundle(r)].there =>
                   rows'[ExportReport(r)].there /\ r <= top' /\ verdict'[r] # "fail"
    BY <2>1, <2>4 DEF BundlesInv
  <2>5. \A o \in Workers : req[o] \in RequestStates
    BY <1>1 DEF TypeInv, TypeOK
  <2>6. ASSUME NEW v \in Verdicts, CommitEdit(v)
        PROVE  BundlesInv'
    <3>1. UNCHANGED <<rows, req, ready>>
      BY <2>6 DEF CommitEdit, observed
    <3> QED
      BY <1>1, <2>2, <2>3, <2>4, <2>5, <3>1 DEF BundlesInv
  <2>7. ASSUME NEW w \in Workers, QuietSteps(w)
        PROVE  BundlesInv'
    <3>1. /\ UNCHANGED <<rows, verdict, top, exists>> /\ \A o \in Workers \ {w} : req'[o] = req[o]
      BY <1>1, <2>7, QuietRequest DEF registryVars
    <3>2. ASSUME req'[w].handler = "export" /\ req'[w].pc \in {"checked", "recorded"}
          PROVE  verdict'[req'[w].rev] # "fail"
      <4>1. req'[w].rev = req[w].rev /\ MayExport(req[w])
        BY <1>1, <2>7, <3>2, QuietMoves DEF Idle
      <4> QED
        BY <3>1, <4>1 DEF MayExport
    <3>3. ASSUME NEW r \in ready'
          PROVE  r <= top' /\ verdict'[r] = "pass" /\ (exists' => rows'[Bundle(r)].there)
      <4>1. CASE r \in ready
        BY <2>3, <4>1
      <4>2. CASE r \notin ready
        <5>1. BuildQualityGate(w)
          BY <2>7, <3>3, <4>2 DEF QuietSteps, LoadProject, CheckExport, ServeMechanical, FindArtifact,
               CountDownload, SendArtifact, Fail, observed
        <5>2. r = req[w].rev /\ verdict[r] = "pass" /\ rows[Bundle(r)].there
          BY <1>1, <3>3, <4>2, <5>1, GateReads
        <5> QED
          BY <1>1, <3>1, <5>2
      <4> QED
        BY <4>1, <4>2
    <3> QED
      BY <1>1, <2>2, <2>4, <2>5, <3>1, <3>2, <3>3 DEF BundlesInv
  <2>8. ASSUME NEW w \in Workers, WritingSteps(w)
        PROVE  BundlesInv'
    <3>1. /\ UNCHANGED <<rows, ready, verdict>> /\ \A o \in Workers \ {w} : req'[o] = req[o]
          /\ req'[w].rev = req[w].rev /\ req'[w].handler = req[w].handler
      BY <1>1, <2>8, WritingRequest DEF WritingSteps, Writes
    <3>2. req[w].handler = "export" => req[w].pc = "checked"
      BY <2>8 DEF WritingSteps, RunValidation, BuildExport, Compile, At, CompileHandlers
    <3>3. req'[w].handler = "export" => verdict'[req'[w].rev] # "fail"
      BY <3>1, <3>2 DEF BundlesInv
    <3> QED
      BY <1>1, <2>2, <2>3, <2>4, <2>5, <3>1, <3>3 DEF BundlesInv
  <2>9. ASSUME NEW w \in Workers, RegisteringSteps(w)
        PROVE  BundlesInv'
    <3>1. /\ Registers(w, RegisteredBy(req[w])) /\ req[w].pc = "recorded"
          /\ req[w].handler \in FilingHandlers
          /\ \A o \in Workers \ {w} : req'[o] = req[o]
          /\ \/ req'[w] = Idle
             \/ req[w].handler \in CompileHandlers /\ req'[w] = [req[w] EXCEPT !.pc = "built"]
      BY <1>1, <2>9, RegisteringRequest DEF RegisteringSteps, FilingHandlers
    <3>2. /\ UNCHANGED <<verdict, top, ready>>
          /\ \A id \in Ids : IF id \in RegisteredBy(req[w]) THEN rows'[id].there ELSE rows'[id] = rows[id]
      BY <3>1 DEF Registers, observed
    <3>3. ASSUME NEW r \in Revisions, rows'[Bundle(r)].there
          PROVE  rows'[ExportReport(r)].there /\ r <= top' /\ verdict'[r] # "fail"
      <4>1. CASE Bundle(r) \in RegisteredBy(req[w])
        <5>1. /\ req[w].handler = "export" /\ req[w].rev = r
              /\ ExportReport(r) \in RegisteredBy(req[w])
          BY <1>1, <3>1, <4>1, RegisteredBundle
        <5> QED
          BY <1>1, <3>1, <3>2, <5>1 DEF BundlesInv
      <4>2. CASE Bundle(r) \notin RegisteredBy(req[w])
        <5>1. rows[Bundle(r)].there
          BY <1>1, <3>2, <3>3, <4>2
        <5>2. rows[ExportReport(r)].there /\ r <= top /\ verdict[r] # "fail"
          BY <5>1 DEF BundlesInv
        <5> QED
          BY <1>1, <3>2, <5>2
      <4> QED
        BY <4>1, <4>2
    <3>4. ~ (req'[w].handler = "export" /\ req'[w].pc \in {"checked", "recorded"})
      <4>1. CASE req'[w] = Idle
        BY <4>1 DEF Idle
      <4>2. CASE req'[w] = [req[w] EXCEPT !.pc = "built"]
        BY <2>5, <4>2 DEF RequestStates
      <4> QED
        BY <3>1, <4>1, <4>2
    <3> QED
      BY <1>1, <2>2, <2>3, <2>5, <3>1, <3>2, <3>3, <3>4 DEF BundlesInv
  <2>10. ASSUME NEW w \in Workers, RemoveFiles(w) \/ CommitDelete(w)
         PROVE  BundlesInv'
    <3>1. /\ \A o \in Workers \ {w} : req'[o] = req[o]
          /\ req'[w].handler # "export"
      <4>1. /\ \A o \in Workers \ {w} : req'[o] = req[o]
            /\ req'[w] = Idle \/ req'[w] = [req[w] EXCEPT !.pc = "recorded"]
            /\ req[w].handler = "delete"
        BY <1>1, <2>10, DeletingRequest
      <4> QED
        BY <2>5, <4>1 DEF Idle, RequestStates
    <3>2. UNCHANGED ready /\ (UNCHANGED rows \/ \A id \in Ids : ~ rows'[id].there)
      BY <2>10 DEF RemoveFiles, CommitDelete, observed, NoRow
    <3> QED
      BY <1>1, <2>2, <2>3, <2>4, <2>5, <3>1, <3>2 DEF BundlesInv
  <2> QED
    BY <1>3, <2>6, <2>7, <2>8, <2>9, <2>10, StepKinds
<1> QED
  BY <1>2, <1>3

LEMMA InitBundles == Init => BundlesInv
<1> SUFFICES ASSUME Init PROVE BundlesInv
  OBVIOUS
<1>1. \A r \in Revisions : ~ rows[Bundle(r)].there
  BY IdsOfRevision DEF Init, NoRow
<1>2. \A w \in Workers : req[w].handler # "export"
  BY DEF Init, Idle
<1> QED
  BY <1>1, <1>2, InitType DEF BundlesInv, Init

LEMMA BundlesAlways == Spec => []BundlesInv
  BY InitBundles, BundlesStep, PTL DEF Spec

\* A registered bundle has its report and a revision that did not fail validation.
THEOREM BundlesValidated == Spec => []BundlesAreValidated
<1>1. BundlesInv => BundlesAreValidated
  BY DEF BundlesInv, BundlesAreValidated
<1> QED
  BY <1>1, BundlesAlways, PTL

\* What the quality gate calls export_ready passed validation and has its bundle.
THEOREM ReadyIsExported == Spec => []ReadyMeansExported
<1>1. BundlesInv => ReadyMeansExported
  BY DEF BundlesInv, ReadyMeansExported
<1> QED
  BY <1>1, BundlesAlways, PTL

-----------------------------------------------------------------------------
(* The export quota.  The counter alone is not bounded inductively: the    *)
(* exports past their check will still be added to it.                     *)

Exporting(q) == q.handler = "export" /\ q.pc \in {"checked", "recorded"}
Past == {w \in Workers : Exporting(req[w])}

QuotaInv ==
    /\ TypeInv
    /\ exports + Cardinality(Past) <= FreeExports + Cardinality(Workers) - 1

LEMMA SizeOfPast ==
    ASSUME NEW old \in SUBSET Workers, NEW new \in SUBSET Workers
    PROVE  /\ Cardinality(old) \in Nat /\ Cardinality(new) \in Nat /\ Cardinality(Workers) \in Nat
           /\ Cardinality(old) <= Cardinality(Workers)
           /\ new \subseteq old => Cardinality(new) <= Cardinality(old)
           /\ \A w \in old : new \subseteq old \ {w} => Cardinality(new) + 1 <= Cardinality(old)
<1>1. IsFiniteSet(Workers) /\ IsFiniteSet(old) /\ IsFiniteSet(new)
  BY FS_Subset, RegistryAssumption
<1>2. /\ Cardinality(old) \in Nat /\ Cardinality(new) \in Nat /\ Cardinality(Workers) \in Nat
  BY <1>1, FS_CardinalityType
<1>3. Cardinality(old) <= Cardinality(Workers)
  BY <1>1, FS_Subset
<1>4. new \subseteq old => Cardinality(new) <= Cardinality(old)
  BY <1>1, FS_Subset
<1>5. ASSUME NEW w \in old, new \subseteq old \ {w}
      PROVE  Cardinality(new) + 1 <= Cardinality(old)
  <2>1. IsFiniteSet(old \ {w}) /\ Cardinality(old \ {w}) = Cardinality(old) - 1
    BY <1>1, FS_RemoveElement
  <2>2. Cardinality(new) <= Cardinality(old \ {w})
    BY <1>5, <2>1, FS_Subset
  <2> QED
    BY <1>2, <2>1, <2>2
<1> QED
  BY <1>2, <1>3, <1>4, <1>5

LEMMA QuotaStep == QuotaInv /\ [Next]_vars => QuotaInv'
<1> SUFFICES ASSUME QuotaInv, [Next]_vars PROVE QuotaInv'
  OBVIOUS
<1>1. /\ TypeInv /\ TypeInv' /\ exports \in Nat /\ FreeExports \in Nat /\ 1 <= FreeExports
      /\ \A w \in Workers : req[w] \in RequestStates
  BY TypeStep, RegistryAssumption DEF QuotaInv, TypeInv, TypeOK
<1>2. /\ Past \in SUBSET Workers /\ Past' \in SUBSET Workers
      /\ exports + Cardinality(Past) <= FreeExports + Cardinality(Workers) - 1
  BY DEF Past, QuotaInv
<1>3. /\ Cardinality(Past) \in Nat /\ Cardinality(Past') \in Nat /\ Cardinality(Workers) \in Nat
      /\ Cardinality(Past') <= Cardinality(Workers)
      /\ Past' \subseteq Past => Cardinality(Past') <= Cardinality(Past)
      /\ \A w \in Past : Past' \subseteq Past \ {w} => Cardinality(Past') + 1 <= Cardinality(Past)
  BY <1>2, SizeOfPast
<1>4. ASSUME Past' \subseteq Past, exports' = exports \/ exports' = 0
      PROVE  QuotaInv'
  BY <1>1, <1>2, <1>3, <1>4 DEF QuotaInv
<1>5. ASSUME NEW w \in Workers, \A o \in Workers \ {w} : req'[o] = req[o],
             ~ Exporting(req'[w]) \/ Exporting(req[w])
      PROVE  Past' \subseteq Past
  BY <1>5 DEF Past
<1>6. CASE UNCHANGED vars
  BY <1>4, <1>6 DEF vars, registryVars, Past
<1>7. ASSUME NEW v \in Verdicts, CommitEdit(v)
      PROVE  QuotaInv'
  BY <1>4, <1>7 DEF CommitEdit, Past
<1>8. ASSUME NEW w \in Workers, QuietSteps(w)
      PROVE  QuotaInv'
  <2>1. exports' = exports /\ \A o \in Workers \ {w} : req'[o] = req[o]
    BY <1>1, <1>8, QuietRequest DEF registryVars
  <2>2. CASE ~ Exporting(req'[w])
    BY <1>4, <1>5, <2>1, <2>2
  <2>3. CASE Exporting(req'[w])
    <3>1. MayExport(req[w])
      BY <1>1, <1>8, <2>3, QuietMoves DEF Exporting, Idle
    <3>2. exports + 1 <= FreeExports
      BY <1>1, <3>1 DEF MayExport
    <3>3. exports' + Cardinality(Past') <= FreeExports + Cardinality(Workers) - 1
      BY <1>1, <1>3, <2>1, <3>2
    <3> QED
      BY <1>1, <3>3 DEF QuotaInv
  <2> QED
    BY <2>2, <2>3
<1>9. ASSUME NEW w \in Workers, WritingSteps(w)
      PROVE  QuotaInv'
  <2>1. /\ exports' = exports /\ req'[w].handler = req[w].handler
        /\ \A o \in Workers \ {w} : req'[o] = req[o]
    BY <1>1, <1>9, WritingRequest DEF WritingSteps, Writes
  <2>2. req[w].handler = "export" => req[w].pc = "checked"
    BY <1>9 DEF WritingSteps, RunValidation, BuildExport, Compile, At, CompileHandlers
  <2>3. ~ Exporting(req'[w]) \/ Exporting(req[w])
    BY <2>1, <2>2 DEF Exporting
  <2>4. Past' \subseteq Past
    BY <1>5, <2>1, <2>3
  <2> QED
    BY <1>4, <2>1, <2>4
<1>10. ASSUME NEW w \in Workers, RegisteringSteps(w)
       PROVE  QuotaInv'
  <2>1. /\ req[w].pc = "recorded"
        /\ \A o \in Workers \ {w} : req'[o] = req[o]
        /\ \/ req'[w] = Idle
           \/ req[w].handler \in CompileHandlers /\ req'[w] = [req[w] EXCEPT !.pc = "built"]
        /\ \/ exports' = exports + 1 /\ req[w].handler = "export"
           \/ exports' = exports
    BY <1>1, <1>10, RegisteringRequest DEF RegisteringSteps
  <2>2. ~ Exporting(req'[w])
    <3>1. CASE req'[w] = Idle
      BY <3>1 DEF Exporting, Idle
    <3>2. CASE req'[w] = [req[w] EXCEPT !.pc = "built"]
      BY <1>1, <3>2 DEF Exporting, RequestStates
    <3> QED
      BY <2>1, <3>1, <3>2
  <2>3. CASE exports' = exports
    BY <1>4, <1>5, <2>1, <2>2, <2>3
  <2>4. CASE exports' = exports + 1 /\ req[w].handler = "export"
    <3>1. w \in Past /\ Past' \subseteq Past \ {w}
      BY <2>1, <2>2, <2>4 DEF Past, Exporting
    <3>2. Cardinality(Past') + 1 <= Cardinality(Past)
      BY <1>3, <3>1
    <3> QED
      BY <1>1, <1>2, <1>3, <2>4, <3>2 DEF QuotaInv
  <2> QED
    BY <2>1, <2>3, <2>4
<1>11. ASSUME NEW w \in Workers, RemoveFiles(w) \/ CommitDelete(w)
       PROVE  QuotaInv'
  <2>1. /\ \A o \in Workers \ {w} : req'[o] = req[o]
        /\ req'[w] = Idle \/ req'[w] = [req[w] EXCEPT !.pc = "recorded"]
        /\ req[w].handler = "delete"
    BY <1>1, <1>11, DeletingRequest
  <2>2. ~ Exporting(req'[w])
    BY <1>1, <2>1 DEF Exporting, Idle, RequestStates
  <2>3. exports' = exports \/ exports' = 0
    BY <1>11 DEF RemoveFiles, CommitDelete
  <2> QED
    BY <1>4, <1>5, <2>1, <2>2, <2>3
<1> QED
  BY <1>6, <1>7, <1>8, <1>9, <1>10, <1>11, StepKinds

LEMMA InitQuota == Init => QuotaInv
<1> SUFFICES ASSUME Init PROVE QuotaInv
  OBVIOUS
<1>1. Past = {} /\ exports = 0
  BY DEF Init, Past, Exporting, Idle
<1>2. Cardinality(Past) = 0 /\ Cardinality(Workers) \in Nat
  BY <1>1, FS_EmptySet, FS_CardinalityType, RegistryAssumption
<1> QED
  BY <1>1, <1>2, InitType, RegistryAssumption DEF QuotaInv

\* The free limit is overrun by at most one bundle per overlapping request.
THEOREM ExportsBounded == Spec => []ExportsWithinQuota
<1>1. ASSUME QuotaInv
      PROVE  ExportsWithinQuota
  <2>1. /\ exports \in Nat /\ FreeExports \in Nat
        /\ exports + Cardinality(Past) <= FreeExports + Cardinality(Workers) - 1
    BY <1>1, RegistryAssumption DEF QuotaInv, TypeInv, TypeOK
  <2>2. Cardinality(Past) \in Nat /\ Cardinality(Workers) \in Nat
    BY SizeOfPast DEF Past
  <2> QED
    BY <2>1, <2>2 DEF ExportsWithinQuota
<1> QED
  BY <1>1, InitQuota, QuotaStep, PTL DEF Spec

-----------------------------------------------------------------------------
(* The registry implements DurableOutputs.                                 *)

LEMMA PromiseStep ==
    ASSUME BundlesInv, BundlesInv', [Next]_vars
    PROVE  [Promise!Next]_(Promise!vars)
<1>1. TypeInv /\ TypeInv'
  BY DEF BundlesInv
<1>2. ASSUME UNCHANGED <<exists, rows>>
      PROVE  [Promise!Next]_(Promise!vars)
  BY <1>2 DEF Promise!vars, Registered
<1>3. ASSUME NEW v \in Verdicts, CommitEdit(v)
      PROVE  UNCHANGED <<exists, rows>>
  BY <1>3 DEF CommitEdit
<1>4. ASSUME NEW w \in Workers, QuietSteps(w)
      PROVE  UNCHANGED <<exists, rows>>
  BY <1>1, <1>4, QuietRequest DEF registryVars
<1>5. ASSUME NEW w \in Workers, WritingSteps(w)
      PROVE  UNCHANGED <<exists, rows>>
  BY <1>1, <1>5, WritingRequest DEF WritingSteps, Writes
<1>6. ASSUME NEW w \in Workers, RegisteringSteps(w)
      PROVE  Promise!Register
  <2>1. Registers(w, RegisteredBy(req[w]))
    BY <1>1, <1>6, RegisteringRequest DEF RegisteringSteps
  <2>2. /\ exists /\ exists' = exists
        /\ \A id \in Ids : rows[id].there => rows'[id].there
    BY <2>1 DEF Registers
  <2>3. Registered \subseteq Registered' /\ Registered' \subseteq Ids
    BY <2>2 DEF Registered
  <2>4. \A b \in Registered' \cap BundleIds : ExportReport(b.rev) \in Registered'
    <3> SUFFICES ASSUME NEW b \in Registered' \cap BundleIds
                 PROVE  ExportReport(b.rev) \in Registered'
      OBVIOUS
    <3>1. PICK r \in Revisions : b = Bundle(r)
      BY DEF BundleIds
    <3>2. b.rev = r /\ ExportReport(r) \in Ids
      BY <3>1, DistinctIds, IdsOfRevision
    <3>3. rows'[ExportReport(r)].there
      BY <3>1 DEF BundlesInv, Registered
    <3> QED
      BY <3>2, <3>3 DEF Registered
  <2> QED
    BY <2>2, <2>3, <2>4 DEF Promise!Register
<1>7. ASSUME NEW w \in Workers, RemoveFiles(w)
      PROVE  UNCHANGED <<exists, rows>>
  BY <1>7 DEF RemoveFiles
<1>8. ASSUME NEW w \in Workers, CommitDelete(w)
      PROVE  Promise!Delete
  BY <1>8 DEF CommitDelete, Promise!Delete, Registered, NoRow
<1>9. CASE UNCHANGED vars
  BY <1>2, <1>9 DEF vars, registryVars
<1> QED
  BY <1>2, <1>3, <1>4, <1>5, <1>6, <1>7, <1>8, <1>9, StepKinds DEF Promise!Next

\* The registry implements its promise: outputs stay, come with their reports, and
\* go together with the project.
THEOREM Durable == Spec => ImplementsDurableOutputs
<1>1. Init => Promise!Init
  BY DEF Init, Promise!Init, Registered, NoRow
<1> QED
  BY <1>1, PromiseStep, BundlesAlways, PTL DEF Spec, ImplementsDurableOutputs, Promise!Spec

-----------------------------------------------------------------------------
(* Mechanical artifacts.  A shell's files and row are the same for every   *)
(* configuration, so their agreement rests on one request using them at a  *)
(* time; a panel's are its configuration's own.                            *)

\* The request has written the shell of this revision and not answered yet.
Using(q, r) ==
    q.handler \in CompileHandlers /\ q.pc \in {"recorded", "built"} /\ Compiled(q) = Shell(r)

Settled(r) == \A w \in Workers : ~ (Using(req[w], r) /\ req[w].pc = "recorded")

ShellInv(r) ==
    /\ \A w, o \in Workers : Using(req[w], r) /\ Using(req[o], r) => w = o
    /\ \A w \in Workers : Using(req[w], r) =>
           /\ files[Shell(r)] \in {req[w].cfg, NoFile}
           /\ exists /\ req[w].pc = "recorded" => req[w].old = rows[Shell(r)].cfg
    /\ Settled(r) /\ rows[Shell(r)].there /\ files[Shell(r)] # NoFile =>
           rows[Shell(r)].cfg = files[Shell(r)]

CompiledInv ==
    /\ TypeInv
    /\ \A r \in Revisions \ raced : ShellInv(r)
    /\ \A r \in Revisions, c \in Configs : files[Panel(r, c)] \in {c, NoFile}
    /\ MechanicalDownloadsAsAsked

LEMMA CompiledIds ==
    ASSUME NEW q \in RequestStates
    PROVE  /\ \/ Compiled(q) = Panel(q.rev, q.cfg) /\ Compiled(q).kind = "panel"
              \/ Compiled(q) = Shell(q.rev) /\ Compiled(q).kind = "shell"
           /\ Compiled(q).rev = q.rev
           /\ \A r \in Revisions : Compiled(q) = Shell(r) => r = q.rev /\ Compiled(q).kind = "shell"
           /\ \A r \in Revisions, c \in Configs : Compiled(q) = Panel(r, c) => r = q.rev /\ c = q.cfg
  BY DEF Compiled, Panel, Shell, Id

LEMMA MechanicalIds ==
    /\ \A r, s \in Revisions : Shell(r) = Shell(s) => r = s
    /\ \A r, s \in Revisions, c, d \in Configs : Panel(r, c) = Panel(s, d) => r = s /\ c = d
    /\ \A r, s \in Revisions, c \in Configs : Shell(r) # Panel(s, c)
    /\ \A r, s \in Revisions : Shell(r) \notin {ExportReport(s), Bundle(s)}
    /\ \A r, s \in Revisions, c \in Configs : Panel(r, c) \notin {ExportReport(s), Bundle(s)}
    /\ \A r, s \in Revisions, n \in 1 .. MaxRequests :
           Shell(r) # RunReport(s, n) /\ \A c \in Configs : Panel(r, c) # RunReport(s, n)
  BY DEF Panel, Shell, ExportReport, Bundle, RunReport, Id

\* Who writes the file of a mechanical artifact, and who registers it.
LEMMA MechanicalWriter ==
    ASSUME NEW q \in RequestStates, q.handler \in FilingHandlers,
           NEW id \in RegisteredBy(q),
           (\E r \in Revisions : id = Shell(r)) \/ (\E r \in Revisions, c \in Configs : id = Panel(r, c))
    PROVE  q.handler \in CompileHandlers /\ id = Compiled(q)
<1>1. q.rev \in Revisions /\ q.n \in 1 .. MaxRequests
  BY DEF RequestStates
<1>2. q.handler # "validate"
  BY <1>1, MechanicalIds DEF RegisteredBy
<1>3. q.handler # "export"
  BY <1>1, MechanicalIds DEF RegisteredBy, ExportIds
<1> QED
  BY <1>2, <1>3 DEF RegisteredBy, FilingHandlers

\* The step of a compile, exactly.
LEMMA CompileStep ==
    ASSUME TypeInv, NEW w \in Workers, Compile(w)
    PROVE  /\ req[w].pc = "loaded" /\ req[w].handler \in CompileHandlers
           /\ Writes(w, {Compiled(req[w])}, req[w].cfg)
           /\ req'[w] = [req[w] EXCEPT !.old = rows[Compiled(req[w])].cfg, !.pc = "recorded"]
           /\ Compiled(req'[w]) = Compiled(req[w])
           /\ req'[w].pc = "recorded" /\ req'[w].handler = req[w].handler
           /\ req'[w].cfg = req[w].cfg /\ req'[w].old = rows[Compiled(req[w])].cfg
           /\ \A o \in Workers \ {w} : req'[o] = req[o]
           /\ raced \subseteq raced'
           /\ \A r \in Revisions, o \in Workers \ {w} :
                  Compiled(req[w]) = Shell(r) /\ Using(req[o], r) => r \in raced'
<1> DEFINE q == req[w]
<1>1. q \in RequestStates /\ req \in [Workers -> RequestStates]
  BY DEF TypeInv, TypeOK
<1>2. /\ q.pc = "loaded" /\ q.handler \in CompileHandlers
      /\ Record(w, {Compiled(q)}, q.cfg, [q EXCEPT !.old = rows[Compiled(q)].cfg])
  BY DEF Compile, At
<1>3. /\ req'[w] = [q EXCEPT !.old = rows[Compiled(q)].cfg, !.pc = "recorded"]
      /\ \A o \in Workers \ {w} : req'[o] = req[o]
  BY <1>1, <1>2 DEF Record, Goto, RequestStates
<1>4. /\ req'[w].pc = "recorded" /\ req'[w].handler = q.handler /\ req'[w].cfg = q.cfg
      /\ req'[w].rev = q.rev /\ req'[w].old = rows[Compiled(q)].cfg
  BY <1>1, <1>3 DEF RequestStates
<1>5. Compiled(req'[w]) = Compiled(q)
  BY <1>4 DEF Compiled
<1>6. Writes(w, {Compiled(q)}, q.cfg)
  BY <1>2 DEF Compile, Record, Writes
<1>7. ASSUME NEW r \in Revisions, NEW o \in Workers \ {w}, Compiled(q) = Shell(r), Using(req[o], r)
      PROVE  r \in raced'
  <2>1. Compiled(q).kind = "shell" /\ Compiled(q).rev = r
    BY <1>1, <1>7, CompiledIds
  <2>2. \/ InUse(w, Compiled(q))
        \/ At(o, "built", CompileHandlers) /\ Compiled(req[o]) = Compiled(q)
    BY <1>7 DEF Using, InUse, At
  <2> QED
    BY <2>1, <2>2 DEF Compile
<1>8. raced \subseteq raced'
  BY DEF Compile
<1> QED
  BY <1>2, <1>3, <1>4, <1>5, <1>6, <1>7, <1>8

\* A step that leaves the shell's file and row and everybody's use of it alone.
LEMMA ShellUntouched ==
    ASSUME NEW r \in Revisions, ShellInv(r), NEW w \in Workers,
           \A o \in Workers \ {w} : req'[o] = req[o],
           ~ Using(req[w], r) \/ req[w].pc = "built", ~ Using(req'[w], r),
           files'[Shell(r)] \in {files[Shell(r)], NoFile},
           rows'[Shell(r)] = rows[Shell(r)], exists' => exists
    PROVE  ShellInv(r)'
<1>1. \A o \in Workers : Using(req'[o], r) => o # w /\ req'[o] = req[o]
  OBVIOUS
<1>2. \A x, o \in Workers : Using(req'[x], r) /\ Using(req'[o], r) => x = o
  BY <1>1 DEF ShellInv
<1>3. \A o \in Workers : Using(req'[o], r) =>
           /\ files'[Shell(r)] \in {req'[o].cfg, NoFile}
           /\ exists' /\ req'[o].pc = "recorded" => req'[o].old = rows'[Shell(r)].cfg
  BY <1>1 DEF ShellInv
<1>4. Settled(r)' => Settled(r)
  <2> SUFFICES ASSUME Settled(r)', NEW o \in Workers, Using(req[o], r), req[o].pc = "recorded"
               PROVE  FALSE
    BY DEF Settled
  <2>1. o # w
    OBVIOUS
  <2> QED
    BY <2>1 DEF Settled
<1>5. Settled(r)' /\ rows'[Shell(r)].there /\ files'[Shell(r)] # NoFile =>
           rows'[Shell(r)].cfg = files'[Shell(r)]
  BY <1>4 DEF ShellInv
<1> QED
  BY <1>2, <1>3, <1>5 DEF ShellInv

\* A quiet step ends no compile between its files and its commit without racing it.
LEMMA QuietShell ==
    ASSUME TypeInv, NEW w \in Workers, QuietSteps(w), NEW r \in Revisions \ raced', ShellInv(r)
    PROVE  ShellInv(r)'
<1> DEFINE q == req[w]
<1>1. /\ UNCHANGED <<files, rows, exists>>
      /\ \A o \in Workers \ {w} : req'[o] = req[o]
      /\ q \in RequestStates
  BY QuietRequest DEF registryVars, TypeInv, TypeOK
<1>2. ~ Using(req'[w], r)
  <2>1. \/ req'[w] = Idle \/ req'[w].pc \in {"loaded", "checked"}
        \/ req'[w].handler = "download"
    BY QuietMoves
  <2> QED
    BY <2>1 DEF Using, Idle, CompileHandlers
<1>3. ~ Using(q, r) \/ q.pc = "built"
  <2> SUFFICES ASSUME Using(q, r), q.pc # "built" PROVE FALSE
    OBVIOUS
  <2>1. q.pc = "recorded" /\ q.handler \in CompileHandlers /\ Compiled(q) = Shell(r)
    BY DEF Using
  <2>2. Fail(w)
    BY <2>1 DEF QuietSteps, LoadProject, CheckExport, ServeMechanical, FindArtifact, CountDownload,
         SendArtifact, BuildQualityGate, At, CompileHandlers
  <2>3. Compiled(q).kind = "shell" /\ Compiled(q).rev = r
    BY <1>1, <2>1, CompiledIds
  <2> QED
    BY <2>1, <2>2, <2>3 DEF Fail, At
<1> QED
  BY <1>1, <1>2, <1>3, ShellUntouched

LEMMA WritingShell ==
    ASSUME TypeInv, TypeInv', NEW w \in Workers, WritingSteps(w), NEW r \in Revisions \ raced', ShellInv(r)
    PROVE  ShellInv(r)'
<1> DEFINE q == req[w]
<1>1. q \in RequestStates /\ req'[w] \in RequestStates /\ Shell(r) \in Ids
  BY IdsOfRevision DEF TypeInv, TypeOK
<1>2. CASE Compile(w)
  <2>1. /\ q.pc = "loaded" /\ Writes(w, {Compiled(q)}, q.cfg)
        /\ Compiled(req'[w]) = Compiled(q) /\ req'[w].pc = "recorded"
        /\ req'[w].handler \in CompileHandlers
        /\ req'[w].cfg = q.cfg /\ req'[w].old = rows[Compiled(q)].cfg
        /\ \A o \in Workers \ {w} : req'[o] = req[o]
        /\ \A o \in Workers \ {w} : Compiled(q) = Shell(r) /\ Using(req[o], r) => r \in raced'
    BY <1>2, CompileStep
  <2>2. UNCHANGED <<rows, exists>> /\ ~ Using(q, r)
    BY <2>1 DEF Writes, Using
  <2>3. CASE Compiled(q) # Shell(r)
    <3>1. files'[Shell(r)] = files[Shell(r)] /\ ~ Using(req'[w], r)
      BY <1>1, <2>1, <2>3 DEF Writes, Using
    <3> QED
      BY <2>1, <2>2, <3>1, ShellUntouched
  <2>4. CASE Compiled(q) = Shell(r)
    <3>1. files'[Shell(r)] = q.cfg
      BY <1>1, <2>1, <2>4 DEF Writes
    <3>2. \A o \in Workers : Using(req'[o], r) => o = w
      BY <2>1, <2>4
    <3>3. ~ Settled(r)'
      BY <2>1, <2>4 DEF Settled, Using
    <3>4. \A o \in Workers : Using(req'[o], r) =>
              /\ files'[Shell(r)] \in {req'[o].cfg, NoFile}
              /\ exists' /\ req'[o].pc = "recorded" => req'[o].old = rows'[Shell(r)].cfg
      BY <2>1, <2>2, <2>4, <3>1, <3>2
    <3> QED
      BY <3>2, <3>3, <3>4 DEF ShellInv
  <2> QED
    BY <2>3, <2>4
<1>3. CASE RunValidation(w) \/ BuildExport(w)
  <2>1. PICK content : Writes(w, RegisteredBy(req'[w]), content)
    BY <1>3, WritingRequest
  <2>2. /\ \A o \in Workers \ {w} : req'[o] = req[o]
        /\ req'[w].handler = q.handler
        /\ q.handler \in FilingHandlers
    BY <1>3, WritingRequest DEF FilingHandlers
  <2>3. q.handler \notin CompileHandlers
    BY <1>3 DEF RunValidation, BuildExport, At, CompileHandlers
  <2>4. Shell(r) \notin RegisteredBy(req'[w])
    BY <1>1, <2>2, <2>3, MechanicalWriter
  <2>5. ~ Using(q, r) /\ ~ Using(req'[w], r) /\ files'[Shell(r)] = files[Shell(r)]
        /\ UNCHANGED <<rows, exists>>
    BY <1>1, <2>1, <2>2, <2>3, <2>4 DEF Using, Writes
  <2> QED
    BY <2>2, <2>5, ShellUntouched
<1> QED
  BY <1>2, <1>3 DEF WritingSteps

LEMMA RegisteringShell ==
    ASSUME TypeInv, NEW w \in Workers, RegisteringSteps(w), NEW r \in Revisions \ raced', ShellInv(r)
    PROVE  ShellInv(r)'
<1> DEFINE q == req[w]
<1>1. q \in RequestStates /\ Shell(r) \in Ids
  BY IdsOfRevision DEF TypeInv, TypeOK
<1>2. /\ Registers(w, RegisteredBy(q)) /\ q.pc = "recorded" /\ q.handler \in FilingHandlers
      /\ \A o \in Workers \ {w} : req'[o] = req[o]
      /\ \/ req'[w] = Idle
         \/ q.handler \in CompileHandlers /\ req'[w] = [q EXCEPT !.pc = "built"]
  BY RegisteringRequest DEF RegisteringSteps, FilingHandlers
<1>3. UNCHANGED <<files, exists>> /\ exists
  BY <1>2 DEF Registers
<1>4. CASE Shell(r) \notin RegisteredBy(q)
  <2>1. rows'[Shell(r)] = rows[Shell(r)]
    BY <1>1, <1>2, <1>4 DEF Registers
  <2>2. ~ Using(q, r)
    BY <1>4 DEF Using, RegisteredBy, CompileHandlers
  <2>3. ~ Using(req'[w], r)
    <3>1. CASE req'[w] = Idle
      BY <3>1 DEF Using, Idle
    <3>2. CASE q.handler \in CompileHandlers /\ req'[w] = [q EXCEPT !.pc = "built"]
      <4>1. Compiled(req'[w]) = Compiled(q)
        BY <1>1, <3>2 DEF Compiled, RequestStates
      <4> QED
        BY <1>2, <2>2, <3>2, <4>1 DEF Using
    <3> QED
      BY <1>2, <3>1, <3>2
  <2> QED
    BY <1>2, <1>3, <2>1, <2>2, <2>3, ShellUntouched
<1>5. CASE Shell(r) \in RegisteredBy(q)
  <2>1. q.handler \in CompileHandlers /\ Shell(r) = Compiled(q)
    BY <1>1, <1>2, <1>5, MechanicalWriter
  <2>2. Using(q, r)
    BY <1>2, <2>1 DEF Using
  <2>3. /\ files[Shell(r)] \in {q.cfg, NoFile} /\ q.old = rows[Shell(r)].cfg
        /\ \A o \in Workers : Using(req[o], r) => o = w
    BY <1>2, <1>3, <2>2 DEF ShellInv
  <2>4. CommitRows(w, [i \in {Compiled(q)} |-> Row(WrittenConfig(q), 0)])
    BY <2>1 DEF RegisteringSteps, CommitValidation, CommitExport, CommitCompile, At, CompileHandlers
  <2>5. rows'[Shell(r)] = Row(WrittenConfig(q), 0)
    BY <1>1, <2>1, <2>4 DEF CommitRows
  <2>6. rows'[Shell(r)].cfg = q.cfg
    BY <2>1, <2>3, <2>5 DEF WrittenConfig, Row
  <2>7. req'[w].pc # "recorded" /\ (Using(req'[w], r) => req'[w].cfg = q.cfg)
    <3>1. CASE req'[w] = Idle
      BY <3>1 DEF Idle, Using
    <3>2. CASE req'[w] = [q EXCEPT !.pc = "built"]
      BY <1>1, <3>2 DEF RequestStates
    <3> QED
      BY <1>2, <3>1, <3>2
  <2>8. \A o \in Workers : Using(req'[o], r) => o = w
    BY <1>2, <2>3
  <2> QED
    BY <1>3, <2>3, <2>6, <2>7, <2>8 DEF ShellInv
<1> QED
  BY <1>4, <1>5

\* What a mechanical download finds is what it asked for, or it was a raced shell.
LEMMA ServedAsAsked ==
    ASSUME CompiledInv, NEW w \in Workers, ServeMechanical(w)
    PROVE  MechanicalDownloadsAsAsked'
<1> DEFINE q == req[w]
           id == Compiled(q)
<1>1. q \in RequestStates /\ q.rev \in Revisions /\ q.cfg \in Configs
  BY IdsOfRequest DEF CompiledInv, TypeInv, TypeOK
<1>2. /\ misled' = misled \/ (misled' \subseteq misled \cup {id} /\ files[id] # q.cfg)
      /\ raced' = IF id.kind = "shell" /\ InUse(w, id) THEN raced \cup {id.rev} ELSE raced
      /\ OnServer(id)
  BY DEF ServeMechanical, Usable
<1>3. files[id] # NoFile /\ raced \subseteq raced'
  BY <1>2 DEF OnServer
<1>4. CASE id = Panel(q.rev, q.cfg)
  <2>1. files[id] = q.cfg
    BY <1>1, <1>3, <1>4 DEF CompiledInv
  <2> QED
    BY <1>2, <1>3, <2>1 DEF CompiledInv, MechanicalDownloadsAsAsked
<1>5. CASE id = Shell(q.rev) /\ id.kind = "shell" /\ id.rev = q.rev
  <2>1. CASE q.rev \in raced'
    BY <1>2, <1>3, <1>5, <2>1 DEF CompiledInv, MechanicalDownloadsAsAsked
  <2>2. CASE q.rev \notin raced'
    <3>1. ShellInv(q.rev) /\ ~ InUse(w, id)
      BY <1>1, <1>2, <1>3, <1>5, <2>2 DEF CompiledInv
    <3>2. files[id] = q.cfg
      <4>1. CASE At(w, "built", CompileHandlers)
        BY <1>3, <1>5, <3>1, <4>1 DEF ShellInv, Using, At
      <4>2. CASE At(w, "loaded", {"get_plate", "get_shell"}) /\ Usable(q)
        <5>1. Settled(q.rev)
          BY <1>5, <3>1, <4>2 DEF Settled, Using, InUse, At
        <5> QED
          BY <1>3, <1>5, <3>1, <4>2, <5>1 DEF ShellInv, Usable
      <4> QED
        BY <4>1, <4>2 DEF ServeMechanical
    <3> QED
      BY <1>2, <1>3, <3>2 DEF CompiledInv, MechanicalDownloadsAsAsked
  <2> QED
    BY <2>1, <2>2
<1> QED
  BY <1>1, <1>4, <1>5, CompiledIds

LEMMA CompiledStep == CompiledInv /\ [Next]_vars => CompiledInv'
<1> SUFFICES ASSUME CompiledInv, [Next]_vars PROVE CompiledInv'
  OBVIOUS
<1>1. TypeInv /\ TypeInv'
  BY TypeStep DEF CompiledInv
<1>2. ASSUME UNCHANGED <<files, rows, exists, req, raced, misled>>
      PROVE  CompiledInv'
  BY <1>1, <1>2 DEF CompiledInv, ShellInv, Settled, MechanicalDownloadsAsAsked
<1>3. ASSUME raced \subseteq raced', misled' = misled
      PROVE  MechanicalDownloadsAsAsked'
  BY <1>3 DEF CompiledInv, MechanicalDownloadsAsAsked
<1>4. ASSUME raced \subseteq raced', NEW r \in Revisions \ raced'
      PROVE  ShellInv(r)
  BY <1>4 DEF CompiledInv
<1>5. \A r \in Revisions, c \in Configs : Panel(r, c) \in Ids /\ files[Panel(r, c)] \in {c, NoFile}
  BY IdsOfRevision DEF CompiledInv
<1>6. CASE UNCHANGED vars
  BY <1>2, <1>6 DEF vars, registryVars, observed
<1>7. ASSUME NEW v \in Verdicts, CommitEdit(v)
      PROVE  CompiledInv'
  BY <1>2, <1>7 DEF CommitEdit, observed
<1>8. ASSUME NEW w \in Workers, QuietSteps(w)
      PROVE  CompiledInv'
  <2>1. raced \subseteq raced' /\ UNCHANGED files
    BY <1>1, <1>8, QuietRequest DEF registryVars
  <2>2. \A r \in Revisions \ raced' : ShellInv(r)'
    BY <1>1, <1>4, <1>8, <2>1, QuietShell
  <2>3. MechanicalDownloadsAsAsked'
    <3>1. CASE ServeMechanical(w)
      BY <3>1, ServedAsAsked
    <3>2. CASE ~ ServeMechanical(w)
      <4>1. misled' = misled
        BY <1>8, <3>2 DEF QuietSteps, LoadProject, CheckExport, FindArtifact, CountDownload,
             SendArtifact, BuildQualityGate, Fail, observed
      <4> QED
        BY <1>3, <2>1, <4>1
    <3> QED
      BY <3>1, <3>2
  <2> QED
    BY <1>1, <1>5, <2>1, <2>2, <2>3 DEF CompiledInv
<1>9. ASSUME NEW w \in Workers, WritingSteps(w)
      PROVE  CompiledInv'
  <2>1. raced \subseteq raced' /\ misled' = misled
    BY <1>1, <1>9, WritingRequest DEF WritingSteps, Writes
  <2>2. \A r \in Revisions \ raced' : ShellInv(r)'
    BY <1>1, <1>4, <1>9, <2>1, WritingShell
  <2>3. ASSUME NEW r \in Revisions, NEW c \in Configs
        PROVE  files'[Panel(r, c)] \in {c, NoFile}
    <3>1. req[w] \in RequestStates /\ req'[w] \in RequestStates
      BY <1>1 DEF TypeInv, TypeOK
    <3>2. CASE Compile(w)
      <4>1. Writes(w, {Compiled(req[w])}, req[w].cfg)
        BY <1>1, <3>2, CompileStep
      <4>2. Compiled(req[w]) = Panel(r, c) => c = req[w].cfg
        BY <3>1, CompiledIds
      <4> QED
        BY <1>5, <4>1, <4>2 DEF Writes
    <3>3. CASE RunValidation(w) \/ BuildExport(w)
      <4>1. PICK content : Writes(w, RegisteredBy(req'[w]), content)
        BY <1>1, <3>3, WritingRequest
      <4>2. req'[w].handler \in FilingHandlers /\ req'[w].handler = req[w].handler
        BY <1>1, <3>3, WritingRequest DEF FilingHandlers
      <4>3. req[w].handler \notin CompileHandlers
        BY <3>3 DEF RunValidation, BuildExport, At, CompileHandlers
      <4>4. Panel(r, c) \notin RegisteredBy(req'[w])
        BY <3>1, <4>2, <4>3, MechanicalWriter
      <4> QED
        BY <1>5, <4>1, <4>4 DEF Writes
    <3> QED
      BY <1>9, <3>2, <3>3 DEF WritingSteps
  <2> QED
    BY <1>1, <1>3, <2>1, <2>2, <2>3 DEF CompiledInv
<1>10. ASSUME NEW w \in Workers, RegisteringSteps(w)
       PROVE  CompiledInv'
  <2>1. UNCHANGED <<raced, misled, files>>
    <3>1. Registers(w, RegisteredBy(req[w]))
      BY <1>1, <1>10, RegisteringRequest DEF RegisteringSteps
    <3> QED
      BY <3>1 DEF Registers, observed
  <2>2. \A r \in Revisions \ raced' : ShellInv(r)'
    BY <1>1, <1>4, <1>10, <2>1, RegisteringShell
  <2> QED
    BY <1>1, <1>3, <1>5, <2>1, <2>2 DEF CompiledInv
<1>11. ASSUME NEW w \in Workers, RemoveFiles(w) \/ CommitDelete(w)
       PROVE  CompiledInv'
  <2>1. /\ \A o \in Workers \ {w} : req'[o] = req[o]
        /\ req'[w] = Idle \/ req'[w] = [req[w] EXCEPT !.pc = "recorded"]
        /\ req[w].handler = "delete"
    BY <1>1, <1>11, DeletingRequest
  <2>2. req'[w].handler \notin CompileHandlers /\ req[w].handler \notin CompileHandlers
    <3>1. req[w].handler \notin CompileHandlers
      BY <2>1 DEF CompileHandlers
    <3>2. CASE req'[w] = Idle
      BY <3>1, <3>2 DEF Idle, CompileHandlers
    <3>3. CASE req'[w] = [req[w] EXCEPT !.pc = "recorded"]
      <4>1. req[w] \in RequestStates
        BY <1>1 DEF TypeInv, TypeOK
      <4>2. req'[w].handler = req[w].handler
        BY <3>3, <4>1 DEF RequestStates
      <4> QED
        BY <3>1, <4>2
    <3> QED
      BY <2>1, <3>2, <3>3
  <2>3. /\ UNCHANGED <<raced, misled>>
        /\ files' = files \/ files' = [id \in Ids |-> NoFile]
        /\ \/ RemoveFiles(w) /\ UNCHANGED <<rows, exists>>
           \/ ~ exists' /\ rows' = [id \in Ids |-> NoRow] /\ files' = files
    BY <1>11 DEF RemoveFiles, CommitDelete, observed
  <2>4. ASSUME NEW r \in Revisions \ raced'
        PROVE  ShellInv(r)'
    <3>1. Shell(r) \in Ids /\ ShellInv(r) /\ ~ Using(req[w], r) /\ ~ Using(req'[w], r)
      BY <1>4, <2>2, <2>3, <2>4, IdsOfRevision DEF Using
    <3>2. CASE UNCHANGED <<rows, exists>>
      <4>1. files'[Shell(r)] \in {files[Shell(r)], NoFile}
        BY <2>3, <3>1
      <4> QED
        BY <2>1, <3>1, <3>2, <4>1, ShellUntouched
    <3>3. CASE ~ exists' /\ rows' = [id \in Ids |-> NoRow] /\ files' = files
      <4>1. \A o \in Workers : Using(req'[o], r) => req'[o] = req[o]
        BY <2>1, <3>1
      <4>2. ~ rows'[Shell(r)].there
        BY <3>1, <3>3 DEF NoRow
      <4> QED
        BY <3>1, <3>3, <4>1, <4>2 DEF ShellInv
    <3> QED
      BY <2>3, <3>2, <3>3
  <2>5. \A r \in Revisions, c \in Configs : files'[Panel(r, c)] \in {c, NoFile}
    BY <1>5, <2>3
  <2> QED
    BY <1>1, <1>3, <2>3, <2>4, <2>5 DEF CompiledInv
<1> QED
  BY <1>6, <1>7, <1>8, <1>9, <1>10, <1>11, StepKinds

LEMMA InitCompiled == Init => CompiledInv
<1> SUFFICES ASSUME Init PROVE CompiledInv
  OBVIOUS
<1>1. /\ \A w \in Workers, r \in Revisions : ~ Using(req[w], r)
      /\ \A id \in Ids : ~ rows[id].there /\ files[id] = NoFile
      /\ misled = {}
  BY DEF Init, Using, Idle, NoRow
<1>2. \A r \in Revisions : ShellInv(r)
  BY <1>1, IdsOfRevision DEF ShellInv
<1> QED
  BY <1>1, <1>2, InitType, IdsOfRevision DEF CompiledInv, MechanicalDownloadsAsAsked

LEMMA CompiledAlways == Spec => []CompiledInv
  BY InitCompiled, CompiledStep, PTL DEF Spec

\* A shell's row states the configuration of its files, unless a compile of the
\* revision failed after writing or overlapped another use of the files.
THEOREM ShellRowsTrue == Spec => []ShellRowsDescribeTheirFiles
<1>1. ASSUME CompiledInv
      PROVE  ShellRowsDescribeTheirFiles
  <2> SUFFICES ASSUME NEW r \in Revisions \ raced, rows[Shell(r)].there, files[Shell(r)] # NoFile,
                      \A w \in Workers :
                          ~ (At(w, "recorded", CompileHandlers) /\ Compiled(req[w]) = Shell(r))
               PROVE  rows[Shell(r)].cfg = files[Shell(r)]
    BY DEF ShellRowsDescribeTheirFiles
  <2>1. Settled(r)
    BY DEF Settled, Using, At
  <2> QED
    BY <1>1, <2>1 DEF CompiledInv, ShellInv
<1> QED
  BY <1>1, CompiledAlways, PTL

\* A mechanical download is a file of the configuration asked for: panels always,
\* shells while nothing overlapped them or failed.
THEOREM DownloadsAsAsked == Spec => []MechanicalDownloadsAsAsked
<1>1. CompiledInv => MechanicalDownloadsAsAsked
  BY DEF CompiledInv
<1> QED
  BY <1>1, CompiledAlways, PTL
=============================================================================
