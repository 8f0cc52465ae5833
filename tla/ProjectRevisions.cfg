SPECIFICATION Spec
CONSTANTS
    Requests = {r1, r2, r3}
    Handlers = {"patch_layout", "patch_name", "compile_pcb", "validate", "export", "compile_mechanical", "delete"}
SYMMETRY RequestSymmetry
INVARIANTS
    TypeOK
    HistoryIsLinear
    RowMatchesItsSnapshot
    AcknowledgedEditsAreRecorded
    EvidenceIsCurrent
    EditsKeepRowLatest
    EditsKeepLock
CHECK_DEADLOCK FALSE
PROPERTIES
    SnapshotsImmutable
    ImplementsRevisionHistory
