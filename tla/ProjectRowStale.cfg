SPECIFICATION Spec
CONSTANTS
    Requests = {r1, r2}
    Handlers = {"patch_layout", "validate"}
INVARIANT RowIsLatestRevision
CHECK_DEADLOCK FALSE
