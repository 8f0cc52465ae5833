SPECIFICATION Spec
CONSTANTS
    Workers = {w1, w2}
    Configs = {"default", "custom"}
    DefaultConfig = "default"
    Verdicts = {"pass", "fail"}
    Backends = {"local", "r2"}
    FreeExports = 1
    MaxRevision = 2
    MaxRequests = 3
SYMMETRY Symmetric
INVARIANTS
    TypeOK
    FilesOutliveTheirRows
    ShellRowsDescribeTheirFiles
    MechanicalDownloadsAsAsked
    ExportsWithinQuota
    BundlesAreValidated
    ReadyMeansExported
PROPERTIES
    ImplementsDurableOutputs
CHECK_DEADLOCK FALSE
