SPECIFICATION Spec
CONSTANTS
    Requests = {r1, r2, r3}
    Pollers = {}
    Handlers = {"submit", "poll", "accept"}
    Tasks = {t1, t2, t3}
    Delivered = {}
    Placeholders = {p1, p2}
    Keys = {}
    JobLimit = 2
    MaxVariants = 3
    NoAsset = NoAsset
SYMMETRY GenerationSymmetry
INVARIANTS
    TypeOK
    MeshesBeforeAssets
    QuotaCountsJobs
    JobFollowsProvider
CHECK_DEADLOCK FALSE
