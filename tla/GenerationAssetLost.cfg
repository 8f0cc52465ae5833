SPECIFICATION Spec
CONSTANTS
    Requests = {r1, r2, r3}
    Pollers = {}
    Handlers = {"submit", "poll"}
    Tasks = {t1, t2}
    Delivered = {}
    Placeholders = {}
    Keys = {}
    JobLimit = 2
    MaxVariants = 3
    NoAsset = NoAsset
SYMMETRY GenerationSymmetry
INVARIANT FinishedJobsKeepTheirAsset
CHECK_DEADLOCK FALSE
