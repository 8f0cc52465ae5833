SPECIFICATION PolledSpec
CONSTANTS
    Requests = {r1, r2, c}
    Pollers = {c}
    Handlers = {"submit", "poll"}
    Tasks = {t1}
    Delivered = {}
    Placeholders = {p1}
    Keys = {}
    JobLimit = 2
    MaxVariants = 1
    NoAsset = NoAsset
PROPERTIES
    FinishedTasksFinishTheirJobs
CHECK_DEADLOCK FALSE
