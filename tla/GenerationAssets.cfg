SPECIFICATION Spec
CONSTANTS
    Requests = {r1, r2, r3, r4}
    Pollers = {}
    Handlers = {"poll", "accept", "apply", "patch_layout"}
    Tasks = {t1}
    Delivered = {t1}
    Placeholders = {}
    Keys = {k1}
    JobLimit = 2
    MaxVariants = 3
    NoAsset = NoAsset
SYMMETRY RequestSymmetry
INVARIANTS
    CanonicalStateIsRevisioned
    AppliedAssetsStayAccepted
CHECK_DEADLOCK FALSE
