SPECIFICATION Spec
CONSTANTS
    Requests = {r1, r2, r3, r4, r5}
    Handlers = {"patch_name", "compile_mechanical"}
SYMMETRY RequestSymmetry
INVARIANT ExpectedHonoured
CHECK_DEADLOCK FALSE
