SPECIFICATION Spec
CONSTANTS
    Tabs = {a}
    Projects = {p, q}
    Marks = {m1}
    Nothing = Nothing
    Slots = {s1, s2}
    MaxUndo = 1
    MaxSaves = 2
SYMMETRY StoreSymmetry
INVARIANT ProjectsDoNotMix
CHECK_DEADLOCK FALSE
