SPECIFICATION Spec
CONSTANTS
    Tabs = {a}
    Projects = {p}
    Marks = {m1, m2}
    Nothing = Nothing
    Slots = {s1, s2}
    MaxUndo = 2
    MaxSaves = 1
SYMMETRY StoreSymmetry
INVARIANTS
    TypeOK
    UndoRedoFits
PROPERTY UndoRedoKeepsTimeline
CHECK_DEADLOCK FALSE
