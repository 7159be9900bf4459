CONSTANTS
    a = a
    b = b
    i1 = i1
    i2 = i2
    i3 = i3
    NoFile = NoFile
    NoCursor = NoCursor
    Readers = {a, b}
    Inodes = {i1, i2, i3}
    Kinds <- SafetyKinds
    JournalBudget = 5
    MaxLines = 4
    OldLines = 1
    MaxTurns = 2
    Budget = 2
    Chunk = 1
SYMMETRY Symmetry
SPECIFICATION Spec
INVARIANTS NothingSkipped
PROPERTIES EachOnce
CHECK_DEADLOCK FALSE
