CONSTANTS
    a = a
    b = b
    i1 = i1
    i2 = i2
    i3 = i3
    NoFile = NoFile
    NoCursor = NoCursor
    Readers = {a, b}
    Inodes = {i1, i2, i3}
    Kinds <- LiveKinds
    JournalBudget = 3
    MaxLines = 2
    OldLines = 0
    MaxTurns = 1
    Budget = 1
    Chunk = 1
SPECIFICATION FairSpec
PROPERTIES EveryLineCounted
CHECK_DEADLOCK FALSE
