CONSTANTS
    p1 = p1
    p2 = p2
    f1 = f1
    f2 = f2
    Procs = {p1, p2}
    Sites = {f1, f2}
    Scenes <- PassingScenes
    Free = Free
    Absent = Absent
    NoBlock = NoBlock
SPECIFICATION FairSpec
INVARIANTS AlwaysResolves QuietLoads
PROPERTIES RecordedFirst PutBack UpToDateIsLoaded SettingsServed
CHECK_DEADLOCK FALSE
