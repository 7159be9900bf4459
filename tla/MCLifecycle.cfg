CONSTANTS
    p1 = p1
    r1 = r1
    t1 = t1
    o1 = o1
    o2 = o2
    k1 = k1
    k2 = k2
    v1 = v1
    Procs = {p1}
    RuleSets = {r1}
    Tokens = {t1}
    NoToken = NoToken
    Absent = Absent
    Free = Free
    Site = Site
    Scenes <- AllScenes
    Openers = {o1, o2}
    MaxVersion = 2
    MaxCopies = 1
    MovedKeys <- Moved
    Values = {v1}
    Unset = Unset
    Invalid = Invalid
    Missing = Missing
    Nobody = Nobody
    Hosts <- AllHosts
    RootKey = k1
    Uninstalled <- LeavingHosts
    MaxTries = 2
SPECIFICATION MCSpec
INVARIANTS Upgraded SettingsKept CleanStaysClean
CHECK_DEADLOCK FALSE
