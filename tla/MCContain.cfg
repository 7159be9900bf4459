CONSTANTS
    c1 = c1
    c2 = c2
    u1 = u1
    a1 = a1
    a2 = a2
    NoAddr = NoAddr
    NoHost = NoHost
    Containers = {c1}
    Users = {u1}
    Addrs = {a1, a2}
    Passes = {"tick"}
    Hands = {"admin"}
    Dests = {"d", "e"}
    MayContain = {"d"}
    Settings <- AnySettings
    BreakerMax = 1
    Hour = 1
    MaxNow = 2
    Scenes <- AnyScene
SPECIFICATION FairSpec
INVARIANTS BreakerHolds
PROPERTIES TrippedMeansNone StaysContained
CHECK_DEADLOCK FALSE
