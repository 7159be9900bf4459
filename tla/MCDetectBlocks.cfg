\* Two processes, /24 escalation on, every act of the operator.
SPECIFICATION Spec
CONSTANTS
    h1 = h1  h2 = h2  s1 = s1  net24 = net24  net64 = net64
    V4 = {h1, h2}
    V6 = {s1}
    NetOf <- MCNetOf
    Crowds = {{h1, h2}, {s1}}
    Procs = {p1, p2}
    BucketSeconds = 1
    Pages = {1}
    Window = 2
    Ttl = 2
    MaxTtl = 3
    Multipliers <- MCMultipliers
    Memory = 1
    UnblockMin = 2
    LoginMemory = 2
    SubnetMin = 2
    MaxNow = 3
    MaxEvents = 1
    Acts = {"block", "unblock", "login", "trust"}
SYMMETRY MCSymmetry
INVARIANTS BlockOnRecord
PROPERTIES OnlyNewOffences UnblockSticksForHosts OperatorSpared RepeatLasts
CHECK_DEADLOCK FALSE
