CONSTANTS
    a = a
    b = b
    c = c
    s = s
    NoPort = NoPort
    Forever = Forever
    Hosts = {a, b, c, s}
    V6 = {s}
    Ranges <- MCRanges
    Private <- MCPrivate
    Ports = {22, 80}
    AcmePort = 80
    Dbs <- AllDbs
    Logs <- SshLogs
    MaxNow = 2
SPECIFICATION Spec
INVARIANTS ScriptDecides GuardHolds PolicyHolds
CHECK_DEADLOCK FALSE
