CONSTANTS
    p1 = p1
    p2 = p2
    r1 = r1
    r2 = r2
    t1 = t1
    Procs = {p1, p2}
    RuleSets = {r1, r2}
    Tokens = {t1}
    NoToken = NoToken
    Absent = Absent
    Free = Free
    Site = Site
    Scenes <- RenderScenes
SPECIFICATION Spec
INVARIANTS KernelMatchesBoot
CHECK_DEADLOCK FALSE
