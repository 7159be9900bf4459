\* One address, every rule; passes that stop between two chunks, and decisions
\* of another process at any point.
SPECIFICATION Spec
CONSTANTS
    Detectors <- MCDetectors
    RuleOf <- MCRuleOf
    SaysOf <- MCSaysOf
    BucketSeconds = 2
    Pages = {1, 2}
    Window = 2
    MaxNow = 4
    MaxLines <- MCMaxLines
    Faults = {"crash"}
INVARIANTS NeverOver ClearedIsSpared NotMissed ReadLosesNothing
CHECK_DEADLOCK FALSE
