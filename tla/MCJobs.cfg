CONSTANTS
    tick = tick
    tui = tui
    batch = batch
    Tick = tick
    Tui = tui
    Tuis = {tui}
    Batches = {batch}
    None = None
    Never = Never
    LeaseTime = 3
    Back = 3
    Oldest = 5
    Interval <- JobInterval
    Takes <- JobTakes
    Scenes <- JobScenes
SPECIFICATION FairSpec
INVARIANTS OneDownloader LastWriteReloaded TagsSettle FlagsHaveAnApply
PROPERTIES DueIsRun
CHECK_DEADLOCK FALSE
