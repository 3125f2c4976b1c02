\* Two tasks whose calls interleave freely, and re-entered `async with`.
SPECIFICATION OverlapSpec
CONSTANTS
    Clients = {c1, c2, c3, c4, c5}
    Tasks = {t1, t2}
    None = None
    Forever = Forever
    RetryLimits = {2}
    SyncRtc = FALSE
    Overlap = TRUE
    Reenter = TRUE
SYMMETRY Symmetry
INVARIANTS LockStep
PROPERTIES SurprisesNeedOverlap AloneIsStreaming AloneLeavesNothing
