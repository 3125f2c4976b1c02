\* retries=None and a cancel() that arrives while a cancelled inner task is
\* being awaited.
SPECIFICATION FairSpec
CONSTANTS
    Clients = {c1, c2, c3}
    Tasks = {t1}
    None = None
    Forever = Forever
    RetryLimits = {Forever}
    SyncRtc = FALSE
    Overlap = FALSE
    Reenter = FALSE
PROPERTIES CancelStopsTheCall
