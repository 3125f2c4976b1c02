\* One task, every outcome of every bleak call, no overlapping calls.
SPECIFICATION FairSpec
CONSTANTS
    Clients = {c1, c2, c3}
    Tasks = {t1}
    None = None
    Forever = Forever
    RetryLimits = {0, 2, Forever}
    SyncRtc = TRUE
    Overlap = FALSE
    Reenter = FALSE
INVARIANTS TypeOK NoOrphanedLink DocumentedOutcomes
PROPERTIES
    SuccessIsStreaming FailureReleasesLink GivesUpAfterRetries
    CancellationIsFinal EveryCallReturns ImplementsSession
