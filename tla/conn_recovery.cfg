\* retries=None against a meter that keeps answering now and then.
SPECIFICATION MeterSpec
CONSTANTS
    Clients = {c1, c2, c3}
    Tasks = {t1}
    None = None
    Forever = Forever
    RetryLimits = {Forever}
    SyncRtc = FALSE
    Overlap = FALSE
    Reenter = FALSE
PROPERTIES ForeverEndsWhenMeterAnswers
