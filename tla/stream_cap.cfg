\* pause_cap set, not a multiple of no_data_timeout.
SPECIFICATION FairSpec
CONSTANTS
    NoDataTimeout = 2
    LinkDownGrace = 3
    PauseCap = 5
    Never = Never
INVARIANTS TypeOK DropNoticedInTime StuckMeterNoticedInTime
PROPERTIES PauseIsWaitedOut PendingFrameLeaves
