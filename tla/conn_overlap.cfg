\* Two tasks whose calls interleave freely: one clears the client
\* of the other.
SPECIFICATION Spec
CONSTANTS
    Clients = {c1, c2, c3, c4, c5}
    Tasks = {t1, t2}
    None = None
    Forever = Forever
    RetryLimits = {2}
    SyncRtc = FALSE
    Overlap = TRUE
    Reenter = FALSE
SYMMETRY Symmetry
PROPERTIES TeardownReleasesTheLink
