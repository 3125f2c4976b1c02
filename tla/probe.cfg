\* The script against every outcome of every command, and two tasks that
\* overlap their commands.
SPECIFICATION FairSpec
CONSTANTS
    Callers = {p, q}
    Prober = p
    Nobody = Nobody
    Original = Original
    Test = Test
    Garbled = Garbled
    Unknown = Unknown
    Wanted <- MCWanted
    MaxLate = 2
INVARIANTS TypeOK RecoveryKeys RestoredWhenReported RevertsAttempted
PROPERTIES AnsweredMeansServed SoloCallGetsItsOwnAnswer ProbeEnds
CHECK_DEADLOCK FALSE
