\* One iterator across a reconnect.
SPECIFICATION FairSpec
CONSTANTS
    Consumers = {k1}
    Empty = Empty
    MaxSessions = 2
    MaxFrames = 2
PROPERTIES IteratorSurvivesReconnect
CHECK_DEADLOCK FALSE
