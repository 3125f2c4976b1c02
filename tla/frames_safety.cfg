\* Two consumers, two sessions and two frames in each.
SPECIFICATION Spec
CONSTANTS
    Consumers = {k1, k2}
    Empty = Empty
    MaxSessions = 2
    MaxFrames = 2
SYMMETRY Symmetry
INVARIANTS TypeOK NewestKept NoLostWakeup
PROPERTIES DeliveredOnceInOrder ImplementsMailbox
CHECK_DEADLOCK FALSE
