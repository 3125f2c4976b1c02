\* The first connection is announced as a reconnection.
SPECIFICATION Spec
CONSTANTS
    NoDataTimeout = 1
    LinkDownGrace = 0
    PauseCap = Never
    Never = Never
PROPERTIES ReconnectedFollowsLost
