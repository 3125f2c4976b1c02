\* Two meters and another device; the examples and the tool.
SPECIFICATION FairSpec
CONSTANTS
    Meters = {m1, m2}
    Others = {d1}
    Uuid = Uuid
    Rssi = {1, 2}
    None = None
    MaxHeard = 3
    MaxPresses = 2
INVARIANTS FirstSightLastSignal ReleasedAtExit
PROPERTIES GivesUpWhenGone ToolComesBack
CHECK_DEADLOCK FALSE
