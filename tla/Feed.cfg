SPECIFICATION MCFairSpec
CONSTANTS
    Sensors = {s1, s2}
    HeatPump = pump
    Boxes = {b1, b2}
    NoBox = nobox
    Rejected = {s2}
    HeartbeatEvery = 2
    IdleSnapshot = 2
    MaxEdits = 1
    MaxEnrolls = 1
    MaxFaults = 1
INVARIANTS
    Delivered
    SilenceBounded
PROPERTIES
    Converges
