SPECIFICATION FairSpec
CONSTANTS
    ScanInterval = 1
    BackoffStart = 2
    BackoffMax = 10
    FailureCap = 4
    Poll = poll
    Setters = {s1, s2}
    Replies <- AllReplies
    MaxSkips = 2
    MaxConns = 3
    MaxSets = 2
    MaxFaults = 1
    MaxLate = 0
INVARIANTS
    LockDiscipline
    NoLeakedConnection
PROPERTIES
    PollUndisturbed
    Recovers
