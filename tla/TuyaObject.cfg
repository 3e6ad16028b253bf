SPECIFICATION FairSpec
CONSTANTS
    Dps = {d1}
    Values = {v1, v2}
    None = none
    Commands = {c1, c2}
    Attempts = 2
    MaxReports = 1
    Callers = {poll, c1}
    Poll = poll
    N = 3
    Default = 2
    Single = 2
    FailureReset = 2
    MaxCommands = 2
    Absent = absent
    Null = null
    Fails = fails
    Unit <- MCUnit
    Entities <- MCEntities
    MaxFaults = 1
INVARIANTS
    LoneLastReaches
    ReadsBack
    AsDocumented
PROPERTIES
    OverlayHolds
    BoardShown
    LoneCallTriesAll
    FindsVersion
