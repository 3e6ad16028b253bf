SPECIFICATION Spec
CONSTANTS
    ScanInterval = 1
    BackoffStart = 2
    BackoffMax = 10
    FailureCap = 4
    Poll = poll
    Setters = {s1}
    Replies <- AllReplies
    MaxSkips = 2
    MaxConns = 3
    MaxSets = 4
    MaxFaults = 1
    MaxLate = 2
INVARIANTS
    FailedConnNeverReused
    InputsAnswerOwnPoll
    GraceHonoured
PROPERTIES
    PollShowsEarlierControls
