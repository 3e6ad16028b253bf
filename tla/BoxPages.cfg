CONSTANTS
    Pages = {p1, p2}
    Sensors = {s1}
    Cats = {c1}
    Out = out
    Unset = unset
    NoFile = nofile
    NotAsked = notasked
    Before <- OpenShare
    MaxEdits = 1
    MaxLost = 1
    Timers = {t1}
    Hands = {h1}
    NoAnswer = NoAnswer
    Lost = Lost
    MaxChanges = 2
    MaxFaults = 1
SPECIFICATION FairSpec
INVARIANTS
    OkMeansToken
    CountdownLives
PROPERTIES
    PagesSettle
    Arrives
CHECK_DEADLOCK FALSE
