CONSTANTS
    Requests = {r1, r2, r3}
    MaxSaves = 2
    MaxFaults = 1
    HasIp6 = TRUE
    MaxChunks = 2
    Seeds = {s1, s2}
    Assets = {a1}
    Texts = {t1}
    Components = {c1}
    MaxStops = 2
SPECIFICATION FairSpec
INVARIANTS
    AppliesPublish
    Installed
    StartsWhole
PROPERTIES
    Delivers
    HandlerEnds
CHECK_DEADLOCK FALSE
