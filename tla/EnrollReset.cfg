SPECIFICATION Spec
CONSTANTS
    Boxes = {b1, b2}
    Codes <- OneAdmin
    Names = {admin}
    QrName = admin
    NoBox = nobox
    NoFile = nofile
    Torn = torn
    Enrollers = {e1, e2}
    Bootstrappers = {p1}
    Forms = {}
    AllowReset = TRUE
    MaxFaults = 1
INVARIANTS
    FileWhole
