SPECIFICATION FairSpec
CONSTANTS
    Boxes = {b1, b2}
    Codes <- KeyedCodes
    Names = {admin, ann, bob}
    QrName = admin
    NoBox = nobox
    NoFile = nofile
    Torn = torn
    Enrollers = {e1}
    Bootstrappers = {p1}
    Forms = {f1}
    AllowReset = FALSE
    MaxFaults = 1
INVARIANTS
    SecretIsOwn
PROPERTIES
    SecretIsUsed
    OwnerReached
    SecretGone
