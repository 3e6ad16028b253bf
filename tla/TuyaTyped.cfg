SPECIFICATION Spec
CONSTANTS
    d1 = d1
    c1 = c1
    None = none
    Torn = torn
    Devices = {d1}
    Hub = d1
    Child = c1
    Options <- MCOptions
    Flows = {1, 2}
    Requests = {r1, r2}
    Uploads <- MCUploads
    MaxUpsets = 1
INVARIANT TypedCreates
CHECK_DEADLOCK FALSE
