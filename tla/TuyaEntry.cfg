CONSTANTS
    Devices <- MCDevices
    MaxStops = 1
    Gateway = gw
    Children = {c1}
    Ents = {e1, e2}
    MaxSetups = 3
    MaxRenames = 2
SPECIFICATION EntrySpec
INVARIANTS
    EndsAsUndisturbed
    OneConnection
    Monitored
PROPERTIES
    KnownStays
CHECK_DEADLOCK FALSE
