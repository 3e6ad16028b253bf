CONSTANTS
    MaxCommands = 2
SPECIFICATION Spec
INVARIANT NeverBoth
CHECK_DEADLOCK FALSE
