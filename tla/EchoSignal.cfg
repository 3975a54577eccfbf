SPECIFICATION Spec
CONSTANTS
    Clients = {c1, c2}
    None = none
    MaxIn = 2
    Eofs = {2}
INVARIANT ExitsCleanly
CHECK_DEADLOCK FALSE
