SPECIFICATION Spec
CONSTANTS
    Clients = {c1, c2}
    None = none
    MaxIn = 2
    Eofs = {2}
INVARIANT TypeOK
INVARIANT EchoesInOrder
INVARIANT NothingLeft
PROPERTY EndsWithClients
CHECK_DEADLOCK FALSE
