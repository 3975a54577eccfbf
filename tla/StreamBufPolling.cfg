SPECIFICATION Spec
CONSTANTS
    OutSize = 2
    InSize = 2
    MaxOut = 3
    MaxIn = 2
    MaxWire = 6
    NegativeOne = {}
    Regimes <- Polls
INVARIANT OutputOrder
