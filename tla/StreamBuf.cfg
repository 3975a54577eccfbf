SPECIFICATION Spec
CONSTANTS
    OutSize = 2
    InSize = 2
    MaxOut = 3
    MaxIn = 3
    MaxWire = 4
    NegativeOne = {2}
    Regimes <- AllRegimes
INVARIANT TypeOK
INVARIANT OrderWhenReliable
INVARIANT InputOrder
INVARIANT NothingLost
PROPERTY KeepsChannel
