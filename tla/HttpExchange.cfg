\* Heads of requests of three to five parts, and a buffer for four.
SPECIFICATION Spec
CONSTANTS
    Fields = {"Accept", "Cookie"}
    Default = "Accept"
    Messages <- SomeMessages
    Line = 2
    uCount = 4
    Room = 3
    Heads <- SomeHeads
    Bodies <- SomeBodies
    Networks = {"whole", "pieces"}
INVARIANT TypeOK
INVARIANT ReadsAsWritten
INVARIANT ReadsPrefix
INVARIANT RequestUnderstood
PROPERTY GetReturns
CHECK_DEADLOCK FALSE
