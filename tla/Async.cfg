SPECIFICATION Spec
CONSTANTS
    Workers = {w1, w2}
    Bufs = {b1}
    OutBuf = outbuff
    InBuf = inbuff
    MaxIn = 2
    MaxOut = 2
    MaxConn = 2
    Programs <- AllPrograms
INVARIANT TypeOK
INVARIANT InOrder
INVARIANT Conserved
INVARIANT WritesAsPassed
INVARIANT WorkersEndInTime
PROPERTY ReadersServed
CHECK_DEADLOCK FALSE
