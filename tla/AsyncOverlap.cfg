SPECIFICATION Spec
CONSTANTS
    Workers = {w1, w2}
    Bufs = {b1}
    OutBuf = outbuff
    InBuf = inbuff
    MaxIn = 2
    MaxOut = 0
    MaxConn = 2
    Programs <- Overlaps
INVARIANT NeverBlocks
CHECK_DEADLOCK FALSE
