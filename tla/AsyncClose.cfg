SPECIFICATION Spec
CONSTANTS
    Workers = {w1, w2}
    Bufs = {b1}
    OutBuf = outbuff
    InBuf = inbuff
    MaxIn = 1
    MaxOut = 1
    MaxConn = 2
    Programs <- ClosesBusy
INVARIANT NoAbort
CHECK_DEADLOCK FALSE
