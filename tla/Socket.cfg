SPECIFICATION Spec
CONSTANTS
    Sockets = {s1, s2}
    Fds = {f1, f2}
    NoFd = NoFd
    Programs <- ProgramSet
SYMMETRY Symmetry
INVARIANT TypeOK
INVARIANT ExclusiveOwnership
INVARIANT NoLeak
INVARIANT StateMatchesKernel
INVARIANT StateHasHandle
INVARIANT TlsContextOwned
INVARIANT OnlyOpenAborts
PROPERTY ImplementsOwnership
CHECK_DEADLOCK FALSE
