\* Does open() make what its comment says?  Asked of SocketAddrs with port 80;
\* with Ports = {443} the answer is the TLS client that modeCreate gets.
SPECIFICATION Spec
CONSTANTS
    Hosts <- SomeHosts
    NoHost <- Empty
    Ports = {80}
    Services = {}
    Names = {}
    LocalPorts <- SomeLocalPorts
INVARIANT OpensAsDocumented
CHECK_DEADLOCK FALSE
