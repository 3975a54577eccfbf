\* Every way to make, resolve and open addresses.
SPECIFICATION Spec
CONSTANTS
    Hosts <- SomeHosts
    NoHost <- Empty
    Ports <- SomePorts
    Services <- SomeServices
    Names <- SomeNames
    LocalPorts <- SomeLocalPorts
INVARIANTS TypeOK GoesWhereAsked SecureByPort JoinsGroup RunsOn
\* A program that was stopped takes no more steps.
CHECK_DEADLOCK FALSE
