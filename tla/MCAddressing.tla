---------------------------- MODULE MCAddressing ----------------------------
(* Addressing on a small set of hosts, ports and names. *)
EXTENDS Addressing, TLC

H(id, kind, group, named) == [id |-> id, kind |-> kind, group |-> group, named |-> named]
Empty == H("", "empty", FALSE, FALSE)

(* One host of each kind, with groups that have a name and groups that have none. *)
SomeHosts ==
    {Empty,
     H("1.2.3", "badDotted", FALSE, FALSE), H("ab::cd::ef", "badColons", FALSE, FALSE),
     H("192.0.2.1", "dotted", FALSE, FALSE), H("224.0.0.1", "dotted", TRUE, TRUE),
     H("2001:db8::1", "colons", FALSE, TRUE), H("ff02::99", "colons", TRUE, FALSE),
     H("ff02::1", "colons", TRUE, TRUE),
     H("example.org", "name", FALSE, TRUE)}

(* 47873 is 443 with its bytes swapped. *)
SomePorts == {80, 443}
SomeServices == {443}
SomeLocalPorts == {32768, 47873}

N(scheme, host, port, service) ==
    [scheme |-> scheme, host |-> host, port |-> port, service |-> service]
SomeNames ==
    { n \in {N(s, h, p, v) : s \in {"none", "slashes", "http", "https"}, h \in SomeHosts,
                             p \in {0, 80, 443}, v \in BOOLEAN} :
        /\ HasColons(n.host) => n.port = 0
        /\ n.service => n.port \in SomeServices }
==============================================================================
