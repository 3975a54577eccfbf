----------------------------- MODULE Addressing -----------------------------
(***************************************************************************)
(* A SocketAddr and the Socket that is opened with it: how a name becomes   *)
(* an address, which opener Socket::open picks, where the connection goes,  *)
(* and what opening writes back into the SocketAddr.                        *)
(*                                                                          *)
(* A SocketAddr keeps its port twice: as portNumber_, in host order, and    *)
(* inside address_, in network order.  It also caches its host name, and    *)
(* whether it is a multicast group.  Nothing keeps the copies equal.        *)
(***************************************************************************)
EXTENDS Integers

CONSTANTS
    Hosts,      \* the host strings the program uses, a set of Host records
    NoHost,     \* the empty string, one of them
    Ports,      \* the port numbers the program uses
    Services,   \* the ports of the service names it uses
    Names,      \* the names it opens with open(const char*), Name records
    LocalPorts  \* the ports the kernel gives to clients

(* A 16-bit number. *)
MaxWord == 65535
Word == 0 .. MaxWord

(***************************************************************************)
(* A host string as resolve() tells strings apart: empty, digits and dots,  *)
(* hexadecimal digits and colons, or anything else; and what inet_pton or   *)
(* the resolver make of it.  The host of "dotted" is an IPv4 address, that  *)
(* of "colons" an IPv6 address.                                             *)
(***************************************************************************)
Host == [id : STRING,
         kind : {"empty", "dotted", "badDotted", "colons", "badColons", "name"},
         group : BOOLEAN,       \* in the range of multicast addresses
         named : BOOLEAN]       \* the address has a name in the DNS

(***************************************************************************)
(* A name to open: "host", "//host", "http://host" or         *)
(* "https://host", with ":port" after it when port is not 0, the port as a  *)
(* number or as the name of a service.  A host with colons comes without a  *)
(* port: the text after its last colon would be part of the address.        *)
(***************************************************************************)
Name == [scheme : {"none", "slashes", "http", "https"},
         host : Hosts, port : Word, service : BOOLEAN]
HasColons(h) == h.kind \in {"colons", "badColons"}

ASSUME HostAssumption ==
    /\ Hosts \subseteq Host
    /\ NoHost \in Hosts
    /\ \A h \in Hosts : h.kind = "empty" <=> h = NoHost
ASSUME PortAssumption == Ports \union Services \union LocalPorts \subseteq Word \ {0}
ASSUME NameAssumption ==
    /\ Names \subseteq Name
    /\ \A n \in Names : /\ HasColons(n.host) => n.port = 0
                        /\ n.service => n.port \in Services

VARIABLES
    exists,     \* the SocketAddr has been constructed
    addr,       \* the SocketAddr
    conn,       \* the Socket: what it is, where it goes, the group it asked to join
    asked,      \* what the program asked the SocketAddr for, and did with it since
    sought,     \* what the last open that opened or ended the program was asked for
    stopped     \* what ended the program, if anything did

vars == <<exists, addr, conn, asked, sought, stopped>>

Protocols == {"tcp", "udp"}
Kinds == {"closed", "plain", "tls", "listening", "udpClient", "udpServer"}
Special(kind) == [kind |-> kind, host |-> NoHost, port |-> 0]
AddrType == [kind : {"none", "any", "v4", "v6"}, host : Hosts, port : Word]
SocketAddr == [protocol : Protocols, address : AddrType, portNumber : Word,
               isMulticast : BOOLEAN, hostName : Hosts]

(***************************************************************************)
(* What a SocketAddr was asked for: the last host it resolved, the port and *)
(* whether that came as the name of a service; whether open() has written   *)
(* a local port into it since; and whether resolve() was called for it      *)
(* once, by its constructor, again, or again after open() had written.      *)
(***************************************************************************)
Goal == [host : Hosts, port : Word, service : BOOLEAN, written : BOOLEAN,
         resolved : {"once", "again", "late"}]
Wanted(h, p, service) ==
    [host |-> h, port |-> p, service |-> service, written |-> FALSE, resolved |-> "once"]

(* An open: of what, of which address_ at that moment, with modeCreate or not. *)
Request == [goal : Goal, address : {"none", "any", "v4", "v6"}, create : BOOLEAN]
Asking(g, a, create) == [goal |-> g, address |-> a.address.kind, create |-> create]
NoRequest == [goal |-> Wanted(NoHost, 0, FALSE), address |-> "none", create |-> FALSE]

(* substr of an empty name, VERIFY(0) in SSClosed::open, std::get of what
   address_ does not hold: an abort, and two exceptions nobody catches. *)
Ends == {"substr", "verify", "get"}

Closed == [kind |-> "closed", to |-> Special("none"), joined |-> NoHost]

(***************************************************************************)
(* The values of the variables; ports, written as sixteen bits, stay there  *)
(* through every change of byte order.                                      *)
(***************************************************************************)
TypeOK ==
    /\ exists \in BOOLEAN
    /\ addr \in SocketAddr
    /\ conn \in [kind : Kinds, to : AddrType, joined : Hosts]
    /\ asked \in Goal
    /\ sought \in Request
    /\ stopped \in {"no"} \union Ends

(* SocketAddr() with the fields its constructors set before they resolve. *)
Unresolved(p, pr) ==
    [protocol |-> pr, address |-> Special("none"), portNumber |-> p,
     isMulticast |-> FALSE, hostName |-> NoHost]

Init ==
    /\ exists = FALSE
    /\ addr = Unresolved(0, "tcp")
    /\ conn = Closed
    /\ asked = NoRequest.goal
    /\ sought = NoRequest
    /\ stopped = "no"

------------------------------------------------------------------------------
(* Resolving. *)

(* htons and ntohs on the little-endian machines the Makefiles build for. *)
Swap_Wide(p) == p * 256 + p \div 256
Swap(p) == (p % 256) * 256 + p \div 256

IsIp(a) == a.address.kind \in {"v4", "v6"}

(* Only the text of a datagram address is looked at for a group. *)
Group_Unchecked(h, pr) == pr = "udp"
Group_NeverV6(h, pr) == pr = "udp" /\ h.kind = "dotted" /\ h.group
Group(h, pr) == pr = "udp" /\ h.kind \in {"dotted", "colons"} /\ h.group

(***************************************************************************)
(* The addresses a host string can become.  "old" stands for the resolver   *)
(* knowing no such name, which leaves address_ alone; "none" also for names *)
(* none of whose addresses this machine can make a socket for.              *)
(***************************************************************************)
Families(h) ==
    CASE h.kind = "empty" -> {"any"}
      [] h.kind = "dotted" -> {"v4"}
      [] h.kind = "colons" -> {"v6"}
      [] h.kind \in {"badDotted", "badColons"} -> {"none"}
      [] h.kind = "name" -> {"old", "none", "v4", "v6"}

Becomes(a, h, f) ==
    CASE f = "old" -> a.address
      [] f \in {"none", "any"} -> Special(f)
      [] OTHER -> [kind |-> f, host |-> h, port |-> a.portNumber]

(* resolve(h): the SocketAddrs it may leave behind, with the result it returns. *)
Resolved(a, h) ==
    { [valid |-> f \in {"v4", "v6"},
       addr |-> [a EXCEPT !.address = Becomes(a, h, f),
                          !.isMulticast = @ \/ Group(h, a.protocol)]] : f \in Families(h) }

(* getservbyname gives the port in network order, which is stored as it is; a
   service it does not know leaves the port 0. *)
ServicePorts(s) == {Swap(s), 0}

Construct(h, p, pr, goal) ==
    /\ stopped = "no"
    /\ conn = Closed
    /\ exists' = TRUE
    /\ \E r \in Resolved(Unresolved(p, pr), h) : addr' = r.addr
    /\ asked' = goal
    /\ UNCHANGED <<conn, sought, stopped>>

ConstructPort(h, pr) == \E p \in Ports : Construct(h, p, pr, Wanted(h, p, FALSE))
ConstructService(h, pr) ==
    \E s \in Services : \E p \in ServicePorts(s) : Construct(h, p, pr, Wanted(h, s, TRUE))

(* A program is told whether the host resolved; when not, it still has the old one. *)
ResolveAgain(h) ==
    /\ stopped = "no"
    /\ exists
    /\ \E r \in Resolved(addr, h) :
        /\ addr' = r.addr
        /\ asked' = [asked EXCEPT !.host = IF r.valid \/ h = NoHost THEN h ELSE @,
                                  !.resolved = IF asked.written THEN "late" ELSE "again"]
    /\ UNCHANGED <<exists, conn, sought, stopped>>

(***************************************************************************)
(* hostname(): the name of the address, or the text of an IPv6 address that *)
(* has none.  It is looked up once; an IPv4 address without a name leaves   *)
(* the cache empty.                                                         *)
(***************************************************************************)
LookedUp(a) ==
    IF a.hostName = NoHost /\ IsIp(a) /\ (a.address.host.named \/ a.address.kind = "v6")
    THEN [a EXCEPT !.hostName = a.address.host]
    ELSE a
Hostname ==
    /\ stopped = "no"
    /\ exists
    /\ addr' = LookedUp(addr)
    /\ UNCHANGED <<exists, conn, asked, sought, stopped>>

------------------------------------------------------------------------------
(* Opening. *)

Https == 443

(* Which opener Socket::open(SocketAddr&) picks: TLS comes before modeCreate. *)
Secure_Wire(a) == IsIp(a) /\ a.portNumber = Swap(Https)
Secure(a) == IsIp(a) /\ a.portNumber = Https
Serves(a, create) == ~Secure(a) /\ (create \/ a.address.kind = "any")

(* getSockAddr: every special address, AddrNone too, is any address of the machine. *)
Target(a) ==
    IF IsIp(a) THEN a.address ELSE [Special("any") EXCEPT !.port = a.portNumber]

(* After a stream opens, getsockname's port is stored without ntohs. *)
Written_Everywhere(a, p) ==
    IF IsIp(a) THEN [a EXCEPT !.portNumber = Swap(p), !.address.port = p] ELSE a
Written(a, p) == IF IsIp(a) THEN [a EXCEPT !.portNumber = Swap(p)] ELSE a

Outcome(c, a) == [conn |-> c, addr |-> a, stops |-> "no"]
Failed(a) == Outcome(Closed, a)
Stopped(a, end) == [Failed(a) EXCEPT !.stops = end]
Opened(kind, to, group) == [kind |-> kind, to |-> to, joined |-> group]

(* A TLS client makes an IPv4 socket whatever its address is. *)
Streams(a, create) ==
    IF Serves(a, create)
    THEN { Outcome(Opened("listening", Target(a), NoHost), Written(a, p)) :
                p \in IF Target(a).port = 0 THEN LocalPorts ELSE {Target(a).port} }
    ELSE { Outcome(Opened(IF Secure(a) THEN "tls" ELSE "plain", a.address, NoHost), Written(a, p)) :
                p \in {q \in LocalPorts : /\ IsIp(a)
                                          /\ a.address.port # 0
                                          /\ Secure(a) => a.address.kind = "v4"} }

(***************************************************************************)
(* A datagram server of a group takes the group's port on any interface and *)
(* asks the kernel to join the group: an IPv4 group by address_, an IPv6    *)
(* one by the text hostname() returns, which must not be a name.  What      *)
(* setsockopt returned is not looked at.                                    *)
(***************************************************************************)
AnyOf(to) == [to EXCEPT !.kind = "any", !.host = NoHost]
GroupServer(a) ==
    CASE a.address.kind = "v4" ->
            Outcome(Opened("udpServer", AnyOf(a.address), a.address.host), a)
      [] a.address.kind = "v6" ->
            LET b == LookedUp(a) IN
            IF b.hostName.named THEN Failed(b)
            ELSE Outcome(Opened("udpServer", AnyOf(b.address), b.hostName), b)
      [] OTHER -> Stopped(a, "get")

(* Without modeCreate an unresolved datagram address reaches SSClosed::open. *)
Datagrams(a, create) ==
    IF Secure(a) THEN {}            \* TLS refuses datagrams
    ELSE IF Serves(a, create) THEN
            { IF a.isMulticast THEN GroupServer(a)
              ELSE Outcome(Opened("udpServer", Target(a), NoHost), a) }
    ELSE IF IsIp(a) THEN {Outcome(Opened("udpClient", a.address, NoHost), a)}
    ELSE {Stopped(a, "verify")}

(* Every system call of an opener may fail, and leaves the Socket closed. *)
Openings(a, create) ==
    IF a.protocol = "tcp"
    THEN {Failed(a)} \union IF a.address.kind = "none" THEN {} ELSE Streams(a, create)
    ELSE {Failed(a)} \union Datagrams(a, create)

(* What an open leaves of the Socket, and the record of what it was asked. *)
Ending(request, o) ==
    /\ conn' = o.conn
    /\ stopped' = o.stops
    /\ sought' = IF o.conn = Closed /\ o.stops = "no" THEN sought ELSE request

(* open(SocketAddr&, flags), with or without modeCreate. *)
Open(create) ==
    /\ stopped = "no"
    /\ exists
    /\ conn = Closed
    /\ \E o \in Openings(addr, create) :
        /\ addr' = o.addr
        /\ asked' = [asked EXCEPT !.written =
                @ \/ (IsIp(addr) /\ o.conn.kind \in {"plain", "tls", "listening"})]
        /\ Ending(Asking(asked, addr, create), o)
    /\ UNCHANGED exists

(***************************************************************************)
(* open(name, flags): what the name is taken for, as pairs of a host and a  *)
(* port, none when the name is refused.  A port after "//" is taken for a   *)
(* part of the host, which then resolves to nothing.                        *)
(***************************************************************************)
DefaultPort(n) == CASE n.scheme = "http" -> 80 [] n.scheme = "https" -> Https [] OTHER -> 0
Parsed(n) ==
    CASE n.port # 0 /\ n.scheme = "none" ->
            [host : {n.host}, port : IF n.service THEN ServicePorts(n.port) ELSE {n.port}]
      [] n.port # 0 /\ n.scheme # "none" -> {}
      [] n.port = 0 /\ n.scheme \in {"none", "slashes"} /\ n.host # NoHost /\ ~HasColons(n.host) -> {}
      [] OTHER -> [host : {n.host}, port : {DefaultPort(n)}]
WantedPort(n) == IF n.port # 0 THEN n.port ELSE DefaultPort(n)

(* With an empty name nColon is read uninitialised: substr throws for most of
   its values. *)
IsEmpty(n) == n.scheme = "none" /\ n.host = NoHost /\ n.port = 0

OpenName(n, create) ==
    /\ stopped = "no"
    /\ conn = Closed
    /\ \E goal \in Parsed(n) :
        \E r \in Resolved(Unresolved(goal.port, "tcp"), goal.host) :
            \E o \in Openings(r.addr, create) \union {Stopped(r.addr, "substr")} :
                /\ o.stops = "substr" => IsEmpty(n)
                /\ Ending(Asking(Wanted(n.host, WantedPort(n), n.service), r.addr, create), o)
    /\ UNCHANGED <<exists, addr, asked>>

(* close(): back to SSClosed, out of an IPv6 group first. *)
Close ==
    /\ stopped = "no"
    /\ conn # Closed
    /\ conn' = Closed
    /\ sought' = NoRequest
    /\ UNCHANGED <<exists, addr, asked, stopped>>

Next ==
    \/ \E h \in Hosts, pr \in Protocols : ConstructPort(h, pr)
    \/ \E h \in Hosts, pr \in Protocols : ConstructService(h, pr)
    \/ \E h \in Hosts : ResolveAgain(h)
    \/ Hostname
    \/ \E create \in BOOLEAN : Open(create)
    \/ \E n \in Names, create \in BOOLEAN : OpenName(n, create)
    \/ Close

Spec == Init /\ [][Next]_vars

------------------------------------------------------------------------------
(* Properties. *)

(***************************************************************************)
(* A connection goes to the host and the port the program asked for, also   *)
(* when its SocketAddr is used again after open() stored another port in    *)
(* it: address_ is what counts, and only what resolve() or a service name   *)
(* put there.  (A group's server is on any interface: JoinsGroup.  An       *)
(* address that did not resolve is served on any: OpensAsDocumented.)       *)
(***************************************************************************)
GoesWhereAsked ==
    conn # Closed /\ sought.goal.resolved # "late" /\ ~sought.goal.service =>
        /\ conn.to.port = sought.goal.port
        /\ conn.joined = NoHost /\ sought.address # "none" => conn.to.host = sought.goal.host

(***************************************************************************)
(* What is opened as a client is a TLS one exactly when the host has an     *)
(* address and port 443 was asked for, as a number, of a SocketAddr that no *)
(* earlier open has written into: the port is looked at in one of the two   *)
(* places it is kept, and connected to in the other.  (What modeCreate      *)
(* makes of port 443 is another question: OpensAsDocumented.)               *)
(***************************************************************************)
SecureByPort ==
    conn # Closed /\ ~sought.create /\ ~sought.goal.written /\ ~sought.goal.service =>
        (conn.kind = "tls" <=> conn.to.kind \in {"v4", "v6"} /\ sought.goal.port = Https)

(***************************************************************************)
(* The server of a datagram group asks for membership in that group, and a  *)
(* server of another address asks for none, when its SocketAddr was         *)
(* resolved once: the IPv6 group is found by the cached hostname(), the     *)
(* flag that it is one was set when the text was read.                      *)
(***************************************************************************)
IsGroup(h) == h.group /\ h.kind \in {"dotted", "colons"}
JoinsGroup ==
    conn.kind = "udpServer" /\ sought.goal.resolved = "once" =>
        conn.joined = IF IsGroup(sought.goal.host) THEN sought.goal.host ELSE NoHost

(***************************************************************************)
(* Opening a SocketAddr ends the program in two ways only, both of datagram *)
(* SocketAddrs that hold no address: one that did not resolve and is opened *)
(* without modeCreate, and one that was a group and was resolved again,     *)
(* because nothing takes back the flag.                                     *)
(***************************************************************************)
RunsOn ==
    stopped \in {"verify", "get"} =>
        /\ addr.protocol = "udp" /\ ~IsIp(addr)
        /\ stopped = "verify" => sought.address = "none" /\ ~sought.create
        /\ stopped = "get" => sought.goal.resolved # "once"

(***************************************************************************)
(* What the comment on Socket::open says of the SocketAddr it is given: one *)
(* that did not resolve leaves the Socket closed and open() returns, any    *)
(* address or modeCreate makes a server, everything else a client.          *)
(***************************************************************************)
OpensAsDocumented ==
    conn # Closed \/ stopped \in {"verify", "get"} =>
        /\ stopped = "no"
        /\ sought.address # "none"
        /\ conn.kind \in {"listening", "udpServer"} <=> sought.address = "any" \/ sought.create

==============================================================================
