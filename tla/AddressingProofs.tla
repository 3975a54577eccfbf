-------------------------- MODULE AddressingProofs --------------------------
(***************************************************************************)
(* Proofs about Addressing.  resolve() and open() are looked at once each,  *)
(* in the lemmas Resolving and Opening: what they may do to a SocketAddr    *)
(* and what connection comes out.  The invariants relate the copies of the  *)
(* port to the one the program asked for.                                   *)
(***************************************************************************)
EXTENDS Addressing, TLAPS

Connection == [kind : Kinds, to : AddrType, joined : Hosts]

(* Sixteen bits in the other order are sixteen bits. *)
LEMMA WordFacts == MaxWord \in Nat /\ {0, 80, Https} \subseteq Word
<1>1. MaxWord \in Nat /\ 443 <= MaxWord
    BY DEF MaxWord
<1>. QED BY <1>1 DEF Word, Https

LEMMA SwapType ==
    ASSUME NEW p \in Word
    PROVE  Swap(p) \in Word
<1>1. p \in Nat /\ p <= MaxWord
    BY WordFacts DEF Word
<1>2. p < 65536
    BY <1>1 DEF MaxWord
<1>3. p \div 256 \in Int /\ p \div 256 >= 0 /\ p \div 256 < 256
    BY <1>1, <1>2
<1>4. p % 256 \in Int /\ p % 256 >= 0 /\ p % 256 < 256
    BY <1>1
<1>5. ASSUME NEW q \in Int, NEW r \in Int, q >= 0, q < 256, r >= 0, r < 256
      PROVE  r * 256 + q \in Int /\ r * 256 + q >= 0 /\ r * 256 + q <= MaxWord
    BY <1>5 DEF MaxWord
<1>6. Swap(p) \in Int /\ Swap(p) >= 0 /\ Swap(p) <= MaxWord
    BY <1>3, <1>4, <1>5 DEF Swap
<1>. QED BY <1>6, WordFacts DEF Word

LEMMA SpecialType ==
    ASSUME NEW k \in {"none", "any"}
    PROVE  Special(k) \in AddrType /\ Special(k).kind = k /\ Special(k).host = NoHost
BY HostAssumption, WordFacts DEF Special, AddrType

LEMMA ClosedType == Closed \in Connection /\ Closed.kind = "closed"
BY SpecialType, HostAssumption DEF Closed, Connection, Kinds

(* What resolve() may leave of a SocketAddr. *)
LEMMA Resolving ==
    ASSUME NEW a \in SocketAddr, NEW h \in Hosts, NEW r \in Resolved(a, h)
    PROVE  /\ r.addr \in SocketAddr
           /\ r.addr.protocol = a.protocol
           /\ r.addr.portNumber = a.portNumber
           /\ \/ ~r.valid /\ r.addr.address = a.address /\ h # NoHost
              \/ ~r.valid /\ r.addr.address = Special("none") /\ h # NoHost
              \/ ~r.valid /\ r.addr.address = Special("any") /\ h = NoHost
              \/ /\ r.valid /\ h # NoHost
                 /\ IsIp(r.addr)
                 /\ r.addr.address.host = h
                 /\ r.addr.address.port = a.portNumber
<1>1. PICK f \in Families(h) :
        r = [valid |-> f \in {"v4", "v6"},
             addr |-> [a EXCEPT !.address = Becomes(a, h, f),
                                !.isMulticast = @ \/ Group(h, a.protocol)]]
    BY DEF Resolved
<1>2. /\ f \in {"old", "none", "any", "v4", "v6"}
      /\ f = "any" <=> h = NoHost
    <2>1. h \in Host /\ (h.kind = "empty" <=> h = NoHost)
        BY HostAssumption
    <2>. QED BY <2>1 DEF Families, Host
<1>3. /\ r.valid <=> f \in {"v4", "v6"}
      /\ r.addr = [a EXCEPT !.address = Becomes(a, h, f),
                            !.isMulticast = @ \/ Group(h, a.protocol)]
    BY <1>1
<1>4. /\ r.addr.protocol = a.protocol
      /\ r.addr.portNumber = a.portNumber
      /\ r.addr.address = Becomes(a, h, f)
    BY <1>3 DEF SocketAddr
<1>5. Becomes(a, h, f) \in AddrType
    BY <1>2, SpecialType DEF Becomes, SocketAddr, AddrType
<1>6. r.addr \in SocketAddr
    BY <1>3, <1>5 DEF SocketAddr, Group
<1>7. CASE f = "old"
    BY <1>2, <1>3, <1>4, <1>6, <1>7 DEF Becomes
<1>8. CASE f \in {"none", "any"}
    BY <1>2, <1>3, <1>4, <1>6, <1>8 DEF Becomes
<1>9. CASE f \in {"v4", "v6"}
    BY <1>2, <1>3, <1>4, <1>6, <1>9 DEF Becomes, IsIp
<1>. QED BY <1>2, <1>7, <1>8, <1>9

(* The address getSockAddr gives. *)
LEMMA TargetType ==
    ASSUME NEW a \in SocketAddr
    PROVE  /\ Target(a) \in AddrType
           /\ IsIp(a) => Target(a) = a.address
           /\ ~IsIp(a) => /\ Target(a).kind = "any"
                          /\ Target(a).host = NoHost
                          /\ Target(a).port = a.portNumber
BY SpecialType DEF Target, SocketAddr, AddrType

(* What open() may leave of a SocketAddr. *)
Reopened(a, b) ==
    /\ b \in SocketAddr
    /\ b.protocol = a.protocol
    /\ b.address = a.address
    /\ b.isMulticast = a.isMulticast

LEMMA WrittenType ==
    ASSUME NEW a \in SocketAddr, NEW p \in Word
    PROVE  /\ Reopened(a, Written(a, p))
           /\ ~IsIp(a) => Written(a, p) = a
BY SwapType DEF Written, Reopened, SocketAddr

LEMMA LookedUpType ==
    ASSUME NEW a \in SocketAddr
    PROVE  /\ Reopened(a, LookedUp(a))
           /\ LookedUp(a).portNumber = a.portNumber
           /\ a.address.kind = "v6" /\ LookedUp(a).hostName = NoHost => a.address.host = NoHost
BY DEF LookedUp, Reopened, SocketAddr, AddrType, IsIp

(* An outcome of open() for the SocketAddr a: where the connection goes, and
   when it is a TLS one. *)
OpenFrom(a, o) ==
    /\ Reopened(a, o.addr)
    /\ o.conn \in Connection
    /\ o.stops \in {"no"} \union Ends
    /\ o.addr.portNumber # a.portNumber =>
            IsIp(a) /\ o.conn.kind \in {"plain", "tls", "listening"}
    /\ o.conn # Closed =>
        /\ o.conn.to.port = Target(a).port
        /\ o.conn.joined = NoHost => o.conn.to.host = Target(a).host
        /\ o.conn.kind = "tls" <=> o.conn.to.kind \in {"v4", "v6"} /\ a.portNumber = Https
        /\ a.protocol = "tcp" => a.address.kind # "none"

LEMMA Leads ==
    ASSUME NEW a, NEW b, NEW c, Reopened(a, b), c \in Connection,
           b.portNumber # a.portNumber => IsIp(a) /\ c.kind \in {"plain", "tls", "listening"},
           c.to.port = Target(a).port,
           c.joined = NoHost => c.to.host = Target(a).host,
           c.kind = "tls" <=> c.to.kind \in {"v4", "v6"} /\ a.portNumber = Https,
           a.protocol = "tcp" => a.address.kind # "none"
    PROVE  OpenFrom(a, Outcome(c, b))
<1>1. /\ Outcome(c, b).conn = c
      /\ Outcome(c, b).addr = b
      /\ Outcome(c, b).stops = "no"
    BY DEF Outcome
<1>. QED BY <1>1 DEF OpenFrom

LEMMA FailedFrom ==
    ASSUME NEW a \in SocketAddr, NEW b, Reopened(a, b), b.portNumber = a.portNumber
    PROVE  OpenFrom(a, Failed(b)) /\ \A end \in Ends : OpenFrom(a, Stopped(b, end))
BY ClosedType DEF OpenFrom, Failed, Stopped, Outcome

LEMMA OpenedType ==
    ASSUME NEW k \in Kinds, NEW t \in AddrType, NEW g \in Hosts
    PROVE  /\ Opened(k, t, g) \in Connection
           /\ Opened(k, t, g).kind = k
           /\ Opened(k, t, g).to = t
           /\ Opened(k, t, g).joined = g
BY DEF Opened, Connection

LEMMA StreamsFrom ==
    ASSUME NEW a \in SocketAddr, a.address.kind # "none", NEW create \in BOOLEAN,
           NEW o \in Streams(a, create)
    PROVE  OpenFrom(a, o)
<1>. a.address \in AddrType /\ NoHost \in Hosts
    BY HostAssumption DEF SocketAddr
<1>1. CASE Serves(a, create)
    <2>1. PICK p \in Word : o = Outcome(Opened("listening", Target(a), NoHost), Written(a, p))
        BY <1>1, TargetType, PortAssumption DEF Streams, AddrType
    <2>. DEFINE c == Opened("listening", Target(a), NoHost)
    <2>2. c \in Connection /\ c.kind = "listening" /\ c.to = Target(a) /\ c.joined = NoHost
        BY TargetType, OpenedType DEF Kinds
    <2>3. ~(c.to.kind \in {"v4", "v6"} /\ a.portNumber = Https)
        BY <1>1, <2>2, TargetType DEF Serves, Secure, IsIp
    <2>4. /\ Reopened(a, Written(a, p))
          /\ Written(a, p).portNumber # a.portNumber => IsIp(a)
        BY WrittenType
    <2>. HIDE DEF c
    <2>5. OpenFrom(a, Outcome(c, Written(a, p)))
        BY <2>2, <2>3, <2>4, Leads
    <2>. QED BY <2>1, <2>5 DEF c
<1>2. CASE ~Serves(a, create)
    <2>. DEFINE k == IF Secure(a) THEN "tls" ELSE "plain"
    <2>. DEFINE c == Opened(k, a.address, NoHost)
    <2>1. PICK p \in Word : IsIp(a) /\ o = Outcome(c, Written(a, p))
        BY <1>2, PortAssumption DEF Streams
    <2>2. c \in Connection /\ c.kind = k /\ c.to = a.address /\ c.joined = NoHost
        BY OpenedType DEF Kinds
    <2>3. c.kind = "tls" <=> c.to.kind \in {"v4", "v6"} /\ a.portNumber = Https
        BY <2>1, <2>2 DEF Secure, IsIp
    <2>4. /\ c.kind \in {"plain", "tls"}
          /\ c.to = Target(a)
          /\ Reopened(a, Written(a, p))
        BY <2>1, <2>2, TargetType, WrittenType
    <2>. HIDE DEF c
    <2>5. OpenFrom(a, Outcome(c, Written(a, p)))
        BY <2>1, <2>2, <2>3, <2>4, Leads
    <2>. QED BY <2>1, <2>5
<1>. QED BY <1>1, <1>2

LEMMA GroupServerFrom ==
    ASSUME NEW a \in SocketAddr, ~Secure(a), a.protocol = "udp"
    PROVE  OpenFrom(a, GroupServer(a))
<1>. a.address \in AddrType
    BY DEF SocketAddr
<1>. DEFINE b == LookedUp(a)
<1>0. /\ Reopened(a, b) /\ b.portNumber = a.portNumber
      /\ b.hostName \in Hosts
    BY LookedUpType DEF Reopened, SocketAddr
<1>1. ASSUME NEW d, Reopened(a, d), d.portNumber = a.portNumber, NEW g \in Hosts,
             IsIp(a), g = NoHost => a.address.host = NoHost
      PROVE  OpenFrom(a, Outcome(Opened("udpServer", AnyOf(a.address), g), d))
    <2>. DEFINE c == Opened("udpServer", AnyOf(a.address), g)
    <2>1. /\ AnyOf(a.address) \in AddrType
          /\ AnyOf(a.address).kind = "any"
          /\ AnyOf(a.address).host = NoHost
          /\ AnyOf(a.address).port = a.address.port
        BY HostAssumption DEF AnyOf, AddrType
    <2>2. /\ c \in Connection /\ c.kind = "udpServer"
          /\ c.to = AnyOf(a.address) /\ c.joined = g
        BY <1>1, <2>1, OpenedType DEF Kinds
    <2>3. /\ c.to.port = Target(a).port
          /\ c.joined = NoHost => c.to.host = Target(a).host
          /\ c.to.kind \notin {"v4", "v6"}
        BY <1>1, <2>1, <2>2, TargetType
    <2>. HIDE DEF c
    <2>4. OpenFrom(a, Outcome(c, d))
        BY <1>1, <2>2, <2>3, Leads
    <2>. QED BY <2>4 DEF c
<1>2. CASE a.address.kind = "v4"
    <2>1. a.address.host \in Hosts /\ Reopened(a, a) /\ IsIp(a)
        BY <1>2 DEF AddrType, Reopened, IsIp
    <2>2. GroupServer(a) =
            Outcome(Opened("udpServer", AnyOf(a.address), a.address.host), a)
        BY <1>2 DEF GroupServer
    <2>. QED BY <1>1, <2>1, <2>2
<1>3. CASE a.address.kind = "v6"
    <2>1. b.address = a.address
        BY <1>0 DEF Reopened
    <2>2. OpenFrom(a, Outcome(Opened("udpServer", AnyOf(a.address), b.hostName), b))
        BY <1>0, <1>1, <1>3, LookedUpType DEF IsIp
    <2>3. GroupServer(a) = IF b.hostName.named THEN Failed(b)
                           ELSE Outcome(Opened("udpServer", AnyOf(b.address), b.hostName), b)
        BY <1>3 DEF GroupServer
    <2>. QED BY <1>0, <2>1, <2>2, <2>3, FailedFrom
<1>4. CASE a.address.kind \notin {"v4", "v6"}
    BY <1>4, FailedFrom DEF GroupServer, Reopened, Ends
<1>. QED BY <1>2, <1>3, <1>4

LEMMA DatagramsFrom ==
    ASSUME NEW a \in SocketAddr, a.protocol = "udp", NEW create \in BOOLEAN,
           NEW o \in Datagrams(a, create)
    PROVE  OpenFrom(a, o)
<1>. a.address \in AddrType
    BY DEF SocketAddr
<1>0. ~Secure(a)
    BY DEF Datagrams
<1>1. ASSUME NEW t \in AddrType, t = Target(a), NEW k \in {"udpServer", "udpClient"}
      PROVE  OpenFrom(a, Outcome(Opened(k, t, NoHost), a))
    <2>. DEFINE c == Opened(k, t, NoHost)
    <2>1. c \in Connection /\ c.kind = k /\ c.to = t /\ c.joined = NoHost
        BY HostAssumption, OpenedType DEF Kinds
    <2>2. ~(c.to.kind \in {"v4", "v6"} /\ a.portNumber = Https)
        BY <1>0, <1>1, <2>1, TargetType DEF Secure, IsIp
    <2>3. Reopened(a, a)
        BY DEF Reopened
    <2>. HIDE DEF c
    <2>4. OpenFrom(a, Outcome(c, a))
        BY <1>1, <2>1, <2>2, <2>3, Leads
    <2>. QED BY <2>4 DEF c
<1>2. CASE Serves(a, create)
    <2>1. o = IF a.isMulticast THEN GroupServer(a)
              ELSE Outcome(Opened("udpServer", Target(a), NoHost), a)
        BY <1>0, <1>2 DEF Datagrams
    <2>. QED BY <1>0, <1>1, <2>1, TargetType, GroupServerFrom
<1>3. CASE ~Serves(a, create) /\ IsIp(a)
    <2>1. o = Outcome(Opened("udpClient", a.address, NoHost), a)
        BY <1>0, <1>3 DEF Datagrams
    <2>. QED BY <1>1, <1>3, <2>1, TargetType
<1>4. CASE ~Serves(a, create) /\ ~IsIp(a)
    <2>1. o = Stopped(a, "verify")
        BY <1>0, <1>4 DEF Datagrams
    <2>. QED BY <2>1, FailedFrom DEF Reopened, Ends
<1>. QED BY <1>2, <1>3, <1>4

LEMMA Opening ==
    ASSUME NEW a \in SocketAddr, NEW create \in BOOLEAN, NEW o \in Openings(a, create)
    PROVE  OpenFrom(a, o)
<1>1. OpenFrom(a, Failed(a))
    BY FailedFrom DEF Reopened
<1>2. a.protocol \in {"tcp", "udp"}
    BY DEF SocketAddr, Protocols
<1>. QED BY <1>1, <1>2, StreamsFrom, DatagramsFrom DEF Openings

LEMMA UnresolvedType ==
    ASSUME NEW p \in Word, NEW pr \in Protocols
    PROVE  /\ Unresolved(p, pr) \in SocketAddr
           /\ Unresolved(p, pr).protocol = pr
           /\ Unresolved(p, pr).portNumber = p
           /\ Unresolved(p, pr).address = Special("none")
BY SpecialType, HostAssumption DEF Unresolved, SocketAddr

(* What a construction and an open are asked for. *)
LEMMA WantedType ==
    ASSUME NEW h \in Hosts, NEW p \in Word, NEW v \in BOOLEAN
    PROVE  /\ Wanted(h, p, v) \in Goal
           /\ Wanted(h, p, v).host = h /\ Wanted(h, p, v).port = p
           /\ Wanted(h, p, v).service = v /\ Wanted(h, p, v).written = FALSE
           /\ Wanted(h, p, v).resolved = "once"
BY DEF Wanted, Goal

LEMMA AskingType ==
    ASSUME NEW g \in Goal, NEW a \in SocketAddr, NEW create \in BOOLEAN
    PROVE  /\ Asking(g, a, create) \in Request
           /\ Asking(g, a, create).goal = g
           /\ Asking(g, a, create).address = a.address.kind
           /\ Asking(g, a, create).create = create
BY DEF Asking, Request, SocketAddr, AddrType

LEMMA NoRequestType == NoRequest \in Request /\ NoRequest.goal = Wanted(NoHost, 0, FALSE)
BY WantedType, HostAssumption, WordFacts DEF NoRequest, Request

(* The port a name asks for is the one its SocketAddr gets, unless it is the
   name of a service. *)
LEMMA ParsedAs ==
    ASSUME NEW n \in Names, NEW goal \in Parsed(n)
    PROVE  /\ goal.host = n.host /\ n.host \in Hosts /\ n.service \in BOOLEAN
           /\ goal.port \in Word /\ WantedPort(n) \in Word
           /\ ~n.service => goal.port = WantedPort(n)
<1>1. /\ n.host \in Hosts
      /\ n.port \in Word
      /\ n.service \in BOOLEAN
      /\ n.scheme \in {"none", "slashes", "http", "https"}
    BY NameAssumption DEF Name
<1>2. DefaultPort(n) \in Word
    BY <1>1, WordFacts DEF DefaultPort
<1>3. ServicePorts(n.port) \subseteq Word
    BY <1>1, SwapType, WordFacts DEF ServicePorts
<1>4. CASE n.port # 0
    BY <1>1, <1>2, <1>3, <1>4 DEF Parsed, WantedPort
<1>5. CASE n.port = 0
    <2>1. goal \in [host : {n.host}, port : {DefaultPort(n)}]
        BY <1>5 DEF Parsed
    <2>. QED BY <2>1, <1>1, <1>2, <1>5 DEF WantedPort
<1>. QED BY <1>4, <1>5

------------------------------------------------------------------------------
(* The copies of the port and the host agree with what the program asked for:
   portNumber until open() writes into it, address_ until resolve() reads it
   again after that. *)
Agrees(a, g) ==
    /\ IsIp(a) => a.address.host = g.host /\ a.address.port = g.port
    /\ ~IsIp(a) => a.portNumber = g.port
    /\ a.address.kind = "any" => g.host = NoHost

AsAsked ==
    /\ asked.resolved = "late" => asked.written
    /\ ~asked.service =>
        /\ ~asked.written => addr.portNumber = asked.port
        /\ asked.resolved # "late" => Agrees(addr, asked)

AddressInv == TypeOK /\ AsAsked /\ GoesWhereAsked /\ SecureByPort

LEMMA Reaches ==
    ASSUME NEW a \in SocketAddr, NEW g, NEW o, Agrees(a, g), OpenFrom(a, o),
           o.conn # Closed
    PROVE  /\ o.conn.to.port = g.port
           /\ o.conn.joined = NoHost /\ a.address.kind # "none" => o.conn.to.host = g.host
<1>1. a.address.kind \in {"none", "any", "v4", "v6"}
    BY DEF SocketAddr, AddrType
<1>2. CASE IsIp(a)
    BY <1>2, TargetType DEF OpenFrom, Agrees
<1>3. CASE ~IsIp(a)
    <2>1. a.address.kind \in {"none", "any"}
        BY <1>1, <1>3 DEF IsIp
    <2>. QED BY <1>3, <2>1, TargetType DEF OpenFrom, Agrees
<1>. QED BY <1>2, <1>3

(* A SocketAddr that resolve() has just read agrees with the host it was given. *)
LEMMA ResolvedAgrees ==
    ASSUME NEW a \in SocketAddr, NEW h \in Hosts, NEW r \in Resolved(a, h),
           NEW g, g.host = h, g.port = a.portNumber,
           r.valid \/ r.addr.address # a.address \/ (~IsIp(a) /\ a.address.kind # "any")
    PROVE  Agrees(r.addr, g)
<1>0. r.addr.portNumber = a.portNumber
    BY Resolving
<1>1. CASE r.valid
    BY <1>1, Resolving DEF Agrees, IsIp
<1>2. CASE ~r.valid
    BY <1>0, <1>2, Resolving, SpecialType DEF Agrees, IsIp
<1>. QED BY <1>1, <1>2

LEMMA InitInv == Init => AddressInv
<1>. SUFFICES ASSUME Init PROVE AddressInv
    OBVIOUS
<1>. USE HostAssumption
<1>1. addr \in SocketAddr /\ addr.portNumber = 0 /\ addr.address = Special("none")
    BY UnresolvedType, WordFacts DEF Init, Protocols
<1>2. /\ sought \in Request /\ asked \in Goal /\ asked = Wanted(NoHost, 0, FALSE)
    BY NoRequestType DEF Init, Request
<1>3. TypeOK
    <2>1. exists \in BOOLEAN /\ conn \in Connection /\ stopped \in {"no"} \union Ends
        BY ClosedType DEF Init
    <2>. QED BY <1>1, <1>2, <2>1 DEF TypeOK, Connection
<1>4. AsAsked
    <2>1. asked.resolved = "once" /\ asked.port = 0
        BY <1>2 DEF Wanted
    <2>2. ~IsIp(addr) /\ addr.address.kind # "any"
        BY <1>1, SpecialType DEF IsIp
    <2>. QED BY <1>1, <2>1, <2>2 DEF AsAsked, Agrees
<1>. QED BY <1>3, <1>4 DEF AddressInv, Init, GoesWhereAsked, SecureByPort

LEMMA ConstructInv ==
    ASSUME AddressInv, NEW h \in Hosts, NEW p \in Word, NEW pr \in Protocols,
           NEW q \in Word, NEW v \in BOOLEAN, p = q \/ v,
           Construct(h, p, pr, Wanted(h, q, v))
    PROVE  AddressInv'
<1>1. PICK r \in Resolved(Unresolved(p, pr), h) : addr' = r.addr
    BY DEF Construct
<1>2. /\ Unresolved(p, pr) \in SocketAddr
      /\ Unresolved(p, pr).portNumber = p
      /\ Unresolved(p, pr).address = Special("none")
    BY UnresolvedType
<1>3. addr' \in SocketAddr /\ addr'.portNumber = p
    BY <1>1, <1>2, Resolving
<1>4. PICK g : g = Wanted(h, q, v)
    OBVIOUS
<1>. /\ g \in Goal /\ g = asked' /\ g.host = h /\ g.port = q
     /\ g.service = v /\ g.written = FALSE /\ g.resolved = "once"
    BY <1>4 DEF Wanted, Goal, Construct
<1>5. TypeOK'
    BY <1>3, <1>4 DEF AddressInv, TypeOK, Construct
<1>6. p = q => Agrees(addr', g)
    <2>1. ~IsIp(Unresolved(p, pr)) /\ Unresolved(p, pr).address.kind = "none"
        BY <1>2, SpecialType DEF IsIp
    <2>. QED BY <1>1, <1>2, <1>4, <2>1, ResolvedAgrees
<1>7. AsAsked'
    BY <1>3, <1>4, <1>6 DEF AsAsked, Agrees, IsIp
<1>. QED BY <1>5, <1>7 DEF AddressInv, Construct, GoesWhereAsked, SecureByPort

LEMMA ResolveAgainInv ==
    ASSUME AddressInv, NEW h \in Hosts, ResolveAgain(h)
    PROVE  AddressInv'
<1>0. addr \in SocketAddr /\ asked \in Goal
    BY DEF AddressInv, TypeOK
<1>1. PICK r \in Resolved(addr, h) :
        /\ addr' = r.addr
        /\ asked' = [asked EXCEPT !.host = IF r.valid \/ h = NoHost THEN h ELSE asked.host,
                                  !.resolved = IF asked.written THEN "late" ELSE "again"]
    BY DEF ResolveAgain
<1>2. addr' \in SocketAddr /\ addr'.portNumber = addr.portNumber
    BY <1>0, <1>1, Resolving
<1>3. PICK g \in Goal :
        /\ g = asked'
        /\ g.host = IF r.valid \/ h = NoHost THEN h ELSE asked.host
        /\ g.port = asked.port /\ g.service = asked.service /\ g.written = asked.written
        /\ g.resolved = IF asked.written THEN "late" ELSE "again"
    <2>. DEFINE i == IF r.valid \/ h = NoHost THEN h ELSE asked.host
                k == IF asked.written THEN "late" ELSE "again"
    <2>1. i \in Hosts /\ k \in {"once", "again", "late"}
        BY <1>0 DEF Goal
    <2>2. asked' = [asked EXCEPT !.host = i, !.resolved = k]
        BY <1>1
    <2>. HIDE DEF i, k
    <2>3. /\ asked' \in Goal /\ asked'.host = i /\ asked'.resolved = k
          /\ asked'.port = asked.port /\ asked'.service = asked.service
          /\ asked'.written = asked.written
        BY <1>0, <2>1, <2>2 DEF Goal
    <2>. QED BY <2>3 DEF i, k
<1>4. TypeOK'
    BY <1>2, <1>3 DEF AddressInv, TypeOK, ResolveAgain
<1>5. ASSUME ~asked.service, ~asked.written
      PROVE  Agrees(addr', g)
    <2>1. addr.portNumber = asked.port /\ Agrees(addr, asked)
        BY <1>5 DEF AddressInv, AsAsked
    <2>2. CASE r.valid \/ h = NoHost
        <3>1. g.host = h
            BY <1>3, <2>2
        <3>2. CASE r.valid
            <4>1. g.port = addr.portNumber
                BY <1>3, <2>1
            <4>. QED BY <1>0, <1>1, <3>1, <3>2, <4>1, ResolvedAgrees
        <3>3. CASE ~r.valid
            <4>1. addr'.address = Special("any")
                BY <1>0, <1>1, <2>2, <3>3, Resolving
            <4>. QED BY <1>2, <1>3, <2>1, <2>2, <3>1, <3>3, <4>1, SpecialType DEF Agrees, IsIp
        <3>. QED BY <3>2, <3>3
    <2>3. CASE ~(r.valid \/ h = NoHost)
        <3>1. /\ g.host = asked.host
              /\ addr'.address = addr.address \/ addr'.address = Special("none")
            BY <1>0, <1>1, <1>3, <2>3, Resolving
        <3>. QED BY <1>2, <1>3, <2>1, <3>1, SpecialType DEF Agrees, IsIp
    <2>. QED BY <2>2, <2>3
<1>6. AsAsked'
    BY <1>2, <1>3, <1>5 DEF AsAsked, AddressInv, Agrees, IsIp
<1>7. GoesWhereAsked' /\ SecureByPort'
    BY DEF ResolveAgain, AddressInv, GoesWhereAsked, SecureByPort
<1>. QED BY <1>4, <1>6, <1>7 DEF AddressInv

LEMMA HostnameInv ==
    ASSUME AddressInv, Hostname
    PROVE  AddressInv'
<1>0. addr \in SocketAddr /\ addr' = LookedUp(addr)
    BY DEF AddressInv, TypeOK, Hostname
<1>1. addr' \in SocketAddr /\ addr'.address = addr.address /\ addr'.portNumber = addr.portNumber
    BY <1>0, LookedUpType DEF Reopened
<1>2. TypeOK'
    BY <1>1 DEF AddressInv, TypeOK, Hostname
<1>3. AsAsked'
    BY <1>1 DEF AddressInv, Hostname, AsAsked, Agrees, IsIp
<1>4. GoesWhereAsked' /\ SecureByPort'
    BY DEF Hostname, AddressInv, GoesWhereAsked, SecureByPort
<1>. QED BY <1>2, <1>3, <1>4 DEF AddressInv

LEMMA OpenInv ==
    ASSUME AddressInv, NEW create \in BOOLEAN, Open(create)
    PROVE  AddressInv'
<1>0. addr \in SocketAddr /\ asked \in Goal /\ sought \in Request
    BY DEF AddressInv, TypeOK
<1>. PICK request \in Request :
        /\ request = Asking(asked, addr, create) /\ request.goal = asked
        /\ request.address = addr.address.kind /\ request.create = create
    BY <1>0, AskingType
<1>1. PICK o \in Openings(addr, create) :
        /\ addr' = o.addr
        /\ asked' = [asked EXCEPT !.written =
                @ \/ (IsIp(addr) /\ o.conn.kind \in {"plain", "tls", "listening"})]
        /\ conn' = o.conn
        /\ stopped' = o.stops
        /\ sought' = IF o.conn = Closed /\ o.stops = "no" THEN sought ELSE request
    BY DEF Open, Ending
<1>2. OpenFrom(addr, o)
    BY <1>0, Opening
<1>3. PICK g \in Goal :
        /\ g = asked'
        /\ g.host = asked.host /\ g.port = asked.port /\ g.service = asked.service
        /\ g.resolved = asked.resolved
        /\ g.written <=> asked.written \/ (IsIp(addr) /\ o.conn.kind \in {"plain", "tls", "listening"})
    <2>. DEFINE w == asked.written \/ (IsIp(addr) /\ o.conn.kind \in {"plain", "tls", "listening"})
    <2>1. w \in BOOLEAN
        OBVIOUS
    <2>2. asked' = [asked EXCEPT !.written = w]
        BY <1>1
    <2>. HIDE DEF w
    <2>3. /\ asked' \in Goal /\ asked'.host = asked.host /\ asked'.port = asked.port
          /\ asked'.service = asked.service /\ asked'.resolved = asked.resolved
          /\ asked'.written = w
        BY <1>0, <2>1, <2>2 DEF Goal
    <2>. QED BY <2>3 DEF w
<1>4. TypeOK'
    <2>1. addr' \in SocketAddr /\ conn' \in Connection /\ stopped' \in {"no"} \union Ends
        BY <1>1, <1>2 DEF OpenFrom, Reopened
    <2>2. asked' \in Goal /\ sought' \in Request
        BY <1>0, <1>1, <1>3
    <2>. QED BY <2>1, <2>2 DEF AddressInv, TypeOK, Connection, Open
<1>5. addr'.address = addr.address /\ (~IsIp(addr) => addr'.portNumber = addr.portNumber)
    BY <1>1, <1>2 DEF OpenFrom, Reopened
<1>6. ~g.written => ~asked.written /\ addr'.portNumber = addr.portNumber
    BY <1>1, <1>2, <1>3 DEF OpenFrom
<1>7. AsAsked'
    <2>1. ASSUME Agrees(addr, asked) PROVE Agrees(addr', g)
        BY <1>3, <1>5, <2>1 DEF Agrees, IsIp
    <2>. QED BY <1>3, <1>6, <2>1 DEF AddressInv, AsAsked, Agrees, IsIp
<1>8. GoesWhereAsked'
    <2>. SUFFICES ASSUME conn' # Closed, sought'.goal.resolved # "late", ~sought'.goal.service
                  PROVE  /\ conn'.to.port = sought'.goal.port
                         /\ conn'.joined = NoHost /\ sought'.address # "none"
                                => conn'.to.host = sought'.goal.host
        BY DEF GoesWhereAsked
    <2>1. sought' = request
        BY <1>1
    <2>2. Agrees(addr, asked)
        BY <2>1 DEF AddressInv, AsAsked
    <2>. QED BY <1>0, <1>1, <1>2, <2>1, <2>2, Reaches
<1>9. SecureByPort'
    <2>. SUFFICES ASSUME conn' # Closed, ~sought'.goal.written, ~sought'.goal.service
                  PROVE  conn'.kind = "tls" <=>
                            conn'.to.kind \in {"v4", "v6"} /\ sought'.goal.port = Https
        BY DEF SecureByPort
    <2>1. sought' = request
        BY <1>1
    <2>2. addr.portNumber = asked.port
        BY <2>1 DEF AddressInv, AsAsked
    <2>. QED BY <1>1, <1>2, <2>1, <2>2 DEF OpenFrom
<1>. QED BY <1>4, <1>7, <1>8, <1>9 DEF AddressInv

(* What open(name) takes a name for. *)
LEMMA OpeningName ==
    ASSUME NEW n \in Names, NEW create \in BOOLEAN, OpenName(n, create)
    PROVE  \E goal \in Parsed(n) :
             \E r \in Resolved(Unresolved(goal.port, "tcp"), n.host) :
               \E o \in Openings(r.addr, create) \union {Stopped(r.addr, "substr")},
                  request \in Request :
                /\ r.addr \in SocketAddr /\ r.addr.protocol = "tcp"
                /\ r.addr.portNumber = goal.port
                /\ OpenFrom(r.addr, o)
                /\ request.goal = Wanted(n.host, WantedPort(n), n.service)
                /\ request.address = r.addr.address.kind
                /\ conn' = o.conn
                /\ stopped' = o.stops
                /\ sought' = IF o.conn = Closed /\ o.stops = "no" THEN sought ELSE request
<1>1. PICK goal \in Parsed(n) :
        \E r \in Resolved(Unresolved(goal.port, "tcp"), goal.host) :
            \E o \in Openings(r.addr, create) \union {Stopped(r.addr, "substr")} :
                Ending(Asking(Wanted(n.host, WantedPort(n), n.service), r.addr, create), o)
    BY DEF OpenName
<1>2. /\ goal.host = n.host /\ n.host \in Hosts
      /\ Unresolved(goal.port, "tcp") \in SocketAddr
      /\ Unresolved(goal.port, "tcp").protocol = "tcp"
      /\ Unresolved(goal.port, "tcp").portNumber = goal.port
    BY ParsedAs, UnresolvedType DEF Protocols
<1>3. PICK r \in Resolved(Unresolved(goal.port, "tcp"), n.host) :
        \E o \in Openings(r.addr, create) \union {Stopped(r.addr, "substr")} :
            Ending(Asking(Wanted(n.host, WantedPort(n), n.service), r.addr, create), o)
    BY <1>1, <1>2
<1>4. r.addr \in SocketAddr /\ r.addr.protocol = "tcp" /\ r.addr.portNumber = goal.port
    BY <1>2, <1>3, Resolving
<1>5. PICK o \in Openings(r.addr, create) \union {Stopped(r.addr, "substr")} :
        Ending(Asking(Wanted(n.host, WantedPort(n), n.service), r.addr, create), o)
    BY <1>3
<1>6. OpenFrom(r.addr, o)
    <2>1. OpenFrom(r.addr, Stopped(r.addr, "substr"))
        BY <1>4, FailedFrom DEF Reopened, Ends
    <2>. QED BY <1>4, <1>5, <2>1, Opening
<1>7. PICK request \in Request :
        /\ request = Asking(Wanted(n.host, WantedPort(n), n.service), r.addr, create)
        /\ request.goal = Wanted(n.host, WantedPort(n), n.service)
        /\ request.address = r.addr.address.kind
    <2>1. Wanted(n.host, WantedPort(n), n.service) \in Goal
        BY ParsedAs, WantedType
    <2>. QED BY <1>4, <2>1, AskingType
<1>8. /\ conn' = o.conn
      /\ stopped' = o.stops
      /\ sought' = IF o.conn = Closed /\ o.stops = "no" THEN sought ELSE request
    BY <1>5, <1>7 DEF Ending
<1>. QED BY <1>3, <1>4, <1>5, <1>6, <1>7, <1>8

LEMMA OpenNameInv ==
    ASSUME AddressInv, NEW n \in Names, NEW create \in BOOLEAN, OpenName(n, create)
    PROVE  AddressInv'
<1>0. PICK goal \in Parsed(n) :
        \E r \in Resolved(Unresolved(goal.port, "tcp"), n.host) :
          \E o \in Openings(r.addr, create) \union {Stopped(r.addr, "substr")},
             request \in Request :
            /\ r.addr \in SocketAddr /\ r.addr.protocol = "tcp"
            /\ r.addr.portNumber = goal.port
            /\ OpenFrom(r.addr, o)
            /\ request.goal = Wanted(n.host, WantedPort(n), n.service)
            /\ request.address = r.addr.address.kind
            /\ conn' = o.conn
            /\ stopped' = o.stops
            /\ sought' = IF o.conn = Closed /\ o.stops = "no" THEN sought ELSE request
    BY OpeningName
<1>1. PICK r \in Resolved(Unresolved(goal.port, "tcp"), n.host) :
        \E o \in Openings(r.addr, create) \union {Stopped(r.addr, "substr")},
           request \in Request :
            /\ r.addr \in SocketAddr /\ r.addr.protocol = "tcp"
            /\ r.addr.portNumber = goal.port
            /\ OpenFrom(r.addr, o)
            /\ request.goal = Wanted(n.host, WantedPort(n), n.service)
            /\ request.address = r.addr.address.kind
            /\ conn' = o.conn
            /\ stopped' = o.stops
            /\ sought' = IF o.conn = Closed /\ o.stops = "no" THEN sought ELSE request
    BY <1>0
<1>2. PICK o \in Openings(r.addr, create) \union {Stopped(r.addr, "substr")},
           request \in Request :
            /\ r.addr \in SocketAddr /\ r.addr.protocol = "tcp"
            /\ r.addr.portNumber = goal.port
            /\ OpenFrom(r.addr, o)
            /\ request.goal = Wanted(n.host, WantedPort(n), n.service)
            /\ request.address = r.addr.address.kind
            /\ conn' = o.conn
            /\ stopped' = o.stops
            /\ sought' = IF o.conn = Closed /\ o.stops = "no" THEN sought ELSE request
    BY <1>1
<1>3. PICK g \in Goal :
        /\ g = request.goal /\ g.host = n.host /\ g.port = WantedPort(n)
        /\ g.service = n.service
    <2>1. n.host \in Hosts /\ WantedPort(n) \in Word /\ n.service \in BOOLEAN
        BY ParsedAs
    <2>2. request.goal \in Goal /\ request.goal = Wanted(n.host, WantedPort(n), n.service)
        BY <1>2 DEF Request
    <2>. QED BY <2>2 DEF Wanted
<1>4. UNCHANGED <<exists, addr, asked>>
    BY DEF OpenName
<1>5. TypeOK'
    <2>1. conn' \in Connection /\ stopped' \in {"no"} \union Ends
        BY <1>2 DEF OpenFrom
    <2>2. sought' \in Request
        BY <1>2 DEF AddressInv, TypeOK
    <2>. QED BY <1>4, <2>1, <2>2 DEF AddressInv, TypeOK, Connection
<1>6. AsAsked'
    BY <1>4 DEF AddressInv, AsAsked, Agrees, IsIp
<1>7. GoesWhereAsked'
    <2>. SUFFICES ASSUME conn' # Closed, ~sought'.goal.service
                  PROVE  /\ conn'.to.port = sought'.goal.port
                         /\ conn'.joined = NoHost /\ sought'.address # "none"
                                => conn'.to.host = sought'.goal.host
        BY DEF GoesWhereAsked
    <2>1. sought' = request /\ o.conn # Closed
        BY <1>2
    <2>2. g.port = goal.port /\ goal.port \in Word
        BY <1>3, <2>1, ParsedAs
    <2>3. Agrees(r.addr, g)
        <3>. DEFINE u == Unresolved(goal.port, "tcp")
        <3>1. /\ u \in SocketAddr /\ u.portNumber = goal.port
              /\ u.address = Special("none") /\ ~IsIp(u) /\ u.address.kind # "any"
            BY <2>2, UnresolvedType, SpecialType DEF Protocols, IsIp
        <3>2. r \in Resolved(u, n.host) /\ n.host \in Hosts
            BY <1>1, ParsedAs
        <3>. HIDE DEF u
        <3>. QED BY <1>3, <2>2, <3>1, <3>2, ResolvedAgrees
    <2>. QED BY <1>2, <1>3, <2>1, <2>3, Reaches
<1>8. SecureByPort'
    <2>. SUFFICES ASSUME conn' # Closed, ~sought'.goal.service
                  PROVE  conn'.kind = "tls" <=>
                            conn'.to.kind \in {"v4", "v6"} /\ sought'.goal.port = Https
        BY DEF SecureByPort
    <2>1. sought' = request
        BY <1>2
    <2>2. g.port = goal.port
        BY <1>3, <2>1, ParsedAs
    <2>. QED BY <1>2, <1>3, <2>1, <2>2 DEF OpenFrom
<1>. QED BY <1>5, <1>6, <1>7, <1>8 DEF AddressInv

LEMMA CloseInv ==
    ASSUME AddressInv, Close
    PROVE  AddressInv'
<1>1. TypeOK'
    BY ClosedType, NoRequestType DEF AddressInv, TypeOK, Close, Connection
<1>. QED BY <1>1
    DEF AddressInv, Close, AsAsked, Agrees, IsIp, GoesWhereAsked, SecureByPort

LEMMA ConstructsFrom ==
    ASSUME NEW h \in Hosts, NEW pr \in Protocols,
           ConstructPort(h, pr) \/ ConstructService(h, pr)
    PROVE  \E p \in Word, q \in Word, v \in BOOLEAN :
                (p = q \/ v) /\ Construct(h, p, pr, Wanted(h, q, v))
<1>1. CASE ConstructPort(h, pr)
    <2>1. PICK p \in Ports : Construct(h, p, pr, Wanted(h, p, FALSE))
        BY <1>1 DEF ConstructPort
    <2>. QED BY <2>1, PortAssumption
<1>2. CASE ConstructService(h, pr)
    <2>0. PICK s \in Services : \E p \in ServicePorts(s) : Construct(h, p, pr, Wanted(h, s, TRUE))
        BY <1>2 DEF ConstructService
    <2>1. PICK p \in ServicePorts(s) : Construct(h, p, pr, Wanted(h, s, TRUE))
        BY <2>0
    <2>2. s \in Word /\ p \in Word
        BY <2>1, PortAssumption, SwapType, WordFacts DEF ServicePorts
    <2>. QED BY <2>1, <2>2
<1>. QED BY <1>1, <1>2

LEMMA StepInv ==
    ASSUME AddressInv, [Next]_vars
    PROVE  AddressInv'
<1>1. ASSUME NEW h \in Hosts, NEW pr \in Protocols,
             ConstructPort(h, pr) \/ ConstructService(h, pr)
      PROVE  AddressInv'
    BY <1>1, ConstructsFrom, ConstructInv
<1>2. CASE UNCHANGED vars
    BY <1>2 DEF vars, AddressInv, TypeOK, AsAsked, Agrees, IsIp, GoesWhereAsked, SecureByPort
<1>. QED BY <1>1, <1>2, ResolveAgainInv, HostnameInv, OpenInv, OpenNameInv, CloseInv
         DEF Next

(* The ports and hosts that resolve() and open() copy between a SocketAddr and
   its connections stay as AddressInv says. *)
THEOREM InvHolds == Spec => []AddressInv
<1>. QED BY InitInv, StepInv, PTL DEF Spec

(* Ports stay sixteen bits through every change of byte order, in portNumber,
   in address_ and in the connections made of them. *)
THEOREM TypeCorrect == Spec => []TypeOK
<1>1. AddressInv => TypeOK
    BY DEF AddressInv
<1>. QED BY <1>1, InvHolds, PTL

(* Socket::open connects and binds to the host and the port the program asked
   the SocketAddr for, whatever open() wrote into its portNumber before. *)
THEOREM GoesWhereAskedHolds == Spec => []GoesWhereAsked
<1>1. AddressInv => GoesWhereAsked
    BY DEF AddressInv
<1>. QED BY <1>1, InvHolds, PTL

(* Without modeCreate Socket::open takes TLS for port 443 of an address that no
   open has written into, and for nothing else. *)
THEOREM SecureByPortHolds == Spec => []SecureByPort
<1>1. AddressInv => SecureByPort
    BY DEF AddressInv
<1>. QED BY <1>1, InvHolds, PTL

------------------------------------------------------------------------------
(***************************************************************************)
(* Groups.  A SocketAddr that was resolved once holds one host: in          *)
(* address_, in the cached name, and in the flag that it is a group.        *)
(***************************************************************************)
MadeFrom(a, h) ==
    /\ IsIp(a) => a.address.host = h
    /\ a.isMulticast <=> (a.protocol = "udp" /\ IsGroup(h))
    /\ h.kind \in {"dotted", "colons"} => IsIp(a)
    /\ a.hostName # NoHost => a.hostName = h

GroupInv ==
    /\ AddressInv
    /\ exists /\ asked.resolved = "once" => MadeFrom(addr, asked.host)
    /\ JoinsGroup
    /\ RunsOn

(* What the constructors resolve. *)
LEMMA ResolvedFrom ==
    ASSUME NEW p \in Word, NEW pr \in Protocols, NEW h \in Hosts,
           NEW r \in Resolved(Unresolved(p, pr), h)
    PROVE  MadeFrom(r.addr, h)
<1>. DEFINE u == Unresolved(p, pr)
<1>1. /\ u \in SocketAddr /\ u.protocol = pr /\ u.isMulticast = FALSE
      /\ u.hostName = NoHost /\ u.address = Special("none")
    BY UnresolvedType DEF Unresolved
<1>. HIDE DEF u
<1>2. r \in Resolved(u, h)
    BY DEF u
<1>3. PICK f \in Families(h) :
        r = [valid |-> f \in {"v4", "v6"},
             addr |-> [u EXCEPT !.address = Becomes(u, h, f),
                                !.isMulticast = @ \/ Group(h, u.protocol)]]
    BY <1>2 DEF Resolved
<1>4. r.addr = [u EXCEPT !.address = Becomes(u, h, f),
                         !.isMulticast = @ \/ Group(h, u.protocol)]
    BY <1>3
<1>5. r.addr.protocol = pr /\ r.addr.hostName = NoHost /\ r.addr.address = Becomes(u, h, f)
    BY <1>1, <1>4 DEF SocketAddr
<1>6. r.addr.isMulticast <=> Group(h, pr)
    BY <1>1, <1>4 DEF SocketAddr
<1>7. h.kind \in {"dotted", "colons"} => f \in {"v4", "v6"}
    BY DEF Families
<1>8. IsIp(r.addr) => r.addr.address.host = h
    BY <1>1, <1>2, <1>5, Resolving, SpecialType DEF IsIp
<1>9. f \in {"v4", "v6"} => IsIp(r.addr)
    BY <1>5 DEF IsIp, Becomes
<1>. QED BY <1>5, <1>6, <1>7, <1>8, <1>9 DEF MadeFrom, Group, IsGroup

(* The openers that end the program. *)
LEMMA OpeningStops ==
    ASSUME NEW a \in SocketAddr, NEW create \in BOOLEAN, NEW o \in Openings(a, create)
    PROVE  /\ o.stops \in {"no", "verify", "get"}
           /\ o.stops # "no" => /\ o.conn = Closed
                               /\ a.protocol = "udp" /\ ~IsIp(a)
           /\ o.stops = "verify" => a.address.kind = "none" /\ ~create
           /\ o.stops = "get" => a.isMulticast
<1>1. \A c, b : Outcome(c, b).stops = "no"
    BY DEF Outcome
<1>2. \A b : Failed(b).stops = "no"
    BY <1>1 DEF Failed
<1>3. \A end : Stopped(a, end).stops = end /\ Stopped(a, end).conn = Closed
    BY DEF Stopped, Failed, Outcome
<1>4. a.address.kind \in {"none", "any", "v4", "v6"} /\ a.protocol \in {"tcp", "udp"}
    BY DEF SocketAddr, AddrType, Protocols
<1>5. CASE o = Failed(a)
    BY <1>2, <1>5
<1>6. CASE a.protocol = "tcp" /\ o \in Streams(a, create)
    <2>1. \E c, b : o = Outcome(c, b)
        BY <1>6 DEF Streams
    <2>. QED BY <1>1, <2>1
<1>7. CASE a.protocol = "udp" /\ o \in Datagrams(a, create)
    <2>0. ~Secure(a)
        BY <1>7 DEF Datagrams
    <2>1. CASE Serves(a, create) /\ a.isMulticast
        <3>1. o = GroupServer(a)
            BY <1>7, <2>0, <2>1 DEF Datagrams
        <3>2. \/ GroupServer(a).stops = "no"
              \/ GroupServer(a) = Stopped(a, "get") /\ ~IsIp(a)
            BY <1>1, <1>2 DEF GroupServer, IsIp
        <3>. QED BY <1>3, <1>7, <2>1, <3>1, <3>2
    <2>2. CASE Serves(a, create) /\ ~a.isMulticast
        <3>1. o = Outcome(Opened("udpServer", Target(a), NoHost), a)
            BY <1>7, <2>0, <2>2 DEF Datagrams
        <3>. QED BY <1>1, <3>1
    <2>3. CASE ~Serves(a, create) /\ IsIp(a)
        <3>1. o = Outcome(Opened("udpClient", a.address, NoHost), a)
            BY <1>7, <2>0, <2>3 DEF Datagrams
        <3>. QED BY <1>1, <3>1
    <2>4. CASE ~Serves(a, create) /\ ~IsIp(a)
        <3>1. o = Stopped(a, "verify")
            BY <1>7, <2>0, <2>4 DEF Datagrams
        <3>2. a.address.kind = "none" /\ ~create
            BY <1>4, <2>0, <2>4 DEF Serves, IsIp
        <3>. QED BY <1>3, <1>7, <2>4, <3>1, <3>2
    <2>. QED BY <2>1, <2>2, <2>3, <2>4
<1>. QED BY <1>4, <1>5, <1>6, <1>7 DEF Openings

(* The server of a group joins it. *)
LEMMA GroupServerJoins ==
    ASSUME NEW a \in SocketAddr, NEW h \in Hosts, MadeFrom(a, h), a.isMulticast
    PROVE  GroupServer(a).conn # Closed => GroupServer(a).conn.joined = h
<1>1. a.address.host = h /\ a.address.kind \in {"v4", "v6"}
    BY DEF MadeFrom, IsGroup, IsIp
<1>2. ASSUME NEW t, NEW b, GroupServer(a) = Outcome(Opened("udpServer", t, h), b)
      PROVE  GroupServer(a).conn.joined = h
    BY <1>2 DEF Outcome, Opened
<1>3. CASE a.address.kind = "v4"
    <2>1. GroupServer(a) = Outcome(Opened("udpServer", AnyOf(a.address), h), a)
        BY <1>1, <1>3 DEF GroupServer
    <2>. QED BY <1>2, <2>1
<1>4. CASE a.address.kind = "v6"
    <2>. DEFINE b == LookedUp(a)
    <2>1. b.hostName = h
        BY <1>1, <1>4 DEF LookedUp, IsIp, MadeFrom, SocketAddr
    <2>2. GroupServer(a) = IF b.hostName.named THEN Failed(b)
                           ELSE Outcome(Opened("udpServer", AnyOf(b.address), b.hostName), b)
        BY <1>4 DEF GroupServer
    <2>. HIDE DEF b
    <2>3. CASE b.hostName.named
        <3>1. GroupServer(a) = Failed(b)
            BY <2>2, <2>3
        <3>. QED BY <3>1 DEF Failed, Outcome
    <2>4. CASE ~b.hostName.named
        <3>1. GroupServer(a) = Outcome(Opened("udpServer", AnyOf(b.address), h), b)
            BY <2>1, <2>2, <2>4
        <3>. QED BY <1>2, <3>1
    <2>. QED BY <2>3, <2>4
<1>. QED BY <1>1, <1>3, <1>4

(* No stream is a datagram server. *)
LEMMA StreamsDoNotJoin ==
    ASSUME NEW a \in SocketAddr, a.protocol = "tcp", NEW create \in BOOLEAN,
           NEW o \in Openings(a, create)
    PROVE  o.conn.kind # "udpServer"
<1>1. Failed(a).conn.kind = "closed"
    BY ClosedType DEF Failed, Outcome
<1>2. ASSUME NEW k \in Kinds, k # "udpServer", NEW t, NEW b
      PROVE  Outcome(Opened(k, t, NoHost), b).conn.kind # "udpServer"
    BY <1>2 DEF Outcome, Opened
<1>3. o = Failed(a) \/ o \in Streams(a, create)
    BY DEF Openings
<1>4. CASE o \in Streams(a, create)
    <2>1. \E k \in {"listening", "tls", "plain"}, t \in {Target(a), a.address}, p \in LocalPorts \union {Target(a).port} :
            o = Outcome(Opened(k, t, NoHost), Written(a, p))
        BY <1>4 DEF Streams
    <2>2. PICK k \in {"listening", "tls", "plain"}, t \in {Target(a), a.address}, p \in LocalPorts \union {Target(a).port} :
            o = Outcome(Opened(k, t, NoHost), Written(a, p))
        BY <2>1
    <2>3. k \in Kinds /\ k # "udpServer"
        BY DEF Kinds
    <2>. QED BY <1>2, <2>2, <2>3
<1>. QED BY <1>1, <1>3, <1>4

LEMMA OpeningJoins ==
    ASSUME NEW a \in SocketAddr, NEW h \in Hosts, MadeFrom(a, h),
           NEW create \in BOOLEAN, NEW o \in Openings(a, create)
    PROVE  o.conn.kind = "udpServer" => o.conn.joined = IF IsGroup(h) THEN h ELSE NoHost
<1>1. CASE a.protocol = "tcp"
    BY <1>1, StreamsDoNotJoin
<1>2. CASE a.protocol = "udp"
    <2>1. Failed(a).conn.kind = "closed"
        BY ClosedType DEF Failed, Outcome
    <2>2. ASSUME NEW k, NEW t
          PROVE  /\ Outcome(Opened(k, t, NoHost), a).conn.kind = k
                 /\ Outcome(Opened(k, t, NoHost), a).conn.joined = NoHost
        BY DEF Outcome, Opened
    <2>3. o = Failed(a) \/ (~Secure(a) /\ o \in Datagrams(a, create))
        BY <1>2 DEF Openings, Datagrams
    <2>4. CASE ~Secure(a) /\ Serves(a, create) /\ a.isMulticast /\ o \in Datagrams(a, create)
        <3>1. o = GroupServer(a) /\ IsGroup(h)
            BY <2>4 DEF Datagrams, MadeFrom
        <3>2. o.conn # Closed => o.conn.joined = h
            BY <2>4, <3>1, GroupServerJoins
        <3>. QED BY <3>1, <3>2, ClosedType
    <2>5. CASE ~Secure(a) /\ Serves(a, create) /\ ~a.isMulticast /\ o \in Datagrams(a, create)
        <3>1. o = Outcome(Opened("udpServer", Target(a), NoHost), a) /\ ~IsGroup(h)
            BY <1>2, <2>5 DEF Datagrams, MadeFrom
        <3>. QED BY <2>2, <3>1
    <2>6. CASE ~Secure(a) /\ ~Serves(a, create) /\ IsIp(a) /\ o \in Datagrams(a, create)
        <3>1. o = Outcome(Opened("udpClient", a.address, NoHost), a)
            BY <2>6 DEF Datagrams
        <3>. QED BY <2>2, <3>1
    <2>7. CASE ~Secure(a) /\ ~Serves(a, create) /\ ~IsIp(a) /\ o \in Datagrams(a, create)
        <3>1. o = Stopped(a, "verify")
            BY <2>7 DEF Datagrams
        <3>2. Stopped(a, "verify").conn = Closed
            BY DEF Stopped, Failed, Outcome
        <3>. QED BY <1>2, <3>1, <3>2, ClosedType
    <2>. QED BY <2>1, <2>3, <2>4, <2>5, <2>6, <2>7
<1>. QED BY <1>1, <1>2 DEF SocketAddr, Protocols

(* open() caches a name only for an address, and then the name of its host. *)
LEMMA OpeningNames ==
    ASSUME NEW a \in SocketAddr, NEW create \in BOOLEAN, NEW o \in Openings(a, create)
    PROVE  \/ o.addr.hostName = a.hostName
           \/ IsIp(a) /\ o.addr.hostName = a.address.host
<1>1. /\ \A c, b : Outcome(c, b).addr = b
      /\ \A b : Failed(b).addr = b /\ \A end : Stopped(b, end).addr = b
    BY DEF Outcome, Failed, Stopped
<1>2. \A p : Written(a, p).hostName = a.hostName
    BY DEF Written, SocketAddr
<1>3. \/ LookedUp(a).hostName = a.hostName
      \/ IsIp(a) /\ LookedUp(a).hostName = a.address.host
    BY DEF LookedUp, SocketAddr
<1>4. ASSUME o \in Streams(a, create)
      PROVE  o.addr.hostName = a.hostName
    <2>1. \E c, p : o = Outcome(c, Written(a, p))
        BY <1>4 DEF Streams
    <2>. QED BY <1>1, <1>2, <2>1
<1>5. GroupServer(a).addr \in {a, LookedUp(a)}
    BY <1>1 DEF GroupServer
<1>6. ASSUME o \in Datagrams(a, create)
      PROVE  o.addr \in {a, LookedUp(a)}
    <2>1. \/ o = GroupServer(a) \/ o = Stopped(a, "verify")
          \/ \E c : o = Outcome(c, a)
        BY <1>6 DEF Datagrams
    <2>. QED BY <1>1, <1>5, <2>1
<1>7. o = Failed(a) \/ o \in Streams(a, create) \/ o \in Datagrams(a, create)
    BY DEF Openings
<1>. QED BY <1>1, <1>3, <1>4, <1>6, <1>7

LEMMA OpenJoins ==
    ASSUME GroupInv, NEW create \in BOOLEAN, Open(create)
    PROVE  GroupInv'
<1>1. addr \in SocketAddr /\ asked \in Goal /\ exists
    BY DEF GroupInv, AddressInv, TypeOK, Open
<1>. PICK request \in Request :
        /\ request = Asking(asked, addr, create) /\ request.goal = asked
        /\ request.address = addr.address.kind /\ request.create = create
    BY <1>1, AskingType
<1>2. PICK o \in Openings(addr, create) :
        /\ addr' = o.addr
        /\ asked' = [asked EXCEPT !.written =
                @ \/ (IsIp(addr) /\ o.conn.kind \in {"plain", "tls", "listening"})]
        /\ conn' = o.conn
        /\ stopped' = o.stops
        /\ sought' = IF o.conn = Closed /\ o.stops = "no" THEN sought ELSE request
    BY DEF Open, Ending
<1>3. asked'.host = asked.host /\ asked'.resolved = asked.resolved
    BY <1>1, <1>2 DEF Goal
<1>4. AddressInv'
    BY OpenInv DEF GroupInv
<1>5. asked.host \in Hosts
    BY <1>1 DEF Goal
<1>6. ASSUME asked.resolved = "once"
      PROVE  MadeFrom(addr, asked.host)
    BY <1>1, <1>6 DEF GroupInv
<1>7. JoinsGroup'
    <2>. SUFFICES ASSUME conn'.kind = "udpServer", sought'.goal.resolved = "once"
                  PROVE  conn'.joined = IF IsGroup(sought'.goal.host)
                                        THEN sought'.goal.host ELSE NoHost
        BY DEF JoinsGroup, IsGroup
    <2>1. sought' = request
        BY <1>2, ClosedType
    <2>. QED BY <1>1, <1>2, <1>5, <1>6, <2>1, OpeningJoins
<1>8. Reopened(addr, addr')
    BY <1>1, <1>2, Opening DEF OpenFrom
<1>9. RunsOn'
    <2>. SUFFICES ASSUME stopped' # "no"
                  PROVE  /\ addr'.protocol = "udp" /\ ~IsIp(addr')
                         /\ stopped' = "verify" => sought'.address = "none" /\ ~sought'.create
                         /\ stopped' = "get" => sought'.goal.resolved # "once"
        BY DEF RunsOn, IsIp
    <2>1. sought' = request
        BY <1>2
    <2>2. addr'.protocol = "udp" /\ ~IsIp(addr')
        BY <1>1, <1>2, <1>8, OpeningStops DEF Reopened, IsIp
    <2>3. stopped' = "verify" => sought'.address = "none" /\ ~sought'.create
        BY <1>1, <1>2, <2>1, OpeningStops
    <2>4. ASSUME stopped' = "get", asked.resolved = "once"
          PROVE  FALSE
        <3>1. addr.isMulticast /\ ~IsIp(addr)
            BY <1>1, <1>2, <2>4, OpeningStops
        <3>. QED BY <1>6, <2>4, <3>1 DEF MadeFrom, IsGroup
    <2>. QED BY <2>1, <2>2, <2>3, <2>4
<1>10. ASSUME asked.resolved = "once"
       PROVE  MadeFrom(addr', asked.host)
    <2>1. \/ addr'.hostName = addr.hostName
          \/ IsIp(addr) /\ addr'.hostName = addr.address.host
        BY <1>1, <1>2, OpeningNames
    <2>2. addr'.hostName # NoHost => addr'.hostName = asked.host
        BY <1>6, <1>10, <2>1 DEF MadeFrom
    <2>. QED BY <1>6, <1>8, <1>10, <2>2 DEF MadeFrom, Reopened, IsIp
<1>11. (exists /\ asked.resolved = "once" => MadeFrom(addr, asked.host))'
    BY <1>3, <1>10 DEF MadeFrom, IsIp
<1>. QED BY <1>4, <1>7, <1>9, <1>11 DEF GroupInv

LEMMA ConstructJoins ==
    ASSUME GroupInv, NEW h \in Hosts, NEW p \in Word, NEW pr \in Protocols,
           NEW q \in Word, NEW v \in BOOLEAN,
           Construct(h, p, pr, Wanted(h, q, v)), AddressInv'
    PROVE  GroupInv'
<1>1. MadeFrom(addr', h)
    <2>1. PICK r \in Resolved(Unresolved(p, pr), h) : addr' = r.addr
        BY DEF Construct
    <2>. QED BY <2>1, ResolvedFrom
<1>2. asked'.host = h
    BY DEF Wanted, Construct
<1>3. MadeFrom(addr', asked'.host)
    BY <1>1, <1>2
<1>4. conn'.kind = "closed" /\ stopped' = "no"
    BY ClosedType DEF Construct
<1>. QED BY <1>3, <1>4 DEF GroupInv, JoinsGroup, RunsOn, MadeFrom, IsIp

LEMMA ResolveAgainJoins ==
    ASSUME GroupInv, NEW h \in Hosts, ResolveAgain(h)
    PROVE  GroupInv'
<1>1. AddressInv'
    BY ResolveAgainInv DEF GroupInv
<1>2. asked \in Goal
    BY DEF GroupInv, AddressInv, TypeOK
<1>3. asked'.resolved # "once"
    BY <1>2 DEF ResolveAgain, Goal
<1>4. stopped' = "no"
    BY DEF ResolveAgain
<1>. QED BY <1>1, <1>3, <1>4 DEF GroupInv, JoinsGroup, RunsOn, ResolveAgain

LEMMA HostnameJoins ==
    ASSUME GroupInv, Hostname
    PROVE  GroupInv'
<1>1. addr \in SocketAddr /\ addr' = LookedUp(addr)
    BY DEF GroupInv, AddressInv, TypeOK, Hostname
<1>2. AddressInv'
    BY HostnameInv DEF GroupInv
<1>3. UNCHANGED <<exists, conn, asked, sought, stopped>> /\ stopped' = "no"
    BY DEF Hostname
<1>4. ASSUME exists, asked.resolved = "once"
      PROVE  MadeFrom(addr', asked.host)
    <2>1. MadeFrom(addr, asked.host)
        BY <1>4 DEF GroupInv
    <2>2. Reopened(addr, addr')
        BY <1>1, LookedUpType
    <2>3. addr'.hostName # NoHost => addr'.hostName = asked.host
        BY <1>1, <2>1 DEF MadeFrom, LookedUp, SocketAddr
    <2>. QED BY <2>1, <2>2, <2>3 DEF MadeFrom, Reopened, IsIp
<1>. QED BY <1>2, <1>3, <1>4 DEF GroupInv, JoinsGroup, RunsOn, MadeFrom, IsIp

LEMMA OpenNameJoins ==
    ASSUME GroupInv, NEW n \in Names, NEW create \in BOOLEAN, OpenName(n, create)
    PROVE  GroupInv'
<1>1. AddressInv'
    BY OpenNameInv DEF GroupInv
<1>2. UNCHANGED <<exists, addr, asked>>
    BY DEF OpenName
<1>3. PICK goal \in Parsed(n) :
        \E r \in Resolved(Unresolved(goal.port, "tcp"), n.host) :
          \E o \in Openings(r.addr, create) \union {Stopped(r.addr, "substr")} :
            /\ r.addr \in SocketAddr /\ r.addr.protocol = "tcp"
            /\ conn' = o.conn
            /\ stopped' = o.stops
    BY OpeningName
<1>4. PICK r \in Resolved(Unresolved(goal.port, "tcp"), n.host) :
        \E o \in Openings(r.addr, create) \union {Stopped(r.addr, "substr")} :
            /\ r.addr \in SocketAddr /\ r.addr.protocol = "tcp"
            /\ conn' = o.conn
            /\ stopped' = o.stops
    BY <1>3
<1>5. PICK o \in Openings(r.addr, create) \union {Stopped(r.addr, "substr")} :
        /\ r.addr \in SocketAddr /\ r.addr.protocol = "tcp"
        /\ conn' = o.conn
        /\ stopped' = o.stops
    BY <1>4
<1>6. conn'.kind # "udpServer" /\ stopped' \notin {"verify", "get"}
    <2>1. CASE o \in Openings(r.addr, create)
        <3>1. o.conn.kind # "udpServer"
            BY <1>5, <2>1, StreamsDoNotJoin
        <3>2. o.stops = "no"
            BY <1>5, <2>1, OpeningStops
        <3>. QED BY <1>5, <3>1, <3>2
    <2>2. CASE o = Stopped(r.addr, "substr")
        BY <1>5, <2>2, ClosedType DEF Stopped, Failed, Outcome
    <2>. QED BY <2>1, <2>2
<1>. QED BY <1>1, <1>2, <1>6 DEF GroupInv, JoinsGroup, RunsOn, MadeFrom, IsIp

LEMMA GroupStep ==
    ASSUME GroupInv, [Next]_vars
    PROVE  GroupInv'
<1>1. AddressInv'
    BY StepInv DEF GroupInv
<1>2. ASSUME NEW h \in Hosts, NEW pr \in Protocols,
             ConstructPort(h, pr) \/ ConstructService(h, pr)
      PROVE  GroupInv'
    BY <1>1, <1>2, ConstructsFrom, ConstructJoins
<1>3. CASE Close
    BY <1>1, <1>3, ClosedType DEF Close, GroupInv, JoinsGroup, RunsOn, MadeFrom, IsIp
<1>4. CASE UNCHANGED vars
    BY <1>1, <1>4 DEF vars, GroupInv, JoinsGroup, RunsOn, MadeFrom, IsIp
<1>. QED BY <1>2, <1>3, <1>4, ResolveAgainJoins, HostnameJoins, OpenJoins, OpenNameJoins
         DEF Next

LEMMA GroupHolds == Spec => []GroupInv
<1>1. Init => GroupInv
    BY InitInv, ClosedType DEF Init, GroupInv, JoinsGroup, RunsOn
<1>. QED BY <1>1, GroupStep, PTL DEF Spec

(* The server of a multicast group joins that group and no other, and other
   servers join none, for a SocketAddr that was resolved once. *)
THEOREM JoinsGroupHolds == Spec => []JoinsGroup
<1>1. GroupInv => JoinsGroup
    BY DEF GroupInv
<1>. QED BY <1>1, GroupHolds, PTL

(* Of all opens of a SocketAddr only those of a datagram one that holds no
   address end the program: with VERIFY(0) if it did not resolve and is not to
   be served, with an exception if an earlier resolve() took it for a group. *)
THEOREM RunsOnHolds == Spec => []RunsOn
<1>1. GroupInv => RunsOn
    BY DEF GroupInv
<1>. QED BY <1>1, GroupHolds, PTL
==============================================================================
