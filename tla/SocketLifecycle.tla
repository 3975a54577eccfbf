--------------------------- MODULE SocketLifecycle ---------------------------
(***************************************************************************)
(* The state machine of sockstr::Socket: the objects a program constructs, *)
(* the descriptor each one holds (m_hFile), the state object it delegates   *)
(* to (m_pState), and the kernel's table of descriptors.                    *)
(*                                                                          *)
(* The blocking calls (connect, SSL_connect, accept) take two steps: the    *)
(* call and its return.  Everything the library does between two system     *)
(* calls is one step.  The states SSOpenedServer, SSOpenedClient and        *)
(* SSOpenedClientTLS never outlive Socket::open: their open() begins by     *)
(* going to SSClosed, so they appear here only as the choice of an opener.  *)
(***************************************************************************)
EXTENDS Integers, FiniteSets

CONSTANTS
    Sockets,    \* Socket objects, by address
    Fds,        \* the descriptors the kernel hands out
    NoFd,       \* INVALID_SOCKET
    Programs    \* the programs considered, a set of Program records

(***************************************************************************)
(* An address as Socket::open tells addresses apart: its kind, transport,   *)
(* whether the port is 443, and whether the flags include modeCreate.       *)
(***************************************************************************)
Target == [net: {"None", "Any", "Inet"}, proto: {"stream", "dgram"},
           port443: BOOLEAN, create: BOOLEAN]

(***************************************************************************)
(* "trustIsOpen"  writes to any object whose is_open() is true              *)
(* "clear"        calls clear() on a stream in a failed state               *)
(* "retry"        calls open() on an object that still holds a descriptor   *)
(* "assign"       copies one Socket into another with operator=             *)
(* "blindListen"  calls listen() without knowing that the server is open    *)
(***************************************************************************)
AllHabits == {"trustIsOpen", "clear", "retry", "assign", "blindListen"}

(* A program: the addresses it opens and the habits it has. *)
Program == [opens: SUBSET Target, habits: SUBSET AllHabits]

ASSUME NoFdAssumption == NoFd \notin Fds
ASSUME ProgramsAssumption == Programs \subseteq Program

VARIABLES
    live,       \* the objects that exist
    pState,     \* m_pState
    hFile,      \* m_hFile
    proto,      \* m_nProtocol, which no constructor sets
    io,         \* iostream and StreamBuf: good(), a non-empty put area, m_Status
    ctx,        \* m_pSslCtx: never stored, owned, or already freed
    ssl,        \* m_pSsl points to a session that was never freed
    call,       \* the blocking call the object's thread is in, and the form of open
    kernel,     \* what each descriptor is
    aborted,    \* the call in which a VERIFY failed, or "no"
    program     \* which of the programs this is

vars == <<live, pState, hFile, proto, io, ctx, ssl, call, kernel, aborted, program>>

Habits == program.habits
Targets == program.opens

Connections == {"Connected", "ConnectedTLS"}
States == {"Closed", "Listening"} \union Connections
Forms == {"constructor", "name", "address"}
Idle == [op |-> "none", form |-> "address"]
Io(good, pending, status) == [good |-> good, pending |-> pending, status |-> status]
Statuses == {"OK", "FAILED", "NODATA"}
IoRecord == [good: BOOLEAN, pending: BOOLEAN, status: Statuses]
FreshIo == Io(TRUE, FALSE, "OK")
Open(f) == kernel[f] # "free"

TypeOK ==
    /\ live \subseteq Sockets
    /\ pState \in [Sockets -> States]
    /\ hFile \in [Sockets -> Fds \union {NoFd}]
    /\ proto \in [Sockets -> {"uninit", "stream", "dgram"}]
    /\ io \in [Sockets -> IoRecord]
    /\ ctx \in [Sockets -> {"uninit", "owned", "freed"}]
    /\ ssl \in [Sockets -> BOOLEAN]
    /\ call \in [Sockets -> [op: {"none", "connect", "tlsConnect", "handshake", "accept"},
                             form: Forms]]
    /\ kernel \in [Fds -> {"free", "fresh", "listening", "stream", "dgram"}]
    /\ aborted \in {"no", "open", "write", "listen"}
    /\ program \in Programs

Init ==
    /\ live = {}
    /\ pState = [s \in Sockets |-> "Closed"]
    /\ hFile = [s \in Sockets |-> NoFd]
    /\ proto = [s \in Sockets |-> "uninit"]
    /\ io = [s \in Sockets |-> FreshIo]
    /\ ctx = [s \in Sockets |-> "uninit"]
    /\ ssl = [s \in Sockets |-> FALSE]
    /\ call = [s \in Sockets |-> Idle]
    /\ kernel = [f \in Fds |-> "free"]
    /\ aborted = "no"
    /\ program \in Programs

------------------------------------------------------------------------------
(* The program may call a member function of s. *)
Callable(s) == aborted = "no" /\ s \in live /\ call[s] = Idle

(* VERIFY(0) in a call: assert ends the process, so the rest no longer matters. *)
Abort(in) ==
    /\ aborted' = in
    /\ UNCHANGED <<live, pState, hFile, proto, io, ctx, ssl, call, kernel>>

(***************************************************************************)
(* StreamBuf::sync, called on a stream whose iostream part is o, state is p *)
(* and descriptor is h.  Bytes that cannot be sent now are dropped; a write *)
(* in a state other than the connected ones fails a VERIFY; a write that    *)
(* leaves m_Status other than SC_OK keeps the bytes in the put area.        *)
(***************************************************************************)
Writes_AnyState(o, h) == o.pending /\ h # NoFd    \* mutant: good() not tested
Writes(o, h) == o.pending /\ h # NoFd /\ o.good
SyncAborts(o, p, h) == Writes(o, h) /\ p \notin Connections
SyncResults(o, p, h) ==
    IF Writes(o, h)
    THEN {Io(TRUE, o.status # "OK", o.status), Io(FALSE, TRUE, "FAILED")}
    ELSE {Io(o.good, FALSE, o.status)}

(* What Socket::open leaves in the stream when it returns false. *)
Refuse(o, form) ==
    Io(o.good /\ form # "constructor", o.pending, "FAILED")

(* The state object Socket::open hands the address to. *)
Special(t) == t.net \in {"None", "Any"}
Refused(t) == t.net = "None" /\ t.proto = "stream"
ToServer(t) ==
    \/ Special(t) /\ ~Refused(t) /\ (t.create \/ t.net = "Any")
    \/ ~Special(t) /\ ~t.port443 /\ t.create
ToTLS(t) == ~Special(t) /\ t.port443
ToClient(t) == ~Special(t) /\ ~t.port443 /\ ~t.create
ToNobody(t) == t.net = "None" /\ t.proto = "dgram" /\ ~t.create

(***************************************************************************)
(* The program calls open(): through a constructor, by name, or by address. *)
(* A program without the habit "retry" opens only what is not open.         *)
(***************************************************************************)
MayOpen(s, form) ==
    \/ form = "constructor" /\ aborted = "no" /\ s \notin live
    \/ /\ form # "constructor"
       /\ Callable(s)
       /\ hFile[s] = NoFd \/ "retry" \in Habits

(* initialize() forgets the descriptor; opening by address keeps it.        *)
Entered(s, form) == IF form = "address" THEN hFile[s] ELSE NoFd

(* open() returned: false after giving up, or true. *)
ReturnFalse(s, form, o) ==
    /\ io' = [io EXCEPT ![s] = Refuse(o, form)]
    /\ call' = [call EXCEPT ![s] = Idle]
ReturnTrue(s) ==
    /\ io' = [io EXCEPT ![s] = Io(io[s].good, io[s].pending, "OK")]
    /\ call' = [call EXCEPT ![s] = Idle]

Construct(s) ==
    /\ aborted = "no"
    /\ s \notin live
    /\ live' = live \union {s}
    /\ UNCHANGED <<pState, hFile, proto, io, ctx, ssl, call, kernel, aborted>>

(* AddrNone on a stream; or a name with a host and no port, which is refused
   before there is an address. *)
OpenRefused(s, form, t) ==
    /\ MayOpen(s, form)
    /\ Refused(t)
    /\ live' = live \union {s}
    /\ hFile' = [hFile EXCEPT ![s] = Entered(s, form)]
    /\ pState' = [pState EXCEPT ![s] = IF form = "address" THEN @ ELSE "Closed"]
    /\ \/ proto' = [proto EXCEPT ![s] = t.proto]
       \/ form # "address" /\ UNCHANGED proto
    /\ ReturnFalse(s, form, io[s])
    /\ UNCHANGED <<ctx, ssl, kernel, aborted>>

(* m_pState is left as it was: a state whose open() is the base class's. *)
OpenNobody(s, form, t) ==
    /\ MayOpen(s, form)
    /\ ToNobody(t)
    /\ Abort("open")

(* ::socket fails, or SSOpenedClientTLS cannot load its certificate. *)
OpenWithoutSocket(s, form, t) ==
    /\ MayOpen(s, form)
    /\ ~Refused(t) /\ ~ToNobody(t)
    /\ live' = live \union {s}
    /\ \/ hFile' = [hFile EXCEPT ![s] = NoFd]
       \/ ToTLS(t) /\ hFile' = [hFile EXCEPT ![s] = Entered(s, form)]
    /\ pState' = [pState EXCEPT ![s] = "Closed"]
    /\ proto' = [proto EXCEPT ![s] = t.proto]
    /\ ReturnFalse(s, form, io[s])
    /\ UNCHANGED <<ctx, ssl, kernel, aborted>>

(* The last changeState of SSOpenedServer::open. *)
ServerState_Forgotten(t) == "OpenedServer"    \* mutant: it is dropped
ServerState(t) == IF t.proto = "stream" THEN "Listening" ELSE "Connected"

(***************************************************************************)
(* SSOpenedServer::open once the socket exists.  A failed bind or listen    *)
(* closes the new descriptor through SocketState::close, which flushes.     *)
(***************************************************************************)
OpenServer(s, form, t, f) ==
    /\ MayOpen(s, form)
    /\ ToServer(t)
    /\ ~Open(f)
    /\ live' = live \union {s}
    /\ hFile' = [hFile EXCEPT ![s] = f]
    /\ pState' = [pState EXCEPT ![s] = ServerState(t)]
    /\ kernel' = [kernel EXCEPT ![f] = IF t.proto = "stream" THEN "listening" ELSE "dgram"]
    /\ proto' = [proto EXCEPT ![s] = t.proto]
    /\ ReturnTrue(s)
    /\ UNCHANGED <<ctx, ssl, aborted>>

(* A datagram socket with port 443 fails the same way in SSOpenedClientTLS. *)
OpenThenClose(s, form, t, f) ==
    /\ MayOpen(s, form)
    /\ ToServer(t) \/ ToTLS(t)
    /\ ~Open(f)
    /\ \/ SyncAborts(io[s], "Closed", f) /\ Abort("write")
       \/ /\ ~SyncAborts(io[s], "Closed", f)
          /\ live' = live \union {s}
          /\ hFile' = [hFile EXCEPT ![s] = NoFd]
          /\ pState' = [pState EXCEPT ![s] = "Closed"]
          /\ proto' = [proto EXCEPT ![s] = t.proto]
          /\ \E o \in SyncResults(io[s], "Closed", f) : ReturnFalse(s, form, o)
          /\ UNCHANGED <<ctx, ssl, kernel, aborted>>

(* SSOpenedClient::open gives up after ::socket: it does not close. *)
OpenClientFails(s, form, t, f) ==
    /\ MayOpen(s, form)
    /\ ToClient(t)
    /\ ~Open(f)
    /\ live' = live \union {s}
    /\ hFile' = [hFile EXCEPT ![s] = f]
    /\ pState' = [pState EXCEPT ![s] = "Closed"]
    /\ kernel' = [kernel EXCEPT ![f] = "fresh"]
    /\ proto' = [proto EXCEPT ![s] = t.proto]
    /\ ReturnFalse(s, form, io[s])
    /\ UNCHANGED <<ctx, ssl, aborted>>

OpenDatagramClient(s, form, t, f) ==
    /\ MayOpen(s, form)
    /\ ToClient(t)
    /\ t.proto = "dgram"
    /\ ~Open(f)
    /\ live' = live \union {s}
    /\ hFile' = [hFile EXCEPT ![s] = f]
    /\ pState' = [pState EXCEPT ![s] = "Connected"]
    /\ kernel' = [kernel EXCEPT ![f] = "dgram"]
    /\ proto' = [proto EXCEPT ![s] = t.proto]
    /\ ReturnTrue(s)
    /\ UNCHANGED <<ctx, ssl, aborted>>

(* A stream client blocks in ::connect, in the state SSClosed. *)
OpenConnects(s, form, t, f) ==
    /\ MayOpen(s, form)
    /\ ToClient(t) \/ ToTLS(t)
    /\ t.proto = "stream"
    /\ ~Open(f)
    /\ live' = live \union {s}
    /\ hFile' = [hFile EXCEPT ![s] = f]
    /\ pState' = [pState EXCEPT ![s] = "Closed"]
    /\ kernel' = [kernel EXCEPT ![f] = "fresh"]
    /\ proto' = [proto EXCEPT ![s] = t.proto]
    /\ call' = [call EXCEPT ![s] =
                  [op |-> IF ToTLS(t) THEN "tlsConnect" ELSE "connect", form |-> form]]
    /\ UNCHANGED <<io, ctx, ssl, aborted>>

------------------------------------------------------------------------------
(* The blocking calls of an open() return. *)

In(s, op) == aborted = "no" /\ s \in live /\ call[s].op = op

ConnectSucceeds(s) ==
    /\ In(s, "connect")
    /\ pState' = [pState EXCEPT ![s] = "Connected"]
    /\ kernel' = [kernel EXCEPT ![hFile[s]] = "stream"]
    /\ ReturnTrue(s)
    /\ UNCHANGED <<live, hFile, proto, ctx, ssl, aborted>>

(* Mutant: the state is changed before ::connect answers. *)
ConnectFails_StateFirst(s) ==
    /\ In(s, "connect")
    /\ ReturnFalse(s, call[s].form, io[s])
    /\ pState' = [pState EXCEPT ![s] = "Connected"]
    /\ UNCHANGED <<live, hFile, proto, ctx, ssl, kernel, aborted>>

(* The descriptor stays with an object in the state SSClosed. *)
ConnectFails(s) ==
    /\ In(s, "connect")
    /\ ReturnFalse(s, call[s].form, io[s])
    /\ UNCHANGED <<live, pState, hFile, proto, ctx, ssl, kernel, aborted>>

TlsConnectSucceeds(s) ==
    /\ In(s, "tlsConnect")
    /\ kernel' = [kernel EXCEPT ![hFile[s]] = "stream"]
    /\ call' = [call EXCEPT ![s] = [op |-> "handshake", form |-> call[s].form]]
    /\ UNCHANGED <<live, pState, hFile, proto, io, ctx, ssl, aborted>>

(* Mutant: the context is not stored in the object. *)
HandshakeSucceeds_NoContext(s) ==
    /\ In(s, "handshake")
    /\ pState' = [pState EXCEPT ![s] = "ConnectedTLS"]
    /\ ssl' = [ssl EXCEPT ![s] = TRUE]
    /\ ReturnTrue(s)
    /\ UNCHANGED <<live, hFile, proto, ctx, kernel, aborted>>

HandshakeSucceeds(s) ==
    /\ In(s, "handshake")
    /\ pState' = [pState EXCEPT ![s] = "ConnectedTLS"]
    /\ ctx' = [ctx EXCEPT ![s] = "owned"]
    /\ ssl' = [ssl EXCEPT ![s] = TRUE]
    /\ ReturnTrue(s)
    /\ UNCHANGED <<live, hFile, proto, kernel, aborted>>

(* Mutant: the object is reset but nothing is closed. *)
TlsFails_Forgets(s) ==
    /\ In(s, "tlsConnect") \/ In(s, "handshake")
    /\ hFile' = [hFile EXCEPT ![s] = NoFd]
    /\ ReturnFalse(s, call[s].form, io[s])
    /\ UNCHANGED <<live, pState, proto, ctx, ssl, kernel, aborted>>

(* ::connect or SSL_connect failed: SSL_CTX_free, then SocketState::close. *)
TlsFails(s) ==
    /\ In(s, "tlsConnect") \/ In(s, "handshake")
    /\ \/ SyncAborts(io[s], pState[s], hFile[s]) /\ Abort("write")
       \/ /\ ~SyncAborts(io[s], pState[s], hFile[s])
          /\ kernel' = [kernel EXCEPT ![hFile[s]] = "free"]
          /\ hFile' = [hFile EXCEPT ![s] = NoFd]
          /\ pState' = [pState EXCEPT ![s] = "Closed"]
          /\ \E o \in SyncResults(io[s], pState[s], hFile[s]) :
                ReturnFalse(s, call[s].form, o)
          /\ UNCHANGED <<live, proto, ctx, ssl, aborted>>

------------------------------------------------------------------------------
(* Socket::listen: a new Socket, ::accept, and the new Socket filled in. *)

ListenCall(s) ==
    /\ Callable(s)
    /\ pState[s] = "Listening" \/ "blindListen" \in Habits
    /\ \/ pState[s] # "Listening" /\ Abort("listen")
       \/ /\ pState[s] = "Listening"
          /\ call' = [call EXCEPT ![s] = [op |-> "accept", form |-> "address"]]
          /\ UNCHANGED <<live, pState, hFile, proto, io, ctx, ssl, kernel, aborted>>

(***************************************************************************)
(* ::accept returns a connection; it may do so even if the listening        *)
(* descriptor was closed while it blocked.  The client object c exists      *)
(* since before the call but nobody else can see it until now.              *)
(***************************************************************************)
AcceptSucceeds(s, c, f) ==
    /\ In(s, "accept")
    /\ c \notin live
    /\ ~Open(f)
    /\ live' = live \union {c}
    /\ hFile' = [hFile EXCEPT ![c] = f]
    /\ pState' = [pState EXCEPT ![c] = "Connected"]
    /\ kernel' = [kernel EXCEPT ![f] = "stream"]
    /\ call' = [call EXCEPT ![s] = Idle]
    /\ UNCHANGED <<proto, io, ctx, ssl, aborted>>

AcceptFails(s) ==
    /\ In(s, "accept")
    /\ call' = [call EXCEPT ![s] = Idle]
    /\ UNCHANGED <<live, pState, hFile, proto, io, ctx, ssl, kernel, aborted>>

------------------------------------------------------------------------------
(* Buffered output, its flush, and reads, as far as closing depends on them. *)

(* operator<<: characters enter the put area if the stream is good. *)
Put(s) ==
    /\ Callable(s)
    /\ io[s].good
    /\ \/ pState[s] \in Connections
       \/ "trustIsOpen" \in Habits /\ hFile[s] # NoFd
    /\ io' = [io EXCEPT ![s] = Io(TRUE, TRUE, io[s].status)]
    /\ UNCHANGED <<live, pState, hFile, proto, ctx, ssl, call, kernel, aborted>>

(* ostream::flush: sync() that leaves the put area as it was sets badbit. *)
Flush(s) ==
    /\ Callable(s)
    /\ pState[s] \in Connections
    /\ io[s].good
    /\ io[s].pending
    /\ \E o \in SyncResults(io[s], pState[s], hFile[s]) :
          io' = [io EXCEPT ![s] = Io(o.good /\ ~o.pending, o.pending, o.status)]
    /\ UNCHANGED <<live, pState, hFile, proto, ctx, ssl, call, kernel, aborted>>

(* SSConnected::read: data clears every bit, no data sets eofbit or badbit. *)
Read(s) ==
    /\ Callable(s)
    /\ pState[s] \in Connections
    /\ \/ io' = [io EXCEPT ![s] = Io(TRUE, io[s].pending, "OK")]
       \/ io' = [io EXCEPT ![s] = Io(FALSE, io[s].pending, "NODATA")]
    /\ UNCHANGED <<live, pState, hFile, proto, ctx, ssl, call, kernel, aborted>>

Clear(s) ==
    /\ Callable(s)
    /\ "clear" \in Habits
    /\ io' = [io EXCEPT ![s] = Io(TRUE, io[s].pending, io[s].status)]
    /\ UNCHANGED <<live, pState, hFile, proto, ctx, ssl, call, kernel, aborted>>

------------------------------------------------------------------------------
(* Closing and destroying. *)

(* m_pState->close: SSConnectedTLS frees its context, then as the others. *)
Released(s) == IF pState[s] = "ConnectedTLS" THEN "freed" ELSE ctx[s]

(* Mutants: the handle survives the close; the handle goes and ::close does not come. *)
Closing_KeepsHandle(s) ==
    /\ kernel' = [f \in Fds |-> IF f = hFile[s] THEN "free" ELSE kernel[f]]
    /\ UNCHANGED hFile
Closing_NoSystemCall(s) ==
    /\ hFile' = [hFile EXCEPT ![s] = NoFd]
    /\ UNCHANGED kernel

Closing(s) ==
    /\ kernel' = [f \in Fds |-> IF f = hFile[s] THEN "free" ELSE kernel[f]]
    /\ hFile' = [hFile EXCEPT ![s] = NoFd]

(* Mutant: SocketState::close without its changeState. *)
Close_KeepsState(s) ==
    /\ Callable(s) \/ In(s, "accept")
    /\ hFile[s] # NoFd
    /\ ~SyncAborts(io[s], pState[s], hFile[s])
    /\ Closing(s)
    /\ ctx' = [ctx EXCEPT ![s] = Released(s)]
    /\ \E o \in SyncResults(io[s], pState[s], hFile[s]) : io' = [io EXCEPT ![s] = o]
    /\ UNCHANGED <<live, pState, proto, ssl, call, aborted>>

(***************************************************************************)
(* Socket::close.  A signal handler may call it on a server whose thread is *)
(* blocked in ::accept, as examples/echoserver.cpp does.                    *)
(***************************************************************************)
Close(s) ==
    /\ Callable(s) \/ In(s, "accept")
    /\ hFile[s] # NoFd
    /\ \/ SyncAborts(io[s], pState[s], hFile[s]) /\ Abort("write")
       \/ /\ ~SyncAborts(io[s], pState[s], hFile[s])
          /\ Closing(s)
          /\ pState' = [pState EXCEPT ![s] = "Closed"]
          /\ ctx' = [ctx EXCEPT ![s] = Released(s)]
          /\ \E o \in SyncResults(io[s], pState[s], hFile[s]) : io' = [io EXCEPT ![s] = o]
          /\ UNCHANGED <<live, proto, ssl, call, aborted>>

(* ~Socket: close() if it is still open, then the object is gone. *)
Destroy(s) ==
    /\ Callable(s)
    /\ \/ SyncAborts(io[s], pState[s], hFile[s]) /\ Abort("write")
       \/ /\ ~SyncAborts(io[s], pState[s], hFile[s])
          /\ live' = live \ {s}
          /\ Closing(s)
          /\ pState' = [pState EXCEPT ![s] = "Closed"]
          /\ proto' = [proto EXCEPT ![s] = "uninit"]
          /\ io' = [io EXCEPT ![s] = FreshIo]
          /\ ctx' = [ctx EXCEPT ![s] = "uninit"]
          /\ ssl' = [ssl EXCEPT ![s] = FALSE]
          /\ UNCHANGED <<call, aborted>>

(* operator= copies the descriptor and the state, not the SSL pointers. *)
Assign(s, r) ==
    /\ Callable(s) /\ Callable(r) /\ s # r
    /\ "assign" \in Habits
    /\ hFile' = [hFile EXCEPT ![s] = hFile[r]]
    /\ pState' = [pState EXCEPT ![s] = pState[r]]
    /\ io' = [io EXCEPT ![s] = Io(io[s].good, io[s].pending, io[r].status)]
    /\ UNCHANGED <<live, proto, ctx, ssl, call, kernel, aborted>>

------------------------------------------------------------------------------
OpenCall(s) ==
    \E form \in Forms, t \in Targets :
        \/ OpenRefused(s, form, t)
        \/ OpenNobody(s, form, t)
        \/ OpenWithoutSocket(s, form, t)
        \/ \E f \in Fds :
              \/ OpenServer(s, form, t, f)
              \/ OpenThenClose(s, form, t, f)
              \/ OpenClientFails(s, form, t, f)
              \/ OpenDatagramClient(s, form, t, f)
              \/ OpenConnects(s, form, t, f)

CallReturns(s) ==
    \/ ConnectSucceeds(s)
    \/ ConnectFails(s)
    \/ TlsConnectSucceeds(s)
    \/ HandshakeSucceeds(s)
    \/ TlsFails(s)
    \/ AcceptFails(s)
    \/ \E c \in Sockets, f \in Fds : AcceptSucceeds(s, c, f)

Next ==
    /\ UNCHANGED program
    /\ \E s \in Sockets :
        \/ Construct(s)
        \/ OpenCall(s)
        \/ CallReturns(s)
        \/ ListenCall(s)
        \/ Put(s)
        \/ Flush(s)
        \/ Read(s)
        \/ Clear(s)
        \/ Close(s)
        \/ Destroy(s)
        \/ \E r \in Sockets : Assign(s, r)

Spec == Init /\ [][Next]_vars

------------------------------------------------------------------------------
(* Properties. *)

(* Where sockets are not copied, two objects never hold the same descriptor, so
   that closing one never closes, and writing to one never writes to, the
   connection of another, however often they are opened and closed. *)
ExclusiveOwnership ==
    "assign" \notin Habits =>
        \A s, r \in Sockets : s # r /\ hFile[s] = hFile[r] => hFile[s] = NoFd

(* A descriptor that is open is held by an object that exists, so that closing
   or destroying the objects gives every descriptor back: of a program that
   copies no socket and closes what it opened before it opens it again. *)
NoLeak ==
    Habits \intersect {"assign", "retry"} = {} =>
        \A f \in Fds : Open(f) => \E s \in live : hFile[s] = f

(* Where sockets are not copied, the state an object delegates to is one whose
   system calls make sense on the descriptor it holds. *)
StateMatchesKernel ==
    "assign" \notin Habits =>
        \A s \in Sockets :
            /\ pState[s] = "Listening" => hFile[s] # NoFd /\ kernel[hFile[s]] = "listening"
            /\ pState[s] = "Connected" =>
                  hFile[s] # NoFd /\ kernel[hFile[s]] \in {"stream", "dgram"}
            /\ pState[s] = "ConnectedTLS" => hFile[s] # NoFd /\ kernel[hFile[s]] = "stream"

(* Whatever the program does, the state of an object with no descriptor is
   SSClosed, so that no system call is ever made on INVALID_SOCKET. *)
StateHasHandle ==
    \A s \in Sockets : hFile[s] = NoFd => pState[s] = "Closed"

(* SSConnectedTLS::close frees m_pSslCtx without a test: where sockets are not
   copied, the pointer is in that state always a context that was stored and not
   yet freed. *)
TlsContextOwned ==
    "assign" \notin Habits =>
        \A s \in Sockets : pState[s] = "ConnectedTLS" => ctx[s] = "owned" /\ ssl[s]

(* Using, closing and destroying objects never ends a program without the habits
   above, whatever connects, flushes and handshakes return.  Its open() can: a
   datagram address that did not resolve reaches the VERIFY(0) of the base class
   where Socket::open says it returns false (see Addressing!OpensAsDocumented). *)
OnlyOpenAborts ==
    Habits = {} => aborted \in {"no", "open"}

(* The descriptors of a program as NoLeak has them, none of any other. *)
OneOwner == Habits \intersect {"assign", "retry"} = {}
Ownership == INSTANCE DescriptorOwnership
    WITH Holders <- Sockets,
         open <- {f \in Fds : OneOwner /\ Open(f)},
         heldBy <- [f \in Fds |-> {s \in Sockets : OneOwner /\ hFile[s] = f}]

(* Such a program's objects keep the promise of DescriptorOwnership: a descriptor
   is acquired by an object that has none, and released by the one that has it. *)
ImplementsOwnership == Ownership!Spec

==============================================================================
