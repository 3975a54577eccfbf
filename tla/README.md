# A TLA+ model of sockstr

sockstr is a C++ library of socket streams: a `Socket` is a `std::iostream` over a TCP, UDP or TLS
connection, with blocking, polling and callback I/O. This directory holds its specifications, the
TLC models that check them and the proofs of what holds for every size. The models follow the Linux
build with OpenSSL, where `VERIFY` is `assert`.

## 1. The system

### Components

| Component | State | Operations | Talks to |
|---|---|---|---|
| **Socket and its states** (`Socket.cpp`, `SocketState.cpp`, `SocketStateTLS.cpp`, `Stream.cpp`) | `m_hFile`, `m_pState` (a singleton per state), `m_nProtocol`, `m_Status`, iostate bits, `m_pSsl`, `m_pSslCtx` | constructors, `open` by name and by address, `listen`, `close`, destructor, `operator=`, `abort`, options | the kernel's descriptors; `StreamBuf` (close flushes); OpenSSL |
| **StreamBuf** (`StreamBuf.cpp`) | put area in `outbuff[256]`, get area in `inbuff[256]` | `overflow`, `sync`, `underflow`, `uflow`, `pbackfail` | calls `read`/`write` of its stream and asks `queryStatus`; is called by `std::iostream` and by `SocketState::close` |
| **Connected I/O** (`SSConnected`, `SSConnectedTLS`) | `m_bAsyncMode`, the default callback, `m_Status` | `read`, `write`, worker threads `readerThread`, `writerThread` | the kernel's queues; the program's callbacks |
| **IPC messages** (`Socket::remote*`, `IPC.h`) | a static sequence counter, the swapped callback | `remoteProcedure`, `remoteReadData`, `remoteWriteReply` | connected I/O |
| **String reads** (`Socket::read(std::string&, ...)`) | none | read up to a delimiter | connected I/O |
| **ThreadManager** (`ThreadHandler.cpp/.h`) | a static list of thread ids | `create`, `joinAllWaiting`, `waitAll` | pthreads; no Makefile builds it and nobody else uses it |
| **Echo server** (`examples/echoserver.cpp`) | `exit_server`, the global server socket, a list of threads | accept loop, client threads, signal handler | `Socket` |
| **HTTP streams** (`HttpStream.cpp`, `examples/restserver.cpp`) | header fields, status line, the function of a request | `addHeader`, `clearHeaders`, `get`, `post`, `put`, `deleter`, `request`, `response` | connected I/O, string reads |
| **SocketAddr** (`SocketAddr.cpp`) | `portNumber_` in host order, `address_` with the port in network order, the cached `hostName_`, `isMulticast_` | constructors, `resolve`, `hostname`, `getSockAddr`, `setPortNumber` | the resolver; `Socket::open` reads it and writes a port back |
| **OAuth** | tokens as strings | build and sign requests | HTTP streams |

### What makes it hard

* **Sequences of calls.** Which system calls happen depends on `m_pState`, `m_hFile`, `m_Status` and
  the iostate bits together, and they are set in different places. A call that a state does not
  support is a `VERIFY(0)` and ends the process; `close` flushes, so closing can be such a call.
* **Failure half-way.** `open` has up to six steps; its three openers disagree on what a failed
  step gives back.
* **Two kinds of status.** `StreamBuf` decides whether a write succeeded from `m_Status`, which a
  successful write does not set; `clear()` resets the bits and not `m_Status`; a read that finds
  data resets both.
* **Threads without locks.** A worker reads `m_pState` and `m_hFile` when it runs, not when it was
  started, and uses the caller's buffer when its system call happens. A flush hands the put area to
  a worker and lets the program fill it again at once.
* **Messages over a byte stream.** `remoteReadData` and `HttpServerStream::request` take one read for
  one message. Packets in pieces, packets too large and text without a line's end are handled on
  paths of their own, which throw bytes away or go on at the wrong one. The struct a packet is read
  into says how large it may be, and the header read overwrites just that.
* **Two copies of a port.** A `SocketAddr` keeps its port twice, in two byte orders; `resolve` copies
  one way, `open` writes the port the kernel gave into one of them, and which opener is used depends
  on one while the connection depends on the other.
* **TLS behind the same calls.** `SSConnectedTLS` polls the descriptor with `FIONREAD` while OpenSSL
  may hold bytes of a record, and 0 from `SSL_write` passes for a success.
* **A signal handler** closes the server the main thread is blocked on, wherever that thread is.

What would be correct: every descriptor has one owner and is given back; the state fits the
descriptor; no `VERIFY` fails in legal use; bytes go out and come in once, in order; workers serve
the connection and the buffer they were started for and never touch a dead object; a connection goes
to the host and port that were asked for, over TLS when it should; packets are taken whole and
answered once, requests understood; each call that reads returns, and a server that is told to end
ends.
`PROJECT.json` lists each hazard at its line with the properties that watch it.

## 2. Modules

| Module | Models | Extends or instantiates |
|---|---|---|
| `DescriptorOwnership` | abstract: open descriptors and their holders | |
| `SocketLifecycle` | `Socket` and its states | `INSTANCE DescriptorOwnership` |
| `MCSocketLifecycle` | constants for TLC | `SocketLifecycle` |
| `SocketLifecycleProofs` | theorems | `SocketLifecycle` |
| `ByteChannel` | abstract: an ordered channel of bytes | |
| `StreamBuf` | `StreamBuf` over a connected stream, TCP or TLS | `INSTANCE ByteChannel` |
| `MCStreamBuf` | constants for TLC | `StreamBuf` |
| `SequenceLemmas` | lemmas about sequences that the proofs of buffers and connections share | |
| `StreamBufProofs` | theorems | `StreamBuf`, `SequenceLemmas` |
| `AsyncIO` | callback mode with worker threads | |
| `MCAsyncIO` | constants for TLC | `AsyncIO` |
| `AsyncIOProofs` | theorems | `AsyncIO`, `SequenceLemmas` |
| `IpcFraming` | IPC messages between a client and a server | |
| `HttpExchange` | one HTTP request and its response, every call of the client; string reads up to a delimiter | |
| `EchoServer` | the echo server: main thread, client threads, signal handler | |
| `Addressing` | `SocketAddr`, and what `open` takes from it and writes into it | |
| `MCAddressing` | constants for TLC | `Addressing` |
| `AddressingProofs` | theorems | `Addressing` |
| `MCIpcFraming`, `MCHttpExchange`, `MCEchoServer` | constants for TLC | each the module it is named after |
| `IpcFramingProofs`, `HttpExchangeProofs`, `EchoServerProofs` | theorems | each its module, and `SequenceLemmas` |

Most modules have **habits**: what the program permits itself beyond careful use. With no
habits a run asks whether the library is right for a disciplined caller; with habits, what survives
a careless one. `SocketLifecycle` and `AsyncIO` take a set of `Programs`, each with its habits and
how much it opens or writes, and the behaviour is that of one of them, `program`; `StreamBuf` has
`regime` (with the faults of the network), `IpcFraming` `network`, `polling` and `again`, variables
that no step changes either. So one run covers several programs, a property says in itself which of
them it is about, and the theorems have no hypotheses besides. A definition named `X_Something` above
`X` is a plausible bug in `X`: the mutant that shows a property can fail. It is not part of the
specification.

### SocketLifecycle

State: `pState`, `hFile`, `proto`, `io` (`good()`, whether the put area holds something,
`m_Status`), `ctx`, `ssl` for each object; `kernel`, what each descriptor is; `call`, the blocking
call an object's thread is in.

* `Socket::open` is `OpenCall`: the predicates `Refused`, `ToServer`, `ToTLS`, `ToClient` and
  `ToNobody` are the dispatch of `open(SocketAddr&)`, and each opener's outcomes are actions.
  Opening through a constructor, by name or by address differ in what they forget first
  (`Entered`) and in the bits a failure leaves (`Refuse`).
* `connect`, `SSL_connect` and `accept` block: the call and its return are two steps, so other
  objects, and a signal handler's `Close`, come in between. What the library does between two
  system calls is one step, because the object belongs to one thread.
* The flush in `close` is `SyncResults`/`SyncAborts`, used by `Close`, `Destroy`, `TlsFails` and
  `OpenThenClose` as in the code. `SSOpenedServer`, `SSOpenedClient` and `SSOpenedClientTLS` enter
  `SSClosed` first thing and are not states of the model.
* A `VERIFY` that fails is `Abort`, and `aborted` names the call it was in. A datagram address that
  did not resolve, opened without `modeCreate`, has no opener (`ToNobody`): `OpenNobody` is
  `SSClosed`'s `VERIFY(0)`.
* An object the program did not create is `s \notin live`. `operator=` copies what the code copies.

### StreamBuf

State: put area, get area with `gnext` = `gptr - eback`, iostate bits, `m_Status`, polling mode,
and the history: what was `accepted`, what is on the `wire`, what the peer `sent`, the kernel's
`queue`, what the program `got`. Bytes are numbered, so order and repetition show.

* `Put`, `Flush`, `Get`, `Unget` are one call of the `std::iostream` function with the virtual
  function under it, the raw call under that, and the bits libstdc++ sets from the result; `Close`
  is the `pubsync` of `SocketState::close` with its result ignored.
* `SendResults` and `ReceiveResults` are `write` and `read` of `SSConnected` and, when `secure`, of
  `SSConnectedTLS`. `regime` says what the network may do: a failing send, a short one (over TLS:
  `SSL_write` returns 0), a failing receive, a byte 0xFF.
* Over TLS the peer's bytes come in records. An `SSL_read` takes one record from the kernel into the
  SSL object and returns part of it: `decrypted` counts what is left there, and a poll that asks the
  kernel (`KernelEmpty`) does not see it.
* `setg(end, end)` after construction leaves a get area that is consumed but has bytes behind
  `gptr` (`Consumed`), which is why `unget` needs its guard.

### AsyncIO

State: the Socket (`alive`, `pState`, `hFile`), the program's thread (`main`), the workers (`job`,
one IOPARAMS each with its program counter), what each buffer holds (`content`), the kernel's
queues. A descriptor is named by its connection, so a worker that uses a later connection shows.

* `ReadPolls`/`ReadReturns` are `FIONREAD` and the `::recv` behind it, two calls between which a
  worker may take the bytes. `ReadSpawns` and `Write` start workers on the program's buffers,
  `StreamGet` on `inbuff`: a `get` that finds nothing returns EOF, and its byte comes by the callback.
* `Put` is `operator<<`, which only fills the put area; `Flush` and the flush of `close`
  (`CloseFlushes`) are `SyncWrites`: `outbuff` goes to a worker and is the program's again at once.
  What it puts there then is what the pending worker sends.
* A worker's steps are cut where the code touches what others change: load `m_pState`
  (`Dispatch`), load `m_hFile` and enter the call (`Enter`), the call's effect (`Receive`, `Send`),
  the callback (`Callback`), the end (`Finish`).
* `Close`, `Destroy` and `Reopen` interleave with all of that in a program with "closeBusy".
* The loop of `examples/asyncsock.cpp` reads into the same buffer every second, whatever is pending
  ("overlap", "sameBuffer"), and closes at its end ("closeBusy"). `MayStart`, `MayUse`, `NotLent` and
  `MayClose` say what programs without these habits wait for.

### IpcFraming

State: at each side `reader`, where `remoteReadData` is with its `uLength` and the header it has
read; the callback and the one it takes out meanwhile; bytes on their `wire` and in the `queue`;
`writers`, packets whose writer thread has not run; `sequence`, the static counter, which wraps
around at `Cookies` instead of 2^32. A byte is a pair of its packet and its place in it.

* `RemoteProcedure` and `RemoteWriteReply` are the calls with the write in them. `Write` is
  `Socket::write`: done at once, or left to a thread (`WriterSends`).
* `wPacketSize` is what the struct passed to a side's next `remoteReadData` holds: its own size if
  the program passes a fresh one each time, or (`again`) whatever the last header read into it said
  (`LeaveSize`), of a packet that was thrown away too. `StartRead` is the head of `remoteReadData`,
  which takes the size to accept from there and from `uMaxLength` (`Accepted`); a size below the
  header's fails its `VERIFY` (`pc` "aborted").
* Each way through the loop is an action: `NoData`, `ShortHeader`, `DiscardPacket`, `HeaderRead`,
  `PacketRead`, `ShortBody`, and `BodyOverruns` when more is read than the struct has room for
  (`pc` "overrun", of which nothing more is said). Bytes that are not a
  header give a size out of `Garbage`. A size below the header's makes the unsigned rest wrap, and
  the next read writes behind the packet: `pc` is "undefined" from then on.
* `Networks` says whether packets arrive whole or in pieces.

### HttpExchange

State: the client's header fields, which of its calls it is in and what that has read; the request,
counted in parts of which the first `Line` are its first line, then the fields, the blank line and
the message; the server's thread and the fields it found; the response as characters of which only
"cr" and "lf" are told apart; whether the connection was reset.

* `AddHeader` and `ClearHeaders` change the fields, `WriteRequest` is the write every call begins
  with, `WriteMessage` the second write of `post` and `put`. A server that closes with bytes unread,
  or that is written to after it closed, resets the connection: what was under way of the response
  may be lost (`Kept`), and a client that writes then meets SIGPIPE (`pc` "killed").
* `ReadChar` and `ReadNothing` are one turn of the loop of `Socket::read(std::string&, const
  std::string&)`; `Matched` is its matcher, which does not try a mismatching character again.
  `ReadBlock` is the one read of the calls with a buffer.
* `ServeRequest` is `HttpServerStream::request`, one read and the search for the line's end, which
  runs to the end of the buffer and not of the data (`Recognised`), and `parseHeaders` (`FieldsIn`),
  which takes a message's line for a field when it comes with the head. `RespondHead`, `RespondBody`
  and `CloseServer` are `response` and the thread's end.

### Addressing

State: one `SocketAddr` with its two ports, and the Socket opened with it: which kind of connection
it became (`conn`), where to, and which group it asked to join. History: what the program `asked` the
address for and did with it since, and what the connection was opened for (`sought`).

* A host is a string as `resolve` tells strings apart, with what `inet_pton` or the resolver makes of
  it. `Resolved` is `resolve`, whose failure can leave the old address, or `AddrNone`.
* `Openings` is `open(SocketAddr&)`: TLS for port 443 of an address before `modeCreate` is looked at,
  then a server, then a client. `Written` is the port of `getsockname` that a stream stores without
  `ntohs`; only `portNumber_` gets it (in the code through `setPortNumber`), so that opening again
  goes where it went first, but may be taken for TLS when the swapped local port is 443.
* `OpenName` is `open(const char*)`; `Parsed` is its parsing with the default port of a scheme. A
  service that `getservbyname` does not know leaves port 0 (`ServicePorts`).
* `stopped` says what ended the program: `VERIFY(0)` of an open without an opener, `std::get` of an
  address that is not there, `substr` of an empty name.

What a reader might not expect and the model shows: port 443 of an address can be a TLS client and
nothing else, whatever the flags; TLS clients make IPv4 sockets only; a datagram server whose host
did not resolve listens on every interface; "//host:port" never resolves; the port of a service's
name is stored in network order and used as if it were in host order; an IPv6 group with a name in
the DNS cannot be joined, as the text `hostname` returns is then the name.

### EchoServer

State: the main thread with `exit_server` and the state of `serverSock`; for each client its thread,
its Socket (`good()`, put area), its end of the connection and the characters between them.

* `Loop`, `Listen`, `Accept`, `AcceptFails`, `Spawn`, `After`, `Join` are `main`; `ThreadLoop` to
  `ThreadExits` are `clientThread` in block and in string mode. `Signal` is the handler, possible
  between any two steps of the main thread and during its `accept`.
* A character in `Eofs` is 0xFF, which a string read takes for its delimiter. `SendResults` has what
  TCP answers a server that writes to a client that has gone, SIGPIPE included (`ended` "killed").

## 3. Runs

| Run | Question | Result |
|---|---|---|
| `socket` | two objects, two descriptors; a program that opens every kind of address, and careless ones | eight properties hold (96 thousand states) |
| `streambuf` | TCP and TLS; a program that stops at the first failure, one with every habit, and a network with every fault | five properties hold (990 thousand states) |
| `streambuf_polling` | polling and flushing without any fault | `OutputOrder` fails: bytes are sent twice |
| `async` | six programs, from one read and one write at a time to overlapping calls on one buffer, two connections, closes under workers | six properties hold (546 thousand states) |
| `async_close` | close while a worker starts | `NoAbort` fails |
| `async_overlap` | a read while an earlier one waits | `NeverBlocks` fails: the program's thread waits inside `::recv` |
| `ipc_framing` | two calls and their answers, whole and in pieces, blocking and polling, structs fresh or used again | six properties hold (498 thousand states) |
| `http_exchange` | every call, fields and messages, four responses, any pieces, resets | five properties hold (447 thousand states) |
| `addressing` | every host, port, service and name, resolved and opened any number of times | five properties hold (275 thousand states) |
| `addressing_open` | every host at port 80, opened as the comment on `open` says | `OpensAsDocumented` fails: `VERIFY(0)` instead of false |
| `echo_server` | two clients, block and string mode, signals anywhere | four properties hold (108 thousand states) |
| `echo_signal` | a signal between the loop's test and `listen()` | `ExitsCleanly` fails: the process aborts |

The five that fail are disagreements between the code and its own comments or documentation; each
is quoted in `PROJECT.json` under `findings`. `OpensAsDocumented` has a second counterexample: with
`Ports = {443}` in `AddressingOpen.cfg` TLC finds an address that gets a TLS client although
`modeCreate` was passed.

Some properties carry a condition, and without it the code does not have them.
* *SocketLifecycle*: `ExclusiveOwnership`, `StateMatchesKernel` and `TlsContextOwned` need a program
  without `operator=`, `NoLeak` and `ImplementsOwnership` one that does not open what is open
  either, `OnlyOpenAborts` one without habits. `StateHasHandle` holds of all.
* *StreamBuf*: `OrderWhenReliable` and `KeepsChannel` need a program that neither clears nor writes
  past the buffer and a network that sends all or nothing, `NothingLost` only the latter,
  `InputOrder` no byte 0xFF.
* *AsyncIO*: `InOrder` needs one read at a time, a buffer for each call and no close under a worker:
  overlapping reads do overtake each other, and a worker asked for a connection's bytes can be handed
  the next one's. `Conserved` needs only a buffer for each call, and so does `WritesAsPassed`, which
  lets newer text in the put area replace what was flushed if the program rushes, and speaks of the
  order on the wire if it does not overlap, rush or close early. `WorkersEndInTime` needs no close
  under a worker, `ReadersServed` neither that nor overlapping reads.
* *IpcFraming*: `WholePackets`, `NoneLost` and `AnswersItsCall` need packets that arrive whole.
  `NoneLost` needs packets that fit and, where a struct is used again, do not grow. `FitsRoom` says
  when a read can go beyond its struct: only one used again, without a limit that its room allows.
* *HttpExchange*: `ReadsAsWritten` needs a request head that arrives whole and fits the buffer, and a
  text in which no CR follows a CR; `RequestUnderstood` one that arrives whole.
* *EchoServer*: that nothing stays behind (second part of `EchoesInOrder`) needs block mode.
* *Addressing*: `GoesWhereAsked` needs that `resolve` is not called on an address after it was opened
  and that its port is not a service's; `SecureByPort` is about clients whose address no open has
  written into; `JoinsGroup` needs that `resolve` is called once; `RunsOn` lists the two ways in which
  opening a `SocketAddr` ends the program.

The runs contain the other cases too, and the properties without the condition (`StateHasHandle`,
`FitsRoom`, `PollingReturns`, `ReadsPrefix`, `GetReturns`, the first part of `EchoesInOrder`) say what
is left there.

**Bounds.** *SocketLifecycle*: two objects are enough for every property, which relate at most two;
two descriptors let one object hold one while another is opened, and make reuse of a number
happen. The program without habits opens a target for each opener, stream and datagram, and the
datagram address that did not resolve; those with habits open the kinds whose handling differs for
them. The state space is finite without further bounds; objects and descriptors are symmetric. *StreamBuf*: buffers of two bytes
fill, overflow and refill within `MaxOut`, `MaxIn` = 3 bytes, and a record can be larger than the
buffer; `MaxWire` cuts off endless repetition of the same flush. *AsyncIO*: two workers give every race of two workers and the program's
thread; `MaxConn` = 2 gives a close and a reopen; `MaxIn`, `MaxOut` = 2 make order meaningful, and
are split among the programs (`writes`, `opens`): two messages on one connection, or one and two
connections, so that each habit meets what it can break. *IpcFraming*: a header of two bytes and packets of two,
three and four give a packet that is all header, one that fits `Room` and one that does not, whose
size stays in a struct that is used again; two calls let one packet be mistaken for part of
another and, with `Cookies` = 2, the counter wrap. *HttpExchange*: a first line of two parts and a
buffer of four, with heads of three to five parts that fit, that fit with a message behind them, and
that do not; the responses (`MCHttpExchange`) have two lines or a stray CR, no body or a line and the
beginning of another, and do or do not fit a block of `Room` = 3. *Addressing*: nine hosts, one of
each kind and groups with and without a name; ports 80 and 443; two local ports, of which 47873 is
443 with its bytes swapped; names with every scheme and with and without a port. A host with colons
comes without a port in a name (`NameAssumption`): behind it the port would be part of the address, a
text of its own for each port, which the hosts of the model do not have. *EchoServer*: with two clients one
connects, writes or closes while the other's thread is served or joined; the second of `MaxIn` = 2
characters is 0xFF. `CHECK_DEADLOCK FALSE` stands where the program may stop: after an abort, after
it destroyed the Socket and its workers ended, or when all calls are made and answered.

**Fairness** is weak and given to threads that can run, because the operating system schedules them.
*AsyncIO*: `WorkerStep(w)` for each worker. A worker blocked in `recv` on a
silent peer cannot run, so `WorkerStep` is not enabled and nothing is assumed of it, of the peer,
or of what the program calls. `ReadersServed` needs no more: if bytes wait for a blocked reader, it
ends. *IpcFraming*: a side that is in `remoteReadData` goes on while it can; of the network and the
other program nothing is assumed. *HttpExchange*: the client in `get`, the server's thread and the
network, which delivers what it carries. *EchoServer*: the main thread and the client threads;
nothing makes a client connect, send or close, nor a signal come.

## 4. Proofs

Every safety property and both refinements that a passing run checks is a theorem, checked by TLAPS
for all values of the constants under the modules' named assumptions. Each is proved from an
inductive invariant: it holds initially, every action keeps it, and it implies the property. The
invariants were checked by TLC on the runs' instances first. Which programs a theorem is about stands
in the property; the proof has one invariant for them, conditional on their habits.

**SocketLifecycleProofs.** `TypeCorrect`: the type invariant. Ownership looks at a step only through
what it does to descriptors: it *keeps* them, *takes* one that was free, *drops* one (closes and
forgets) or *forgets* one (`HandleStep`); lemma `HandleSteps` is the case analysis over `Next`.
`OwnershipHolds` (`ExclusiveOwnership`, and that what is held is open, `HandleIsOpen`) then holds for
a program without `operator=` whatever else it does. Neither half is inductive alone: taking a free descriptor keeps
ownership exclusive because what is held is open, and dropping one keeps what is held open because
ownership is exclusive; `OwnershipInv` is both with the types. `NoLeakHolds` needs also that the
program does not open what is open, the one way to forget a descriptor that is held.
`OwnershipImplemented` maps the four shapes to `Acquire`, `Release` and stuttering of
`DescriptorOwnership`.

`StatesHaveHandles` is about every program: `ObjectSound` adds that an object in the middle of an
opener is still in `SSClosed` with its new descriptor, and that only objects that exist are in a
call. `StatesMatchKernel` (no `operator=`) needs ownership besides, as a descriptor of another object
might change under this one. `TlsContextIsOwned` rests on the SSL object and the context being there
together. `NeverAborts` (`OnlyOpenAborts`) is about programs with no habit (`Careful`). Its invariant `StreamSound` says what makes the flush in `close` harmless: bytes wait in
a good stream only while it is connected, `m_Status` is then SC_OK, and an object that does not exist
yet is fresh.

**StreamBufProofs.** `TypeCorrect` for buffers of any size, over TCP and TLS. `OutputInOrder` and
`ChannelImplemented` are about the regimes that are `Reliable`: no `clear()`, no raw writes between
buffered ones, no short send (`SettingStays`: a regime is for life). Each condition is needed:
`streambuf_polling` breaks `OutputOrder` with `clear()` alone. `OutputOrder` is not inductive, since
a flush keeps or forgets the put area by `m_Status`; `StatusCovered` (a good stream has `m_Status`
SC_OK) makes that test mean what it should, and after `Close`, when `OutputOrder` says nothing, the
invariant keeps that the wire extends to what was written. `InputInOrder` and `NothingForgotten` are
inductive with the types: of the input, that what was got, the get area from `gptr` on, what the SSL
object holds and the kernel's queue are, put together, what the peer sent.

**AsyncIOProofs.** The types (`AsyncTypeCorrect`) hold for every program. Each other theorem has the
weakest invariant that carries it.
* `WorkersInTime`, from `AwaitInv`, of programs that wait before they close (`Waits`), however their
  calls overlap: a worker that is not at its end is awaited, so the Socket is connected and the worker
  on its connection (`Attended`).
* `WrittenAsPassed`. What a message is when it is sent follows from `LentInv`, of programs that give
  each call a buffer of its own (`OwnBuffers`): only the put area is with several calls (`Lent`), and
  what a worker was given is in its buffer, or a newer text is (`Kept`). In which order messages go out
  follows from `OrderInv`, of programs with no habit but "stream": what is on the wire, with the
  worker and in the put area comes in this order (`Sends`).
* `BytesInOrder`, from `FlowInv`, of programs with one read at a time (`InTurn`): those awaited are one
  reader and one writer (`Apart`), none reads while the program is inside `::recv` (`Polled`), and what
  was handed over, what a worker holds and the queue are, put together, 1, 2, ... up to what was sent.
* `BytesConserved`, from `PlaceInv`, of programs under `OwnBuffers`: overlapping calls and closes are
  allowed, but two on one buffer overwrite each other's bytes. `OneEach` treats the kernel's queues,
  the workers' hands and the bytes handed over as places, and every step moves at most one byte from
  one to another (`ByteMoves`) or adds a new one (`ByteComes`).

**IpcFramingProofs.** `IpcTypeCorrect` and `PacketsFitRoom` hold however the bytes arrive. What makes
the second inductive is `RoomInv`: a fresh struct holds its own size, what was accepted is within the
limit and, for a fresh struct, the room, and what is still to be read behind a header is within both
together with the header. When packets arrive whole, `WholeInv` says that queue and wire of a side are packets put
together, with the reader at the start of one or at the end of the header it has read, and that what
was taken comes before what is there. `PacketsWhole` follows; `CallsAnsweredOnce` adds `CookieInv`,
and needs a server that does not use one reply struct for several answers; `NothingLostOnTheWay` adds
`LossInv`, in which `StructKnows` says that a struct used again holds no less than the size of any packet
on its way. Calls are told apart by their place among the calls and not by their cookie, so the counter
may wrap around.

**HttpExchangeProofs.** `HttpTypeCorrect` and `ReadsArePrefix` hold for any pieces and any reset:
`StreamInv` says that what the client took, what arrived and what is on its way are what the server
wrote, or a prefix once the connection is gone. `ScanInv` is the correctness of the delimiter search: `matched` is the
length of the longest beginning of the delimiter that the text read ends with (`Tracks`). The code
does not try a mismatching character again, so this is true only of texts in which no CR
follows a CR, which is the property's condition. `RequestIsUnderstood` follows from what of a request
can have arrived (`ServedInv`), and `TextReadAsWritten` from `PieceInv`: with the head read in one
piece nothing is left behind, so no reset loses any of the response, until the client writes a message.
`HeadAssumption` says that the blank line of a response head is its end, since `response` and
`expandHeaders` write lines that are not empty.

**EchoServerProofs.** `EchoTypeCorrect`, `EchoOrdered` and `EchoEndsEmpty`, for any number of clients.
`ClientInv` says of one client: what came back begins what it sent (`Ordered`), and as long as it
has not closed, its stream is good and what came back, the put area, the thread's buffer and what
waits are, in this order, all of what it sent (`Whole`); in which steps the
thread's buffer and the put area are empty (`Emptied`); that a thread has a connection (`Served`).
`MainInv` is the main thread's part: who is spawned, that nobody waits at a closed server, and that
`main` returns behind all its threads.

**AddressingProofs.** `TypeCorrect`, `GoesWhereAskedHolds`, `SecureByPortHolds`, `JoinsGroupHolds` and
`RunsOnHolds`, for any hosts, ports and names. `resolve` and `open` are looked at once each, in the
lemmas `Resolving` and `Opening` (by way of `OpenFrom`, what every opener's outcome has in common).
The invariant is `AddressInv`: `AsAsked` says which of the two copies of the port still is the one
asked for (`portNumber_` until `open` has written into it, `address_` until `resolve` reads
`portNumber_` after that), from the record `asked` keeps of what was done to the address, and the
first two properties are not inductive without it. For the last two,
`GroupInv` adds what a `SocketAddr` resolved once has of its host (`MadeFrom`): whether it is a group,
and the name cached for it. `SwapType` is the only arithmetic.

**SequenceLemmas.** Sequences cut, joined, compared as prefixes and taken as sets. The induction
theorems of the library take an operator as a parameter, which the provers do not instantiate;
`LeastNatural` (a set of naturals that is not empty has a least element) is first-order and does the
same work by a smallest counterexample. With it the last sections prove what `FlattenSeq`, a
recursive function, returns.

**Only model-checked.** Liveness: `ReadersServed`, `PollingReturns`, `GetReturns`, `EndsWithClients`.
The prover has no rules for fairness and `ENABLED`, so these stay with TLC. The five violations are
counterexamples and need no proof.

## 5. Plan

1. *Done*: `SocketLifecycle`, `StreamBuf` with its TLS data path, `AsyncIO`, their abstract
   specifications and runs; `IpcFraming`, `HttpExchange` with every call, `EchoServer`, `Addressing`;
   the theorems above.
2. Abstract specifications for the newer modules, as theorems from the invariants that exist:
   `IpcFraming` with whole packets implements a queue of packets in each direction (from `WholeInv`);
   a connection of `EchoServer` implements `ByteChannel` (from `ClientInv`); `AsyncIO` for programs
   with one read at a time implements it for the bytes of one connection (from `FlowInv`).
3. Properties of more programs, where the invariant allows: which bytes a worker may be handed after a
   close and a reopen, instead of excluding it; `TlsContextOwned` with assignments between objects that
   are not TLS.
4. The safety half of the liveness properties: in which states a thread can be stuck, as invariants.
5. `ThreadManager` last, if at all: no Makefile builds it.

## 6. Not modelled

Formatting and printing, socket options other than group membership, open flags that only forbid
reading or writing, `abort()` (empty on Linux), OAuth, the status line, the encoders of
`HttpHelpers` and URLs (text), `ThreadManager` (not built), the Windows and MacOS variants, UDP
workers (`writerThread` passes a `std::variant` where a `sockaddr` is expected), worker threads on a
TLS connection (they share an SSL object without a lock, which OpenSSL leaves undefined), and the
`SSReading` and `SSWriting` classes, which no code enters.
