------------------------------- MODULE AsyncIO -------------------------------
(***************************************************************************)
(* Asynchronous reads and writes of one TCP Socket in callback mode: the    *)
(* program's thread, and the detached worker threads that SSConnected::read *)
(* and SSConnected::write start.  A worker shares with the program the      *)
(* Socket (m_pState, m_hFile), which it reads without a lock, and the       *)
(* buffer, which it reads or fills when its system call is made.  A callback *)
(* is registered all the time; without one the calls are those of StreamBuf.  *)
(* The StreamBuf of the Socket passes its own buffers to the same calls.    *)
(*                                                                          *)
(* A descriptor is named by the connection it stands for: 1 is the first    *)
(* connection the object has, 2 the one it is opened for next.  Messages    *)
(* and the peer's bytes are pairs; an I/O call moves one of them.           *)
(***************************************************************************)
EXTENDS Integers, SequencesExt

CONSTANTS
    Workers,    \* bound: worker threads at a time
    Bufs,       \* the buffers the program passes to read and write
    OutBuf,     \* outbuff, the put area of the StreamBuf
    InBuf,      \* inbuff, its get area
    MaxIn,      \* bound: bytes the peer sends on a connection
    MaxOut,     \* bound: messages the program writes
    MaxConn,    \* bound: connections the object has in turn
    Programs    \* the programs: what each permits itself, and how much it does

(***************************************************************************)
(* "overlap"      starts a read (write) while it awaits a read's (write's)  *)
(*                callback                                                  *)
(* "sameBuffer"   passes read and write a buffer that a call it awaits was  *)
(*                given                                                     *)
(* "stream"       writes with operator<< and flush, and reads with get()    *)
(* "rushes"       writes text while a call it awaits was given the put area, *)
(*                or calls write() while the put area holds text            *)
(* "closeBusy"    closes the socket while it awaits a callback, or while    *)
(*                the StreamBuf holds text                                  *)
(*                                                                          *)
(* examples/asyncsock.cpp permits itself "overlap" and "sameBuffer" in its  *)
(* loop, and "closeBusy" at the end of it.                                  *)
(***************************************************************************)
AllHabits == {"overlap", "sameBuffer", "stream", "rushes", "closeBusy"}

ASSUME BufAssumption == OutBuf \notin Bufs /\ InBuf \notin Bufs \union {OutBuf}
ASSUME BoundAssumption == MaxIn \in Nat /\ MaxOut \in Nat /\ MaxConn \in Nat \ {0}

(* It writes so many messages at most, and opens so many connections in turn. *)
Program == [habits : SUBSET AllHabits, writes : 0 .. MaxOut, opens : 1 .. MaxConn]
ASSUME ProgramAssumption == Programs \subseteq Program

VARIABLES
    program,    \* the program that runs
    alive,      \* the Socket exists
    pState,     \* m_pState
    hFile,      \* m_hFile
    latest,     \* the connections the object has had
    main,       \* the program's thread: idle, inside ::recv, or inside close()
    put,        \* the put area holds text
    good,       \* good(): the state of the iostream
    job,        \* each worker: its IOPARAMS and how far it is
    awaited,    \* the workers whose callback the program awaits
    content,    \* what each buffer holds
    sent,       \* bytes the peer sent, for each connection
    queue,      \* those that wait in the kernel
    delivered,  \* those the program was handed, by the connection it asked
    finished,   \* the peer has closed its end of the connection
    written,    \* messages the program wrote
    wire,       \* messages that were sent
    aborted,    \* a VERIFY failed
    trespassed  \* a worker used the Socket after it was destroyed

socketVars == <<alive, pState, hFile, latest>>
streamVars == <<put, good>>
peerVars == <<sent, finished>>
vars == <<program, socketVars, streamVars, main, job, awaited, content, peerVars, queue, delivered,
          written, wire, aborted, trespassed>>

Habits == program.habits
Conns == 1 .. MaxConn
NoConn == 0                 \* INVALID_SOCKET
Nothing == <<0, 0>>
Byte(c, k) == <<c, k>>
Message(m) == <<0, m>>
Items == {<<c, k>> : c \in 0 .. MaxConn, k \in 0 .. MaxIn + MaxOut}
AllBufs == Bufs \union {OutBuf, InBuf}
Idle == [pc |-> "idle", op |-> "read", buf |-> OutBuf, item |-> Nothing, asked |-> NoConn, on |-> NoConn]
Busy(w) == job[w].pc # "idle"

TypeOK ==
    /\ program \in Programs
    /\ alive \in BOOLEAN
    /\ pState \in {"Connected", "Closed"}
    /\ hFile \in Conns \union {NoConn}
    /\ latest \in Conns
    /\ main \in {"idle", "receiving", "closing"}
    /\ put \in BOOLEAN /\ good \in BOOLEAN
    /\ job \in [Workers -> [pc : {"idle", "spawned", "dispatched", "blocked", "calling", "ending"},
                            op : {"read", "write"}, buf : AllBufs, item : Items,
                            asked : Conns \union {NoConn}, on : Conns \union {NoConn}]]
    /\ awaited \subseteq Workers
    /\ content \in [AllBufs -> Items]
    /\ sent \in [Conns -> 0 .. MaxIn]
    /\ queue \in [Conns -> Seq(Items)]
    /\ delivered \in [Conns -> Seq(Items)]
    /\ finished \subseteq Conns
    /\ written \in Seq(Items) /\ Len(written) <= MaxOut
    /\ wire \in Seq(Items)
    /\ aborted \in BOOLEAN
    /\ trespassed \in BOOLEAN

Init ==
    /\ program \in Programs
    /\ alive = TRUE
    /\ pState = "Connected"
    /\ hFile = 1
    /\ latest = 1
    /\ main = "idle"
    /\ put = FALSE
    /\ good = TRUE
    /\ job = [w \in Workers |-> Idle]
    /\ awaited = {}
    /\ content = [b \in AllBufs |-> Nothing]
    /\ sent = [c \in Conns |-> 0]
    /\ queue = [c \in Conns |-> <<>>]
    /\ delivered = [c \in Conns |-> <<>>]
    /\ finished = {}
    /\ written = <<>>
    /\ wire = <<>>
    /\ aborted = FALSE
    /\ trespassed = FALSE

------------------------------------------------------------------------------
(* The program's thread. *)

(* It may call an I/O function of the connected Socket. *)
Ready == ~aborted /\ alive /\ main = "idle" /\ pState = "Connected"
MayStart(op) == "overlap" \in Habits \/ \A v \in awaited : job[v].op # op
NotLent(b) == \A v \in awaited : job[v].buf # b
MayUse(b) == "sameBuffer" \in Habits \/ NotLent(b)

(* createIOParams and a detached thread w. *)
Spawn(w, op, b, item) ==
    /\ ~Busy(w) /\ w \notin awaited
    /\ job' = [job EXCEPT ![w] = [pc |-> "spawned", op |-> op, buf |-> b, item |-> item,
                                  asked |-> hFile, on |-> NoConn]]
    /\ awaited' = awaited \union {w}

(* SSConnected::read in asynchronous mode asks FIONREAD first: if bytes wait,
   it goes on to ::recv in the program's own thread. *)
Pollable == queue[hFile] # <<>>
ReadPolls ==
    /\ Ready
    /\ MayStart("read")
    /\ Pollable
    /\ main' = "receiving"
    /\ UNCHANGED <<socketVars, streamVars, job, awaited, content, queue, delivered, peerVars,
                   written, wire, aborted, trespassed>>

(* The byte is in the buffer b that was passed, and the program takes it there;
   a worker may have been given b too.  read() clears the state of the stream;
   after the peer's last byte it sets eofbit. *)
ReadReturns(b) ==
    /\ ~aborted
    /\ main = "receiving"
    /\ MayUse(b)
    /\ main' = "idle"
    /\ \/ /\ queue[hFile] # <<>>
          /\ queue' = [queue EXCEPT ![hFile] = Tail(@)]
          /\ delivered' = [delivered EXCEPT ![hFile] = Append(@, Head(queue[hFile]))]
          /\ content' = IF NotLent(b) THEN content ELSE [content EXCEPT ![b] = Head(queue[hFile])]
          /\ good' = TRUE
       \/ /\ queue[hFile] = <<>> /\ hFile \in finished
          /\ good' = FALSE
          /\ UNCHANGED <<content, queue, delivered>>
    /\ UNCHANGED <<socketVars, put, job, awaited, peerVars, written, wire, aborted, trespassed>>

(* No byte waits: a worker is to wait for one. *)
ReaderSpawns(w, b) ==
    /\ Ready
    /\ MayStart("read")
    /\ MayUse(b)
    /\ queue[hFile] = <<>>
    /\ Spawn(w, "read", b, Nothing)
    /\ UNCHANGED <<socketVars, put, main, content, queue, delivered, peerVars, written, wire,
                   aborted, trespassed>>

(* It returns 0 at once, and clears the state of the stream. *)
ReadSpawns(w, b) == good' = TRUE /\ ReaderSpawns(w, b)

(* istream::get: underflow passes inbuff to read(), is told of no byte, and get
   returns EOF and sets eofbit and failbit; the byte comes with the callback and
   is never in the get area.  A byte that a poll finds is got at once. *)
StreamGet(w) ==
    /\ "stream" \in Habits
    /\ good
    /\ good' = FALSE
    /\ ReaderSpawns(w, InBuf)

(* SSConnected::write, and remoteProcedure, which writes with a callback of
   its own: the program fills the buffer and passes it. *)
NextMessage == Message(Len(written) + 1)
Filled(b) == [content EXCEPT ![b] = NextMessage]
Write(w, b) ==
    /\ Ready
    /\ MayStart("write")
    /\ MayUse(b)
    /\ "rushes" \in Habits \/ ~put
    /\ Len(written) < program.writes
    /\ written' = Append(written, NextMessage)
    /\ content' = Filled(b)
    /\ Spawn(w, "write", b, NextMessage)
    /\ UNCHANGED <<socketVars, streamVars, main, queue, delivered, peerVars, wire, aborted,
                   trespassed>>

(* operator<< on a good stream: text goes to the put area, which a pending
   worker may have yet to send. *)
Put ==
    /\ "stream" \in Habits
    /\ Ready /\ good /\ ~put
    /\ "rushes" \in Habits \/ NotLent(OutBuf)
    /\ Len(written) < program.writes
    /\ written' = Append(written, NextMessage)
    /\ content' = Filled(OutBuf)
    /\ put' = TRUE
    /\ UNCHANGED <<socketVars, good, main, job, awaited, queue, delivered, peerVars, wire,
                   aborted, trespassed>>

(* Mutant: sync() resets the put area before it passes it to write(). *)
SyncWrites_ResetsFirst(w) ==
    /\ put /\ good
    /\ put' = FALSE
    /\ Spawn(w, "write", OutBuf, content[OutBuf])
    /\ content' = [content EXCEPT ![OutBuf] = Nothing]
    /\ UNCHANGED <<socketVars, good, queue, delivered, peerVars, written, wire, aborted,
                   trespassed>>

(* sync(): passes outbuff to write(), finds m_Status SC_OK, and resets the put
   area at once.  overflow() does the same when the put area is full. *)
SyncWrites(w) ==
    /\ put /\ good
    /\ put' = FALSE
    /\ Spawn(w, "write", OutBuf, content[OutBuf])
    /\ UNCHANGED <<socketVars, good, content, queue, delivered, peerVars, written, wire,
                   aborted, trespassed>>

Flush(w) ==
    /\ Ready
    /\ MayStart("write")
    /\ main' = main
    /\ SyncWrites(w)

(* SocketState::close first has sync() send what the put area holds.  If the
   stream is not good, sync() throws it away. *)
ClosedState_Stays == "Listening"
ClosedState == "Closed"
MayClose == "closeBusy" \in Habits \/ (awaited = {} /\ ~(put /\ good))
CloseFlushes(w) ==
    /\ Ready
    /\ MayClose
    /\ main' = "closing"
    /\ SyncWrites(w)

Close ==
    /\ ~aborted /\ alive /\ pState = "Connected"
    /\ main = "closing" \/ (main = "idle" /\ MayClose /\ ~(put /\ good))
    /\ main' = "idle"
    /\ put' = FALSE
    /\ hFile' = NoConn
    /\ pState' = ClosedState
    /\ UNCHANGED <<alive, latest, good, job, awaited, content, queue, delivered, peerVars,
                   written, wire, aborted, trespassed>>

(* ~Socket, after the close() that it calls. *)
Destroy ==
    /\ ~aborted /\ alive /\ main = "idle"
    /\ pState = "Closed"
    /\ alive' = FALSE
    /\ UNCHANGED <<pState, hFile, latest, streamVars, main, job, awaited, content, queue,
                   delivered, peerVars, written, wire, aborted, trespassed>>

(* open() connects the closed Socket to a peer again. *)
Reopen ==
    /\ ~aborted /\ alive /\ main = "idle"
    /\ pState = "Closed"
    /\ latest < program.opens
    /\ latest' = latest + 1
    /\ hFile' = latest + 1
    /\ pState' = "Connected"
    /\ UNCHANGED <<alive, main, streamVars, job, awaited, content, queue, delivered, peerVars,
                   written, wire, aborted, trespassed>>

------------------------------------------------------------------------------
(* A worker thread. *)

At(w, pc) == ~aborted /\ job[w].pc = pc
Goes(w, pc) == job' = [job EXCEPT ![w].pc = pc]

(* It uses the Socket of its IOPARAMS. *)
Trespasses(w) ==
    /\ ~alive
    /\ trespassed' = TRUE
    /\ Goes(w, "ending")
    /\ UNCHANGED aborted

(* Its system call uses the buffer, which may be a part of the Socket. *)
UsesBuffer(w) ==
    trespassed' = (trespassed \/ (~alive /\ job[w].buf \in {OutBuf, InBuf}))

(* read_thread_handler, write_thread_handler: load m_pState, and call its
   readerThread or writerThread, which in SSClosed is a VERIFY(0). *)
Dispatch(w) ==
    /\ At(w, "spawned")
    /\ \/ Trespasses(w)
       \/ /\ alive /\ pState = "Connected"
          /\ Goes(w, "dispatched")
          /\ UNCHANGED <<aborted, trespassed>>
       \/ /\ alive /\ pState = "Closed"
          /\ aborted' = TRUE
          /\ UNCHANGED <<job, trespassed>>
    /\ UNCHANGED <<socketVars, streamVars, main, awaited, content, queue, delivered, peerVars, written, wire>>

(* Load m_hFile and enter ::recv or ::send with it.  Both fail at once on
   INVALID_SOCKET, and then there is no callback. *)
Enter(w) ==
    /\ At(w, "dispatched")
    /\ \/ Trespasses(w)
       \/ /\ alive
          /\ job' = [job EXCEPT ![w].pc = IF hFile = NoConn THEN "ending" ELSE "blocked",
                                ![w].on = hFile]
          /\ UNCHANGED <<aborted, trespassed>>
    /\ UNCHANGED <<socketVars, streamVars, main, awaited, content, queue, delivered, peerVars, written, wire>>

Waiting_WholeBuffer(c) == Len(queue[c]) > 1
Waiting(c) == queue[c] # <<>>

(* Mutant: ::recv leaves the byte in the kernel. *)
Receive_Peeks(w) ==
    /\ At(w, "blocked")
    /\ job[w].op = "read"
    /\ Waiting(job[w].on)
    /\ content' = [content EXCEPT ![job[w].buf] = Head(queue[job[w].on])]
    /\ job' = [job EXCEPT ![w].pc = "calling", ![w].item = Head(queue[job[w].on])]
    /\ UNCHANGED <<socketVars, streamVars, main, awaited, queue, delivered, peerVars, written, wire,
                   aborted, trespassed>>

(* ::recv returns a byte into the buffer.  After the peer's last byte it
   returns 0, and it may fail once the socket is closed here; then there is no
   callback. *)
Receive(w) ==
    /\ At(w, "blocked")
    /\ job[w].op = "read"
    /\ LET c == job[w].on IN
       \/ /\ Waiting(c)
          /\ content' = [content EXCEPT ![job[w].buf] = Head(queue[c])]
          /\ queue' = [queue EXCEPT ![c] = Tail(@)]
          /\ job' = [job EXCEPT ![w].pc = "calling", ![w].item = Head(queue[c])]
          /\ UsesBuffer(w)
       \/ /\ (queue[c] = <<>> /\ c \in finished) \/ c # hFile
          /\ Goes(w, "ending")
          /\ UNCHANGED <<content, queue, trespassed>>
    /\ UNCHANGED <<socketVars, streamVars, main, awaited, delivered, peerVars, written, wire, aborted>>

(* ::send takes what the buffer holds now. *)
Send(w) ==
    /\ At(w, "blocked")
    /\ job[w].op = "write"
    /\ \/ /\ wire' = Append(wire, content[job[w].buf])
          /\ UsesBuffer(w)
          /\ Goes(w, "calling")
       \/ /\ job[w].on \in finished
          /\ Goes(w, "ending")
          /\ UNCHANGED <<wire, trespassed>>
    /\ UNCHANGED <<socketVars, streamVars, main, awaited, content, queue, delivered, peerVars,
                   written, aborted>>

(* The callback of a read takes what the buffer holds now.  Nobody looks at
   what it holds from then on, unless another call was given it too, or it is
   the put area and holds text again. *)
Callback(w) ==
    /\ At(w, "calling")
    /\ Goes(w, "ending")
    /\ awaited' = awaited \ {w}
    /\ delivered' = IF job[w].op = "read"
                    THEN [delivered EXCEPT ![job[w].asked] = Append(@, content[job[w].buf])]
                    ELSE delivered
    /\ content' = IF \/ \E v \in Workers \ {w} : Busy(v) /\ job[v].buf = job[w].buf
                     \/ job[w].buf = OutBuf /\ put
                  THEN content ELSE [content EXCEPT ![job[w].buf] = Nothing]
    /\ UNCHANGED <<socketVars, streamVars, main, queue, peerVars, written, wire, aborted, trespassed>>

(* Mutant: the handler uses the Socket once more. *)
Finish_TouchesSocket(w) ==
    /\ At(w, "ending")
    /\ job' = [job EXCEPT ![w] = Idle]
    /\ trespassed' = (trespassed \/ ~alive)
    /\ UNCHANGED <<socketVars, streamVars, main, awaited, content, queue, delivered, peerVars, written, wire,
                   aborted>>

(* The handler frees the IOPARAMS and ends the thread. *)
Finish(w) ==
    /\ At(w, "ending")
    /\ job' = IF w \in awaited THEN [job EXCEPT ![w].pc = "idle"] ELSE [job EXCEPT ![w] = Idle]
    /\ UNCHANGED <<socketVars, streamVars, main, awaited, content, queue, delivered, peerVars, written, wire,
                   aborted, trespassed>>

------------------------------------------------------------------------------
(* The peer of a connection, as long as somebody here can tell. *)

Seen(c) == c = hFile \/ \E w \in Workers : job[w].on = c /\ job[w].pc = "blocked"

PeerSends(c) ==
    /\ Seen(c) /\ c \notin finished
    /\ sent[c] < MaxIn
    /\ sent' = [sent EXCEPT ![c] = @ + 1]
    /\ queue' = [queue EXCEPT ![c] = Append(@, Byte(c, sent[c] + 1))]
    /\ UNCHANGED <<socketVars, streamVars, main, job, awaited, content, delivered, finished, written, wire,
                   aborted, trespassed>>

PeerFinishes(c) ==
    /\ Seen(c) /\ c \notin finished
    /\ finished' = finished \union {c}
    /\ UNCHANGED <<socketVars, streamVars, main, job, awaited, content, queue, delivered, sent, written, wire,
                   aborted, trespassed>>

WorkerStep(w) == Dispatch(w) \/ Enter(w) \/ Receive(w) \/ Send(w) \/ Callback(w) \/ Finish(w)

ProgramStep ==
    \/ ReadPolls
    \/ \E b \in Bufs \union {InBuf} : ReadReturns(b)
    \/ \E w \in Workers, b \in Bufs : ReadSpawns(w, b) \/ Write(w, b)
    \/ \E w \in Workers : StreamGet(w) \/ Flush(w) \/ CloseFlushes(w)
    \/ Put
    \/ Close
    \/ Destroy
    \/ Reopen

Next ==
    /\ \/ ProgramStep
       \/ \E w \in Workers : WorkerStep(w)
       \/ \E c \in Conns : PeerSends(c) \/ PeerFinishes(c)
    /\ UNCHANGED program

(* The operating system schedules every thread that can run.  Nothing is
   assumed of the peer, nor of what the program calls. *)
Fairness == \A w \in Workers : WF_vars(WorkerStep(w) /\ UNCHANGED program)

Spec == Init /\ [][Next]_vars /\ Fairness

------------------------------------------------------------------------------
(* Properties. *)

(* A byte is in the kernel, in one worker's hands, or was handed over: through
   own reads, get(), workers and callbacks, a program that has one read at a
   time and closes when all is answered is given the bytes of the open
   connection in the order in which they were sent.  What a connection's reader
   was handed came from that connection, and was not overwritten before its
   callback ran, after a close and a reopen too. *)
InHand(c) ==
    LET ws == {w \in Workers : job[w].pc = "calling" /\ job[w].op = "read" /\ job[w].on = c}
    IN  IF ws = {} THEN <<>> ELSE <<job[CHOOSE w \in ws : TRUE].item>>
InOrder ==
    Habits \intersect {"overlap", "sameBuffer", "closeBusy"} = {} =>
    \A c \in Conns :
        LET sentBytes == [k \in 1 .. sent[c] |-> Byte(c, k)] IN
        /\ IsPrefix(delivered[c], sentBytes)
        /\ c = hFile => delivered[c] \o InHand(c) \o queue[c] = sentBytes

(* Whatever overlaps and whenever the socket is closed, as long as each call
   has a buffer of its own, each byte the peers sent is in one place: in the
   kernel, with one worker on its way to its callback, or handed over once. *)
SentBytes == UNION {{Byte(c, k) : k \in 1 .. sent[c]} : c \in Conns}
Conserved ==
    LET rest == FlattenSeq([c \in Conns |-> queue[c] \o delivered[c]])
        hands == {w \in Workers : job[w].pc = "calling" /\ job[w].op = "read"}
        held == {job[w].item : w \in hands}
    IN  "sameBuffer" \notin Habits =>
        /\ IsInjective(rest) /\ IsInjective([w \in hands |-> job[w].item])
        /\ ToSet(rest) \intersect held = {}
        /\ ToSet(rest) \union held = SentBytes

(* SocketState.cpp:991: write() writes the data in pBuf.  A message that waits
   for its worker is still the one the program passed, whatever overlaps and
   whenever the socket is closed; only text in the put area may have given way,
   to text put there since, and only in a program that rushes.  If the program
   has one write at a time too, and closes when all is answered, messages reach
   the connection in the order in which they were written, with << or write(). *)
ToSend(w) == job[w].op = "write" /\ job[w].pc \in {"spawned", "dispatched", "blocked"}
WritesAsPassed ==
    "sameBuffer" \notin Habits =>
    /\ \A w \in Workers : ToSend(w) =>
          LET now == content[job[w].buf] IN
          \/ now = job[w].item
          \/ "rushes" \in Habits /\ job[w].buf = OutBuf /\ now[2] > job[w].item[2]
    /\ Habits \subseteq {"stream"} => \A i, j \in DOMAIN wire : i < j => wire[i][2] < wire[j][2]

(* SocketState.cpp:874-876: what FIONREAD found "can be read without blocking",
   so the program's thread never waits inside ::recv. *)
NeverBlocks == main = "receiving" => queue[hFile] # <<>> \/ hFile \in finished

(* SocketState.cpp:960-966: closing a socket to end its outstanding workers is
   normal; it never ends the process. *)
NoAbort == ~aborted

(* A program that waits for its workers, and flushes, before it closes a socket
   is not ended by one of them, however its calls overlap, and no worker uses a
   Socket, or a buffer in it, that is gone. *)
WorkersEndInTime == "closeBusy" \notin Habits => NoAbort /\ ~trespassed

(* A reader of a connection on which bytes wait comes to its end, unless
   another read may take them first. *)
ReadersServed ==
    \A w \in Workers :
        /\ Habits \intersect {"overlap", "closeBusy"} = {}
        /\ job[w].pc = "blocked" /\ job[w].op = "read" /\ queue[job[w].on] # <<>>
        ~> ~Busy(w)

==============================================================================
