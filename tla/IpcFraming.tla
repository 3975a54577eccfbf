------------------------------ MODULE IpcFraming ------------------------------
(***************************************************************************)
(* IPC messages over a TCP connection: a client calls with remoteProcedure, *)
(* the server takes calls with remoteReadData and answers them with         *)
(* remoteWriteReply, the client takes the answers with remoteReadData.      *)
(*                                                                          *)
(* A byte of a packet is a pair of the packet and its place in it, so that  *)
(* what remoteReadData puts together can be compared with what was sent.    *)
(* The first Header of them are the IpcStruct, which holds the size of the  *)
(* packet.  A read consumes what has arrived; packets arrive one at a time  *)
(* or in pieces, by the network of the behaviour.                           *)
(***************************************************************************)
EXTENDS Integers, SequencesExt

CONSTANTS
    Header,     \* sizeof(IpcStruct)
    Sizes,      \* the sizes of calls
    Replies,    \* the sizes of answers
    Garbage,    \* what wPacketSize_ may be when no header was read into it
    Room,       \* the size of the structs passed to remoteReadData
    Limits,     \* values of uMaxLength, 0 for none
    Networks,   \* subset of {"whole", "pieces"}
    MaxCalls,   \* bound: calls the client makes
    Cookies,     \* m_dwSequence counts modulo this, 2^32 in the code
    Habits      \* "sharedReply": the server answers with one IpcReplyStruct

ASSUME HeaderAssumption == Header \in Nat \ {0} /\ Room \in Nat /\ Room >= Header
ASSUME SizeAssumption == Garbage \subseteq Nat /\ \A n \in Sizes \union Replies : n \in Nat /\ n >= Header
ASSUME LimitAssumption == \A n \in Limits : n \in Nat /\ (n = 0 \/ n >= Header)
ASSUME CallAssumption == MaxCalls \in Nat /\ Cookies \in Nat \ {0}

VARIABLES
    network,    \* how packets arrive
    polling,    \* m_bAsyncMode of the two Sockets
    again,      \* the programs pass one struct to all their calls of remoteReadData
    own,        \* the callback the programs registered, in asynchronous mode
    callback,   \* m_pDefCallback
    sequence,   \* Socket::m_dwSequence of the client's process
    reader,     \* remoteReadData at each side
    uMaxLength, \* its parameter, 0 when it does not run
    wPacketSize, \* what its next call finds in wPacketSize_ of its struct
    writers,    \* packets that writer threads have yet to send
    wire,       \* bytes on their way to each side
    queue,      \* bytes that wait in its kernel
    finished,   \* the client has shut its sending end
    called,     \* the calls made
    replyCookie, \* dwSequence_ of the server's IpcReplyStruct
    sent,       \* packets put on the wire to each side
    taken,      \* what each side's remoteReadData returned
    answered    \* how many of the calls it took the server has answered

vars == <<network, polling, again, own, callback, sequence, reader, uMaxLength, wPacketSize,
          writers, wire, queue, finished, called, replyCookie, sent, taken, answered>>
settings == <<network, polling, again, own>>
params == <<uMaxLength, wPacketSize>>

Sides == {"client", "server"}
Peer(s) == IF s = "client" THEN "server" ELSE "client"
Bytes(p) == [i \in 1 .. p.size |-> <<p, i>>]
Drop(s, n) == SubSeq(s, n + 1, Len(s))
Idle == [pc |-> "idle", uLength |-> 0, head |-> <<>>]

Packets == [id : 1 .. MaxCalls, size : Sizes \union Replies, cookie : 0 .. Cookies - 1]

TypeOK ==
    /\ network \in Networks
    /\ polling \in BOOLEAN /\ again \in BOOLEAN
    /\ own \in {"none", "registered"}
    /\ callback \in [Sides -> {"none", "registered"}]
    /\ sequence \in 0 .. Cookies - 1
    /\ \A s \in Sides :
        /\ reader[s].pc \in {"idle", "header", "body", "undefined", "overrun", "aborted"}
        /\ reader[s].uLength \in Nat
        /\ uMaxLength[s] \in Limits \union {0} /\ wPacketSize[s] \in Nat
        /\ Len(reader[s].head) \in {0, Header}
        /\ sent[s] \in Seq(Packets)
    /\ \A w \in writers : w.to \in Sides /\ w.packet \in Packets
    /\ finished \in BOOLEAN
    /\ called \in Seq(Packets) /\ Len(called) <= MaxCalls
    /\ answered \in 0 .. Len(taken["server"])
    /\ replyCookie \in 0 .. Cookies - 1

Init ==
    /\ network \in Networks
    /\ polling \in BOOLEAN /\ again \in BOOLEAN
    /\ own \in IF polling THEN {"none", "registered"} ELSE {"none"}
    /\ callback = [s \in Sides |-> own]
    /\ sequence = 0
    /\ reader = [s \in Sides |-> Idle]
    /\ uMaxLength = [s \in Sides |-> 0]
    /\ wPacketSize = [s \in Sides |-> Room]
    /\ writers = {}
    /\ wire = [s \in Sides |-> <<>>]
    /\ queue = [s \in Sides |-> <<>>]
    /\ finished = FALSE
    /\ called = <<>>
    /\ replyCookie = 0
    /\ sent = [s \in Sides |-> <<>>]
    /\ taken = [s \in Sides |-> <<>>]
    /\ answered = 0
-----------------------------------------------------------------------------
(***************************************************************************)
(* Writing.  A Socket in asynchronous mode with a callback leaves the       *)
(* packet to a thread; cb is the callback registered during the write.      *)
(***************************************************************************)
Send(to, p) ==
    /\ wire' = [wire EXCEPT ![to] = @ \o Bytes(p)]
    /\ sent' = [sent EXCEPT ![to] = Append(@, p)]

Write(from, cb, p) ==
    IF polling /\ cb # "none"
        THEN writers' = writers \union {[to |-> Peer(from), packet |-> p]} /\ UNCHANGED <<wire, sent>>
        ELSE Send(Peer(from), p) /\ UNCHANGED writers

WriterSends(w) ==
    /\ w \in writers
    /\ writers' = writers \ {w}
    /\ Send(w.to, w.packet)
    /\ UNCHANGED <<settings, params, callback, sequence, reader, queue, finished,
                   called, replyCookie, taken, answered>>

(* The counter goes up before it is used, and a callback that was passed is *)
(* registered for the time of the write.                                    *)
NextSequence_NoWrap == sequence + 1
NextSequence == (sequence + 1) % Cookies

RemoteProcedure(size, cb) ==
    /\ ~finished
    /\ reader["client"].pc = "idle"
    /\ Len(called) < MaxCalls
    /\ LET p == [id |-> Len(called) + 1, size |-> size, cookie |-> NextSequence]
       IN  /\ called' = Append(called, p)
           /\ Write("client", IF cb # "none" THEN cb ELSE callback["client"], p)
    /\ sequence' = NextSequence
    /\ UNCHANGED <<settings, params, callback, reader, queue, finished, replyCookie,
                   taken, answered>>

(* The call answered is the one the bytes taken begin with.  A cookie of 0 *)
(* says that the caller filled it in.                                       *)
ReplyCookie_AlwaysOwn(dwSequence, cookie) == cookie
ReplyCookie(dwSequence, cookie) == IF dwSequence # 0 THEN dwSequence ELSE cookie

RemoteWriteReply(size) ==
    /\ reader["server"].pc = "idle"
    /\ answered < Len(taken["server"])
    /\ LET call == taken["server"][answered + 1][1][1]
           cookie == ReplyCookie(call.cookie, replyCookie)
       IN  /\ Write("server", callback["server"], [id |-> call.id, size |-> size, cookie |-> cookie])
           /\ replyCookie' = IF "sharedReply" \in Habits THEN cookie ELSE 0
    /\ answered' = answered + 1
    /\ UNCHANGED <<settings, params, callback, sequence, reader, queue, finished, called, taken>>
-----------------------------------------------------------------------------
(***************************************************************************)
(* Reading                                                                  *)
(***************************************************************************)

(* The size to accept is fixed when the call begins, from what the struct   *)
(* that was passed holds: its own size if it is a fresh one, else what the  *)
(* last header that was read into it said, of a packet that was thrown away *)
(* too.                                                                     *)
Accepted_NoMaximum(size, n) == size
Accepted(size, n) == IF n # 0 /\ n < size THEN n ELSE size

StartRead(s, n) ==
    /\ reader[s].pc = "idle"
    /\ LET uLength == Accepted(wPacketSize[s], n)
       IN  reader' = [reader EXCEPT ![s] =
                        [pc |-> IF uLength < Header THEN "aborted" ELSE "header",
                         uLength |-> uLength, head |-> <<>>]]
    /\ uMaxLength' = [uMaxLength EXCEPT ![s] = n]
    /\ callback' = [callback EXCEPT ![s] = "none"]
    /\ UNCHANGED <<settings, wPacketSize, sequence, writers, wire, queue, finished, called,
                   replyCookie, sent, taken, answered>>

(* A read of no bytes does not block in polling mode, nor at the end of the *)
(* connection.                                                              *)
AtEnd(s) == /\ s = "server" /\ finished /\ wire[s] = <<>>
            /\ \A w \in writers : w.to # s
MayRead(s) == queue[s] # <<>> \/ polling \/ AtEnd(s)

LeaveSize(s, size) == wPacketSize' = IF again THEN [wPacketSize EXCEPT ![s] = size] ELSE wPacketSize

Return(s) ==
    /\ reader' = [reader EXCEPT ![s] = Idle]
    /\ uMaxLength' = [uMaxLength EXCEPT ![s] = 0]
    /\ callback' = [callback EXCEPT ![s] = own]

GiveUp_LoopsAgain(s) == reader' = [reader EXCEPT ![s].pc = "header"] /\ UNCHANGED <<uMaxLength, callback>>
GiveUp(s) == Return(s)

NoData(s) ==
    /\ reader[s].pc = "header"
    /\ queue[s] = <<>> /\ MayRead(s)
    /\ GiveUp(s)
    /\ UNCHANGED <<settings, wPacketSize, sequence, writers, wire, queue, finished, called,
                   replyCookie, sent, taken, answered>>

(* Fewer bytes than a header: they are forgotten, but have overwritten some *)
(* of the struct.                                                           *)
ShortHeader(s) ==
    /\ reader[s].pc = "header"
    /\ Len(queue[s]) \in 1 .. Header - 1
    /\ \E size \in Garbage \union {wPacketSize[s]} \union {b[1].size : b \in ToSet(queue[s])} :
        LeaveSize(s, size)
    /\ queue' = [queue EXCEPT ![s] = <<>>]
    /\ UNCHANGED <<settings, uMaxLength, callback, sequence, reader, writers, wire, finished,
                   called, replyCookie, sent, taken, answered>>

(* What the bytes of a header say of the size: anything, if they are not one. *)
IsHeader(h) == \A i \in 1 .. Header : h[i] = <<h[1][1], i>>
SizesIn(h) == IF IsHeader(h) THEN {h[1][1].size} ELSE Garbage

(* A packet larger than what is accepted: all that has arrived is discarded. *)
TooLarge_Equal(size, uLength) == uLength <= size
AfterDiscard(q) == <<>>
TooLarge(size, uLength) == uLength < size

DiscardPacket(s) ==
    /\ reader[s].pc = "header"
    /\ Len(queue[s]) >= Header
    /\ \E size \in SizesIn(SubSeq(queue[s], 1, Header)) :
        /\ TooLarge(size, reader[s].uLength)
        /\ LeaveSize(s, size)
    /\ queue' = [queue EXCEPT ![s] = AfterDiscard(Drop(@, Header))]
    /\ UNCHANGED <<settings, uMaxLength, callback, sequence, reader, writers, wire, finished,
                   called, replyCookie, sent, taken, answered>>

(* uLength, an unsigned number, becomes what is left to read.  If the size  *)
(* is smaller than a header it wraps around, the next read fills memory     *)
(* behind the packet, and nothing can be said of what follows.              *)
HeaderRead(s) ==
    /\ reader[s].pc = "header"
    /\ Len(queue[s]) >= Header
    /\ \E size \in SizesIn(SubSeq(queue[s], 1, Header)) :
        /\ ~TooLarge(size, reader[s].uLength)
        /\ LeaveSize(s, size)
        /\ reader' = [reader EXCEPT ![s] =
                        IF size < Header
                        THEN [pc |-> "undefined", uLength |-> 0, head |-> <<>>]
                        ELSE [pc |-> "body", uLength |-> size - Header,
                              head |-> SubSeq(queue[s], 1, Header)]]
    /\ queue' = [queue EXCEPT ![s] = Drop(@, Header)]
    /\ UNCHANGED <<settings, uMaxLength, callback, sequence, writers, wire, finished, called,
                   replyCookie, sent, taken, answered>>

Joined_OverHeader(head, body) == body \o Drop(head, Len(body))
Joined(head, body) == head \o body

(* The body is more than the struct has room for, and enough of it has come *)
(* to overwrite what lies behind: nothing is said of what the side does     *)
(* then.                                                                    *)
Overruns(s) == Header + reader[s].uLength > Room /\ Header + Len(queue[s]) > Room

BodyOverruns(s) ==
    /\ reader[s].pc = "body"
    /\ Overruns(s)
    /\ reader' = [reader EXCEPT ![s].pc = "overrun"]
    /\ UNCHANGED <<settings, params, callback, sequence, writers, wire, queue, finished, called,
                   replyCookie, sent, taken, answered>>

PacketRead(s) ==
    /\ reader[s].pc = "body"
    /\ ~Overruns(s)
    /\ Len(queue[s]) >= reader[s].uLength
    /\ taken' = [taken EXCEPT ![s] = Append(@, Joined(reader[s].head,
                                                     SubSeq(queue[s], 1, reader[s].uLength)))]
    /\ queue' = [queue EXCEPT ![s] = Drop(@, reader[s].uLength)]
    /\ Return(s)
    /\ UNCHANGED <<settings, wPacketSize, sequence, writers, wire, finished, called,
                   replyCookie, sent, answered>>

(* A short body is forgotten like a short header, and uLength stays what    *)
(* was left to read of it.                                                  *)
ShortBody(s) ==
    /\ reader[s].pc = "body"
    /\ ~Overruns(s)
    /\ Len(queue[s]) < reader[s].uLength
    /\ MayRead(s)
    /\ queue' = [queue EXCEPT ![s] = <<>>]
    /\ reader' = [reader EXCEPT ![s] = [pc |-> "header", uLength |-> reader[s].uLength, head |-> <<>>]]
    /\ UNCHANGED <<settings, params, callback, sequence, writers, wire, finished, called,
                   replyCookie, sent, taken, answered>>
-----------------------------------------------------------------------------
(***************************************************************************)
(* The network and the client's end of sending.  Several bytes that arrive  *)
(* together are bytes that arrive one by one before the next read.          *)
(***************************************************************************)
Arriving(s) == IF network = "whole" THEN wire[s][1][1].size ELSE 1

Arrive(s) ==
    /\ wire[s] # <<>>
    /\ queue' = [queue EXCEPT ![s] = @ \o SubSeq(wire[s], 1, Arriving(s))]
    /\ wire' = [wire EXCEPT ![s] = Drop(@, Arriving(s))]
    /\ UNCHANGED <<settings, params, callback, sequence, reader, writers, finished, called,
                   replyCookie, sent, taken, answered>>

Finish ==
    /\ ~finished
    /\ finished' = TRUE
    /\ UNCHANGED <<settings, params, callback, sequence, reader, writers, wire, queue,
                   called, replyCookie, sent, taken, answered>>

ReaderStep(s) == NoData(s) \/ ShortHeader(s) \/ DiscardPacket(s) \/ HeaderRead(s)
                 \/ BodyOverruns(s) \/ PacketRead(s) \/ ShortBody(s)

Next ==
    \/ \E size \in Sizes, cb \in {"none", "passed"} : RemoteProcedure(size, cb)
    \/ \E size \in Replies : RemoteWriteReply(size)
    \/ \E w \in writers : WriterSends(w)
    \/ \E s \in Sides : ReaderStep(s) \/ Arrive(s) \/ \E n \in Limits : StartRead(s, n)
    \/ Finish

Spec == Init /\ [][Next]_vars /\ \A s \in Sides : WF_vars(ReaderStep(s))
-----------------------------------------------------------------------------
(***************************************************************************)
(* Properties                                                               *)
(***************************************************************************)

(* What a side took is, packet by packet and in order, some of what was     *)
(* sent to it, when packets arrive whole: remoteReadData neither joins two  *)
(* packets nor starts in the middle of one, nor takes one twice, though it  *)
(* throws away an unknown number of bytes behind a packet that is too large. *)
SentBefore(s, p, q) == \E i, j \in DOMAIN sent[s] : i < j /\ sent[s][i] = p /\ sent[s][j] = q
WholePackets ==
    network = "whole" =>
        \A s \in Sides :
            LET out == [i \in DOMAIN taken[s] |-> taken[s][i][1][1]]
            IN  /\ IsInjective(sent[s])
                /\ \A i \in DOMAIN out : taken[s][i] = Bytes(out[i]) /\ out[i] \in ToSet(sent[s])
                /\ \A i, j \in DOMAIN out : i < j => SentBefore(s, out[i], out[j])

(* If besides every packet fits the structs and the limits, and no packet   *)
(* is larger than an earlier one where a struct is passed again, none is    *)
(* lost: what was taken, what is being taken and what is on its way are     *)
(* what was sent.  A struct that a small packet was read into accepts no    *)
(* larger one after it.                                                     *)
NoLarger(z) == \A i, j \in DOMAIN z : i < j => z[j].size <= z[i].size
Fits(s) ==
    /\ \A i \in DOMAIN sent[s], n \in (Limits \ {0}) \union {Room} : sent[s][i].size <= n
    /\ again => NoLarger(sent[s])
NoneLost ==
    \A s \in Sides :
        (network = "whole" /\ Fits(s)) =>
            FlattenSeq(taken[s]) \o reader[s].head \o queue[s] \o wire[s]
                = FlattenSeq([i \in DOMAIN sent[s] |-> Bytes(sent[s][i])])

(* However the bytes arrive, no more than uMaxLength of them are read into  *)
(* the struct if it is not zero, and what lies behind the struct is         *)
(* overwritten only where the same struct is passed again, without a limit  *)
(* that its room allows: the size it then holds may be that of a packet     *)
(* thrown away as too large.  The VERIFY of the call fails only for a       *)
(* struct passed again, and a size below that of a header is met only where *)
(* packets come in pieces.                                                  *)
FitsRoom ==
    \A s \in Sides :
        /\ (reader[s].pc = "body" /\ uMaxLength[s] # 0) => Header + reader[s].uLength <= uMaxLength[s]
        /\ reader[s].pc = "overrun" => again /\ uMaxLength[s] \notin 1 .. Room
        /\ reader[s].pc = "aborted" => again /\ network # "whole"
        /\ reader[s].pc = "undefined" => network # "whole"

(* An answer carries the cookie of the call it answers, and no call is      *)
(* answered twice, also when threads send the calls out of order and when   *)
(* the counter wraps around.                                                *)
AnswersItsCall ==
    network = "whole" =>
        /\ \A i \in DOMAIN sent["client"] :
            LET reply == sent["client"][i]
            IN  called[reply.id].cookie = reply.cookie
        /\ \A i, j \in DOMAIN sent["client"] :
            sent["client"][i].id = sent["client"][j].id => i = j

(* In polling mode a read of packets returns, also when there are none,     *)
(* when a packet comes in pieces and when it has to be discarded.           *)
PollingReturns ==
    \A s \in Sides : (polling /\ reader[s].pc # "idle") ~> reader[s].pc \notin {"header", "body"}
==============================================================================
