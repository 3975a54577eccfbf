------------------------------ MODULE EchoServer ------------------------------
(***************************************************************************)
(* The echo server: an accept loop in the main thread, a thread for each    *)
(* client, and a signal handler that runs in the main thread wherever that  *)
(* is.  It composes a listening Socket with connected ones, in synchronous  *)
(* mode; what their calls do is taken from the same code as SocketLifecycle *)
(* and StreamBuf, here seen by two kinds of threads and a signal.           *)
(*                                                                          *)
(* A client is its connection, its Socket and its thread.  What it sends is *)
(* numbered; those of the numbers that are in Eofs are characters 0xFF.     *)
(***************************************************************************)
EXTENDS Integers, SequencesExt

CONSTANTS
    Clients,
    None,
    MaxIn,      \* bound: characters a client sends
    Eofs        \* those of them that compare equal to EOF

ASSUME ClientAssumption == None \notin Clients
ASSUME InputAssumption == MaxIn \in Nat /\ Eofs \subseteq 1 .. MaxIn

VARIABLES
    binary,     \* params->binary
    exitServer, \* exit_server
    serverSock, \* m_pState of serverSock, which has a descriptor in Listening
    main,       \* the main thread
    accepted,   \* clientSock of the main thread
    thread,     \* the thread of each client
    good,       \* clientSock->good()
    buf,        \* what the thread has read
    pending,    \* the put area of clientSock
    peer,       \* the client's end of its connection
    sent,       \* how many characters the client has sent,
    queue,      \* those that wait in the kernel,
    back,       \* and those it was sent back
    refused,    \* a character was sent to a client that had closed
    ended       \* the process has ended otherwise than by returning

clientVars == <<good, buf, pending, back, refused>>
peerVars == <<peer, sent, queue>>
mainVars == <<exitServer, serverSock, main, accepted>>
vars == <<binary, mainVars, thread, clientVars, peerVars, ended>>

TypeOK ==
    /\ binary \in BOOLEAN /\ exitServer \in BOOLEAN
    /\ serverSock \in {"Closed", "Listening"}
    /\ main \in {"open", "loop", "listen", "accept", "spawn", "after", "join", "done"}
    /\ accepted \in Clients \union {None}
    /\ thread \in [Clients -> {"none", "loop", "read", "write", "exit", "done"}]
    /\ good \in [Clients -> BOOLEAN]
    /\ \A c \in Clients : \A s \in {buf[c], pending[c], queue[c], back[c]} :
        s \in Seq(1 .. MaxIn) /\ Len(s) <= MaxIn
    /\ sent \in [Clients -> 0 .. MaxIn]
    /\ peer \in [Clients -> {"absent", "waiting", "open", "closed"}]
    /\ refused \in [Clients -> BOOLEAN]
    /\ ended \in {"no", "aborted", "killed"}

Init ==
    /\ binary \in BOOLEAN
    /\ exitServer = FALSE
    /\ serverSock = "Closed"
    /\ main = "open"
    /\ accepted = None
    /\ thread = [c \in Clients |-> "none"]
    /\ good = [c \in Clients |-> TRUE]
    /\ buf = [c \in Clients |-> <<>>]
    /\ pending = [c \in Clients |-> <<>>]
    /\ peer = [c \in Clients |-> "absent"]
    /\ sent = [c \in Clients |-> 0]
    /\ queue = [c \in Clients |-> <<>>]
    /\ back = [c \in Clients |-> <<>>]
    /\ refused = [c \in Clients |-> FALSE]
    /\ ended = "no"

Running == ended = "no"
-----------------------------------------------------------------------------
(***************************************************************************)
(* The main thread                                                          *)
(***************************************************************************)

(* Closing a listening socket refuses the clients that wait for it. *)
CloseServer ==
    /\ serverSock' = "Closed"
    /\ peer' = [c \in Clients |-> IF peer[c] = "waiting" THEN "closed" ELSE peer[c]]

Open ==
    /\ main = "open"
    /\ \/ main' = "loop" /\ serverSock' = "Listening"
       \/ main' = "done" /\ UNCHANGED serverSock
    /\ UNCHANGED <<exitServer, accepted, thread, peer, ended>>

(* good() of serverSock holds all the time: no call on it sets a bit. *)
Loop ==
    /\ main = "loop"
    /\ main' = IF exitServer THEN "after" ELSE "listen"
    /\ UNCHANGED <<exitServer, serverSock, accepted, thread, peer, ended>>

(* listen() of SSClosed is the base class's: VERIFY(0). *)
Listen ==
    /\ main = "listen"
    /\ IF serverSock = "Listening"
       THEN main' = "accept" /\ UNCHANGED ended
       ELSE ended' = "aborted" /\ UNCHANGED main
    /\ UNCHANGED <<exitServer, serverSock, accepted, thread, peer>>

Accept(c) ==
    /\ main = "accept"
    /\ serverSock = "Listening" /\ peer[c] = "waiting"
    /\ peer' = [peer EXCEPT ![c] = "open"]
    /\ accepted' = c
    /\ main' = "spawn"
    /\ UNCHANGED <<exitServer, serverSock, thread, ended>>

(* listen() returns nullptr, as it must when the handler closed the socket. *)
AcceptFails ==
    /\ main = "accept"
    /\ main' = "loop"
    /\ UNCHANGED <<exitServer, serverSock, accepted, thread, peer, ended>>

Spawn ==
    /\ main = "spawn"
    /\ thread' = [thread EXCEPT ![accepted] = "loop"]
    /\ accepted' = None
    /\ main' = "loop"
    /\ UNCHANGED <<exitServer, serverSock, peer, ended>>

After ==
    /\ main = "after"
    /\ IF serverSock = "Listening" THEN CloseServer ELSE UNCHANGED <<serverSock, peer>>
    /\ main' = "join"
    /\ UNCHANGED <<exitServer, accepted, thread, ended>>

Joinable_First == \E c \in Clients : thread[c] \in {"none", "done"}
Joinable == \A c \in Clients : thread[c] \in {"none", "done"}

Join ==
    /\ main = "join"
    /\ Joinable
    /\ main' = "done"
    /\ UNCHANGED <<exitServer, serverSock, accepted, thread, peer, ended>>

(* The handler interrupts the main thread between any two of its steps. *)
Signal ==
    /\ main # "done"
    /\ exitServer' = TRUE
    /\ IF serverSock = "Listening" THEN CloseServer ELSE UNCHANGED <<serverSock, peer>>
    /\ UNCHANGED <<main, accepted, thread, ended>>

MainStep == Open \/ Loop \/ Listen \/ (\E c \in Clients : Accept(c)) \/ AcceptFails \/ Spawn
            \/ After \/ Join
-----------------------------------------------------------------------------
(***************************************************************************)
(* A client's thread                                                        *)
(***************************************************************************)
ThreadLoop(c) ==
    /\ thread[c] = "loop"
    /\ thread' = [thread EXCEPT ![c] = IF ~exitServer /\ good[c] THEN "read" ELSE "exit"]
    /\ UNCHANGED <<clientVars, queue, ended>>

(* A block read takes all that waits; a string read takes one character     *)
(* after the other until one equals the delimiter EOF.                      *)
TakesNow(c) == IF binary THEN Len(queue[c]) ELSE 1
ReadComplete(c) == binary \/ queue[c][1] \in Eofs

ThreadReads(c) ==
    /\ thread[c] = "read"
    /\ queue[c] # <<>>
    /\ buf' = [buf EXCEPT ![c] = @ \o SubSeq(queue[c], 1, TakesNow(c))]
    /\ queue' = [queue EXCEPT ![c] = SubSeq(@, TakesNow(c) + 1, Len(@))]
    /\ thread' = [thread EXCEPT ![c] = IF ReadComplete(c) THEN "write" ELSE "read"]
    /\ UNCHANGED <<good, pending, back, refused, ended>>

(* The end of the connection sets eofbit, and ends the read.  With nothing  *)
(* read, a block is not written; operator<< is called with what there is.   *)
GoodAtEof_Stays == TRUE
GoodAtEof == FALSE

AtEof(c) == queue[c] = <<>> /\ peer[c] = "closed"

ThreadReadsEof(c) ==
    /\ thread[c] = "read"
    /\ AtEof(c)
    /\ good' = [good EXCEPT ![c] = GoodAtEof]
    /\ thread' = [thread EXCEPT ![c] = IF binary THEN "loop" ELSE "write"]
    /\ UNCHANGED <<buf, pending, back, refused, queue, ended>>

(* ::send of s: a client that has closed answers the first one with a       *)
(* reset, and the next is the signal SIGPIPE, which nobody handles; or, if  *)
(* it closed without reading everything, the first one fails.               *)
SendResults(c) ==
    IF peer[c] = "open" THEN {"sent"}
    ELSE IF refused[c] THEN {"lost", "killed"}
    ELSE {"lost", "failed"}

Send(c, s) ==
    \E r \in SendResults(c) :
        /\ back' = IF r = "sent" THEN [back EXCEPT ![c] = @ \o s] ELSE back
        /\ refused' = [refused EXCEPT ![c] = @ \/ r = "lost"]
        /\ good' = [good EXCEPT ![c] = @ /\ r # "failed"]
        /\ ended' = IF r = "killed" THEN "killed" ELSE "no"

AfterWrite_KeepsBuffer(c) == UNCHANGED buf
AfterWrite(c) == buf' = [buf EXCEPT ![c] = <<>>]

WriteBlock_UnlessExit(c) ==
    /\ thread[c] = "write" /\ binary
    /\ IF exitServer THEN UNCHANGED <<good, back, refused, ended>> ELSE Send(c, buf[c])
    /\ AfterWrite(c)
    /\ thread' = [thread EXCEPT ![c] = "loop"]
    /\ UNCHANGED <<pending, queue>>
WriteBlock(c) ==
    /\ thread[c] = "write" /\ binary
    /\ Send(c, buf[c])
    /\ AfterWrite(c)
    /\ thread' = [thread EXCEPT ![c] = "loop"]
    /\ UNCHANGED <<pending, queue>>

(* operator<< does nothing but set failbit on a stream at its end;          *)
(* otherwise the string goes to the put area, which holds it (256 bytes).   *)
WriteString(c) ==
    /\ thread[c] = "write" /\ ~binary
    /\ pending' = IF good[c] THEN [pending EXCEPT ![c] = @ \o buf[c]] ELSE pending
    /\ AfterWrite(c)
    /\ thread' = [thread EXCEPT ![c] = "loop"]
    /\ UNCHANGED <<good, back, refused, queue, ended>>

(* close() flushes what a good stream has pending; then the object is       *)
(* deleted, which closes it if that was not done.                           *)
ThreadExits(c) ==
    /\ thread[c] = "exit"
    /\ IF good[c] /\ pending[c] # <<>>
       THEN Send(c, pending[c])
       ELSE UNCHANGED <<good, back, refused, ended>>
    /\ pending' = [pending EXCEPT ![c] = <<>>]
    /\ thread' = [thread EXCEPT ![c] = "done"]
    /\ UNCHANGED <<buf, queue>>

ThreadStep(c) == ThreadLoop(c) \/ ThreadReads(c) \/ ThreadReadsEof(c) \/ WriteBlock(c)
                 \/ WriteString(c) \/ ThreadExits(c)
-----------------------------------------------------------------------------
(***************************************************************************)
(* The clients                                                              *)
(***************************************************************************)
Connect(c) ==
    /\ peer[c] = "absent" /\ serverSock = "Listening"
    /\ peer' = [peer EXCEPT ![c] = "waiting"]
    /\ UNCHANGED <<sent, queue>>

PeerSends(c) ==
    /\ peer[c] = "open" /\ sent[c] < MaxIn
    /\ sent' = [sent EXCEPT ![c] = @ + 1]
    /\ queue' = [queue EXCEPT ![c] = Append(@, sent[c] + 1)]
    /\ UNCHANGED peer

PeerCloses(c) ==
    /\ peer[c] = "open"
    /\ peer' = [peer EXCEPT ![c] = "closed"]
    /\ UNCHANGED <<sent, queue>>

PeerStep(c) == Connect(c) \/ PeerSends(c) \/ PeerCloses(c)

Next ==
    /\ Running
    /\ UNCHANGED binary
    /\ \/ (MainStep \/ Signal) /\ UNCHANGED <<clientVars, sent, queue>>
       \/ \E c \in Clients : ThreadStep(c) /\ UNCHANGED <<mainVars, peer, sent>>
       \/ \E c \in Clients : PeerStep(c) /\ UNCHANGED <<mainVars, thread, clientVars, ended>>

(* Threads that can run are scheduled; of clients and signals nothing is    *)
(* assumed.                                                                 *)
MainRuns == Running /\ MainStep /\ UNCHANGED <<binary, clientVars, sent, queue>>
ThreadRuns(c) == Running /\ ThreadStep(c) /\ UNCHANGED <<binary, mainVars, peer, sent>>
Fairness == WF_vars(MainRuns) /\ \A c \in Clients : WF_vars(ThreadRuns(c))

Spec == Init /\ [][Next]_vars /\ Fairness
-----------------------------------------------------------------------------
(***************************************************************************)
(* Properties                                                               *)
(***************************************************************************)
Sent(c) == [i \in 1 .. sent[c] |-> i]

(* Each client gets back what it sent, in order, with nothing twice and     *)
(* nothing of another client's, whatever it and the signal interrupt.  In   *)
(* block mode nothing stays behind in the server: what a connected client   *)
(* sent is on its way back, in its thread's buffer or unread, and the       *)
(* thread only waits for input when it has answered what it read.           *)
EchoesInOrder ==
    \A c \in Clients :
        /\ IsPrefix(back[c], Sent(c))
        /\ binary /\ peer[c] = "open" /\ thread[c] \in {"loop", "read", "write"} =>
            /\ back[c] \o buf[c] \o queue[c] = Sent(c)
            /\ thread[c] = "read" => buf[c] = <<>>

(* When main returns no thread is left running and no descriptor is open.   *)
NothingLeft ==
    main = "done" => /\ serverSock = "Closed"
                     /\ \A c \in Clients : thread[c] \in {"none", "done"} /\ peer[c] # "waiting"

(* A thread ends after its client has closed: no status that a later call   *)
(* resets keeps it in its loop. And after a signal the server ends once its *)
(* clients have closed: the accept loop stops and every thread is joined.   *)
EndsWithClients ==
    /\ \A c \in Clients :
        (peer[c] = "closed" /\ thread[c] \notin {"none", "done"}) ~> (thread[c] = "done" \/ ~Running)
    /\ (exitServer /\ \A c \in Clients : peer[c] \in {"absent", "closed"})
        ~> (main = "done" \/ ~Running)

(* The signal ends the server without a failed VERIFY: "Exit as cleanly as  *)
(* possible", says the handler.                                             *)
ExitsCleanly == ended # "aborted"
==============================================================================
