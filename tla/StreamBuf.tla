------------------------------ MODULE StreamBuf ------------------------------
(***************************************************************************)
(* The streambuf of one connected stream: the put area and its overflow and *)
(* sync, the get area and its underflow, uflow and pbackfail, and the raw   *)
(* reads and writes of SSConnected or SSConnectedTLS underneath, with the   *)
(* two kinds of state they leave behind: m_Status and the iostate bits.     *)
(*                                                                          *)
(* The program reads in blocking or in polling mode (asynchronous without a *)
(* callback); asynchronous calls with a callback are in module AsyncIO.     *)
(* A byte is a number: the program's k-th byte is k, and so is the peer's.  *)
(***************************************************************************)
EXTENDS Integers, SequencesExt

CONSTANTS
    OutSize,    \* sizeof(outbuff)
    InSize,     \* sizeof(inbuff)
    MaxOut,     \* bound: bytes the program writes
    MaxIn,      \* bound: bytes the peer sends
    MaxWire,    \* bound: bytes the kernel takes, repeated ones included
    NegativeOne,    \* the bytes that are 0xFF when the peer sends such a byte
    Regimes     \* what programs and networks may do: sets of habits and faults

(***************************************************************************)
(* "clear"     calls clear() on a stream that is not good                   *)
(* "rawWrite"  calls Socket::write as well as operator<<                    *)
(* "unget"     calls unget() after a successful get()                       *)
(***************************************************************************)
AllHabits == {"clear", "rawWrite", "unget"}
(***************************************************************************)
(* "sendError"  ::send or SSL_write fails with -1                           *)
(* "partial"    ::send takes only a part, or SSL_write returns 0            *)
(* "recvError"  ::recv or SSL_read fails                                    *)
(* "byteFF"     the peer's bytes NegativeOne are 0xFF, that is (char) EOF   *)
(***************************************************************************)
AllFaults == {"sendError", "partial", "recvError", "byteFF"}

ASSUME SizeAssumption == OutSize \in Nat \ {0} /\ InSize \in Nat \ {0}
ASSUME BoundAssumption == MaxOut \in Nat /\ MaxIn \in Nat /\ MaxWire \in Nat
ASSUME ByteAssumption == NegativeOne \subseteq Nat
ASSUME RegimeAssumption == Regimes \subseteq SUBSET (AllHabits \union AllFaults)

VARIABLES
    regime,     \* the habits of this program and the faults of its network
    secure,     \* m_pState is SSConnectedTLS
    isOpen,     \* m_hFile is a connection
    polling,    \* m_bAsyncMode, with no callback registered
    status,     \* m_Status
    ios,        \* the iostate bits
    out,        \* the put area, pbase to pptr
    area,       \* the get area, eback to egptr
    gnext,      \* gptr - eback
    accepted,   \* the bytes the program wrote
    wire,       \* the bytes the kernel took
    sent,       \* the number of bytes the peer sent
    queue,      \* the bytes of the peer that no read has returned
    decrypted,  \* how many of them the SSL object has taken out of the kernel
    peerOpen,   \* the peer has not closed
    got         \* the bytes the program read

writerVars == <<out, accepted, wire>>
readerVars == <<area, gnext, queue, decrypted, got>>
setting == <<regime, secure>>
peerVars == <<sent, peerOpen>>
vars == <<setting, isOpen, polling, status, ios, writerVars, readerVars, peerVars>>

Good == ios = {}
Unread == SubSeq(area, gnext + 1, Len(area))
HasRoom_OffByOne == Len(out) <= OutSize
HasRoom == Len(out) < OutSize       \* pptr() # epptr()

(* setg(end, end): a get area that is consumed, with all of inbuff behind its
   gptr.  Nobody may read what it holds. *)
Junk == 0
Consumed == [i \in 1 .. InSize |-> Junk]

TypeOK ==
    /\ regime \in Regimes
    /\ secure \in BOOLEAN
    /\ isOpen \in BOOLEAN
    /\ polling \in BOOLEAN
    /\ status \in {"OK", "NODATA", "FAILED"}
    /\ ios \subseteq {"eof", "fail", "bad"}
    /\ out \in Seq(Nat) /\ Len(out) <= OutSize
    /\ area \in Seq(Nat) /\ Len(area) <= InSize
    /\ gnext \in 0 .. Len(area)
    /\ accepted \in Seq(Nat)
    /\ wire \in Seq(Nat)
    /\ sent \in Nat
    /\ queue \in Seq(Nat)
    /\ decrypted \in 0 .. Len(queue)
    /\ decrypted > 0 => secure
    /\ peerOpen \in BOOLEAN
    /\ got \in Seq(Nat)

Init ==
    /\ regime \in Regimes
    /\ secure \in BOOLEAN
    /\ isOpen = TRUE
    /\ polling \in BOOLEAN
    /\ status = "OK"
    /\ ios = {}
    /\ out = <<>>
    /\ area = Consumed
    /\ gnext = InSize
    /\ accepted = <<>>
    /\ wire = <<>>
    /\ sent = 0
    /\ queue = <<>>
    /\ decrypted = 0
    /\ peerOpen = TRUE
    /\ got = <<>>

------------------------------------------------------------------------------
(***************************************************************************)
(* SSConnected::write(bytes) and SSConnectedTLS::write(bytes): what reaches *)
(* the wire, and the state it leaves.  A send that succeeds clears failbit  *)
(* and leaves m_Status alone; anything but -1 is taken for a success, a part *)
(* of the bytes sent by ::send as well as SSL_write's 0.                    *)
(***************************************************************************)
Short(bytes) == IF secure THEN {0} ELSE 1 .. Len(bytes) - 1
SendResults(bytes) ==
    {r \in  {[wire |-> wire \o bytes, ios |-> ios \ {"fail"}, status |-> status]}
            \union
            (IF "sendError" \in regime
             THEN {[wire |-> wire, ios |-> ios \union {"fail"}, status |-> "FAILED"]}
             ELSE {})
            \union
            (IF "partial" \in regime
             THEN {[wire |-> wire \o SubSeq(bytes, 1, n), ios |-> ios \ {"fail"}, status |-> status] :
                      n \in Short(bytes)}
             ELSE {}) :
        Len(r.wire) <= MaxWire}

(***************************************************************************)
(* StreamBuf asks queryStatus whether the put area was written, that is      *)
(* whether m_Status is SC_OK, and returns EOF when it was not, which sets    *)
(* badbit in the stream's functions.                                         *)
(***************************************************************************)
Written_Ignored(r) == TRUE
Written(r) == r.status = "OK"
Reported(r) == IF Written(r) THEN r.ios ELSE r.ios \union {"bad"}
AfterSend_Keeps(r) == out
AfterSend_Drops(r) == <<>>
AfterSend(r) == IF Written(r) THEN <<>> ELSE out

(***************************************************************************)
(* operator<< of one character: into the put area, through overflow when    *)
(* the area is full.  An overflow that returns EOF sets badbit.             *)
(***************************************************************************)
Put ==
    /\ isOpen
    /\ Good
    /\ Len(accepted) < MaxOut
    /\ LET b == Len(accepted) + 1 IN
       \/ /\ HasRoom
          /\ out' = Append(out, b)
          /\ accepted' = Append(accepted, b)
          /\ UNCHANGED <<wire, ios, status>>
       \/ /\ ~HasRoom
          /\ \E r \in SendResults(out) :
                /\ wire' = r.wire
                /\ status' = r.status
                /\ ios' = Reported(r)
                /\ out' = IF Written(r) THEN <<b>> ELSE out
                /\ accepted' = IF Written(r) THEN Append(accepted, b) ELSE accepted
    /\ UNCHANGED <<setting, isOpen, polling, readerVars, peerVars>>

(* ostream::flush: sync() of an empty put area, or of one that could not be
   written, returns EOF, and then flush sets badbit. *)
Flush ==
    /\ isOpen
    /\ Good
    /\ \/ /\ out = <<>>
          /\ ios' = ios \union {"bad"}
          /\ UNCHANGED <<wire, status, out>>
       \/ /\ out # <<>>
          /\ \E r \in SendResults(out) :
                /\ wire' = r.wire
                /\ status' = r.status
                /\ ios' = Reported(r)
                /\ out' = AfterSend(r)
    /\ UNCHANGED <<setting, isOpen, polling, accepted, readerVars, peerVars>>

(* Socket::close: pubsync, whose result nobody looks at, then ::close.  A
   stream that is not good drops what both areas hold. *)
Close ==
    /\ isOpen
    /\ isOpen' = FALSE
    /\ \/ /\ out = <<>>
          /\ UNCHANGED <<wire, ios, status, out, area, gnext>>
       \/ /\ out # <<>> /\ Good
          /\ \E r \in SendResults(out) :
                /\ wire' = r.wire
                /\ status' = r.status
                /\ ios' = r.ios
                /\ out' = AfterSend(r)
          /\ UNCHANGED <<area, gnext>>
       \/ /\ out # <<>> /\ ~Good
          /\ out' = <<>>
          /\ area' = Consumed
          /\ gnext' = InSize
          /\ UNCHANGED <<wire, ios, status>>
    /\ UNCHANGED <<setting, polling, accepted, queue, decrypted, got, peerVars>>

(* Socket::write of one byte, by a program that has flushed what it put. *)
RawWrite ==
    /\ isOpen
    /\ "rawWrite" \in regime
    /\ out = <<>>
    /\ Len(accepted) < MaxOut
    /\ LET b == Len(accepted) + 1 IN
       \E r \in SendResults(<<b>>) :
          /\ wire' = r.wire
          /\ ios' = r.ios
          /\ status' = r.status
          /\ accepted' = IF r.wire = wire THEN accepted ELSE Append(accepted, b)
    /\ UNCHANGED <<setting, isOpen, polling, out, readerVars, peerVars>>

------------------------------------------------------------------------------
(***************************************************************************)
(* SSConnected::read(n) and SSConnectedTLS::read(n): bytes, or none with    *)
(* the state that goes with it.  SSL_read takes a whole record out of the   *)
(* kernel and returns a part of it; what it keeps is not in the count that  *)
(* FIONREAD gives, which is all a polling read looks at.  A blocking read   *)
(* of a silent peer is not enabled: it waits.  Reading data clears every    *)
(* iostate bit, whoever set it.                                             *)
(***************************************************************************)
KernelEmpty == decrypted = Len(queue)
Smaller(a, b) == IF a < b THEN a ELSE b
PlainData(n) ==
    {[bytes |-> SubSeq(queue, 1, k), decrypted |-> 0, ios |-> {}, status |-> "OK"] :
        k \in 1 .. Smaller(n, Len(queue))}
Records == IF decrypted > 0 THEN {decrypted} ELSE 1 .. Len(queue)
SecureData(n) ==
    UNION {{[bytes |-> SubSeq(queue, 1, k), decrypted |-> m - k, ios |-> {}, status |-> "OK"] :
               k \in 1 .. Smaller(n, m)} : m \in Records}
Data(n) == IF secure THEN SecureData(n) ELSE PlainData(n)
Nothing(bits) ==
    [bytes |-> <<>>, decrypted |-> decrypted, ios |-> ios \union bits, status |-> "NODATA"]
ReceiveResults(n) ==
    (IF polling /\ KernelEmpty THEN {} ELSE Data(n))
    \union (IF (polling /\ KernelEmpty) \/ (queue = <<>> /\ ~peerOpen)
            THEN {Nothing({"eof"})} ELSE {})
    \union (IF "recvError" \in regime THEN {Nothing({"eof"})} ELSE {})
    \union (IF "recvError" \in regime /\ polling /\ ~KernelEmpty THEN {Nothing({"bad"})} ELSE {})
Drop(n) == SubSeq(queue, n + 1, Len(queue))

(* uflow consumes the character that underflow found, and returns it as a
   signed char. *)
AfterUflow_NoBump == 0
AfterUflow == 1
ReadsAsEof(b) == "byteFF" \in regime /\ b \in NegativeOne

(***************************************************************************)
(* istream::get(): from the get area, or through uflow, which refills it.   *)
(* EOF sets eofbit and failbit.  In the get area every byte value is data;  *)
(* the first one of a refill is EOF when it is 0xFF.                        *)
(***************************************************************************)
Get ==
    /\ isOpen
    /\ Good
    /\ \/ /\ Unread # <<>>
          /\ got' = Append(got, Head(Unread))
          /\ gnext' = gnext + 1
          /\ UNCHANGED <<ios, status, area, queue, decrypted>>
       \/ /\ Unread = <<>>
          /\ \E r \in ReceiveResults(InSize) :
                /\ status' = r.status
                /\ queue' = Drop(Len(r.bytes))
                /\ decrypted' = r.decrypted
                /\ \/ /\ r.bytes = <<>>
                      /\ ios' = r.ios \union {"eof", "fail"}
                      /\ UNCHANGED <<area, gnext, got>>
                   \/ /\ r.bytes # <<>>
                      /\ area' = r.bytes
                      /\ gnext' = AfterUflow
                      /\ \/ ~ReadsAsEof(Head(r.bytes)) /\ got' = Append(got, Head(r.bytes)) /\ ios' = r.ios
                         \/ ReadsAsEof(Head(r.bytes)) /\ got' = got /\ ios' = {"eof", "fail"}
    /\ UNCHANGED <<setting, isOpen, polling, writerVars, peerVars>>

(* Socket::read of one byte, by a program that has read what was buffered. *)
RawRead ==
    /\ isOpen
    /\ Unread = <<>>
    /\ \E r \in ReceiveResults(1) :
          /\ status' = r.status
          /\ ios' = r.ios
          /\ queue' = Drop(Len(r.bytes))
          /\ decrypted' = r.decrypted
          /\ got' = got \o r.bytes
    /\ UNCHANGED <<setting, isOpen, polling, area, gnext, writerVars, peerVars>>

(* unget() of the character the program just got: sungetc, and pbackfail when
   the get area has nothing before gptr. *)
Unget ==
    /\ isOpen
    /\ Good
    /\ "unget" \in regime
    /\ got # <<>>
    /\ \/ /\ gnext > 0
          /\ area[gnext] = Last(got)
          /\ gnext' = gnext - 1
          /\ got' = Front(got)
          /\ UNCHANGED ios
       \/ /\ gnext = 0
          /\ ios' = {"bad"}
          /\ UNCHANGED <<gnext, got>>
    /\ UNCHANGED <<setting, isOpen, polling, status, area, queue, decrypted, writerVars, peerVars>>

------------------------------------------------------------------------------
Clear ==
    /\ "clear" \in regime
    /\ ios' = {}
    /\ UNCHANGED <<setting, isOpen, polling, status, writerVars, readerVars, peerVars>>

SetAsyncMode ==
    /\ polling' = ~polling
    /\ UNCHANGED <<setting, isOpen, status, ios, writerVars, readerVars, peerVars>>

PeerSends ==
    /\ peerOpen
    /\ sent < MaxIn
    /\ sent' = sent + 1
    /\ queue' = Append(queue, sent + 1)
    /\ UNCHANGED <<setting, isOpen, polling, status, ios, area, gnext, decrypted, got, peerOpen, writerVars>>

PeerCloses ==
    /\ peerOpen
    /\ peerOpen' = FALSE
    /\ UNCHANGED <<setting, isOpen, polling, status, ios, readerVars, sent, writerVars>>

Next ==
    \/ Put
    \/ Flush
    \/ Close
    \/ RawWrite
    \/ Get
    \/ RawRead
    \/ Unget
    \/ Clear
    \/ SetAsyncMode
    \/ PeerSends
    \/ PeerCloses

Spec == Init /\ [][Next]_vars

------------------------------------------------------------------------------
(* Properties. *)

(* What the program put and what the kernel took differ by exactly the put
   area: a flush or an overflow that fails keeps its bytes, one that succeeds
   forgets them, and nothing is sent twice. *)
OutputOrder == isOpen => wire \o out = accepted

(* A program that uses one way of writing and stops at the first failure, over
   a network that sends all or nothing. *)
Reliable == regime \intersect {"clear", "rawWrite", "partial"} = {}

OrderWhenReliable == Reliable => OutputOrder

(* Buffered and raw reads, refills and ungets together deliver the peer's
   bytes once and in order, from a TCP or a TLS connection; but a byte 0xFF may
   be taken for the end of the stream. *)
InputOrder ==
    isOpen /\ "byteFF" \notin regime => got \o Unread \o queue = [i \in 1 .. sent |-> i]

(* A stream that looks good to the program has m_Status SC_OK, the condition
   StreamBuf tests to learn whether a write succeeded. *)
StatusCovered == Good => status = "OK"

(* Whatever the program mixes, clears and retries over a network that sends all
   or nothing, a byte it wrote on an open stream is in the put area or on the
   wire: it may be sent twice, but it is never forgotten. *)
NothingLost == isOpen /\ "partial" \notin regime => ToSet(accepted) \subseteq ToSet(wire) \union ToSet(out)

(* The output of a reliable regime is an ordered channel: what the peer is sent
   is always a prefix of what the program wrote, after Close drops the rest too. *)
Promised(s) == IF Reliable THEN s ELSE <<>>
Channel == INSTANCE ByteChannel WITH entered <- Promised(accepted), left <- Promised(wire)
KeepsChannel == Channel!Spec

==============================================================================
