--------------------------- MODULE EchoServerProofs ---------------------------
(***************************************************************************)
(* Theorems about EchoServer, for every set of clients and as many          *)
(* characters as they send.                                                 *)
(***************************************************************************)
EXTENDS EchoServer, SequenceLemmas

Char == 1 .. MaxIn

(***************************************************************************)
(* What a client sent is, in this order, back with it, in the put area of   *)
(* its Socket, in its thread's buffer and in the kernel: nothing is lost    *)
(* until the client itself closes, and a block server leaves nothing in the *)
(* put area.  A thread's buffer is empty wherever the thread may be left    *)
(* waiting.                                                                 *)
(***************************************************************************)
Chain(c) == ((back[c] \o pending[c]) \o buf[c]) \o queue[c]

Bounded(c) == Len(back[c]) + Len(pending[c]) + Len(buf[c]) + Len(queue[c]) <= sent[c]
Ordered(c) == IsPrefix(back[c], Sent(c))
Whole(c) == peer[c] # "closed" => good[c] /\ Chain(c) = Sent(c)
Emptied(c) ==
    /\ binary => pending[c] = <<>>
    /\ thread[c] \in {"none", "loop", "exit", "done"} => buf[c] = <<>>
    /\ binary /\ thread[c] = "read" => buf[c] = <<>>
Served(c) == thread[c] # "none" => peer[c] \in {"open", "closed"}

ClientInv(c) == Bounded(c) /\ Ordered(c) /\ Whole(c) /\ Emptied(c) /\ Served(c)

(***************************************************************************)
(* The main thread spawns a thread for a client that has none and whose     *)
(* connection is accepted; no thread runs before the accept loop; and from  *)
(* the join on the server is closed, to clients that wait for it too.       *)
(***************************************************************************)
MainInv ==
    /\ main = "spawn" => /\ accepted \in Clients
                         /\ thread[accepted] = "none"
                         /\ peer[accepted] \in {"open", "closed"}
    /\ main = "open" => serverSock = "Closed" /\ \A c \in Clients : thread[c] = "none"
    /\ main \in {"join", "done"} => serverSock = "Closed"
    /\ serverSock = "Closed" => \A c \in Clients : peer[c] # "waiting"
    /\ main = "done" => \A c \in Clients : thread[c] \in {"none", "done"}

Scalars ==
    /\ binary \in BOOLEAN /\ exitServer \in BOOLEAN
    /\ serverSock \in {"Closed", "Listening"}
    /\ main \in {"open", "loop", "listen", "accept", "spawn", "after", "join", "done"}
    /\ accepted \in Clients \union {None}
    /\ ended \in {"no", "aborted", "killed"}
Functions ==
    /\ thread \in [Clients -> {"none", "loop", "read", "write", "exit", "done"}]
    /\ good \in [Clients -> BOOLEAN]
    /\ refused \in [Clients -> BOOLEAN]
    /\ peer \in [Clients -> {"absent", "waiting", "open", "closed"}]
    /\ sent \in [Clients -> 0 .. MaxIn]
Buffers ==
    /\ buf \in [Clients -> Seq(Char)]
    /\ pending \in [Clients -> Seq(Char)]
    /\ queue \in [Clients -> Seq(Char)]
    /\ back \in [Clients -> Seq(Char)]

EchoInv == Scalars /\ Functions /\ Buffers /\ (\A c \in Clients : ClientInv(c)) /\ MainInv
------------------------------------------------------------------------------
(* Regrouping the four parts of a chain. *)

LEMMA Lengths ==
    ASSUME NEW s \in Seq(Char), NEW t \in Seq(Char)
    PROVE  s \o t \in Seq(Char) /\ Len(s \o t) = Len(s) + Len(t)
BY ConcatInSeq

LEMMA Assoc ==
    ASSUME NEW s \in Seq(Char), NEW t \in Seq(Char), NEW u \in Seq(Char)
    PROVE  (s \o t) \o u = s \o (t \o u)
BY ConcatAssociative

LEMMA NoneBeside ==
    ASSUME NEW s \in Seq(Char)
    PROVE  s \o <<>> = s /\ <<>> \o s = s
BY ConcatEmptySeq

LEMMA EmptyTyped == <<>> \in Seq(Char) /\ Len(<<>>) = 0
BY EmptySeq

LEMMA LengthTyped ==
    ASSUME NEW s \in Seq(Char)
    PROVE  Len(s) \in Nat
BY LenProperties

LEMMA PartBelow ==
    ASSUME NEW a \in Nat, NEW b \in Nat, NEW s \in Nat, NEW q \in Nat, NEW n \in Nat, NEW m \in Nat,
           a + b + s + q <= n, n <= m
    PROVE  a <= m /\ b <= m /\ s <= m /\ q <= m
OBVIOUS

LEMMA SumGrows ==
    ASSUME NEW a \in Nat, NEW b \in Nat, NEW s \in Nat, NEW q \in Nat, NEW n \in Nat,
           a + b + s + q <= n
    PROVE  a + b + s + (q + 1) <= n + 1
OBVIOUS

LEMMA ChainPrefix ==
    ASSUME NEW a \in Seq(Char), NEW b \in Seq(Char), NEW s \in Seq(Char), NEW q \in Seq(Char)
    PROVE  IsPrefix(a, ((a \o b) \o s) \o q)
<1>1. a \o b \in Seq(Char) /\ b \o s \in Seq(Char) /\ (b \o s) \o q \in Seq(Char)
    BY Lengths
<1>2. (a \o b) \o s = a \o (b \o s)
    BY Assoc
<1>3. (a \o (b \o s)) \o q = a \o ((b \o s) \o q)
    BY <1>1, Assoc, SMTT(60)
<1> DEFINE t == (b \o s) \o q
<1>4. t \in Seq(Char)
    BY <1>1
<1> HIDE DEF t
<1>5. IsPrefix(a, a \o t)
    BY <1>4, PrefixOfConcat
<1>6. QED
    BY <1>2, <1>3, <1>5 DEF t

LEMMA BlockMoves ==
    ASSUME NEW a \in Seq(Char), NEW s \in Seq(Char), NEW q \in Seq(Char)
    PROVE  (((a \o s) \o <<>>) \o <<>>) \o q = ((a \o <<>>) \o s) \o q
BY Lengths, NoneBeside

LEMMA StringMoves ==
    ASSUME NEW a \in Seq(Char), NEW b \in Seq(Char), NEW s \in Seq(Char), NEW q \in Seq(Char)
    PROVE  ((a \o (b \o s)) \o <<>>) \o q = ((a \o b) \o s) \o q
<1>1. (a \o b) \o s = a \o (b \o s) /\ a \o (b \o s) \in Seq(Char)
    BY Lengths, Assoc
<1>2. QED
    BY <1>1, NoneBeside

LEMMA FlushMoves ==
    ASSUME NEW a \in Seq(Char), NEW b \in Seq(Char), NEW q \in Seq(Char)
    PROVE  (((a \o b) \o <<>>) \o <<>>) \o q = ((a \o b) \o <<>>) \o q
BY Lengths, NoneBeside

(* What a thread takes from the kernel, and what it leaves there. *)
LEMMA TakesSome ==
    ASSUME Buffers, NEW c \in Clients, queue[c] # <<>>
    PROVE  /\ SubSeq(queue[c], 1, TakesNow(c)) \in Seq(Char)
           /\ SubSeq(queue[c], TakesNow(c) + 1, Len(queue[c])) \in Seq(Char)
           /\ SubSeq(queue[c], 1, TakesNow(c)) \o SubSeq(queue[c], TakesNow(c) + 1, Len(queue[c])) = queue[c]
           /\ Len(SubSeq(queue[c], 1, TakesNow(c)))
              + Len(SubSeq(queue[c], TakesNow(c) + 1, Len(queue[c]))) = Len(queue[c])
<1> DEFINE q == queue[c]
           n == TakesNow(c)
<1>1. q \in Seq(Char) /\ q # <<>>
    BY DEF Buffers
<1>2. Len(q) \in Nat \ {0}
    BY <1>1, EmptySeq
<1>3. n \in 1 .. Len(q)
    BY <1>2 DEF TakesNow
<1> HIDE DEF q, n
<1>4. SubSeq(q, 1, n) \in Seq(Char) /\ Len(SubSeq(q, 1, n)) = n
    BY <1>1, <1>2, <1>3, PrefixInSeq
<1>5. SubSeq(q, n + 1, Len(q)) \in Seq(Char) /\ Len(SubSeq(q, n + 1, Len(q))) = Len(q) - n
    BY <1>1, <1>2, <1>3, SuffixInSeq
<1>6. SubSeq(q, 1, n) \o SubSeq(q, n + 1, Len(q)) = q
    BY <1>1, <1>2, <1>3, CutInTwo
<1>7. Len(SubSeq(q, 1, n)) + Len(SubSeq(q, n + 1, Len(q))) = Len(q)
    BY <1>2, <1>3, <1>4, <1>5
<1>8. QED
    BY <1>4, <1>5, <1>6, <1>7 DEF q, n

(* The invariant gives the types and the bounds. *)
LEMMA EchoInvTyped == EchoInv => TypeOK
<1> SUFFICES ASSUME EchoInv PROVE TypeOK
    OBVIOUS
<1>1. ASSUME NEW c \in Clients, NEW s \in {buf[c], pending[c], queue[c], back[c]}
      PROVE  s \in Seq(1 .. MaxIn) /\ Len(s) <= MaxIn
  <2>1. /\ buf[c] \in Seq(Char) /\ pending[c] \in Seq(Char)
        /\ queue[c] \in Seq(Char) /\ back[c] \in Seq(Char)
      BY DEF EchoInv, Buffers
  <2>2. /\ Len(buf[c]) \in Nat /\ Len(pending[c]) \in Nat
        /\ Len(queue[c]) \in Nat /\ Len(back[c]) \in Nat
      BY <2>1, LengthTyped
  <2>3. sent[c] \in 0 .. MaxIn
      BY DEF EchoInv, Functions
  <2>4. Len(back[c]) + Len(pending[c]) + Len(buf[c]) + Len(queue[c]) <= sent[c]
      BY DEF EchoInv, ClientInv, Bounded
  <2>5. /\ Len(back[c]) <= MaxIn /\ Len(pending[c]) <= MaxIn
        /\ Len(buf[c]) <= MaxIn /\ Len(queue[c]) <= MaxIn
    <3>1. sent[c] \in Nat /\ MaxIn \in Nat /\ sent[c] <= MaxIn
        BY <2>3, InputAssumption
    <3>2. QED
        BY <2>2, <2>4, <3>1, PartBelow
  <2>6. s \in Seq(Char) /\ Len(s) <= MaxIn
      BY <2>1, <2>5
  <2>7. QED
      BY <2>6 DEF Char
<1>2. QED
    BY <1>1 DEF EchoInv, Scalars, Functions, TypeOK

LEMMA EchoInit == Init => EchoInv
<1> SUFFICES ASSUME Init PROVE EchoInv
    OBVIOUS
<1>1. Scalars /\ MainInv
    BY DEF Init, Scalars, MainInv
<1>2. Functions /\ Buffers
    BY EmptyTyped, InputAssumption DEF Init, Functions, Buffers
<1>3. ASSUME NEW c \in Clients PROVE ClientInv(c)
  <2>1. /\ back[c] = <<>> /\ pending[c] = <<>> /\ buf[c] = <<>> /\ queue[c] = <<>>
        /\ sent[c] = 0 /\ peer[c] = "absent" /\ thread[c] = "none" /\ good[c]
      BY DEF Init
  <2>2. Sent(c) = <<>>
      BY <2>1, CountEmpty DEF Sent, CountTo
  <2>3. Chain(c) = <<>>
      BY <2>1, EmptyTyped, NoneBeside DEF Chain
  <2>4. IsPrefix(<<>>, <<>>)
      BY DEF IsPrefix
  <2>5. QED
      BY <2>1, <2>2, <2>3, <2>4, EmptyTyped DEF ClientInv, Bounded, Ordered, Whole, Emptied, Served
<1>4. QED
    BY <1>1, <1>2, <1>3 DEF EchoInv
------------------------------------------------------------------------------
(* One client's thread. *)

Elsewhere(c) ==
    \A d \in Clients \ {c} :
        UNCHANGED <<thread[d], good[d], buf[d], pending[d], queue[d], back[d]>>

ThreadOutcome(c) ==
    /\ ended' \in {"no", "aborted", "killed"}
    /\ Functions' /\ Buffers'
    /\ ClientInv(c)'
    /\ Elsewhere(c)
    /\ thread[c] \notin {"none", "done"} /\ thread'[c] # "none"

(* What the four lemmas below share. *)
LEMMA InvAtClient ==
    ASSUME EchoInv, NEW c \in Clients
    PROVE  /\ back[c] \in Seq(Char) /\ pending[c] \in Seq(Char)
           /\ buf[c] \in Seq(Char) /\ queue[c] \in Seq(Char)
           /\ Len(back[c]) \in Nat /\ Len(pending[c]) \in Nat
           /\ Len(buf[c]) \in Nat /\ Len(queue[c]) \in Nat
           /\ sent[c] \in Nat
           /\ Bounded(c) /\ Ordered(c) /\ Whole(c) /\ Emptied(c) /\ Served(c)
<1>1. /\ back[c] \in Seq(Char) /\ pending[c] \in Seq(Char)
      /\ buf[c] \in Seq(Char) /\ queue[c] \in Seq(Char)
    BY DEF EchoInv, Buffers
<1>2. sent[c] \in Nat
    BY InputAssumption DEF EchoInv, Functions
<1>3. QED
    BY <1>1, <1>2, LengthTyped DEF EchoInv, ClientInv

LEMMA SendMoves ==
    ASSUME EchoInv, NEW c \in Clients, NEW s \in Seq(Char), Send(c, s)
    PROVE  /\ back' \in [Clients -> Seq(Char)]
           /\ refused' \in [Clients -> BOOLEAN]
           /\ good' \in [Clients -> BOOLEAN]
           /\ ended' \in {"no", "killed"}
           /\ \A d \in Clients \ {c} : back'[d] = back[d] /\ good'[d] = good[d]
           /\ peer[c] = "open" => back'[c] = back[c] \o s /\ good'[c] = good[c]
           /\ back'[c] = back[c] \/ back'[c] = back[c] \o s
           /\ peer[c] # "open" => back'[c] = back[c]
<1>1. PICK r \in SendResults(c) :
          /\ back' = IF r = "sent" THEN [back EXCEPT ![c] = @ \o s] ELSE back
          /\ refused' = [refused EXCEPT ![c] = @ \/ r = "lost"]
          /\ good' = [good EXCEPT ![c] = @ /\ r # "failed"]
          /\ ended' = IF r = "killed" THEN "killed" ELSE "no"
    BY DEF Send
<1>2. back \in [Clients -> Seq(Char)] /\ good \in [Clients -> BOOLEAN] /\ refused \in [Clients -> BOOLEAN]
    BY DEF EchoInv, Buffers, Functions
<1>3. back[c] \o s \in Seq(Char)
    BY <1>2, Lengths
<1>4. back' \in [Clients -> Seq(Char)]
    BY <1>1, <1>2, <1>3
<1>5. refused' \in [Clients -> BOOLEAN] /\ good' \in [Clients -> BOOLEAN]
    BY <1>1, <1>2
<1>6. \A d \in Clients \ {c} : back'[d] = back[d] /\ good'[d] = good[d]
    BY <1>1, <1>2
<1>7. peer[c] = "open" <=> r = "sent"
    BY DEF SendResults
<1>8. back'[c] = IF r = "sent" THEN back[c] \o s ELSE back[c]
    BY <1>1, <1>2
<1>9. r = "sent" => good'[c] = good[c]
    BY <1>1, <1>2
<1>10. QED
    BY <1>1, <1>4, <1>5, <1>6, <1>7, <1>8, <1>9

(* From the chain to the prefix: while the client is connected its order     *)
(* follows from the chain, afterwards nothing more is sent back.             *)
LEMMA OrderFollows ==
    ASSUME Buffers', NEW c \in Clients, Whole(c)', Ordered(c),
           UNCHANGED <<peer, sent>>, peer[c] = "closed" => back'[c] = back[c]
    PROVE  Ordered(c)'
<1>1. CASE peer[c] = "closed"
    BY <1>1 DEF Ordered, Sent
<1>2. CASE peer[c] # "closed"
  <2>1. Chain(c)' = Sent(c)'
      BY <1>2 DEF Whole
  <2>2. /\ back'[c] \in Seq(Char) /\ pending'[c] \in Seq(Char)
        /\ buf'[c] \in Seq(Char) /\ queue'[c] \in Seq(Char)
      BY DEF Buffers
  <2>3. IsPrefix(back'[c], ((back'[c] \o pending'[c]) \o buf'[c]) \o queue'[c])
      BY <2>2, ChainPrefix
  <2>4. QED
      BY <2>1, <2>3 DEF Ordered, Chain
<1>3. QED
    BY <1>1, <1>2

LEMMA LoopMoves ==
    ASSUME EchoInv, NEW c \in Clients, ThreadLoop(c), UNCHANGED <<binary, mainVars, peer, sent>>
    PROVE  ThreadOutcome(c)
<1>1. /\ thread[c] = "loop" /\ UNCHANGED <<good, buf, pending, back, refused, queue, ended>>
      /\ thread' = [thread EXCEPT ![c] = IF ~exitServer /\ good[c] THEN "read" ELSE "exit"]
    BY DEF ThreadLoop, clientVars
<1>2. Functions' /\ Buffers' /\ Elsewhere(c) /\ thread'[c] \in {"read", "exit"}
    BY <1>1 DEF EchoInv, Functions, Buffers, Elsewhere
<1>3. /\ Bounded(c) /\ Ordered(c) /\ Whole(c) /\ Emptied(c) /\ Served(c)
    BY InvAtClient
<1>4. Bounded(c)' /\ Ordered(c)' /\ Whole(c)'
    BY <1>1, <1>3 DEF Bounded, Ordered, Whole, Chain, Sent
<1>5. Emptied(c)' /\ Served(c)'
    BY <1>1, <1>2, <1>3 DEF Emptied, Served
<1>6. QED
    BY <1>1, <1>2, <1>4, <1>5 DEF ThreadOutcome, ClientInv, EchoInv, Scalars

LEMMA ReadsMove ==
    ASSUME EchoInv, NEW c \in Clients, ThreadReads(c), UNCHANGED <<binary, mainVars, peer, sent>>
    PROVE  ThreadOutcome(c)
<1> DEFINE x == SubSeq(queue[c], 1, TakesNow(c))
           y == SubSeq(queue[c], TakesNow(c) + 1, Len(queue[c]))
<1>1. /\ thread[c] = "read" /\ UNCHANGED <<good, pending, back, refused, ended>>
      /\ buf' = [buf EXCEPT ![c] = @ \o x]
      /\ queue' = [queue EXCEPT ![c] = y]
      /\ thread' = [thread EXCEPT ![c] = IF ReadComplete(c) THEN "write" ELSE "read"]
  <2>1. queue' = [queue EXCEPT ![c] = y]
      BY DEF ThreadReads, EchoInv, Buffers
  <2>2. QED
      BY <2>1 DEF ThreadReads
<1>2. x \in Seq(Char) /\ y \in Seq(Char) /\ x \o y = queue[c] /\ Len(x) + Len(y) = Len(queue[c])
    BY TakesSome DEF ThreadReads, EchoInv
<1>3. binary => thread'[c] = "write"
    BY <1>1 DEF ReadComplete, EchoInv, Functions
<1> HIDE DEF x, y
<1>4. /\ back[c] \in Seq(Char) /\ pending[c] \in Seq(Char) /\ buf[c] \in Seq(Char)
      /\ Len(back[c]) \in Nat /\ Len(pending[c]) \in Nat
      /\ Len(buf[c]) \in Nat /\ sent[c] \in Nat
      /\ Bounded(c) /\ Ordered(c) /\ Whole(c) /\ Emptied(c) /\ Served(c)
    BY InvAtClient
<1>5. buf[c] \o x \in Seq(Char) /\ Len(buf[c] \o x) = Len(buf[c]) + Len(x)
    BY <1>2, <1>4, Lengths
<1>6. Buffers'
    BY <1>1, <1>2, <1>5 DEF EchoInv, Buffers
<1>7. Functions' /\ thread'[c] \in {"read", "write"}
    BY <1>1 DEF EchoInv, Functions
<1>8. Elsewhere(c)
    BY <1>1 DEF Elsewhere, EchoInv, Functions, Buffers
<1>9. buf'[c] = buf[c] \o x /\ queue'[c] = y /\ back'[c] = back[c] /\ pending'[c] = pending[c]
    BY <1>1 DEF EchoInv, Buffers
<1>10. Bounded(c)'
  <2>1. /\ Len(x) \in Nat /\ Len(y) \in Nat /\ Len(queue[c]) \in Nat
        /\ Len(buf[c] \o x) \in Nat
      BY <1>2, <1>4, <1>5, LengthTyped, InvAtClient
  <2> DEFINE a == Len(back[c])
             b == Len(pending[c])
             l == Len(buf[c])
             q == Len(queue[c])
             lx == Len(x)
             ly == Len(y)
             l1 == Len(buf[c] \o x)
             n == sent[c]
  <2>2. /\ a \in Nat /\ b \in Nat /\ l \in Nat /\ q \in Nat /\ lx \in Nat /\ ly \in Nat /\ n \in Nat
        /\ lx + ly = q /\ l1 = l + lx /\ a + b + l + q <= n
      BY <1>2, <1>4, <1>5, <2>1 DEF Bounded
  <2> HIDE DEF a, b, l, q, lx, ly, l1, n
  <2>5. a + b + l1 + ly <= n
      BY <2>2
  <2>3. Len(back[c]) + Len(pending[c]) + Len(buf[c] \o x) + Len(y) <= sent[c]
      BY <2>5 DEF a, b, l1, ly, n
  <2>4. QED
      BY <1>9, <2>3 DEF Bounded
<1>11. Whole(c)'
  <2>1. Chain(c)' = Chain(c)
    <3>1. ((back[c] \o pending[c]) \o (buf[c] \o x)) \o y = ((back[c] \o pending[c]) \o buf[c]) \o (x \o y)
      <4> DEFINE p == back[c] \o pending[c]
                 l == buf[c]
      <4>1. p \in Seq(Char) /\ l \in Seq(Char) /\ x \in Seq(Char) /\ y \in Seq(Char)
          BY <1>2, <1>4, Lengths
      <4> HIDE DEF p, l
      <4>2. p \o (l \o x) = (p \o l) \o x
          BY <4>1, Assoc, SMTT(60)
      <4>3. p \o l \in Seq(Char)
          BY <4>1, Lengths
      <4>4. ((p \o l) \o x) \o y = (p \o l) \o (x \o y)
          BY <4>1, <4>3, Assoc
      <4>5. QED
          BY <4>2, <4>4 DEF p, l
    <3>2. QED
        BY <1>2, <1>9, <3>1 DEF Chain
  <2>2. QED
      BY <1>1, <1>4, <2>1 DEF Whole, Sent
<1>12. Ordered(c)'
    BY <1>1, <1>4 DEF Ordered, Sent
<1>13. Emptied(c)' /\ Served(c)'
    BY <1>1, <1>3, <1>4, <1>7, <1>9 DEF Emptied, Served
<1>14. QED
    BY <1>1, <1>6, <1>7, <1>8, <1>10, <1>11, <1>12, <1>13 DEF ThreadOutcome, ClientInv, EchoInv, Scalars

LEMMA EofMoves ==
    ASSUME EchoInv, NEW c \in Clients, ThreadReadsEof(c), UNCHANGED <<binary, mainVars, peer, sent>>
    PROVE  ThreadOutcome(c)
<1>1. /\ thread[c] = "read" /\ UNCHANGED <<buf, pending, back, refused, queue, ended>>
      /\ good' = [good EXCEPT ![c] = FALSE]
      /\ thread' = [thread EXCEPT ![c] = IF binary THEN "loop" ELSE "write"]
      /\ peer[c] = "closed"
    BY DEF ThreadReadsEof, GoodAtEof, AtEof
<1>2. Functions' /\ Buffers' /\ Elsewhere(c) /\ thread'[c] = IF binary THEN "loop" ELSE "write"
    BY <1>1 DEF EchoInv, Functions, Buffers, Elsewhere
<1>3. /\ Bounded(c) /\ Ordered(c) /\ Whole(c) /\ Emptied(c) /\ Served(c)
    BY InvAtClient
<1>4. Bounded(c)' /\ Ordered(c)' /\ Whole(c)'
    BY <1>1, <1>3 DEF Bounded, Ordered, Whole, Chain, Sent
<1>5. Emptied(c)' /\ Served(c)'
    BY <1>1, <1>2, <1>3 DEF Emptied, Served
<1>6. QED
    BY <1>1, <1>2, <1>4, <1>5 DEF ThreadOutcome, ClientInv, EchoInv, Scalars

LEMMA BlockWritten ==
    ASSUME EchoInv, NEW c \in Clients, WriteBlock(c), UNCHANGED <<binary, mainVars, peer, sent>>
    PROVE  ThreadOutcome(c)
<1>1. /\ thread[c] = "write" /\ binary /\ Send(c, buf[c]) /\ UNCHANGED <<pending, queue>>
      /\ buf' = [buf EXCEPT ![c] = <<>>]
      /\ thread' = [thread EXCEPT ![c] = "loop"]
    BY DEF WriteBlock, AfterWrite
<1>2. /\ back[c] \in Seq(Char) /\ pending[c] \in Seq(Char)
      /\ buf[c] \in Seq(Char) /\ queue[c] \in Seq(Char)
      /\ Len(back[c]) \in Nat /\ Len(pending[c]) \in Nat
      /\ Len(buf[c]) \in Nat /\ Len(queue[c]) \in Nat
      /\ sent[c] \in Nat
      /\ Bounded(c) /\ Ordered(c) /\ Whole(c) /\ Emptied(c) /\ Served(c)
    BY InvAtClient
<1>3. /\ back' \in [Clients -> Seq(Char)]
      /\ refused' \in [Clients -> BOOLEAN]
      /\ good' \in [Clients -> BOOLEAN]
      /\ ended' \in {"no", "killed"}
      /\ \A d \in Clients \ {c} : back'[d] = back[d] /\ good'[d] = good[d]
      /\ peer[c] = "open" => back'[c] = back[c] \o buf[c] /\ good'[c] = good[c]
      /\ back'[c] = back[c] \/ back'[c] = back[c] \o buf[c]
      /\ peer[c] # "open" => back'[c] = back[c]
    BY <1>1, <1>2, SendMoves
<1>4. Buffers'
    BY <1>1, <1>3, EmptyTyped DEF EchoInv, Buffers
<1>5. Functions' /\ thread'[c] = "loop"
    BY <1>1, <1>3 DEF EchoInv, Functions
<1>6. Elsewhere(c)
    BY <1>1, <1>3 DEF Elsewhere, EchoInv, Functions, Buffers
<1>7. buf'[c] = <<>> /\ queue'[c] = queue[c] /\ pending'[c] = pending[c] /\ pending[c] = <<>>
    BY <1>1, <1>2 DEF EchoInv, Buffers, Emptied
<1>8. Bounded(c)'
  <2>1. Len(back'[c]) = Len(back[c]) \/ Len(back'[c]) = Len(back[c]) + Len(buf[c])
      BY <1>2, <1>3, Lengths
  <2>2. back'[c] \in Seq(Char) /\ Len(back'[c]) \in Nat
      BY <1>3, LengthTyped
  <2>3. /\ Len(buf'[c]) = 0 /\ Len(queue'[c]) = Len(queue[c]) /\ Len(pending'[c]) = Len(pending[c])
        /\ 0 \in Nat /\ 0 <= Len(buf[c])
      BY <1>2, <1>7, EmptyTyped
  <2> DEFINE a == Len(back[c])
             b == Len(pending[c])
             l == Len(buf[c])
             q == Len(queue[c])
             a1 == Len(back'[c])
             b1 == Len(pending'[c])
             l1 == Len(buf'[c])
             q1 == Len(queue'[c])
             n == sent[c]
  <2>4. /\ a \in Nat /\ b \in Nat /\ l \in Nat /\ q \in Nat /\ n \in Nat
        /\ a1 \in Nat /\ b1 \in Nat /\ l1 \in Nat /\ q1 \in Nat /\ a + b + l + q <= n
        /\ (a1 = a \/ a1 = a + l) /\ b1 = b /\ l1 = 0 /\ q1 = q
      BY <1>2, <2>1, <2>2, <2>3 DEF Bounded
  <2> HIDE DEF a, b, l, q, a1, b1, l1, q1, n
  <2>5. a1 + b1 + l1 + q1 <= n
      BY <2>4
  <2>6. Len(back'[c]) + Len(pending'[c]) + Len(buf'[c]) + Len(queue'[c]) <= sent[c]
      BY <2>5 DEF a1, b1, l1, q1, n
  <2>7. QED
      BY <2>6 DEF Bounded
<1>9. Whole(c)'
  <2>1. CASE peer[c] = "open"
    <3>1. Chain(c)' = (((back[c] \o buf[c]) \o <<>>) \o <<>>) \o queue[c]
        BY <1>3, <1>7, <2>1 DEF Chain
    <3>2. Chain(c) = ((back[c] \o <<>>) \o buf[c]) \o queue[c]
        BY <1>7 DEF Chain
    <3>3. Chain(c)' = Chain(c)
        BY <1>2, <3>1, <3>2, BlockMoves
    <3>4. QED
        BY <1>2, <1>3, <2>1, <3>3 DEF Whole, Sent
  <2>2. CASE peer[c] = "closed"
      BY <2>2 DEF Whole
  <2>3. QED
      BY <1>1, <1>2, <2>1, <2>2 DEF Served
<1>10. Ordered(c)'
    BY <1>2, <1>3, <1>4, <1>9, OrderFollows
<1>11. Emptied(c)' /\ Served(c)'
    BY <1>1, <1>2, <1>5, <1>7 DEF Emptied, Served
<1>12. QED
    BY <1>1, <1>3, <1>4, <1>5, <1>6, <1>8, <1>9, <1>10, <1>11 DEF ThreadOutcome, ClientInv

LEMMA StringWritten ==
    ASSUME EchoInv, NEW c \in Clients, WriteString(c), UNCHANGED <<binary, mainVars, peer, sent>>
    PROVE  ThreadOutcome(c)
<1>1. /\ thread[c] = "write" /\ ~binary /\ UNCHANGED <<good, back, refused, queue, ended>>
      /\ pending' = IF good[c] THEN [pending EXCEPT ![c] = @ \o buf[c]] ELSE pending
      /\ buf' = [buf EXCEPT ![c] = <<>>]
      /\ thread' = [thread EXCEPT ![c] = "loop"]
    BY DEF WriteString, AfterWrite
<1>2. /\ back[c] \in Seq(Char) /\ pending[c] \in Seq(Char)
      /\ buf[c] \in Seq(Char) /\ queue[c] \in Seq(Char)
      /\ Len(back[c]) \in Nat /\ Len(pending[c]) \in Nat
      /\ Len(buf[c]) \in Nat /\ Len(queue[c]) \in Nat
      /\ sent[c] \in Nat
      /\ Bounded(c) /\ Ordered(c) /\ Whole(c) /\ Emptied(c) /\ Served(c)
    BY InvAtClient
<1>3. pending[c] \o buf[c] \in Seq(Char) /\ Len(pending[c] \o buf[c]) = Len(pending[c]) + Len(buf[c])
    BY <1>2, Lengths
<1>4. Buffers'
    BY <1>1, <1>3, EmptyTyped DEF EchoInv, Buffers
<1>5. Functions' /\ thread'[c] = "loop"
    BY <1>1 DEF EchoInv, Functions
<1>6. Elsewhere(c)
    BY <1>1 DEF Elsewhere, EchoInv, Functions, Buffers
<1>7. /\ buf'[c] = <<>> /\ queue'[c] = queue[c] /\ back'[c] = back[c]
      /\ pending'[c] = IF good[c] THEN pending[c] \o buf[c] ELSE pending[c]
    BY <1>1 DEF EchoInv, Buffers
<1>8. Bounded(c)'
  <2>1. /\ pending'[c] \in Seq(Char) /\ Len(pending'[c]) \in Nat
        /\ \/ Len(pending'[c]) = Len(pending[c]) + Len(buf[c])
           \/ Len(pending'[c]) = Len(pending[c])
      BY <1>2, <1>3, <1>7, LengthTyped
  <2>2. /\ Len(buf'[c]) = 0 /\ Len(queue'[c]) = Len(queue[c]) /\ Len(back'[c]) = Len(back[c])
        /\ 0 \in Nat /\ 0 <= Len(buf[c]) /\ Len(pending[c]) <= Len(pending[c])
      BY <1>2, <1>7, EmptyTyped
  <2> DEFINE a == Len(back[c])
             b == Len(pending[c])
             l == Len(buf[c])
             q == Len(queue[c])
             a1 == Len(back'[c])
             b1 == Len(pending'[c])
             l1 == Len(buf'[c])
             q1 == Len(queue'[c])
             n == sent[c]
  <2>3. /\ a \in Nat /\ b \in Nat /\ l \in Nat /\ q \in Nat /\ n \in Nat
        /\ a1 \in Nat /\ b1 \in Nat /\ l1 \in Nat /\ q1 \in Nat /\ a + b + l + q <= n
        /\ a1 = a /\ (b1 = b \/ b1 = b + l) /\ l1 = 0 /\ q1 = q
      BY <1>2, <2>1, <2>2 DEF Bounded
  <2> HIDE DEF a, b, l, q, a1, b1, l1, q1, n
  <2>4. a1 + b1 + l1 + q1 <= n
      BY <2>3
  <2>5. Len(back'[c]) + Len(pending'[c]) + Len(buf'[c]) + Len(queue'[c]) <= sent[c]
      BY <2>4 DEF a1, b1, l1, q1, n
  <2>6. QED
      BY <2>5 DEF Bounded
<1>9. Whole(c)'
  <2>1. CASE peer[c] # "closed"
    <3>1. good[c] /\ good'[c] /\ Chain(c) = Sent(c)
        BY <1>1, <1>2, <2>1 DEF Whole
    <3>2. Chain(c)' = ((back[c] \o (pending[c] \o buf[c])) \o <<>>) \o queue[c]
        BY <1>7, <3>1 DEF Chain
    <3>3. ((back[c] \o (pending[c] \o buf[c])) \o <<>>) \o queue[c]
          = ((back[c] \o pending[c]) \o buf[c]) \o queue[c]
      <4> DEFINE a == back[c]
                 b == pending[c]
                 l == buf[c]
                 q == queue[c]
      <4>1. a \in Seq(Char) /\ b \in Seq(Char) /\ l \in Seq(Char) /\ q \in Seq(Char)
          BY <1>2
      <4> HIDE DEF a, b, l, q
      <4>2. ((a \o (b \o l)) \o <<>>) \o q = ((a \o b) \o l) \o q
          BY <4>1, StringMoves, SMTT(60)
      <4>3. QED
          BY <4>2 DEF a, b, l, q
    <3>5. Chain(c)' = Chain(c)
        BY <3>2, <3>3 DEF Chain
    <3>4. QED
        BY <3>1, <3>5 DEF Whole, Sent
  <2>2. CASE peer[c] = "closed"
      BY <2>2 DEF Whole
  <2>3. QED
      BY <2>1, <2>2
<1>10. Ordered(c)'
    BY <1>2, <1>7 DEF Ordered, Sent
<1>11. Emptied(c)' /\ Served(c)'
    BY <1>1, <1>2, <1>5, <1>7 DEF Emptied, Served
<1>12. QED
    BY <1>1, <1>4, <1>5, <1>6, <1>8, <1>9, <1>10, <1>11 DEF ThreadOutcome, ClientInv, EchoInv, Scalars

LEMMA ExitMoves ==
    ASSUME EchoInv, NEW c \in Clients, ThreadExits(c), UNCHANGED <<binary, mainVars, peer, sent>>
    PROVE  ThreadOutcome(c)
<1>1. /\ thread[c] = "exit" /\ UNCHANGED <<buf, queue>>
      /\ IF good[c] /\ pending[c] # <<>>
         THEN Send(c, pending[c])
         ELSE UNCHANGED <<good, back, refused, ended>>
      /\ pending' = [pending EXCEPT ![c] = <<>>]
      /\ thread' = [thread EXCEPT ![c] = "done"]
    BY DEF ThreadExits
<1>2. /\ back[c] \in Seq(Char) /\ pending[c] \in Seq(Char)
      /\ buf[c] \in Seq(Char) /\ queue[c] \in Seq(Char)
      /\ Len(back[c]) \in Nat /\ Len(pending[c]) \in Nat
      /\ Len(buf[c]) \in Nat /\ Len(queue[c]) \in Nat
      /\ sent[c] \in Nat
      /\ Bounded(c) /\ Ordered(c) /\ Whole(c) /\ Emptied(c) /\ Served(c)
    BY InvAtClient
<1>3. /\ back' \in [Clients -> Seq(Char)]
      /\ refused' \in [Clients -> BOOLEAN]
      /\ good' \in [Clients -> BOOLEAN]
      /\ ended' \in {"no", "aborted", "killed"}
      /\ \A d \in Clients \ {c} : back'[d] = back[d] /\ good'[d] = good[d]
      /\ peer[c] = "open" => back'[c] = back[c] \o pending[c] /\ good'[c] = good[c]
      /\ back'[c] = back[c] \/ back'[c] = back[c] \o pending[c]
      /\ peer[c] # "open" => back'[c] = back[c]
  <2>1. CASE good[c] /\ pending[c] # <<>>
    <3>1. Send(c, pending[c])
        BY <1>1, <2>1
    <3>2. QED
        BY <1>2, <3>1, SendMoves
  <2>2. CASE ~good[c]
    <3>1. UNCHANGED <<good, back, refused, ended>> /\ peer[c] = "closed"
        BY <1>1, <1>2, <2>2 DEF Whole
    <3>2. QED
        BY <3>1 DEF EchoInv, Functions, Buffers, Scalars
  <2>3. CASE pending[c] = <<>>
    <3>1. UNCHANGED <<good, back, refused, ended>> /\ back[c] \o pending[c] = back[c]
        BY <1>1, <1>2, <2>3, NoneBeside
    <3>2. QED
        BY <3>1 DEF EchoInv, Functions, Buffers, Scalars
  <2>4. QED
      BY <2>1, <2>2, <2>3
<1>4. Buffers'
    BY <1>1, <1>3, EmptyTyped DEF EchoInv, Buffers
<1>5. Functions' /\ thread'[c] = "done"
    BY <1>1, <1>3 DEF EchoInv, Functions
<1>6. Elsewhere(c)
    BY <1>1, <1>3 DEF Elsewhere, EchoInv, Functions, Buffers
<1>7. buf'[c] = <<>> /\ buf[c] = <<>> /\ queue'[c] = queue[c] /\ pending'[c] = <<>>
    BY <1>1, <1>2 DEF EchoInv, Buffers, Emptied
<1>8. Bounded(c)'
  <2>1. Len(back'[c]) = Len(back[c]) \/ Len(back'[c]) = Len(back[c]) + Len(pending[c])
      BY <1>2, <1>3, Lengths
  <2>2. back'[c] \in Seq(Char) /\ Len(back'[c]) \in Nat
      BY <1>3, LengthTyped
  <2>3. /\ Len(buf'[c]) = Len(buf[c]) /\ Len(queue'[c]) = Len(queue[c]) /\ Len(pending'[c]) = 0
        /\ 0 \in Nat /\ 0 <= Len(pending[c]) /\ Len(buf[c]) <= Len(buf[c])
      BY <1>2, <1>7, EmptyTyped
  <2> DEFINE a == Len(back[c])
             b == Len(pending[c])
             l == Len(buf[c])
             q == Len(queue[c])
             a1 == Len(back'[c])
             b1 == Len(pending'[c])
             l1 == Len(buf'[c])
             q1 == Len(queue'[c])
             n == sent[c]
  <2>4. /\ a \in Nat /\ b \in Nat /\ l \in Nat /\ q \in Nat /\ n \in Nat
        /\ a1 \in Nat /\ b1 \in Nat /\ l1 \in Nat /\ q1 \in Nat /\ a + b + l + q <= n
        /\ (a1 = a \/ a1 = a + b) /\ b1 = 0 /\ l1 = l /\ q1 = q
      BY <1>2, <2>1, <2>2, <2>3 DEF Bounded
  <2> HIDE DEF a, b, l, q, a1, b1, l1, q1, n
  <2>5. a1 + b1 + l1 + q1 <= n
      BY <2>4
  <2>6. Len(back'[c]) + Len(pending'[c]) + Len(buf'[c]) + Len(queue'[c]) <= sent[c]
      BY <2>5 DEF a1, b1, l1, q1, n
  <2>7. QED
      BY <2>6 DEF Bounded
<1>9. Whole(c)'
  <2>1. CASE peer[c] = "open"
    <3>1. Chain(c)' = (((back[c] \o pending[c]) \o <<>>) \o <<>>) \o queue[c]
        BY <1>3, <1>7, <2>1 DEF Chain
    <3>2. Chain(c) = ((back[c] \o pending[c]) \o <<>>) \o queue[c]
        BY <1>7 DEF Chain
    <3>3. Chain(c)' = Chain(c)
        BY <1>2, <3>1, <3>2, FlushMoves
    <3>4. QED
        BY <1>2, <1>3, <2>1, <3>3 DEF Whole, Sent
  <2>2. CASE peer[c] = "closed"
      BY <2>2 DEF Whole
  <2>3. QED
      BY <1>1, <1>2, <2>1, <2>2 DEF Served
<1>10. Ordered(c)'
    BY <1>2, <1>3, <1>4, <1>9, OrderFollows
<1>11. Emptied(c)' /\ Served(c)'
    BY <1>1, <1>2, <1>5, <1>7 DEF Emptied, Served
<1>12. QED
    BY <1>1, <1>3, <1>4, <1>5, <1>6, <1>8, <1>9, <1>10, <1>11 DEF ThreadOutcome, ClientInv

(* The other clients and the main thread do not notice. *)
LEMMA ThreadKeeps ==
    ASSUME EchoInv, NEW c \in Clients, ThreadStep(c), UNCHANGED <<binary, mainVars, peer, sent>>
    PROVE  EchoInv'
<1>1. ThreadOutcome(c)
    BY LoopMoves, ReadsMove, EofMoves, BlockWritten, StringWritten, ExitMoves DEF ThreadStep
<1>2. ASSUME NEW d \in Clients PROVE ClientInv(d)'
  <2>1. CASE d = c
      BY <1>1, <2>1 DEF ThreadOutcome
  <2>2. CASE d # c
    <3>1. UNCHANGED <<thread[d], good[d], buf[d], pending[d], queue[d], back[d]>>
        BY <1>1, <2>2 DEF ThreadOutcome, Elsewhere
    <3>2. Bounded(d) /\ Ordered(d) /\ Whole(d) /\ Emptied(d) /\ Served(d)
        BY InvAtClient
    <3>3. Bounded(d)' /\ Ordered(d)' /\ Whole(d)'
        BY <3>1, <3>2 DEF Bounded, Ordered, Whole, Chain, Sent
    <3>4. Emptied(d)' /\ Served(d)'
        BY <3>1, <3>2 DEF Emptied, Served
    <3>5. QED
        BY <3>3, <3>4 DEF ClientInv
  <2>3. QED
      BY <2>1, <2>2
<1>3. UNCHANGED <<exitServer, serverSock, main, accepted, peer>>
    BY DEF mainVars
<1>4. \A d \in Clients : d # c => thread'[d] = thread[d]
    BY <1>1 DEF ThreadOutcome, Elsewhere
<1>5. thread[c] \notin {"none", "done"} /\ MainInv
    BY <1>1 DEF ThreadOutcome, EchoInv
<1>6. MainInv'
  <2>1. main # "open" /\ main # "done"
      BY <1>5 DEF MainInv
  <2>2. main = "spawn" => accepted # c
      BY <1>5 DEF MainInv
  <2>3. QED
      BY <1>3, <1>4, <1>5, <2>1, <2>2 DEF MainInv
<1>7. Scalars'
    BY <1>1, <1>3 DEF ThreadOutcome, EchoInv, Scalars
<1>8. QED
    BY <1>1, <1>2, <1>6, <1>7 DEF ThreadOutcome, EchoInv
------------------------------------------------------------------------------
(* The main thread and its signal handler move no character. *)

(* What they change about a client: a waiting one is accepted or refused, and
   a connected one that has no thread gets one. *)
Hosted(c) ==
    /\ \/ peer'[c] = peer[c]
       \/ peer[c] = "waiting" /\ peer'[c] \in {"open", "closed"}
    /\ \/ thread'[c] = thread[c]
       \/ thread[c] = "none" /\ thread'[c] = "loop" /\ peer'[c] \in {"open", "closed"}

LEMMA HostedKeeps ==
    ASSUME EchoInv, NEW c \in Clients, Hosted(c), UNCHANGED <<binary, clientVars, sent, queue>>
    PROVE  ClientInv(c)'
<1>1. Bounded(c) /\ Ordered(c) /\ Whole(c) /\ Emptied(c) /\ Served(c)
    BY InvAtClient
<1>2. UNCHANGED <<good, buf, pending, back, refused>>
    BY DEF clientVars
<1>3. Bounded(c)' /\ Ordered(c)'
    BY <1>1, <1>2 DEF Bounded, Ordered, Sent
<1>4. Whole(c)'
    BY <1>1, <1>2 DEF Whole, Chain, Sent, Hosted
<1>5. Emptied(c)' /\ Served(c)'
    BY <1>1, <1>2 DEF Emptied, Served, Hosted
<1>6. QED
    BY <1>3, <1>4, <1>5 DEF ClientInv

(* Closing the server. *)
LEMMA ServerClosed ==
    ASSUME EchoInv, CloseServer
    PROVE  /\ serverSock' = "Closed"
           /\ peer' \in [Clients -> {"absent", "waiting", "open", "closed"}]
           /\ \A c \in Clients : /\ peer'[c] # "waiting"
                                 /\ peer[c] \in {"open", "closed"} => peer'[c] = peer[c]
                                 /\ \/ peer'[c] = peer[c]
                                    \/ peer[c] = "waiting" /\ peer'[c] = "closed"
BY DEF CloseServer, EchoInv, Functions

LEMMA MainMoves ==
    ASSUME EchoInv, MainStep \/ Signal
    PROVE  /\ MainInv' /\ exitServer' \in BOOLEAN
           /\ serverSock' \in {"Closed", "Listening"}
           /\ main' \in {"open", "loop", "listen", "accept", "spawn", "after", "join", "done"}
           /\ accepted' \in Clients \union {None}
           /\ ended' \in {"no", "aborted", "killed"}
           /\ thread' \in [Clients -> {"none", "loop", "read", "write", "exit", "done"}]
           /\ peer' \in [Clients -> {"absent", "waiting", "open", "closed"}]
           /\ \A c \in Clients : Hosted(c)
<1> USE DEF EchoInv, Scalars, Functions, MainInv, Hosted
<1>1. CASE Open
    BY <1>1 DEF Open
<1>2. CASE Loop
    BY <1>2 DEF Loop
<1>3. CASE Listen
    BY <1>3 DEF Listen
<1>4. CASE \E c \in Clients : Accept(c)
  <2>1. PICK c \in Clients : Accept(c)
      BY <1>4
  <2>2. /\ main = "accept" /\ serverSock = "Listening" /\ peer[c] = "waiting"
        /\ peer' = [peer EXCEPT ![c] = "open"] /\ accepted' = c /\ main' = "spawn"
        /\ UNCHANGED <<exitServer, serverSock, thread, ended>>
      BY <2>1 DEF Accept
  <2>3. thread[c] = "none"
      BY <2>2, InvAtClient DEF Served
  <2>4. peer'[c] = "open" /\ \A d \in Clients : d # c => peer'[d] = peer[d]
      BY <2>2
  <2>5. QED
      BY <2>2, <2>3, <2>4
<1>5. CASE AcceptFails
    BY <1>5 DEF AcceptFails
<1>6. CASE Spawn
    BY <1>6 DEF Spawn
<1>7. CASE After
  <2>1. CASE serverSock = "Listening"
      BY <1>7, <2>1, ServerClosed DEF After
  <2>2. CASE serverSock # "Listening"
      BY <1>7, <2>2 DEF After
  <2>3. QED
      BY <2>1, <2>2
<1>8. CASE Join
    BY <1>8 DEF Join, Joinable
<1>9. CASE Signal
  <2>1. CASE serverSock = "Listening"
      BY <1>9, <2>1, ServerClosed DEF Signal
  <2>2. CASE serverSock # "Listening"
      BY <1>9, <2>2 DEF Signal
  <2>3. QED
      BY <2>1, <2>2
<1>10. QED
    BY <1>1, <1>2, <1>3, <1>4, <1>5, <1>6, <1>7, <1>8, <1>9 DEF MainStep

LEMMA MainKeeps ==
    ASSUME EchoInv, MainStep \/ Signal, UNCHANGED <<binary, clientVars, sent, queue>>
    PROVE  EchoInv'
<1>1. \A c \in Clients : ClientInv(c)'
    BY MainMoves, HostedKeeps
<1>2. Scalars' /\ Functions' /\ Buffers' /\ MainInv'
    BY MainMoves DEF EchoInv, Scalars, Functions, Buffers, clientVars
<1>3. QED
    BY <1>1, <1>2 DEF EchoInv
------------------------------------------------------------------------------
(* The clients. *)

LEMMA PeerKeeps ==
    ASSUME EchoInv, NEW c \in Clients, PeerStep(c),
           UNCHANGED <<binary, mainVars, thread, clientVars, ended>>
    PROVE  EchoInv'
<1>1. UNCHANGED <<exitServer, serverSock, main, accepted, thread, good, buf, pending, back, refused, ended>>
    BY DEF mainVars, clientVars
<1>2. Scalars'
    BY <1>1 DEF EchoInv, Scalars
<1>3. CASE Connect(c)
  <2>1. /\ peer[c] = "absent" /\ serverSock = "Listening"
        /\ peer' = [peer EXCEPT ![c] = "waiting"] /\ UNCHANGED <<sent, queue>>
      BY <1>3 DEF Connect
  <2>2. peer'[c] = "waiting" /\ \A d \in Clients : d # c => peer'[d] = peer[d]
      BY <2>1 DEF EchoInv, Functions
  <2>3. thread[c] = "none"
      BY <2>1, InvAtClient DEF Served
  <2>4. Functions' /\ Buffers'
      BY <1>1, <2>1 DEF EchoInv, Functions, Buffers
  <2>5. ASSUME NEW d \in Clients PROVE ClientInv(d)'
    <3>1. Bounded(d) /\ Ordered(d) /\ Whole(d) /\ Emptied(d) /\ Served(d)
        BY InvAtClient
    <3>2. Bounded(d)' /\ Ordered(d)' /\ Whole(d)'
        BY <1>1, <2>1, <2>2, <3>1 DEF Bounded, Ordered, Whole, Chain, Sent
    <3>3. Emptied(d)' /\ Served(d)'
        BY <1>1, <2>2, <2>3, <3>1 DEF Emptied, Served
    <3>4. QED
        BY <3>2, <3>3 DEF ClientInv
  <2>6. MainInv'
      BY <1>1, <2>1, <2>2, <2>3 DEF EchoInv, MainInv
  <2>7. QED
      BY <1>2, <2>4, <2>5, <2>6 DEF EchoInv
<1>4. CASE PeerSends(c)
  <2>1. /\ peer[c] = "open" /\ sent[c] < MaxIn /\ peer' = peer
        /\ sent' = [sent EXCEPT ![c] = @ + 1]
        /\ queue' = [queue EXCEPT ![c] = Append(@, sent[c] + 1)]
      BY <1>4 DEF PeerSends
  <2>2. /\ back[c] \in Seq(Char) /\ pending[c] \in Seq(Char)
        /\ buf[c] \in Seq(Char) /\ queue[c] \in Seq(Char)
        /\ Len(back[c]) \in Nat /\ Len(pending[c]) \in Nat
        /\ Len(buf[c]) \in Nat /\ Len(queue[c]) \in Nat
        /\ sent[c] \in Nat
        /\ Bounded(c) /\ Ordered(c) /\ Whole(c) /\ Emptied(c) /\ Served(c)
      BY InvAtClient
  <2>3. sent[c] + 1 \in Char /\ sent' \in [Clients -> 0 .. MaxIn] /\ sent'[c] = sent[c] + 1
      BY <2>1, <2>2, InputAssumption DEF EchoInv, Functions, Char
  <2>4. /\ Append(queue[c], sent[c] + 1) \in Seq(Char)
        /\ Len(Append(queue[c], sent[c] + 1)) = Len(queue[c]) + 1
      BY <2>2, <2>3, AppendProperties
  <2>5. Functions' /\ Buffers' /\ queue'[c] = Append(queue[c], sent[c] + 1)
      BY <1>1, <2>1, <2>3, <2>4 DEF EchoInv, Functions, Buffers
  <2>6. Bounded(c)'
    <3>1. Len(back[c]) + Len(pending[c]) + Len(buf[c]) + (Len(queue[c]) + 1) <= sent[c] + 1
        BY <2>2, SumGrows DEF Bounded
    <3>2. QED
        BY <1>1, <2>3, <2>4, <2>5, <3>1 DEF Bounded
  <2>7. good[c] /\ Chain(c) = Sent(c)
      BY <2>1, <2>2 DEF Whole
  <2>8. Chain(c)' = Sent(c)'
    <3>1. Sent(c)' = Append(Sent(c), sent[c] + 1)
        BY <2>2, <2>3, CountAppend DEF Sent, CountTo
    <3>2. (back[c] \o pending[c]) \o buf[c] \in Seq(Char)
        BY <2>2, Lengths
    <3>3. ((back[c] \o pending[c]) \o buf[c]) \o Append(queue[c], sent[c] + 1)
          = Append(((back[c] \o pending[c]) \o buf[c]) \o queue[c], sent[c] + 1)
      <4> DEFINE p == (back[c] \o pending[c]) \o buf[c]
                 e == sent[c] + 1
      <4>1. p \in Seq(Char) /\ e \in Char
          BY <2>3, <3>2
      <4> HIDE DEF p, e
      <4>2. p \o Append(queue[c], e) = Append(p \o queue[c], e)
          BY <2>2, <4>1, ConcatAppend, SMTT(60)
      <4>3. QED
          BY <4>2 DEF p, e
    <3>4. QED
        BY <1>1, <2>5, <2>7, <3>1, <3>3 DEF Chain
  <2>9. Whole(c)'
      BY <1>1, <2>7, <2>8 DEF Whole
  <2>10. Ordered(c)'
    <3>1. /\ back'[c] \in Seq(Char) /\ pending'[c] \in Seq(Char)
          /\ buf'[c] \in Seq(Char) /\ queue'[c] \in Seq(Char)
        BY <2>5 DEF Buffers
    <3>2. IsPrefix(back'[c], ((back'[c] \o pending'[c]) \o buf'[c]) \o queue'[c])
        BY <3>1, ChainPrefix
    <3>3. QED
        BY <2>8, <3>2 DEF Ordered, Chain
  <2>11. Emptied(c)' /\ Served(c)'
      BY <1>1, <2>1, <2>2 DEF Emptied, Served
  <2>12. ASSUME NEW d \in Clients PROVE ClientInv(d)'
    <3>1. CASE d = c
        BY <2>6, <2>9, <2>10, <2>11, <3>1 DEF ClientInv
    <3>2. CASE d # c
      <4>1. sent'[d] = sent[d] /\ queue'[d] = queue[d]
          BY <2>1, <3>2 DEF EchoInv, Functions, Buffers
      <4>2. Bounded(d) /\ Ordered(d) /\ Whole(d) /\ Emptied(d) /\ Served(d)
          BY InvAtClient
      <4>3. Bounded(d)' /\ Ordered(d)' /\ Whole(d)'
          BY <1>1, <2>1, <4>1, <4>2 DEF Bounded, Ordered, Whole, Chain, Sent
      <4>4. Emptied(d)' /\ Served(d)'
          BY <1>1, <2>1, <4>2 DEF Emptied, Served
      <4>5. QED
          BY <4>3, <4>4 DEF ClientInv
    <3>3. QED
        BY <3>1, <3>2
  <2>13. MainInv'
      BY <1>1, <2>1 DEF EchoInv, MainInv
  <2>14. QED
      BY <1>2, <2>5, <2>12, <2>13 DEF EchoInv
<1>5. CASE PeerCloses(c)
  <2>1. /\ peer[c] = "open" /\ peer' = [peer EXCEPT ![c] = "closed"] /\ UNCHANGED <<sent, queue>>
      BY <1>5 DEF PeerCloses
  <2>2. peer'[c] = "closed" /\ \A d \in Clients : d # c => peer'[d] = peer[d]
      BY <2>1 DEF EchoInv, Functions
  <2>3. Functions' /\ Buffers'
      BY <1>1, <2>1 DEF EchoInv, Functions, Buffers
  <2>4. ASSUME NEW d \in Clients PROVE ClientInv(d)'
    <3>1. Bounded(d) /\ Ordered(d) /\ Whole(d) /\ Emptied(d) /\ Served(d)
        BY InvAtClient
    <3>2. Bounded(d)' /\ Ordered(d)' /\ Whole(d)'
        BY <1>1, <2>1, <2>2, <3>1 DEF Bounded, Ordered, Whole, Chain, Sent
    <3>3. Emptied(d)' /\ Served(d)'
        BY <1>1, <2>2, <3>1 DEF Emptied, Served
    <3>4. QED
        BY <3>2, <3>3 DEF ClientInv
  <2>5. MainInv'
      BY <1>1, <2>1, <2>2 DEF EchoInv, MainInv
  <2>6. QED
      BY <1>2, <2>3, <2>4, <2>5 DEF EchoInv
<1>6. QED
    BY <1>3, <1>4, <1>5 DEF PeerStep
------------------------------------------------------------------------------
LEMMA EchoStep == EchoInv /\ [Next]_vars => EchoInv'
<1> SUFFICES ASSUME EchoInv, [Next]_vars PROVE EchoInv'
    OBVIOUS
<1>1. CASE UNCHANGED binary /\ (MainStep \/ Signal) /\ UNCHANGED <<clientVars, sent, queue>>
    BY <1>1, MainKeeps
<1>2. CASE UNCHANGED binary /\ \E c \in Clients : ThreadStep(c) /\ UNCHANGED <<mainVars, peer, sent>>
    BY <1>2, ThreadKeeps
<1>3. CASE UNCHANGED binary
           /\ \E c \in Clients : PeerStep(c) /\ UNCHANGED <<mainVars, thread, clientVars, ended>>
    BY <1>3, PeerKeeps
<1>4. CASE UNCHANGED vars
  <2>1. UNCHANGED <<binary, exitServer, serverSock, main, accepted, thread, good, buf, pending, back,
                    refused, peer, sent, queue, ended>>
      BY <1>4 DEF vars, mainVars, clientVars, peerVars
  <2>2. ASSUME NEW c \in Clients PROVE ClientInv(c)'
      BY <2>1, InvAtClient DEF ClientInv, Bounded, Ordered, Whole, Chain, Sent, Emptied, Served
  <2>3. Scalars' /\ Functions' /\ Buffers' /\ MainInv'
      BY <2>1 DEF EchoInv, Scalars, Functions, Buffers, MainInv
  <2>4. QED
      BY <2>2, <2>3 DEF EchoInv
<1>5. QED
    BY <1>1, <1>2, <1>3, <1>4 DEF Next

LEMMA EchoInvariant == Spec => []EchoInv
<1>1. QED
    BY EchoInit, EchoStep, PTL DEF Spec

(* Every variable keeps its type, and no buffer of a connection ever holds more
   than its client has sent. *)
THEOREM EchoTypeCorrect == Spec => []TypeOK
<1>1. QED
    BY EchoInvariant, EchoInvTyped, PTL

(* However threads, signal and clients interleave, what a client is sent back
   is what it sent, in order and once; and in block mode, as long as the client
   is connected and its thread runs, the rest is in the thread's buffer or
   unread. *)
THEOREM EchoOrdered == Spec => []EchoesInOrder
<1>1. EchoInv => EchoesInOrder
  <2> SUFFICES ASSUME EchoInv, NEW c \in Clients
               PROVE  /\ IsPrefix(back[c], Sent(c))
                      /\ binary /\ peer[c] = "open" /\ thread[c] \in {"loop", "read", "write"} =>
                          /\ back[c] \o buf[c] \o queue[c] = Sent(c)
                          /\ thread[c] = "read" => buf[c] = <<>>
      BY DEF EchoesInOrder
  <2>1. back[c] \in Seq(Char) /\ Ordered(c) /\ Whole(c) /\ Emptied(c)
      BY InvAtClient
  <2>2. ASSUME binary, peer[c] = "open" PROVE back[c] \o buf[c] \o queue[c] = Sent(c)
    <3>1. pending[c] = <<>> /\ back[c] \o <<>> = back[c]
        BY <2>1, <2>2, NoneBeside DEF Emptied
    <3>2. ((back[c] \o pending[c]) \o buf[c]) \o queue[c] = Sent(c)
        BY <2>1, <2>2 DEF Whole, Chain
    <3>3. QED
        BY <3>1, <3>2
  <2>3. QED
      BY <2>1, <2>2 DEF Ordered, Emptied
<1>2. QED
    BY <1>1, EchoInvariant, PTL

(* When main returns, every thread it started has ended, the listening socket
   is closed and nobody still waits to be accepted. *)
THEOREM EchoEndsEmpty == Spec => []NothingLeft
<1>1. EchoInv => NothingLeft
    BY DEF EchoInv, MainInv, NothingLeft
<1>2. QED
    BY <1>1, EchoInvariant, PTL

==============================================================================
