--------------------------- MODULE IpcFramingProofs ---------------------------
(***************************************************************************)
(* Theorems about IpcFraming: for any sizes of headers, packets and rooms,  *)
(* any limits and any number of calls.  The types, and that what is taken   *)
(* fits the caller's struct, hold however the bytes arrive; the rest is     *)
(* about networks that hand on whole packets.                               *)
(***************************************************************************)
EXTENDS IpcFraming, SequenceLemmas

USE DEF settings, params

AnyByte == Packets \X Nat

(* Every byte of a stream is part of a whole packet that the stream holds. *)
Run(q, k) ==
    /\ q[k][2] \in 1 .. q[k][1].size
    /\ \A j \in 1 .. q[k][1].size :
          k - q[k][2] + j \in DOMAIN q /\ q[k - q[k][2] + j] = <<q[k][1], j>>
Framed(q) == \A k \in DOMAIN q : Run(q, k)

LEMMA SizeFacts ==
    /\ Header \in Nat \ {0} /\ Room \in Nat /\ Header <= Room
    /\ \A p \in Packets : p.size \in Nat /\ p.size >= Header
BY HeaderAssumption, SizeAssumption DEF Packets

LEMMA ByteFacts ==
    ASSUME NEW q \in Seq(AnyByte), NEW k \in DOMAIN q
    PROVE  /\ k \in 1 .. Len(q) /\ q[k] \in AnyByte
           /\ q[k][1] \in Packets /\ q[k][2] \in Nat /\ q[k][1].size \in Nat
<1>1. k \in 1 .. Len(q) /\ q[k] \in AnyByte
  BY ElementOfSeq
<1>2. q[k][1] \in Packets /\ q[k][2] \in Nat
  BY <1>1 DEF AnyByte
<1>. QED BY <1>1, <1>2, SizeFacts

LEMMA BytesFramed ==
    ASSUME NEW p \in Packets
    PROVE  /\ Bytes(p) \in Seq(AnyByte) /\ Len(Bytes(p)) = p.size
           /\ \A i \in 1 .. p.size : Bytes(p)[i] = <<p, i>>
           /\ Framed(Bytes(p))
<1>1. p.size \in Nat
  BY SizeFacts
<1>. DEFINE b == Bytes(p)
<1>2. b = [i \in 1 .. p.size |-> <<p, i>>]
  BY DEF Bytes
<1>3. \A i \in 1 .. p.size : <<p, i>> \in AnyByte
  BY <1>1 DEF AnyByte
<1>4. b \in Seq(AnyByte) /\ Len(b) = p.size /\ DOMAIN b = 1 .. p.size
  BY <1>1, <1>2, <1>3
<1>5. \A i \in 1 .. p.size : b[i] = <<p, i>>
  BY <1>2
<1>. HIDE DEF b
<1>6. ASSUME NEW k \in DOMAIN b
      PROVE  Run(b, k)
  <2>1. b[k] = <<p, k>> /\ k \in 1 .. p.size
    BY <1>4, <1>5
  <2>2. b[k][1] = p /\ b[k][2] = k
    BY <2>1
  <2>3. \A j \in 1 .. p.size : k - k + j = j
    BY <1>1, <2>1
  <2>. QED BY <1>4, <1>5, <2>1, <2>2, <2>3 DEF Run
<1>. QED BY <1>4, <1>5, <1>6 DEF b, Framed

LEMMA Associative ==
    \A a, b, c \in Seq(AnyByte) : (a \o b) \o c = a \o (b \o c)
BY ConcatAssociative

LEMMA FramedEmpty == Framed(<<>>)
BY DEF Framed

LEMMA FramedConcat ==
    ASSUME NEW s \in Seq(AnyByte), NEW t \in Seq(AnyByte), Framed(s), Framed(t)
    PROVE  Framed(s \o t)
<1>. DEFINE q == s \o t
<1>1. /\ Len(s) \in Nat /\ Len(t) \in Nat /\ q \in Seq(AnyByte)
      /\ DOMAIN s = 1 .. Len(s) /\ DOMAIN t = 1 .. Len(t)
      /\ DOMAIN q = 1 .. Len(s) + Len(t)
      /\ \A i \in 1 .. Len(s) : q[i] = s[i]
      /\ \A i \in 1 .. Len(t) : q[Len(s) + i] = t[i]
  <2>1. Len(s) \in Nat /\ Len(t) \in Nat /\ q \in Seq(AnyByte) /\ Len(q) = Len(s) + Len(t)
    BY LenProperties, ConcatProperties
  <2>2. \A i \in 1 .. Len(q) : q[i] = IF i <= Len(s) THEN s[i] ELSE t[i - Len(s)]
    BY ConcatProperties
  <2>3. ASSUME NEW i \in 1 .. Len(t)
        PROVE  q[Len(s) + i] = t[i]
    <3>1. Len(s) + i \in 1 .. Len(q) /\ ~(Len(s) + i <= Len(s)) /\ (Len(s) + i) - Len(s) = i
      BY <2>1
    <3>. HIDE DEF q
    <3>. QED BY <2>2, <3>1
  <2>4. \A i \in 1 .. Len(s) : q[i] = s[i]
    BY <2>1, <2>2
  <2>. HIDE DEF q
  <2>. QED BY <2>1, <2>3, <2>4, LenProperties
<1>. HIDE DEF q
<1>2. ASSUME NEW k \in 1 .. Len(s)
      PROVE  Run(q, k)
  <2>1. q[k] = s[k] /\ Run(s, k)
    BY <1>1 DEF Framed
  <2>2. ASSUME NEW j \in 1 .. s[k][1].size
        PROVE  k - s[k][2] + j \in DOMAIN q /\ q[k - s[k][2] + j] = <<s[k][1], j>>
    <3>1. k - s[k][2] + j \in 1 .. Len(s) /\ s[k - s[k][2] + j] = <<s[k][1], j>>
      BY <1>1, <2>1 DEF Run
    <3>. QED BY <1>1, <3>1
  <2>. QED BY <2>1, <2>2 DEF Run
<1>3. ASSUME NEW k \in 1 .. Len(t)
      PROVE  Run(q, Len(s) + k)
  <2>1. q[Len(s) + k] = t[k] /\ Run(t, k) /\ k \in DOMAIN t
    BY <1>1 DEF Framed
  <2>2. ASSUME NEW j \in 1 .. t[k][1].size
        PROVE  /\ (Len(s) + k) - t[k][2] + j \in DOMAIN q
               /\ q[(Len(s) + k) - t[k][2] + j] = <<t[k][1], j>>
    <3>1. k - t[k][2] + j \in 1 .. Len(t) /\ t[k - t[k][2] + j] = <<t[k][1], j>>
      BY <1>1, <2>1 DEF Run
    <3>2. t[k][2] \in Nat /\ t[k][1].size \in Nat
      BY <2>1, ByteFacts
    <3>3. (Len(s) + k) - t[k][2] + j = Len(s) + (k - t[k][2] + j)
      BY <1>1, <3>2
    <3>. QED BY <1>1, <3>1, <3>3
  <2>. QED BY <2>1, <2>2 DEF Run
<1>4. ASSUME NEW k \in DOMAIN q
      PROVE  Run(q, k)
  <2>1. CASE k \in 1 .. Len(s)
    BY <1>2, <2>1
  <2>2. CASE k \notin 1 .. Len(s)
    <3>1. k - Len(s) \in 1 .. Len(t) /\ Len(s) + (k - Len(s)) = k
      BY <1>1, <2>2
    <3>2. Run(q, Len(s) + (k - Len(s)))
      BY <1>3, <3>1
    <3>. QED BY <3>1, <3>2
  <2>. QED BY <2>1, <2>2
<1>. QED BY <1>4 DEF Framed, q

(* A stream begins with a whole packet, and is framed without it too. *)
LEMMA FramedFirst ==
    ASSUME NEW q \in Seq(AnyByte), Framed(q), q # <<>>
    PROVE  /\ q[1][1] \in Packets /\ q[1][1].size \in 1 .. Len(q)
           /\ \A j \in 1 .. q[1][1].size : q[j] = <<q[1][1], j>>
           /\ SubSeq(q, 1, q[1][1].size) = Bytes(q[1][1])
<1>. DEFINE p == q[1][1]
<1>1. Len(q) \in Nat \ {0} /\ DOMAIN q = 1 .. Len(q) /\ 1 \in DOMAIN q
  BY EmptySeq, LenProperties
<1>2. p \in Packets /\ p.size \in Nat /\ q[1][2] \in Nat
  BY <1>1, ByteFacts
<1>3. Run(q, 1)
  BY <1>1 DEF Framed
<1>4. q[1][2] = 1 /\ p.size >= 1
  <2>1. q[1][2] \in 1 .. p.size
    BY <1>3 DEF Run
  <2>2. 1 - q[1][2] + 1 \in DOMAIN q
    BY <1>2, <1>3, <2>1 DEF Run
  <2>. QED BY <1>1, <1>2, <2>1, <2>2
<1>5. \A j \in 1 .. p.size : 1 - 1 + j = j
  BY <1>2
<1>6. \A j \in 1 .. p.size : j \in 1 .. Len(q) /\ q[j] = <<p, j>>
  BY <1>1, <1>3, <1>4, <1>5 DEF Run
<1>7. p.size \in 1 .. Len(q)
  <2>1. p.size \in 1 .. p.size
    BY <1>2, <1>4
  <2>. QED BY <1>6, <2>1
<1>8. SubSeq(q, 1, p.size) = Bytes(p)
  <2>. DEFINE b == Bytes(p)
              f == SubSeq(q, 1, p.size)
  <2>1. b \in Seq(AnyByte) /\ Len(b) = p.size /\ \A j \in 1 .. p.size : b[j] = <<p, j>>
    BY <1>2, BytesFramed
  <2>2. f \in Seq(AnyByte) /\ Len(f) = p.size
    BY <1>1, <1>2, <1>7, PrefixInSeq
  <2>3. \A j \in 1 .. p.size : f[j] = q[j]
    <3>1. \A j \in 1 .. p.size : q[j] \in AnyByte
      BY <1>1, <1>6, ElementOfSeq
    <3>. QED BY <1>2, <3>1, SubSeqProperties
  <2>4. \A j \in 1 .. p.size : f[j] = b[j]
    BY <1>6, <2>1, <2>3
  <2>. HIDE DEF b, f, p
  <2>5. f = b
    BY <2>1, <2>2, <2>4, SeqEqual
  <2>. QED BY <2>5 DEF b, f
<1>. QED BY <1>2, <1>6, <1>7, <1>8

LEMMA DropFacts ==
    ASSUME NEW q \in Seq(AnyByte), NEW n \in 0 .. Len(q)
    PROVE  /\ Drop(q, n) \in Seq(AnyByte) /\ Len(Drop(q, n)) = Len(q) - n
           /\ \A k \in 1 .. Len(q) - n : Drop(q, n)[k] = q[n + k]
           /\ SubSeq(q, 1, n) \in Seq(AnyByte) /\ Len(SubSeq(q, 1, n)) = n
           /\ SubSeq(q, 1, n) \o Drop(q, n) = q
<1>1. Len(q) \in Nat /\ n \in Nat
  BY LenProperties
<1>2. Drop(q, n) \in Seq(AnyByte) /\ Len(Drop(q, n)) = Len(q) - n
  BY <1>1, SuffixInSeq DEF Drop
<1>3. \A k \in 1 .. Len(q) - n : Drop(q, n)[k] = q[n + k]
  <2>1. \A i \in n + 1 .. Len(q) : q[i] \in AnyByte
    BY <1>1, ElementOfSeq
  <2>2. \A k \in 1 .. Len(q) - n : SubSeq(q, n + 1, Len(q))[k] = q[(n + 1) + k - 1]
    BY <1>1, <2>1, SubSeqProperties
  <2>3. \A k \in 1 .. Len(q) - n : (n + 1) + k - 1 = n + k
    BY <1>1
  <2>. QED BY <2>2, <2>3 DEF Drop
<1>4. SubSeq(q, 1, n) \in Seq(AnyByte) /\ Len(SubSeq(q, 1, n)) = n
  BY <1>1, PrefixInSeq
<1>5. SubSeq(q, 1, n) \o Drop(q, n) = q
  BY CutInTwo DEF Drop
<1>. QED BY <1>2, <1>3, <1>4, <1>5

LEMMA FramedRest ==
    ASSUME NEW q \in Seq(AnyByte), Framed(q), q # <<>>
    PROVE  Framed(Drop(q, q[1][1].size))
<1>. DEFINE p == q[1][1]
            n == p.size
            r == Drop(q, n)
<1>1. /\ p \in Packets /\ n \in 1 .. Len(q) /\ Len(q) \in Nat
      /\ \A j \in 1 .. n : q[j] = <<p, j>>
  BY FramedFirst, LenProperties
<1>2. /\ r \in Seq(AnyByte) /\ DOMAIN r = 1 .. Len(q) - n /\ DOMAIN q = 1 .. Len(q)
      /\ \A k \in 1 .. Len(q) - n : r[k] = q[n + k]
  <2>. HIDE DEF p
  <2>1. n \in 0 .. Len(q)
    BY <1>1
  <2>2. /\ r \in Seq(AnyByte) /\ Len(r) = Len(q) - n
        /\ \A k \in 1 .. Len(q) - n : r[k] = q[n + k]
    BY <2>1, DropFacts
  <2>. HIDE DEF r
  <2>. QED BY <2>2, LenProperties
<1>. HIDE DEF r, n, p
<1>3. ASSUME NEW k \in DOMAIN r
      PROVE  Run(r, k)
  <2>. DEFINE o == q[n + k][1]
              i == q[n + k][2]
  <2>1. k \in 1 .. Len(q) - n /\ n + k \in DOMAIN q /\ r[k] = q[n + k]
    BY <1>1, <1>2
  <2>2. o \in Packets /\ o.size \in Nat /\ i \in Nat
    BY <2>1, ByteFacts
  <2>3. /\ i \in 1 .. o.size
        /\ \A j \in 1 .. o.size : (n + k) - i + j \in DOMAIN q /\ q[(n + k) - i + j] = <<o, j>>
    BY <2>1 DEF Framed, Run
  <2>. HIDE DEF o, i
  <2>4. k - i + 1 > 0
    <3>. SUFFICES ASSUME k - i + 1 <= 0 PROVE FALSE
      BY <1>1, <2>1, <2>2
    <3>1. (n + k) - i + 1 \in 1 .. n /\ 1 \in 1 .. o.size
      BY <1>1, <1>2, <2>1, <2>2, <2>3, SMTT(60)
    <3>2. q[(n + k) - i + 1] = <<o, 1>> /\ q[(n + k) - i + 1] = <<p, (n + k) - i + 1>>
      BY <1>1, <2>3, <3>1
    <3>3. o = p /\ (n + k) - i + 1 = 1
      BY <3>2
    <3>. QED BY <1>1, <2>1, <2>2, <2>3, <3>3, SMTT(60) DEF n
  <2>5. ASSUME NEW j \in 1 .. o.size
        PROVE  k - i + j \in DOMAIN r /\ r[k - i + j] = <<o, j>>
    <3>1. (n + k) - i + j \in DOMAIN q /\ q[(n + k) - i + j] = <<o, j>>
      BY <2>3
    <3>2. (n + k) - i + j = n + (k - i + j)
      BY <1>1, <2>1, <2>2
    <3>3. k - i + j \in 1 .. Len(q) - n
      <4>1. /\ n \in Nat /\ k \in Nat /\ i \in Nat /\ j \in Nat /\ Len(q) \in Nat
            /\ j >= 1 /\ k - i + 1 > 0
        BY <1>1, <2>1, <2>2, <2>4
      <4>2. (n + k) - i + j <= Len(q)
        BY <1>2, <3>1
      <4>. QED BY <4>1, <4>2
    <3>. QED BY <1>2, <3>1, <3>2, <3>3
  <2>6. r[k][1] = o /\ r[k][2] = i
    BY <2>1 DEF o, i
  <2>. QED BY <2>3, <2>5, <2>6 DEF Run
<1>. QED BY <1>3 DEF Framed, r, n, p

------------------------------------------------------------------------------
(* The types, and the invariant that they need. *)

ReaderType == [pc : {"idle", "header", "body", "undefined", "overrun", "aborted"}, uLength : Nat, head : Seq(AnyByte)]

(* Only a read of a body holds a header. *)
ReaderOk(r) ==
    /\ r \in ReaderType
    /\ r.pc \notin {"body", "overrun"} => r.head = <<>>
    /\ r.pc \in {"body", "overrun"} => Len(r.head) = Header

Settings ==
    /\ network \in Networks
    /\ polling \in BOOLEAN /\ again \in BOOLEAN
    /\ own \in {"none", "registered"}
    /\ callback \in [Sides -> {"none", "registered"}]
    /\ finished \in BOOLEAN

Counters ==
    /\ sequence \in 0 .. Cookies - 1
    /\ replyCookie \in 0 .. Cookies - 1
    /\ called \in Seq(Packets) /\ Len(called) <= MaxCalls

Readers == reader \in [Sides -> ReaderType] /\ \A s \in Sides : ReaderOk(reader[s])

Outgoing ==
    /\ writers \subseteq [to : Sides, packet : Packets]
    /\ wire \in [Sides -> Seq(AnyByte)]
    /\ sent \in [Sides -> Seq(Packets)]
    /\ network = "whole" => \A s \in Sides : Framed(wire[s])

Takings ==
    /\ taken \in [Sides -> Seq(Seq(AnyByte))]
    /\ \A s \in Sides : \A i \in DOMAIN taken[s] : Len(taken[s][i]) \in Header .. Room
    /\ answered \in 0 .. Len(taken["server"])

Incoming == queue \in [Sides -> Seq(AnyByte)]

Params ==
    /\ uMaxLength \in [Sides -> Limits \union {0}]
    /\ wPacketSize \in [Sides -> Nat]

TypeInv == Settings /\ Counters /\ Readers /\ Outgoing /\ Incoming /\ Takings /\ Params

LEMMA IdleOk == ReaderOk(Idle)
BY DEF ReaderOk, ReaderType, Idle

LEMMA InitTypes == Init => TypeInv
<1>. SUFFICES ASSUME Init PROVE TypeInv
  OBVIOUS
<1>1. Cookies \in Nat \ {0} /\ MaxCalls \in Nat
  BY CallAssumption
<1>2. Settings /\ Counters /\ Incoming
  <2>1. 0 \in 0 .. Cookies - 1 /\ <<>> \in Seq(Packets) /\ Len(<<>>) = 0 /\ 0 <= MaxCalls
    BY <1>1
  <2>2. Counters
    BY <2>1 DEF Init, Counters
  <2>3. callback \in [Sides -> {"none", "registered"}]
    BY DEF Init
  <2>4. Settings
    BY <2>3 DEF Init, Settings
  <2>5. Incoming
    BY DEF Init, Incoming
  <2>. QED BY <2>2, <2>4, <2>5
<1>3. Readers
  BY IdleOk DEF Init, Readers, ReaderOk
<1>4. Outgoing
  BY FramedEmpty DEF Init, Outgoing
<1>5. Takings
  BY DEF Init, Takings, Sides
<1>6. Params
  BY SizeFacts DEF Init, Params
<1>. QED BY <1>2, <1>3, <1>4, <1>5, <1>6 DEF TypeInv

LEMMA SendTypes ==
    ASSUME Outgoing, NEW to \in Sides, NEW p \in Packets, Send(to, p), UNCHANGED network,
           writers' \subseteq [to : Sides, packet : Packets]
    PROVE  Outgoing'
<1>. DEFINE b == Bytes(p)
<1>1. b \in Seq(AnyByte) /\ Framed(b)
  BY BytesFramed
<1>2. /\ wire' = [wire EXCEPT ![to] = @ \o b]
      /\ sent' = [sent EXCEPT ![to] = Append(@, p)]
  BY DEF Send
<1>. HIDE DEF b
<1>3. wire[to] \in Seq(AnyByte) /\ sent[to] \in Seq(Packets)
  BY DEF Outgoing
<1>4. wire[to] \o b \in Seq(AnyByte) /\ Append(sent[to], p) \in Seq(Packets)
  BY <1>1, <1>3, ConcatInSeq, AppendProperties
<1>5. network = "whole" => Framed(wire[to] \o b)
  BY <1>1, <1>3, FramedConcat DEF Outgoing
<1>6. wire' \in [Sides -> Seq(AnyByte)] /\ sent' \in [Sides -> Seq(Packets)]
  BY <1>2, <1>4 DEF Outgoing
<1>7. network' = "whole" => \A s \in Sides : Framed(wire'[s])
  BY <1>2, <1>5 DEF Outgoing
<1>. QED BY <1>6, <1>7 DEF Outgoing

LEMMA WriteTypes ==
    ASSUME Outgoing, NEW from \in Sides, NEW cb, NEW p \in Packets, Write(from, cb, p),
           UNCHANGED network
    PROVE  Outgoing'
<1>1. Peer(from) \in Sides
  BY DEF Peer, Sides
<1>2. CASE polling /\ cb # "none"
  <2>1. writers' = writers \union {[to |-> Peer(from), packet |-> p]} /\ UNCHANGED <<wire, sent>>
    BY <1>2 DEF Write
  <2>. QED BY <1>1, <2>1 DEF Outgoing
<1>3. CASE ~(polling /\ cb # "none")
  <2>1. Send(Peer(from), p) /\ UNCHANGED writers
    BY <1>3 DEF Write
  <2>. QED BY <1>1, <2>1, SendTypes DEF Outgoing
<1>. QED BY <1>2, <1>3

LEMMA CallTypes ==
    ASSUME TypeInv, NEW size \in Sizes, NEW cb \in {"none", "passed"}, RemoteProcedure(size, cb)
    PROVE  TypeInv'
<1>. DEFINE p == [id |-> Len(called) + 1, size |-> size, cookie |-> NextSequence]
<1>1. Cookies \in Nat \ {0} /\ sequence \in Nat /\ Len(called) \in Nat
  BY CallAssumption, LenProperties DEF TypeInv, Counters
<1>2. NextSequence \in 0 .. Cookies - 1
  BY <1>1 DEF NextSequence
<1>3. Len(called) + 1 \in 1 .. MaxCalls
  BY <1>1, CallAssumption DEF RemoteProcedure
<1>4. p \in Packets
  BY <1>2, <1>3 DEF Packets
<1>5. /\ called' = Append(called, p) /\ sequence' = NextSequence
      /\ Write("client", IF cb # "none" THEN cb ELSE callback["client"], p)
      /\ UNCHANGED <<settings, params, callback, reader, queue, finished, replyCookie,
                     taken, answered>>
  BY DEF RemoteProcedure
<1>. HIDE DEF p
<1>6. Outgoing'
  BY <1>4, <1>5, WriteTypes DEF TypeInv, Sides
<1>7. called' \in Seq(Packets) /\ Len(called') <= MaxCalls
  <2>1. called' \in Seq(Packets) /\ Len(called') = Len(called) + 1
    BY <1>4, <1>5, AppendProperties DEF TypeInv, Counters
  <2>. QED BY <1>3, <2>1
<1>. QED BY <1>2, <1>5, <1>6, <1>7
         DEF TypeInv, Settings, Counters, Readers, Incoming, Takings, Params

(* The first byte of what was taken, from which the answer takes its call. *)
LEMMA TakenTypes ==
    ASSUME TypeInv, NEW s \in Sides, NEW i \in DOMAIN taken[s]
    PROVE  taken[s][i] \in Seq(AnyByte) /\ taken[s][i][1][1] \in Packets
<1>1. taken[s] \in Seq(Seq(AnyByte)) /\ Len(taken[s][i]) \in Header .. Room
  BY DEF TypeInv, Takings
<1>2. taken[s][i] \in Seq(AnyByte)
  BY <1>1, ElementOfSeq
<1>3. 1 \in DOMAIN taken[s][i]
  BY <1>1, <1>2, SizeFacts, LenProperties
<1>. QED BY <1>2, <1>3, ByteFacts

LEMMA ReplyTypes ==
    ASSUME TypeInv, NEW size \in Replies, RemoteWriteReply(size)
    PROVE  TypeInv'
<1>. DEFINE call == taken["server"][answered + 1][1][1]
            cookie == ReplyCookie(call.cookie, replyCookie)
            p == [id |-> call.id, size |-> size, cookie |-> cookie]
<1>1. answered + 1 \in DOMAIN taken["server"] /\ "server" \in Sides
  BY LenProperties DEF RemoteWriteReply, TypeInv, Takings, Sides
<1>2. call \in Packets
  BY <1>1, TakenTypes
<1>3. /\ Write("server", callback["server"], p)
      /\ replyCookie' = IF "sharedReply" \in Habits THEN cookie ELSE 0
      /\ answered' = answered + 1
      /\ UNCHANGED <<settings, params, callback, sequence, reader, queue, finished, called,
                     taken>>
  BY DEF RemoteWriteReply
<1>. HIDE DEF call
<1>4. call.id \in 1 .. MaxCalls /\ call.cookie \in 0 .. Cookies - 1
  BY <1>2 DEF Packets
<1>5. cookie \in 0 .. Cookies - 1 /\ 0 \in 0 .. Cookies - 1
  BY <1>4, CallAssumption DEF ReplyCookie, TypeInv, Counters
<1>. HIDE DEF cookie
<1>6. p \in Packets
  BY <1>4, <1>5 DEF Packets
<1>. HIDE DEF p
<1>7. Outgoing'
  BY <1>1, <1>3, <1>6, WriteTypes DEF TypeInv
<1>8. answered' \in 0 .. Len(taken'["server"])
  BY <1>1, <1>3, LenProperties DEF TypeInv, Takings
<1>. QED BY <1>3, <1>5, <1>7, <1>8
         DEF TypeInv, Settings, Counters, Readers, Incoming, Takings, Params

LEMMA WriterTypes ==
    ASSUME TypeInv, NEW w \in writers, WriterSends(w)
    PROVE  TypeInv'
<1>1. w.to \in Sides /\ w.packet \in Packets
  BY DEF TypeInv, Outgoing
<1>2. /\ Send(w.to, w.packet) /\ writers' = writers \ {w}
      /\ UNCHANGED <<settings, params, callback, sequence, reader, queue, finished,
                     called, replyCookie, taken, answered>>
  BY DEF WriterSends
<1>3. Outgoing'
  BY <1>1, <1>2, SendTypes DEF TypeInv, Outgoing
<1>. QED BY <1>2, <1>3 DEF TypeInv, Settings, Counters, Readers, Incoming, Takings, Params

(* What a side's read may make of its reader, its queue and its callback. *)
LEMMA ReadTypes ==
    ASSUME TypeInv, NEW s \in Sides, NEW r, NEW q,
           ReaderOk(r), q \in Seq(AnyByte), Params',
           reader' = [reader EXCEPT ![s] = r], queue' = [queue EXCEPT ![s] = q],
           callback' \in [Sides -> {"none", "registered"}],
           UNCHANGED <<settings, sequence, writers, wire, finished, called,
                       replyCookie, sent, taken, answered>>
    PROVE  TypeInv'
<1>1. reader' \in [Sides -> ReaderType] /\ \A x \in Sides : ReaderOk(reader'[x])
  BY DEF TypeInv, Readers, ReaderOk
<1>2. queue' \in [Sides -> Seq(AnyByte)]
  BY DEF TypeInv, Incoming
<1>. QED BY <1>1, <1>2 DEF TypeInv, Settings, Counters, Readers, Incoming, Outgoing, Takings, Params

(* What a call finds in its struct, and what it is told not to exceed. *)
LEMMA HeadSizes ==
    ASSUME TypeInv, NEW s \in Sides, Len(queue[s]) >= Header,
           NEW size \in SizesIn(SubSeq(queue[s], 1, Header))
    PROVE  size \in Nat
<1>. DEFINE h == SubSeq(queue[s], 1, Header)
<1>1. Header \in 0 .. Len(queue[s]) /\ Header \in Nat \ {0} /\ queue[s] \in Seq(AnyByte)
  BY SizeFacts, LenProperties DEF TypeInv, Incoming
<1>2. h \in Seq(AnyByte) /\ Len(h) = Header
  BY <1>1, DropFacts
<1>3. 1 \in DOMAIN h
  BY <1>1, <1>2, LenProperties
<1>4. h[1][1].size \in Nat
  BY <1>2, <1>3, ByteFacts
<1>. QED BY <1>4, SizeAssumption DEF SizesIn

LEMMA LeaveTypes ==
    ASSUME TypeInv, NEW s \in Sides, NEW size \in Nat, LeaveSize(s, size)
    PROVE  wPacketSize' \in [Sides -> Nat]
BY DEF LeaveSize, TypeInv, Params

LEMMA ParamTypes ==
    ASSUME TypeInv, NEW s \in Sides, ReaderStep(s) \/ \E n \in Limits : StartRead(s, n)
    PROVE  Params'
<1>1. CASE ShortHeader(s)
  <2>1. PICK size \in Garbage \union {wPacketSize[s]} \union {b[1].size : b \in ToSet(queue[s])} :
               LeaveSize(s, size)
    BY <1>1 DEF ShortHeader
  <2>2. \A b \in ToSet(queue[s]) : b[1].size \in Nat
    <3>1. queue[s] \in Seq(AnyByte)
      BY DEF TypeInv, Incoming
    <3>. QED BY <3>1, ByteFacts DEF ToSet
  <2>3. size \in Nat
    BY <2>1, <2>2, SizeAssumption DEF TypeInv, Params
  <2>4. uMaxLength' = uMaxLength
    BY <1>1 DEF ShortHeader
  <2>. QED BY <2>1, <2>3, <2>4, LeaveTypes DEF TypeInv, Params
<1>2. CASE DiscardPacket(s)
  <2>1. PICK size \in SizesIn(SubSeq(queue[s], 1, Header)) : LeaveSize(s, size)
    BY <1>2 DEF DiscardPacket
  <2>2. size \in Nat /\ uMaxLength' = uMaxLength
    BY <1>2, HeadSizes DEF DiscardPacket
  <2>. QED BY <2>1, <2>2, LeaveTypes DEF TypeInv, Params
<1>3. CASE HeaderRead(s)
  <2>1. PICK size \in SizesIn(SubSeq(queue[s], 1, Header)) : LeaveSize(s, size)
    BY <1>3 DEF HeaderRead
  <2>2. size \in Nat /\ uMaxLength' = uMaxLength
    BY <1>3, HeadSizes DEF HeaderRead
  <2>. QED BY <2>1, <2>2, LeaveTypes DEF TypeInv, Params
<1>4. CASE NoData(s) \/ PacketRead(s)
  <2>1. uMaxLength' = [uMaxLength EXCEPT ![s] = 0] /\ wPacketSize' = wPacketSize
    BY <1>4 DEF NoData, PacketRead, GiveUp, Return
  <2>. QED BY <2>1 DEF TypeInv, Params
<1>5. CASE BodyOverruns(s) \/ ShortBody(s)
  BY <1>5 DEF BodyOverruns, ShortBody, TypeInv, Params
<1>6. CASE \E n \in Limits : StartRead(s, n)
  <2>1. PICK n \in Limits : uMaxLength' = [uMaxLength EXCEPT ![s] = n] /\ wPacketSize' = wPacketSize
    BY <1>6 DEF StartRead
  <2>. QED BY <2>1 DEF TypeInv, Params
<1>. QED BY <1>1, <1>2, <1>3, <1>4, <1>5, <1>6 DEF ReaderStep

(* The reader of a call that has begun. *)
Begun(s, n) == [pc |-> IF Accepted(wPacketSize[s], n) < Header THEN "aborted" ELSE "header",
                uLength |-> Accepted(wPacketSize[s], n), head |-> <<>>]

LEMMA StartTypes ==
    ASSUME TypeInv, NEW s \in Sides, NEW n \in Limits, StartRead(s, n)
    PROVE  TypeInv'
<1>1. Accepted(wPacketSize[s], n) \in Nat
  BY LimitAssumption DEF Accepted, TypeInv, Params
<1>2. Params'
  BY ParamTypes
<1>. DEFINE r == Begun(s, n)
<1>3. ReaderOk(r)
  BY <1>1 DEF ReaderOk, ReaderType, Begun
<1>. HIDE DEF r
<1>4. /\ reader' = [reader EXCEPT ![s] = r] /\ callback' = [callback EXCEPT ![s] = "none"]
      /\ UNCHANGED <<settings, sequence, writers, wire, queue, finished, called,
                     replyCookie, sent, taken, answered>>
  BY DEF StartRead, Begun, r
<1>5. callback' \in [Sides -> {"none", "registered"}]
  BY <1>4 DEF TypeInv, Settings
<1>6. queue[s] \in Seq(AnyByte) /\ queue' = [queue EXCEPT ![s] = queue[s]]
  BY <1>4 DEF TypeInv, Incoming
<1>. QED BY <1>2, <1>3, <1>4, <1>5, <1>6, ReadTypes

(* A step inside a read: its reader becomes r, and its queue q. *)
Reads(s, r, q) ==
    /\ reader' = [reader EXCEPT ![s] = r] /\ queue' = [queue EXCEPT ![s] = q]
    /\ UNCHANGED <<settings, sequence, writers, wire, finished, called,
                   replyCookie, sent, answered>>

LEMMA SideFacts ==
    ASSUME TypeInv, NEW s \in Sides
    PROVE  /\ ReaderOk(reader[s]) /\ reader[s] \in ReaderType /\ reader[s].head \in Seq(AnyByte)
           /\ reader[s].uLength \in Nat
           /\ queue[s] \in Seq(AnyByte) /\ Len(queue[s]) \in Nat
           /\ wire[s] \in Seq(AnyByte) /\ Len(wire[s]) \in Nat
           /\ sent[s] \in Seq(Packets) /\ taken[s] \in Seq(Seq(AnyByte))
<1>1. ReaderOk(reader[s]) /\ reader[s] \in ReaderType
  BY DEF TypeInv, Readers
<1>. QED BY <1>1, LenProperties DEF TypeInv, Incoming, Outgoing, Takings, ReaderType

(* No data, too little, or too much. *)
LEMMA NoDataReads ==
    ASSUME TypeInv, NEW s \in Sides, NoData(s)
    PROVE  /\ reader[s].pc = "header" /\ queue[s] = <<>>
           /\ Reads(s, Idle, queue[s]) /\ UNCHANGED taken
           /\ callback' \in [Sides -> {"none", "registered"}]
<1>1. callback' = [callback EXCEPT ![s] = own] /\ queue' = queue
  BY DEF NoData, GiveUp, Return
<1>2. queue' = [queue EXCEPT ![s] = queue[s]]
  BY <1>1 DEF TypeInv, Incoming
<1>3. callback' \in [Sides -> {"none", "registered"}]
  BY <1>1 DEF TypeInv, Settings
<1>. QED BY <1>1, <1>2, <1>3 DEF NoData, GiveUp, Return, Reads

LEMMA ForgetReads ==
    ASSUME TypeInv, NEW s \in Sides, ShortHeader(s) \/ DiscardPacket(s)
    PROVE  /\ reader[s].pc = "header"
           /\ Reads(s, reader[s], <<>>) /\ UNCHANGED <<taken, callback>>
<1>1. reader' = reader /\ queue' = [queue EXCEPT ![s] = <<>>]
  BY DEF ShortHeader, DiscardPacket, AfterDiscard
<1>2. reader' = [reader EXCEPT ![s] = reader[s]]
  BY <1>1 DEF TypeInv, Readers
<1>. QED BY <1>1, <1>2 DEF ShortHeader, DiscardPacket, Reads

(* The header is taken from the queue. *)
HeaderOf(s) == SubSeq(queue[s], 1, Header)
AfterHeader(s, size) ==
    IF size < Header THEN [pc |-> "undefined", uLength |-> 0, head |-> <<>>]
    ELSE [pc |-> "body", uLength |-> size - Header, head |-> HeaderOf(s)]

LEMMA HeaderFacts ==
    ASSUME TypeInv, NEW s \in Sides, Len(queue[s]) >= Header, NEW size \in SizesIn(HeaderOf(s))
    PROVE  /\ HeaderOf(s) \in Seq(AnyByte) /\ Len(HeaderOf(s)) = Header
           /\ Drop(queue[s], Header) \in Seq(AnyByte)
           /\ HeaderOf(s) \o Drop(queue[s], Header) = queue[s]
           /\ size \in Nat
<1>1. Header \in 0 .. Len(queue[s]) /\ Header \in Nat \ {0} /\ queue[s] \in Seq(AnyByte)
  BY SideFacts, SizeFacts
<1>2. /\ HeaderOf(s) \in Seq(AnyByte) /\ Len(HeaderOf(s)) = Header
      /\ Drop(queue[s], Header) \in Seq(AnyByte)
      /\ HeaderOf(s) \o Drop(queue[s], Header) = queue[s]
  BY <1>1, DropFacts DEF HeaderOf
<1>3. 1 \in DOMAIN HeaderOf(s)
  BY <1>1, <1>2, LenProperties
<1>4. HeaderOf(s)[1][1].size \in Nat
  BY <1>2, <1>3, ByteFacts
<1>5. size \in Nat
  BY <1>4, SizeAssumption DEF SizesIn
<1>. QED BY <1>2, <1>5

LEMMA HeaderReads ==
    ASSUME TypeInv, NEW s \in Sides, HeaderRead(s)
    PROVE  \E size \in SizesIn(HeaderOf(s)) :
              /\ reader[s].pc = "header" /\ Len(queue[s]) >= Header
              /\ size <= reader[s].uLength
              /\ LeaveSize(s, size) /\ uMaxLength' = uMaxLength
              /\ Reads(s, AfterHeader(s, size), Drop(queue[s], Header))
              /\ UNCHANGED <<taken, callback>>
<1>1. PICK size \in SizesIn(HeaderOf(s)) :
          /\ ~TooLarge(size, reader[s].uLength)
          /\ LeaveSize(s, size) /\ uMaxLength' = uMaxLength
          /\ reader' = [reader EXCEPT ![s] = AfterHeader(s, size)]
  BY DEF HeaderRead, HeaderOf, AfterHeader
<1>2. Len(queue[s]) >= Header /\ reader[s].pc = "header"
  BY DEF HeaderRead
<1>3. size \in Nat /\ reader[s].uLength \in Nat
  BY <1>2, HeaderFacts, SideFacts
<1>4. size <= reader[s].uLength
  BY <1>1, <1>3 DEF TooLarge
<1>5. queue' = [queue EXCEPT ![s] = Drop(queue[s], Header)]
  BY DEF HeaderRead
<1>6. Reads(s, AfterHeader(s, size), Drop(queue[s], Header)) /\ UNCHANGED <<taken, callback>>
  BY <1>1, <1>5 DEF HeaderRead, Reads
<1>. QED BY <1>1, <1>2, <1>4, <1>6

LEMMA AfterHeaderOk ==
    ASSUME TypeInv, NEW s \in Sides, Len(queue[s]) >= Header, NEW size \in SizesIn(HeaderOf(s)),
           reader[s].pc = "header", size <= reader[s].uLength
    PROVE  ReaderOk(AfterHeader(s, size))
<1>1. HeaderOf(s) \in Seq(AnyByte) /\ Len(HeaderOf(s)) = Header /\ size \in Nat
  BY HeaderFacts
<1>3. CASE size < Header
  <2>1. AfterHeader(s, size) = [pc |-> "undefined", uLength |-> 0, head |-> <<>>]
    BY <1>3 DEF AfterHeader
  <2>. QED BY <2>1 DEF ReaderOk, ReaderType
<1>4. CASE ~(size < Header)
  <2>1. AfterHeader(s, size) = [pc |-> "body", uLength |-> size - Header, head |-> HeaderOf(s)]
    BY <1>4 DEF AfterHeader
  <2>2. size - Header \in Nat
    BY <1>1, <1>4, SizeFacts
  <2>. QED BY <1>1, <2>1, <2>2 DEF ReaderOk, ReaderType
<1>. QED BY <1>3, <1>4

LEMMA HeaderTypes ==
    ASSUME TypeInv, NEW s \in Sides, HeaderRead(s)
    PROVE  TypeInv'
<1>1. PICK size \in SizesIn(HeaderOf(s)) :
              /\ reader[s].pc = "header" /\ Len(queue[s]) >= Header
              /\ size <= reader[s].uLength
              /\ Reads(s, AfterHeader(s, size), Drop(queue[s], Header))
              /\ UNCHANGED <<taken, callback>>
  BY HeaderReads
<1>2. ReaderOk(AfterHeader(s, size))
  BY <1>1, AfterHeaderOk
<1>3. Drop(queue[s], Header) \in Seq(AnyByte)
  BY <1>1, HeaderFacts
<1>4. callback' \in [Sides -> {"none", "registered"}]
  BY <1>1 DEF TypeInv, Settings
<1>5. Params'
  BY ParamTypes DEF ReaderStep
<1>. QED BY <1>1, <1>2, <1>3, <1>4, <1>5, ReadTypes DEF Reads

LEMMA ForgetTypes ==
    ASSUME TypeInv, NEW s \in Sides, NoData(s) \/ ShortHeader(s) \/ DiscardPacket(s)
    PROVE  TypeInv'
<1>0. Params'
  BY ParamTypes DEF ReaderStep
<1>1. CASE NoData(s)
  <2>1. /\ Reads(s, Idle, queue[s]) /\ UNCHANGED taken
        /\ callback' \in [Sides -> {"none", "registered"}]
    BY <1>1, NoDataReads
  <2>2. queue[s] \in Seq(AnyByte)
    BY SideFacts
  <2>. QED BY <1>0, <2>1, <2>2, IdleOk, ReadTypes DEF Reads
<1>2. CASE ShortHeader(s) \/ DiscardPacket(s)
  <2>1. Reads(s, reader[s], <<>>) /\ UNCHANGED <<taken, callback>>
    BY <1>2, ForgetReads
  <2>2. ReaderOk(reader[s]) /\ <<>> \in Seq(AnyByte)
    BY SideFacts
  <2>3. callback' \in [Sides -> {"none", "registered"}]
    BY <2>1 DEF TypeInv, Settings
  <2>. QED BY <1>0, <2>1, <2>2, <2>3, ReadTypes DEF Reads
<1>. QED BY <1>1, <1>2

(* The read of the body is more than the struct has room for. *)
Overrun(s) == [reader[s] EXCEPT !.pc = "overrun"]

LEMMA OverrunReads ==
    ASSUME TypeInv, NEW s \in Sides, BodyOverruns(s)
    PROVE  /\ reader[s].pc = "body" /\ ReaderOk(Overrun(s))
           /\ Overrun(s).pc = "overrun" /\ Overrun(s).head = reader[s].head
           /\ Reads(s, Overrun(s), queue[s]) /\ UNCHANGED <<taken, callback, params>>
<1>1. reader[s] \in ReaderType /\ ReaderOk(reader[s]) /\ reader[s].pc = "body"
  BY SideFacts DEF BodyOverruns
<1>2. /\ Overrun(s) \in ReaderType /\ Overrun(s).pc = "overrun"
      /\ Overrun(s).head = reader[s].head
  BY <1>1 DEF Overrun, ReaderType
<1>3. ReaderOk(Overrun(s))
  BY <1>1, <1>2 DEF ReaderOk
<1>4. reader' = [reader EXCEPT ![s] = Overrun(s)] /\ queue' = [queue EXCEPT ![s] = queue[s]]
  BY DEF BodyOverruns, Overrun, TypeInv, Readers, Incoming
<1>. QED BY <1>1, <1>2, <1>3, <1>4 DEF BodyOverruns, Reads

LEMMA OverrunTypes ==
    ASSUME TypeInv, NEW s \in Sides, BodyOverruns(s)
    PROVE  TypeInv'
<1>1. Params'
  BY ParamTypes DEF ReaderStep
<1>2. queue[s] \in Seq(AnyByte) /\ callback \in [Sides -> {"none", "registered"}]
  BY SideFacts DEF TypeInv, Settings
<1>. QED BY <1>1, <1>2, OverrunReads, ReadTypes DEF Reads

(* The body is short: the reader goes on with the next header. *)
LEMMA ShortBodyTypes ==
    ASSUME TypeInv, NEW s \in Sides, ShortBody(s)
    PROVE  TypeInv'
<1>. DEFINE r == [pc |-> "header", uLength |-> reader[s].uLength, head |-> <<>>]
<1>1. reader[s].pc = "body" /\ reader[s] \in ReaderType /\ ReaderOk(reader[s]) /\ reader[s].uLength \in Nat
  BY SideFacts DEF ShortBody
<1>3. reader' = [reader EXCEPT ![s] = r]
  BY DEF ShortBody
<1>4. ReaderOk(r)
  BY <1>1 DEF ReaderOk, ReaderType
<1>. HIDE DEF r
<1>5. /\ queue' = [queue EXCEPT ![s] = <<>>] /\ <<>> \in Seq(AnyByte)
      /\ UNCHANGED <<settings, callback, sequence, writers, wire, finished, called,
                     replyCookie, sent, taken, answered>>
  BY DEF ShortBody
<1>6. callback' \in [Sides -> {"none", "registered"}]
  BY <1>5 DEF TypeInv, Settings
<1>7. Params'
  BY ParamTypes DEF ReaderStep
<1>. QED BY <1>3, <1>4, <1>5, <1>6, <1>7, ReadTypes

(* A packet is complete: its header is the one that was read, and the bytes
   behind it are as many as were left to read. *)
Whole(s) == reader[s].head \o SubSeq(queue[s], 1, reader[s].uLength)

LEMMA PacketReads ==
    ASSUME TypeInv, NEW s \in Sides, PacketRead(s)
    PROVE  /\ reader[s].pc = "body" /\ reader[s].uLength \in 0 .. Len(queue[s])
           /\ Reads(s, Idle, Drop(queue[s], reader[s].uLength))
           /\ taken' = [taken EXCEPT ![s] = Append(taken[s], Whole(s))]
           /\ callback' \in [Sides -> {"none", "registered"}]
           /\ uMaxLength' = [uMaxLength EXCEPT ![s] = 0] /\ wPacketSize' = wPacketSize
           /\ Whole(s) \in Seq(AnyByte) /\ Len(Whole(s)) = Header + reader[s].uLength
           /\ Len(Whole(s)) \in Header .. Room
           /\ Drop(queue[s], reader[s].uLength) \in Seq(AnyByte)
           /\ Whole(s) \o Drop(queue[s], reader[s].uLength) = reader[s].head \o queue[s]
<1>. DEFINE n == reader[s].uLength
            first == SubSeq(queue[s], 1, n)
            rest == Drop(queue[s], n)
<1>1. reader[s].pc = "body" /\ Len(queue[s]) >= n
  BY DEF PacketRead
<1>2. /\ n \in Nat /\ reader[s].head \in Seq(AnyByte) /\ queue[s] \in Seq(AnyByte)
      /\ Len(queue[s]) \in Nat /\ ReaderOk(reader[s])
  BY SideFacts
<1>3. n \in 0 .. Len(queue[s])
  BY <1>1, <1>2
<1>4. /\ first \in Seq(AnyByte) /\ Len(first) = n
      /\ rest \in Seq(AnyByte) /\ first \o rest = queue[s]
  <2>. HIDE DEF n
  <2>. QED BY <1>2, <1>3, DropFacts
<1>5. Len(reader[s].head) = Header /\ n + Header <= Room
  <2>1. ~(Header + n > Room /\ Header + Len(queue[s]) > Room)
    BY DEF PacketRead, Overruns
  <2>2. Len(reader[s].head) = Header
    BY <1>1, <1>2 DEF ReaderOk
  <2>. HIDE DEF n
  <2>. QED BY <1>1, <1>2, <2>1, <2>2, SizeFacts
<1>6. Whole(s) = reader[s].head \o first
  BY DEF Whole
<1>7. /\ queue' = [queue EXCEPT ![s] = rest]
      /\ reader' = [reader EXCEPT ![s] = Idle] /\ callback' = [callback EXCEPT ![s] = own]
      /\ taken' = [taken EXCEPT ![s] = Append(taken[s], Whole(s))]
      /\ uMaxLength' = [uMaxLength EXCEPT ![s] = 0] /\ wPacketSize' = wPacketSize
      /\ UNCHANGED <<settings, sequence, writers, wire, finished, called,
                     replyCookie, sent, answered>>
  BY DEF PacketRead, Return, Joined, Whole
<1>8. callback' \in [Sides -> {"none", "registered"}]
  BY <1>7 DEF TypeInv, Settings
<1>9. Reads(s, Idle, rest)
  BY <1>7 DEF Reads
<1>. HIDE DEF n, first, rest
<1>10. Whole(s) \in Seq(AnyByte) /\ Len(Whole(s)) = Header + n
  BY <1>2, <1>4, <1>5, <1>6, ConcatInSeq
<1>11. Len(Whole(s)) \in Header .. Room
  <2>1. n \in Nat /\ Header \in Nat /\ Room \in Nat
    BY <1>2, SizeFacts DEF n
  <2>. QED BY <1>5, <1>10, <2>1
<1>12. Whole(s) \o rest = reader[s].head \o queue[s]
  <2>. DEFINE head == reader[s].head
  <2>1. head \in Seq(AnyByte) /\ first \in Seq(AnyByte) /\ rest \in Seq(AnyByte)
    BY <1>2, <1>4
  <2>. HIDE DEF head
  <2>2. (head \o first) \o rest = head \o (first \o rest)
    BY <2>1, ConcatAssociative
  <2>. QED BY <1>4, <1>6, <2>2 DEF head
<1>. QED BY <1>1, <1>3, <1>7, <1>8, <1>9, <1>10, <1>11, <1>12, <1>4 DEF n, first, rest

LEMMA PacketTypes ==
    ASSUME TypeInv, NEW s \in Sides, PacketRead(s)
    PROVE  TypeInv'
<1>. DEFINE w == Whole(s)
            q == Drop(queue[s], reader[s].uLength)
<1>1. /\ Reads(s, Idle, q) /\ q \in Seq(AnyByte)
      /\ taken' = [taken EXCEPT ![s] = Append(taken[s], w)]
      /\ callback' \in [Sides -> {"none", "registered"}]
      /\ w \in Seq(AnyByte) /\ Len(w) \in Header .. Room
  BY PacketReads
<1>. HIDE DEF w, q
<1>2. taken[s] \in Seq(Seq(AnyByte)) /\ Len(taken[s]) \in Nat
  BY SideFacts, LenProperties
<1>. DEFINE t == Append(taken[s], w)
<1>3. /\ t \in Seq(Seq(AnyByte)) /\ Len(t) = Len(taken[s]) + 1
      /\ DOMAIN t = 1 .. Len(taken[s]) + 1 /\ DOMAIN taken[s] = 1 .. Len(taken[s])
      /\ \A i \in 1 .. Len(taken[s]) : t[i] = taken[s][i]
      /\ t[Len(taken[s]) + 1] = w
  BY <1>1, <1>2, AppendProperties, LenProperties
<1>. HIDE DEF t
<1>4. \A i \in DOMAIN t : Len(t[i]) \in Header .. Room
  <2>1. \A i \in DOMAIN taken[s] : Len(taken[s][i]) \in Header .. Room
    BY DEF TypeInv, Takings
  <2>2. \A i \in DOMAIN t : i \in DOMAIN taken[s] \/ i = Len(taken[s]) + 1
    BY <1>2, <1>3
  <2>. QED BY <1>1, <1>3, <2>1, <2>2
<1>5. taken' = [taken EXCEPT ![s] = t]
  BY <1>1 DEF t
<1>6. taken' \in [Sides -> Seq(Seq(AnyByte))]
  BY <1>3, <1>5 DEF TypeInv, Takings
<1>7. \A x \in Sides : \A i \in DOMAIN taken'[x] : Len(taken'[x][i]) \in Header .. Room
  BY <1>4, <1>5 DEF TypeInv, Takings
<1>8. answered' \in 0 .. Len(taken'["server"])
  <2>1. answered' = answered /\ answered \in 0 .. Len(taken["server"])
    BY <1>1 DEF Reads, TypeInv, Takings
  <2>2. taken'["server"] = taken["server"] \/ (s = "server" /\ taken'["server"] = t)
    BY <1>5 DEF TypeInv, Takings, Sides
  <2>. QED BY <1>2, <1>3, <2>1, <2>2
<1>9. Takings'
  BY <1>6, <1>7, <1>8 DEF Takings
<1>10. Readers'
  BY <1>1, IdleOk DEF TypeInv, Readers, ReaderOk, Reads
<1>11. Incoming'
  BY <1>1 DEF TypeInv, Incoming, Reads
<1>12. Params'
  BY ParamTypes DEF ReaderStep
<1>. QED BY <1>1, <1>9, <1>10, <1>11, <1>12 DEF TypeInv, Settings, Counters, Outgoing, Reads

(* What arrives is the beginning of what is on the wire. *)
LEMMA Arrives ==
    ASSUME TypeInv, NEW s \in Sides, Arrive(s)
    PROVE  \E n \in 1 .. Len(wire[s]) :
              /\ network = "whole" => n = wire[s][1][1].size
              /\ queue' = [queue EXCEPT ![s] = queue[s] \o SubSeq(wire[s], 1, n)]
              /\ wire' = [wire EXCEPT ![s] = Drop(wire[s], n)]
              /\ UNCHANGED <<settings, params, callback, sequence, reader, writers,
                             finished, called, replyCookie, sent, taken, answered>>
<1>. DEFINE n == Arriving(s)
<1>1. /\ queue' = [queue EXCEPT ![s] = queue[s] \o SubSeq(wire[s], 1, n)]
      /\ wire' = [wire EXCEPT ![s] = Drop(wire[s], n)]
  BY DEF Arrive
<1>2. n \in 1 .. Len(wire[s]) /\ (network = "whole" => n = wire[s][1][1].size)
  <2>1. CASE network = "whole"
    <3>1. wire[s] \in Seq(AnyByte) /\ Framed(wire[s]) /\ wire[s] # <<>>
      BY <2>1 DEF Arrive, TypeInv, Outgoing
    <3>2. wire[s][1][1].size \in 1 .. Len(wire[s])
      BY <3>1, FramedFirst
    <3>. QED BY <2>1, <3>2 DEF Arriving
  <2>2. CASE network # "whole"
    <3>1. wire[s] \in Seq(AnyByte) /\ wire[s] # <<>>
      BY DEF Arrive, TypeInv, Outgoing
    <3>2. Len(wire[s]) \in Nat \ {0}
      BY <3>1, EmptySeq, LenProperties
    <3>. QED BY <2>2, <3>2 DEF Arriving
  <2>. QED BY <2>1, <2>2
<1>. QED BY <1>1, <1>2 DEF Arrive

LEMMA ArriveTypes ==
    ASSUME TypeInv, NEW s \in Sides, Arrive(s)
    PROVE  TypeInv'
<1>1. PICK n \in 1 .. Len(wire[s]) :
              /\ network = "whole" => n = wire[s][1][1].size
              /\ queue' = [queue EXCEPT ![s] = queue[s] \o SubSeq(wire[s], 1, n)]
              /\ wire' = [wire EXCEPT ![s] = Drop(wire[s], n)]
              /\ UNCHANGED <<settings, params, callback, sequence, reader, writers,
                             finished, called, replyCookie, sent, taken, answered>>
  BY Arrives
<1>. DEFINE first == SubSeq(wire[s], 1, n)
            rest == Drop(wire[s], n)
            q == queue[s] \o first
<1>2. wire[s] \in Seq(AnyByte) /\ queue[s] \in Seq(AnyByte) /\ n \in 0 .. Len(wire[s])
  BY SideFacts
<1>3. first \in Seq(AnyByte) /\ rest \in Seq(AnyByte)
  BY <1>2, DropFacts
<1>4. network = "whole" => Framed(rest)
  <2>1. CASE network = "whole"
    <3>1. wire[s] # <<>> /\ Framed(wire[s]) /\ n = wire[s][1][1].size
      BY <1>1, <2>1 DEF Arrive, TypeInv, Outgoing
    <3>. QED BY <1>2, <3>1, FramedRest
  <2>. QED BY <2>1
<1>. HIDE DEF first, rest
<1>5. q \in Seq(AnyByte)
  BY <1>2, <1>3, ConcatInSeq
<1>. HIDE DEF q
<1>6. queue' = [queue EXCEPT ![s] = q] /\ wire' = [wire EXCEPT ![s] = rest]
  BY <1>1 DEF q, first, rest
<1>7. queue' \in [Sides -> Seq(AnyByte)] /\ wire' \in [Sides -> Seq(AnyByte)]
  BY <1>3, <1>5, <1>6 DEF TypeInv, Incoming, Outgoing
<1>8. network' = "whole" => \A x \in Sides : Framed(wire'[x])
  BY <1>1, <1>4, <1>6 DEF TypeInv, Outgoing
<1>. QED BY <1>1, <1>7, <1>8 DEF TypeInv, Settings, Counters, Readers, Incoming, Outgoing, Takings, Params

LEMMA NextTypes == TypeInv /\ [Next]_vars => TypeInv'
<1>. SUFFICES ASSUME TypeInv, [Next]_vars PROVE TypeInv'
  OBVIOUS
<1>1. CASE \E size \in Sizes, cb \in {"none", "passed"} : RemoteProcedure(size, cb)
  BY <1>1, CallTypes
<1>2. CASE \E size \in Replies : RemoteWriteReply(size)
  BY <1>2, ReplyTypes
<1>3. CASE \E w \in writers : WriterSends(w)
  BY <1>3, WriterTypes
<1>4. CASE \E s \in Sides : ReaderStep(s)
  BY <1>4, ForgetTypes, HeaderTypes, OverrunTypes, PacketTypes, ShortBodyTypes DEF ReaderStep
<1>5. CASE \E s \in Sides : Arrive(s) \/ \E n \in Limits : StartRead(s, n)
  BY <1>5, ArriveTypes, StartTypes
<1>6. CASE Finish
  BY <1>6 DEF Finish, TypeInv, Settings, Counters, Readers, Incoming, Outgoing, Takings, Params
<1>7. CASE UNCHANGED vars
  BY <1>7 DEF vars, TypeInv, Settings, Counters, Readers, Incoming, Outgoing, Takings, Params
<1>. QED BY <1>1, <1>2, <1>3, <1>4, <1>5, <1>6, <1>7 DEF Next

(* What the three calls share, and what the threads and the network change of
   it, keeps its type. *)
THEOREM TypesHold == Spec => []TypeInv
BY InitTypes, NextTypes, PTL DEF Spec

(* The variables keep their types, however the bytes arrive: an answer has a
   cookie of the counter's range, and the reader has no header or a whole one. *)
THEOREM IpcTypeCorrect == Spec => []TypeOK
<1>1. TypeInv => TypeOK
  <2>. SUFFICES ASSUME TypeInv PROVE TypeOK
    OBVIOUS
  <2>1. \A s \in Sides :
          /\ reader[s].pc \in {"idle", "header", "body", "undefined", "overrun", "aborted"}
          /\ reader[s].uLength \in Nat
          /\ uMaxLength[s] \in Limits \union {0} /\ wPacketSize[s] \in Nat
          /\ Len(reader[s].head) \in {0, Header}
          /\ sent[s] \in Seq(Packets)
    <3>. SUFFICES ASSUME NEW s \in Sides
                  PROVE  /\ reader[s].pc \in {"idle", "header", "body", "undefined", "overrun", "aborted"}
                         /\ reader[s].uLength \in Nat
                         /\ uMaxLength[s] \in Limits \union {0} /\ wPacketSize[s] \in Nat
                         /\ Len(reader[s].head) \in {0, Header}
                         /\ sent[s] \in Seq(Packets)
      OBVIOUS
    <3>1. /\ reader[s] \in ReaderType /\ ReaderOk(reader[s]) /\ sent[s] \in Seq(Packets)
      BY SideFacts
    <3>2. Len(reader[s].head) \in {0, Header}
      BY <3>1 DEF ReaderOk
    <3>3. uMaxLength[s] \in Limits \union {0} /\ wPacketSize[s] \in Nat
      BY DEF TypeInv, Params
    <3>. QED BY <3>1, <3>2, <3>3 DEF ReaderType
  <2>2. \A w \in writers : w.to \in Sides /\ w.packet \in Packets
    BY DEF TypeInv, Outgoing
  <2>3. Settings /\ Counters /\ Takings
    BY DEF TypeInv
  <2>4. answered \in 0 .. Len(taken["server"])
    BY <2>3 DEF Takings
  <2>5. /\ sequence \in 0 .. Cookies - 1 /\ replyCookie \in 0 .. Cookies - 1
        /\ called \in Seq(Packets) /\ Len(called) <= MaxCalls
    BY <2>3 DEF Counters
  <2>6. /\ network \in Networks /\ polling \in BOOLEAN /\ again \in BOOLEAN /\ own \in {"none", "registered"}
        /\ callback \in [Sides -> {"none", "registered"}] /\ finished \in BOOLEAN
    BY <2>3 DEF Settings
  <2>. QED BY <2>1, <2>2, <2>4, <2>5, <2>6, Zenon DEF TypeOK
<1>. QED BY <1>1, TypesHold, PTL

------------------------------------------------------------------------------

(***************************************************************************)
(* Whole packets.  z are the packets sent to a side, t what it took, and q  *)
(* the bytes on their way to it: all in the order in which they were sent,  *)
(* and no packet of t has a byte left in q.                                 *)
(***************************************************************************)
Before(z, a, b) == \E i, j \in DOMAIN z : i < j /\ z[i] = a /\ z[j] = b

OnWayInOrder(z, q) ==
    /\ \A k \in DOMAIN q : q[k][1] \in ToSet(z)
    /\ \A k, l \in DOMAIN q :
          k < l => IF q[k][1] = q[l][1] THEN q[l][2] - q[k][2] = l - k
                                        ELSE Before(z, q[k][1], q[l][1])
TakenInOrder(z, t) ==
    /\ \A i \in DOMAIN t : t[i] = Bytes(t[i][1][1]) /\ t[i][1][1] \in ToSet(z)
    /\ \A i, j \in DOMAIN t : i < j => Before(z, t[i][1][1], t[j][1][1])
TakenFirst(z, t, q) == \A i \in DOMAIN t, k \in DOMAIN q : Before(z, t[i][1][1], q[k][1])

OrderOf(z, t, q) == OnWayInOrder(z, q) /\ TakenInOrder(z, t) /\ TakenFirst(z, t, q)

LEMMA BeforeAppend ==
    ASSUME NEW z \in Seq(Packets), NEW p \in Packets
    PROVE  /\ \A a, b : Before(z, a, b) => Before(Append(z, p), a, b)
           /\ \A a \in ToSet(z) : a \in ToSet(Append(z, p)) /\ Before(Append(z, p), a, p)
           /\ p \in ToSet(Append(z, p))
<1>. DEFINE y == Append(z, p)
            n == Len(z) + 1
<1>1. /\ Len(z) \in Nat /\ DOMAIN z = 1 .. Len(z) /\ DOMAIN y = 1 .. n /\ y[n] = p
      /\ \A i \in 1 .. Len(z) : y[i] = z[i]
  BY AppendProperties, LenProperties
<1>2. \A i \in DOMAIN z : i \in DOMAIN y /\ i < n /\ y[i] = z[i]
  BY <1>1
<1>3. n \in DOMAIN y
  BY <1>1
<1>. HIDE DEF y, n
<1>4. \A a, b : Before(z, a, b) => Before(y, a, b)
  BY <1>2 DEF Before
<1>5. \A a \in ToSet(z) : a \in ToSet(y) /\ Before(y, a, p)
  BY <1>1, <1>2, <1>3 DEF Before, ToSet
<1>6. p \in ToSet(y)
  BY <1>1, <1>3 DEF ToSet
<1>. QED BY <1>4, <1>5, <1>6 DEF y

LEMMA OrderSend ==
    ASSUME NEW z \in Seq(Packets), NEW t, NEW q \in Seq(AnyByte), NEW p \in Packets,
           OrderOf(z, t, q), p \notin ToSet(z)
    PROVE  OrderOf(Append(z, p), t, q \o Bytes(p))
<1>. DEFINE y == Append(z, p)
            b == Bytes(p)
            c == q \o b
<1>1. /\ \A d, e : Before(z, d, e) => Before(y, d, e)
      /\ \A d \in ToSet(z) : d \in ToSet(y) /\ Before(y, d, p)
      /\ p \in ToSet(y)
  BY BeforeAppend
<1>2. b \in Seq(AnyByte) /\ Len(b) = p.size /\ \A i \in 1 .. p.size : b[i] = <<p, i>>
  BY BytesFramed
<1>3. OnWayInOrder(z, q) /\ TakenInOrder(z, t) /\ TakenFirst(z, t, q)
  BY DEF OrderOf
<1>. HIDE DEF y, b
<1>4. /\ Len(q) \in Nat /\ p.size \in Nat
      /\ Len(c) = Len(q) + p.size /\ DOMAIN c = 1 .. Len(q) + p.size
      /\ DOMAIN q = 1 .. Len(q)
      /\ \A k \in 1 .. Len(c) : c[k] = IF k <= Len(q) THEN q[k] ELSE b[k - Len(q)]
  <2>1. /\ c \in Seq(AnyByte) /\ Len(c) = Len(q) + Len(b)
        /\ \A k \in 1 .. Len(c) : c[k] = IF k <= Len(q) THEN q[k] ELSE b[k - Len(q)]
    BY <1>2, ConcatProperties
  <2>2. Len(q) \in Nat /\ DOMAIN q = 1 .. Len(q) /\ p.size \in Nat
    BY LenProperties, SizeFacts
  <2>. HIDE DEF c
  <2>3. DOMAIN c = 1 .. Len(c)
    BY <2>1, LenProperties
  <2>. QED BY <1>2, <2>1, <2>2, <2>3
<1>. HIDE DEF c
<1>5. ASSUME NEW k \in DOMAIN c
      PROVE  \/ k \in DOMAIN q /\ c[k] = q[k] /\ c[k][1] \in ToSet(z) /\ c[k][1] # p
             \/ k \notin DOMAIN q /\ k > Len(q) /\ c[k][1] = p /\ c[k][2] = k - Len(q)
  <2>1. CASE k <= Len(q)
    <3>1. k \in DOMAIN q /\ c[k] = q[k]
      BY <1>4, <2>1
    <3>. QED BY <1>3, <3>1 DEF OnWayInOrder
  <2>2. CASE ~(k <= Len(q))
    <3>1. k - Len(q) \in 1 .. p.size /\ c[k] = b[k - Len(q)] /\ k \notin DOMAIN q /\ k > Len(q)
      BY <1>4, <2>2
    <3>2. c[k] = <<p, k - Len(q)>>
      BY <1>2, <3>1
    <3>. QED BY <3>1, <3>2
  <2>. QED BY <2>1, <2>2
<1>6. OnWayInOrder(y, c)
  <2>1. \A k \in DOMAIN c : c[k][1] \in ToSet(y)
    BY <1>1, <1>5
  <2>2. ASSUME NEW k \in DOMAIN c, NEW l \in DOMAIN c, k < l
        PROVE  IF c[k][1] = c[l][1] THEN c[l][2] - c[k][2] = l - k
                                    ELSE Before(y, c[k][1], c[l][1])
    <3>1. CASE k \in DOMAIN q /\ l \in DOMAIN q
      <4>1. c[k] = q[k] /\ c[l] = q[l]
        BY <1>5, <3>1
      <4>2. IF q[k][1] = q[l][1] THEN q[l][2] - q[k][2] = l - k ELSE Before(z, q[k][1], q[l][1])
        BY <1>3, <2>2, <3>1 DEF OnWayInOrder
      <4>. QED BY <1>1, <4>1, <4>2
    <3>2. CASE k \in DOMAIN q /\ l \notin DOMAIN q
      BY <1>1, <1>5, <3>2
    <3>3. CASE k \notin DOMAIN q
      <4>1. l \notin DOMAIN q /\ k \in Nat /\ l \in Nat
        BY <1>4, <2>2, <3>3
      <4>2. c[k][1] = p /\ c[l][1] = p /\ c[k][2] = k - Len(q) /\ c[l][2] = l - Len(q)
        BY <1>5, <3>3, <4>1
      <4>. QED BY <1>4, <4>1, <4>2
    <3>. QED BY <3>1, <3>2, <3>3
  <2>. QED BY <2>1, <2>2 DEF OnWayInOrder
<1>7. TakenInOrder(y, t)
  BY <1>1, <1>3 DEF TakenInOrder
<1>8. TakenFirst(y, t, c)
  <2>. SUFFICES ASSUME NEW i \in DOMAIN t, NEW k \in DOMAIN c
                PROVE  Before(y, t[i][1][1], c[k][1])
    BY DEF TakenFirst
  <2>1. t[i][1][1] \in ToSet(z)
    BY <1>3 DEF TakenInOrder
  <2>2. CASE k \in DOMAIN q
    <3>1. c[k] = q[k] /\ Before(z, t[i][1][1], q[k][1])
      BY <1>3, <1>5, <2>2 DEF TakenFirst
    <3>. QED BY <1>1, <3>1
  <2>3. CASE k \notin DOMAIN q
    BY <1>1, <1>5, <2>1, <2>3
  <2>. QED BY <2>2, <2>3
<1>. QED BY <1>6, <1>7, <1>8 DEF OrderOf, y, c, b

LEMMA OrderDrop ==
    ASSUME NEW z, NEW t, NEW q \in Seq(AnyByte), NEW n \in 0 .. Len(q), OrderOf(z, t, q)
    PROVE  OrderOf(z, t, Drop(q, n))
<1>. DEFINE r == Drop(q, n)
<1>1. Len(q) \in Nat /\ DOMAIN q = 1 .. Len(q) /\ DOMAIN r = 1 .. Len(q) - n
      /\ \A k \in 1 .. Len(q) - n : r[k] = q[n + k]
  BY DropFacts, LenProperties
<1>. HIDE DEF r
<1>2. \A k \in DOMAIN r : k \in Nat /\ n + k \in DOMAIN q /\ r[k] = q[n + k]
  BY <1>1
<1>3. OnWayInOrder(z, q) /\ TakenInOrder(z, t) /\ TakenFirst(z, t, q)
  BY DEF OrderOf
<1>4. OnWayInOrder(z, r)
  <2>1. \A k \in DOMAIN r : r[k][1] \in ToSet(z)
    BY <1>2, <1>3 DEF OnWayInOrder
  <2>2. ASSUME NEW k \in DOMAIN r, NEW l \in DOMAIN r, k < l
        PROVE  IF r[k][1] = r[l][1] THEN r[l][2] - r[k][2] = l - k
                                    ELSE Before(z, r[k][1], r[l][1])
    <3>1. n + k < n + l /\ (n + l) - (n + k) = l - k
      BY <1>1, <1>2, <2>2
    <3>2. IF q[n + k][1] = q[n + l][1] THEN q[n + l][2] - q[n + k][2] = (n + l) - (n + k)
                                       ELSE Before(z, q[n + k][1], q[n + l][1])
      BY <1>2, <1>3, <3>1 DEF OnWayInOrder
    <3>. QED BY <1>2, <3>1, <3>2
  <2>. QED BY <2>1, <2>2 DEF OnWayInOrder
<1>5. TakenFirst(z, t, r)
  BY <1>2, <1>3 DEF TakenFirst
<1>. QED BY <1>3, <1>4, <1>5 DEF OrderOf, r

(* The first packet of the bytes on the way is taken. *)
LEMMA OrderTake ==
    ASSUME NEW z, NEW t \in Seq(Seq(AnyByte)), NEW q \in Seq(AnyByte), OrderOf(z, t, q),
           Framed(q), q # <<>>
    PROVE  OrderOf(z, Append(t, Bytes(q[1][1])), Drop(q, q[1][1].size))
<1>. DEFINE p == q[1][1]
            n == p.size
            b == Bytes(p)
            u == Append(t, b)
            r == Drop(q, n)
<1>1. p \in Packets /\ n \in 1 .. Len(q) /\ \A j \in 1 .. n : q[j] = <<p, j>>
  BY FramedFirst
<1>2. b \in Seq(AnyByte) /\ Len(b) = n /\ b[1][1] = p
  <2>1. 1 \in 1 .. n
    BY <1>1
  <2>. QED BY <1>1, <2>1, BytesFramed
<1>3. Framed(r)
  BY FramedRest
<1>4. OnWayInOrder(z, q) /\ TakenInOrder(z, t) /\ TakenFirst(z, t, q)
  BY DEF OrderOf
<1>. HIDE DEF p, b
<1>5. r \in Seq(AnyByte) /\ DOMAIN r = 1 .. Len(q) - n
      /\ \A k \in 1 .. Len(q) - n : r[k] = q[n + k]
  <2>1. n \in 0 .. Len(q)
    BY <1>1
  <2>. HIDE DEF n
  <2>. QED BY <2>1, DropFacts, LenProperties
<1>6. OrderOf(z, t, r)
  <2>1. n \in 0 .. Len(q)
    BY <1>1
  <2>. HIDE DEF n
  <2>. QED BY <2>1, OrderDrop
<1>. HIDE DEF r
<1>7. /\ Len(t) \in Nat /\ DOMAIN t = 1 .. Len(t) /\ DOMAIN u = 1 .. Len(t) + 1
      /\ u[Len(t) + 1] = b /\ \A i \in 1 .. Len(t) : u[i] = t[i]
  BY <1>2, AppendProperties, LenProperties
<1>. HIDE DEF u
<1>8. 1 \in DOMAIN q /\ DOMAIN q = 1 .. Len(q) /\ Len(q) \in Nat /\ q[1] = <<p, 1>>
  BY <1>1, LenProperties
<1>9. \A i \in DOMAIN u : (i \in DOMAIN t /\ u[i] = t[i]) \/ (i = Len(t) + 1 /\ u[i] = b)
  BY <1>7
<1>10. \A i \in DOMAIN t : Before(z, t[i][1][1], p)
  BY <1>4, <1>8 DEF TakenFirst, p
<1>11. p \in ToSet(z)
  BY <1>4, <1>8 DEF OnWayInOrder, p
<1>12. TakenInOrder(z, u)
  <2>1. \A i \in DOMAIN u : u[i] = Bytes(u[i][1][1]) /\ u[i][1][1] \in ToSet(z)
    BY <1>2, <1>4, <1>9, <1>11 DEF TakenInOrder, b
  <2>2. ASSUME NEW i \in DOMAIN u, NEW j \in DOMAIN u, i < j
        PROVE  Before(z, u[i][1][1], u[j][1][1])
    <3>1. i \in DOMAIN t /\ u[i] = t[i]
      BY <1>7, <2>2
    <3>2. CASE j \in DOMAIN t /\ u[j] = t[j]
      BY <1>4, <2>2, <3>1, <3>2 DEF TakenInOrder
    <3>3. CASE u[j] = b
      BY <1>2, <1>10, <3>1, <3>3
    <3>. QED BY <1>9, <3>2, <3>3
  <2>. QED BY <2>1, <2>2 DEF TakenInOrder
<1>13. ASSUME NEW k \in DOMAIN r
       PROVE  Before(z, p, r[k][1])
  <2>1. k \in Nat /\ n + k \in DOMAIN q /\ 1 < n + k /\ r[k] = q[n + k]
    BY <1>1, <1>5, <1>8
  <2>2. r[k][2] \in 1 .. r[k][1].size
    BY <1>3 DEF Framed, Run
  <2>3. IF p = r[k][1] THEN r[k][2] - 1 = (n + k) - 1 ELSE Before(z, p, r[k][1])
    BY <1>4, <1>8, <2>1 DEF OnWayInOrder
  <2>4. CASE p = r[k][1]
    <3>1. r[k][2] - 1 = (n + k) - 1 /\ r[k][2] \in 1 .. n /\ k >= 1 /\ n \in Nat
      BY <1>1, <1>5, <2>2, <2>3, <2>4
    <3>. QED BY <2>1, <3>1
  <2>. QED BY <2>3, <2>4
<1>14. TakenFirst(z, u, r)
  <2>. SUFFICES ASSUME NEW i \in DOMAIN u, NEW k \in DOMAIN r
                PROVE  Before(z, u[i][1][1], r[k][1])
    BY DEF TakenFirst
  <2>1. CASE i \in DOMAIN t /\ u[i] = t[i]
    BY <1>6, <2>1 DEF OrderOf, TakenFirst
  <2>2. CASE u[i] = b
    BY <1>2, <1>13, <2>2
  <2>. QED BY <1>9, <2>1, <2>2
<1>15. OnWayInOrder(z, r)
  BY <1>6 DEF OrderOf
<1>. QED BY <1>12, <1>14, <1>15 DEF OrderOf, p, b, u, r

------------------------------------------------------------------------------
(* What a side has received of packets it has not taken, and what is on its
   way to it. *)
InHand(s) == reader[s].head \o queue[s]
OnTheWay(s) == InHand(s) \o wire[s]

ReaderKnows(s) ==
    /\ reader[s].pc # "undefined"
    /\ reader[s].pc = "body" => reader[s].uLength + Header = InHand(s)[1][1].size

Flow(s) ==
    /\ Framed(InHand(s))
    /\ ReaderKnows(s)
    /\ OrderOf(sent[s], taken[s], OnTheWay(s))

FlowInv == \A s \in Sides : Flow(s)

LEMMA InHandFacts ==
    ASSUME TypeInv, NEW s \in Sides
    PROVE  /\ InHand(s) \in Seq(AnyByte) /\ OnTheWay(s) \in Seq(AnyByte)
           /\ Len(InHand(s)) = Len(reader[s].head) + Len(queue[s])
           /\ (reader[s].pc \notin {"body", "overrun"} => reader[s].head = <<>> /\ InHand(s) = queue[s])
<1>. DEFINE head == reader[s].head
<1>1. head \in Seq(AnyByte) /\ queue[s] \in Seq(AnyByte) /\ wire[s] \in Seq(AnyByte)
  BY SideFacts
<1>2. reader[s].pc \notin {"body", "overrun"} => head = <<>>
  BY SideFacts DEF ReaderOk
<1>. HIDE DEF head
<1>3. head \o queue[s] \in Seq(AnyByte) /\ Len(head \o queue[s]) = Len(head) + Len(queue[s])
  BY <1>1, ConcatInSeq
<1>4. (head \o queue[s]) \o wire[s] \in Seq(AnyByte)
  BY <1>1, <1>3, ConcatInSeq
<1>5. <<>> \o queue[s] = queue[s]
  BY <1>1, ConcatEmptySeq
<1>. QED BY <1>2, <1>3, <1>4, <1>5 DEF InHand, OnTheWay, head

LEMMA OnTheWayFramed ==
    ASSUME TypeInv, NEW s \in Sides, network = "whole", Flow(s)
    PROVE  Framed(OnTheWay(s))
<1>1. InHand(s) \in Seq(AnyByte) /\ wire[s] \in Seq(AnyByte)
  BY InHandFacts, SideFacts
<1>2. Framed(InHand(s)) /\ Framed(wire[s])
  BY DEF TypeInv, Outgoing, Flow
<1>. QED BY <1>1, <1>2, FramedConcat DEF OnTheWay

LEMMA FlowKept ==
    ASSUME NEW s, Flow(s),
           UNCHANGED <<reader[s], queue[s], wire[s], sent[s], taken[s]>>
    PROVE  Flow(s)'
<1>1. /\ reader'[s] = reader[s] /\ queue'[s] = queue[s] /\ wire'[s] = wire[s]
      /\ sent'[s] = sent[s] /\ taken'[s] = taken[s]
  OBVIOUS
<1>2. InHand(s)' = InHand(s) /\ OnTheWay(s)' = OnTheWay(s)
  BY <1>1 DEF InHand, OnTheWay
<1>3. ReaderKnows(s)'
  BY <1>1, <1>2 DEF Flow, ReaderKnows
<1>. QED BY <1>1, <1>2, <1>3 DEF Flow

LEMMA SendFlow ==
    ASSUME TypeInv, FlowInv, NEW to \in Sides, NEW p \in Packets, Send(to, p),
           p \notin ToSet(sent[to]), UNCHANGED <<reader, queue, taken>>
    PROVE  FlowInv'
<1>. SUFFICES ASSUME NEW s \in Sides PROVE Flow(s)'
  BY DEF FlowInv
<1>1. Flow(s)
  BY DEF FlowInv
<1>2. CASE s # to
  <2>1. UNCHANGED <<reader[s], queue[s], wire[s], sent[s], taken[s]>>
    BY <1>2 DEF Send, TypeInv, Outgoing
  <2>. QED BY <1>1, <2>1, FlowKept
<1>3. CASE s = to
  <2>. DEFINE b == Bytes(p)
  <2>1. wire'[s] = wire[s] \o b /\ sent'[s] = Append(sent[s], p)
    BY <1>3 DEF Send, TypeInv, Outgoing
  <2>2. InHand(s) \in Seq(AnyByte) /\ wire[s] \in Seq(AnyByte) /\ b \in Seq(AnyByte)
        /\ OnTheWay(s) \in Seq(AnyByte) /\ sent[s] \in Seq(Packets)
    BY InHandFacts, SideFacts, BytesFramed
  <2>3. OrderOf(Append(sent[s], p), taken[s], OnTheWay(s) \o b)
    BY <1>1, <1>3, <2>2, OrderSend DEF Flow
  <2>. HIDE DEF b
  <2>4. OnTheWay(s) \o b = InHand(s) \o (wire[s] \o b)
    BY <2>2, Associative, ZenonT(60) DEF OnTheWay
  <2>5. InHand(s)' = InHand(s)
    BY DEF InHand
  <2>6. OnTheWay(s)' = OnTheWay(s) \o b
    BY <2>1, <2>4, <2>5 DEF OnTheWay
  <2>7. ReaderKnows(s)'
    BY <1>1, <2>5 DEF Flow, ReaderKnows
  <2>. QED BY <1>1, <2>1, <2>3, <2>5, <2>6, <2>7 DEF Flow
<1>. QED BY <1>2, <1>3

(* The first packet of the wire: the bytes in hand stay framed, and nothing
   is lost or reordered. *)
LEMMA ArriveFlow ==
    ASSUME TypeInv, FlowInv, network = "whole", NEW x \in Sides, Arrive(x)
    PROVE  /\ FlowInv'
           /\ \A s \in Sides : OnTheWay(s)' = OnTheWay(s)
<1>. SUFFICES ASSUME NEW s \in Sides PROVE Flow(s)' /\ OnTheWay(s)' = OnTheWay(s)
  BY DEF FlowInv
<1>1. Flow(s)
  BY DEF FlowInv
<1>2. PICK n \in 1 .. Len(wire[x]) :
              /\ n = wire[x][1][1].size
              /\ queue' = [queue EXCEPT ![x] = queue[x] \o SubSeq(wire[x], 1, n)]
              /\ wire' = [wire EXCEPT ![x] = Drop(wire[x], n)]
              /\ UNCHANGED <<reader, sent, taken>>
  BY Arrives
<1>3. CASE s # x
  <2>1. UNCHANGED <<reader[s], queue[s], wire[s], sent[s], taken[s]>>
    BY <1>2, <1>3 DEF TypeInv, Outgoing, Incoming
  <2>. QED BY <1>1, <2>1, FlowKept DEF OnTheWay, InHand
<1>4. CASE s = x
  <2>. DEFINE w == wire[s]
              first == SubSeq(w, 1, n)
              rest == Drop(w, n)
              head == reader[s].head
  <2>1. w \in Seq(AnyByte) /\ Framed(w) /\ w # <<>> /\ n = w[1][1].size /\ n \in 0 .. Len(w)
    BY <1>2, <1>4, SideFacts DEF TypeInv, Outgoing, Arrive
  <2>2. first = Bytes(w[1][1]) /\ w[1][1] \in Packets
    BY <2>1, FramedFirst
  <2>3. first \in Seq(AnyByte) /\ rest \in Seq(AnyByte) /\ first \o rest = w
    <3>. HIDE DEF w
    <3>. QED BY <2>1, DropFacts
  <2>4. Framed(first)
    BY <2>2, BytesFramed
  <2>5. queue'[s] = queue[s] \o first /\ wire'[s] = rest
    BY <1>2, <1>4 DEF TypeInv, Outgoing, Incoming
  <2>6. head \in Seq(AnyByte) /\ queue[s] \in Seq(AnyByte) /\ InHand(s) \in Seq(AnyByte)
    BY SideFacts, InHandFacts
  <2>. HIDE DEF first, rest, w
  <2>7. InHand(s)' = InHand(s) \o first
    <3>1. reader'[s].head = head
      BY <1>2
    <3>2. InHand(s) = head \o queue[s] /\ InHand(s)' = reader'[s].head \o queue'[s]
      BY DEF InHand
    <3>. HIDE DEF head
    <3>3. head \o (queue[s] \o first) = (head \o queue[s]) \o first
      BY <2>3, <2>6, Associative, ZenonT(60) DEF head
    <3>. QED BY <2>5, <3>1, <3>2, <3>3
  <2>8. Framed(InHand(s)')
    BY <1>1, <2>3, <2>4, <2>6, <2>7, FramedConcat DEF Flow
  <2>9. OnTheWay(s)' = OnTheWay(s)
    <3>1. (InHand(s) \o first) \o rest = InHand(s) \o (first \o rest)
      BY <2>3, <2>6, Associative, ZenonT(60)
    <3>. QED BY <2>3, <2>5, <2>7, <3>1 DEF OnTheWay, w
  <2>10. ReaderKnows(s)'
    <3>1. CASE reader[s].pc = "body"
      <4>1. Len(head) = Header /\ Header \in Nat \ {0} /\ Len(queue[s]) \in Nat
        BY <3>1, SideFacts, SizeFacts DEF ReaderOk
      <4>2. Len(InHand(s)) \in Nat /\ 1 \in 1 .. Len(InHand(s))
        <5>1. Len(InHand(s)) = Len(head) + Len(queue[s])
          BY InHandFacts
        <5>. QED BY <4>1, <5>1
      <4>3. (InHand(s) \o first)[1] = InHand(s)[1]
        BY <2>3, <2>6, <4>2, ConcatProperties
      <4>. QED BY <1>1, <1>2, <2>7, <3>1, <4>3 DEF Flow, ReaderKnows
    <3>2. CASE reader[s].pc # "body"
      BY <1>1, <1>2, <3>2 DEF Flow, ReaderKnows
    <3>. QED BY <3>1, <3>2
  <2>. QED BY <1>1, <1>2, <2>8, <2>9, <2>10 DEF Flow
<1>. QED BY <1>3, <1>4

(* A step of one side's read: what has to be shown of that side alone. *)
LEMMA ReadFlow ==
    ASSUME TypeInv, FlowInv, NEW x \in Sides, NEW r, NEW q, Reads(x, r, q),
           NEW h, h = r.head \o q, Framed(h),
           r.pc # "undefined",
           r.pc = "body" => r.uLength + Header = h[1][1].size,
           \A s \in Sides \ {x} : taken'[s] = taken[s],
           OrderOf(sent[x], taken'[x], h \o wire[x])
    PROVE  FlowInv'
<1>. SUFFICES ASSUME NEW s \in Sides PROVE Flow(s)'
  BY DEF FlowInv
<1>1. Flow(s)
  BY DEF FlowInv
<1>2. CASE s # x
  <2>1. UNCHANGED <<reader[s], queue[s], wire[s], sent[s], taken[s]>>
    BY <1>2 DEF Reads, TypeInv, Incoming, Readers
  <2>. QED BY <1>1, <2>1, FlowKept
<1>3. CASE s = x
  <2>1. reader'[s] = r /\ queue'[s] = q /\ wire' = wire /\ sent' = sent
    BY <1>3 DEF Reads, TypeInv, Incoming, Readers
  <2>2. InHand(s)' = h /\ OnTheWay(s)' = h \o wire[x]
    BY <1>3, <2>1 DEF InHand, OnTheWay
  <2>3. ReaderKnows(s)'
    BY <2>1, <2>2 DEF ReaderKnows
  <2>. QED BY <1>3, <2>1, <2>2, <2>3 DEF Flow
<1>. QED BY <1>2, <1>3

(* What is in hand is forgotten: what is on the way is a suffix of what was. *)
LEMMA ForgetOrder ==
    ASSUME TypeInv, NEW s \in Sides, Flow(s)
    PROVE  OrderOf(sent[s], taken[s], <<>> \o wire[s])
<1>. DEFINE h == InHand(s)
            w == wire[s]
            n == Len(h)
<1>1. h \in Seq(AnyByte) /\ w \in Seq(AnyByte) /\ OnTheWay(s) = h \o w /\ h \o w \in Seq(AnyByte)
  BY InHandFacts, SideFacts DEF OnTheWay
<1>. HIDE DEF h, w
<1>2. n \in Nat /\ Len(w) \in Nat /\ Len(h \o w) = n + Len(w) /\ n \in 0 .. Len(h \o w)
  BY <1>1, ConcatInSeq, LenProperties
<1>3. Drop(h \o w, n) = w
  <2>. DEFINE c == h \o w
              d == Drop(c, n)
  <2>1. c \in Seq(AnyByte) /\ n \in 0 .. Len(c) /\ Len(c) = n + Len(w)
        /\ \A k \in 1 .. Len(c) : c[k] = IF k <= n THEN h[k] ELSE w[k - n]
    BY <1>1, <1>2, ConcatProperties
  <2>. HIDE DEF c, n
  <2>2. d \in Seq(AnyByte) /\ Len(d) = Len(c) - n /\ \A k \in 1 .. Len(c) - n : d[k] = c[n + k]
    BY <2>1, DropFacts
  <2>. HIDE DEF d
  <2>3. Len(d) = Len(w) /\ Len(c) - n = Len(w)
    BY <1>2, <2>1, <2>2
  <2>4. ASSUME NEW k \in 1 .. Len(w)
        PROVE  d[k] = w[k]
    <3>1. n + k \in 1 .. Len(c) /\ ~(n + k <= n) /\ (n + k) - n = k
      BY <1>2, <2>1
    <3>2. c[n + k] = w[k]
      BY <2>1, <3>1
    <3>. QED BY <2>2, <2>3, <3>2
  <2>5. d = w
    BY <1>1, <2>2, <2>3, <2>4, SeqEqual
  <2>. QED BY <2>5 DEF c, d
<1>4. OrderOf(sent[s], taken[s], h \o w)
  BY <1>1 DEF Flow
<1>. HIDE DEF n
<1>5. OrderOf(sent[s], taken[s], Drop(h \o w, n))
  BY <1>1, <1>2, <1>4, OrderDrop
<1>6. <<>> \o w = w
  BY <1>1, ConcatEmptySeq
<1>. QED BY <1>3, <1>5, <1>6 DEF w

LEMMA ForgetFlow ==
    ASSUME TypeInv, FlowInv, NEW s \in Sides, ShortHeader(s) \/ DiscardPacket(s)
    PROVE  FlowInv'
<1>. DEFINE r == reader[s]
            q == <<>>
            h == <<>>
<1>1. r.pc = "header" /\ Reads(s, r, q) /\ UNCHANGED <<taken, callback>>
  BY ForgetReads
<1>2. r.head = <<>>
  BY <1>1, SideFacts DEF ReaderOk
<1>3. h = r.head \o q
  <2>1. <<>> \in Seq(AnyByte)
    OBVIOUS
  <2>. QED BY <1>2, <2>1, ConcatEmptySeq
<1>4. Flow(s) /\ ReaderKnows(s)
  BY DEF FlowInv, Flow
<1>5. OrderOf(sent[s], taken[s], h \o wire[s])
  BY <1>4, ForgetOrder
<1>7. Framed(h)
  BY FramedEmpty
<1>8. /\ r.pc # "undefined" /\ (r.pc = "body" => r.uLength + Header = h[1][1].size)
      /\ \A x \in Sides \ {s} : taken'[x] = taken[x]
      /\ OrderOf(sent[s], taken'[s], h \o wire[s])
  BY <1>1, <1>5
<1>. HIDE DEF r, q, h
<1>. QED BY <1>1, <1>3, <1>7, <1>8, ReadFlow

(* Nothing has come: the bytes in hand are none before and after. *)
LEMMA NoDataFlow ==
    ASSUME TypeInv, FlowInv, NEW s \in Sides, NoData(s)
    PROVE  FlowInv'
<1>. DEFINE r == Idle
            q == queue[s]
            h == InHand(s)
<1>1. reader[s].pc = "header" /\ q = <<>> /\ Reads(s, r, q) /\ UNCHANGED taken
  BY NoDataReads
<1>2. h = q
  BY <1>1, InHandFacts
<1>3. r.pc = "idle" /\ r.head = <<>>
  BY DEF Idle
<1>4. h = r.head \o q
  <2>1. <<>> \in Seq(AnyByte)
    OBVIOUS
  <2>2. <<>> \o <<>> = <<>>
    BY <2>1, ConcatEmptySeq
  <2>. QED BY <1>1, <1>2, <1>3, <2>2
<1>5. Framed(h) /\ OrderOf(sent[s], taken[s], h \o wire[s])
  BY DEF FlowInv, Flow, OnTheWay
<1>6. /\ r.pc # "undefined" /\ (r.pc = "body" => r.uLength + Header = h[1][1].size)
      /\ \A x \in Sides \ {s} : taken'[x] = taken[x]
      /\ OrderOf(sent[s], taken'[s], h \o wire[s])
  BY <1>1, <1>3, <1>5
<1>. HIDE DEF r, q, h
<1>. QED BY <1>1, <1>4, <1>5, <1>6, ReadFlow

LEMMA OverrunFlow ==
    ASSUME TypeInv, FlowInv, NEW s \in Sides, BodyOverruns(s)
    PROVE  FlowInv'
<1>. DEFINE r == Overrun(s)
            q == queue[s]
            h == InHand(s)
<1>1. r.pc = "overrun" /\ h = r.head \o q /\ Reads(s, r, q) /\ UNCHANGED taken
  BY OverrunReads DEF InHand
<1>2. Framed(h) /\ OrderOf(sent[s], taken[s], h \o wire[s])
  BY DEF FlowInv, Flow, OnTheWay
<1>3. /\ r.pc # "undefined" /\ (r.pc = "body" => r.uLength + Header = h[1][1].size)
      /\ \A x \in Sides \ {s} : taken'[x] = taken[x]
      /\ OrderOf(sent[s], taken'[s], h \o wire[s])
  BY <1>1, <1>2
<1>. HIDE DEF r, q, h
<1>. QED BY <1>1, <1>2, <1>3, ReadFlow

LEMMA StartFlow ==
    ASSUME TypeInv, FlowInv, NEW s \in Sides, NEW n \in Limits, StartRead(s, n)
    PROVE  FlowInv'
<1>. DEFINE r == Begun(s, n)
            q == queue[s]
            h == InHand(s)
<1>1. reader' = [reader EXCEPT ![s] = r] /\ reader[s].pc = "idle"
  BY DEF StartRead, Begun
<1>2. r.pc \in {"header", "aborted"} /\ r.head = <<>>
  BY DEF Begun
<1>. HIDE DEF r
<1>3. q \in Seq(AnyByte) /\ h = q
  BY <1>1, InHandFacts, SideFacts
<1>4. <<>> \o q = q
  BY <1>3, ConcatEmptySeq
<1>5. queue' = [queue EXCEPT ![s] = q]
  BY DEF StartRead, TypeInv, Incoming
<1>6. Reads(s, r, q) /\ UNCHANGED taken
  BY <1>1, <1>5 DEF StartRead, Reads
<1>7. Framed(h) /\ OrderOf(sent[s], taken[s], h \o wire[s])
  BY DEF FlowInv, Flow, OnTheWay
<1>8. /\ r.pc # "undefined" /\ (r.pc = "body" => r.uLength + Header = h[1][1].size)
      /\ \A x \in Sides \ {s} : taken'[x] = taken[x]
      /\ OrderOf(sent[s], taken'[s], h \o wire[s]) /\ h = r.head \o q
  BY <1>2, <1>3, <1>4, <1>6, <1>7
<1>. HIDE DEF q, h
<1>. QED BY <1>6, <1>7, <1>8, ReadFlow

(* In a whole network a header is a header, and its size the packet's. *)
LEMMA RightHeader ==
    ASSUME TypeInv, NEW s \in Sides, Flow(s), reader[s].pc = "header", Len(queue[s]) >= Header
    PROVE  /\ InHand(s) = queue[s] /\ queue[s] # <<>>
           /\ SizesIn(HeaderOf(s)) = {InHand(s)[1][1].size}
           /\ InHand(s)[1][1] \in Packets
<1>. DEFINE q == queue[s]
            p == q[1][1]
<1>1. InHand(s) = q /\ q \in Seq(AnyByte) /\ Framed(q) /\ Len(q) \in Nat
  BY InHandFacts, SideFacts DEF Flow
<1>2. Header \in Nat \ {0} /\ Header \in 1 .. Len(q) /\ q # <<>>
  BY <1>1, SizeFacts, EmptySeq
<1>. HIDE DEF q
<1>3. p \in Packets /\ p.size \in 1 .. Len(q) /\ \A j \in 1 .. p.size : q[j] = <<p, j>>
  BY <1>1, <1>2, FramedFirst
<1>4. p.size \in Nat /\ p.size >= Header
  BY <1>3, SizeFacts
<1>5. \A j \in 1 .. Header : SubSeq(q, 1, Header)[j] = q[j]
  <2>1. \A j \in 1 .. Header : q[j] \in AnyByte
    BY <1>1, <1>2, ElementOfSeq
  <2>. QED BY <1>2, <2>1, SubSeqProperties
<1>6. \A j \in 1 .. Header : SubSeq(q, 1, Header)[j] = <<p, j>>
  BY <1>2, <1>3, <1>4, <1>5
<1>. DEFINE f == SubSeq(q, 1, Header)
<1>7. f = HeaderOf(s)
  BY DEF HeaderOf, q
<1>8. /\ \A j \in 1 .. Header : f[j] = <<p, j>>
      /\ 1 \in 1 .. Header
  BY <1>2, <1>6
<1>. HIDE DEF f, p
<1>9. f[1][1] = p
  BY <1>8
<1>10. IsHeader(f)
  BY <1>8, <1>9 DEF IsHeader
<1>11. SizesIn(f) = {p.size}
  BY <1>9, <1>10 DEF SizesIn
<1>. QED BY <1>1, <1>2, <1>3, <1>7, <1>11 DEF p, q

LEMMA HeaderFlow ==
    ASSUME TypeInv, FlowInv, NEW s \in Sides, HeaderRead(s)
    PROVE  FlowInv' /\ taken' = taken
<1>1. PICK size \in SizesIn(HeaderOf(s)) :
              /\ reader[s].pc = "header" /\ Len(queue[s]) >= Header
              /\ size <= reader[s].uLength
              /\ Reads(s, AfterHeader(s, size), Drop(queue[s], Header))
              /\ UNCHANGED <<taken, callback>>
  BY HeaderReads
<1>. DEFINE r == AfterHeader(s, size)
            q == Drop(queue[s], Header)
            h == InHand(s)
<1>2. Flow(s)
  BY DEF FlowInv
<1>3. h = queue[s] /\ size = h[1][1].size /\ h[1][1] \in Packets
  BY <1>1, <1>2, RightHeader
<1>4. size \in Nat /\ size >= Header /\ Header \in Nat
  BY <1>3, SizeFacts
<1>5. r = [pc |-> "body", uLength |-> size - Header, head |-> HeaderOf(s)]
  BY <1>4 DEF AfterHeader
<1>6. HeaderOf(s) \o q = queue[s]
  BY <1>1, HeaderFacts
<1>7. r.pc = "body" /\ r.uLength + Header = size /\ h = r.head \o q
  BY <1>3, <1>4, <1>5, <1>6, SMTT(60)
<1>8. Framed(h) /\ OrderOf(sent[s], taken[s], h \o wire[s])
  BY <1>2 DEF Flow, OnTheWay
<1>9. /\ r.pc # "undefined" /\ (r.pc = "body" => r.uLength + Header = h[1][1].size)
      /\ \A x \in Sides \ {s} : taken'[x] = taken[x]
      /\ OrderOf(sent[s], taken'[s], h \o wire[s]) /\ Reads(s, r, q)
  BY <1>1, <1>3, <1>7, <1>8
<1>. HIDE DEF r, q, h
<1>. QED BY <1>1, <1>7, <1>8, <1>9, ReadFlow

(* A packet is taken: the first of those in hand. *)
LEMMA PacketFlow ==
    ASSUME TypeInv, FlowInv, network = "whole", NEW s \in Sides, PacketRead(s)
    PROVE  /\ FlowInv'
           /\ OnTheWay(s) # <<>> /\ Bytes(OnTheWay(s)[1][1]) \in Seq(AnyByte)
           /\ taken' = [taken EXCEPT ![s] = Append(taken[s], Bytes(OnTheWay(s)[1][1]))]
           /\ OnTheWay(s)' \in Seq(AnyByte)
           /\ Bytes(OnTheWay(s)[1][1]) \o OnTheWay(s)' = OnTheWay(s)
<1>. DEFINE r == Idle
            n == reader[s].uLength
            q == Drop(queue[s], n)
            h == InHand(s)
            p == h[1][1]
            w == wire[s]
            whole == Whole(s)
<1>1. /\ reader[s].pc = "body" /\ n \in 0 .. Len(queue[s])
      /\ Reads(s, r, q)
      /\ taken' = [taken EXCEPT ![s] = Append(taken[s], whole)]
      /\ whole \in Seq(AnyByte) /\ Len(whole) = Header + n
      /\ q \in Seq(AnyByte) /\ whole \o q = h
  BY PacketReads DEF InHand
<1>2. Flow(s)
  BY DEF FlowInv
<1>3. Framed(h) /\ p.size = n + Header
  BY <1>1, <1>2 DEF Flow, ReaderKnows
<1>4. h \in Seq(AnyByte) /\ w \in Seq(AnyByte) /\ OnTheWay(s) = h \o w /\ h \o w \in Seq(AnyByte)
      /\ taken[s] \in Seq(Seq(AnyByte))
  BY InHandFacts, SideFacts DEF OnTheWay
<1>5. n \in Nat /\ Header \in Nat \ {0} /\ Len(whole) = p.size
  BY <1>1, <1>3, SideFacts, SizeFacts
<1>6. r.pc = "idle" /\ r.head = <<>>
  BY DEF Idle
<1>. HIDE DEF q, h, w, whole, r, n
<1>7. Len(h) = Len(whole) + Len(q) /\ Len(q) \in Nat /\ Len(h) \in Nat
      /\ \A k \in 1 .. Len(h) : h[k] = IF k <= Len(whole) THEN whole[k] ELSE q[k - Len(whole)]
  BY <1>1, ConcatProperties, LenProperties
<1>8. h # <<>>
  BY <1>3, <1>5, <1>7
<1>9. p \in Packets /\ p.size \in 1 .. Len(h) /\ SubSeq(h, 1, p.size) = Bytes(p)
      /\ Bytes(p) \in Seq(AnyByte)
  BY <1>3, <1>4, <1>8, FramedFirst, BytesFramed
<1>10. whole = Bytes(p) /\ q = Drop(h, p.size)
  <2>. DEFINE d == Drop(h, p.size)
              b == Bytes(p)
              z == p.size
  <2>1. z \in 0 .. Len(h) /\ Len(whole) = z
    BY <1>5, <1>9
  <2>2. b \in Seq(AnyByte) /\ Len(b) = z /\ \A j \in 1 .. z : b[j] = <<p, j>>
    BY <1>9, BytesFramed
  <2>3. \A j \in 1 .. z : h[j] = <<p, j>>
    BY <1>3, <1>4, <1>8, FramedFirst
  <2>4. d \in Seq(AnyByte) /\ Len(d) = Len(h) - z /\ \A k \in 1 .. Len(h) - z : d[k] = h[z + k]
    <3>. HIDE DEF z
    <3>. QED BY <1>4, <2>1, DropFacts DEF z
  <2>. HIDE DEF d, b, z
  <2>5. ASSUME NEW j \in 1 .. z PROVE whole[j] = b[j]
    <3>1. j \in 1 .. Len(h) /\ j <= Len(whole)
      BY <1>7, <2>1
    <3>. QED BY <1>7, <2>2, <2>3, <3>1
  <2>6. ASSUME NEW k \in 1 .. Len(q) PROVE q[k] = d[k]
    <3>1. z + k \in 1 .. Len(h) /\ ~(z + k <= Len(whole)) /\ (z + k) - Len(whole) = k
          /\ k \in 1 .. Len(h) - z
      BY <1>7, <2>1
    <3>. QED BY <1>7, <2>4, <3>1
  <2>7. whole = b
    BY <1>1, <2>1, <2>2, <2>5, SeqEqual
  <2>8. Len(q) = Len(d)
    BY <1>7, <2>1, <2>4
  <2>9. q = d
    BY <1>1, <2>4, <2>6, <2>8, SeqEqual
  <2>. QED BY <2>7, <2>9 DEF b, d
<1>. DEFINE o == h \o w
<1>11. /\ o # <<>> /\ o[1] = h[1] /\ Framed(o) /\ OrderOf(sent[s], taken[s], o)
  <2>1. Len(o) = Len(h) + Len(w) /\ Len(w) \in Nat
        /\ \A k \in 1 .. Len(o) : o[k] = IF k <= Len(h) THEN h[k] ELSE w[k - Len(h)]
    BY <1>4, ConcatProperties, LenProperties
  <2>2. 1 \in 1 .. Len(o) /\ 1 <= Len(h)
    BY <1>7, <1>9, <2>1
  <2>3. o # <<>> /\ o[1] = h[1]
    BY <2>1, <2>2
  <2>4. Framed(o) /\ OrderOf(sent[s], taken[s], o)
    BY <1>2, <1>4, OnTheWayFramed DEF Flow
  <2>. QED BY <2>3, <2>4
<1>12. Bytes(p) \o (q \o w) = o
  <2>. DEFINE b == Bytes(p)
  <2>1. b \in Seq(AnyByte) /\ q \in Seq(AnyByte) /\ w \in Seq(AnyByte)
    BY <1>1, <1>4, <1>9
  <2>2. b \o q = h
    BY <1>1, <1>10
  <2>. HIDE DEF b
  <2>3. (b \o q) \o w = b \o (q \o w)
    BY <2>1, Associative
  <2>. QED BY <2>2, <2>3 DEF b
<1>13. Drop(o, p.size) = q \o w
  <2>. DEFINE z == p.size
              d == Drop(o, z)
              e == q \o w
              b == Bytes(p)
  <2>1. b \in Seq(AnyByte) /\ e \in Seq(AnyByte) /\ b \o e = o
        /\ Len(b) = z /\ z \in Nat
    <3>1. e \in Seq(AnyByte)
      BY <1>1, <1>4, ConcatInSeq
    <3>2. b \o e = o
      BY <1>12
    <3>. QED BY <1>5, <1>9, <1>10, <3>1, <3>2, SizeFacts
  <2>. HIDE DEF b, e, z
  <2>2. Len(o) = z + Len(e) /\ Len(e) \in Nat /\ o \in Seq(AnyByte)
        /\ \A k \in 1 .. Len(o) : o[k] = IF k <= z THEN b[k] ELSE e[k - z]
    <3>1. Len(b \o e) = Len(b) + Len(e)
          /\ \A k \in 1 .. Len(b \o e) : (b \o e)[k] = IF k <= Len(b) THEN b[k] ELSE e[k - Len(b)]
      BY <2>1, ConcatProperties
    <3>. HIDE DEF o
    <3>. QED BY <2>1, <3>1, <1>4, LenProperties DEF o
  <2>. HIDE DEF o
  <2>3. z \in 0 .. Len(o)
    BY <2>1, <2>2
  <2>4. d \in Seq(AnyByte) /\ Len(d) = Len(o) - z /\ \A k \in 1 .. Len(o) - z : d[k] = o[z + k]
    BY <2>2, <2>3, DropFacts
  <2>. HIDE DEF d
  <2>5. Len(d) = Len(e)
    BY <2>1, <2>2, <2>4
  <2>6. ASSUME NEW k \in 1 .. Len(e) PROVE d[k] = e[k]
    <3>1. z + k \in 1 .. Len(o) /\ ~(z + k <= z) /\ (z + k) - z = k /\ k \in 1 .. Len(o) - z
      BY <2>1, <2>2
    <3>. QED BY <2>2, <2>4, <3>1
  <2>7. d = e
    BY <2>1, <2>4, <2>5, <2>6, SeqEqual
  <2>. QED BY <2>7 DEF d, e, z
<1>14. OrderOf(sent[s], Append(taken[s], Bytes(p)), q \o w)
  <2>1. o \in Seq(AnyByte) /\ o[1][1] = p
    BY <1>4, <1>11 DEF p
  <2>. HIDE DEF o, p
  <2>2. OrderOf(sent[s], Append(taken[s], Bytes(o[1][1])), Drop(o, o[1][1].size))
    BY <1>4, <1>11, <2>1, OrderTake
  <2>. QED BY <1>13, <2>1, <2>2
<1>15. taken' = [taken EXCEPT ![s] = Append(taken[s], Bytes(p))]
  BY <1>1, <1>10
<1>16. taken'[s] = Append(taken[s], Bytes(p)) /\ \A x \in Sides \ {s} : taken'[x] = taken[x]
  BY <1>15 DEF TypeInv, Takings
<1>17. Framed(q)
  BY <1>3, <1>4, <1>8, <1>10, FramedRest
<1>18. q = r.head \o q
  BY <1>1, <1>6, ConcatEmptySeq
<1>19. FlowInv'
  <2>1. /\ r.pc # "undefined" /\ (r.pc = "body" => r.uLength + Header = q[1][1].size)
        /\ OrderOf(sent[s], taken'[s], q \o wire[s])
    BY <1>6, <1>14, <1>16 DEF w
  <2>. HIDE DEF p, o
  <2>. QED BY <1>1, <1>16, <1>17, <1>18, <2>1, ReadFlow
<1>20. OnTheWay(s)' = q \o w
  <2>1. reader'[s] = r /\ queue'[s] = q /\ wire'[s] = w
    BY <1>1 DEF Reads, TypeInv, Readers, Incoming, w
  <2>2. InHand(s)' = q
    BY <1>18, <2>1 DEF InHand
  <2>. QED BY <2>1, <2>2 DEF OnTheWay
<1>21. OnTheWay(s)[1][1] = p
  BY <1>4, <1>11
<1>22. q \o w \in Seq(AnyByte)
  BY <1>1, <1>4, ConcatInSeq
<1>. HIDE DEF p, o
<1>. QED BY <1>4, <1>9, <1>11, <1>12, <1>15, <1>19, <1>20, <1>21, <1>22 DEF o

(* A body is never short, for packets arrive whole. *)
LEMMA NoShortBody ==
    ASSUME TypeInv, NEW s \in Sides, Flow(s)
    PROVE  ~ShortBody(s)
<1>. SUFFICES ASSUME ShortBody(s) PROVE FALSE
  OBVIOUS
<1>. DEFINE h == InHand(s)
<1>1. reader[s].pc = "body" /\ Len(queue[s]) < reader[s].uLength
  BY DEF ShortBody
<1>2. h \in Seq(AnyByte) /\ Framed(h) /\ reader[s].uLength + Header = h[1][1].size
      /\ Len(h) = Header + Len(queue[s]) /\ Header \in Nat \ {0}
      /\ Len(queue[s]) \in Nat /\ reader[s].uLength \in Nat
  BY <1>1, InHandFacts, SideFacts, SizeFacts DEF Flow, ReaderKnows, ReaderOk
<1>. HIDE DEF h
<1>3. h # <<>>
  BY <1>2
<1>4. h[1][1].size \in 1 .. Len(h)
  BY <1>2, <1>3, FramedFirst
<1>. QED BY <1>1, <1>2, <1>4

------------------------------------------------------------------------------
(* Who was sent what.  No packet is posted to a side twice, a call is one
   that the client made, and an answer is to a call the server has taken and
   counted as answered. *)
Posted(s) == ToSet(sent[s]) \union {w.packet : w \in {v \in writers : v.to = s}}

Distinct(z) == \A i, j \in DOMAIN z : z[i].id = z[j].id => i = j

Once ==
    /\ \A s \in Sides : Distinct(sent[s])
    /\ \A w \in writers : \A i \in DOMAIN sent[w.to] : sent[w.to][i].id # w.packet.id
    /\ \A v, w \in writers : (v.to = w.to /\ v.packet.id = w.packet.id) => v = w

Calls == \A p \in Posted("server") : p.id \in DOMAIN called /\ called[p.id] = p

Answered == \A p \in Posted("client") : \E i \in 1 .. answered : taken["server"][i][1][1].id = p.id

WholeInv == network = "whole" => FlowInv /\ Once /\ Calls /\ Answered

LEMMA DistinctAppend ==
    ASSUME NEW z \in Seq(Packets), NEW p \in Packets, Distinct(z), \A i \in DOMAIN z : z[i].id # p.id
    PROVE  Distinct(Append(z, p))
<1>. DEFINE y == Append(z, p)
<1>1. /\ Len(z) \in Nat /\ DOMAIN z = 1 .. Len(z) /\ DOMAIN y = 1 .. Len(z) + 1
      /\ y[Len(z) + 1] = p /\ \A i \in 1 .. Len(z) : y[i] = z[i]
  BY AppendProperties, LenProperties
<1>. HIDE DEF y
<1>2. \A i \in DOMAIN y : (i \in DOMAIN z /\ y[i] = z[i]) \/ (i = Len(z) + 1 /\ y[i] = p)
  BY <1>1
<1>3. Distinct(y)
  BY <1>2 DEF Distinct
<1>. QED BY <1>3 DEF y

LEMMA SendOnce ==
    ASSUME TypeInv, Once, NEW to \in Sides, NEW p \in Packets, Send(to, p), writers' \subseteq writers,
           \A i \in DOMAIN sent[to] : sent[to][i].id # p.id,
           \A w \in writers' : w.to = to => w.packet.id # p.id
    PROVE  Once'
<1>1. sent[to] \in Seq(Packets)
  BY SideFacts
<1>. DEFINE y == Append(sent[to], p)
<1>2. sent' = [sent EXCEPT ![to] = y] /\ sent \in [Sides -> Seq(Packets)]
  BY DEF Send, TypeInv, Outgoing
<1>3. Distinct(y)
  BY <1>1, DistinctAppend DEF Once
<1>4. \A i \in DOMAIN y : y[i] = p \/ (i \in DOMAIN sent[to] /\ y[i] = sent[to][i])
  BY <1>1, AppendProperties, LenProperties
<1>. HIDE DEF y
<1>5. \A s \in Sides : Distinct(sent'[s])
  BY <1>2, <1>3 DEF Once
<1>6. ASSUME NEW w \in writers', NEW i \in DOMAIN sent'[w.to]
      PROVE  sent'[w.to][i].id # w.packet.id
  <2>1. w \in writers /\ w.to \in Sides
    BY DEF TypeInv, Outgoing
  <2>2. CASE w.to = to
    BY <1>2, <1>4, <2>1, <2>2 DEF Once
  <2>3. CASE w.to # to
    BY <1>2, <2>1, <2>3 DEF Once
  <2>. QED BY <2>2, <2>3
<1>7. \A v, w \in writers' : (v.to = w.to /\ v.packet.id = w.packet.id) => v = w
  BY DEF Once
<1>. QED BY <1>5, <1>6, <1>7 DEF Once

(* A packet whose number is new to a side is written to it. *)
LEMMA WriteNew ==
    ASSUME TypeInv, FlowInv, Once, NEW from \in Sides, NEW to \in Sides, to = Peer(from),
           NEW cb, NEW p \in Packets, Write(from, cb, p),
           \A x \in Posted(to) : x.id # p.id, UNCHANGED <<reader, queue, taken>>
    PROVE  /\ FlowInv' /\ Once'
           /\ \A s \in Sides : Posted(s)' = IF s = to THEN Posted(s) \union {p} ELSE Posted(s)
<1>1. \A i \in DOMAIN sent[to] : sent[to][i].id # p.id
  BY DEF Posted, ToSet
<1>2. \A w \in writers : w.to = to => w.packet.id # p.id
  BY DEF Posted
<1>3. p \notin ToSet(sent[to])
  BY DEF Posted
<1>4. CASE polling /\ cb # "none"
  <2>. DEFINE new == [to |-> to, packet |-> p]
  <2>1. writers' = writers \union {new} /\ UNCHANGED <<wire, sent>>
    BY <1>4 DEF Write
  <2>2. new.to = to /\ new.packet = p
    OBVIOUS
  <2>. HIDE DEF new
  <2>3. FlowInv'
    <3>1. ASSUME NEW s \in Sides PROVE Flow(s)'
      <4>1. Flow(s) /\ UNCHANGED <<reader[s], queue[s], wire[s], sent[s], taken[s]>>
        BY <2>1 DEF FlowInv
      <4>. QED BY <4>1, FlowKept
    <3>. QED BY <3>1 DEF FlowInv
  <2>4. Once'
    <3>1. \A s \in Sides : Distinct(sent'[s])
      BY <2>1 DEF Once
    <3>2. \A w \in writers' : \A i \in DOMAIN sent'[w.to] : sent'[w.to][i].id # w.packet.id
      BY <1>1, <2>1, <2>2 DEF Once
    <3>3. \A v, w \in writers' : (v.to = w.to /\ v.packet.id = w.packet.id) => v = w
      BY <1>2, <2>1, <2>2 DEF Once
    <3>. QED BY <3>1, <3>2, <3>3 DEF Once
  <2>5. \A s \in Sides : Posted(s)' = IF s = to THEN Posted(s) \union {p} ELSE Posted(s)
    <3>1. ASSUME NEW s \in Sides
          PROVE  {w.packet : w \in {v \in writers' : v.to = s}}
                   = {w.packet : w \in {v \in writers : v.to = s}} \union (IF s = to THEN {p} ELSE {})
      BY <2>1, <2>2
    <3>2. \A s \in Sides : sent'[s] = sent[s]
      BY <2>1
    <3>. QED BY <3>1, <3>2 DEF Posted
  <2>. QED BY <2>3, <2>4, <2>5
<1>5. CASE ~(polling /\ cb # "none")
  <2>1. Send(to, p) /\ writers' = writers
    BY <1>5 DEF Write
  <2>2. FlowInv'
    BY <1>3, <2>1, SendFlow
  <2>3. Once'
    BY <1>1, <1>2, <2>1, SendOnce
  <2>4. \A s \in Sides : ToSet(sent'[s]) = IF s = to THEN ToSet(sent[s]) \union {p} ELSE ToSet(sent[s])
    <3>1. ToSet(Append(sent[to], p)) = ToSet(sent[to]) \union {p}
      <4>1. sent[to] \in Seq(Packets)
        BY SideFacts
      <4>. QED BY <4>1, SetOfAppend
    <3>2. sent' = [sent EXCEPT ![to] = Append(sent[to], p)] /\ sent \in [Sides -> Seq(Packets)]
      BY <2>1 DEF Send, TypeInv, Outgoing
    <3>. QED BY <3>1, <3>2
  <2>5. \A s \in Sides : Posted(s)' = IF s = to THEN Posted(s) \union {p} ELSE Posted(s)
    BY <2>1, <2>4 DEF Posted
  <2>. QED BY <2>2, <2>3, <2>5
<1>. QED BY <1>4, <1>5

LEMMA SideNames == /\ "client" \in Sides /\ "server" \in Sides /\ "client" # "server"
                   /\ Peer("client") = "server" /\ Peer("server") = "client"
                   /\ \A s \in Sides : s = "client" \/ s = "server"
BY DEF Sides, Peer

(* A call is numbered behind all that were made. *)
LEMMA CallWhole ==
    ASSUME TypeInv, WholeInv, network = "whole", NEW size \in Sizes, NEW cb \in {"none", "passed"},
           RemoteProcedure(size, cb)
    PROVE  /\ FlowInv' /\ Once' /\ Calls' /\ Answered'
           /\ Posted("client")' = Posted("client")
           /\ \A i \in DOMAIN called : i \in DOMAIN called' /\ called'[i] = called[i]
<1>. DEFINE p == [id |-> Len(called) + 1, size |-> size, cookie |-> NextSequence]
            f == IF cb # "none" THEN cb ELSE callback["client"]
<1>1. Cookies \in Nat \ {0} /\ sequence \in Nat /\ Len(called) \in Nat /\ MaxCalls \in Nat
      /\ called \in Seq(Packets)
  BY CallAssumption, LenProperties DEF TypeInv, Counters
<1>2. Len(called) + 1 \in 1 .. MaxCalls /\ NextSequence \in 0 .. Cookies - 1
  BY <1>1 DEF RemoteProcedure, NextSequence
<1>3. p \in Packets /\ p.id = Len(called) + 1
  BY <1>2 DEF Packets
<1>4. /\ called' = Append(called, p) /\ Write("client", f, p)
      /\ UNCHANGED <<reader, queue, taken, answered>>
  BY DEF RemoteProcedure
<1>. HIDE DEF p, f
<1>5. FlowInv /\ Once /\ Calls /\ Answered
  BY DEF WholeInv
<1>6. /\ \A i \in DOMAIN called : i \in DOMAIN called' /\ called'[i] = called[i]
      /\ p.id \in DOMAIN called' /\ called'[p.id] = p
      /\ \A i \in DOMAIN called : i # p.id
  BY <1>1, <1>3, <1>4, AppendProperties, LenProperties
<1>7. \A x \in Posted("server") : x.id # p.id
  BY <1>5, <1>6 DEF Calls
<1>8. /\ FlowInv' /\ Once'
      /\ \A s \in Sides : Posted(s)' = IF s = "server" THEN Posted(s) \union {p} ELSE Posted(s)
  BY <1>3, <1>4, <1>5, <1>7, SideNames, WriteNew
<1>9. Calls'
  BY <1>5, <1>6, <1>8, SideNames DEF Calls
<1>10. Posted("client")' = Posted("client")
  BY <1>8, SideNames
<1>11. Answered'
  BY <1>4, <1>5, <1>10 DEF Answered
<1>. QED BY <1>6, <1>8, <1>9, <1>10, <1>11

(* What the server answers is the next call it took, none that came before. *)
LEMMA NextCall ==
    ASSUME TypeInv, WholeInv, network = "whole", answered < Len(taken["server"])
    PROVE  /\ answered + 1 \in DOMAIN taken["server"]
           /\ taken["server"][answered + 1][1][1] \in Posted("server")
           /\ \A i \in 1 .. answered :
                taken["server"][i][1][1].id # taken["server"][answered + 1][1][1].id
<1>. DEFINE t == taken["server"]
            z == sent["server"]
            n == answered + 1
<1>1. t \in Seq(Seq(AnyByte)) /\ Len(t) \in Nat /\ answered \in Nat /\ DOMAIN t = 1 .. Len(t)
  BY SideNames, SideFacts, LenProperties DEF TypeInv, Takings
<1>2. n \in DOMAIN t /\ \A i \in 1 .. answered : i \in DOMAIN t /\ i < n
  BY <1>1
<1>3. TakenInOrder(z, t) /\ Distinct(z)
  BY SideNames DEF WholeInv, FlowInv, Flow, OrderOf, Once
<1>4. t[n][1][1] \in ToSet(z)
  BY <1>2, <1>3 DEF TakenInOrder
<1>. HIDE DEF t, z, n
<1>5. ASSUME NEW i \in 1 .. answered
      PROVE  t[i][1][1].id # t[n][1][1].id
  <2>1. Before(z, t[i][1][1], t[n][1][1])
    BY <1>2, <1>3 DEF TakenInOrder
  <2>2. PICK a, b \in DOMAIN z : a < b /\ z[a] = t[i][1][1] /\ z[b] = t[n][1][1]
    BY <2>1 DEF Before
  <2>3. z \in Seq(Packets) /\ a \in Nat /\ b \in Nat
    <3>1. z \in Seq(Packets)
      BY SideNames, SideFacts DEF z
    <3>. QED BY <3>1, LenProperties
  <2>4. a # b
    BY <2>2, <2>3
  <2>. QED BY <1>3, <2>2, <2>4 DEF Distinct
<1>. QED BY <1>2, <1>4, <1>5 DEF Posted, t, z, n

LEMMA ReplyWhole ==
    ASSUME TypeInv, WholeInv, network = "whole", NEW size \in Replies, RemoteWriteReply(size)
    PROVE  /\ FlowInv' /\ Once' /\ Calls' /\ Answered'
           /\ \E p \in Packets :
                /\ Posted("client")' = Posted("client") \union {p}
                /\ p.id \in DOMAIN called
                /\ p.cookie = ReplyCookie(called[p.id].cookie, replyCookie)
                /\ replyCookie' = IF "sharedReply" \in Habits THEN p.cookie ELSE 0
<1>. DEFINE call == taken["server"][answered + 1][1][1]
            cookie == ReplyCookie(call.cookie, replyCookie)
            p == [id |-> call.id, size |-> size, cookie |-> cookie]
<1>1. answered < Len(taken["server"]) /\ Len(taken["server"]) \in Nat /\ answered \in Nat
  BY SideNames, SideFacts, LenProperties DEF RemoteWriteReply, TypeInv, Takings
<1>2. /\ answered + 1 \in DOMAIN taken["server"] /\ call \in Posted("server")
      /\ \A i \in 1 .. answered : taken["server"][i][1][1].id # call.id
  BY <1>1, NextCall
<1>3. call \in Packets
  BY <1>2, SideNames, TakenTypes
<1>4. FlowInv /\ Once /\ Calls /\ Answered
  BY DEF WholeInv
<1>5. call.id \in DOMAIN called /\ called[call.id] = call
  BY <1>2, <1>4 DEF Calls
<1>6. /\ Write("server", callback["server"], p)
      /\ replyCookie' = IF "sharedReply" \in Habits THEN cookie ELSE 0
      /\ answered' = answered + 1
      /\ UNCHANGED <<reader, queue, called, taken>>
  BY DEF RemoteWriteReply
<1>. HIDE DEF call
<1>7. call.id \in 1 .. MaxCalls /\ call.cookie \in 0 .. Cookies - 1 /\ replyCookie \in 0 .. Cookies - 1
  BY <1>3 DEF Packets, TypeInv, Counters
<1>8. cookie \in 0 .. Cookies - 1
  BY <1>7 DEF ReplyCookie
<1>9. p \in Packets /\ p.id = call.id /\ p.cookie = cookie
  BY <1>7, <1>8 DEF Packets
<1>. HIDE DEF p
<1>10. \A x \in Posted("client") : x.id # p.id
  BY <1>2, <1>4, <1>9 DEF Answered
<1>11. /\ FlowInv' /\ Once'
       /\ \A s \in Sides : Posted(s)' = IF s = "client" THEN Posted(s) \union {p} ELSE Posted(s)
  BY <1>4, <1>6, <1>9, <1>10, SideNames, WriteNew
<1>12. Posted("client")' = Posted("client") \union {p} /\ Posted("server")' = Posted("server")
  BY <1>11, SideNames
<1>13. Calls'
  BY <1>4, <1>6, <1>12 DEF Calls
<1>14. Answered'
  <2>1. \A i \in 1 .. answered : i \in 1 .. answered'
    BY <1>1, <1>6
  <2>2. answered' \in 1 .. answered' /\ taken'["server"][answered'][1][1].id = p.id
    BY <1>1, <1>6, <1>9 DEF call
  <2>3. \A x \in Posted("client") : \E i \in 1 .. answered' : taken'["server"][i][1][1].id = x.id
    BY <1>4, <1>6, <2>1 DEF Answered
  <2>. QED BY <1>12, <2>2, <2>3 DEF Answered
<1>15. p.id \in DOMAIN called /\ p.cookie = ReplyCookie(called[p.id].cookie, replyCookie)
       /\ replyCookie' = IF "sharedReply" \in Habits THEN p.cookie ELSE 0
  BY <1>5, <1>6, <1>9
<1>. QED BY <1>9, <1>11, <1>12, <1>13, <1>14, <1>15

(* A thread sends the packet that was left to it. *)
LEMMA WriterWhole ==
    ASSUME TypeInv, WholeInv, network = "whole", NEW w \in writers, WriterSends(w)
    PROVE  /\ FlowInv' /\ Once' /\ Calls' /\ Answered'
           /\ \A s \in Sides : Posted(s)' = Posted(s)
<1>1. /\ w.to \in Sides /\ w.packet \in Packets
      /\ writers' = writers \ {w} /\ Send(w.to, w.packet)
      /\ UNCHANGED <<reader, queue, called, taken, answered>>
  BY DEF WriterSends, TypeInv, Outgoing
<1>2. FlowInv /\ Once /\ Calls /\ Answered
  BY DEF WholeInv
<1>3. \A i \in DOMAIN sent[w.to] : sent[w.to][i].id # w.packet.id
  BY <1>2 DEF Once
<1>4. \A v \in writers' : v.to = w.to => v.packet.id # w.packet.id
  BY <1>1, <1>2 DEF Once
<1>5. w.packet \notin ToSet(sent[w.to])
  BY <1>3 DEF ToSet
<1>6. FlowInv'
  BY <1>1, <1>2, <1>5, SendFlow
<1>7. Once'
  BY <1>1, <1>2, <1>3, <1>4, SendOnce
<1>8. ASSUME NEW s \in Sides
      PROVE  Posted(s)' = Posted(s)
  <2>1. ToSet(Append(sent[w.to], w.packet)) = ToSet(sent[w.to]) \union {w.packet}
    <3>. DEFINE z == sent[w.to]
                p == w.packet
    <3>1. z \in Seq(Packets) /\ p \in Packets
      BY <1>1, SideFacts
    <3>. HIDE DEF z, p
    <3>2. ToSet(Append(z, p)) = ToSet(z) \union {p}
      BY <3>1, SetOfAppend
    <3>. QED BY <3>2 DEF z, p
  <2>2. sent' = [sent EXCEPT ![w.to] = Append(sent[w.to], w.packet)] /\ sent \in [Sides -> Seq(Packets)]
    BY <1>1 DEF Send, TypeInv, Outgoing
  <2>3. ToSet(sent'[s]) = ToSet(sent[s]) \union (IF s = w.to THEN {w.packet} ELSE {})
    BY <1>1, <2>1, <2>2
  <2>4. {v.packet : v \in {u \in writers : u.to = s}}
          = {v.packet : v \in {u \in writers' : u.to = s}} \union (IF s = w.to THEN {w.packet} ELSE {})
    BY <1>1
  <2>. QED BY <2>3, <2>4 DEF Posted
<1>9. Calls' /\ Answered'
  BY <1>1, <1>2, <1>8, SideNames DEF Calls, Answered
<1>. QED BY <1>6, <1>7, <1>8, <1>9

(* The steps of a read and of the network leave the post alone. *)
LEMMA PostKept ==
    ASSUME TypeInv, WholeInv, network = "whole", UNCHANGED <<sent, writers, called, answered>>,
           \A i \in 1 .. answered : taken'["server"][i] = taken["server"][i]
    PROVE  Once' /\ Calls' /\ Answered' /\ \A s \in Sides : Posted(s)' = Posted(s)
<1>1. \A s \in Sides : Posted(s)' = Posted(s)
  BY DEF Posted
<1>2. Once'
  BY DEF WholeInv, Once
<1>3. Calls'
  BY <1>1, SideNames DEF WholeInv, Calls
<1>4. Answered'
  BY <1>1, SideNames DEF WholeInv, Answered
<1>. QED BY <1>1, <1>2, <1>3, <1>4

LEMMA ReaderWhole ==
    ASSUME TypeInv, WholeInv, network = "whole", NEW s \in Sides, ReaderStep(s)
    PROVE  /\ FlowInv' /\ Once' /\ Calls' /\ Answered'
           /\ \A x \in Sides : Posted(x)' = Posted(x)
<1>1. FlowInv /\ Flow(s)
  BY DEF WholeInv, FlowInv
<1>2. FlowInv'
  BY <1>1, NoShortBody, NoDataFlow, ForgetFlow, HeaderFlow, OverrunFlow, PacketFlow DEF ReaderStep
<1>3. UNCHANGED <<sent, writers, called, answered>>
  <2>1. CASE NoData(s)
    BY <2>1 DEF NoData
  <2>2. CASE ShortHeader(s)
    BY <2>2 DEF ShortHeader
  <2>3. CASE DiscardPacket(s)
    BY <2>3 DEF DiscardPacket
  <2>4. CASE HeaderRead(s)
    BY <2>4 DEF HeaderRead
  <2>5. CASE PacketRead(s)
    BY <2>5 DEF PacketRead
  <2>6. CASE BodyOverruns(s)
    BY <2>6 DEF BodyOverruns
  <2>. QED BY <1>1, <2>1, <2>2, <2>3, <2>4, <2>5, <2>6, NoShortBody DEF ReaderStep
<1>4. \A i \in 1 .. answered : taken'["server"][i] = taken["server"][i]
  <2>1. CASE NoData(s)
    BY <2>1 DEF NoData
  <2>2. CASE ShortHeader(s)
    BY <2>2 DEF ShortHeader
  <2>3. CASE DiscardPacket(s)
    BY <2>3 DEF DiscardPacket
  <2>4. CASE HeaderRead(s)
    BY <2>4 DEF HeaderRead
  <2>5. CASE PacketRead(s)
    <3>. DEFINE t == taken[s]
                w == Whole(s)
    <3>1. w \in Seq(AnyByte) /\ taken' = [taken EXCEPT ![s] = Append(t, w)]
      BY <2>5, PacketReads
    <3>2. t \in Seq(Seq(AnyByte)) /\ Len(t) \in Nat
      BY SideFacts, LenProperties
    <3>. HIDE DEF w
    <3>3. \A i \in 1 .. Len(t) : Append(t, w)[i] = t[i]
      BY <3>1, <3>2, AppendProperties
    <3>4. answered \in 0 .. Len(taken["server"]) /\ taken \in [Sides -> Seq(Seq(AnyByte))]
      BY DEF TypeInv, Takings
    <3>5. CASE s = "server"
      <4>1. taken'["server"] = Append(t, w) /\ t = taken["server"]
        BY <3>1, <3>4, <3>5, SideNames
      <4>2. \A i \in 1 .. answered : i \in 1 .. Len(t)
        BY <3>2, <3>4, <4>1
      <4>. QED BY <3>3, <4>1, <4>2
    <3>6. CASE s # "server"
      BY <3>1, <3>4, <3>6, SideNames
    <3>. QED BY <3>5, <3>6
  <2>6. CASE BodyOverruns(s)
    BY <2>6 DEF BodyOverruns
  <2>. QED BY <1>1, <2>1, <2>2, <2>3, <2>4, <2>5, <2>6, NoShortBody DEF ReaderStep
<1>. QED BY <1>2, <1>3, <1>4, PostKept

LEMMA NetworkWhole ==
    ASSUME TypeInv, WholeInv, network = "whole",
           \/ \E s \in Sides : Arrive(s) \/ \E n \in Limits : StartRead(s, n)
           \/ Finish
           \/ UNCHANGED vars
    PROVE  /\ FlowInv' /\ Once' /\ Calls' /\ Answered'
           /\ \A x \in Sides : Posted(x)' = Posted(x)
<1>1. FlowInv
  BY DEF WholeInv
<1>2. UNCHANGED <<sent, writers, called, answered, taken>>
  BY DEF Arrive, StartRead, Finish, vars
<1>3. FlowInv'
  <2>1. CASE \E s \in Sides : Arrive(s)
    BY <1>1, <2>1, ArriveFlow
  <2>2. CASE \E s \in Sides, n \in Limits : StartRead(s, n)
    BY <1>1, <2>2, StartFlow
  <2>3. CASE Finish \/ UNCHANGED vars
    <3>1. UNCHANGED <<reader, queue, wire, sent, taken>>
      BY <2>3 DEF Finish, vars
    <3>2. ASSUME NEW s \in Sides PROVE Flow(s)'
      <4>1. Flow(s) /\ UNCHANGED <<reader[s], queue[s], wire[s], sent[s], taken[s]>>
        BY <1>1, <3>1, SMTT(60) DEF FlowInv
      <4>. QED BY <4>1, FlowKept
    <3>. QED BY <3>2 DEF FlowInv
  <2>. QED BY <2>1, <2>2, <2>3
<1>. QED BY <1>2, <1>3, PostKept

LEMMA NetworkFixed == TypeInv /\ [Next]_vars => network' = network
BY DEF Next, vars, RemoteProcedure, RemoteWriteReply, WriterSends, ReaderStep, NoData, ShortHeader,
       DiscardPacket, HeaderRead, BodyOverruns, PacketRead, ShortBody, Arrive, StartRead, Finish

LEMMA InitWhole == Init => WholeInv
<1>. SUFFICES ASSUME Init PROVE WholeInv
  OBVIOUS
<1>1. ASSUME NEW s \in Sides PROVE Flow(s)
  <2>1. reader[s] = Idle /\ queue[s] = <<>> /\ wire[s] = <<>> /\ sent[s] = <<>> /\ taken[s] = <<>>
    BY DEF Init
  <2>2. <<>> \in Seq(AnyByte)
    OBVIOUS
  <2>3. <<>> \o <<>> = <<>>
    BY <2>2, ConcatEmptySeq
  <2>4. Idle.head = <<>> /\ Idle.pc = "idle"
    BY DEF Idle
  <2>5. InHand(s) = <<>> /\ OnTheWay(s) = <<>>
    BY <2>1, <2>3, <2>4 DEF InHand, OnTheWay
  <2>6. OrderOf(<<>>, <<>>, <<>>)
    BY DEF OrderOf, OnWayInOrder, TakenInOrder, TakenFirst
  <2>7. ReaderKnows(s)
    BY <2>1, <2>4 DEF ReaderKnows
  <2>. QED BY <2>1, <2>5, <2>6, <2>7, FramedEmpty DEF Flow
<1>2. \A s \in Sides : Posted(s) = {}
  BY DEF Init, Posted, ToSet
<1>3. Once
  BY DEF Init, Once, Distinct
<1>4. Calls /\ Answered
  BY <1>2, SideNames DEF Calls, Answered
<1>. QED BY <1>1, <1>3, <1>4 DEF WholeInv, FlowInv

LEMMA NextWhole == TypeInv /\ WholeInv /\ [Next]_vars => WholeInv'
<1>. SUFFICES ASSUME TypeInv, WholeInv, [Next]_vars, network = "whole"
              PROVE  FlowInv' /\ Once' /\ Calls' /\ Answered'
  BY NetworkFixed DEF WholeInv
<1>1. CASE \E size \in Sizes, cb \in {"none", "passed"} : RemoteProcedure(size, cb)
  BY <1>1, CallWhole
<1>2. CASE \E size \in Replies : RemoteWriteReply(size)
  BY <1>2, ReplyWhole
<1>3. CASE \E w \in writers : WriterSends(w)
  BY <1>3, WriterWhole
<1>4. CASE \E s \in Sides : ReaderStep(s)
  BY <1>4, ReaderWhole
<1>5. CASE \/ \E s \in Sides : Arrive(s) \/ \E n \in Limits : StartRead(s, n)
           \/ Finish
           \/ UNCHANGED vars
  BY <1>5, NetworkWhole
<1>. QED BY <1>1, <1>2, <1>3, <1>4, <1>5 DEF Next

(* When packets arrive whole, a side reads at the beginning of a packet or at
   the end of the header it has read. *)
THEOREM WholeHolds == Spec => [](TypeInv /\ WholeInv)
<1>1. Init => TypeInv /\ WholeInv
  BY InitTypes, InitWhole
<1>2. TypeInv /\ WholeInv /\ [Next]_vars => TypeInv' /\ WholeInv'
  BY NextTypes, NextWhole
<1>. QED BY <1>1, <1>2, PTL DEF Spec

(* When packets arrive whole, what remoteReadData returns at either side are
   whole packets of those sent to it, in the order in which they were sent and
   none of them twice, whatever was discarded in between. *)
THEOREM PacketsWhole == Spec => []WholePackets
<1>1. TypeInv /\ WholeInv => WholePackets
  <2>. SUFFICES ASSUME TypeInv, WholeInv, network = "whole", NEW s \in Sides,
                       NEW out, out = [i \in DOMAIN taken[s] |-> taken[s][i][1][1]]
                PROVE  /\ IsInjective(sent[s])
                       /\ \A i \in DOMAIN out : taken[s][i] = Bytes(out[i]) /\ out[i] \in ToSet(sent[s])
                       /\ \A i, j \in DOMAIN out : i < j => SentBefore(s, out[i], out[j])
    BY DEF WholePackets
  <2>1. Distinct(sent[s]) /\ TakenInOrder(sent[s], taken[s])
    BY DEF WholeInv, FlowInv, Flow, OrderOf, Once
  <2>2. IsInjective(sent[s])
    BY <2>1 DEF Distinct, IsInjective
  <2>3. DOMAIN out = DOMAIN taken[s] /\ \A i \in DOMAIN out : out[i] = taken[s][i][1][1]
    OBVIOUS
  <2>4. \A i \in DOMAIN out : taken[s][i] = Bytes(out[i]) /\ out[i] \in ToSet(sent[s])
    BY <2>1, <2>3 DEF TakenInOrder
  <2>5. \A i, j \in DOMAIN out : i < j => SentBefore(s, out[i], out[j])
    BY <2>1, <2>3 DEF TakenInOrder, Before, SentBefore
  <2>. QED BY <2>2, <2>4, <2>5
<1>. QED BY <1>1, WholeHolds, PTL

------------------------------------------------------------------------------
(* Cookies.  A server that leaves the cookie of each reply to be filled in
   gives it the cookie of the call; a cookie of 0 says the same. *)
CookieInv ==
    network = "whole" =>
        /\ replyCookie = 0
        /\ \A p \in Posted("client") : p.id \in DOMAIN called /\ called[p.id].cookie = p.cookie

LEMMA InitCookies == Init => CookieInv
<1>. SUFFICES ASSUME Init PROVE CookieInv
  OBVIOUS
<1>1. Posted("client") = {}
  BY SideNames DEF Init, Posted, ToSet
<1>. QED BY <1>1 DEF CookieInv, Init

LEMMA NextCookies ==
    ASSUME "sharedReply" \notin Habits
    PROVE  TypeInv /\ WholeInv /\ CookieInv /\ [Next]_vars => CookieInv'
<1>. SUFFICES ASSUME TypeInv, WholeInv, CookieInv, [Next]_vars, network = "whole"
              PROVE  /\ replyCookie' = 0
                     /\ \A p \in Posted("client")' : p.id \in DOMAIN called' /\ called'[p.id].cookie = p.cookie
  BY NetworkFixed DEF CookieInv
<1>0. replyCookie = 0 /\ \A p \in Posted("client") : p.id \in DOMAIN called /\ called[p.id].cookie = p.cookie
  BY DEF CookieInv
<1>1. CASE \E size \in Sizes, cb \in {"none", "passed"} : RemoteProcedure(size, cb)
  <2>1. /\ Posted("client")' = Posted("client")
        /\ \A i \in DOMAIN called : i \in DOMAIN called' /\ called'[i] = called[i]
    BY <1>1, CallWhole
  <2>2. replyCookie' = replyCookie
    BY <1>1 DEF RemoteProcedure
  <2>. QED BY <1>0, <2>1, <2>2
<1>2. CASE \E size \in Replies : RemoteWriteReply(size)
  <2>1. \E p \in Packets :
                /\ Posted("client")' = Posted("client") \union {p}
                /\ p.id \in DOMAIN called
                /\ p.cookie = ReplyCookie(called[p.id].cookie, replyCookie)
                /\ replyCookie' = IF "sharedReply" \in Habits THEN p.cookie ELSE 0
    BY <1>2, ReplyWhole
  <2>2. called' = called
    BY <1>2 DEF RemoteWriteReply
  <2>3. \A dwSequence : ReplyCookie(dwSequence, 0) = dwSequence
    BY DEF ReplyCookie
  <2>. QED BY <1>0, <2>1, <2>2, <2>3
<1>3. CASE \E w \in writers : WriterSends(w)
  <2>1. Posted("client")' = Posted("client")
    BY <1>3, WriterWhole, SideNames
  <2>2. UNCHANGED <<called, replyCookie>>
    BY <1>3 DEF WriterSends
  <2>. QED BY <1>0, <2>1, <2>2
<1>4. CASE \E s \in Sides : ReaderStep(s)
  <2>1. Posted("client")' = Posted("client")
    BY <1>4, ReaderWhole, SideNames
  <2>2. UNCHANGED <<called, replyCookie>>
    BY <1>4 DEF ReaderStep, NoData, ShortHeader, DiscardPacket, HeaderRead, BodyOverruns, PacketRead,
                ShortBody
  <2>. QED BY <1>0, <2>1, <2>2
<1>5. CASE \/ \E s \in Sides : Arrive(s) \/ \E n \in Limits : StartRead(s, n)
           \/ Finish
           \/ UNCHANGED vars
  <2>1. Posted("client")' = Posted("client")
    BY <1>5, NetworkWhole, SideNames
  <2>2. UNCHANGED <<called, replyCookie>>
    BY <1>5 DEF Arrive, StartRead, Finish, vars
  <2>. QED BY <1>0, <2>1, <2>2
<1>. QED BY <1>1, <1>2, <1>3, <1>4, <1>5 DEF Next

(* An answer carries the cookie of the call it answers and no call is answered
   twice, when packets arrive whole and the server does not use one reply for
   several answers: whatever order threads send them in, and however often
   the counter has wrapped around. *)
THEOREM CallsAnsweredOnce ==
    ASSUME "sharedReply" \notin Habits
    PROVE  Spec => []AnswersItsCall
<1>1. Init => CookieInv
  BY InitCookies
<1>2. TypeInv /\ WholeInv /\ CookieInv /\ [Next]_vars => CookieInv'
  BY NextCookies
<1>3. Spec => [](TypeInv /\ WholeInv)
  BY WholeHolds
<1>4. TypeInv /\ WholeInv /\ CookieInv => AnswersItsCall
  <2>. SUFFICES ASSUME TypeInv, WholeInv, CookieInv, network = "whole"
                PROVE  /\ \A i \in DOMAIN sent["client"] :
                            called[sent["client"][i].id].cookie = sent["client"][i].cookie
                       /\ \A i, j \in DOMAIN sent["client"] :
                            sent["client"][i].id = sent["client"][j].id => i = j
    BY DEF AnswersItsCall
  <2>1. Distinct(sent["client"])
    BY SideNames DEF WholeInv, Once
  <2>2. \A i \in DOMAIN sent["client"] : sent["client"][i] \in Posted("client")
    BY DEF Posted, ToSet
  <2>. QED BY <2>1, <2>2 DEF CookieInv, Distinct
<1>. QED BY <1>1, <1>2, <1>3, <1>4, PTL DEF Spec

------------------------------------------------------------------------------
(* Nothing is lost while all that is sent fits what is accepted: what was
   taken and what is on its way are what was sent. *)
BytesOf(z) == [i \in DOMAIN z |-> Bytes(z[i])]
Weighs(s) == FlattenSeq(taken[s]) \o OnTheWay(s) = FlattenSeq(BytesOf(sent[s]))

(* What the struct of a side holds is its own size, or that of a packet that
   was sent no later than any on the way.  So it is not less than theirs, and
   a call that has begun accepts them all. *)
StructKnows(s) ==
    /\ ~again => wPacketSize[s] = Room
    /\ again => /\ wPacketSize[s] = Room \/ \E i \in DOMAIN sent[s] : sent[s][i].size = wPacketSize[s]
                /\ \A k \in DOMAIN OnTheWay(s) : OnTheWay(s)[k][1].size <= wPacketSize[s]
    /\ reader[s].pc = "header" => \E n \in Limits : reader[s].uLength = Accepted(wPacketSize[s], n)

Balanced(s) == Fits(s) => Weighs(s) /\ StructKnows(s)
LossInv == network = "whole" => \A s \in Sides : Balanced(s)

LEMMA BytesOfAppend ==
    ASSUME NEW z \in Seq(Packets), NEW p \in Packets
    PROVE  /\ BytesOf(z) \in Seq(Seq(AnyByte))
           /\ BytesOf(Append(z, p)) = Append(BytesOf(z), Bytes(p))
<1>. DEFINE y == Append(z, p)
            b == Bytes(p)
            n == Len(z)
            c == BytesOf(z)
            d == BytesOf(y)
<1>1. /\ n \in Nat /\ DOMAIN z = 1 .. n /\ DOMAIN y = 1 .. n + 1 /\ y \in Seq(Packets)
      /\ y[n + 1] = p /\ \A i \in 1 .. n : y[i] = z[i]
  BY AppendProperties, LenProperties
<1>2. b \in Seq(AnyByte)
  BY BytesFramed
<1>3. \A i \in 1 .. n + 1 : y[i] \in Packets
  BY <1>1, ElementOfSeq
<1>4. \A i \in 1 .. n + 1 : Bytes(y[i]) \in Seq(AnyByte)
  BY <1>3, BytesFramed
<1>. HIDE DEF y, b
<1>5. d = [i \in 1 .. n + 1 |-> Bytes(y[i])] /\ c = [i \in 1 .. n |-> Bytes(z[i])]
  BY <1>1 DEF BytesOf
<1>. HIDE DEF c, d, n
<1>6. \A i \in 1 .. n : i \in 1 .. n + 1 /\ Bytes(z[i]) \in Seq(AnyByte)
  BY <1>1, <1>4
<1>7. c \in Seq(Seq(AnyByte)) /\ Len(c) = n /\ \A i \in 1 .. n : c[i] = Bytes(z[i])
  <2>1. \A i \in 1 .. n : c[i] = Bytes(z[i]) /\ c[i] \in Seq(AnyByte)
    BY <1>5, <1>6
  <2>2. c \in [1 .. n -> Seq(AnyByte)]
    BY <1>5, <1>6
  <2>3. n \in Nat
    BY <1>1
  <2>. DEFINE S == Seq(AnyByte)
  <2>. HIDE DEF S
  <2>4. c \in Seq(S) /\ Len(c) = n
    <3>1. c \in [1 .. n -> S]
      BY <2>2 DEF S
    <3>. QED BY <2>3, <3>1
  <2>. QED BY <2>1, <2>4 DEF S
<1>8. d \in Seq(Seq(AnyByte)) /\ Len(d) = n + 1 /\ \A i \in 1 .. n + 1 : d[i] = Bytes(y[i])
  BY <1>1, <1>4, <1>5
<1>9. /\ Append(c, b) \in Seq(Seq(AnyByte)) /\ Len(Append(c, b)) = n + 1
      /\ \A i \in 1 .. n : Append(c, b)[i] = c[i]
      /\ Append(c, b)[n + 1] = b
  BY <1>2, <1>7, AppendProperties
<1>10. \A i \in 1 .. n + 1 : d[i] = Append(c, b)[i]
  <2>1. \A i \in 1 .. n : d[i] = Append(c, b)[i]
    BY <1>1, <1>6, <1>7, <1>8, <1>9
  <2>2. d[n + 1] = b
    <3>1. n + 1 \in 1 .. n + 1
      BY <1>1
    <3>. QED BY <1>1, <1>8, <3>1 DEF b
  <2>3. \A i \in 1 .. n + 1 : i \in 1 .. n \/ i = n + 1
    BY <1>1
  <2>. QED BY <1>9, <2>1, <2>2, <2>3
<1>11. d = Append(c, b)
  <2>. DEFINE e == Append(c, b)
  <2>1. e \in Seq(Seq(AnyByte)) /\ Len(e) = Len(d) /\ \A i \in 1 .. Len(d) : d[i] = e[i]
    BY <1>8, <1>9, <1>10
  <2>. HIDE DEF e
  <2>2. d = e
    BY <1>8, <2>1, SeqEqual
  <2>. QED BY <2>2 DEF e
<1>. QED BY <1>7, <1>11 DEF c, d, y, b

(* A step that neither sends nor takes keeps the balance. *)
LEMMA BalanceKept ==
    ASSUME NEW s, Balanced(s), OnTheWay(s)' = OnTheWay(s), UNCHANGED <<sent[s], taken[s], again>>,
           Fits(s) /\ StructKnows(s) => StructKnows(s)'
    PROVE  Balanced(s)'
<1>1. sent'[s] = sent[s] /\ taken'[s] = taken[s] /\ again' = again
  OBVIOUS
<1>2. Fits(s)' => Fits(s)
  BY <1>1 DEF Fits
<1>. QED BY <1>1, <1>2 DEF Balanced, Weighs

LEMMA WayKept ==
    ASSUME NEW s, UNCHANGED <<reader[s], queue[s], wire[s]>>
    PROVE  OnTheWay(s)' = OnTheWay(s)
<1>1. reader'[s] = reader[s] /\ queue'[s] = queue[s] /\ wire'[s] = wire[s]
  OBVIOUS
<1>. QED BY <1>1 DEF OnTheWay, InHand

(* What the reader knows stays, if its call and the struct stay. *)
LEMMA StructKept ==
    ASSUME NEW s, StructKnows(s), OnTheWay(s)' = OnTheWay(s),
           UNCHANGED <<sent[s], wPacketSize[s], again>>,
           reader'[s].pc = "header" => reader[s].pc = "header" /\ reader'[s].uLength = reader[s].uLength
    PROVE  StructKnows(s)'
<1>1. sent'[s] = sent[s] /\ wPacketSize'[s] = wPacketSize[s] /\ again' = again
  OBVIOUS
<1>. QED BY <1>1 DEF StructKnows

LEMMA SideKept ==
    ASSUME NEW s, Balanced(s),
           UNCHANGED <<reader[s], queue[s], wire[s], sent[s], taken[s], wPacketSize[s], again>>
    PROVE  Balanced(s)'
<1>1. OnTheWay(s)' = OnTheWay(s)
  BY WayKept
<1>2. /\ reader'[s] = reader[s] /\ sent'[s] = sent[s] /\ wPacketSize'[s] = wPacketSize[s]
      /\ again' = again
  OBVIOUS
<1>3. StructKnows(s) => StructKnows(s)'
  BY <1>1, <1>2, StructKept
<1>. QED BY <1>1, <1>3, BalanceKept

(* What is on the way was sent. *)
LEMMA WayWasSent ==
    ASSUME TypeInv, NEW s \in Sides, Flow(s), NEW k \in DOMAIN OnTheWay(s)
    PROVE  OnTheWay(s)[k][1] \in ToSet(sent[s]) /\ OnTheWay(s)[k][1].size \in Nat
<1>1. OnWayInOrder(sent[s], OnTheWay(s))
  BY DEF Flow, OrderOf
<1>2. OnTheWay(s) \in Seq(AnyByte)
  BY InHandFacts
<1>. QED BY <1>1, <1>2, ByteFacts DEF OnWayInOrder

LEMMA SendBalance ==
    ASSUME TypeInv, FlowInv, NEW to \in Sides, NEW p \in Packets, Send(to, p),
           \A s \in Sides : Balanced(s), UNCHANGED <<reader, queue, taken, wPacketSize, again>>
    PROVE  \A s \in Sides : Balanced(s)'
<1>. SUFFICES ASSUME NEW s \in Sides PROVE Balanced(s)'
  OBVIOUS
<1>1. CASE s # to
  <2>1. UNCHANGED <<reader[s], queue[s], wire[s], sent[s], taken[s], wPacketSize[s], again>>
    BY <1>1 DEF Send, TypeInv, Outgoing
  <2>. QED BY <2>1, SideKept
<1>2. CASE s = to
  <2>. DEFINE b == Bytes(p)
              z == sent[s]
              f == FlattenSeq(taken[s])
              o == OnTheWay(s)
              c == BytesOf(z)
              i == InHand(s)
              w == wire[s]
  <2>1. wire'[s] = w \o b /\ sent'[s] = Append(z, p) /\ i' = i
    BY <1>2 DEF Send, TypeInv, Outgoing, InHand
  <2>2. /\ b \in Seq(AnyByte) /\ z \in Seq(Packets) /\ taken[s] \in Seq(Seq(AnyByte))
        /\ o \in Seq(AnyByte) /\ i \in Seq(AnyByte) /\ w \in Seq(AnyByte) /\ o = i \o w
        /\ c \in Seq(Seq(AnyByte)) /\ BytesOf(Append(z, p)) = Append(c, b)
    BY InHandFacts, SideFacts, BytesFramed, BytesOfAppend DEF OnTheWay
  <2>3. f \in Seq(AnyByte) /\ FlattenSeq(c) \in Seq(AnyByte)
    BY <2>2, FlattenInSeq
  <2>4. FlattenSeq(Append(c, b)) = FlattenSeq(c) \o b
    <3>. HIDE DEF b, c
    <3>. QED BY <2>2, FlattenAppend
  <2>5. OnTheWay(s)' = (i' \o wire'[s])
    BY DEF OnTheWay
  <2>6. /\ \A k \in DOMAIN z : k \in DOMAIN Append(z, p) /\ Append(z, p)[k] = z[k]
        /\ DOMAIN z = 1 .. Len(z) /\ DOMAIN Append(z, p) = 1 .. Len(z) + 1
        /\ Append(z, p)[Len(z) + 1] = p /\ Len(z) \in Nat
    BY <2>2, AppendProperties, LenProperties
  <2>61. Fits(s)' => Fits(s)
    BY <2>1, <2>6 DEF Fits, NoLarger
  <2>62. Fits(s)' => p.size <= Room
    <3>1. Len(z) + 1 \in DOMAIN Append(z, p)
      BY <2>6
    <3>. QED BY <2>1, <2>6, <3>1 DEF Fits
  <2>63. Fits(s)' /\ again => \A k \in DOMAIN z : p.size <= z[k].size
    <3>1. \A k \in DOMAIN z : k < Len(z) + 1 /\ Len(z) + 1 \in DOMAIN Append(z, p)
      BY <2>6
    <3>. QED BY <2>1, <2>6, <3>1 DEF Fits, NoLarger
  <2>7. taken'[s] = taken[s]
    OBVIOUS
  <2>. HIDE DEF b, f, o, c, i, w
  <2>8. i \o (w \o b) = o \o b /\ f \o (o \o b) = (f \o o) \o b
    <3>1. (i \o w) \o b = i \o (w \o b)
      BY <2>2, Associative, SMTT(60)
    <3>2. f \in Seq(AnyByte) /\ o \in Seq(AnyByte) /\ b \in Seq(AnyByte)
      BY <2>2, <2>3
    <3>3. (f \o o) \o b = f \o (o \o b)
      BY <3>2, Associative
    <3>. QED BY <2>2, <3>1, <3>3
  <2>9. OnTheWay(s)' = o \o b
    BY <2>1, <2>5, <2>8
  <2>10. Fits(s) => f \o o = FlattenSeq(c) /\ StructKnows(s)
    BY DEF Balanced, Weighs, f, o, c
  <2>11. FlattenSeq(BytesOf(sent'[s])) = FlattenSeq(c) \o b
    BY <2>1, <2>2, <2>4
  <2>12. Fits(s)' => Weighs(s)'
    BY <2>61, <2>7, <2>8, <2>9, <2>10, <2>11 DEF f, Weighs
  <2>13. Fits(s)' => StructKnows(s)'
    <3>. SUFFICES ASSUME Fits(s)' PROVE StructKnows(s)'
      OBVIOUS
    <3>1. StructKnows(s) /\ wPacketSize' = wPacketSize /\ again' = again /\ reader' = reader
      BY <2>61, <2>10
    <3>2. ASSUME again, NEW k \in DOMAIN (o \o b) PROVE (o \o b)[k][1].size <= wPacketSize[s]
      <4>1. /\ Len(o) \in Nat /\ Len(b) \in Nat /\ DOMAIN o = 1 .. Len(o)
            /\ DOMAIN (o \o b) = 1 .. Len(o) + Len(b)
            /\ \A m \in 1 .. Len(o) + Len(b) : (o \o b)[m] = IF m <= Len(o) THEN o[m] ELSE b[m - Len(o)]
        BY <2>2, ConcatProperties, LenProperties
      <4>2. CASE k <= Len(o)
        <5>1. k \in DOMAIN o /\ (o \o b)[k] = o[k]
          BY <4>1, <4>2
        <5>. QED BY <3>1, <3>2, <5>1 DEF StructKnows, o
      <4>3. CASE ~(k <= Len(o))
        <5>1. k - Len(o) \in 1 .. Len(b) /\ (o \o b)[k] = b[k - Len(o)]
          BY <4>1, <4>3
        <5>2. b[k - Len(o)] = <<p, k - Len(o)>>
          BY <5>1, BytesFramed DEF b
        <5>3. p.size <= wPacketSize[s]
          BY <2>62, <2>63, <3>1, <3>2 DEF StructKnows
        <5>. QED BY <5>1, <5>2, <5>3
      <4>. QED BY <4>2, <4>3
    <3>3. again /\ wPacketSize[s] # Room => \E k \in DOMAIN sent'[s] : sent'[s][k].size = wPacketSize[s]
      BY <2>1, <2>6, <3>1 DEF StructKnows
    <3>. QED BY <2>9, <3>1, <3>2, <3>3 DEF StructKnows
  <2>. QED BY <2>12, <2>13 DEF Balanced
<1>. QED BY <1>1, <1>2

LEMMA TakeBalance ==
    ASSUME TypeInv, FlowInv, network = "whole", NEW x \in Sides, PacketRead(x),
           \A s \in Sides : Balanced(s)
    PROVE  \A s \in Sides : Balanced(s)'
<1>. SUFFICES ASSUME NEW s \in Sides PROVE Balanced(s)'
  OBVIOUS
<1>. DEFINE b == Bytes(OnTheWay(x)[1][1])
<1>1. /\ b \in Seq(AnyByte) /\ taken' = [taken EXCEPT ![x] = Append(taken[x], b)]
      /\ b \o OnTheWay(x)' = OnTheWay(x)
  BY PacketFlow
<1>2. UNCHANGED <<sent, wire, wPacketSize, again>> /\ \A y \in Sides \ {x} : reader'[y] = reader[y] /\ queue'[y] = queue[y]
  BY PacketReads DEF Reads, TypeInv, Readers, Incoming
<1>. HIDE DEF b
<1>3. CASE s # x
  <2>1. UNCHANGED <<reader[s], queue[s], wire[s], sent[s], taken[s], wPacketSize[s], again>>
    BY <1>1, <1>2, <1>3 DEF TypeInv, Takings
  <2>. QED BY <2>1, SideKept
<1>4. CASE s = x
  <2>. DEFINE t == taken[s]
              f == FlattenSeq(t)
              o == OnTheWay(s)'
  <2>1. t \in Seq(Seq(AnyByte)) /\ taken'[s] = Append(t, b) /\ sent'[s] = sent[s]
    BY <1>1, <1>2, <1>4, SideFacts DEF TypeInv, Takings
  <2>2. f \in Seq(AnyByte) /\ FlattenSeq(Append(t, b)) = f \o b
    <3>. HIDE DEF t
    <3>. QED BY <1>1, <2>1, FlattenInSeq, FlattenAppend
  <2>3. o \in Seq(AnyByte)
    BY <1>4, PacketFlow
  <2>4. b \o o = OnTheWay(s)
    BY <1>1, <1>4
  <2>. HIDE DEF t, f, o
  <2>5. (f \o b) \o o = f \o (b \o o)
    BY <1>1, <2>2, <2>3, Associative
  <2>6. Fits(s)' => Fits(s)
    BY <1>2, <2>1 DEF Fits
  <2>7. Fits(s) => f \o OnTheWay(s) = FlattenSeq(BytesOf(sent[s])) /\ StructKnows(s)
    BY DEF Balanced, Weighs, f, t
  <2>8. Fits(s)' => Weighs(s)'
    BY <2>1, <2>2, <2>4, <2>5, <2>6, <2>7 DEF Weighs, o
  <2>9. ASSUME NEW k \in DOMAIN o PROVE \E m \in DOMAIN OnTheWay(s) : OnTheWay(s)[m] = o[k]
    <3>1. /\ Len(b) \in Nat /\ Len(o) \in Nat /\ DOMAIN o = 1 .. Len(o)
          /\ DOMAIN (b \o o) = 1 .. Len(b) + Len(o)
          /\ \A m \in 1 .. Len(b) + Len(o) : (b \o o)[m] = IF m <= Len(b) THEN b[m] ELSE o[m - Len(b)]
      BY <1>1, <2>3, ConcatProperties, LenProperties
    <3>2. Len(b) + k \in 1 .. Len(b) + Len(o) /\ ~(Len(b) + k <= Len(b)) /\ (Len(b) + k) - Len(b) = k
      BY <3>1
    <3>. QED BY <2>4, <3>1, <3>2
  <2>10. reader'[s].pc = "idle"
    <3>1. reader' = [reader EXCEPT ![s] = Idle] /\ reader \in [Sides -> ReaderType]
      BY <1>4 DEF PacketRead, Return, TypeInv, Readers
    <3>2. reader'[s] = Idle
      BY <3>1
    <3>. QED BY <3>2 DEF Idle
  <2>11. Fits(s)' => StructKnows(s)'
    <3>1. sent' = sent /\ wPacketSize' = wPacketSize /\ again' = again
      BY <1>2
    <3>2. Fits(s)' => StructKnows(s)
      BY <2>6, <2>7
    <3>. QED BY <2>9, <2>10, <3>1, <3>2 DEF StructKnows, o
  <2>. QED BY <2>8, <2>11 DEF Balanced
<1>. QED BY <1>3, <1>4

(* A step of a read that moves bytes from the queue to the header. *)
LEMMA MoveWay ==
    ASSUME TypeInv, NEW x \in Sides, NEW r, NEW q, Reads(x, r, q), r.head \o q = InHand(x)
    PROVE  OnTheWay(x)' = OnTheWay(x) /\ reader'[x] = r /\ UNCHANGED <<sent, wire, again>>
<1>1. reader'[x] = r /\ queue'[x] = q /\ UNCHANGED <<sent, wire, again>>
  BY DEF Reads, TypeInv, Readers, Incoming
<1>2. InHand(x)' = InHand(x)
  BY <1>1 DEF InHand
<1>. QED BY <1>1, <1>2 DEF OnTheWay

LEMMA MoveBalance ==
    ASSUME TypeInv, NEW x \in Sides, NEW r, NEW q, Reads(x, r, q), r.head \o q = InHand(x),
           UNCHANGED taken, \A s \in Sides : Balanced(s),
           \A s \in Sides \ {x} : wPacketSize'[s] = wPacketSize[s],
           Fits(x) /\ StructKnows(x) => StructKnows(x)'
    PROVE  \A s \in Sides : Balanced(s)'
<1>. SUFFICES ASSUME NEW s \in Sides PROVE Balanced(s)'
  OBVIOUS
<1>1. CASE s = x
  <2>1. OnTheWay(s)' = OnTheWay(s) /\ UNCHANGED <<sent[s], taken[s], again>>
    BY <1>1, MoveWay
  <2>. QED BY <1>1, <2>1, BalanceKept
<1>2. CASE s # x
  <2>1. UNCHANGED <<reader[s], queue[s], wire[s], sent[s], taken[s], wPacketSize[s], again>>
    BY <1>2 DEF Reads, TypeInv, Readers, Incoming
  <2>. QED BY <2>1, SideKept
<1>. QED BY <1>1, <1>2

(* Whole packets leave no short header, and what fits is not discarded. *)
LEMMA NoShortHeader ==
    ASSUME TypeInv, NEW s \in Sides, Flow(s)
    PROVE  ~ShortHeader(s)
<1>. SUFFICES ASSUME ShortHeader(s) PROVE FALSE
  OBVIOUS
<1>. DEFINE q == queue[s]
<1>1. reader[s].pc = "header" /\ Len(q) \in 1 .. Header - 1
  BY DEF ShortHeader
<1>2. q \in Seq(AnyByte) /\ Framed(q)
  BY <1>1, InHandFacts, SideFacts DEF Flow
<1>. HIDE DEF q
<1>3. q # <<>>
  BY <1>1
<1>4. q[1][1] \in Packets /\ q[1][1].size \in 1 .. Len(q)
  BY <1>2, <1>3, FramedFirst
<1>5. q[1][1].size >= Header /\ Header \in Nat /\ q[1][1].size \in Nat
  BY <1>4, SizeFacts
<1>. QED BY <1>1, <1>4, <1>5

LEMMA NoDiscard ==
    ASSUME TypeInv, NEW s \in Sides, Flow(s), Fits(s), StructKnows(s)
    PROVE  ~DiscardPacket(s)
<1>. SUFFICES ASSUME DiscardPacket(s) PROVE FALSE
  OBVIOUS
<1>. DEFINE h == InHand(s)
            p == h[1][1]
            o == OnTheWay(s)
<1>1. PICK size \in SizesIn(HeaderOf(s)) : TooLarge(size, reader[s].uLength)
  BY DEF DiscardPacket, HeaderOf
<1>2. reader[s].pc = "header" /\ Len(queue[s]) >= Header
  BY DEF DiscardPacket
<1>3. h = queue[s] /\ h # <<>> /\ size = p.size /\ p \in Packets
  BY <1>1, <1>2, RightHeader
<1>4. reader[s].uLength \in Nat /\ p.size \in Nat /\ reader[s].uLength < p.size
  BY <1>1, <1>3, SideFacts, SizeFacts DEF TooLarge
<1>5. PICK n \in Limits : reader[s].uLength = Accepted(wPacketSize[s], n)
  BY <1>2 DEF StructKnows
<1>6. 1 \in DOMAIN o /\ o[1][1] = p
  <2>. DEFINE w == wire[s]
  <2>1. h \in Seq(AnyByte) /\ w \in Seq(AnyByte) /\ o = h \o w /\ o \in Seq(AnyByte)
    BY InHandFacts, SideFacts DEF OnTheWay
  <2>. HIDE DEF h, w, o
  <2>2. Len(h) \in Nat \ {0} /\ Len(w) \in Nat
    BY <1>3, <2>1, EmptySeq, LenProperties
  <2>3. Len(o) = Len(h) + Len(w)
        /\ \A k \in 1 .. Len(o) : o[k] = IF k <= Len(h) THEN h[k] ELSE w[k - Len(h)]
    BY <2>1, ConcatProperties
  <2>4. 1 \in 1 .. Len(o) /\ 1 <= Len(h)
    BY <2>2, <2>3
  <2>5. 1 \in DOMAIN o /\ o[1] = h[1]
    BY <2>1, <2>3, <2>4, LenProperties
  <2>. QED BY <2>5 DEF h
<1>7. p \in ToSet(sent[s])
  BY <1>6, WayWasSent
<1>. HIDE DEF p
<1>8. PICK i \in DOMAIN sent[s] : sent[s][i] = p
  BY <1>7 DEF ToSet
<1>9. p.size <= Room /\ (n # 0 => p.size <= n)
  BY <1>8 DEF Fits
<1>10. p.size <= wPacketSize[s]
  BY <1>6, <1>9 DEF StructKnows
<1>. QED BY <1>4, <1>5, <1>9, <1>10 DEF Accepted

(* The other side, and everything on the wire, are as they were. *)
LEMMA ForgetBalance ==
    ASSUME TypeInv, FlowInv, NEW x \in Sides, ShortHeader(x) \/ DiscardPacket(x),
           \A s \in Sides : Balanced(s)
    PROVE  \A s \in Sides : Balanced(s)'
<1>. SUFFICES ASSUME NEW s \in Sides PROVE Balanced(s)'
  OBVIOUS
<1>1. Reads(x, reader[x], <<>>) /\ UNCHANGED taken /\ Flow(x)
  BY ForgetReads DEF FlowInv
<1>2. CASE s # x
  <2>1. wPacketSize'[s] = wPacketSize[s]
    BY <1>2 DEF ShortHeader, DiscardPacket, LeaveSize, TypeInv, Params
  <2>2. UNCHANGED <<reader[s], queue[s], wire[s], sent[s], taken[s], wPacketSize[s], again>>
    BY <1>1, <1>2, <2>1 DEF Reads, TypeInv, Readers, Incoming
  <2>. QED BY <2>2, SideKept
<1>3. CASE s = x
  <2>1. ~Fits(s)
    BY <1>1, <1>3, NoShortHeader, NoDiscard DEF Balanced
  <2>2. sent'[s] = sent[s] /\ again' = again
    BY <1>1 DEF Reads
  <2>3. ~Fits(s)'
    BY <2>1, <2>2 DEF Fits
  <2>. QED BY <2>3 DEF Balanced
<1>. QED BY <1>2, <1>3

(* The struct holds the size of the packet whose header is taken: no packet
   behind it is larger, if none is larger than an earlier one. *)
LEMMA HeaderBalance ==
    ASSUME TypeInv, FlowInv, NEW x \in Sides, HeaderRead(x), \A s \in Sides : Balanced(s)
    PROVE  \A s \in Sides : Balanced(s)'
<1>1. PICK size \in SizesIn(HeaderOf(x)) :
            /\ reader[x].pc = "header" /\ Len(queue[x]) >= Header
            /\ LeaveSize(x, size)
            /\ Reads(x, AfterHeader(x, size), Drop(queue[x], Header))
            /\ UNCHANGED taken
  BY HeaderReads
<1>. DEFINE r == AfterHeader(x, size)
            q == Drop(queue[x], Header)
            h == InHand(x)
            p == h[1][1]
            o == OnTheWay(x)
<1>2. h = queue[x] /\ h # <<>> /\ size = p.size /\ p \in Packets /\ Flow(x)
  BY <1>1, RightHeader DEF FlowInv
<1>3. size \in Nat /\ size >= Header /\ Header \in Nat
  BY <1>2, SizeFacts
<1>4. r = [pc |-> "body", uLength |-> size - Header, head |-> HeaderOf(x)]
  BY <1>3 DEF AfterHeader
<1>5. HeaderOf(x) \o q = queue[x]
  BY <1>1, HeaderFacts
<1>6. r.pc = "body" /\ r.head \o q = h /\ Reads(x, r, q)
  BY <1>1, <1>2, <1>4, <1>5
<1>7. o' = o /\ reader'[x] = r /\ sent' = sent /\ again' = again
  <2>. HIDE DEF r, q
  <2>. QED BY <1>6, MoveWay
<1>8. /\ \A s \in Sides \ {x} : wPacketSize'[s] = wPacketSize[s]
      /\ wPacketSize'[x] = IF again THEN size ELSE wPacketSize[x]
  BY <1>1 DEF LeaveSize, TypeInv, Params
<1>9. 1 \in DOMAIN o /\ o[1] = h[1] /\ DOMAIN o = 1 .. Len(o) /\ Len(o) \in Nat
  <2>. DEFINE w == wire[x]
  <2>1. h \in Seq(AnyByte) /\ w \in Seq(AnyByte) /\ o = h \o w /\ o \in Seq(AnyByte)
    BY InHandFacts, SideFacts DEF OnTheWay
  <2>. HIDE DEF h, w, o
  <2>2. Len(h) \in Nat \ {0} /\ Len(w) \in Nat
    BY <1>2, <2>1, EmptySeq, LenProperties DEF h
  <2>3. Len(o) = Len(h) + Len(w)
        /\ \A k \in 1 .. Len(o) : o[k] = IF k <= Len(h) THEN h[k] ELSE w[k - Len(h)]
    BY <2>1, ConcatProperties
  <2>4. 1 \in 1 .. Len(o) /\ 1 <= Len(h)
    BY <2>2, <2>3
  <2>. QED BY <2>1, <2>3, <2>4, LenProperties
<1>10. ASSUME Fits(x), again, NEW k \in DOMAIN o PROVE o[k][1].size <= size
  <2>1. CASE o[k][1] = p
    BY <1>2, <1>3, <2>1
  <2>2. CASE o[k][1] # p
    <3>1. 1 < k
      BY <1>9, <2>2
    <3>2. Before(sent[x], p, o[k][1])
      BY <1>2, <1>9, <2>2, <3>1 DEF Flow, OrderOf, OnWayInOrder
    <3>. QED BY <1>2, <1>10, <3>2 DEF Fits, NoLarger, Before
  <2>. QED BY <2>1, <2>2
<1>11. \E i \in DOMAIN sent[x] : sent[x][i].size = size
  <2>1. o[1][1] \in ToSet(sent[x])
    BY <1>2, <1>9, WayWasSent
  <2>. QED BY <1>2, <1>9, <2>1 DEF ToSet
<1>12. Fits(x) /\ StructKnows(x) => StructKnows(x)'
  <2>. HIDE DEF r, o
  <2>. QED BY <1>6, <1>7, <1>8, <1>10, <1>11 DEF StructKnows, o
<1>. HIDE DEF r, q, h, o
<1>. QED BY <1>1, <1>6, <1>8, <1>12, MoveBalance DEF h

LEMMA ReaderBalance ==
    ASSUME TypeInv, FlowInv, network = "whole", NEW x \in Sides, ReaderStep(x),
           \A s \in Sides : Balanced(s)
    PROVE  \A s \in Sides : Balanced(s)'
<1>0. Flow(x)
  BY DEF FlowInv
<1>1. CASE NoData(x)
  <2>1. reader[x].pc = "header" /\ queue[x] = <<>> /\ Reads(x, Idle, queue[x]) /\ UNCHANGED taken
    BY <1>1, NoDataReads
  <2>2. InHand(x) = queue[x] /\ Idle.head = <<>> /\ Idle.pc = "idle"
    BY <2>1, InHandFacts DEF Idle
  <2>3. Idle.head \o queue[x] = InHand(x)
    <3>1. queue[x] \in Seq(AnyByte)
      BY SideFacts
    <3>2. <<>> \o queue[x] = queue[x]
      BY <3>1, ConcatEmptySeq
    <3>. QED BY <2>2, <3>2
  <2>4. wPacketSize' = wPacketSize
    BY <1>1 DEF NoData
  <2>5. OnTheWay(x)' = OnTheWay(x) /\ reader'[x] = Idle /\ UNCHANGED <<sent[x], wPacketSize[x], again>>
    BY <2>1, <2>3, <2>4, MoveWay
  <2>6. StructKnows(x) => StructKnows(x)'
    BY <2>2, <2>5, StructKept
  <2>. QED BY <2>1, <2>3, <2>4, <2>6, MoveBalance
<1>2. CASE ShortHeader(x) \/ DiscardPacket(x)
  BY <1>2, ForgetBalance
<1>3. CASE HeaderRead(x)
  BY <1>3, HeaderBalance
<1>4. CASE PacketRead(x)
  BY <1>4, TakeBalance
<1>5. CASE BodyOverruns(x)
  <2>. DEFINE r == Overrun(x)
  <2>1. r.pc = "overrun" /\ r.head \o queue[x] = InHand(x) /\ Reads(x, r, queue[x]) /\ UNCHANGED <<taken, params>>
    BY <1>5, OverrunReads DEF InHand
  <2>. HIDE DEF r
  <2>2. OnTheWay(x)' = OnTheWay(x) /\ reader'[x] = r /\ UNCHANGED <<sent[x], wPacketSize[x], again>>
    BY <2>1, MoveWay
  <2>3. StructKnows(x) => StructKnows(x)'
    BY <2>1, <2>2, StructKept
  <2>. QED BY <2>1, <2>3, MoveBalance
<1>. QED BY <1>0, <1>1, <1>2, <1>3, <1>4, <1>5, NoShortBody DEF ReaderStep

LEMMA StartBalance ==
    ASSUME TypeInv, NEW x \in Sides, NEW n \in Limits, StartRead(x, n), \A s \in Sides : Balanced(s)
    PROVE  \A s \in Sides : Balanced(s)'
<1>. DEFINE r == Begun(x, n)
            q == queue[x]
<1>1. reader' = [reader EXCEPT ![x] = r] /\ reader[x].pc = "idle"
  BY DEF StartRead, Begun
<1>2. r.head = <<>> /\ r.uLength = Accepted(wPacketSize[x], n)
  BY DEF Begun
<1>. HIDE DEF r
<1>3. q \in Seq(AnyByte) /\ InHand(x) = q
  BY <1>1, InHandFacts, SideFacts
<1>4. r.head \o q = InHand(x)
  <2>1. <<>> \o q = q
    BY <1>3, ConcatEmptySeq
  <2>. QED BY <1>2, <1>3, <2>1
<1>5. queue' = [queue EXCEPT ![x] = q]
  BY DEF StartRead, TypeInv, Incoming
<1>6. Reads(x, r, q) /\ UNCHANGED <<taken, wPacketSize>>
  BY <1>1, <1>5 DEF StartRead, Reads
<1>7. OnTheWay(x)' = OnTheWay(x) /\ reader'[x] = r /\ UNCHANGED <<sent, again>>
  BY <1>4, <1>6, MoveWay
<1>8. StructKnows(x) => StructKnows(x)'
  BY <1>2, <1>6, <1>7 DEF StructKnows
<1>. HIDE DEF q
<1>. QED BY <1>4, <1>6, <1>8, MoveBalance

LEMMA WriteBalance ==
    ASSUME TypeInv, FlowInv, NEW from \in Sides, NEW cb, NEW p \in Packets, Write(from, cb, p),
           UNCHANGED <<reader, queue, taken, wPacketSize, again>>, \A s \in Sides : Balanced(s)
    PROVE  \A s \in Sides : Balanced(s)'
<1>1. CASE polling /\ cb # "none"
  <2>. SUFFICES ASSUME NEW s \in Sides PROVE Balanced(s)'
    OBVIOUS
  <2>1. UNCHANGED <<reader[s], queue[s], wire[s], sent[s], taken[s], wPacketSize[s], again>>
    BY <1>1 DEF Write
  <2>. QED BY <2>1, SideKept
<1>2. CASE ~(polling /\ cb # "none")
  <2>1. Send(Peer(from), p) /\ Peer(from) \in Sides
    BY <1>2, SideNames DEF Write
  <2>. QED BY <2>1, SendBalance
<1>. QED BY <1>1, <1>2

LEMMA InitBalance == Init => LossInv
<1>. SUFFICES ASSUME Init, NEW s \in Sides PROVE Balanced(s)
  BY DEF LossInv
<1>1. reader[s] = Idle /\ queue[s] = <<>> /\ wire[s] = <<>> /\ sent[s] = <<>> /\ taken[s] = <<>>
  BY DEF Init
<1>2. <<>> \in Seq(AnyByte)
  OBVIOUS
<1>3. <<>> \o <<>> = <<>>
  BY <1>2, ConcatEmptySeq
<1>4. OnTheWay(s) = <<>>
  BY <1>1, <1>3 DEF OnTheWay, InHand, Idle
<1>5. BytesOf(<<>>) = <<>>
  BY DEF BytesOf
<1>6. StructKnows(s)
  BY <1>1, <1>4 DEF Init, StructKnows, Idle
<1>. QED BY <1>1, <1>3, <1>4, <1>5, <1>6, FlattenEmpty DEF Balanced, Weighs

LEMMA NextBalance == TypeInv /\ WholeInv /\ LossInv /\ [Next]_vars => LossInv'
<1>. SUFFICES ASSUME TypeInv, WholeInv, LossInv, [Next]_vars, network = "whole"
              PROVE  \A s \in Sides : Balanced(s)'
  BY NetworkFixed DEF LossInv
<1>0. FlowInv /\ \A s \in Sides : Balanced(s)
  BY DEF WholeInv, LossInv
<1>1. ASSUME NEW size \in Sizes, NEW cb \in {"none", "passed"}, RemoteProcedure(size, cb)
      PROVE  \A s \in Sides : Balanced(s)'
  <2>. DEFINE p == [id |-> Len(called) + 1, size |-> size, cookie |-> NextSequence]
              f == IF cb # "none" THEN cb ELSE callback["client"]
  <2>1. Write("client", f, p) /\ UNCHANGED <<reader, queue, taken, wPacketSize, again>> /\ called' = Append(called, p)
    BY <1>1 DEF RemoteProcedure
  <2>2. p \in Packets
    <3>1. Cookies \in Nat \ {0} /\ sequence \in Nat /\ Len(called) \in Nat /\ MaxCalls \in Nat
      BY CallAssumption, LenProperties DEF TypeInv, Counters
    <3>2. Len(called) + 1 \in 1 .. MaxCalls /\ NextSequence \in 0 .. Cookies - 1
      BY <1>1, <3>1 DEF RemoteProcedure, NextSequence
    <3>. QED BY <3>2 DEF Packets
  <2>. HIDE DEF p, f
  <2>. QED BY <1>0, <2>1, <2>2, SideNames, WriteBalance
<1>2. ASSUME NEW size \in Replies, RemoteWriteReply(size)
      PROVE  \A s \in Sides : Balanced(s)'
  <2>. DEFINE call == taken["server"][answered + 1][1][1]
              cookie == ReplyCookie(call.cookie, replyCookie)
              p == [id |-> call.id, size |-> size, cookie |-> cookie]
  <2>1. Write("server", callback["server"], p) /\ UNCHANGED <<reader, queue, taken, wPacketSize, again>>
    BY <1>2 DEF RemoteWriteReply
  <2>2. answered + 1 \in DOMAIN taken["server"]
    <3>1. answered < Len(taken["server"])
      BY <1>2 DEF RemoteWriteReply
    <3>. QED BY <3>1, NextCall
  <2>3. call \in Packets
    BY <2>2, SideNames, TakenTypes
  <2>. HIDE DEF call
  <2>4. call.id \in 1 .. MaxCalls /\ call.cookie \in 0 .. Cookies - 1 /\ replyCookie \in 0 .. Cookies - 1
    BY <2>3 DEF Packets, TypeInv, Counters
  <2>5. cookie \in 0 .. Cookies - 1
    BY <2>4 DEF ReplyCookie
  <2>6. p \in Packets
    BY <2>4, <2>5 DEF Packets
  <2>. HIDE DEF p
  <2>. QED BY <1>0, <2>1, <2>6, SideNames, WriteBalance
<1>3. ASSUME NEW w \in writers, WriterSends(w)
      PROVE  \A s \in Sides : Balanced(s)'
  <2>1. w.to \in Sides /\ w.packet \in Packets /\ Send(w.to, w.packet) /\ UNCHANGED <<reader, queue, taken, wPacketSize, again>>
    BY <1>3 DEF WriterSends, TypeInv, Outgoing
  <2>. QED BY <1>0, <2>1, SendBalance
<1>4. ASSUME NEW x \in Sides, ReaderStep(x)
      PROVE  \A s \in Sides : Balanced(s)'
  BY <1>0, <1>4, ReaderBalance
<1>5. ASSUME NEW x \in Sides, Arrive(x)
      PROVE  \A s \in Sides : Balanced(s)'
  <2>1. \A s \in Sides : OnTheWay(s)' = OnTheWay(s)
    BY <1>0, <1>5, ArriveFlow
  <2>2. UNCHANGED <<sent, taken, reader, wPacketSize, again>>
    BY <1>5 DEF Arrive
  <2>3. ASSUME NEW s \in Sides PROVE Balanced(s)'
    <3>1. /\ OnTheWay(s)' = OnTheWay(s) /\ Balanced(s)
          /\ UNCHANGED <<sent[s], taken[s], reader[s], wPacketSize[s], again>>
      BY <1>0, <2>1, <2>2
    <3>2. StructKnows(s) => StructKnows(s)'
      BY <3>1, StructKept
    <3>. QED BY <3>1, <3>2, BalanceKept
  <2>. QED BY <2>3
<1>6. ASSUME NEW x \in Sides, NEW n \in Limits, StartRead(x, n)
      PROVE  \A s \in Sides : Balanced(s)'
  BY <1>0, <1>6, StartBalance
<1>7. ASSUME Finish \/ UNCHANGED vars
      PROVE  \A s \in Sides : Balanced(s)'
  <2>1. UNCHANGED <<reader, queue, wire, sent, taken, wPacketSize, again>>
    BY <1>7 DEF Finish, vars
  <2>2. ASSUME NEW s \in Sides PROVE Balanced(s)'
    <3>1. /\ UNCHANGED <<reader[s], queue[s], wire[s], sent[s], taken[s], wPacketSize[s], again>>
          /\ Balanced(s)
      BY <1>0, <2>1
    <3>. QED BY <3>1, SideKept
  <2>. QED BY <2>2
<1>. QED BY <1>1, <1>2, <1>3, <1>4, <1>5, <1>6, <1>7 DEF Next

(* When packets arrive whole, fit the structs and the limits, and are not
   larger than earlier ones where a struct is passed again, no byte is lost,
   doubled or out of place: what a side took, what it has in hand and what is
   on the wire are, put together, what was sent. *)
THEOREM NothingLostOnTheWay == Spec => []NoneLost
<1>1. Init => TypeInv /\ WholeInv /\ LossInv
  BY InitTypes, InitWhole, InitBalance
<1>2. TypeInv /\ WholeInv /\ LossInv /\ [Next]_vars => TypeInv' /\ WholeInv' /\ LossInv'
  BY NextTypes, NextWhole, NextBalance
<1>3. TypeInv /\ LossInv => NoneLost
  <2>. SUFFICES ASSUME TypeInv, LossInv, NEW s \in Sides, network = "whole", Fits(s)
                PROVE  FlattenSeq(taken[s]) \o reader[s].head \o queue[s] \o wire[s]
                         = FlattenSeq([i \in DOMAIN sent[s] |-> Bytes(sent[s][i])])
    BY DEF NoneLost
  <2>. DEFINE f == FlattenSeq(taken[s])
              h == reader[s].head
              q == queue[s]
              w == wire[s]
  <2>1. f \o OnTheWay(s) = FlattenSeq(BytesOf(sent[s]))
    BY DEF LossInv, Balanced, Weighs
  <2>2. h \in Seq(AnyByte) /\ q \in Seq(AnyByte) /\ w \in Seq(AnyByte) /\ taken[s] \in Seq(Seq(AnyByte))
    BY SideFacts
  <2>3. f \in Seq(AnyByte) /\ OnTheWay(s) = (h \o q) \o w
    BY <2>2, FlattenInSeq DEF OnTheWay, InHand
  <2>. HIDE DEF f, h, q, w
  <2>4. h \o q \in Seq(AnyByte)
    BY <2>2, ConcatInSeq
  <2>5. f \o ((h \o q) \o w) = (f \o (h \o q)) \o w /\ f \o (h \o q) = (f \o h) \o q
    BY <2>2, <2>3, <2>4, Associative, ZenonT(60)
  <2>6. ((f \o h) \o q) \o w = FlattenSeq(BytesOf(sent[s]))
    BY <2>1, <2>3, <2>5
  <2>. QED BY <2>6 DEF BytesOf, f, h, q, w
<1>. QED BY <1>1, <1>2, <1>3, PTL DEF Spec

------------------------------------------------------------------------------
(* What is read into a struct.  n bytes are within the limit of the call, and
   within the room of a fresh struct. *)
Within(s, n) ==
    /\ uMaxLength[s] # 0 => n <= uMaxLength[s]
    /\ ~again => n <= Room

(* A struct that was not passed before holds its own size, and where packets
   arrive whole any struct holds the size of a packet.  What is accepted is
   within the limits, and so is what is left to read of a packet. *)
RoomOk(s) ==
    /\ ~again => wPacketSize[s] = Room
    /\ network = "whole" => wPacketSize[s] >= Header
    /\ reader[s].pc = "header" => Within(s, reader[s].uLength)
    /\ reader[s].pc = "body" => Within(s, Header + reader[s].uLength)
    /\ reader[s].pc = "overrun" => again /\ uMaxLength[s] \notin 1 .. Room
    /\ reader[s].pc = "aborted" => again /\ network # "whole"
    /\ reader[s].pc = "undefined" => network # "whole"
RoomInv == \A s \in Sides : RoomOk(s)

LEMMA ParamFacts ==
    ASSUME TypeInv, NEW s \in Sides
    PROVE  /\ uMaxLength[s] \in Nat /\ wPacketSize[s] \in Nat /\ reader[s].uLength \in Nat
           /\ Header \in Nat \ {0} /\ Room \in Nat /\ Header <= Room
BY LimitAssumption, SizeFacts, SideFacts DEF TypeInv, Params

LEMMA RoomKept ==
    ASSUME NEW s, RoomOk(s),
           UNCHANGED <<reader[s], uMaxLength[s], wPacketSize[s], again, network>>
    PROVE  RoomOk(s)'
<1>1. /\ reader'[s] = reader[s] /\ uMaxLength'[s] = uMaxLength[s]
      /\ wPacketSize'[s] = wPacketSize[s] /\ again' = again /\ network' = network
  OBVIOUS
<1>. QED BY <1>1 DEF RoomOk, Within

LEMMA InitRoom == Init => RoomInv
BY SizeFacts DEF Init, Idle, RoomInv, RoomOk

(* A read is of one side. *)
LEMMA OtherRoom ==
    ASSUME TypeInv, RoomInv, NEW x \in Sides, NEW s \in Sides, s # x,
           ReaderStep(x) \/ \E n \in Limits : StartRead(x, n)
    PROVE  RoomOk(s)'
<1>1. reader'[s] = reader[s] /\ again' = again /\ network' = network
  <2>1. CASE NoData(x) \/ PacketRead(x)
    BY <2>1 DEF NoData, PacketRead, GiveUp, Return, TypeInv, Readers
  <2>2. CASE ShortHeader(x) \/ DiscardPacket(x)
    BY <2>2 DEF ShortHeader, DiscardPacket
  <2>3. CASE HeaderRead(x)
    BY <2>3 DEF HeaderRead, TypeInv, Readers
  <2>4. CASE BodyOverruns(x) \/ ShortBody(x)
    BY <2>4 DEF BodyOverruns, ShortBody, TypeInv, Readers
  <2>5. CASE \E n \in Limits : StartRead(x, n)
    BY <2>5 DEF StartRead, TypeInv, Readers
  <2>. QED BY <2>1, <2>2, <2>3, <2>4, <2>5 DEF ReaderStep
<1>2. uMaxLength'[s] = uMaxLength[s] /\ wPacketSize'[s] = wPacketSize[s]
  <2>1. CASE NoData(x) \/ PacketRead(x)
    BY <2>1 DEF NoData, PacketRead, GiveUp, Return, TypeInv, Params
  <2>2. CASE ShortHeader(x) \/ DiscardPacket(x)
    BY <2>2 DEF ShortHeader, DiscardPacket, LeaveSize, TypeInv, Params
  <2>3. CASE HeaderRead(x)
    BY <2>3 DEF HeaderRead, LeaveSize, TypeInv, Params
  <2>4. CASE BodyOverruns(x) \/ ShortBody(x)
    BY <2>4 DEF BodyOverruns, ShortBody
  <2>5. CASE \E n \in Limits : StartRead(x, n)
    BY <2>5 DEF StartRead, TypeInv, Params
  <2>. QED BY <2>1, <2>2, <2>3, <2>4, <2>5 DEF ReaderStep
<1>3. RoomOk(s) /\ UNCHANGED <<reader[s], uMaxLength[s], wPacketSize[s], again, network>>
  BY <1>1, <1>2 DEF RoomInv
<1>. QED BY <1>3, RoomKept

LEMMA StartRoom ==
    ASSUME TypeInv, NEW s \in Sides, RoomOk(s), NEW n \in Limits, StartRead(s, n)
    PROVE  RoomOk(s)'
<1>0. PICK a : a = Accepted(wPacketSize[s], n)
  OBVIOUS
<1>1. n \in Nat /\ (n = 0 \/ n >= Header)
  BY LimitAssumption
<1>2. a \in Nat /\ (n # 0 => a <= n) /\ a <= wPacketSize[s] /\ (wPacketSize[s] >= Header => a >= Header)
  BY <1>0, <1>1, ParamFacts DEF Accepted
<1>3. /\ reader'[s].pc = (IF a < Header THEN "aborted" ELSE "header") /\ reader'[s].uLength = a
      /\ uMaxLength'[s] = n /\ wPacketSize'[s] = wPacketSize[s] /\ again' = again /\ network' = network
  BY <1>0 DEF StartRead, TypeInv, Readers, Params
<1>4. a < Header => again /\ network # "whole"
  BY <1>2, ParamFacts DEF RoomOk
<1>5. Within(s, a)'
  BY <1>2, <1>3, ParamFacts DEF RoomOk, Within
<1>6. /\ reader'[s].pc \in {"aborted", "header"}
      /\ reader'[s].pc = "aborted" => again /\ network # "whole"
  BY <1>3, <1>4
<1>. QED BY <1>3, <1>5, <1>6 DEF RoomOk, Within

LEMMA HeaderRoom ==
    ASSUME TypeInv, NEW s \in Sides, RoomOk(s), network = "whole" => Flow(s),
           HeaderRead(s) \/ DiscardPacket(s)
    PROVE  RoomOk(s)'
<1>1. reader[s].pc = "header" /\ Len(queue[s]) >= Header /\ again' = again /\ network' = network
      /\ uMaxLength' = uMaxLength
  BY DEF HeaderRead, DiscardPacket
<1>2. \A size \in SizesIn(HeaderOf(s)) : size \in Nat /\ (network = "whole" => size >= Header)
  <2>1. network = "whole" => \A size \in SizesIn(HeaderOf(s)) : size >= Header
    <3>. SUFFICES ASSUME network = "whole", NEW size \in SizesIn(HeaderOf(s)) PROVE size >= Header
      OBVIOUS
    <3>1. size = InHand(s)[1][1].size /\ InHand(s)[1][1] \in Packets
      BY <1>1, RightHeader
    <3>. QED BY <3>1, SizeFacts
  <2>. QED BY <1>1, <2>1, HeaderFacts
<1>3. ASSUME NEW size \in SizesIn(HeaderOf(s)), LeaveSize(s, size)
      PROVE  /\ ~again' => wPacketSize'[s] = Room
             /\ network' = "whole" => wPacketSize'[s] >= Header
  <2>1. again => wPacketSize'[s] = size
    BY <1>3 DEF LeaveSize, TypeInv, Params
  <2>2. ~again => wPacketSize'[s] = wPacketSize[s]
    BY <1>3 DEF LeaveSize
  <2>. QED BY <1>1, <1>2, <2>1, <2>2 DEF RoomOk
<1>4. CASE HeaderRead(s)
  <2>1. PICK size \in SizesIn(HeaderOf(s)) :
               /\ size <= reader[s].uLength /\ LeaveSize(s, size)
               /\ Reads(s, AfterHeader(s, size), Drop(queue[s], Header))
    BY <1>4, HeaderReads
  <2>2. reader'[s] = AfterHeader(s, size)
    BY <2>1 DEF Reads, TypeInv, Readers
  <2>3. CASE size < Header
    <3>1. reader'[s].pc = "undefined" /\ network # "whole"
      BY <1>2, <2>1, <2>2, <2>3, ParamFacts DEF AfterHeader
    <3>. QED BY <1>1, <1>3, <2>1, <3>1 DEF RoomOk
  <2>4. CASE ~(size < Header)
    <3>1. reader'[s].pc = "body" /\ reader'[s].uLength = size - Header
      BY <2>2, <2>4 DEF AfterHeader
    <3>2. size \in Nat /\ Header + (size - Header) = size
      BY <1>2, <2>1, ParamFacts
    <3>3. Within(s, reader[s].uLength)
      BY <1>1 DEF RoomOk
    <3>4. Within(s, size)'
      BY <1>1, <2>1, <3>2, <3>3, ParamFacts DEF Within
    <3>5. Within(s, Header + reader[s].uLength)'
      BY <3>1, <3>2, <3>4 DEF Within
    <3>. QED BY <1>3, <2>1, <3>1, <3>5 DEF RoomOk
  <2>. QED BY <2>3, <2>4
<1>5. CASE DiscardPacket(s)
  <2>1. PICK size \in SizesIn(HeaderOf(s)) : LeaveSize(s, size)
    BY <1>5 DEF DiscardPacket, HeaderOf
  <2>2. reader' = reader
    BY <1>5 DEF DiscardPacket
  <2>3. Within(s, reader[s].uLength)'
    BY <1>1, <2>2 DEF RoomOk, Within
  <2>. QED BY <1>1, <1>3, <2>1, <2>2, <2>3 DEF RoomOk
<1>. QED BY <1>4, <1>5

LEMMA BodyRoom ==
    ASSUME TypeInv, NEW s \in Sides, RoomOk(s), network = "whole" => Flow(s),
           NoData(s) \/ ShortHeader(s) \/ BodyOverruns(s) \/ PacketRead(s) \/ ShortBody(s)
    PROVE  RoomOk(s)'
<1>1. CASE NoData(s) \/ PacketRead(s)
  <2>1. reader'[s] = Idle /\ UNCHANGED <<wPacketSize, again, network>>
    BY <1>1 DEF NoData, PacketRead, GiveUp, Return, TypeInv, Readers
  <2>. QED BY <2>1 DEF RoomOk, Idle
<1>2. CASE ShortHeader(s)
  <2>1. network # "whole" /\ reader[s].pc = "header"
    BY <1>2, NoShortHeader DEF ShortHeader
  <2>2. UNCHANGED <<reader, uMaxLength, again, network>> /\ (~again => wPacketSize' = wPacketSize)
    BY <1>2 DEF ShortHeader, LeaveSize
  <2>. QED BY <2>1, <2>2 DEF RoomOk, Within
<1>3. CASE BodyOverruns(s)
  <2>1. /\ reader'[s].pc = "overrun" /\ reader[s].pc = "body"
        /\ UNCHANGED <<uMaxLength, wPacketSize, again, network>>
    BY <1>3, OverrunReads DEF Reads, TypeInv, Readers
  <2>2. Header + reader[s].uLength > Room
    BY <1>3 DEF BodyOverruns, Overruns
  <2>3. again /\ uMaxLength[s] \notin 1 .. Room
    BY <2>1, <2>2, ParamFacts DEF RoomOk, Within
  <2>. QED BY <2>1, <2>3 DEF RoomOk
<1>4. CASE ShortBody(s)
  <2>1. /\ reader[s].pc = "body" /\ reader'[s].pc = "header" /\ reader'[s].uLength = reader[s].uLength
        /\ UNCHANGED <<uMaxLength, wPacketSize, again, network>>
    BY <1>4 DEF ShortBody, TypeInv, Readers
  <2>2. Within(s, reader[s].uLength)
    BY <2>1, ParamFacts DEF RoomOk, Within
  <2>. QED BY <2>1, <2>2 DEF RoomOk, Within
<1>. QED BY <1>1, <1>2, <1>3, <1>4

LEMMA NextRoom == TypeInv /\ WholeInv /\ RoomInv /\ [Next]_vars => RoomInv'
<1>. SUFFICES ASSUME TypeInv, WholeInv, RoomInv, [Next]_vars, NEW s \in Sides PROVE RoomOk(s)'
  BY DEF RoomInv
<1>0. RoomOk(s) /\ (network = "whole" => Flow(s))
  BY DEF RoomInv, WholeInv, FlowInv
<1>1. CASE \E x \in Sides : ReaderStep(x)
  <2>1. CASE ReaderStep(s)
    BY <1>0, <2>1, HeaderRoom, BodyRoom DEF ReaderStep
  <2>2. CASE \E x \in Sides \ {s} : ReaderStep(x)
    BY <2>2, OtherRoom
  <2>. QED BY <1>1, <2>1, <2>2
<1>2. CASE \E x \in Sides, n \in Limits : StartRead(x, n)
  <2>1. CASE \E n \in Limits : StartRead(s, n)
    BY <1>0, <2>1, StartRoom
  <2>2. CASE \E x \in Sides \ {s}, n \in Limits : StartRead(x, n)
    BY <2>2, OtherRoom
  <2>. QED BY <1>2, <2>1, <2>2
<1>3. ASSUME UNCHANGED <<reader, uMaxLength, wPacketSize, again, network>> PROVE RoomOk(s)'
  <2>1. UNCHANGED <<reader[s], uMaxLength[s], wPacketSize[s], again, network>>
    BY <1>3
  <2>. QED BY <1>0, <2>1, RoomKept
<1>4. CASE \E size \in Sizes, cb \in {"none", "passed"} : RemoteProcedure(size, cb)
  BY <1>3, <1>4 DEF RemoteProcedure
<1>5. CASE \E size \in Replies : RemoteWriteReply(size)
  BY <1>3, <1>5 DEF RemoteWriteReply
<1>6. CASE (\E w \in writers : WriterSends(w)) \/ (\E x \in Sides : Arrive(x)) \/ Finish \/ UNCHANGED vars
  BY <1>3, <1>6 DEF WriterSends, Arrive, Finish, vars
<1>. QED BY <1>1, <1>2, <1>4, <1>5, <1>6 DEF Next

(* No call reads more than its limit into the struct, and none overwrites what
   lies behind a struct that was not passed before: what is left to read of a
   packet is bounded by what was accepted before it, although a piece of one
   may be taken for a header.  A struct passed again is overrun only by a call
   that sets no limit its room allows. *)
THEOREM PacketsFitRoom == Spec => []FitsRoom
<1>1. Init => TypeInv /\ WholeInv /\ RoomInv
  BY InitTypes, InitWhole, InitRoom
<1>2. TypeInv /\ WholeInv /\ RoomInv /\ [Next]_vars => TypeInv' /\ WholeInv' /\ RoomInv'
  BY NextTypes, NextWhole, NextRoom
<1>3. RoomInv => FitsRoom
  BY DEF RoomInv, RoomOk, Within, FitsRoom
<1>. QED BY <1>1, <1>2, <1>3, PTL DEF Spec

==============================================================================
