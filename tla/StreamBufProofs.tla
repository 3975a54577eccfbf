--------------------------- MODULE StreamBufProofs ---------------------------
(***************************************************************************)
(* Theorems about StreamBuf, for buffers of every size and for as many      *)
(* bytes as the program and its peer exchange.                              *)
(***************************************************************************)
EXTENDS StreamBuf, SequenceLemmas

IOStates == SUBSET {"eof", "fail", "bad"}
Statuses == {"OK", "NODATA", "FAILED"}

------------------------------------------------------------------------------
(* Type correctness. *)

(* The sequences of this module are sequences of bytes. *)
LEMMA Reassociate ==
    ASSUME NEW s \in Seq(Nat), NEW t \in Seq(Nat), NEW u \in Seq(Nat)
    PROVE  (s \o t) \o u = s \o (t \o u)
BY ConcatAssociative, SMTT(60)

LEMMA AppendBehind ==
    \A s, t \in Seq(Nat) : \A e \in Nat : s \o Append(t, e) = Append(s \o t, e)
BY ConcatAppend, SMTT(60)

LEMMA PrefixTyped ==
    ASSUME NEW s \in Seq(Nat), NEW n \in Int, n <= Len(s)
    PROVE  /\ SubSeq(s, 1, n) \in Seq(Nat)
           /\ n >= 0 => Len(SubSeq(s, 1, n)) = n
BY PrefixInSeq

LEMMA SuffixTyped ==
    ASSUME NEW s \in Seq(Nat), NEW n \in Nat
    PROVE  /\ SubSeq(s, n + 1, Len(s)) \in Seq(Nat)
           /\ n <= Len(s) => Len(SubSeq(s, n + 1, Len(s))) = Len(s) - n
BY SuffixInSeq

LEMMA BytesOfConcat ==
    ASSUME NEW s \in Seq(Nat), NEW t \in Seq(Nat)
    PROVE  ToSet(s \o t) = ToSet(s) \union ToSet(t)
BY SetOfConcat

LEMMA BytesOfAppend ==
    ASSUME NEW s \in Seq(Nat), NEW b \in Nat
    PROVE  ToSet(Append(s, b)) = ToSet(s) \union {b}
BY SetOfAppend

LEMMA SplitLast ==
    ASSUME NEW s \in Seq(Nat), s # <<>>
    PROVE  Front(s) \in Seq(Nat) /\ Last(s) \in Nat /\ Front(s) \o <<Last(s)>> = s
BY FrontAndLast

(* What a write may leave. *)
LEMMA SendTyped ==
    ASSUME TypeOK, NEW bytes \in Seq(Nat), NEW r \in SendResults(bytes)
    PROVE  /\ r.wire \in Seq(Nat)
           /\ r.ios \in IOStates
           /\ r.status \in Statuses
<1> USE DEF TypeOK, IOStates, Statuses
<1>1. CASE r = [wire |-> wire \o bytes, ios |-> ios \ {"fail"}, status |-> status]
    BY <1>1, ConcatProperties
<1>2. CASE r = [wire |-> wire, ios |-> ios \union {"fail"}, status |-> "FAILED"]
    BY <1>2
<1>3. CASE \E n \in Short(bytes) :
              r = [wire |-> wire \o SubSeq(bytes, 1, n), ios |-> ios \ {"fail"}, status |-> status]
  <2>1. PICK n \in Short(bytes) :
            r = [wire |-> wire \o SubSeq(bytes, 1, n), ios |-> ios \ {"fail"}, status |-> status]
      BY <1>3
  <2>2. n \in Int /\ n <= Len(bytes)
      BY LenProperties DEF Short
  <2>3. SubSeq(bytes, 1, n) \in Seq(Nat)
      BY <2>2, PrefixTyped
  <2>4. QED
      BY <2>1, <2>3, ConcatProperties
<1>4. QED
    BY <1>1, <1>2, <1>3 DEF SendResults

(* What a read may return. *)
LEMMA ReceiveTyped ==
    ASSUME TypeOK, NEW n \in Nat, NEW r \in ReceiveResults(n)
    PROVE  /\ r.bytes \in Seq(Nat) /\ Len(r.bytes) <= n
           /\ Len(r.bytes) \in Nat /\ Len(r.bytes) <= Len(queue)
           /\ r.decrypted \in 0 .. Len(queue) - Len(r.bytes)
           /\ r.decrypted > 0 => secure
           /\ r.ios \in IOStates
           /\ r.status \in Statuses
<1>0. Len(queue) \in Nat
    BY LenProperties DEF TypeOK
<1> USE DEF TypeOK, IOStates, Statuses
<1>1. CASE r \in Data(n)
  <2>1. CASE ~secure
    <3>1. PICK k \in 1 .. Smaller(n, Len(queue)) :
              r = [bytes |-> SubSeq(queue, 1, k), decrypted |-> 0, ios |-> {}, status |-> "OK"]
        BY <1>1, <2>1 DEF Data, PlainData
    <3>2. k \in Nat /\ k <= Len(queue) /\ k <= n
        BY <1>0, <3>1 DEF Smaller
    <3>3. SubSeq(queue, 1, k) \in Seq(Nat) /\ Len(SubSeq(queue, 1, k)) = k
        BY <3>2, PrefixTyped
    <3>4. QED
        BY <1>0, <3>1, <3>2, <3>3
  <2>2. CASE secure
    <3>1. PICK m \in Records : \E k \in 1 .. Smaller(n, m) :
              r = [bytes |-> SubSeq(queue, 1, k), decrypted |-> m - k, ios |-> {}, status |-> "OK"]
        BY <1>1, <2>2 DEF Data, SecureData
    <3>2. m \in Nat /\ m <= Len(queue)
        BY <1>0 DEF Records
    <3>3. PICK k \in 1 .. Smaller(n, m) :
              r = [bytes |-> SubSeq(queue, 1, k), decrypted |-> m - k, ios |-> {}, status |-> "OK"]
        BY <3>1
    <3>4. k \in Nat /\ k <= m /\ k <= n
        BY <3>2, <3>3 DEF Smaller
    <3>5. SubSeq(queue, 1, k) \in Seq(Nat) /\ Len(SubSeq(queue, 1, k)) = k
        BY <1>0, <3>2, <3>4, PrefixTyped
    <3>6. m - k \in 0 .. Len(queue) - k
        BY <1>0, <3>2, <3>4
    <3>7. QED
        BY <1>0, <2>2, <3>2, <3>3, <3>4, <3>5, <3>6, SMTT(60)
  <2>3. QED
      BY <2>1, <2>2
<1>2. CASE r = Nothing({"eof"}) \/ r = Nothing({"bad"})
  <2>1. PICK bits \in {{"eof"}, {"bad"}} : r = Nothing(bits)
      BY <1>2
  <2>2. r.bytes = <<>> /\ r.status = "NODATA" /\ r.ios = ios \union bits
        /\ r.decrypted = decrypted
      BY <2>1 DEF Nothing
  <2>3. Len(r.bytes) = 0 /\ r.bytes \in Seq(Nat)
      BY <2>2
  <2>4. QED
      BY <2>1, <2>2, <2>3, <1>0
<1>3. QED
    BY <1>1, <1>2 DEF ReceiveResults

LEMMA DropTyped ==
    ASSUME TypeOK, NEW n \in Nat, n <= Len(queue)
    PROVE  Drop(n) \in Seq(Nat) /\ Len(Drop(n)) = Len(queue) - n
BY SuffixTyped DEF Drop, TypeOK

LEMMA ConsumedTyped == Consumed \in Seq(Nat) /\ Len(Consumed) = InSize
BY SizeAssumption DEF Consumed, Junk

LEMMA InitTyped == Init => TypeOK
BY ConsumedTyped, SizeAssumption, EmptySeq DEF Init, TypeOK

LEMMA NextTyped == TypeOK /\ [Next]_vars => TypeOK'
<1> SUFFICES ASSUME TypeOK, [Next]_vars PROVE TypeOK'
    OBVIOUS
<1> USE DEF IOStates, Statuses
<1>1. CASE Put
  <2>1. CASE HasRoom /\ out' = Append(out, Len(accepted) + 1) /\ UNCHANGED <<wire, ios, status>>
             /\ accepted' = Append(accepted, Len(accepted) + 1)
      BY <1>1, <2>1, SizeAssumption, LenProperties, SMTT(60) DEF Put, TypeOK, HasRoom, readerVars, peerVars, setting
  <2>2. CASE \E r \in SendResults(out) :
                /\ wire' = r.wire
                /\ status' = r.status
                /\ ios' = Reported(r)
                /\ out' = IF Written(r) THEN <<Len(accepted) + 1>> ELSE out
                /\ accepted' = IF Written(r) THEN Append(accepted, Len(accepted) + 1) ELSE accepted
    <3>1. PICK r \in SendResults(out) :
                /\ wire' = r.wire
                /\ status' = r.status
                /\ ios' = Reported(r)
                /\ out' = IF Written(r) THEN <<Len(accepted) + 1>> ELSE out
                /\ accepted' = IF Written(r) THEN Append(accepted, Len(accepted) + 1) ELSE accepted
        BY <2>2
    <3>2. r.wire \in Seq(Nat) /\ r.ios \in IOStates /\ r.status \in Statuses
        BY SendTyped DEF TypeOK
    <3>3. QED
        BY <1>1, <3>1, <3>2, SizeAssumption, SMTT(60) DEF Put, TypeOK, Reported, readerVars, peerVars, setting
  <2>3. QED
      BY <1>1, <2>1, <2>2 DEF Put
<1>2. CASE Flush
  <2>1. CASE out = <<>>
      BY <1>2, <2>1 DEF Flush, TypeOK, readerVars, peerVars, setting
  <2>2. CASE out # <<>>
    <3>1. PICK r \in SendResults(out) :
              wire' = r.wire /\ status' = r.status /\ ios' = Reported(r) /\ out' = AfterSend(r)
        BY <1>2, <2>2 DEF Flush
    <3>2. r.wire \in Seq(Nat) /\ r.ios \in IOStates /\ r.status \in Statuses
        BY SendTyped DEF TypeOK
    <3>3. QED
        BY <1>2, <3>1, <3>2, SizeAssumption DEF Flush, TypeOK, Reported, AfterSend, readerVars, peerVars, setting
  <2>3. QED
      BY <2>1, <2>2
<1>3. CASE Close
  <2>0. isOpen' = FALSE /\ UNCHANGED <<regime, secure, polling, accepted, queue, decrypted, got, sent, peerOpen>>
      BY <1>3 DEF Close, peerVars, setting
  <2>1. CASE out = <<>>
      BY <1>3, <2>1 DEF Close, TypeOK, peerVars, setting
  <2>2. CASE out # <<>> /\ Good
    <3>1. PICK r \in SendResults(out) :
              wire' = r.wire /\ status' = r.status /\ ios' = r.ios /\ out' = AfterSend(r)
        BY <1>3, <2>2 DEF Close
    <3>2. r.wire \in Seq(Nat) /\ r.ios \in IOStates /\ r.status \in Statuses
        BY SendTyped DEF TypeOK
    <3>3. QED
        <4>1. UNCHANGED <<area, gnext>>
            BY <1>3, <2>2 DEF Close, Good
        <4>2. QED
          <5>1. out' = out \/ out' = <<>>
              BY <3>1 DEF AfterSend
          <5>2. out' \in Seq(Nat) /\ Len(out') <= OutSize
            <6>1. CASE out' = out
                BY <6>1 DEF TypeOK
            <6>2. CASE out' = <<>>
                BY <6>2, SizeAssumption
            <6>3. QED
                BY <5>1, <6>1, <6>2
          <5>3. wire' \in Seq(Nat) /\ ios' \in IOStates /\ status' \in Statuses
              BY <3>1, <3>2
          <5>4. QED
              BY <2>0, <4>1, <5>2, <5>3 DEF TypeOK
  <2>3. CASE out # <<>> /\ ~Good
    <3>1. out' = <<>> /\ area' = Consumed /\ gnext' = InSize /\ UNCHANGED <<wire, ios, status>>
        BY <1>3, <2>3 DEF Close, Good
    <3>2. QED
      <4>1. out' \in Seq(Nat) /\ Len(out') <= OutSize
          BY <3>1, SizeAssumption
      <4>2. area' \in Seq(Nat) /\ Len(area') <= InSize /\ gnext' \in 0 .. Len(area')
          BY <3>1, ConsumedTyped, SizeAssumption
      <4>3. QED
          BY <2>0, <3>1, <4>1, <4>2 DEF TypeOK
  <2>4. QED
      BY <2>1, <2>2, <2>3
<1>4. CASE RawWrite
  <2>1. PICK r \in SendResults(<<Len(accepted) + 1>>) :
          /\ wire' = r.wire
          /\ ios' = r.ios
          /\ status' = r.status
          /\ accepted' = IF r.wire = wire THEN accepted ELSE Append(accepted, Len(accepted) + 1)
      BY <1>4 DEF RawWrite
  <2>2. <<Len(accepted) + 1>> \in Seq(Nat)
      BY DEF TypeOK
  <2>3. r.wire \in Seq(Nat) /\ r.ios \in IOStates /\ r.status \in Statuses
      BY <2>2, SendTyped DEF TypeOK
  <2>4. QED
      BY <1>4, <2>1, <2>3 DEF RawWrite, TypeOK, readerVars, peerVars, setting
<1>5. CASE Get
  <2>1. CASE Unread # <<>>
    <3>1. gnext < Len(area)
        BY <2>1, LenProperties, SubSeqEmpty DEF Unread, TypeOK
    <3>2. Head(Unread) \in Nat
      <4>1. Unread \in Seq(Nat)
          BY SuffixTyped DEF Unread, TypeOK
      <4>2. QED
          BY <2>1, <4>1, HeadTailProperties
    <3>3. QED
        <4>1. got' = Append(got, Head(Unread)) /\ gnext' = gnext + 1
              /\ UNCHANGED <<ios, status, area, queue, decrypted>>
            BY <1>5, <2>1 DEF Get
        <4>2. got' \in Seq(Nat) /\ gnext' \in 0 .. Len(area')
            BY <3>1, <3>2, <4>1, LenProperties DEF TypeOK
        <4>3. QED
            BY <1>5, <4>1, <4>2 DEF Get, TypeOK, writerVars, peerVars, setting
  <2>2. CASE Unread = <<>>
    <3>1. PICK r \in ReceiveResults(InSize) :
                /\ status' = r.status
                /\ queue' = Drop(Len(r.bytes))
                /\ decrypted' = r.decrypted
                /\ \/ /\ r.bytes = <<>>
                      /\ ios' = r.ios \union {"eof", "fail"}
                      /\ UNCHANGED <<area, gnext, got>>
                   \/ /\ r.bytes # <<>>
                      /\ area' = r.bytes
                      /\ gnext' = AfterUflow
                      /\ \/ ~ReadsAsEof(Head(r.bytes)) /\ got' = Append(got, Head(r.bytes)) /\ ios' = r.ios
                         \/ ReadsAsEof(Head(r.bytes)) /\ got' = got /\ ios' = {"eof", "fail"}
        BY <1>5, <2>2 DEF Get
    <3>2. /\ r.bytes \in Seq(Nat) /\ Len(r.bytes) <= InSize
          /\ r.ios \in IOStates /\ r.status \in Statuses
        BY SizeAssumption, ReceiveTyped
    <3>3. queue' \in Seq(Nat) /\ decrypted' \in 0 .. Len(queue') /\ (decrypted' > 0 => secure)
      <4>1. /\ Len(r.bytes) \in Nat /\ Len(r.bytes) <= Len(queue)
            /\ r.decrypted \in 0 .. Len(queue) - Len(r.bytes) /\ (r.decrypted > 0 => secure)
          BY SizeAssumption, ReceiveTyped
      <4>2. QED
          BY <3>1, <4>1, DropTyped
    <3>4. CASE r.bytes = <<>>
        BY <1>5, <3>1, <3>2, <3>3, <3>4 DEF Get, TypeOK, writerVars, peerVars, setting
    <3>5. CASE r.bytes # <<>>
      <4>1. Head(r.bytes) \in Nat /\ Len(r.bytes) \in Nat \ {0}
          BY <3>2, <3>5, HeadTailProperties, EmptySeq
      <4>2. got' \in Seq(Nat) /\ ios' \in IOStates /\ gnext' \in 0 .. Len(area')
        <5>1. got' \in Seq(Nat) /\ ios' \in IOStates
          <6>1. got' = got \/ got' = Append(got, Head(r.bytes))
              BY <3>1, <3>5
          <6>2. ios' = r.ios \/ ios' = {"eof", "fail"}
              BY <3>1, <3>5
          <6>3. QED
            <7>1. CASE got' = got
                BY <3>2, <6>2, <7>1 DEF TypeOK
            <7>2. CASE got' = Append(got, Head(r.bytes))
                BY <3>2, <4>1, <6>2, <7>2 DEF TypeOK
            <7>3. QED
                BY <6>1, <7>1, <7>2
        <5>2. gnext' \in 0 .. Len(area')
            BY <3>1, <3>5, <4>1 DEF AfterUflow
        <5>3. QED
            BY <5>1, <5>2
      <4>3. QED
          BY <1>5, <3>1, <3>2, <3>3, <3>5, <4>2 DEF Get, TypeOK, writerVars, peerVars, setting
    <3>6. QED
        BY <3>4, <3>5
  <2>3. QED
      BY <2>1, <2>2
<1>6. CASE RawRead
  <2>1. PICK r \in ReceiveResults(1) :
          /\ status' = r.status /\ ios' = r.ios /\ queue' = Drop(Len(r.bytes))
          /\ decrypted' = r.decrypted /\ got' = got \o r.bytes
      BY <1>6 DEF RawRead
  <2>2. r.bytes \in Seq(Nat) /\ r.ios \in IOStates /\ r.status \in Statuses
      BY ReceiveTyped
  <2>3. queue' \in Seq(Nat) /\ got' \in Seq(Nat)
        /\ decrypted' \in 0 .. Len(queue') /\ (decrypted' > 0 => secure)
    <3>1. /\ Len(r.bytes) \in Nat /\ Len(r.bytes) <= Len(queue)
          /\ r.decrypted \in 0 .. Len(queue) - Len(r.bytes) /\ (r.decrypted > 0 => secure)
        BY ReceiveTyped
    <3>2. got' \in Seq(Nat)
        BY <2>1, <2>2, ConcatProperties DEF TypeOK
    <3>3. QED
        BY <2>1, <3>1, <3>2, DropTyped
  <2>4. QED
      BY <1>6, <2>1, <2>2, <2>3 DEF RawRead, TypeOK, writerVars, peerVars, setting
<1>7. CASE Unget
  <2>1. Front(got) \in Seq(Nat)
      BY PrefixTyped, LenProperties DEF Front, TypeOK
  <2>2. QED
    <3>1. got' \in Seq(Nat) /\ ios' \in IOStates /\ gnext' \in 0 .. Len(area')
        BY <1>7, <2>1, LenProperties, SMTT(60) DEF Unget, TypeOK, Good
    <3>2. QED
        BY <1>7, <3>1 DEF Unget, TypeOK, writerVars, peerVars, setting
<1>8. CASE Clear
    BY <1>8 DEF Clear, TypeOK, writerVars, readerVars, peerVars, setting
<1>9. CASE SetAsyncMode
    BY <1>9 DEF SetAsyncMode, TypeOK, writerVars, readerVars, peerVars, setting
<1>10. CASE PeerSends
    BY <1>10, LenProperties DEF PeerSends, TypeOK, writerVars, setting
<1>11. CASE PeerCloses
    BY <1>11 DEF PeerCloses, TypeOK, writerVars, readerVars, setting
<1>12. CASE UNCHANGED vars
    BY <1>12 DEF vars, TypeOK, writerVars, readerVars, peerVars, setting
<1>13. QED
    BY <1>1, <1>2, <1>3, <1>4, <1>5, <1>6, <1>7, <1>8, <1>9, <1>10, <1>11, <1>12 DEF Next

(* Neither buffer is ever overrun, and m_Status and the iostate bits stay
   within what the calls set. *)
THEOREM TypeCorrect == Spec => []TypeOK
<1>1. QED
    BY InitTyped, NextTyped, PTL DEF Spec

------------------------------------------------------------------------------
(* Order of the output, in a regime that is Reliable. *)

Extends(s, t) == \E rest \in Seq(Nat) : t = s \o rest

(* The last conjunct is the part of OutputOrder that closing leaves. *)
OutputInv == OutputOrder /\ StatusCovered /\ Extends(wire, accepted)

OutputStep == OutputInv' /\ Extends(accepted, accepted') /\ Extends(wire, wire')

LEMMA ExtendsSelf ==
    ASSUME NEW s \in Seq(Nat)
    PROVE  Extends(s, s)
BY ConcatEmptySeq, EmptySeq DEF Extends

LEMMA SendExact ==
    ASSUME Reliable, status = "OK", NEW bytes, NEW r \in SendResults(bytes)
    PROVE  \/ /\ r.wire = wire \o bytes /\ r.status = "OK" /\ r.ios = ios \ {"fail"}
              /\ Written(r)
           \/ /\ r.wire = wire /\ r.status = "FAILED" /\ r.ios = ios \union {"fail"}
              /\ ~Written(r)
<1>1. CASE r = [wire |-> wire \o bytes, ios |-> ios \ {"fail"}, status |-> status]
    BY <1>1 DEF Written
<1>2. CASE r = [wire |-> wire, ios |-> ios \union {"fail"}, status |-> "FAILED"]
    BY <1>2 DEF Written
<1>3. QED
    BY <1>1, <1>2 DEF SendResults, Reliable

(* A write of the put area on a good stream: what the three callers share. *)
LEMMA WriteMoves ==
    ASSUME TypeOK, OutputInv, Reliable, isOpen, Good, NEW r \in SendResults(out), wire' = r.wire
    PROVE  /\ wire \in Seq(Nat) /\ out \in Seq(Nat) /\ accepted \in Seq(Nat)
           /\ Written(r) => wire' = wire \o out /\ wire' = accepted /\ r.status = "OK"
           /\ ~Written(r) => wire' = wire /\ r.status = "FAILED" /\ "fail" \in r.ios
<1>1. status = "OK" /\ wire \o out = accepted
    BY DEF OutputInv, OutputOrder, StatusCovered
<1>2. QED
    BY <1>1, SendExact DEF TypeOK

LEMMA PutMoves ==
    ASSUME TypeOK, OutputInv, Reliable, Put
    PROVE  OutputStep
<1> DEFINE b == Len(accepted) + 1
<1>1. /\ isOpen /\ isOpen' /\ Good /\ status = "OK" /\ wire \o out = accepted
      /\ wire \in Seq(Nat) /\ out \in Seq(Nat) /\ accepted \in Seq(Nat)
      /\ b \in Nat /\ <<b>> \in Seq(Nat) /\ <<>> \in Seq(Nat)
  <2>1. isOpen /\ isOpen' /\ Good
      BY DEF Put
  <2>2. status = "OK" /\ wire \o out = accepted
      BY <2>1 DEF OutputInv, OutputOrder, StatusCovered
  <2>3. wire \in Seq(Nat) /\ out \in Seq(Nat) /\ accepted \in Seq(Nat)
      BY DEF TypeOK
  <2>4. b \in Nat
      BY <2>3, LenProperties
  <2>. HIDE DEF b
  <2>5. <<b>> \in Seq(Nat) /\ <<>> \in Seq(Nat)
      BY <2>4
  <2>. QED BY <2>1, <2>2, <2>3, <2>4, <2>5
<1>2. Append(accepted, b) = accepted \o <<b>> /\ Append(out, b) = out \o <<b>>
    BY <1>1, AppendIsConcat
<1> HIDE DEF b
<1>3. wire \o (out \o <<b>>) = accepted \o <<b>>
  <2> DEFINE u == <<b>>
  <2>0. wire \in Seq(Nat) /\ out \in Seq(Nat) /\ u \in Seq(Nat)
      BY <1>1
  <2> HIDE DEF u
  <2>1. (wire \o out) \o u = wire \o (out \o u)
      BY <2>0, Reassociate
  <2>2. QED
      BY <1>1, <2>1 DEF u
<1>4. CASE HasRoom /\ out' = Append(out, b) /\ accepted' = Append(accepted, b)
           /\ UNCHANGED <<wire, ios, status>>
  <2>1. OutputOrder' /\ StatusCovered'
      BY <1>1, <1>2, <1>3, <1>4 DEF OutputOrder, StatusCovered, Good
  <2>2. accepted' = accepted \o <<b>> /\ wire' = wire \o <<>>
      BY <1>1, <1>2, <1>4, ConcatEmptySeq
  <2>3. out' \in Seq(Nat) /\ accepted' = wire' \o out'
    <3>1. out \o <<b>> \in Seq(Nat)
        BY <1>1, ConcatProperties
    <3>2. QED
        BY <1>2, <1>3, <1>4, <3>1
  <2>4. QED
      BY <1>1, <2>1, <2>2, <2>3 DEF OutputStep, OutputInv, Extends
<1>5. CASE \E r \in SendResults(out) :
                /\ wire' = r.wire
                /\ status' = r.status
                /\ ios' = Reported(r)
                /\ out' = IF Written(r) THEN <<b>> ELSE out
                /\ accepted' = IF Written(r) THEN Append(accepted, b) ELSE accepted
  <2>1. PICK r \in SendResults(out) :
                /\ wire' = r.wire
                /\ status' = r.status
                /\ ios' = Reported(r)
                /\ out' = IF Written(r) THEN <<b>> ELSE out
                /\ accepted' = IF Written(r) THEN Append(accepted, b) ELSE accepted
      BY <1>5
  <2>2. CASE Written(r)
    <3>1. wire' = wire \o out /\ wire' = accepted /\ status' = "OK"
          /\ out' = <<b>> /\ accepted' = accepted \o <<b>>
        BY <1>1, <1>2, <2>1, <2>2, WriteMoves
    <3>2. QED
        BY <1>1, <3>1 DEF OutputOrder, StatusCovered, OutputStep, OutputInv, Extends
  <2>3. CASE ~Written(r)
    <3>1. wire' = wire /\ "fail" \in r.ios /\ out' = out /\ accepted' = accepted
        BY <1>1, <2>1, <2>3, WriteMoves
    <3>2. ~Good'
        BY <2>1, <2>3 DEF Reported, Good
    <3>3. OutputOrder' /\ StatusCovered'
        BY <1>1, <3>1, <3>2 DEF OutputOrder, StatusCovered
    <3>4. QED
        BY <1>1, <3>1, <3>3, ExtendsSelf DEF OutputStep, OutputInv
  <2>4. QED
      BY <2>2, <2>3
<1>6. QED
    BY <1>1, <1>4, <1>5 DEF Put, b

(* An action that leaves the output alone keeps its order if it keeps the
   status covered. *)
LEMMA OutputUntouched ==
    ASSUME TypeOK, OutputInv, StatusCovered', isOpen' => isOpen, UNCHANGED <<out, accepted, wire>>
    PROVE  OutputStep
<1>1. wire \in Seq(Nat) /\ accepted \in Seq(Nat)
    BY DEF TypeOK
<1>2. OutputOrder' /\ Extends(wire, accepted)'
    BY DEF OutputInv, OutputOrder
<1>3. QED
    BY <1>1, <1>2, ExtendsSelf DEF OutputStep, OutputInv

LEMMA FlushMoves ==
    ASSUME TypeOK, OutputInv, Reliable, Flush
    PROVE  OutputStep
<1>1. isOpen /\ isOpen' /\ Good /\ accepted' = accepted
    BY DEF Flush
<1>2. CASE out = <<>>
  <2>1. UNCHANGED <<out, accepted, wire>> /\ ~Good'
      BY <1>1, <1>2 DEF Flush, Good
  <2>2. QED
      BY <1>1, <2>1, OutputUntouched DEF StatusCovered
<1>3. CASE out # <<>>
  <2>1. PICK r \in SendResults(out) :
            wire' = r.wire /\ status' = r.status /\ ios' = Reported(r) /\ out' = AfterSend(r)
      BY <1>3 DEF Flush
  <2>2. CASE Written(r)
    <3>1. /\ wire \in Seq(Nat) /\ out \in Seq(Nat) /\ accepted \in Seq(Nat)
          /\ wire' = wire \o out /\ wire' = accepted /\ status' = "OK" /\ out' = <<>>
        BY <1>1, <2>1, <2>2, WriteMoves DEF AfterSend
    <3>2. OutputOrder' /\ StatusCovered'
        BY <1>1, <3>1, ConcatEmptySeq DEF OutputOrder, StatusCovered
    <3>3. Extends(wire, wire') /\ Extends(accepted, accepted') /\ Extends(wire', accepted')
        BY <1>1, <3>1, ExtendsSelf DEF Extends
    <3>4. QED
        BY <3>2, <3>3 DEF OutputStep, OutputInv
  <2>3. CASE ~Written(r)
    <3>1. UNCHANGED <<out, accepted, wire>>
        BY <1>1, <2>1, <2>3, WriteMoves DEF AfterSend
    <3>2. ~Good'
        BY <2>1, <2>3 DEF Reported, Good
    <3>3. QED
        BY <1>1, <3>1, <3>2, OutputUntouched DEF StatusCovered
  <2>4. QED
      BY <2>2, <2>3
<1>4. QED
    BY <1>2, <1>3

LEMMA CloseMoves ==
    ASSUME TypeOK, OutputInv, Reliable, Close
    PROVE  OutputStep
<1>1. /\ isOpen /\ isOpen' = FALSE /\ accepted' = accepted
      /\ wire \in Seq(Nat) /\ accepted \in Seq(Nat)
    BY DEF Close, TypeOK
<1>2. CASE UNCHANGED <<wire, ios, status>>
  <2>1. StatusCovered'
      BY <1>2 DEF OutputInv, StatusCovered, Good
  <2>2. OutputOrder'
      BY <1>1 DEF OutputOrder
  <2>3. Extends(wire', accepted')
      BY <1>1, <1>2 DEF OutputInv
  <2>4. QED
      BY <1>1, <1>2, <2>1, <2>2, <2>3, ExtendsSelf DEF OutputStep, OutputInv
<1>3. CASE Good /\ \E r \in SendResults(out) :
                wire' = r.wire /\ status' = r.status /\ ios' = r.ios /\ out' = AfterSend(r)
  <2>1. PICK r \in SendResults(out) :
            wire' = r.wire /\ status' = r.status /\ ios' = r.ios /\ out' = AfterSend(r)
      BY <1>3
  <2>2. OutputOrder'
      BY <1>1 DEF OutputOrder
  <2>3. CASE Written(r)
    <3>1. out \in Seq(Nat) /\ wire' = wire \o out /\ wire' = accepted /\ status' = "OK"
        BY <1>1, <1>3, <2>1, <2>3, WriteMoves
    <3>2. Extends(wire, wire') /\ Extends(accepted, accepted') /\ Extends(wire', accepted')
        BY <1>1, <3>1, ExtendsSelf DEF Extends
    <3>3. QED
        BY <2>2, <3>1, <3>2 DEF OutputStep, OutputInv, StatusCovered
  <2>4. CASE ~Written(r)
    <3>1. wire' = wire /\ "fail" \in ios'
        BY <1>1, <1>3, <2>1, <2>4, WriteMoves
    <3>2. StatusCovered'
        BY <3>1 DEF StatusCovered, Good
    <3>3. Extends(wire, wire') /\ Extends(accepted, accepted') /\ Extends(wire', accepted')
        BY <1>1, <3>1, ExtendsSelf DEF OutputInv
    <3>4. QED
        BY <2>2, <3>2, <3>3 DEF OutputStep, OutputInv
  <2>5. QED
      BY <2>3, <2>4
<1>4. QED
    BY <1>2, <1>3 DEF Close

(* A read leaves the stream good only if it leaves the status SC_OK. *)
LEMMA ReceiveCovered ==
    ASSUME NEW n, NEW r \in ReceiveResults(n)
    PROVE  r.ios = {} => r.status = "OK"
<1>1. CASE r \in Data(n)
    BY <1>1 DEF Data, PlainData, SecureData
<1>2. CASE r = Nothing({"eof"}) \/ r = Nothing({"bad"})
  <2>1. PICK bits \in {{"eof"}, {"bad"}} : r = Nothing(bits)
      BY <1>2
  <2>2. r.ios = ios \union bits /\ bits # {}
      BY <2>1 DEF Nothing
  <2>3. QED
      BY <2>2
<1>3. QED
    BY <1>1, <1>2 DEF ReceiveResults

LEMMA GetCovers == TypeOK /\ OutputInv /\ Get => StatusCovered'
<1> SUFFICES ASSUME TypeOK, OutputInv, Get PROVE StatusCovered'
    OBVIOUS
<1>1. CASE UNCHANGED <<ios, status>>
    BY <1>1 DEF OutputInv, StatusCovered, Good
<1>2. CASE \E r \in ReceiveResults(InSize) :
              status' = r.status /\ (ios' = r.ios \/ "eof" \in ios')
    BY <1>2, ReceiveCovered DEF StatusCovered, Good
<1>3. QED
    BY <1>1, <1>2 DEF Get

LEMMA NextMoves ==
    ASSUME TypeOK, OutputInv, Reliable, [Next]_vars
    PROVE  OutputStep
<1>1. CASE Put
    BY <1>1, PutMoves
<1>2. CASE Flush
    BY <1>2, FlushMoves
<1>3. CASE Close
    BY <1>3, CloseMoves
<1>4. CASE RawWrite \/ Clear
    BY <1>4 DEF RawWrite, Clear, Reliable
<1>5. CASE Get
  <2>1. UNCHANGED <<isOpen, out, accepted, wire>>
      BY <1>5 DEF Get, writerVars
  <2>2. QED
      BY <1>5, <2>1, GetCovers, OutputUntouched
<1>6. CASE RawRead
  <2>1. UNCHANGED <<isOpen, out, accepted, wire>>
      BY <1>6 DEF RawRead, writerVars
  <2>2. StatusCovered'
      BY <1>6, ReceiveCovered DEF RawRead, StatusCovered, Good
  <2>3. QED
      BY <2>1, <2>2, OutputUntouched
<1>7. CASE Unget
  <2>1. UNCHANGED <<isOpen, out, accepted, wire, status>>
      BY <1>7 DEF Unget, writerVars
  <2>2. StatusCovered'
      BY <1>7, <2>1 DEF Unget, OutputInv, StatusCovered, Good
  <2>3. QED
      BY <2>1, <2>2, OutputUntouched
<1>8. CASE SetAsyncMode \/ PeerSends \/ PeerCloses \/ UNCHANGED vars
  <2>1. UNCHANGED <<isOpen, out, accepted, wire, status, ios>>
      BY <1>8 DEF SetAsyncMode, PeerSends, PeerCloses, vars, writerVars
  <2>2. StatusCovered'
      BY <2>1 DEF OutputInv, StatusCovered, Good
  <2>3. QED
      BY <2>1, <2>2, OutputUntouched
<1>9. QED
    BY <1>1, <1>2, <1>3, <1>4, <1>5, <1>6, <1>7, <1>8 DEF Next

LEMMA SettingStays == [Next]_vars => regime' = regime
BY DEF Next, Put, Flush, Close, RawWrite, Get, RawRead, Unget, Clear, SetAsyncMode,
       PeerSends, PeerCloses, vars, setting

LEMMA OutputInit == Init => OutputInv
<1> SUFFICES ASSUME Init PROVE OutputInv
    OBVIOUS
<1>1. out = <<>> /\ wire = <<>> /\ accepted = <<>> /\ status = "OK"
    BY DEF Init
<1>2. <<>> \in Seq(Nat) /\ <<>> \o <<>> = <<>>
    BY EmptySeq, ConcatEmptySeq
<1>3. QED
    BY <1>1, <1>2 DEF OutputInv, OutputOrder, StatusCovered, Extends

LEMMA OutputInvariant == Spec => [](Reliable => OutputInv)
<1>1. TypeOK /\ (Reliable => OutputInv) /\ [Next]_vars => (Reliable => OutputInv)'
  <2>1. [Next]_vars => regime' = regime
      BY SettingStays
  <2>2. QED
      BY <2>1, NextMoves DEF OutputStep, Reliable
<1>2. QED
    BY <1>1, OutputInit, TypeCorrect, PTL DEF Spec

(* Put area and wire together are what the program wrote, at every moment the
   stream of a reliable regime is open: failed flushes keep their bytes,
   successful ones forget them, and StreamBuf's test of m_Status is never
   fooled. *)
THEOREM OutputInOrder == Spec => [](OrderWhenReliable /\ (Reliable => StatusCovered))
<1>1. (Reliable => OutputInv) => OrderWhenReliable /\ (Reliable => StatusCovered)
    BY DEF OutputInv, OrderWhenReliable
<1>2. QED
    BY <1>1, OutputInvariant, PTL

LEMMA ExtendsIsPrefix ==
    ASSUME NEW s \in Seq(Nat), NEW t, Extends(s, t)
    PROVE  IsPrefix(s, t)
BY PrefixOfConcat DEF Extends

(* StreamBuf implements an ordered channel of bytes over TCP and over TLS,
   closing included. *)
THEOREM ChannelImplemented == Spec => KeepsChannel
<1>1. Init => Channel!Init
    BY DEF Init, Channel!Init, Promised
<1>2. /\ TypeOK /\ TypeOK' /\ (Reliable => OutputInv) /\ [Next]_vars
      => [Channel!Next]_<<Promised(accepted), Promised(wire)>>
  <2> SUFFICES ASSUME TypeOK, TypeOK', Reliable => OutputInv, [Next]_vars
               PROVE  [Channel!Next]_<<Promised(accepted), Promised(wire)>>
      OBVIOUS
  <2>0. regime' = regime
      BY SettingStays
  <2>1. CASE ~Reliable
      BY <2>0, <2>1 DEF Promised, Reliable
  <2>2. CASE Reliable
    <3>1. OutputStep
        BY <2>2, NextMoves
    <3>2. wire \in Seq(Nat) /\ accepted \in Seq(Nat) /\ wire' \in Seq(Nat)
        BY DEF TypeOK
    <3>3. Extends(wire, wire') /\ Extends(accepted, accepted') /\ Extends(wire', accepted')
        BY <3>1 DEF OutputStep, OutputInv
    <3>4. IsPrefix(wire, wire') /\ IsPrefix(accepted, accepted') /\ IsPrefix(wire', accepted')
        BY <3>2, <3>3, ExtendsIsPrefix
    <3>5. Promised(wire) = wire /\ Promised(accepted) = accepted
          /\ Promised(wire)' = wire' /\ Promised(accepted)' = accepted'
        BY <2>0, <2>2 DEF Promised, Reliable
    <3>6. QED
        BY <3>4, <3>5 DEF Channel!Next, Channel!IsPrefix, IsPrefix
  <2>3. QED
      BY <2>1, <2>2
<1>3. QED
    BY <1>1, <1>2, TypeCorrect, OutputInvariant, PTL DEF Spec, KeepsChannel, Channel!Spec

------------------------------------------------------------------------------
(* Order of the input.  Nothing but TypeOK is needed beside it: what the      *)
(* program has, what the get area still holds and what waits are one sequence *)
(* that a step cuts elsewhere or extends at its end.                          *)

Numbered == "byteFF" \notin regime
AllIn == got \o Unread \o queue

(* What a read returns and what it leaves are what waited. *)
LEMMA ReceiveSplits ==
    ASSUME TypeOK, NEW n \in Nat, NEW r \in ReceiveResults(n)
    PROVE  /\ r.bytes \in Seq(Nat) /\ Drop(Len(r.bytes)) \in Seq(Nat)
           /\ r.bytes \o Drop(Len(r.bytes)) = queue
<1>0. queue \in Seq(Nat) /\ Len(queue) \in Nat
    BY LenProperties DEF TypeOK
<1>1. /\ r.bytes \in Seq(Nat) /\ Len(r.bytes) \in 0 .. Len(queue)
      /\ Drop(Len(r.bytes)) \in Seq(Nat)
    BY <1>0, ReceiveTyped, DropTyped
<1>2. \E k \in 0 .. Len(queue) : r.bytes = SubSeq(queue, 1, k)
  <2>1. CASE r \in Data(n)
    <3>1. CASE ~secure
      <4>1. PICK k \in 1 .. Smaller(n, Len(queue)) :
                r = [bytes |-> SubSeq(queue, 1, k), decrypted |-> 0, ios |-> {}, status |-> "OK"]
          BY <2>1, <3>1 DEF Data, PlainData
      <4>2. k \in 0 .. Len(queue) /\ r.bytes = SubSeq(queue, 1, k)
          BY <1>0, <4>1 DEF Smaller
      <4>3. QED
          BY <4>2
    <3>2. CASE secure
      <4>1. PICK m \in Records : \E k \in 1 .. Smaller(n, m) :
                r = [bytes |-> SubSeq(queue, 1, k), decrypted |-> m - k, ios |-> {}, status |-> "OK"]
          BY <2>1, <3>2 DEF Data, SecureData
      <4>2. m \in Nat /\ m <= Len(queue)
          BY <1>0 DEF Records, TypeOK
      <4>3. PICK k \in 1 .. Smaller(n, m) :
                r = [bytes |-> SubSeq(queue, 1, k), decrypted |-> m - k, ios |-> {}, status |-> "OK"]
          BY <4>1
      <4>4. k \in 0 .. Len(queue) /\ r.bytes = SubSeq(queue, 1, k)
          BY <1>0, <4>2, <4>3 DEF Smaller
      <4>5. QED
          BY <4>4
    <3>3. QED
        BY <3>1, <3>2
  <2>2. CASE r = Nothing({"eof"}) \/ r = Nothing({"bad"})
    <3>1. r.bytes = <<>>
        BY <2>2 DEF Nothing
    <3>2. SubSeq(queue, 1, 0) = <<>>
        BY SubSeqEmpty
    <3>3. QED
        BY <1>0, <3>1, <3>2
  <2>3. QED
      BY <2>1, <2>2 DEF ReceiveResults
<1>3. PICK k \in 0 .. Len(queue) : r.bytes = SubSeq(queue, 1, k)
    BY <1>2
<1>4. Len(r.bytes) = k
    BY <1>0, <1>3, PrefixTyped
<1>5. r.bytes \o Drop(Len(r.bytes)) = queue
    BY <1>0, <1>3, <1>4, CutInTwo DEF Drop
<1>6. QED
    BY <1>1, <1>5

LEMMA UnreadTyped ==
    ASSUME TypeOK
    PROVE  Unread \in Seq(Nat) /\ Len(Unread) = Len(area) - gnext
BY SuffixTyped, LenProperties DEF Unread, TypeOK

(* A step that leaves the get area alone leaves Unread alone. *)
LEMMA UnreadStays == UNCHANGED <<area, gnext>> => Unread' = Unread
BY DEF Unread

LEMMA GetMoves ==
    ASSUME TypeOK, Get, Numbered
    PROVE  AllIn' = AllIn
<1>1. got \in Seq(Nat) /\ queue \in Seq(Nat) /\ Unread \in Seq(Nat) /\ area \in Seq(Nat)
      /\ Len(area) \in Nat /\ gnext \in 0 .. Len(area)
    BY UnreadTyped, LenProperties DEF TypeOK
<1>2. CASE Unread # <<>>
  <2>1. got' = Append(got, Head(Unread)) /\ gnext' = gnext + 1 /\ area' = area /\ queue' = queue
      BY <1>2 DEF Get
  <2>2. gnext < Len(area)
      BY <1>1, <1>2, SubSeqEmpty DEF Unread
  <2>3. Tail(Unread) = Unread'
    <3>1. Len(Unread) = Len(area) - gnext /\ Len(area) - gnext >= 1
        BY <1>1, <2>2, UnreadTyped
    <3>2. Tail(Unread) = SubSeq(area, gnext + 2, Len(area))
      <4>1. gnext + 1 \in 1 .. Len(area) /\ Len(area) \in gnext + 1 .. Len(area)
          BY <1>1, <2>2
      <4>2. Tail(SubSeq(area, gnext + 1, Len(area))) = SubSeq(area, (gnext + 1) + 1, Len(area))
          BY <1>1, <4>1, HeadTailOfSubSeq
      <4>3. (gnext + 1) + 1 = gnext + 2
          BY <1>1
      <4>4. QED
          BY <4>2, <4>3 DEF Unread
    <3>3. Unread' = SubSeq(area, gnext + 2, Len(area))
        BY <1>1, <2>1 DEF Unread
    <3>4. QED
        BY <3>2, <3>3
  <2>4. got' \o Unread' = got \o Unread
      BY <1>1, <1>2, <2>1, <2>3, MoveHead
  <2>5. QED
      BY <2>1, <2>4 DEF AllIn
<1>3. CASE Unread = <<>>
  <2>1. PICK r \in ReceiveResults(InSize) :
            /\ queue' = Drop(Len(r.bytes))
            /\ \/ /\ r.bytes = <<>>
                  /\ UNCHANGED <<area, gnext, got>>
               \/ /\ r.bytes # <<>>
                  /\ area' = r.bytes
                  /\ gnext' = AfterUflow
                  /\ got' = Append(got, Head(r.bytes))
      BY <1>3 DEF Get, ReadsAsEof, Numbered
  <2>2. /\ r.bytes \in Seq(Nat) /\ queue' \in Seq(Nat)
        /\ r.bytes \o queue' = queue
      BY <2>1, SizeAssumption, ReceiveSplits
  <2>3. AllIn = got \o queue
      BY <1>1, <1>3, ConcatEmptySeq DEF AllIn
  <2>4. CASE r.bytes = <<>>
    <3>1. queue' = queue /\ got' = got /\ Unread' = Unread
        BY <2>1, <2>2, <2>4, ConcatEmptySeq, UnreadStays
    <3>2. QED
        BY <3>1 DEF AllIn
  <2>5. CASE r.bytes # <<>>
    <3>1. got' = Append(got, Head(r.bytes)) /\ area' = r.bytes /\ gnext' = 1
        BY <2>1, <2>5 DEF AfterUflow
    <3>2. Unread' = Tail(r.bytes)
        BY <2>2, <2>5, <3>1, TailIsSubSeq DEF Unread
    <3>3. got' \o Unread' = got \o r.bytes
        BY <1>1, <2>2, <2>5, <3>1, <3>2, MoveHead
    <3>4. (got \o r.bytes) \o queue' = got \o (r.bytes \o queue')
      <4>1. got \in Seq(Nat) /\ r.bytes \in Seq(Nat) /\ queue' \in Seq(Nat)
          BY <1>1, <2>2
      <4>2. QED
          BY <4>1, Reassociate
    <3>5. QED
        BY <2>2, <2>3, <3>3, <3>4 DEF AllIn
  <2>6. QED
      BY <2>4, <2>5
<1>4. QED
    BY <1>2, <1>3

LEMMA RawReadMoves ==
    ASSUME TypeOK, RawRead
    PROVE  AllIn' = AllIn
<1>1. got \in Seq(Nat) /\ queue \in Seq(Nat) /\ Unread = <<>>
    BY DEF TypeOK, RawRead
<1>2. PICK r \in ReceiveResults(1) : queue' = Drop(Len(r.bytes)) /\ got' = got \o r.bytes
    BY DEF RawRead
<1>3. r.bytes \in Seq(Nat) /\ queue' \in Seq(Nat) /\ r.bytes \o queue' = queue
    BY <1>2, ReceiveSplits
<1>4. Unread' = <<>>
    BY <1>1, UnreadStays DEF RawRead
<1>5. AllIn = got \o queue
    BY <1>1, ConcatEmptySeq DEF AllIn
<1>6. got' \in Seq(Nat) /\ AllIn' = got' \o queue'
    BY <1>1, <1>2, <1>3, <1>4, ConcatProperties, ConcatEmptySeq DEF AllIn
<1>7. (got \o r.bytes) \o queue' = got \o (r.bytes \o queue')
  <2>1. got \in Seq(Nat) /\ r.bytes \in Seq(Nat) /\ queue' \in Seq(Nat)
      BY <1>1, <1>3
  <2>2. QED
      BY <2>1, Reassociate
<1>8. QED
    BY <1>2, <1>3, <1>5, <1>6, <1>7

LEMMA UngetMoves ==
    ASSUME TypeOK, Unget
    PROVE  AllIn' = AllIn
<1>1. got \in Seq(Nat) /\ queue \in Seq(Nat) /\ area \in Seq(Nat) /\ Unread \in Seq(Nat)
      /\ Len(area) \in Nat /\ gnext \in 0 .. Len(area) /\ got # <<>>
    BY UnreadTyped, LenProperties DEF TypeOK, Unget
<1>2. CASE gnext = 0
  <2>1. UNCHANGED <<gnext, got, area, queue>>
      BY <1>2 DEF Unget
  <2>2. QED
      BY <2>1, UnreadStays DEF AllIn
<1>3. CASE gnext > 0
  <2>1. area[gnext] = Last(got) /\ gnext' = gnext - 1 /\ got' = Front(got) /\ area' = area /\ queue' = queue
      BY <1>3 DEF Unget
  <2> DEFINE u == <<Last(got)>>
  <2>2. got' \in Seq(Nat) /\ u \in Seq(Nat) /\ got' \o u = got
    <3>1. Front(got) \in Seq(Nat) /\ Last(got) \in Nat /\ Front(got) \o <<Last(got)>> = got
        BY <1>1, SplitLast
    <3>2. QED
        BY <2>1, <3>1
  <2>3. Unread' = u \o Unread
    <3>1. gnext \in 1 .. Len(area) /\ Len(area) \in gnext .. Len(area)
        BY <1>1, <1>3
    <3>2. SubSeq(area, gnext, Len(area)) = <<area[gnext]>> \o SubSeq(area, gnext + 1, Len(area))
        BY <1>1, <3>1, SubSeqRecursiveFirst
    <3>3. Unread' = SubSeq(area, gnext, Len(area))
      <4>1. gnext' + 1 = gnext
          BY <1>1, <2>1
      <4>2. QED
          BY <2>1, <4>1 DEF Unread
    <3>4. QED
        BY <2>1, <3>2, <3>3 DEF Unread
  <2> HIDE DEF u
  <2>4. got' \o (u \o Unread) = (got' \o u) \o Unread
    <3>1. got' \in Seq(Nat) /\ u \in Seq(Nat) /\ Unread \in Seq(Nat)
        BY <1>1, <2>2
    <3>2. QED
        BY <3>1, Reassociate
  <2>5. QED
      BY <2>1, <2>2, <2>3, <2>4 DEF AllIn
<1>4. QED
    BY <1>1, <1>2, <1>3

LEMMA InputMoves ==
    ASSUME TypeOK, InputOrder, [Next]_vars
    PROVE  InputOrder'
<1> SUFFICES ASSUME isOpen', Numbered' PROVE AllIn' = CountTo(sent')
    BY DEF InputOrder, AllIn, CountTo, Numbered
<1>0. Numbered
    BY SettingStays DEF Numbered
<1>1. isOpen => AllIn = CountTo(sent)
    BY <1>0 DEF InputOrder, AllIn, CountTo, Numbered
<1>2. CASE Get
    BY <1>0, <1>1, <1>2, GetMoves DEF Get, peerVars
<1>3. CASE RawRead
    BY <1>1, <1>3, RawReadMoves DEF RawRead, peerVars
<1>4. CASE Unget
    BY <1>1, <1>4, UngetMoves DEF Unget, peerVars
<1>5. CASE PeerSends
  <2>1. /\ sent \in Nat /\ sent + 1 \in Nat /\ got \in Seq(Nat) /\ queue \in Seq(Nat) /\ Unread \in Seq(Nat)
        /\ got \o Unread \in Seq(Nat)
      BY UnreadTyped, ConcatProperties DEF TypeOK
  <2>2. sent' = sent + 1 /\ queue' = Append(queue, sent + 1) /\ got' = got /\ Unread' = Unread /\ isOpen
      BY <1>5, UnreadStays DEF PeerSends
  <2>3. (got \o Unread) \o Append(queue, sent + 1) = Append((got \o Unread) \o queue, sent + 1)
    <3> DEFINE z == got \o Unread
               e == sent + 1
    <3>1. z \in Seq(Nat) /\ queue \in Seq(Nat) /\ e \in Nat
        BY <2>1
    <3> HIDE DEF z, e
    <3>2. z \o Append(queue, e) = Append(z \o queue, e)
        BY <3>1, AppendBehind, ZenonT(60)
    <3>3. QED
        BY <3>2 DEF z, e
  <2>4. QED
      BY <1>1, <2>1, <2>2, <2>3, CountAppend DEF AllIn
<1>6. CASE Close
    BY <1>6 DEF Close
<1>7. CASE Put \/ Flush \/ RawWrite \/ Clear \/ SetAsyncMode \/ PeerCloses \/ UNCHANGED vars
  <2>1. UNCHANGED <<area, gnext, queue, got, sent, isOpen>>
      BY <1>7 DEF Put, Flush, RawWrite, Clear, SetAsyncMode, PeerCloses, vars, readerVars, peerVars
  <2>2. QED
      BY <1>1, <2>1, UnreadStays DEF AllIn
<1>8. QED
    BY <1>2, <1>3, <1>4, <1>5, <1>6, <1>7 DEF Next

LEMMA InputInit == Init => InputOrder
<1> SUFFICES ASSUME Init PROVE got \o Unread \o queue = CountTo(sent)
    BY DEF InputOrder, CountTo
<1>1. got = <<>> /\ queue = <<>> /\ sent = 0 /\ area = Consumed /\ gnext = InSize
    BY DEF Init
<1>2. Unread = <<>>
    BY <1>1, ConsumedTyped, SizeAssumption, SubSeqEmpty DEF Unread
<1>3. <<>> \o <<>> \o <<>> = <<>>
    BY EmptySeq, ConcatEmptySeq
<1>4. QED
    BY <1>1, <1>2, <1>3, CountEmpty

(* Buffered reads, refills, ungets and raw reads, in any order, blocking or
   polling, over TCP or TLS, hand the program the peer's bytes once and in
   order: what it has, what the get area holds and what waits are all that the
   peer sent. *)
THEOREM InputInOrder == Spec => []InputOrder
<1>1. QED
    BY InputInit, InputMoves, TypeCorrect, PTL DEF Spec

------------------------------------------------------------------------------
(* No byte is forgotten, whatever the program clears and mixes, if the        *)
(* network sends all or nothing.                                              *)

Whole == "partial" \notin regime
Kept == ToSet(accepted) \subseteq ToSet(wire) \union ToSet(out)

LEMMA SendWhole ==
    ASSUME TypeOK, Whole, NEW bytes \in Seq(Nat), NEW r \in SendResults(bytes)
    PROVE  /\ r.wire = wire \/ r.wire = wire \o bytes
           /\ Written(r) => r.wire = wire \o bytes
           /\ ToSet(wire) \subseteq ToSet(r.wire)
           /\ r.wire # wire => ToSet(bytes) \subseteq ToSet(r.wire)
<1>1. \/ r = [wire |-> wire \o bytes, ios |-> ios \ {"fail"}, status |-> status]
      \/ r = [wire |-> wire, ios |-> ios \union {"fail"}, status |-> "FAILED"]
    BY DEF SendResults, Whole
<1>2. ToSet(wire \o bytes) = ToSet(wire) \union ToSet(bytes)
    BY BytesOfConcat DEF TypeOK
<1>3. CASE r = [wire |-> wire \o bytes, ios |-> ios \ {"fail"}, status |-> status]
  <2>1. r.wire = wire \o bytes
      BY <1>3
  <2>2. QED
      BY <1>2, <2>1
<1>4. CASE r = [wire |-> wire, ios |-> ios \union {"fail"}, status |-> "FAILED"]
  <2>1. r.wire = wire /\ ~Written(r)
      BY <1>4 DEF Written
  <2>2. QED
      BY <2>1
<1>5. QED
    BY <1>1, <1>3, <1>4

LEMMA PutKeeps ==
    ASSUME TypeOK, Whole, Kept, Put
    PROVE  Kept'
<1> DEFINE b == Len(accepted) + 1
<1>1. out \in Seq(Nat) /\ accepted \in Seq(Nat) /\ wire \in Seq(Nat) /\ b \in Nat
    BY LenProperties DEF TypeOK
<1> HIDE DEF b
<1>2. /\ ToSet(Append(accepted, b)) = ToSet(accepted) \union {b}
      /\ ToSet(Append(out, b)) = ToSet(out) \union {b}
      /\ ToSet(<<b>>) = {b}
    BY <1>1, BytesOfAppend, SetOfOne
<1>3. CASE out' = Append(out, b) /\ accepted' = Append(accepted, b) /\ wire' = wire
    BY <1>2, <1>3 DEF Kept
<1>4. CASE \E r \in SendResults(out) :
                /\ wire' = r.wire
                /\ out' = IF Written(r) THEN <<b>> ELSE out
                /\ accepted' = IF Written(r) THEN Append(accepted, b) ELSE accepted
  <2>1. PICK r \in SendResults(out) :
                /\ wire' = r.wire
                /\ out' = IF Written(r) THEN <<b>> ELSE out
                /\ accepted' = IF Written(r) THEN Append(accepted, b) ELSE accepted
      BY <1>4
  <2>2. ToSet(wire) \subseteq ToSet(wire') /\ (Written(r) => wire' = wire \o out)
      BY <1>1, <2>1, SendWhole
  <2>3. Written(r) => ToSet(wire') = ToSet(wire) \union ToSet(out)
      BY <1>1, <2>2, BytesOfConcat
  <2>4. CASE Written(r)
      BY <1>2, <2>1, <2>3, <2>4 DEF Kept
  <2>5. CASE ~Written(r)
      BY <2>1, <2>2, <2>5 DEF Kept
  <2>6. QED
      BY <2>4, <2>5
<1>5. QED
    BY <1>3, <1>4 DEF Put, b

LEMMA FlushKeeps ==
    ASSUME TypeOK, Whole, Kept, Flush
    PROVE  Kept'
<1>1. out \in Seq(Nat) /\ wire \in Seq(Nat) /\ accepted' = accepted
    BY DEF TypeOK, Flush
<1>2. CASE UNCHANGED <<wire, out>>
    BY <1>1, <1>2 DEF Kept
<1>3. CASE \E r \in SendResults(out) : wire' = r.wire /\ out' = AfterSend(r)
  <2>1. PICK r \in SendResults(out) : wire' = r.wire /\ out' = AfterSend(r)
      BY <1>3
  <2>2. ToSet(wire) \subseteq ToSet(wire') /\ (Written(r) => wire' = wire \o out)
      BY <1>1, <2>1, SendWhole
  <2>3. Written(r) => ToSet(wire') = ToSet(wire) \union ToSet(out)
      BY <1>1, <2>2, BytesOfConcat
  <2>4. QED
      BY <1>1, <2>1, <2>2, <2>3 DEF Kept, AfterSend
<1>4. QED
    BY <1>2, <1>3 DEF Flush

LEMMA RawWriteKeeps ==
    ASSUME TypeOK, Whole, Kept, RawWrite
    PROVE  Kept'
<1> DEFINE b == Len(accepted) + 1
           u == <<b>>
<1>1. out' = out /\ accepted \in Seq(Nat) /\ wire \in Seq(Nat) /\ b \in Nat /\ u \in Seq(Nat)
    BY LenProperties DEF TypeOK, RawWrite
<1>2. ToSet(Append(accepted, b)) = ToSet(accepted) \union {b} /\ ToSet(u) = {b}
    BY <1>1, BytesOfAppend, SetOfOne
<1>3. PICK r \in SendResults(u) :
          wire' = r.wire /\ accepted' = IF r.wire = wire THEN accepted ELSE Append(accepted, b)
    BY DEF RawWrite
<1> HIDE DEF u, b
<1>4. ToSet(wire) \subseteq ToSet(wire') /\ (wire' # wire => ToSet(u) \subseteq ToSet(wire'))
    BY <1>1, <1>3, SendWhole
<1>5. QED
    BY <1>1, <1>2, <1>3, <1>4 DEF Kept

LEMMA NextKeeps ==
    ASSUME TypeOK, NothingLost, [Next]_vars
    PROVE  NothingLost'
<1> SUFFICES ASSUME isOpen', Whole' PROVE Kept'
    BY DEF NothingLost, Whole, Kept
<1>1. Whole
    BY SettingStays DEF Whole
<1>2. isOpen => Kept
    BY <1>1 DEF NothingLost, Whole, Kept
<1>3. CASE Put
    BY <1>1, <1>2, <1>3, PutKeeps DEF Put
<1>4. CASE Flush
    BY <1>1, <1>2, <1>4, FlushKeeps DEF Flush
<1>5. CASE RawWrite
    BY <1>1, <1>2, <1>5, RawWriteKeeps DEF RawWrite
<1>6. CASE Close
    BY <1>6 DEF Close
<1>7. CASE Get \/ RawRead \/ Unget \/ Clear \/ SetAsyncMode \/ PeerSends \/ PeerCloses \/ UNCHANGED vars
  <2>1. UNCHANGED <<isOpen, accepted, wire, out>>
      BY <1>7 DEF Get, RawRead, Unget, Clear, SetAsyncMode, PeerSends, PeerCloses, vars, writerVars
  <2>2. QED
      BY <1>2, <2>1 DEF Kept
<1>8. QED
    BY <1>3, <1>4, <1>5, <1>6, <1>7 DEF Next

(* Over a network that sends all or nothing, and for every program, clear()
   and raw writes included, a byte the program wrote on an open stream is on
   the wire or in the put area. *)
THEOREM NothingForgotten == Spec => []NothingLost
<1>1. Init => NothingLost
  <2>1. Init => accepted = <<>>
      BY DEF Init
  <2>2. ToSet(<<>>) = {}
      BY DEF ToSet
  <2>3. QED
      BY <2>1, <2>2 DEF NothingLost
<1>2. QED
    BY <1>1, NextKeeps, TypeCorrect, PTL DEF Spec

==============================================================================
