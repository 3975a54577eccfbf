-------------------------- MODULE HttpExchangeProofs --------------------------
(***************************************************************************)
(* Theorems about HttpExchange, for any fields and sizes of buffers, and    *)
(* for responses of any length.                                             *)
(***************************************************************************)
EXTENDS HttpExchange, SequenceLemmas

(* The parts of a request: its line, its fields in some order, the blank line. *)
Parts == Fields \union {"line", "blank", "text", "Pair"}

LEMMA Sizes ==
    /\ Line \in Nat \ {0} /\ uCount \in Nat \ {0} /\ Room \in Nat \ {0}
    /\ Default \in Fields
    /\ "line" \notin Fields /\ "blank" \notin Fields /\ "text" \notin Fields /\ "Pair" \notin Fields
BY RequestAssumption

LEMMA MessageFacts ==
    ASSUME call \in Calls
    PROVE  /\ call.message \in {<<>>, <<"text">>, <<"Pair">>}
           /\ call.message \in Seq(Parts) /\ ToSet(call.message) \subseteq {"text", "Pair"}
           /\ Len(call.message) \in 0 .. 1
           /\ (Len(call.message) = 0 <=> call.message = <<>>)
           /\ call.text \in BOOLEAN
           /\ (call.text => call.message = <<>>)
<1>1. call.message \in {<<>>, <<"text">>, <<"Pair">>} /\ call.text \in BOOLEAN
  BY RequestAssumption DEF Calls
<1>2. call.text => call.message = <<>>
  BY DEF Calls
<1>3. ToSet(call.message) \subseteq {"text", "Pair"}
  BY <1>1 DEF ToSet
<1>4. call.message \in Seq(Parts)
  <2>1. <<>> \in Seq(Parts)
    BY EmptySeq
  <2>2. "text" \in Parts /\ "Pair" \in Parts
    BY DEF Parts
  <2>3. <<"text">> \in Seq(Parts) /\ <<"Pair">> \in Seq(Parts)
    BY <2>2
  <2>. QED BY <1>1, <2>1, <2>3
<1>5. Len(call.message) \in 0 .. 1 /\ (Len(call.message) = 0 <=> call.message = <<>>)
  BY <1>1
<1>. QED BY <1>1, <1>2, <1>3, <1>4, <1>5

LEMMA HeadParts ==
    ASSUME fields \subseteq Fields, IsFiniteSet(fields)
    PROVE  /\ RequestHead \in Seq(Parts) /\ Len(RequestHead) \in Nat /\ Len(RequestHead) > Line
           /\ \A i \in Line + 1 .. Len(RequestHead) : RequestHead[i] \in fields \union {"blank"}
           /\ \A f \in fields : \E i \in Line + 1 .. Len(RequestHead) : RequestHead[i] = f
<1>. DEFINE a == [i \in 1 .. Line |-> "line"]
            b == SetToSeq(fields)
            c == <<"blank">>
<1>1. Line \in Nat
  BY Sizes
<1>2. a \in Seq(Parts) /\ Len(a) = Line
  BY <1>1 DEF Parts
<1>3. b \in Seq(fields) /\ ToSet(b) = fields
  BY ListOfSet
<1>4. Len(b) \in Nat /\ DOMAIN b = 1 .. Len(b) /\ \A i \in 1 .. Len(b) : b[i] \in fields
  BY <1>3, LenProperties, ElementOfSeq
<1>5. \A f \in fields : \E i \in 1 .. Len(b) : b[i] = f
  BY <1>3, <1>4 DEF ToSet
<1>. HIDE DEF b
<1>6. b \in Seq(Parts)
  BY <1>3, <1>4 DEF Parts
<1>7. c \in Seq(Parts) /\ Len(c) = 1 /\ c[1] = "blank"
  BY DEF Parts
<1>. HIDE DEF a, c
<1>. DEFINE d == a \o b
            e == d \o c
<1>8. /\ d \in Seq(Parts) /\ Len(d) = Line + Len(b)
      /\ \A i \in 1 .. Len(d) : d[i] = IF i <= Line THEN a[i] ELSE b[i - Line]
  BY <1>2, <1>6, ConcatProperties
<1>. HIDE DEF d
<1>8a. e \in Seq(Parts) /\ Len(e) = Len(d) + Len(c)
  BY <1>7, <1>8, ConcatProperties
<1>8b. \A i \in 1 .. Len(d) + Len(c) : e[i] = IF i <= Len(d) THEN d[i] ELSE c[i - Len(d)]
  BY <1>7, <1>8, ConcatProperties
<1>9. /\ e \in Seq(Parts) /\ Len(e) = Len(d) + 1
      /\ \A i \in 1 .. Len(e) : e[i] = IF i <= Len(d) THEN d[i] ELSE c[i - Len(d)]
  BY <1>7, <1>8a, <1>8b
<1>. HIDE DEF e
<1>10. \A i \in Line + 1 .. Len(e) : e[i] \in fields \union {"blank"}
  <2>. SUFFICES ASSUME NEW i \in Line + 1 .. Len(e) PROVE e[i] \in fields \union {"blank"}
    OBVIOUS
  <2>0. i \in 1 .. Len(e)
    BY <1>1
  <2>1. CASE i <= Len(d)
    <3>1. i \in 1 .. Len(d) /\ ~(i <= Line) /\ i - Line \in 1 .. Len(b)
      BY <1>1, <1>4, <1>8, <2>1
    <3>2. e[i] = b[i - Line]
      BY <1>8, <1>9, <2>0, <2>1, <3>1
    <3>. QED BY <1>4, <3>1, <3>2
  <2>2. CASE ~(i <= Len(d))
    <3>1. i - Len(d) = 1
      BY <1>1, <1>4, <1>8, <1>9, <2>2
    <3>. QED BY <1>7, <1>9, <2>0, <2>2, <3>1
  <2>. QED BY <2>1, <2>2
<1>11. ASSUME NEW f \in fields
       PROVE  \E i \in Line + 1 .. Len(e) : e[i] = f
  <2>1. PICK k \in 1 .. Len(b) : b[k] = f
    BY <1>5
  <2>2. /\ Line + k \in Line + 1 .. Len(e) /\ Line + k \in 1 .. Len(e)
        /\ Line + k \in 1 .. Len(d) /\ ~(Line + k <= Line) /\ (Line + k) - Line = k
        /\ Line + k <= Len(d)
    BY <1>1, <1>4, <1>8, <1>9
  <2>3. e[Line + k] = f
    BY <1>8, <1>9, <2>1, <2>2
  <2>. QED BY <2>2, <2>3
<1>12. RequestHead = e
  BY DEF RequestHead, a, b, c, d, e
<1>13. Len(e) \in Nat /\ Len(e) > Line
  BY <1>1, <1>4, <1>8, <1>9
<1>. QED BY <1>9, <1>10, <1>11, <1>12, <1>13

LEMMA RequestParts ==
    ASSUME fields \subseteq Fields, IsFiniteSet(fields), call \in Calls
    PROVE  /\ Len(WholeRequest) = Len(RequestHead) + Len(call.message)
           /\ Len(WholeRequest) \in Nat /\ Len(WholeRequest) > Line
           /\ \A i \in Line + 1 .. Len(WholeRequest) :
                WholeRequest[i] \in fields \union ToSet(call.message) \union {"blank"}
           /\ \A f \in fields : \E i \in Line + 1 .. Len(RequestHead) : WholeRequest[i] = f
<1>. DEFINE a == RequestHead
            b == call.message
            c == a \o b
<1>1. /\ a \in Seq(Parts) /\ Len(a) \in Nat /\ Len(a) > Line
      /\ \A i \in Line + 1 .. Len(a) : a[i] \in fields \union {"blank"}
      /\ \A f \in fields : \E i \in Line + 1 .. Len(a) : a[i] = f
  BY HeadParts
<1>2. b \in Seq(Parts) /\ Len(b) \in Nat /\ \A i \in 1 .. Len(b) : b[i] \in ToSet(b)
  BY MessageFacts, LenProperties DEF ToSet
<1>. HIDE DEF a, b
<1>3. /\ c \in Seq(Parts) /\ Len(c) = Len(a) + Len(b)
      /\ \A i \in 1 .. Len(c) : c[i] = IF i <= Len(a) THEN a[i] ELSE b[i - Len(a)]
  BY <1>1, <1>2, ConcatProperties
<1>. HIDE DEF c
<1>4. Line \in Nat
  BY Sizes
<1>5. ASSUME NEW i \in Line + 1 .. Len(c)
      PROVE  c[i] \in fields \union ToSet(b) \union {"blank"}
  <2>0. i \in 1 .. Len(c)
    BY <1>4
  <2>1. CASE i <= Len(a)
    <3>1. i \in Line + 1 .. Len(a)
      BY <1>1, <1>4, <2>1
    <3>. QED BY <1>1, <1>3, <2>0, <2>1, <3>1
  <2>2. CASE ~(i <= Len(a))
    <3>1. i - Len(a) \in 1 .. Len(b)
      BY <1>1, <1>2, <1>3, <1>4, <2>2
    <3>. QED BY <1>2, <1>3, <2>0, <2>2, <3>1
  <2>. QED BY <2>1, <2>2
<1>6. ASSUME NEW f \in fields
      PROVE  \E i \in Line + 1 .. Len(a) : c[i] = f
  <2>1. PICK i \in Line + 1 .. Len(a) : a[i] = f
    BY <1>1
  <2>2. i \in 1 .. Len(c) /\ i <= Len(a)
    BY <1>1, <1>2, <1>3, <1>4
  <2>. QED BY <1>3, <2>1, <2>2
<1>7. WholeRequest = c
  BY DEF WholeRequest, a, b, c
<1>8. Len(c) \in Nat /\ Len(c) > Line
  BY <1>1, <1>2, <1>3, <1>4
<1>. QED BY <1>3, <1>5, <1>6, <1>7, <1>8 DEF a, b

-----------------------------------------------------------------------------
(***************************************************************************)
(* The inductive invariant of the types.  It says of the sets and sequences *)
(* what TypeOK does, that no more of the request is on its way or arrived   *)
(* than was written, and where the client and the server's thread can be.   *)
(***************************************************************************)
Types ==
    /\ network \in Networks
    /\ fields \subseteq Fields /\ IsFiniteSet(fields)
    /\ call \in Calls
    /\ pc \in {"idle", "message", "headers", "content", "block", "done", "killed"}
    /\ headers \in Seq(Chars) /\ content \in Seq(Chars)
    /\ request \in [wire : Nat, queue : Nat]
    /\ server \in {"request", "head", "body", "close", "ended"}
    /\ funct \in {"none", "INVALID", "known", "undefined"}
    /\ reqHeaders \subseteq Fields \union {"Pair"}
    /\ head \in Heads /\ body \in Bodies
    /\ response \in [wire : Seq(Chars), queue : Seq(Chars)]
    /\ open \in BOOLEAN /\ reset \in BOOLEAN

RequestInv ==
    /\ pc = "idle" => request = [wire |-> 0, queue |-> 0] /\ server = "request"
    /\ pc = "message" => request.wire + request.queue <= Len(RequestHead)
    /\ request.wire + request.queue <= Len(WholeRequest)

ClientInv ==
    /\ matched \in 0 .. 3
    /\ pc = "headers" \/ (pc = "content" /\ matched <= 1) \/ matched = 0
    /\ pc \in {"idle", "message", "block", "killed"} => headers = <<>> /\ content = <<>>
    /\ pc = "headers" => content = <<>>
    /\ pc \in {"headers", "content"} => call.text
    /\ pc \in {"message", "block"} => ~call.text
    /\ ~call.text => headers = <<>>
    /\ pc \in {"message", "killed"} => call.message # <<>>

ServerInv ==
    /\ open <=> server # "ended"
    /\ server = "request" <=> funct = "none"
    /\ funct = "undefined" => server = "ended"

TypeInv == Types /\ RequestInv /\ ClientInv /\ ServerInv

LEMMA SameRequest ==
    ASSUME UNCHANGED <<fields, call>>
    PROVE  RequestHead' = RequestHead /\ WholeRequest' = WholeRequest
BY DEF RequestHead, WholeRequest

LEMMA TextFacts ==
    ASSUME head \in Heads, body \in Bodies
    PROVE  head \in Seq(Chars) /\ body \in Seq(Chars)
BY HeadAssumption

LEMMA Delimiters ==
    /\ CrLf \in Seq(Chars) /\ Len(CrLf) = 2 /\ CrLf[1] = "cr" /\ CrLf[2] = "lf"
    /\ BlankLine \in Seq(Chars) /\ Len(BlankLine) = 4
    /\ BlankLine[1] = "cr" /\ BlankLine[2] = "lf" /\ BlankLine[3] = "cr" /\ BlankLine[4] = "lf"
BY DEF CrLf, BlankLine, Chars

(* The fields that request() finds are fields of the client or of the message. *)
LEMMA FieldsFound ==
    ASSUME Types, RequestInv
    PROVE  /\ Received \in Nat /\ Received <= uCount /\ Received <= request.queue
           /\ Received <= Len(WholeRequest)
           /\ FieldsIn(Received) \subseteq fields \union (ToSet(call.message) \ {"text"})
           /\ FieldsIn(Received) \subseteq Fields \union {"Pair"}
<1>1. /\ request.queue \in Nat /\ request.wire \in Nat /\ uCount \in Nat /\ Line \in Nat
      /\ fields \subseteq Fields /\ IsFiniteSet(fields) /\ call \in Calls
  BY Sizes DEF Types
<1>2. /\ Len(WholeRequest) \in Nat
      /\ \A i \in Line + 1 .. Len(WholeRequest) :
           WholeRequest[i] \in fields \union ToSet(call.message) \union {"blank"}
  BY <1>1, RequestParts
<1>3. request.wire + request.queue <= Len(WholeRequest)
  BY DEF RequestInv
<1>4. /\ Received \in Nat /\ Received <= uCount /\ Received <= request.queue
      /\ Received <= Len(WholeRequest)
  BY <1>1, <1>2, <1>3 DEF Received
<1>5. FieldsIn(Received) \subseteq fields \union (ToSet(call.message) \ {"text"})
  <2>. SUFFICES ASSUME NEW i \in Line + 1 .. Received,
                       WholeRequest[i] \notin {"blank", "text"}
                PROVE  WholeRequest[i] \in fields \union (ToSet(call.message) \ {"text"})
    BY DEF FieldsIn
  <2>1. i \in Line + 1 .. Len(WholeRequest)
    BY <1>1, <1>2, <1>4
  <2>. QED BY <1>2, <2>1
<1>6. ToSet(call.message) \subseteq {"text", "Pair"}
  BY <1>1, MessageFacts
<1>. QED BY <1>1, <1>4, <1>5, <1>6

LEMMA TypeStart == Init => TypeInv
<1>. SUFFICES ASSUME Init PROVE TypeInv
  OBVIOUS
<1>0. fields = {} \/ fields = {Default}
  BY DEF Init, DefaultFields
<1>1. fields \subseteq Fields /\ IsFiniteSet(fields)
  <2>1. IsFiniteSet({}) /\ IsFiniteSet({Default})
    BY FS_EmptySet, FS_Singleton
  <2>. QED BY <1>0, <2>1, Sizes
<1>2. Types
  BY <1>1, EmptySeq DEF Init, Types
<1>3. Len(WholeRequest) \in Nat
  BY <1>2, RequestParts DEF Types
<1>4. RequestInv
  BY <1>3 DEF Init, RequestInv
<1>5. ClientInv /\ ServerInv
  BY DEF Init, ClientInv, ServerInv
<1>. QED BY <1>2, <1>4, <1>5 DEF TypeInv

LEMMA KeptType ==
    ASSUME response \in [wire : Seq(Chars), queue : Seq(Chars)], response' \in Kept
    PROVE  /\ response' \in [wire : Seq(Chars), queue : Seq(Chars)]
           /\ response'.queue = response.queue
           /\ \E n \in 0 .. Len(response.wire) : response'.wire = SubSeq(response.wire, 1, n)
<1>. DEFINE w == response.wire
<1>1. w \in Seq(Chars) /\ Len(w) \in Nat
  BY LenProperties
<1>2. PICK n \in 0 .. Len(w) : response' = [response EXCEPT !.wire = SubSeq(@, 1, n)]
  BY DEF Kept
<1>3. SubSeq(w, 1, n) \in Seq(Chars)
  BY <1>1, PrefixInSeq
<1>. QED BY <1>2, <1>3

(* The steps of the client. *)
LEMMA ClientTypes ==
    ASSUME TypeInv, (\E f \in Fields : AddHeader(f)) \/ ClearHeaders \/ WriteRequest \/ ClientStep
    PROVE  TypeInv'
<1>. USE DEF TypeInv
<1>1. ASSUME NEW f \in Fields, AddHeader(f) \/ ClearHeaders
      PROVE  TypeInv'
  <2>1. fields' \subseteq Fields /\ IsFiniteSet(fields')
    <3>1. fields \subseteq Fields /\ IsFiniteSet(fields)
      BY DEF Types
    <3>2. IsFiniteSet({}) /\ IsFiniteSet(fields \union {f})
      BY <3>1, FS_AddElement, FS_EmptySet
    <3>3. fields' = {} \/ fields' = fields \union {f}
      BY <1>1 DEF AddHeader, ClearHeaders
    <3>. QED BY <3>1, <3>2, <3>3
  <2>2. Types'
    BY <1>1, <2>1 DEF AddHeader, ClearHeaders, Types, given, serverVars
  <2>3. Len(WholeRequest)' \in Nat
    <3>1. fields' \subseteq Fields /\ IsFiniteSet(fields') /\ call' \in Calls
      BY <2>2 DEF Types
    <3>. QED BY <3>1, RequestParts
  <2>4. pc = "idle" /\ pc' = pc /\ request' = request /\ server' = server
    BY <1>1 DEF AddHeader, ClearHeaders, serverVars
  <2>5. RequestInv'
    BY <2>3, <2>4 DEF RequestInv
  <2>6. ClientInv' /\ ServerInv'
    BY <1>1 DEF AddHeader, ClearHeaders, ClientInv, ServerInv, given, serverVars
  <2>. QED BY <2>2, <2>5, <2>6
<1>2. CASE ClearHeaders
  BY <1>1, <1>2, Sizes
<1>3. CASE WriteRequest
  <2>1. /\ Len(RequestHead) \in Nat /\ Len(WholeRequest) = Len(RequestHead) + Len(call.message)
        /\ Len(call.message) \in Nat /\ call.text \in BOOLEAN
        /\ (call.text => call.message = <<>>)
    BY HeadParts, RequestParts, MessageFacts DEF Types
  <2>2. /\ request = [wire |-> 0, queue |-> 0] /\ headers = <<>> /\ content = <<>> /\ matched = 0
        /\ server = "request"
    BY <1>3 DEF WriteRequest, RequestInv, ClientInv
  <2>3. request' = [wire |-> Len(RequestHead), queue |-> 0]
    BY <1>3, <2>2 DEF WriteRequest
  <2>4. UNCHANGED <<given, fields, call, headers, content, matched, serverVars, response, reset>>
    BY <1>3 DEF WriteRequest
  <2>5. RequestHead' = RequestHead /\ WholeRequest' = WholeRequest
    BY <2>4, SameRequest
  <2>6. pc' = IF call.message = <<>> THEN FirstRead ELSE "message"
    BY <1>3 DEF WriteRequest
  <2>7. Types'
    BY <2>1, <2>3, <2>4, <2>6 DEF Types, given, serverVars, FirstRead
  <2>8. RequestInv'
    BY <2>1, <2>3, <2>5, <2>6 DEF RequestInv, FirstRead
  <2>9. ClientInv'
    BY <2>1, <2>2, <2>4, <2>6 DEF ClientInv, FirstRead
  <2>10. ServerInv'
    BY <2>4 DEF ServerInv, serverVars
  <2>. QED BY <2>7, <2>8, <2>9, <2>10
<1>4. CASE WriteMessage
  <2>1. /\ Len(RequestHead) \in Nat /\ Len(WholeRequest) = Len(RequestHead) + Len(call.message)
        /\ Len(call.message) \in Nat
    BY HeadParts, RequestParts, MessageFacts DEF Types
  <2>2. UNCHANGED <<given, fields, call, headers, content, matched, serverVars, response, reset>>
    BY <1>4 DEF WriteMessage
  <2>3. RequestHead' = RequestHead /\ WholeRequest' = WholeRequest
    BY <2>2, SameRequest
  <2>4. pc = "message" /\ pc' \in {"block", "killed"}
    BY <1>4 DEF WriteMessage
  <2>5. request.wire \in Nat /\ request.queue \in Nat /\ request = [wire |-> request.wire, queue |-> request.queue]
    BY DEF Types
  <2>6. \/ request' = request
        \/ request' = [wire |-> request.wire + Len(call.message), queue |-> request.queue]
    BY <1>4, <2>5 DEF WriteMessage
  <2>7. Types'
    BY <2>1, <2>2, <2>4, <2>5, <2>6, SMTT(60) DEF Types, given, serverVars
  <2>8. RequestInv'
    BY <2>1, <2>3, <2>4, <2>5, <2>6 DEF RequestInv
  <2>9. ClientInv'
    BY <2>2, <2>4 DEF ClientInv
  <2>10. ServerInv'
    BY <2>2 DEF ServerInv, serverVars
  <2>. QED BY <2>7, <2>8, <2>9, <2>10
<1>5. CASE ReadChar
  <2>. DEFINE c == Head(response.queue)
              m == Matched(Delimiter, matched, c)
  <2>1. UNCHANGED <<given, fields, call, request, serverVars, reset>>
    BY <1>5 DEF ReadChar
  <2>2. /\ pc \in {"headers", "content"} /\ response.queue # <<>>
        /\ IF pc = "headers"
           THEN headers' = Append(headers, c) /\ UNCHANGED content
           ELSE content' = Append(content, c) /\ UNCHANGED headers
        /\ response' = [response EXCEPT !.queue = Tail(@)]
        /\ IF m = Len(Delimiter) THEN matched' = 0 /\ pc' = NextRead ELSE matched' = m /\ UNCHANGED pc
    BY <1>5 DEF ReadChar
  <2>3. response.queue \in Seq(Chars) /\ c \in Chars /\ Tail(response.queue) \in Seq(Chars)
    BY <2>2, FirstAndRest DEF Types
  <2>4. matched \in 0 .. 3 /\ m \in 0 .. matched + 1
    BY DEF ClientInv, Matched
  <2>5. Len(Delimiter) = IF pc = "headers" THEN 4 ELSE 2
    BY Delimiters DEF Delimiter
  <2>. HIDE DEF m, c
  <2>6. headers' \in Seq(Chars) /\ content' \in Seq(Chars)
    <3>1. headers \in Seq(Chars) /\ content \in Seq(Chars)
      BY DEF Types
    <3>2. Append(headers, c) \in Seq(Chars) /\ Append(content, c) \in Seq(Chars)
      BY <2>3, <3>1, AppendProperties
    <3>. QED BY <2>2, <3>1, <3>2
  <2>7. response' \in [wire : Seq(Chars), queue : Seq(Chars)]
    BY <2>2, <2>3 DEF Types
  <2>8. Types'
    BY <2>1, <2>2, <2>6, <2>7 DEF Types, given, serverVars, NextRead
  <2>9. RequestInv'
    <3>1. RequestHead' = RequestHead /\ WholeRequest' = WholeRequest
      BY <2>1, SameRequest
    <3>2. pc' \in {"headers", "content", "done"}
      BY <2>2 DEF NextRead
    <3>. QED BY <2>1, <3>1, <3>2 DEF RequestInv
  <2>10. ClientInv'
    <3>1. /\ matched' \in 0 .. 3
          /\ pc' = "headers" \/ (pc' = "content" /\ matched' <= 1) \/ matched' = 0
      BY <2>2, <2>4, <2>5 DEF ClientInv, NextRead
    <3>2. pc' \in {"headers", "content", "done"} /\ call' = call /\ call.text
      BY <2>1, <2>2 DEF ClientInv, NextRead
    <3>3. pc' = "headers" => content' = <<>>
      BY <2>2 DEF ClientInv, NextRead
    <3>. QED BY <3>1, <3>2, <3>3 DEF ClientInv
  <2>11. ServerInv'
    BY <2>1 DEF ServerInv, serverVars
  <2>. QED BY <2>8, <2>9, <2>10, <2>11
<1>6. CASE ReadBlock
  <2>. DEFINE n == IF Len(response.queue) < Room THEN Len(response.queue) ELSE Room
  <2>1. UNCHANGED <<given, fields, call, headers, matched, request, serverVars, reset>>
    BY <1>6 DEF ReadBlock
  <2>2. /\ pc = "block" /\ pc' = "done"
        /\ content' = SubSeq(response.queue, 1, n)
        /\ response' = [response EXCEPT !.queue = SubSeq(@, n + 1, Len(@))]
    BY <1>6 DEF ReadBlock
  <2>3. response.queue \in Seq(Chars) /\ n \in Nat /\ n <= Len(response.queue)
    BY Sizes, LenProperties DEF Types
  <2>. HIDE DEF n
  <2>4. content' \in Seq(Chars) /\ SubSeq(response.queue, n + 1, Len(response.queue)) \in Seq(Chars)
    BY <2>2, <2>3, PrefixInSeq, SuffixInSeq
  <2>5. response' \in [wire : Seq(Chars), queue : Seq(Chars)]
    BY <2>2, <2>4 DEF Types
  <2>6. Types'
    BY <2>1, <2>2, <2>4, <2>5 DEF Types, given, serverVars
  <2>7. RequestInv'
    <3>1. RequestHead' = RequestHead /\ WholeRequest' = WholeRequest
      BY <2>1, SameRequest
    <3>. QED BY <2>1, <2>2, <3>1 DEF RequestInv
  <2>8. ClientInv' /\ ServerInv'
    BY <2>1, <2>2 DEF ClientInv, ServerInv, serverVars
  <2>. QED BY <2>6, <2>7, <2>8
<1>7. CASE ReadNothing
  <2>1. /\ UNCHANGED <<given, fields, call, headers, content, request, serverVars, response, reset>>
        /\ matched' = 0 /\ pc \in {"headers", "content", "block"} /\ pc' = NextRead
    BY <1>7 DEF ReadNothing, EndOfData, AtEnd, Reading
  <2>2. Types'
    BY <2>1 DEF Types, given, serverVars, NextRead
  <2>3. RequestInv'
    <3>1. RequestHead' = RequestHead /\ WholeRequest' = WholeRequest
      BY <2>1, SameRequest
    <3>. QED BY <2>1, <3>1 DEF RequestInv, NextRead
  <2>4. ClientInv' /\ ServerInv'
    BY <2>1 DEF ClientInv, ServerInv, serverVars, NextRead
  <2>. QED BY <2>2, <2>3, <2>4
<1>. QED BY <1>1, <1>2, <1>3, <1>4, <1>5, <1>6, <1>7 DEF ClientStep

(* The steps of the server's thread and of the network. *)
LEMMA OtherTypes ==
    ASSUME TypeInv, ServerStep \/ NetworkStep
    PROVE  TypeInv'
<1>. USE DEF TypeInv
<1>0. /\ request.wire \in Nat /\ request.queue \in Nat
      /\ request = [wire |-> request.wire, queue |-> request.queue]
      /\ response.wire \in Seq(Chars) /\ response.queue \in Seq(Chars)
      /\ Len(RequestHead) \in Nat /\ Len(WholeRequest) \in Nat
      /\ head \in Seq(Chars) /\ body \in Seq(Chars)
  BY HeadParts, RequestParts, TextFacts DEF Types
<1>1. UNCHANGED <<given, clientVars>>
  BY DEF ServerStep, ServeRequest, RespondHead, RespondBody, CloseServer,
         NetworkStep, RequestArrives, ResponseArrives
<1>2. RequestHead' = RequestHead /\ WholeRequest' = WholeRequest
  BY <1>1, SameRequest DEF clientVars
<1>3. ClientInv'
  BY <1>1 DEF ClientInv, clientVars
<1>4. CASE ServeRequest
  <2>1. /\ Received \in Nat /\ Received <= request.queue
        /\ FieldsIn(Received) \subseteq Fields \union {"Pair"}
    BY FieldsFound
  <2>2. PICK f \in Recognised(Received) :
           /\ funct' = f
           /\ reqHeaders' = IF f = "known" THEN FieldsIn(Received) ELSE reqHeaders
           /\ server' = IF f = "undefined" THEN "ended" ELSE "head"
           /\ open' = (f # "undefined")
    BY <1>4 DEF ServeRequest
  <2>3. /\ request' = [wire |-> request.wire, queue |-> request.queue - Received]
        /\ server = "request" /\ request.queue > 0
        /\ UNCHANGED <<given, clientVars, response, reset>>
    BY <1>0, <1>4 DEF ServeRequest
  <2>4. f \in {"INVALID", "undefined", "known"}
    BY DEF Recognised
  <2>5. reqHeaders' \subseteq Fields \union {"Pair"}
    BY <2>1, <2>2 DEF Types
  <2>6. open' \in BOOLEAN
    BY <2>2
  <2>7. Types'
    BY <1>0, <2>1, <2>2, <2>3, <2>4, <2>5, <2>6 DEF Types, given, clientVars
  <2>8. RequestInv'
    <3>1. pc' = pc /\ pc # "idle"
      BY <1>0, <2>3 DEF RequestInv, clientVars
    <3>. QED BY <1>0, <1>2, <2>1, <2>3, <3>1 DEF RequestInv
  <2>9. ServerInv'
    BY <2>2, <2>4 DEF ServerInv
  <2>. QED BY <1>3, <2>7, <2>8, <2>9
<1>5. CASE RespondHead \/ RespondBody
  <2>1. /\ \/ response' = [response EXCEPT !.wire = @ \o head] /\ server = "head" /\ server' = "body"
           \/ response' = [response EXCEPT !.wire = @ \o body] /\ server = "body" /\ server' = "close"
        /\ UNCHANGED <<given, clientVars, request, funct, reqHeaders, open, reset>>
    BY <1>5 DEF RespondHead, RespondBody
  <2>2. response' \in [wire : Seq(Chars), queue : Seq(Chars)]
    <3>1. response.wire \o head \in Seq(Chars) /\ response.wire \o body \in Seq(Chars)
      BY <1>0, ConcatInSeq
    <3>2. response \in [wire : Seq(Chars), queue : Seq(Chars)]
      BY DEF Types
    <3>. QED BY <2>1, <3>1, <3>2
  <2>3. Types'
    BY <2>1, <2>2 DEF Types, given, clientVars
  <2>4. RequestInv'
    BY <1>2, <2>1 DEF RequestInv, clientVars
  <2>5. ServerInv'
    BY <2>1 DEF ServerInv
  <2>. QED BY <1>3, <2>3, <2>4, <2>5
<1>6. CASE CloseServer
  <2>1. /\ server = "close" /\ server' = "ended" /\ open' = FALSE
        /\ reset' = (request.queue > 0)
        /\ response' \in IF reset' THEN Kept ELSE {response}
        /\ UNCHANGED <<given, clientVars, request, funct, reqHeaders>>
    BY <1>6 DEF CloseServer
  <2>2. reset' \in BOOLEAN /\ open' \in BOOLEAN
    <3>1. reset' \in BOOLEAN
      BY <2>1
    <3>2. open' \in BOOLEAN
      BY <2>1
    <3>. QED BY <3>1, <3>2
  <2>3. response \in [wire : Seq(Chars), queue : Seq(Chars)]
    BY DEF Types
  <2>4. response' \in [wire : Seq(Chars), queue : Seq(Chars)]
    BY <2>1, <2>3, KeptType
  <2>5. Types'
    BY <2>1, <2>2, <2>4 DEF Types, given, clientVars
  <2>6. RequestInv'
    BY <1>2, <2>1 DEF RequestInv, clientVars
  <2>7. ServerInv'
    BY <2>1 DEF ServerInv
  <2>. QED BY <1>3, <2>5, <2>6, <2>7
<1>7. CASE RequestArrives
  <2>1. PICK n \in 1 .. request.wire :
           request' = [wire |-> request.wire - n,
                       queue |-> IF open THEN request.queue + n ELSE request.queue]
    BY <1>0, <1>7 DEF RequestArrives
  <2>2. /\ reset' = (reset \/ ~open)
        /\ response' \in IF open THEN {response} ELSE Kept
        /\ UNCHANGED <<given, clientVars, serverVars>>
        /\ request.wire > 0
    BY <1>7 DEF RequestArrives
  <2>3. reset' \in BOOLEAN
    BY <2>2
  <2>4. response \in [wire : Seq(Chars), queue : Seq(Chars)]
    BY DEF Types
  <2>5. response' \in [wire : Seq(Chars), queue : Seq(Chars)]
    BY <2>2, <2>4, KeptType
  <2>6. request' \in [wire : Nat, queue : Nat] /\ request'.wire + request'.queue <= request.wire + request.queue
    BY <1>0, <2>1, SMTT(60)
  <2>7. Types'
    BY <2>2, <2>3, <2>5, <2>6 DEF Types, given, clientVars, serverVars
  <2>8. RequestInv'
    <3>1. pc' = pc /\ pc # "idle"
      BY <1>0, <2>2 DEF RequestInv, clientVars
    <3>. QED BY <1>0, <1>2, <2>6, <3>1 DEF RequestInv
  <2>9. ServerInv'
    BY <2>2 DEF ServerInv, serverVars
  <2>. QED BY <1>3, <2>7, <2>8, <2>9
<1>8. CASE ResponseArrives
  <2>1. PICK n \in 1 .. Len(response.wire) :
           response' = [wire |-> SubSeq(response.wire, n + 1, Len(response.wire)),
                        queue |-> response.queue \o SubSeq(response.wire, 1, n)]
    BY <1>8 DEF ResponseArrives
  <2>2. UNCHANGED <<given, clientVars, serverVars, request, reset>>
    BY <1>8 DEF ResponseArrives
  <2>3. /\ SubSeq(response.wire, n + 1, Len(response.wire)) \in Seq(Chars)
        /\ SubSeq(response.wire, 1, n) \in Seq(Chars)
    BY <1>0, LenProperties, PrefixInSeq, SuffixInSeq, SMTT(60)
  <2>4. response' \in [wire : Seq(Chars), queue : Seq(Chars)]
    BY <1>0, <2>1, <2>3, ConcatInSeq
  <2>5. Types'
    BY <2>2, <2>4 DEF Types, given, clientVars, serverVars
  <2>6. RequestInv'
    BY <1>2, <2>2 DEF RequestInv, clientVars, serverVars
  <2>7. ServerInv'
    BY <2>2 DEF ServerInv, serverVars
  <2>. QED BY <1>3, <2>5, <2>6, <2>7
<1>. QED BY <1>4, <1>5, <1>6, <1>7, <1>8 DEF ServerStep, NetworkStep

LEMMA SameTypes ==
    ASSUME TypeInv, UNCHANGED vars
    PROVE  TypeInv'
<1>1. UNCHANGED <<given, clientVars, request, serverVars, response, reset>>
  BY DEF vars
<1>2. RequestHead' = RequestHead /\ WholeRequest' = WholeRequest
  BY <1>1, SameRequest DEF clientVars
<1>3. Types'
  BY <1>1 DEF TypeInv, Types, given, clientVars, serverVars
<1>4. RequestInv'
  BY <1>1, <1>2 DEF TypeInv, RequestInv, clientVars, serverVars
<1>5. ClientInv' /\ ServerInv'
  BY <1>1 DEF TypeInv, ClientInv, ServerInv, clientVars, serverVars
<1>. QED BY <1>3, <1>4, <1>5 DEF TypeInv

LEMMA TypeStep == TypeInv /\ [Next]_vars => TypeInv'
BY ClientTypes, OtherTypes, SameTypes DEF Next

LEMMA TypesHold == Spec => []TypeInv
BY TypeStart, TypeStep, PTL DEF Spec

(* Every variable has its type, however the request and the response are    *)
(* cut into pieces: what a string read knows of its delimiter never exceeds *)
(* it, and parseHeaders finds nothing but fields.                           *)
THEOREM HttpTypeCorrect == Spec => []TypeOK
<1>1. TypeInv => TypeOK
  <2>. SUFFICES ASSUME TypeInv PROVE TypeOK
    OBVIOUS
  <2>1. Types /\ matched \in 0 .. 3
    BY DEF TypeInv, ClientInv
  <2>2. {open, reset} \subseteq BOOLEAN
    BY <2>1 DEF Types
  <2>. QED BY <2>1, <2>2 DEF Types, TypeOK
<1>. QED BY <1>1, TypesHold, PTL

-----------------------------------------------------------------------------
(***************************************************************************)
(* What the server makes of the request.  A write that arrives whole brings *)
(* the whole head of the request, so that the one read of the server's      *)
(* thread gets at least that, or as much of it as the buffer holds.         *)
(***************************************************************************)
Arrived ==
    network = "whole" /\ server = "request" =>
        \/ pc = "idle"
        \/ request.queue = 0 /\ request.wire >= Len(RequestHead)
        \/ request.queue >= Len(RequestHead)

Understood ==
    server # "request" /\ network = "whole" /\ uCount >= Line =>
        /\ funct = "known"
        /\ reqHeaders \subseteq fields \union ToSet(call.message)
        /\ HeadInOnePiece => fields \subseteq reqHeaders

ServedInv == Arrived /\ Understood

LEMMA ServedStart == Init => ServedInv
BY DEF Init, ServedInv, Arrived, Understood

LEMMA ServedStep ==
    ASSUME TypeInv, ServedInv, [Next]_vars
    PROVE  ServedInv'
<1>0. /\ request.wire \in Nat /\ request.queue \in Nat
      /\ request = [wire |-> request.wire, queue |-> request.queue]
      /\ fields \subseteq Fields /\ IsFiniteSet(fields) /\ call \in Calls
      /\ uCount \in Nat /\ Line \in Nat
  BY Sizes DEF TypeInv, Types
<1>1. /\ Len(RequestHead) \in Nat /\ Len(RequestHead) > Line
      /\ Len(WholeRequest) = Len(RequestHead) + Len(call.message)
      /\ \A f \in fields : \E i \in Line + 1 .. Len(RequestHead) : WholeRequest[i] = f
  BY <1>0, HeadParts, RequestParts
<1>2. /\ open <=> server # "ended"
      /\ pc = "idle" => request = [wire |-> 0, queue |-> 0] /\ server = "request"
  BY DEF TypeInv, ServerInv, RequestInv
<1>3. ASSUME UNCHANGED <<given, fields, call>>
      PROVE  RequestHead' = RequestHead /\ HeadInOnePiece' = HeadInOnePiece /\ network' = network
  BY <1>3, SameRequest DEF HeadInOnePiece, given
<1>4. ASSUME NEW f \in Fields, AddHeader(f) \/ ClearHeaders
      PROVE  ServedInv'
  BY <1>2, <1>4 DEF AddHeader, ClearHeaders, ServedInv, Arrived, Understood, serverVars
<1>5. CASE ClearHeaders
  BY <1>4, <1>5, Sizes
<1>6. CASE WriteRequest
  <2>1. /\ pc = "idle" /\ UNCHANGED <<given, fields, call, serverVars>>
        /\ request' = [request EXCEPT !.wire = Len(RequestHead)]
    BY <1>6 DEF WriteRequest
  <2>2. request' = [wire |-> Len(RequestHead), queue |-> 0] /\ server' = "request"
    BY <1>2, <2>1 DEF serverVars
  <2>. QED BY <1>1, <1>3, <2>1, <2>2 DEF ServedInv, Arrived, Understood
<1>7. CASE WriteMessage
  <2>1. /\ pc = "message" /\ UNCHANGED <<given, fields, call, serverVars>>
        /\ \/ request' = [wire |-> request.wire + Len(call.message), queue |-> request.queue]
           \/ request' = request
    BY <1>0, <1>7 DEF WriteMessage
  <2>2. Len(call.message) \in Nat
    BY <1>0, MessageFacts
  <2>3. Arrived'
    BY <1>0, <1>1, <1>3, <2>1, <2>2 DEF ServedInv, Arrived, serverVars
  <2>4. Understood'
    BY <1>3, <2>1 DEF ServedInv, Understood, serverVars
  <2>. QED BY <2>3, <2>4 DEF ServedInv
<1>8. ASSUME ReadChar \/ ReadBlock \/ ReadNothing
      PROVE  ServedInv'
  <2>1. /\ pc # "idle"
        /\ UNCHANGED <<given, fields, call, request, serverVars>>
    BY <1>8 DEF ReadChar, ReadBlock, ReadNothing, EndOfData, AtEnd, Reading
  <2>. QED BY <1>3, <2>1 DEF ServedInv, Arrived, Understood, serverVars
<1>9. CASE ServeRequest
  <2>1. /\ Received \in Nat /\ Received <= uCount /\ Received <= request.queue
        /\ FieldsIn(Received) \subseteq fields \union (ToSet(call.message) \ {"text"})
    BY FieldsFound DEF TypeInv
  <2>2. PICK f \in Recognised(Received) :
           /\ funct' = f
           /\ reqHeaders' = IF f = "known" THEN FieldsIn(Received) ELSE reqHeaders
           /\ server' = IF f = "undefined" THEN "ended" ELSE "head"
    BY <1>9 DEF ServeRequest
  <2>3. /\ server = "request" /\ request.queue > 0
        /\ UNCHANGED <<given, clientVars>>
    BY <1>9 DEF ServeRequest
  <2>4. UNCHANGED <<given, fields, call>>
    BY <2>3 DEF clientVars
  <2>5. server' # "request"
    BY <2>2
  <2>6. Arrived'
    BY <2>5 DEF Arrived
  <2>7. ASSUME network = "whole", uCount >= Line
        PROVE  /\ funct' = "known"
               /\ reqHeaders' \subseteq fields \union ToSet(call.message)
               /\ HeadInOnePiece => fields \subseteq reqHeaders'
    <3>1. request.queue >= Len(RequestHead)
      BY <1>0, <1>2, <2>3, <2>7 DEF ServedInv, Arrived
    <3>2. ~(Received < Line)
      BY <1>0, <1>1, <2>7, <3>1 DEF Received
    <3>3. funct' = "known" /\ reqHeaders' = FieldsIn(Received)
      BY <2>2, <3>2 DEF Recognised
    <3>4. ASSUME HeadInOnePiece, NEW g \in fields
          PROVE  g \in FieldsIn(Received)
      <4>1. PICK i \in Line + 1 .. Len(RequestHead) : WholeRequest[i] = g
        BY <1>1
      <4>2. Len(RequestHead) <= Received
        BY <1>0, <1>1, <3>1, <3>4 DEF Received, HeadInOnePiece
      <4>3. i \in Line + 1 .. Received
        BY <1>0, <1>1, <2>1, <4>2
      <4>4. g \notin {"blank", "text"}
        BY <1>0, Sizes
      <4>. QED BY <4>1, <4>3, <4>4 DEF FieldsIn
    <3>. QED BY <2>1, <3>3, <3>4
  <2>8. Understood'
    BY <1>3, <2>4, <2>7 DEF Understood
  <2>. QED BY <2>6, <2>8 DEF ServedInv
<1>10. ASSUME RespondHead \/ RespondBody \/ CloseServer
       PROVE  ServedInv'
  <2>1. /\ UNCHANGED <<given, clientVars, request, funct, reqHeaders>>
        /\ server # "request" /\ server' # "request"
    BY <1>10 DEF RespondHead, RespondBody, CloseServer
  <2>2. UNCHANGED <<given, fields, call>>
    BY <2>1 DEF clientVars
  <2>. QED BY <1>3, <2>1, <2>2 DEF ServedInv, Arrived, Understood
<1>11. CASE RequestArrives
  <2>1. PICK n \in (IF network = "whole" THEN {request.wire} ELSE 1 .. request.wire) :
           request' = [wire |-> request.wire - n,
                       queue |-> IF open THEN request.queue + n ELSE request.queue]
    BY <1>11 DEF RequestArrives
  <2>2. UNCHANGED <<given, clientVars, serverVars>>
    BY <1>11 DEF RequestArrives
  <2>3. UNCHANGED <<given, fields, call, pc, server, funct, reqHeaders>>
    BY <2>2 DEF clientVars, serverVars
  <2>4. ASSUME network = "whole", server = "request"
        PROVE  request'.wire = 0 /\ request'.queue = request.queue + request.wire
    BY <1>0, <1>2, <2>1, <2>4
  <2>5. Arrived'
    BY <1>0, <1>1, <1>3, <2>3, <2>4 DEF ServedInv, Arrived
  <2>6. Understood'
    BY <1>3, <2>3 DEF ServedInv, Understood
  <2>. QED BY <2>5, <2>6 DEF ServedInv
<1>12. ASSUME ResponseArrives \/ UNCHANGED vars
       PROVE  ServedInv'
  <2>1. UNCHANGED <<given, clientVars, serverVars, request>>
    BY <1>12 DEF ResponseArrives, vars
  <2>2. UNCHANGED <<given, fields, call, pc, server, funct, reqHeaders>>
    BY <2>1 DEF clientVars, serverVars
  <2>. QED BY <1>3, <2>1, <2>2 DEF ServedInv, Arrived, Understood
<1>. QED BY <1>4, <1>5, <1>6, <1>7, <1>8, <1>9, <1>10, <1>11, <1>12
       DEF Next, ClientStep, ServerStep, NetworkStep

LEMMA ServedHolds == Spec => []ServedInv
<1>1. TypeInv /\ ServedInv /\ [Next]_vars => ServedInv'
  BY ServedStep
<1>. QED BY <1>1, ServedStart, TypesHold, PTL DEF Spec

(* request() recognises a request whose head arrives in one piece, whatever *)
(* the buffer holds of it; no field it finds comes from anywhere but the    *)
(* client and the message, and none is lost if the buffer holds the head.   *)
THEOREM RequestIsUnderstood == Spec => []RequestUnderstood
<1>1. TypeInv /\ ServedInv => RequestUnderstood
  BY DEF TypeInv, ServerInv, ServedInv, Understood, RequestUnderstood
<1>. QED BY <1>1, TypesHold, ServedHolds, PTL

-----------------------------------------------------------------------------
(***************************************************************************)
(* The response.  What was read, what has arrived and what is on its way    *)
(* are together what the server's thread has written; after the connection  *)
(* ended it may be less, the end of it having been lost.                    *)
(***************************************************************************)
Text == head \o body
Taken == headers \o content
Stream == Taken \o (response.queue \o response.wire)

SentBy(s) == IF s \in {"request", "head"} THEN <<>> ELSE IF s = "body" THEN head ELSE Text

StreamInv == IF open THEN Stream = SentBy(server) ELSE IsPrefix(Stream, Text)

LEMMA Associative ==
    \A a, b, c \in Seq(Chars) : (a \o b) \o c = a \o (b \o c)
BY ConcatAssociative

LEMMA Together ==
    \A a, b \in Seq(Chars) :
        a \o b \in Seq(Chars) /\ IsPrefix(a, a \o b) /\ a \o <<>> = a /\ <<>> \o a = a
BY ConcatInSeq, PrefixOfConcat, ConcatEmptySeq

LEMMA StreamTypes ==
    ASSUME Types
    PROVE  /\ head \in Seq(Chars) /\ body \in Seq(Chars) /\ Text \in Seq(Chars)
           /\ headers \in Seq(Chars) /\ content \in Seq(Chars) /\ Taken \in Seq(Chars)
           /\ response.queue \in Seq(Chars) /\ response.wire \in Seq(Chars)
           /\ response.queue \o response.wire \in Seq(Chars)
           /\ Stream \in Seq(Chars)
           /\ \A s : SentBy(s) \in Seq(Chars)
<1>1. head \in Seq(Chars) /\ body \in Seq(Chars)
  BY TextFacts DEF Types
<1>2. /\ headers \in Seq(Chars) /\ content \in Seq(Chars)
      /\ response.queue \in Seq(Chars) /\ response.wire \in Seq(Chars)
  BY DEF Types
<1>3. Text \in Seq(Chars) /\ Taken \in Seq(Chars) /\ response.queue \o response.wire \in Seq(Chars)
  BY <1>1, <1>2, Together DEF Text, Taken
<1>4. Stream \in Seq(Chars)
  BY <1>2, <1>3, Together DEF Stream
<1>5. \A s : SentBy(s) \in Seq(Chars)
  BY <1>1, <1>3, EmptySeq DEF SentBy
<1>. QED BY <1>1, <1>2, <1>3, <1>4, <1>5

(* The server's thread never sends more than the response. *)
LEMMA StreamIsPrefix ==
    ASSUME Types, StreamInv
    PROVE  IsPrefix(Stream, Text) /\ IsPrefix(Taken, Text)
<1>0. /\ head \in Seq(Chars) /\ body \in Seq(Chars) /\ Text \in Seq(Chars)
      /\ Taken \in Seq(Chars) /\ response.queue \o response.wire \in Seq(Chars)
      /\ Stream \in Seq(Chars)
  BY StreamTypes
<1>1. IsPrefix(<<>>, Text) /\ IsPrefix(head, Text) /\ IsPrefix(Text, Text)
  <2>1. <<>> \in Seq(Chars)
    BY EmptySeq
  <2>2. <<>> \o Text = Text /\ Text \o <<>> = Text
    BY <1>0, Together
  <2>. QED BY <1>0, <2>1, <2>2, Together DEF Text
<1>2. IsPrefix(Stream, Text)
  BY <1>1 DEF StreamInv, SentBy
<1>3. IsPrefix(Taken, Stream)
  BY <1>0, Together DEF Stream
<1>. QED BY <1>0, <1>2, <1>3, PrefixOfPrefix

(* A step of the client that takes the next character. *)
LEMMA ReadTakes ==
    ASSUME TypeInv, ReadChar
    PROVE  /\ Head(response.queue) \in Chars
           /\ Taken' = Append(Taken, Head(response.queue))
           /\ Stream' = Stream
           /\ pc = "headers" => Taken = headers /\ Taken' = headers'
<1>. DEFINE q == response.queue
            w == response.wire
            c == Head(q)
<1>1. /\ headers \in Seq(Chars) /\ content \in Seq(Chars) /\ Taken \in Seq(Chars)
      /\ q \in Seq(Chars) /\ w \in Seq(Chars)
  BY StreamTypes DEF TypeInv
<1>2. /\ pc \in {"headers", "content"} /\ q # <<>>
      /\ IF pc = "headers"
         THEN headers' = Append(headers, c) /\ UNCHANGED content
         ELSE content' = Append(content, c) /\ UNCHANGED headers
      /\ response'.queue = Tail(q) /\ response'.wire = w
  BY DEF ReadChar, TypeInv, Types
<1>3. c \in Chars /\ Tail(q) \in Seq(Chars)
  BY <1>1, <1>2, FirstAndRest
<1>4. Append(Taken, c) \in Seq(Chars) /\ Append(Taken, c) \o Tail(q) = Taken \o q
  BY <1>1, <1>2, MoveHead
<1>5. pc = "headers" => content = <<>>
  BY DEF TypeInv, ClientInv
<1>6. Taken' = Append(Taken, c) /\ (pc = "headers" => Taken = headers /\ Taken' = headers')
  <2>1. CASE pc = "headers"
    <3>1. Append(headers, c) \in Seq(Chars)
      BY <1>1, <1>3, AppendProperties
    <3>2. headers \o <<>> = headers /\ Append(headers, c) \o <<>> = Append(headers, c)
      BY <1>1, <3>1, Together
    <3>. QED BY <1>2, <1>5, <2>1, <3>2 DEF Taken
  <2>2. CASE pc = "content"
    <3>1. headers \o Append(content, c) = Append(headers \o content, c)
      BY <1>1, <1>3, ConcatAppend
    <3>. QED BY <1>2, <2>2, <3>1 DEF Taken
  <2>. QED BY <1>2, <2>1, <2>2
<1>. HIDE DEF q, w, c
<1>7. Append(Taken, c) \o (Tail(q) \o w) = Taken \o (q \o w)
  <2>1. Append(Taken, c) \o (Tail(q) \o w) = (Append(Taken, c) \o Tail(q)) \o w
    BY <1>1, <1>3, <1>4, Associative, ZenonT(60)
  <2>2. Taken \o (q \o w) = (Taken \o q) \o w
    BY <1>1, Associative, ZenonT(60)
  <2>. QED BY <1>4, <2>1, <2>2
<1>. USE DEF q, w, c
<1>8. Stream' = Stream
  BY <1>2, <1>6, <1>7 DEF Stream
<1>. QED BY <1>3, <1>6, <1>8

LEMMA BlockTakes ==
    ASSUME TypeInv, ReadBlock
    PROVE  /\ Stream' = Stream
           /\ headers' = <<>> /\ content' # <<>>
<1>. DEFINE q == response.queue
            w == response.wire
            n == IF Len(q) < Room THEN Len(q) ELSE Room
            s == SubSeq(q, 1, n)
            t == SubSeq(q, n + 1, Len(q))
<1>1. q \in Seq(Chars) /\ w \in Seq(Chars) /\ Len(q) \in Nat
  BY StreamTypes, LenProperties DEF TypeInv
<1>2. /\ pc = "block" /\ q # <<>> /\ headers = <<>> /\ content = <<>> /\ headers' = headers
      /\ content' = s /\ response'.queue = t /\ response'.wire = w
  BY DEF ReadBlock, TypeInv, Types, ClientInv
<1>3. n \in 1 .. Len(q)
  <2>1. Len(q) \in Nat \ {0}
    BY <1>1, <1>2, EmptySeq
  <2>. QED BY <2>1, Sizes
<1>4. s \in Seq(Chars) /\ Len(s) = n /\ t \in Seq(Chars)
  BY <1>1, <1>3, PrefixInSeq, SuffixInSeq
<1>. HIDE DEF q, w, n
<1>5. s \o t = q
  <2>1. n \in 0 .. Len(q)
    BY <1>1, <1>3
  <2>. QED BY <1>1, <2>1, CutInTwo
<1>. HIDE DEF s, t
<1>6. (<<>> \o s) \o (t \o w) = (<<>> \o <<>>) \o (q \o w)
  <2>1. <<>> \in Seq(Chars) /\ q \o w \in Seq(Chars)
    BY <1>1, EmptySeq, Together
  <2>2. <<>> \o s = s /\ <<>> \o <<>> = <<>> /\ <<>> \o (q \o w) = q \o w
    BY <1>4, <2>1, Together
  <2>3. s \o (t \o w) = (s \o t) \o w
    BY <1>1, <1>4, Associative, ZenonT(60)
  <2>. QED BY <1>5, <2>2, <2>3
<1>7. s # <<>>
  BY <1>3, <1>4
<1>8. Stream' = (<<>> \o s) \o (t \o w) /\ Stream = (<<>> \o <<>>) \o (q \o w)
  BY <1>2 DEF Stream, Taken, q, w
<1>. QED BY <1>2, <1>6, <1>7, <1>8

(* What is lost is lost at the end. *)
LEMMA StreamKept ==
    ASSUME Types, response' \in Kept, UNCHANGED <<headers, content>>
    PROVE  Stream' \in Seq(Chars) /\ IsPrefix(Stream', Stream)
<1>. DEFINE q == response.queue
            w == response.wire
            r == Taken
<1>1. q \in Seq(Chars) /\ w \in Seq(Chars) /\ Len(w) \in Nat /\ r \in Seq(Chars)
  BY StreamTypes, LenProperties
<1>2. PICK n \in 0 .. Len(w) : response'.queue = q /\ response'.wire = SubSeq(w, 1, n)
  BY KeptType DEF Types
<1>3. SubSeq(w, 1, n) \in Seq(Chars) /\ SubSeq(w, n + 1, Len(w)) \in Seq(Chars)
  BY <1>1, PrefixInSeq, SuffixInSeq
<1>4. PICK u, v \in Seq(Chars) : u = SubSeq(w, 1, n) /\ w = u \o v
  BY <1>1, <1>3, CutInTwo
<1>5. Taken' = r
  BY DEF Taken
<1>6. Stream' = r \o (q \o u) /\ Stream = r \o (q \o (u \o v))
  BY <1>2, <1>4, <1>5 DEF Stream
<1>. HIDE DEF q, w, r
<1>7. q \o u \in Seq(Chars) /\ r \o (q \o u) \in Seq(Chars)
  <2>1. q \o u \in Seq(Chars)
    BY <1>1, Together
  <2>. QED BY <1>1, <2>1, Together
<1>8. r \o (q \o (u \o v)) = (r \o (q \o u)) \o v
  <2>. DEFINE qu == q \o u
  <2>1. q \in Seq(Chars) /\ r \in Seq(Chars) /\ qu \in Seq(Chars) /\ u \in Seq(Chars) /\ v \in Seq(Chars)
    BY <1>1, <1>7
  <2>2. q \o (u \o v) = qu \o v
    BY <2>1, Associative, ZenonT(60)
  <2>. HIDE DEF qu
  <2>3. (r \o qu) \o v = r \o (qu \o v)
    BY <2>1, Associative, ZenonT(60)
  <2>. QED BY <2>2, <2>3 DEF qu
<1>. QED BY <1>6, <1>7, <1>8, Together

(* What arrives was on its way. *)
LEMMA StreamArrives ==
    ASSUME TypeInv, ResponseArrives
    PROVE  Stream' = Stream
<1>. DEFINE q == response.queue
            w == response.wire
<1>1. q \in Seq(Chars) /\ w \in Seq(Chars) /\ Len(w) \in Nat
  BY StreamTypes, LenProperties DEF TypeInv
<1>2. PICK n \in 1 .. Len(w) : response' = [wire |-> SubSeq(w, n + 1, Len(w)), queue |-> q \o SubSeq(w, 1, n)]
  BY DEF ResponseArrives
<1>3. SubSeq(w, 1, n) \in Seq(Chars) /\ SubSeq(w, n + 1, Len(w)) \in Seq(Chars)
  BY <1>1, PrefixInSeq, SuffixInSeq
<1>4. PICK u, v \in Seq(Chars) : u = SubSeq(w, 1, n) /\ v = SubSeq(w, n + 1, Len(w)) /\ w = u \o v
  <2>1. n \in 0 .. Len(w)
    BY <1>1
  <2>2. SubSeq(w, 1, n) \o SubSeq(w, n + 1, Len(w)) = w
    BY <1>1, <2>1, CutInTwo
  <2>. QED BY <1>3, <2>2
<1>5. Taken' = Taken
  BY SMTT(60) DEF ResponseArrives, clientVars, Taken
<1>6. Stream' = Taken \o ((q \o u) \o v) /\ Stream = Taken \o (q \o (u \o v))
  BY <1>2, <1>4, <1>5 DEF Stream
<1>. HIDE DEF q, w
<1>7. (q \o u) \o v = q \o (u \o v)
  BY <1>1, Associative, ZenonT(60)
<1>. QED BY <1>6, <1>7

(* What the thread writes is on its way behind all the rest. *)
LEMMA StreamWritten ==
    ASSUME Types, NEW t \in Seq(Chars), UNCHANGED <<headers, content>>,
           response'.queue = response.queue, response'.wire = response.wire \o t
    PROVE  Stream' = Stream \o t
<1>. DEFINE q == response.queue
            w == response.wire
            r == Taken
<1>1. q \in Seq(Chars) /\ w \in Seq(Chars) /\ r \in Seq(Chars) /\ q \o w \in Seq(Chars)
  BY StreamTypes
<1>2. Taken' = r
  BY DEF Taken
<1>3. Stream' = r \o (q \o (w \o t)) /\ Stream = r \o (q \o w)
  BY <1>2 DEF Stream
<1>. HIDE DEF q, w, r
<1>4. q \o (w \o t) = (q \o w) \o t
  BY <1>1, Associative, ZenonT(60)
<1>5. r \o ((q \o w) \o t) = (r \o (q \o w)) \o t
  BY <1>1, Associative, ZenonT(60)
<1>. QED BY <1>3, <1>4, <1>5

LEMMA StreamStart == Init => StreamInv
<1>1. <<>> \o <<>> = <<>>
  BY Together, EmptySeq
<1>. QED BY <1>1 DEF Init, StreamInv, SentBy, Stream, Taken

LEMMA StreamStep ==
    ASSUME TypeInv, StreamInv, [Next]_vars
    PROVE  StreamInv'
<1>0. /\ head \in Seq(Chars) /\ body \in Seq(Chars) /\ Text \in Seq(Chars) /\ Stream \in Seq(Chars)
      /\ Types
  BY StreamTypes DEF TypeInv
<1>1. IsPrefix(Stream, Text)
  BY <1>0, StreamIsPrefix
<1>2. (open <=> server # "ended") /\ server \in {"request", "head", "body", "close", "ended"}
  BY DEF TypeInv, ServerInv, Types
<1>3. given' = given
  BY DEF Next, AddHeader, ClearHeaders, WriteRequest, ClientStep, WriteMessage, ReadChar, ReadBlock,
         ReadNothing, ServerStep, ServeRequest, RespondHead, RespondBody, CloseServer,
         NetworkStep, RequestArrives, ResponseArrives, vars
<1>4. Text' = Text /\ head' = head
  BY <1>3 DEF given, Text
<1>5. ASSUME Stream' = Stream, UNCHANGED <<server, open>>
      PROVE  StreamInv'
  BY <1>4, <1>5 DEF StreamInv, SentBy
<1>6. ASSUME \/ (\E f \in Fields : AddHeader(f)) \/ ClearHeaders \/ WriteRequest \/ WriteMessage
             \/ ReadNothing \/ UNCHANGED vars
      PROVE  StreamInv'
  <2>1. UNCHANGED <<headers, content, response, serverVars>>
    BY <1>6 DEF AddHeader, ClearHeaders, WriteRequest, WriteMessage, ReadNothing, vars, clientVars
  <2>2. Stream' = Stream
    BY <2>1 DEF Stream, Taken
  <2>. QED BY <1>5, <2>1, <2>2 DEF serverVars
<1>7. ASSUME ReadChar \/ ReadBlock
      PROVE  StreamInv'
  <2>1. Stream' = Stream
    BY <1>7, ReadTakes, BlockTakes
  <2>2. UNCHANGED serverVars
    BY <1>7 DEF ReadChar, ReadBlock
  <2>. QED BY <1>5, <2>1, <2>2 DEF serverVars
<1>8. CASE ServeRequest
  <2>1. /\ server = "request" /\ open
        /\ (server' = "head" /\ open') \/ (server' = "ended" /\ ~open')
        /\ UNCHANGED <<headers, content, response>>
    BY <1>2, <1>8 DEF ServeRequest, clientVars
  <2>2. Stream' = Stream
    BY <2>1 DEF Stream, Taken
  <2>3. Stream = <<>>
    BY <2>1 DEF StreamInv, SentBy
  <2>. QED BY <1>1, <1>4, <2>1, <2>2, <2>3 DEF StreamInv, SentBy
<1>9. CASE RespondHead
  <2>1. /\ server = "head" /\ server' = "body" /\ open' = open /\ open
        /\ response'.queue = response.queue /\ response'.wire = response.wire \o head
        /\ UNCHANGED <<headers, content>>
    BY <1>0, <1>2, <1>9 DEF RespondHead, clientVars, Types
  <2>2. Stream' = Stream \o head
    BY <1>0, <2>1, StreamWritten
  <2>3. Stream = <<>> /\ <<>> \o head = head
    BY <1>0, <2>1, Together DEF StreamInv, SentBy
  <2>. QED BY <1>4, <2>1, <2>2, <2>3 DEF StreamInv, SentBy
<1>10. CASE RespondBody
  <2>1. /\ server = "body" /\ server' = "close" /\ open' = open /\ open
        /\ response'.queue = response.queue /\ response'.wire = response.wire \o body
        /\ UNCHANGED <<headers, content>>
    BY <1>0, <1>2, <1>10 DEF RespondBody, clientVars, Types
  <2>2. Stream' = Stream \o body
    BY <1>0, <2>1, StreamWritten
  <2>3. Stream = head
    BY <2>1 DEF StreamInv, SentBy
  <2>. QED BY <1>4, <2>1, <2>2, <2>3 DEF StreamInv, SentBy, Text
<1>11. CASE CloseServer
  <2>1. /\ ~open' /\ UNCHANGED <<headers, content>>
        /\ response' \in Kept \/ response' = response
    BY <1>11 DEF CloseServer, clientVars
  <2>2. CASE response' \in Kept
    <3>1. Stream' \in Seq(Chars) /\ IsPrefix(Stream', Stream)
      BY <1>0, <2>1, <2>2, StreamKept
    <3>2. IsPrefix(Stream', Text)
      BY <1>0, <1>1, <3>1, PrefixOfPrefix
    <3>. QED BY <1>4, <2>1, <3>2 DEF StreamInv
  <2>3. CASE response' = response
    <3>1. Stream' = Stream
      BY <2>1, <2>3 DEF Stream, Taken
    <3>. QED BY <1>1, <1>4, <2>1, <3>1 DEF StreamInv
  <2>. QED BY <2>1, <2>2, <2>3
<1>12. CASE RequestArrives
  <2>1. /\ UNCHANGED <<headers, content, server, open>>
        /\ response' \in IF open THEN {response} ELSE Kept
    BY <1>12 DEF RequestArrives, clientVars, serverVars
  <2>2. CASE open
    <3>1. Stream' = Stream
      BY <2>1, <2>2 DEF Stream, Taken
    <3>. QED BY <1>5, <2>1, <3>1
  <2>3. CASE ~open
    <3>1. Stream' \in Seq(Chars) /\ IsPrefix(Stream', Stream)
      BY <1>0, <2>1, <2>3, StreamKept
    <3>2. IsPrefix(Stream', Text)
      BY <1>0, <1>1, <3>1, PrefixOfPrefix
    <3>. QED BY <1>4, <2>1, <2>3, <3>2 DEF StreamInv
  <2>. QED BY <2>2, <2>3
<1>13. CASE ResponseArrives
  <2>1. Stream' = Stream /\ UNCHANGED <<server, open>>
    BY <1>13, StreamArrives DEF ResponseArrives, serverVars
  <2>. QED BY <1>5, <2>1
<1>. QED BY <1>6, <1>7, <1>8, <1>9, <1>10, <1>11, <1>12, <1>13
       DEF Next, ClientStep, ServerStep, NetworkStep

LEMMA StreamHolds == Spec => []StreamInv
<1>1. TypeInv /\ StreamInv /\ [Next]_vars => StreamInv'
  BY StreamStep
<1>. QED BY <1>1, StreamStart, TypesHold, PTL DEF Spec

-----------------------------------------------------------------------------
(***************************************************************************)
(* How a string read finds its delimiter.  In a text in which no "cr"       *)
(* follows another, `matched' is the length of the longest beginning of the *)
(* delimiter that what was read ends with: restarting at 0 misses nothing.  *)
(***************************************************************************)
EndsCr(t) == Len(t) >= 1 /\ t[Len(t)] = "cr"
EndsLine(t) == Len(t) >= 2 /\ t[Len(t) - 1] = "cr" /\ t[Len(t)] = "lf"
EndsLineCr(t) == /\ Len(t) >= 3
                 /\ t[Len(t) - 2] = "cr" /\ t[Len(t) - 1] = "lf" /\ t[Len(t)] = "cr"
EndsBlank(t) == /\ Len(t) >= 4
                /\ t[Len(t) - 3] = "cr" /\ t[Len(t) - 2] = "lf"
                /\ t[Len(t) - 1] = "cr" /\ t[Len(t)] = "lf"

Tracks(t, m) ==
    /\ m \in 0 .. 4
    /\ m = 1 => EndsCr(t)
    /\ m = 2 => EndsLine(t)
    /\ m = 3 => EndsLineCr(t)
    /\ m = 4 => EndsBlank(t)
    /\ EndsCr(t) => m \in {1, 3}
    /\ EndsLine(t) => m \in {2, 4}
    /\ EndsLineCr(t) => m = 3
    /\ EndsBlank(t) => m = 4

(* The first n characters have no end of a line. *)
NoLine(t, n) == \A i \in 1 .. n - 1 : ~(t[i] = "cr" /\ t[i + 1] = "lf")

LEMMA LineAtEnd ==
    ASSUME NEW t \in Seq(Chars)
    PROVE  IsSuffix(CrLf, t) <=> EndsLine(t)
<1>1. Len(t) \in Nat
  BY LenProperties
<1>2. IsSuffix(CrLf, t) <=> 2 <= Len(t) /\ \A i \in 1 .. 2 : CrLf[i] = t[Len(t) - 2 + i]
  <2>1. CrLf \in Seq(Chars) /\ Len(CrLf) = 2
    BY Delimiters
  <2>2. IsSuffix(CrLf, t) <=> /\ Len(CrLf) <= Len(t)
                             /\ \A i \in 1 .. Len(CrLf) : CrLf[i] = t[Len(t) - Len(CrLf) + i]
    BY <2>1, SuffixElements
  <2>. QED BY <2>1, <2>2
<1>3. (\A i \in 1 .. 2 : CrLf[i] = t[Len(t) - 2 + i])
         <=> CrLf[1] = t[Len(t) - 2 + 1] /\ CrLf[2] = t[Len(t) - 2 + 2]
  OBVIOUS
<1>4. Len(t) - 2 + 1 = Len(t) - 1 /\ Len(t) - 2 + 2 = Len(t)
  BY <1>1
<1>. QED BY <1>1, <1>2, <1>3, <1>4, Delimiters DEF EndsLine

LEMMA BlankAtEnd ==
    ASSUME NEW t \in Seq(Chars)
    PROVE  IsSuffix(BlankLine, t) <=> EndsBlank(t)
<1>1. Len(t) \in Nat
  BY LenProperties
<1>2. IsSuffix(BlankLine, t) <=> 4 <= Len(t) /\ \A i \in 1 .. 4 : BlankLine[i] = t[Len(t) - 4 + i]
  <2>1. BlankLine \in Seq(Chars) /\ Len(BlankLine) = 4
    BY Delimiters
  <2>2. IsSuffix(BlankLine, t) <=> /\ Len(BlankLine) <= Len(t)
                             /\ \A i \in 1 .. Len(BlankLine) : BlankLine[i] = t[Len(t) - Len(BlankLine) + i]
    BY <2>1, SuffixElements
  <2>. QED BY <2>1, <2>2
<1>3. (\A i \in 1 .. 4 : BlankLine[i] = t[Len(t) - 4 + i])
         <=> /\ BlankLine[1] = t[Len(t) - 4 + 1] /\ BlankLine[2] = t[Len(t) - 4 + 2]
             /\ BlankLine[3] = t[Len(t) - 4 + 3] /\ BlankLine[4] = t[Len(t) - 4 + 4]
  OBVIOUS
<1>4. /\ Len(t) - 4 + 1 = Len(t) - 3 /\ Len(t) - 4 + 2 = Len(t) - 2
      /\ Len(t) - 4 + 3 = Len(t) - 1 /\ Len(t) - 4 + 4 = Len(t)
  BY <1>1
<1>. QED BY <1>1, <1>2, <1>3, <1>4, Delimiters DEF EndsBlank

(* The only blank line of a head is its end, and it has one. *)
LEMMA HeadEnds ==
    ASSUME head \in Heads, NEW t \in Seq(Chars), IsPrefix(t, head)
    PROVE  /\ EndsBlank(t) <=> Len(t) = Len(head)
           /\ Len(head) \in Nat /\ Len(head) > 0
<1>1. head \in Seq(Chars) /\ Len(head) \in Nat /\ Len(t) \in 0 .. Len(head)
  BY HeadAssumption, LenProperties DEF IsPrefix
<1>2. SubSeq(head, 1, Len(t)) = t
  BY SubSeqFull DEF IsPrefix
<1>3. EndsBlank(t) <=> Len(t) = Len(head)
  BY <1>1, <1>2, BlankAtEnd, HeadAssumption
<1>4. Len(head) > 0
  <2>1. SubSeq(head, 1, 0) = <<>>
    BY SubSeqEmpty
  <2>2. 0 \in 0 .. Len(head)
    BY <1>1
  <2>3. IsSuffix(BlankLine, <<>>) <=> 0 = Len(head)
    BY <2>1, <2>2, HeadAssumption
  <2>4. ~EndsBlank(<<>>)
    BY DEF EndsBlank
  <2>5. <<>> \in Seq(Chars)
    BY EmptySeq
  <2>. QED BY <1>1, <2>3, <2>4, <2>5, BlankAtEnd
<1>. QED BY <1>1, <1>3, <1>4

LEMMA Appended ==
    ASSUME NEW t \in Seq(Chars), NEW c \in Chars
    PROVE  /\ Len(t) \in Nat
           /\ Append(t, c) \in Seq(Chars) /\ Len(Append(t, c)) = Len(t) + 1
           /\ \A i \in 1 .. Len(t) : Append(t, c)[i] = t[i]
           /\ Append(t, c)[Len(t) + 1] = c
           /\ EndsCr(Append(t, c)) <=> c = "cr"
           /\ EndsLine(Append(t, c)) <=> EndsCr(t) /\ c = "lf"
           /\ EndsLineCr(Append(t, c)) <=> EndsLine(t) /\ c = "cr"
           /\ EndsBlank(Append(t, c)) <=> EndsLineCr(t) /\ c = "lf"
<1>. DEFINE u == Append(t, c)
<1>1. /\ Len(t) \in Nat /\ u \in Seq(Chars) /\ Len(u) = Len(t) + 1
      /\ \A i \in 1 .. Len(t) : u[i] = t[i]
      /\ u[Len(t) + 1] = c
  BY LenProperties, AppendProperties
<1>. HIDE DEF u
<1>2. u[Len(u)] = c
  BY <1>1
<1>3. /\ Len(t) >= 1 => u[Len(u) - 1] = t[Len(t)]
      /\ Len(t) >= 2 => u[Len(u) - 2] = t[Len(t) - 1]
      /\ Len(t) >= 3 => u[Len(u) - 3] = t[Len(t) - 2]
  <2>1. Len(u) - 1 = Len(t) /\ Len(u) - 2 = Len(t) - 1 /\ Len(u) - 3 = Len(t) - 2
    BY <1>1
  <2>2. /\ Len(t) >= 1 => Len(t) \in 1 .. Len(t)
        /\ Len(t) >= 2 => Len(t) - 1 \in 1 .. Len(t)
        /\ Len(t) >= 3 => Len(t) - 2 \in 1 .. Len(t)
    BY <1>1
  <2>. QED BY <1>1, <2>1, <2>2
<1>4. EndsCr(u) <=> c = "cr"
  BY <1>1, <1>2 DEF EndsCr
<1>5. EndsLine(u) <=> EndsCr(t) /\ c = "lf"
  <2>1. Len(u) >= 2 <=> Len(t) >= 1
    BY <1>1
  <2>. QED BY <1>2, <1>3, <2>1 DEF EndsCr, EndsLine
<1>6. EndsLineCr(u) <=> EndsLine(t) /\ c = "cr"
  <2>1. (Len(u) >= 3 <=> Len(t) >= 2) /\ (Len(t) >= 2 => Len(t) >= 1)
    BY <1>1
  <2>. QED BY <1>2, <1>3, <2>1 DEF EndsLine, EndsLineCr
<1>7. EndsBlank(u) <=> EndsLineCr(t) /\ c = "lf"
  <2>1. (Len(u) >= 4 <=> Len(t) >= 3) /\ (Len(t) >= 3 => Len(t) >= 1 /\ Len(t) >= 2)
    BY <1>1
  <2>. QED BY <1>2, <1>3, <2>1 DEF EndsLineCr, EndsBlank
<1>. QED BY <1>1, <1>4, <1>5, <1>6, <1>7 DEF u

(* The ends exclude each other as their last characters do. *)
LEMMA EndsApart ==
    ASSUME NEW t
    PROVE  /\ EndsLine(t) \/ EndsBlank(t) => ~EndsCr(t) /\ ~EndsLineCr(t)
           /\ EndsLineCr(t) => EndsCr(t)
BY DEF EndsCr, EndsLine, EndsLineCr, EndsBlank

LEMMA TracksStep ==
    ASSUME NEW t \in Seq(Chars), NEW c \in Chars, NEW m \in 0 .. 3, Tracks(t, m),
           ~(EndsCr(t) /\ c = "cr")
    PROVE  Tracks(Append(t, c), Matched(BlankLine, m, c))
<1>. DEFINE u == Append(t, c)
            n == Matched(BlankLine, m, c)
<1>1. /\ EndsCr(u) <=> c = "cr"
      /\ EndsLine(u) <=> EndsCr(t) /\ c = "lf"
      /\ EndsLineCr(u) <=> EndsLine(t) /\ c = "cr"
      /\ EndsBlank(u) <=> EndsLineCr(t) /\ c = "lf"
  BY Appended
<1>2. n = IF c = BlankLine[m + 1] THEN m + 1 ELSE 0
  BY DEF Matched
<1>. HIDE DEF u, n
<1>3. Tracks(u, n)
  <2>1. CASE m = 0
    <3>1. n = IF c = "cr" THEN 1 ELSE 0
      BY <1>2, <2>1, Delimiters
    <3>2. ~EndsCr(t) /\ ~EndsLine(t) /\ ~EndsLineCr(t)
      BY <2>1 DEF Tracks
    <3>. QED BY <1>1, <3>1, <3>2 DEF Tracks
  <2>2. CASE m = 1
    <3>1. n = IF c = "lf" THEN 2 ELSE 0
      BY <1>2, <2>2, Delimiters
    <3>2. EndsCr(t) /\ ~EndsLine(t) /\ ~EndsLineCr(t)
      BY <2>2 DEF Tracks
    <3>. QED BY <1>1, <3>1, <3>2 DEF Tracks
  <2>3. CASE m = 2
    <3>1. n = IF c = "cr" THEN 3 ELSE 0
      BY <1>2, <2>3, Delimiters
    <3>2. ~EndsCr(t) /\ EndsLine(t) /\ ~EndsLineCr(t)
      BY <2>3 DEF Tracks
    <3>. QED BY <1>1, <3>1, <3>2 DEF Tracks
  <2>4. CASE m = 3
    <3>1. n = IF c = "lf" THEN 4 ELSE 0
      BY <1>2, <2>4, Delimiters
    <3>2. EndsCr(t) /\ ~EndsLine(t) /\ EndsLineCr(t)
      BY <2>4, EndsApart DEF Tracks
    <3>. QED BY <1>1, <3>1, <3>2 DEF Tracks
  <2>. QED BY <2>1, <2>2, <2>3, <2>4
<1>. QED BY <1>3 DEF u, n

(* Nothing more will come. *)
Ended == response.queue = <<>> /\ response.wire = <<>> /\ ~open

(* Where the two reads of get are in a text of lines. *)
Scan ==
    /\ pc = "headers" => Len(headers) < Len(head) /\ Tracks(headers, matched)
    /\ pc \in {"content", "done"} =>
            \/ headers = head
            \/ Ended /\ content = <<>> /\ Len(headers) < Len(head)
    /\ pc = "content" /\ headers = head =>
            NoLine(content, Len(content)) /\ (matched = 1 <=> EndsCr(content))
    /\ pc = "done" /\ headers = head =>
            \/ EndsLine(content) /\ NoLine(content, Len(content) - 1)
            \/ Ended /\ NoLine(content, Len(content))

ScanInv == TextOfLines(Text) /\ call.text => Scan

LEMMA GivenStays ==
    ASSUME [Next]_vars
    PROVE  UNCHANGED <<network, head, body, call, Text>>
<1>1. UNCHANGED <<given, call>>
  BY DEF Next, AddHeader, ClearHeaders, WriteRequest, ClientStep, WriteMessage, ReadChar, ReadBlock,
         ReadNothing, ServerStep, ServeRequest, RespondHead, RespondBody, CloseServer,
         NetworkStep, RequestArrives, ResponseArrives, vars, clientVars
<1>. QED BY <1>1 DEF given, Text

LEMMA EndedStays ==
    ASSUME TypeInv, Ended, [Next]_vars
    PROVE  Ended'
<1>1. server = "ended"
  BY DEF TypeInv, Types, ServerInv, Ended
<1>2. ~ServerStep /\ ~ReadChar /\ ~ReadBlock /\ ~ResponseArrives
  BY <1>1 DEF ServerStep, ServeRequest, RespondHead, RespondBody, CloseServer, ReadChar, ReadBlock,
              ResponseArrives, Ended
<1>3. CASE RequestArrives
  <2>1. response' \in Kept /\ open' = open
    BY <1>3 DEF RequestArrives, Ended, serverVars
  <2>2. response'.queue = response.queue
        /\ \E n \in 0 .. Len(response.wire) : response'.wire = SubSeq(response.wire, 1, n)
    BY <2>1, KeptType DEF TypeInv, Types
  <2>3. response'.wire = <<>>
    <3>1. PICK n \in 0 .. Len(response.wire) : response'.wire = SubSeq(response.wire, 1, n)
      BY <2>2
    <3>2. n = 0 /\ response'.wire = SubSeq(<<>>, 1, 0)
      BY <3>1 DEF Ended
    <3>. QED BY <3>2, SubSeqEmpty
  <2>. QED BY <2>1, <2>2, <2>3 DEF Ended
<1>4. ASSUME \/ (\E f \in Fields : AddHeader(f)) \/ ClearHeaders \/ WriteRequest \/ WriteMessage
             \/ ReadNothing \/ UNCHANGED vars
      PROVE  Ended'
  BY <1>4 DEF AddHeader, ClearHeaders, WriteRequest, WriteMessage, ReadNothing, vars, serverVars, Ended
<1>. QED BY <1>2, <1>3, <1>4 DEF Next, ClientStep, NetworkStep

LEMMA Begins ==
    \A a, b \in Seq(Chars) :
        IsPrefix(a, b) <=> Len(a) <= Len(b) /\ \A i \in 1 .. Len(a) : a[i] = b[i]
BY PrefixElements

(* What is appended comes from the text, in which no "cr" follows another. *)
LEMMA NextOfLines ==
    ASSUME NEW x \in Seq(Chars), NEW t \in Seq(Chars), NEW c \in Chars,
           TextOfLines(x), IsPrefix(Append(t, c), x)
    PROVE  ~(EndsCr(t) /\ c = "cr")
<1>. SUFFICES ASSUME EndsCr(t), c = "cr" PROVE FALSE
  OBVIOUS
<1>1. /\ Len(t) \in Nat /\ Len(x) \in Nat /\ Append(t, c) \in Seq(Chars)
      /\ Len(Append(t, c)) = Len(t) + 1
      /\ \A i \in 1 .. Len(t) : Append(t, c)[i] = t[i]
      /\ Append(t, c)[Len(t) + 1] = c
  BY Appended, LenProperties
<1>2. /\ Len(Append(t, c)) <= Len(x)
      /\ \A i \in 1 .. Len(Append(t, c)) : Append(t, c)[i] = x[i]
  BY <1>1, Begins
<1>3. Len(t) >= 1 /\ t[Len(t)] = "cr"
  BY DEF EndsCr
<1>4. Len(t) \in 1 .. Len(x) - 1 /\ Len(t) \in 1 .. Len(Append(t, c)) /\ Len(t) + 1 \in 1 .. Len(Append(t, c))
  BY <1>1, <1>2, <1>3
<1>5. x[Len(t)] = "cr" /\ x[Len(t) + 1] = "cr"
  BY <1>1, <1>2, <1>3, <1>4
<1>. QED BY <1>4, <1>5 DEF TextOfLines

(* A beginning of a concatenation is one of the first sequence, if it is    *)
(* not longer, or else what is behind the first sequence begins the second. *)
LEMMA BeginsFirst ==
    ASSUME NEW t \in Seq(Chars), NEW h \in Seq(Chars), NEW b \in Seq(Chars),
           IsPrefix(t, h \o b), Len(t) <= Len(h)
    PROVE  IsPrefix(t, h) /\ (Len(t) = Len(h) => t = h)
<1>1. /\ Len(t) \in Nat /\ Len(h) \in Nat /\ h \o b \in Seq(Chars)
      /\ \A i \in 1 .. Len(h) : (h \o b)[i] = h[i]
  BY LenProperties, ConcatProperties
<1>2. \A i \in 1 .. Len(t) : t[i] = h[i]
  <2>1. \A i \in 1 .. Len(t) : t[i] = (h \o b)[i]
    BY <1>1, Begins
  <2>. QED BY <1>1, <2>1
<1>. QED BY <1>1, <1>2, PrefixElements, SeqEqual

LEMMA BeginsSecond ==
    ASSUME NEW h \in Seq(Chars), NEW t \in Seq(Chars), NEW b \in Seq(Chars),
           IsPrefix(h \o t, h \o b)
    PROVE  IsPrefix(t, b)
<1>. DEFINE x == h \o t
            y == h \o b
<1>1. /\ Len(t) \in Nat /\ Len(h) \in Nat /\ Len(b) \in Nat
      /\ x \in Seq(Chars) /\ Len(x) = Len(h) + Len(t)
      /\ y \in Seq(Chars) /\ Len(y) = Len(h) + Len(b)
  BY LenProperties, ConcatProperties
<1>2. /\ \A i \in 1 .. Len(h) + Len(t) : x[i] = IF i <= Len(h) THEN h[i] ELSE t[i - Len(h)]
      /\ \A i \in 1 .. Len(h) + Len(b) : y[i] = IF i <= Len(h) THEN h[i] ELSE b[i - Len(h)]
  BY ConcatProperties
<1>. HIDE DEF x, y
<1>3. Len(x) <= Len(y) /\ \A i \in 1 .. Len(x) : x[i] = y[i]
  <2>1. IsPrefix(x, y)
    BY DEF x, y
  <2>. QED BY <1>1, <2>1, Begins
<1>4. ASSUME NEW i \in 1 .. Len(t) PROVE t[i] = b[i]
  <2>1. /\ Len(h) + i \in 1 .. Len(x) /\ Len(h) + i \in 1 .. Len(y) /\ ~(Len(h) + i <= Len(h))
        /\ (Len(h) + i) - Len(h) = i
    BY <1>1, <1>3
  <2>2. x[Len(h) + i] = t[i] /\ y[Len(h) + i] = b[i]
    BY <1>1, <1>2, <2>1
  <2>. QED BY <1>3, <2>1, <2>2
<1>5. Len(t) <= Len(b)
  BY <1>1, <1>3
<1>. QED BY <1>4, <1>5, PrefixElements

LEMMA LineStep ==
    ASSUME NEW t \in Seq(Chars), NEW c \in Chars, NEW m \in 0 .. 1,
           NoLine(t, Len(t)), m = 1 <=> EndsCr(t), ~(EndsCr(t) /\ c = "cr")
    PROVE  LET u == Append(t, c)
               n == Matched(CrLf, m, c)
           IN  /\ n \in 0 .. 2
               /\ n = 2 => EndsLine(u) /\ NoLine(u, Len(u) - 1)
               /\ n # 2 => NoLine(u, Len(u)) /\ (n = 1 <=> EndsCr(u))
<1>. DEFINE u == Append(t, c)
            n == Matched(CrLf, m, c)
<1>1. /\ Len(t) \in Nat /\ Len(u) = Len(t) + 1
      /\ \A i \in 1 .. Len(t) : u[i] = t[i]
      /\ u[Len(t) + 1] = c
      /\ EndsCr(u) <=> c = "cr"
      /\ EndsLine(u) <=> EndsCr(t) /\ c = "lf"
  BY Appended
<1>2. n = IF c = CrLf[m + 1] THEN m + 1 ELSE 0
  BY DEF Matched
<1>3. n = IF m = 0 /\ c = "cr" THEN 1 ELSE IF m = 1 /\ c = "lf" THEN 2 ELSE 0
  BY <1>2, Delimiters
<1>. HIDE DEF u, n
<1>4. NoLine(u, Len(t))
  BY <1>1 DEF NoLine
<1>5. ASSUME n # 2 PROVE NoLine(u, Len(u))
  <2>. SUFFICES ASSUME NEW i \in 1 .. Len(u) - 1, u[i] = "cr", u[i + 1] = "lf" PROVE FALSE
    BY DEF NoLine
  <2>1. CASE i <= Len(t) - 1
    BY <1>1, <1>4, <2>1 DEF NoLine
  <2>2. CASE i = Len(t)
    <3>1. t[Len(t)] = "cr" /\ c = "lf" /\ Len(t) >= 1
      BY <1>1, <2>2
    <3>2. EndsCr(t)
      BY <3>1 DEF EndsCr
    <3>. QED BY <1>3, <1>5, <3>1, <3>2
  <2>. QED BY <1>1, <2>1, <2>2
<1>6. n # 2 => (n = 1 <=> EndsCr(u))
  BY <1>1, <1>3
<1>7. n = 2 => EndsLine(u) /\ NoLine(u, Len(u) - 1)
  <2>1. Len(u) - 1 = Len(t)
    BY <1>1
  <2>. QED BY <1>1, <1>3, <1>4, <2>1
<1>8. n \in 0 .. 2
  BY <1>3
<1>. QED BY <1>5, <1>6, <1>7, <1>8 DEF u, n

LEMMA ScanStart == Init => ScanInv
BY DEF Init, ScanInv, Scan

LEMMA ScanStep ==
    ASSUME TypeInv, StreamInv, ScanInv, [Next]_vars, TypeInv'
    PROVE  ScanInv'
<1>0. /\ head \in Seq(Chars) /\ body \in Seq(Chars) /\ Text \in Seq(Chars)
      /\ headers \in Seq(Chars) /\ content \in Seq(Chars) /\ head \in Heads
  BY StreamTypes DEF TypeInv, Types
<1>1. UNCHANGED <<head, body, call, Text>>
  BY GivenStays
<1>2. SUFFICES ASSUME TextOfLines(Text), call.text, Scan
               PROVE  Scan'
  BY <1>1 DEF ScanInv
<1>3. Ended => Ended'
  BY EndedStays
<1>4. ASSUME UNCHANGED <<pc, headers, content, matched>>
      PROVE  Scan'
  BY <1>1, <1>2, <1>3, <1>4 DEF Scan
<1>5. ASSUME \/ (\E f \in Fields : AddHeader(f)) \/ ClearHeaders
             \/ ServerStep \/ NetworkStep \/ UNCHANGED vars
      PROVE  Scan'
  <2>1. UNCHANGED <<pc, headers, content, matched>>
    BY <1>5 DEF AddHeader, ClearHeaders, ServerStep, ServeRequest, RespondHead, RespondBody,
                CloseServer, NetworkStep, RequestArrives, ResponseArrives, vars, clientVars
  <2>. QED BY <1>4, <2>1
<1>6. CASE WriteRequest
  <2>1. call.message = <<>>
    BY <1>2, MessageFacts DEF TypeInv, Types
  <2>2. pc' = "headers" /\ headers' = <<>> /\ matched' = 0
    BY <1>2, <1>6, <2>1 DEF WriteRequest, FirstRead, TypeInv, ClientInv
  <2>3. Tracks(<<>>, 0)
    BY DEF Tracks, EndsCr, EndsLine, EndsLineCr, EndsBlank
  <2>4. Len(<<>>) < Len(head)
    <3>1. <<>> \in Seq(Chars) /\ <<>> \o head = head
      BY <1>0, EmptySeq, Together
    <3>2. IsPrefix(<<>>, head)
      BY <1>0, <3>1, Together
    <3>. QED BY <1>0, <3>1, <3>2, HeadEnds
  <2>. QED BY <1>1, <2>2, <2>3, <2>4 DEF Scan
<1>7. CASE WriteMessage \/ ReadBlock
  BY <1>2, <1>7 DEF WriteMessage, ReadBlock, TypeInv, ClientInv
<1>8. CASE ReadChar
  <2>. DEFINE c == Head(response.queue)
              m == Matched(Delimiter, matched, c)
  <2>1. /\ response.queue # <<>>
        /\ pc = "headers" \/ pc = "content"
        /\ IF pc = "headers"
           THEN headers' = Append(headers, c) /\ UNCHANGED content
           ELSE content' = Append(content, c) /\ UNCHANGED headers
        /\ IF m = Len(Delimiter) THEN matched' = 0 /\ pc' = NextRead ELSE matched' = m /\ UNCHANGED pc
    BY <1>8 DEF ReadChar
  <2>2. c \in Chars /\ (pc = "headers" => Taken = headers /\ Taken' = headers')
    BY <1>8, ReadTakes
  <2>3. IsPrefix(Taken', Text) /\ Taken' \in Seq(Chars)
    <3>1. Taken' = Append(Taken, c) /\ Taken \in Seq(Chars) /\ Stream \in Seq(Chars)
      BY <1>8, ReadTakes, StreamTypes DEF TypeInv
    <3>2. Append(Taken, c) \in Seq(Chars)
      BY <2>2, <3>1, AppendProperties
    <3>3. IsPrefix(Taken', Stream)
      <4>1. PICK rest : rest \in Seq(Chars) /\ Stream' = Taken' \o rest
        <5>1. response'.queue \in Seq(Chars) /\ response'.wire \in Seq(Chars)
          BY DEF TypeInv, Types
        <5>. QED BY <5>1, Together DEF Stream
      <4>. QED BY <1>8, <3>1, <3>2, <4>1, ReadTakes, Together
    <3>4. IsPrefix(Stream, Text)
      BY StreamIsPrefix DEF TypeInv
    <3>. QED BY <1>0, <3>1, <3>2, <3>3, <3>4, PrefixOfPrefix
  <2>4. matched \in 0 .. 3 /\ (pc = "content" => matched \in 0 .. 1)
    BY DEF TypeInv, ClientInv
  <2>5. CASE pc = "headers"
    <3>1. Delimiter = BlankLine /\ Len(Delimiter) = 4 /\ NextRead = "content"
      BY <2>5, Delimiters DEF Delimiter, NextRead
    <3>2. Len(headers) < Len(head) /\ Tracks(headers, matched)
      BY <1>2, <2>5 DEF Scan
    <3>3. headers' = Append(headers, c) /\ IsPrefix(Append(headers, c), Text)
      BY <2>1, <2>2, <2>3, <2>5
    <3>4. ~(EndsCr(headers) /\ c = "cr")
      BY <1>0, <1>2, <2>2, <3>3, NextOfLines
    <3>5. Tracks(headers', m)
      BY <1>0, <2>2, <2>4, <3>1, <3>2, <3>3, <3>4, TracksStep
    <3>. HIDE DEF m
    <3>6. headers' \in Seq(Chars) /\ Len(headers') <= Len(head) /\ Len(head) \in Nat /\ Len(headers') \in Nat
      <4>1. /\ Append(headers, c) \in Seq(Chars) /\ Len(Append(headers, c)) = Len(headers) + 1
            /\ Len(headers) \in Nat /\ Len(head) \in Nat
        BY <1>0, <2>2, Appended, LenProperties
      <4>. QED BY <3>2, <3>3, <4>1
    <3>7. IsPrefix(headers', head) /\ (Len(headers') = Len(head) => headers' = head)
      BY <1>0, <3>3, <3>6, BeginsFirst DEF Text
    <3>8. EndsBlank(headers') <=> Len(headers') = Len(head)
      BY <1>0, <3>6, <3>7, HeadEnds
    <3>9. CASE m = 4
      <4>1. headers' = head
        BY <3>5, <3>7, <3>8, <3>9 DEF Tracks
      <4>2. pc' = "content" /\ matched' = 0 /\ content' = <<>>
        BY <2>1, <2>5, <3>1, <3>9 DEF TypeInv, ClientInv
      <4>3. NoLine(<<>>, Len(<<>>)) /\ ~EndsCr(<<>>)
        BY DEF NoLine, EndsCr
      <4>. QED BY <1>1, <4>1, <4>2, <4>3 DEF Scan
    <3>10. CASE m # 4
      <4>1. Len(headers') < Len(head)
        BY <3>5, <3>6, <3>8, <3>10 DEF Tracks
      <4>2. pc' = "headers" /\ matched' = m
        BY <2>1, <2>5, <3>1, <3>10
      <4>. QED BY <1>1, <3>5, <4>1, <4>2 DEF Scan
    <3>. QED BY <3>9, <3>10
  <2>6. CASE pc = "content"
    <3>1. Delimiter = CrLf /\ Len(Delimiter) = 2 /\ NextRead = "done"
      BY <2>6, Delimiters DEF Delimiter, NextRead
    <3>2. headers = head /\ headers' = head /\ content' = Append(content, c)
      BY <1>2, <2>1, <2>6 DEF Scan, Ended
    <3>3. NoLine(content, Len(content)) /\ (matched = 1 <=> EndsCr(content))
      BY <1>2, <2>6, <3>2 DEF Scan
    <3>4. IsPrefix(content', body)
      <4>1. Append(content, c) \in Seq(Chars)
        BY <1>0, <2>2, AppendProperties
      <4>2. Taken' = head \o content'
        BY <3>2 DEF Taken
      <4>. QED BY <1>0, <2>3, <3>2, <4>1, <4>2, BeginsSecond DEF Text
    <3>5. TextOfLines(body)
      <4>1. /\ Len(head) \in Nat /\ Len(body) \in Nat /\ Len(Text) = Len(head) + Len(body)
            /\ \A i \in 1 .. Len(head) + Len(body) :
                  Text[i] = IF i <= Len(head) THEN head[i] ELSE body[i - Len(head)]
        BY <1>0, LenProperties, ConcatProperties DEF Text
      <4>. SUFFICES ASSUME NEW i \in 1 .. Len(body) - 1, body[i] = "cr", body[i + 1] = "cr"
                    PROVE  FALSE
        BY DEF TextOfLines
      <4>2. /\ Len(head) + i \in 1 .. Len(Text) - 1
            /\ Len(head) + i \in 1 .. Len(Text) /\ ~(Len(head) + i <= Len(head))
            /\ Len(head) + i + 1 \in 1 .. Len(Text) /\ ~(Len(head) + i + 1 <= Len(head))
            /\ (Len(head) + i) - Len(head) = i /\ (Len(head) + i + 1) - Len(head) = i + 1
        BY <4>1
      <4>3. Text[Len(head) + i] = "cr" /\ Text[Len(head) + i + 1] = "cr"
        BY <4>1, <4>2
      <4>. QED BY <1>2, <4>2, <4>3 DEF TextOfLines
    <3>6. ~(EndsCr(content) /\ c = "cr")
      BY <1>0, <2>2, <3>2, <3>4, <3>5, NextOfLines
    <3>7. /\ m \in 0 .. 2
          /\ m = 2 => EndsLine(content') /\ NoLine(content', Len(content') - 1)
          /\ m # 2 => NoLine(content', Len(content')) /\ (m = 1 <=> EndsCr(content'))
      BY <1>0, <2>2, <2>4, <2>6, <3>1, <3>2, <3>3, <3>6, LineStep
    <3>. HIDE DEF m
    <3>8. CASE m = 2
      <4>1. pc' = "done"
        BY <2>1, <2>6, <3>1, <3>8
      <4>. QED BY <1>1, <3>2, <3>7, <3>8, <4>1 DEF Scan
    <3>9. CASE m # 2
      <4>1. pc' = "content" /\ matched' = m
        BY <2>1, <2>6, <3>1, <3>9
      <4>. QED BY <1>1, <3>2, <3>7, <3>9, <4>1 DEF Scan
    <3>. QED BY <3>8, <3>9
  <2>. QED BY <2>1, <2>5, <2>6
<1>9. CASE ReadNothing
  <2>1. /\ Ended /\ pc \in {"headers", "content"} /\ pc' = NextRead /\ matched' = 0
        /\ UNCHANGED <<headers, content>>
    BY <1>2, <1>9 DEF ReadNothing, EndOfData, AtEnd, Reading, Ended, TypeInv, ClientInv
  <2>2. CASE pc = "headers"
    <3>1. content = <<>> /\ headers # head /\ pc' = "content" /\ Len(headers) < Len(head)
      <4>1. Len(headers) < Len(head) /\ Len(head) \in Nat
        BY <1>0, <1>2, <2>2, LenProperties DEF Scan
      <4>2. headers # head
        BY <4>1
      <4>. QED BY <2>1, <2>2, <4>1, <4>2 DEF NextRead, TypeInv, ClientInv
    <3>. QED BY <1>1, <1>3, <2>1, <3>1 DEF Scan
  <2>3. CASE pc = "content"
    <3>1. pc' = "done"
      BY <2>1, <2>3 DEF NextRead
    <3>. QED BY <1>1, <1>2, <1>3, <2>1, <2>3, <3>1 DEF Scan
  <2>. QED BY <2>1, <2>2, <2>3
<1>. QED BY <1>5, <1>6, <1>7, <1>8, <1>9 DEF Next, ClientStep

LEMMA ScanHolds == Spec => []ScanInv
<1>1. TypeInv /\ StreamInv /\ ScanInv /\ [Next]_vars /\ TypeInv' => ScanInv'
  BY ScanStep
<1>. QED BY <1>1, ScanStart, TypesHold, StreamHolds, PTL DEF Spec

(* However the response is cut into pieces, and whatever of it is lost, the *)
(* client reads a beginning of it, and get has content only behind the      *)
(* whole of the headers.                                                    *)
THEOREM ReadsArePrefix == Spec => []ReadsPrefix
<1>1. TypeInv /\ StreamInv /\ ScanInv => ReadsPrefix
  <2>. SUFFICES ASSUME TypeInv, StreamInv, ScanInv PROVE ReadsPrefix
    OBVIOUS
  <2>1. IsPrefix(headers \o content, head \o body)
    BY StreamIsPrefix DEF TypeInv, Taken, Text
  <2>2. ASSUME call.text, content # <<>>, TextOfLines(head \o body)
        PROVE  headers = head
    <3>1. Scan
      BY <2>2 DEF ScanInv, Text
    <3>2. pc \in {"content", "done"}
      BY <2>2 DEF TypeInv, Types, ClientInv
    <3>. QED BY <2>2, <3>1, <3>2 DEF Scan
  <2>. QED BY <2>1, <2>2 DEF ReadsPrefix
<1>. QED BY <1>1, TypesHold, StreamHolds, ScanHolds, PTL

-----------------------------------------------------------------------------
(***************************************************************************)
(* A request whose head arrives in one piece and fits the buffer.  Until    *)
(* the client writes a message, nothing of the request is left behind by    *)
(* the server's one read, so that the connection is not reset and nothing   *)
(* of the response is lost.                                                 *)
(***************************************************************************)
Quiet == call.message = <<>> \/ pc \in {"idle", "message"}

Complete ==
    /\ ~reset
    /\ Stream = SentBy(server)
    /\ server # "request" => request.wire = 0 /\ request.queue = 0

PieceInv ==
    /\ pc = "idle" => ~reset
    /\ HeadInOnePiece =>
        /\ pc # "killed"
        /\ Quiet => Complete
        /\ pc = "done" /\ call.message = <<>> => Taken # <<>>

LEMMA PieceStart == Init => PieceInv
<1>1. Init => Complete
  <2>1. <<>> \o <<>> = <<>>
    BY Together, EmptySeq
  <2>. QED BY <2>1 DEF Init, Complete, SentBy, Stream, Taken
<1>. QED BY <1>1 DEF Init, PieceInv

(* Before the client writes its message the server's thread has the whole  *)
(* request in its buffer after its read.                                    *)
LEMMA ServedWhole ==
    ASSUME TypeInv, ServedInv, HeadInOnePiece, ServeRequest
    PROVE  /\ server' = "head" /\ open' = TRUE
           /\ Quiet => request'.wire = 0 /\ request'.queue = 0
<1>1. /\ request.wire \in Nat /\ request.queue \in Nat /\ uCount \in Nat /\ Line \in Nat
      /\ request = [wire |-> request.wire, queue |-> request.queue]
      /\ fields \subseteq Fields /\ IsFiniteSet(fields) /\ call \in Calls
  BY Sizes DEF TypeInv, Types
<1>2. /\ Len(RequestHead) \in Nat /\ Len(RequestHead) > Line
      /\ Len(WholeRequest) = Len(RequestHead) + Len(call.message)
      /\ Len(call.message) = 0 <=> call.message = <<>>
  BY <1>1, HeadParts, RequestParts, MessageFacts
<1>3. /\ server = "request" /\ request.queue > 0
      /\ request' = [wire |-> request.wire, queue |-> request.queue - Received]
  BY <1>1 DEF ServeRequest
<1>4. pc # "idle" /\ request.queue >= Len(RequestHead) /\ Len(RequestHead) <= uCount
  BY <1>1, <1>3 DEF TypeInv, RequestInv, ServedInv, Arrived, HeadInOnePiece
<1>5. ~(Received < Line)
  BY <1>1, <1>2, <1>4 DEF Received
<1>6. server' = "head" /\ open' = TRUE
  BY <1>5 DEF ServeRequest, Recognised
<1>7. ASSUME Quiet PROVE request.wire = 0 /\ request.queue = Len(RequestHead)
  <2>1. request.wire + request.queue <= Len(RequestHead)
    BY <1>1, <1>2, <1>4, <1>7 DEF Quiet, TypeInv, RequestInv
  <2>. QED BY <1>1, <1>2, <1>4, <2>1
<1>8. ASSUME Quiet PROVE request'.wire = 0 /\ request'.queue = 0
  <2>1. Received = request.queue
    BY <1>1, <1>2, <1>4, <1>7, <1>8 DEF Received
  <2>. QED BY <1>1, <1>3, <1>7, <1>8, <2>1
<1>. QED BY <1>6, <1>8

(* At the end of a connection nothing of whose response was lost the client *)
(* has read all of it.                                                      *)
LEMMA AllRead ==
    ASSUME TypeInv, Ended, Complete
    PROVE  Taken = Text
<1>1. Taken \in Seq(Chars) /\ <<>> \in Seq(Chars)
  BY StreamTypes, EmptySeq DEF TypeInv
<1>2. server = "ended"
  BY DEF TypeInv, Types, ServerInv, Ended
<1>3. Stream = Taken \o (<<>> \o <<>>)
  BY DEF Stream, Ended
<1>4. Taken \o (<<>> \o <<>>) = Taken
  BY <1>1, Together
<1>. QED BY <1>2, <1>3, <1>4 DEF Complete, SentBy

LEMMA SomeText ==
    ASSUME Types
    PROVE  Text # <<>>
<1>1. head \in Heads /\ head \in Seq(Chars) /\ body \in Seq(Chars)
  BY StreamTypes DEF Types
<1>2. IsPrefix(<<>>, head)
  <2>1. <<>> \in Seq(Chars) /\ <<>> \o head = head
    BY <1>1, EmptySeq, Together
  <2>. QED BY <1>1, <2>1, Together
<1>3. Len(head) > 0 /\ Len(head) \in Nat
  BY <1>1, <1>2, EmptySeq, HeadEnds
<1>4. Len(Text) = Len(head) + Len(body) /\ Len(body) \in Nat
  BY <1>1, ConcatInSeq, LenProperties DEF Text
<1>. QED BY <1>3, <1>4

LEMMA PieceStep ==
    ASSUME TypeInv, ServedInv, StreamInv, PieceInv, [Next]_vars, TypeInv', StreamInv'
    PROVE  PieceInv'
<1>0. /\ UNCHANGED <<network, head, body, call, Text>>
      /\ open <=> server # "ended"
      /\ request.wire \in Nat /\ request.queue \in Nat
  BY GivenStays DEF TypeInv, Types, ServerInv
<1>1. ASSUME open' PROVE Stream' = SentBy(server)'
  BY <1>1 DEF StreamInv
<1>2. ASSUME UNCHANGED fields
      PROVE  HeadInOnePiece' = HeadInOnePiece
  BY <1>0, <1>2, SameRequest DEF HeadInOnePiece
<1>3. ASSUME UNCHANGED server, Stream' = Stream, UNCHANGED <<request, reset>>
      PROVE  Complete => Complete'
  BY <1>0, <1>3 DEF Complete, SentBy
<1>4. ASSUME NEW f \in Fields, AddHeader(f) \/ ClearHeaders
      PROVE  PieceInv'
  <2>1. pc = "idle" /\ pc' = pc /\ UNCHANGED <<serverVars, reset>>
    BY <1>4 DEF AddHeader, ClearHeaders
  <2>2. server = "request" /\ server' = "request" /\ open'
    BY <1>0, <2>1 DEF serverVars, TypeInv, RequestInv
  <2>3. ~reset'
    BY <2>1 DEF PieceInv
  <2>4. Complete'
    BY <1>1, <2>2, <2>3 DEF Complete
  <2>. QED BY <2>1, <2>3, <2>4 DEF PieceInv
<1>5. CASE ClearHeaders
  BY <1>4, <1>5, Sizes
<1>6. CASE WriteRequest
  <2>1. /\ pc = "idle" /\ pc' \in {"headers", "block", "message"} /\ UNCHANGED <<serverVars, reset>>
    BY <1>6 DEF WriteRequest, FirstRead
  <2>2. server = "request" /\ server' = "request" /\ open'
    BY <1>0, <2>1 DEF serverVars, TypeInv, RequestInv
  <2>3. ~reset'
    BY <2>1 DEF PieceInv
  <2>4. Complete'
    BY <1>1, <2>2, <2>3 DEF Complete
  <2>. QED BY <2>1, <2>4 DEF PieceInv
<1>7. CASE WriteMessage
  <2>1. /\ pc = "message" /\ UNCHANGED fields
        /\ pc' = "block" \/ (pc' = "killed" /\ reset)
    BY <1>7 DEF WriteMessage
  <2>2. call.message # <<>>
    BY <2>1 DEF TypeInv, ClientInv
  <2>3. HeadInOnePiece => ~reset
    BY <2>1 DEF PieceInv, Quiet, Complete
  <2>. QED BY <1>0, <1>2, <2>1, <2>2, <2>3 DEF PieceInv, Quiet
<1>8. ASSUME ReadChar \/ ReadBlock \/ ReadNothing
      PROVE  PieceInv'
  <2>1. /\ UNCHANGED <<fields, server, open, request, reset>>
        /\ pc \in {"headers", "content", "block"} /\ pc' \in {"headers", "content", "done"}
    BY <1>8 DEF ReadChar, ReadBlock, ReadNothing, EndOfData, AtEnd, Reading, NextRead, serverVars
  <2>2. Stream' = Stream
    <3>1. CASE ReadNothing
      BY <3>1 DEF ReadNothing, Stream, Taken
    <3>. QED BY <1>8, <3>1, ReadTakes, BlockTakes
  <2>3. Quiet' => Quiet
    BY <1>0, <2>1 DEF Quiet
  <2>4. HeadInOnePiece' /\ Quiet' => Complete'
    BY <1>2, <1>3, <2>1, <2>2, <2>3 DEF PieceInv
  <2>5. ASSUME HeadInOnePiece', pc' = "done", call'.message = <<>>
        PROVE  Taken' # <<>>
    <3>1. CASE ReadChar
      <4>1. Taken' = Append(Taken, Head(response.queue)) /\ Taken \in Seq(Chars) /\ Head(response.queue) \in Chars
        BY <3>1, ReadTakes, StreamTypes DEF TypeInv
      <4>2. Len(Taken') = Len(Taken) + 1 /\ Len(Taken) \in Nat
        BY <4>1, Appended
      <4>. QED BY <4>2
    <3>2. CASE ReadBlock
      <4>1. headers' = <<>> /\ content' # <<>>
        BY <3>2, BlockTakes
      <4>2. content' \in Seq(Chars)
        BY DEF TypeInv, Types
      <4>3. <<>> \o content' = content'
        BY <4>2, Together
      <4>. QED BY <4>1, <4>3 DEF Taken
    <3>3. CASE ReadNothing
      <4>1. Ended /\ Taken' = Taken
        BY <3>3 DEF ReadNothing, EndOfData, AtEnd, Ended, Taken
      <4>2. HeadInOnePiece /\ Quiet
        BY <1>0, <1>2, <2>1, <2>5 DEF Quiet
      <4>3. Complete
        BY <4>2 DEF PieceInv
      <4>. QED BY <4>1, <4>3, AllRead, SomeText DEF TypeInv
    <3>. QED BY <1>8, <3>1, <3>2, <3>3
  <2>. QED BY <2>1, <2>4, <2>5 DEF PieceInv
<1>9. ASSUME ServerStep \/ NetworkStep \/ UNCHANGED vars,
             HeadInOnePiece /\ Quiet => Complete', pc = "idle" => ~reset'
      PROVE  PieceInv'
  <2>1. UNCHANGED <<fields, pc, headers, content>>
    BY <1>9 DEF ServerStep, ServeRequest, RespondHead, RespondBody, CloseServer,
                NetworkStep, RequestArrives, ResponseArrives, vars, clientVars
  <2>2. Quiet' = Quiet /\ Taken' = Taken
    BY <1>0, <2>1 DEF Quiet, Taken
  <2>. QED BY <1>0, <1>2, <1>9, <2>1, <2>2 DEF PieceInv
<1>10. pc = "idle" => server = "request" /\ request.queue = 0 /\ request.wire = 0 /\ ~reset
  BY DEF TypeInv, RequestInv, PieceInv
<1>11. CASE ServeRequest
  <2>1. reset' = reset /\ request.queue > 0
    BY <1>11 DEF ServeRequest
  <2>2. ASSUME HeadInOnePiece, Quiet PROVE Complete'
    <3>1. /\ server' = "head" /\ open' = TRUE
          /\ request'.wire = 0 /\ request'.queue = 0
      BY <1>11, <2>2, ServedWhole
    <3>2. ~reset'
      BY <2>1, <2>2 DEF PieceInv, Complete
    <3>. QED BY <1>1, <3>1, <3>2 DEF Complete
  <2>3. pc = "idle" => ~reset'
    BY <1>10, <2>1
  <2>. QED BY <1>9, <1>11, <2>2, <2>3 DEF ServerStep
<1>12. CASE RespondHead \/ RespondBody
  <2>1. /\ UNCHANGED <<request, open, reset>> /\ open'
        /\ server # "request"
    BY <1>0, <1>12 DEF RespondHead, RespondBody
  <2>2. ASSUME HeadInOnePiece, Quiet PROVE Complete'
    BY <1>1, <2>1, <2>2 DEF PieceInv, Complete
  <2>3. pc = "idle" => ~reset'
    BY <1>10, <2>1
  <2>. QED BY <1>9, <1>12, <2>2, <2>3 DEF ServerStep
<1>13. CASE CloseServer
  <2>1. /\ server = "close" /\ server' = "ended"
        /\ reset' = (request.queue > 0)
        /\ response' \in IF reset' THEN Kept ELSE {response}
        /\ UNCHANGED <<clientVars, request>>
    BY <1>13 DEF CloseServer
  <2>2. ASSUME HeadInOnePiece, Quiet PROVE Complete'
    <3>1. request.wire = 0 /\ request.queue = 0 /\ Stream = Text
      BY <2>1, <2>2 DEF PieceInv, Complete, SentBy
    <3>2. ~reset'
      <4>1. ~(request.queue > 0)
        BY <3>1
      <4>. QED BY <2>1, <4>1
    <3>3. Stream' = Stream
      BY <2>1, <3>2 DEF Stream, Taken, clientVars
    <3>4. SentBy(server)' = Text
      BY <1>0, <2>1 DEF SentBy
    <3>. QED BY <2>1, <3>1, <3>2, <3>3, <3>4 DEF Complete
  <2>3. pc # "idle"
    BY <1>10, <2>1
  <2>. QED BY <1>9, <1>13, <2>2, <2>3 DEF ServerStep
<1>14. CASE RequestArrives
  <2>1. /\ request.wire > 0 /\ reset' = (reset \/ ~open)
        /\ UNCHANGED <<server, open>>
    BY <1>14 DEF RequestArrives, serverVars
  <2>2. ASSUME HeadInOnePiece, Quiet PROVE Complete'
    <3>1. server = "request" /\ ~reset
      BY <2>1, <2>2 DEF PieceInv, Complete
    <3>2. open /\ ~reset' /\ open' /\ server' = "request"
      BY <1>0, <2>1, <3>1
    <3>. QED BY <1>1, <3>2 DEF Complete
  <2>3. pc # "idle"
    BY <1>10, <2>1
  <2>. QED BY <1>9, <1>14, <2>2, <2>3 DEF NetworkStep
<1>15. ASSUME ResponseArrives \/ UNCHANGED vars
       PROVE  PieceInv'
  <2>1. UNCHANGED <<server, request, reset>>
    BY <1>15 DEF ResponseArrives, vars, serverVars
  <2>2. Stream' = Stream
    <3>1. CASE UNCHANGED vars
      BY <3>1 DEF vars, clientVars, Stream, Taken
    <3>. QED BY <1>15, <3>1, StreamArrives
  <2>3. HeadInOnePiece /\ Quiet => Complete'
    BY <1>3, <2>1, <2>2 DEF PieceInv
  <2>4. pc = "idle" => ~reset'
    BY <1>10, <2>1
  <2>. QED BY <1>9, <1>15, <2>3, <2>4 DEF NetworkStep
<1>. QED BY <1>4, <1>5, <1>6, <1>7, <1>8, <1>11, <1>12, <1>13, <1>14, <1>15
       DEF Next, ClientStep, ServerStep, NetworkStep

LEMMA PieceHolds == Spec => []PieceInv
<1>1. TypeInv /\ ServedInv /\ StreamInv /\ PieceInv /\ [Next]_vars /\ TypeInv' /\ StreamInv' => PieceInv'
  BY PieceStep
<1>. QED BY <1>1, PieceStart, TypesHold, ServedHolds, StreamHolds, PTL DEF Spec

(* UpTo of a body, if what was read is a beginning of it that ends with its *)
(* only end of a line, and if it has none.                                  *)
LEMMA LineEnds ==
    ASSUME NEW b \in Seq(Chars), NEW n \in 1 .. Len(b)
    PROVE  IsSuffix(CrLf, SubSeq(b, 1, n)) <=> n >= 2 /\ b[n - 1] = "cr" /\ b[n] = "lf"
<1>. DEFINE p == SubSeq(b, 1, n)
<1>1. Len(b) \in Nat
  BY LenProperties
<1>2. p \in Seq(Chars) /\ Len(p) = n
  BY <1>1, PrefixInSeq
<1>3. \A i \in 1 .. n : p[i] = b[i]
  <2>1. \A i \in 1 .. n : b[i] \in Chars
    BY <1>1, ElementOfSeq
  <2>2. \A i \in 1 .. n - 1 + 1 : p[i] = b[1 + i - 1]
    BY <2>1, SubSeqProperties
  <2>. QED BY <2>2
<1>. HIDE DEF p
<1>4. IsSuffix(CrLf, p) <=> EndsLine(p)
  BY <1>2, LineAtEnd
<1>5. EndsLine(p) <=> n >= 2 /\ b[n - 1] = "cr" /\ b[n] = "lf"
  BY <1>1, <1>2, <1>3 DEF EndsLine
<1>. QED BY <1>4, <1>5 DEF p

LEMMA UpToLine ==
    ASSUME NEW b \in Seq(Chars), NEW t \in Seq(Chars), IsPrefix(t, b),
           EndsLine(t), NoLine(t, Len(t) - 1)
    PROVE  UpTo(b, CrLf) = t
<1>. DEFINE ends == {n \in 1 .. Len(b) : IsSuffix(CrLf, SubSeq(b, 1, n))}
            m == CHOOSE n \in ends : \A k \in ends : n <= k
<1>1. /\ Len(t) \in Nat /\ Len(b) \in Nat /\ Len(t) <= Len(b)
      /\ \A i \in 1 .. Len(t) : t[i] = b[i]
  BY LenProperties, Begins
<1>2. Len(t) \in 1 .. Len(b) /\ Len(t) >= 2 /\ b[Len(t) - 1] = "cr" /\ b[Len(t)] = "lf"
  BY <1>1 DEF EndsLine
<1>3. Len(t) \in ends
  BY <1>2, LineEnds
<1>4. ASSUME NEW k \in ends PROVE Len(t) <= k
  <2>1. k \in 1 .. Len(b) /\ k >= 2 /\ b[k - 1] = "cr" /\ b[k] = "lf"
    BY LineEnds
  <2>2. CASE k < Len(t)
    <3>1. k - 1 \in 1 .. (Len(t) - 1) - 1 /\ t[k - 1] = "cr" /\ t[(k - 1) + 1] = "lf"
      BY <1>1, <2>1, <2>2
    <3>. QED BY <3>1 DEF NoLine
  <2>. QED BY <1>1, <2>1, <2>2
<1>5. m = Len(t)
  <2>1. ends \subseteq Int
    OBVIOUS
  <2>. HIDE DEF ends
  <2>2. m \in ends /\ \A k \in ends : m <= k
    BY <1>3, <1>4
  <2>. HIDE DEF m
  <2>3. m <= Len(t) /\ Len(t) <= m /\ m \in Int
    BY <1>3, <1>4, <2>1, <2>2
  <2>. QED BY <1>1, <2>3
<1>6. UpTo(b, CrLf) = SubSeq(b, 1, m)
  BY <1>3 DEF UpTo
<1>7. SubSeq(b, 1, Len(t)) = t
  <2>1. SubSeq(t, 1, Len(t)) = t
    BY SubSeqFull
  <2>. QED BY <2>1 DEF IsPrefix
<1>. HIDE DEF m
<1>. QED BY <1>5, <1>6, <1>7

LEMMA UpToEnd ==
    ASSUME NEW b \in Seq(Chars), NoLine(b, Len(b))
    PROVE  UpTo(b, CrLf) = b
<1>1. Len(b) \in Nat
  BY LenProperties
<1>2. {n \in 1 .. Len(b) : IsSuffix(CrLf, SubSeq(b, 1, n))} = {}
  <2>. SUFFICES ASSUME NEW n \in 1 .. Len(b), IsSuffix(CrLf, SubSeq(b, 1, n)) PROVE FALSE
    OBVIOUS
  <2>1. n >= 2 /\ b[n - 1] = "cr" /\ b[n] = "lf"
    BY LineEnds
  <2>2. n - 1 \in 1 .. Len(b) - 1 /\ (n - 1) + 1 = n
    BY <1>1, <2>1
  <2>. QED BY <2>1, <2>2 DEF NoLine
<1>. QED BY <1>2 DEF UpTo

(* With the head of the request in one piece and in the server's buffer the *)
(* two string reads of get return exactly the headers and the first line of *)
(* the body, wherever the response was cut; a block read behind no message  *)
(* returns something; and SIGPIPE ends no call.                             *)
THEOREM TextReadAsWritten == Spec => []ReadsAsWritten
<1>1. TypeInv /\ StreamInv /\ ScanInv /\ PieceInv => ReadsAsWritten
  <2>. SUFFICES ASSUME TypeInv, StreamInv, ScanInv, PieceInv, HeadInOnePiece
                PROVE  /\ pc = "done" /\ call.text /\ TextOfLines(head \o body) =>
                               headers = head /\ content = UpTo(body, CrLf)
                       /\ pc = "done" /\ call.message = <<>> => headers \o content # <<>>
                       /\ pc # "killed"
    BY DEF ReadsAsWritten
  <2>0. /\ head \in Seq(Chars) /\ body \in Seq(Chars) /\ Text \in Seq(Chars)
        /\ headers \in Seq(Chars) /\ content \in Seq(Chars)
        /\ Len(head) \in Nat /\ Len(body) \in Nat /\ Len(Text) = Len(head) + Len(body)
    BY StreamTypes, ConcatInSeq, LenProperties DEF TypeInv, Text
  <2>1. ASSUME pc = "done", call.text, TextOfLines(Text)
        PROVE  headers = head /\ content = UpTo(body, CrLf)
    <3>1. Scan
      BY <2>1 DEF ScanInv
    <3>2. Complete
      <4>1. call.message = <<>>
        BY <2>1, MessageFacts DEF TypeInv, Types
      <4>. QED BY <4>1 DEF PieceInv, Quiet
    <3>3. Ended => Taken = Text
      BY <3>2, AllRead
    <3>4. headers = head
      <4>1. ASSUME Ended, content = <<>>, Len(headers) < Len(head) PROVE FALSE
        <5>1. headers = Text
          BY <2>0, <3>3, <4>1, Together DEF Taken
        <5>. QED BY <2>0, <4>1, <5>1
      <4>. QED BY <2>1, <3>1, <4>1 DEF Scan
    <3>5. IsPrefix(content, body)
      <4>1. IsPrefix(Taken, Text)
        BY StreamIsPrefix DEF TypeInv
      <4>2. IsPrefix(head \o content, head \o body)
        BY <3>4, <4>1 DEF Taken, Text
      <4>. QED BY <2>0, <4>2, BeginsSecond
    <3>6. CASE EndsLine(content) /\ NoLine(content, Len(content) - 1)
      BY <2>0, <3>4, <3>5, <3>6, UpToLine
    <3>7. CASE Ended /\ NoLine(content, Len(content))
      <4>1. head \o content = head \o body
        BY <3>3, <3>4, <3>7 DEF Taken, Text
      <4>2. content = body
        <5>1. IsPrefix(body, content)
          <6>1. (head \o content) \o <<>> = head \o content /\ head \o content \in Seq(Chars)
            BY <2>0, Together
          <6>2. IsPrefix(head \o body, head \o content)
            BY <4>1, <6>1, EmptySeq, Together
          <6>. QED BY <2>0, <6>2, BeginsSecond
        <5>2. Len(body) <= Len(content) /\ Len(content) <= Len(body)
              /\ \A i \in 1 .. Len(content) : content[i] = body[i]
          BY <2>0, <3>5, <5>1, Begins
        <5>3. Len(content) = Len(body)
          BY <2>0, <5>2, LenProperties
        <5>. QED BY <2>0, <5>2, <5>3, SeqEqual
      <4>. QED BY <2>0, <3>4, <3>7, <4>2, UpToEnd
    <3>. QED BY <2>1, <3>1, <3>4, <3>6, <3>7 DEF Scan
  <2>2. pc = "done" /\ call.message = <<>> => headers \o content # <<>>
    BY DEF PieceInv, Taken
  <2>3. pc # "killed"
    BY DEF PieceInv
  <2>. QED BY <2>1, <2>2, <2>3 DEF Text
<1>. QED BY <1>1, TypesHold, StreamHolds, ScanHolds, PieceHolds, PTL

==============================================================================
