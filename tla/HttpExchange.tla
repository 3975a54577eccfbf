----------------------------- MODULE HttpExchange -----------------------------
(***************************************************************************)
(* One HTTP request over a synchronous TCP connection: the calls of         *)
(* HttpStream on the client, HttpServerStream::request and response in the  *)
(* thread that examples/restserver.cpp has for a connection.                *)
(*                                                                          *)
(* The request is a sequence of parts: the first Line are its first line    *)
(* with the line's end, then come header fields, the blank line, and the    *)
(* message of a post or put, which is a write of its own.  The response is  *)
(* a sequence of characters, "cr", "lf" and others, which get reads one at  *)
(* a time up to a delimiter and the other calls in one block.               *)
(***************************************************************************)
EXTENDS Integers, SequencesExt

CONSTANTS
    Fields,     \* header fields the client may add
    Default,    \* the field of loadDefaultHeaders
    Messages,   \* what post and put send: no part, some text, or a line like a field
    Line,       \* how many parts of a request are its first line
    uCount,     \* how many parts the server's buffer holds
    Room,       \* how many characters the buffer of a block call holds
    Heads,      \* status lines and headers a response may have
    Bodies,     \* and bodies
    Networks    \* subset of {"whole", "pieces"}: how requests arrive

Chars == {"cr", "lf", "x"}
CrLf == <<"cr", "lf">>
BlankLine == CrLf \o CrLf           \* HTTP_DELIMITER HTTP_DELIMITER

ASSUME RequestAssumption ==
    /\ {Line, uCount, Room} \subseteq Nat \ {0}
    /\ Default \in Fields /\ {"line", "blank", "text", "Pair"} \intersect Fields = {}
    /\ Messages \subseteq {<<>>, <<"text">>, <<"Pair">>}

(* The status line and the fields are not empty: the only blank line of a *)
(* head is its end.                                                       *)
ASSUME HeadAssumption ==
    /\ Heads \union Bodies \subseteq Seq(Chars)
    /\ \A h \in Heads : \A n \in 0 .. Len(h) :
          IsSuffix(BlankLine, SubSeq(h, 1, n)) <=> n = Len(h)

VARIABLES
    network,    \* how the request arrives
    fields,     \* the client's headers_
    call,       \* what the client calls: reading text or a block, with what message
    pc,         \* where the client is: idle, before a second write, in a read, or done
    headers, content,   \* what it reads
    matched,    \* how much of the delimiter the current read has seen
    request,    \* parts of the request on their way, and arrived
    server,     \* where the server's thread is
    funct,      \* the function request() recognised
    reqHeaders, \* the fields it found
    head, body, \* the response
    response,   \* characters of it on their way, and arrived
    open,       \* the server's end of the connection is open
    reset       \* it was reset

clientVars == <<fields, call, pc, headers, content, matched>>
serverVars == <<server, funct, reqHeaders, open>>
given == <<network, head, body>>
vars == <<given, clientVars, request, serverVars, response, reset>>

(* get with two strings; the other calls: get with a buffer, deleter, post and put. *)
Calls == [text : {TRUE}, message : {<<>>}] \union [text : {FALSE}, message : Messages]

(* The constructors that open call loadDefaultHeaders, the other does not. *)
DefaultFields == {Default}

Reading == pc \in {"headers", "content", "block"}

TypeOK ==
    /\ network \in Networks
    /\ fields \subseteq Fields
    /\ call \in Calls
    /\ pc \in {"idle", "message", "headers", "content", "block", "done", "killed"}
    /\ headers \in Seq(Chars) /\ content \in Seq(Chars)
    /\ matched \in 0 .. 3
    /\ request.wire \in Nat /\ request.queue \in Nat
    /\ server \in {"request", "head", "body", "close", "ended"}
    /\ funct \in {"none", "INVALID", "known", "undefined"}
    /\ reqHeaders \subseteq Fields \union {"Pair"}
    /\ head \in Heads /\ body \in Bodies
    /\ {open, reset} \subseteq BOOLEAN

Init ==
    /\ network \in Networks
    /\ fields \in {{}, DefaultFields}
    /\ call \in Calls
    /\ pc = "idle"
    /\ headers = <<>> /\ content = <<>>
    /\ matched = 0
    /\ request = [wire |-> 0, queue |-> 0]
    /\ server = "request"
    /\ funct = "none"
    /\ reqHeaders = {}
    /\ head \in Heads
    /\ body \in Bodies
    /\ response = [wire |-> <<>>, queue |-> <<>>]
    /\ open = TRUE
    /\ reset = FALSE
-----------------------------------------------------------------------------
(***************************************************************************)
(* The client                                                               *)
(***************************************************************************)
AddHeader(f) ==
    /\ pc = "idle"
    /\ fields' = fields \union {f}
    /\ UNCHANGED <<given, call, pc, headers, content, matched, request, serverVars, response, reset>>

ClearHeaders ==
    /\ pc = "idle"
    /\ fields' = {}
    /\ UNCHANGED <<given, call, pc, headers, content, matched, request, serverVars, response, reset>>

(* The parts of the request: expandHeaders puts the fields of headers_ and  *)
(* a blank line behind the first line.                                      *)
RequestHead == [i \in 1 .. Line |-> "line"] \o SetToSeq(fields) \o <<"blank">>
WholeRequest == RequestHead \o call.message

(* The calls write the head of the request; get with two strings goes on    *)
(* with its reads, the others with a message, if they have one, or a read.  *)
FirstRead == IF call.text THEN "headers" ELSE "block"
WriteRequest ==
    /\ pc = "idle"
    /\ pc' = IF call.message = <<>> THEN FirstRead ELSE "message"
    /\ request' = [request EXCEPT !.wire = Len(RequestHead)]
    /\ UNCHANGED <<given, fields, call, headers, content, matched, serverVars, response, reset>>

(* If the client knows that the connection was reset, SIGPIPE ends it. *)
WriteMessage ==
    /\ pc = "message"
    /\ \/ /\ pc' = "block"
          /\ request' = [request EXCEPT !.wire = @ + Len(call.message)]
       \/ /\ reset
          /\ pc' = "killed"
          /\ UNCHANGED request
    /\ UNCHANGED <<given, fields, call, headers, content, matched, serverVars, response, reset>>

(* Socket::read(std::string&, const std::string&): one character, and what  *)
(* the loop knows of the delimiter after it.  The character that ends a     *)
(* match half-way is not tried as the beginning of another.                 *)
Matched_Keeps(d, m, c) == IF c = d[m + 1] THEN m + 1 ELSE m
Matched(d, m, c) == IF c = d[m + 1] THEN m + 1 ELSE 0

Delimiter_Line == CrLf
Delimiter == IF pc = "headers" THEN BlankLine ELSE CrLf

(* A string read ends with the delimiter, or when nothing more comes; then  *)
(* get goes on with the next read.                                          *)
NextRead == IF pc = "headers" THEN "content" ELSE "done"

ReadChar ==
    /\ pc \in {"headers", "content"}
    /\ response.queue # <<>>
    /\ LET c == Head(response.queue)
           m == Matched(Delimiter, matched, c)
       IN  /\ IF pc = "headers"
              THEN headers' = Append(headers, c) /\ UNCHANGED content
              ELSE content' = Append(content, c) /\ UNCHANGED headers
           /\ IF m = Len(Delimiter)
              THEN matched' = 0 /\ pc' = NextRead
              ELSE matched' = m /\ UNCHANGED pc
    /\ response' = [response EXCEPT !.queue = Tail(@)]
    /\ UNCHANGED <<given, fields, call, request, serverVars, reset>>

(* One ::recv takes what has arrived and the buffer holds. *)
ReadBlock ==
    /\ pc = "block"
    /\ response.queue # <<>>
    /\ LET n == IF Len(response.queue) < Room THEN Len(response.queue) ELSE Room
       IN  /\ content' = SubSeq(response.queue, 1, n)
           /\ response' = [response EXCEPT !.queue = SubSeq(@, n + 1, Len(@))]
    /\ pc' = "done"
    /\ UNCHANGED <<given, fields, call, headers, matched, request, serverVars, reset>>

(* The end of the connection, or an error: read returns 0. *)
AtEnd == /\ Reading
         /\ response.queue = <<>> /\ response.wire = <<>> /\ ~open

EndOfData_Waits == FALSE
EndOfData == AtEnd /\ pc' = NextRead

ReadNothing ==
    /\ EndOfData
    /\ matched' = 0
    /\ UNCHANGED <<given, fields, call, headers, content, request, serverVars, response, reset>>
-----------------------------------------------------------------------------
(***************************************************************************)
(* The server's thread                                                      *)
(***************************************************************************)

(* What request() makes of the n parts that one read returned.  The search  *)
(* for the end of the line does not stop at n but at uCount: without an end *)
(* among the n it goes on in what was in the buffer before.  If the result  *)
(* has three words the length left for headers is negative, which           *)
(* parseHeaders takes for a huge one; otherwise the request is not valid.   *)
Recognised(n) == IF n < Line THEN {"INVALID", "undefined"} ELSE {"known"}

(* parseHeaders takes the fields from the rest of what was read.  It does   *)
(* not stop at the blank line: a line of the message that looks like a      *)
(* field becomes one.                                                       *)
FieldsIn_NoLast(n) == {WholeRequest[i] : i \in Line + 1 .. n - 2}
FieldsIn_AnyLine(n) == {WholeRequest[i] : i \in Line + 1 .. n}
FieldsIn(n) == {WholeRequest[i] : i \in Line + 1 .. n} \ {"blank", "text"}

(* What one read puts into the buffer. *)
Received == IF request.queue < uCount THEN request.queue ELSE uCount

(* Undefined behaviour ends the process here, and with it the connection.   *)
ServeRequest ==
    /\ server = "request"
    /\ request.queue > 0
    /\ request' = [request EXCEPT !.queue = @ - Received]
    /\ \E f \in Recognised(Received) :
        /\ funct' = f
        /\ reqHeaders' = IF f = "known" THEN FieldsIn(Received) ELSE reqHeaders
        /\ server' = IF f = "undefined" THEN "ended" ELSE "head"
        /\ open' = (f # "undefined")
    /\ UNCHANGED <<given, clientVars, response, reset>>

(* response() writes status line and headers, then the body. *)
RespondHead ==
    /\ server = "head"
    /\ response' = [response EXCEPT !.wire = @ \o head]
    /\ server' = "body"
    /\ UNCHANGED <<given, clientVars, request, funct, reqHeaders, open, reset>>

RespondBody ==
    /\ server = "body"
    /\ response' = [response EXCEPT !.wire = @ \o body]
    /\ server' = "close"
    /\ UNCHANGED <<given, clientVars, request, funct, reqHeaders, open, reset>>

(* What is left of the response on its way when a connection is reset. *)
Kept == {[response EXCEPT !.wire = SubSeq(@, 1, n)] : n \in 0 .. Len(response.wire)}

(* If part of the request that arrived was not read the kernel resets the   *)
(* connection.                                                              *)
CloseServer ==
    /\ server = "close"
    /\ server' = "ended"
    /\ open' = FALSE
    /\ reset' = (request.queue > 0)
    /\ response' \in IF reset' THEN Kept ELSE {response}
    /\ UNCHANGED <<given, clientVars, request, funct, reqHeaders>>
-----------------------------------------------------------------------------
(***************************************************************************)
(* The network                                                              *)
(***************************************************************************)
(* Each write may arrive whole, or all in pieces; what arrives at a         *)
(* connection that is closed resets it.                                     *)
RequestArrives ==
    /\ request.wire > 0
    /\ \E n \in (IF network = "whole" THEN {request.wire} ELSE 1 .. request.wire) :
        request' = [wire |-> request.wire - n,
                    queue |-> IF open THEN request.queue + n ELSE request.queue]
    /\ reset' = (reset \/ ~open)
    /\ response' \in IF open THEN {response} ELSE Kept
    /\ UNCHANGED <<given, clientVars, serverVars>>

ResponseArrives ==
    /\ response.wire # <<>>
    /\ \E n \in 1 .. Len(response.wire) :
        response' = [wire |-> SubSeq(response.wire, n + 1, Len(response.wire)),
                     queue |-> response.queue \o SubSeq(response.wire, 1, n)]
    /\ UNCHANGED <<given, clientVars, serverVars, request, reset>>

ClientStep == WriteMessage \/ ReadChar \/ ReadBlock \/ ReadNothing
ServerStep == ServeRequest \/ RespondHead \/ RespondBody \/ CloseServer
NetworkStep == RequestArrives \/ ResponseArrives

Next ==
    \/ \E f \in Fields : AddHeader(f)
    \/ ClearHeaders
    \/ WriteRequest
    \/ ClientStep
    \/ ServerStep
    \/ NetworkStep

Spec == Init /\ [][Next]_vars
             /\ WF_vars(ClientStep) /\ WF_vars(ServerStep) /\ WF_vars(NetworkStep)
-----------------------------------------------------------------------------
(***************************************************************************)
(* Properties                                                               *)
(***************************************************************************)

(* The reference definition: the shortest prefix of a text that ends in the *)
(* delimiter, or the whole text if there is none.                           *)
UpTo(text, d) ==
    LET ends == {n \in 1 .. Len(text) : IsSuffix(d, SubSeq(text, 1, n))}
    IN  IF ends = {} THEN text ELSE SubSeq(text, 1, CHOOSE n \in ends : \A k \in ends : n <= k)

(* A text in which no "cr" follows another, as in every text of lines.      *)
TextOfLines(t) == \A i \in 1 .. Len(t) - 1 : ~(t[i] = "cr" /\ t[i + 1] = "cr")

HeadInOnePiece == network = "whole" /\ Len(RequestHead) <= uCount

(* If the head of the request arrives in one piece and fits the server's    *)
(* buffer, get returns the status line and headers of the response, and the *)
(* first line of its body, however the response is cut into pieces; a call  *)
(* without a message that reads a block gets some of the response; and no   *)
(* call ends the client.                                                    *)
ReadsAsWritten ==
    HeadInOnePiece =>
        /\ pc = "done" /\ call.text /\ TextOfLines(head \o body) =>
                headers = head /\ content = UpTo(body, CrLf)
        /\ pc = "done" /\ call.message = <<>> => headers \o content # <<>>
        /\ pc # "killed"

(* Whatever happens on the way, what was read is the beginning of the       *)
(* response, and get has no content before it has all the headers.          *)
ReadsPrefix ==
    /\ IsPrefix(headers \o content, head \o body)
    /\ call.text /\ content # <<>> /\ TextOfLines(head \o body) => headers = head

(* A request whose head arrives in one piece is recognised by its first     *)
(* line, also when the buffer does not hold all of it.  If it does, the     *)
(* server finds all header fields the client had; what else it finds it     *)
(* took from the message.                                                   *)
RequestUnderstood ==
    funct # "none" /\ network = "whole" /\ uCount >= Line =>
        /\ funct = "known"
        /\ reqHeaders \subseteq fields \union ToSet(call.message)
        /\ HeadInOnePiece => fields \subseteq reqHeaders

(* The calls return, if SIGPIPE does not end the client, also when the      *)
(* server does not understand the request or never sends a delimiter: the   *)
(* end of the connection ends every read.                                   *)
GetReturns == (pc # "idle") ~> (pc \in {"done", "killed"})
==============================================================================
