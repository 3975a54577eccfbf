------------------------ MODULE SocketLifecycleProofs ------------------------
(***************************************************************************)
(* Theorems about SocketLifecycle, for every set of objects, descriptors    *)
(* and programs.                                                            *)
(*                                                                          *)
(* The argument looks at a step only through what it does to descriptors:   *)
(* it keeps them, takes one, drops one (closes and forgets it) or forgets   *)
(* one.  Lemma HandleSteps is the case analysis over Next; everything about *)
(* ownership follows from the four shapes.  The later sections add what a   *)
(* state says of its object (StatesHaveHandles), of the descriptor it has   *)
(* (StatesMatchKernel), of the TLS context (TlsContextIsOwned) and of the   *)
(* put area (NeverAborts), again one object's step at a time.               *)
(***************************************************************************)
EXTENDS SocketLifecycle, TLAPS

(***************************************************************************)
(* What ExclusiveOwnership and NoLeak say of the programs they are about,   *)
(* and that what an object holds is open in the kernel: no member function  *)
(* is ever applied to a descriptor that was closed and handed out again.    *)
(***************************************************************************)
OneHolder ==
    \A s, r \in Sockets : s # r /\ hFile[s] = hFile[r] => hFile[s] = NoFd

AllHeld ==
    \A f \in Fds : Open(f) => \E s \in live : hFile[s] = f

HandleIsOpen ==
    \A s \in Sockets : hFile[s] # NoFd => s \in live /\ Open(hFile[s])

(* A program stays the one it is. *)
LEMMA ProgramKept ==
    [Next]_vars => program' = program /\ Habits' = Habits
BY DEF Next, vars, Habits

Keeps ==
    /\ hFile' = hFile
    /\ live \subseteq live'
    /\ \A g \in Fds : Open(g)' <=> Open(g)

Takes(s, f) ==
    /\ ~Open(f)
    /\ s \notin live \/ hFile[s] = NoFd \/ "retry" \in Habits
    /\ hFile' = [hFile EXCEPT ![s] = f]
    /\ live' = live \union {s}
    /\ \A g \in Fds : Open(g)' <=> Open(g) \/ g = f

Drops(s) ==
    /\ s \in live
    /\ hFile' = [hFile EXCEPT ![s] = NoFd]
    /\ live \ {s} \subseteq live'
    /\ \A g \in Fds : Open(g)' <=> Open(g) /\ g # hFile[s]

Forgets(s) ==
    /\ s \notin live \/ hFile[s] = NoFd \/ "retry" \in Habits
    /\ hFile' = [hFile EXCEPT ![s] = NoFd]
    /\ live \subseteq live'
    /\ \A g \in Fds : Open(g)' <=> Open(g)

HandleStep ==
    \/ Keeps
    \/ \E s \in Sockets, f \in Fds : Takes(s, f)
    \/ \E s \in Sockets : Drops(s) \/ Forgets(s)

------------------------------------------------------------------------------
(* A constructor acts on an object that does not exist; the other forms of
   open on one that holds nothing, unless the program retries. *)
LEMMA MayOpenFacts ==
    ASSUME NEW s \in Sockets, NEW form \in Forms, MayOpen(s, form)
    PROVE  s \notin live \/ hFile[s] = NoFd \/ "retry" \in Habits
BY DEF MayOpen

(* Every call of open() keeps, takes or forgets. *)
LEMMA OpenSteps ==
    ASSUME TypeOK, NEW s \in Sockets, OpenCall(s)
    PROVE  HandleStep
<1>1. PICK form \in Forms, t \in Targets :
        \/ OpenRefused(s, form, t)
        \/ OpenNobody(s, form, t)
        \/ OpenWithoutSocket(s, form, t)
        \/ \E f \in Fds :
              \/ OpenServer(s, form, t, f)
              \/ OpenThenClose(s, form, t, f)
              \/ OpenClientFails(s, form, t, f)
              \/ OpenDatagramClient(s, form, t, f)
              \/ OpenConnects(s, form, t, f)
  BY DEF OpenCall
<1>2. MayOpen(s, form)
  BY <1>1 DEF OpenRefused, OpenNobody, OpenWithoutSocket, OpenServer, OpenThenClose,
              OpenClientFails, OpenDatagramClient, OpenConnects
<1>3. s \notin live \/ hFile[s] = NoFd \/ "retry" \in Habits
  BY <1>2, MayOpenFacts
<1>4. CASE OpenRefused(s, form, t)
  <2>1. /\ live \subseteq live'
        /\ \A g \in Fds : Open(g)' <=> Open(g)
        /\ hFile' = [hFile EXCEPT ![s] = Entered(s, form)]
    BY <1>4 DEF OpenRefused, Open
  <2>2. Entered(s, form) = NoFd \/ hFile' = hFile
    BY <2>1 DEF Entered, TypeOK
  <2>. QED BY <1>3, <2>1, <2>2 DEF HandleStep, Keeps, Forgets
<1>5. CASE OpenNobody(s, form, t)
  BY <1>5 DEF OpenNobody, Abort, HandleStep, Keeps, Open
<1>6. CASE OpenWithoutSocket(s, form, t)
  <2>1. /\ live \subseteq live'
        /\ \A g \in Fds : Open(g)' <=> Open(g)
        /\ \/ hFile' = [hFile EXCEPT ![s] = NoFd]
           \/ hFile' = [hFile EXCEPT ![s] = Entered(s, form)]
    BY <1>6 DEF OpenWithoutSocket, Open
  <2>2. hFile' = [hFile EXCEPT ![s] = NoFd] \/ hFile' = hFile
    BY <2>1 DEF Entered, TypeOK
  <2>. QED BY <1>3, <2>1, <2>2 DEF HandleStep, Keeps, Forgets
<1>7. ASSUME NEW f \in Fds,
             \/ OpenServer(s, form, t, f) \/ OpenClientFails(s, form, t, f)
             \/ OpenDatagramClient(s, form, t, f) \/ OpenConnects(s, form, t, f)
      PROVE  HandleStep
  <2>1. \E k \in {"listening", "dgram", "fresh"} : kernel' = [kernel EXCEPT ![f] = k]
    BY <1>7 DEF OpenServer, OpenClientFails, OpenDatagramClient, OpenConnects
  <2>2. \A g \in Fds : Open(g)' <=> Open(g) \/ g = f
    BY <2>1 DEF Open, TypeOK
  <2>3. ~Open(f) /\ hFile' = [hFile EXCEPT ![s] = f] /\ live' = live \union {s}
    BY <1>7 DEF OpenServer, OpenClientFails, OpenDatagramClient, OpenConnects
  <2>. QED BY <1>3, <2>2, <2>3 DEF HandleStep, Takes
<1>8. ASSUME NEW f \in Fds, OpenThenClose(s, form, t, f)
      PROVE  HandleStep
  <2>1. CASE Abort("write")
    BY <2>1 DEF Abort, HandleStep, Keeps, Open
  <2>2. CASE ~Abort("write")
    <3>1. /\ hFile' = [hFile EXCEPT ![s] = NoFd]
          /\ live \subseteq live'
          /\ \A g \in Fds : Open(g)' <=> Open(g)
      BY <1>8, <2>2 DEF OpenThenClose, Open
    <3>. QED BY <1>3, <3>1 DEF HandleStep, Forgets
  <2>. QED BY <2>1, <2>2
<1>. QED BY <1>1, <1>4, <1>5, <1>6, <1>7, <1>8

(* The return of a blocking call keeps, takes (accept) or drops (a failed TLS open). *)
LEMMA ReturnSteps ==
    ASSUME TypeOK, OneHolder, HandleIsOpen, NEW s \in Sockets, CallReturns(s)
    PROVE  HandleStep
<1>1. CASE ConnectSucceeds(s)
  <2>1. /\ hFile' = hFile /\ live' = live
        /\ kernel' = [kernel EXCEPT ![hFile[s]] = "stream"]
    BY <1>1 DEF ConnectSucceeds
  <2>2. hFile[s] \in Fds => Open(hFile[s])
    BY NoFdAssumption DEF HandleIsOpen
  <2>3. \A g \in Fds : Open(g)' <=> Open(g)
    BY <2>1, <2>2 DEF Open, TypeOK
  <2>. QED BY <2>1, <2>3 DEF HandleStep, Keeps
<1>2. CASE TlsConnectSucceeds(s)
  <2>1. /\ hFile' = hFile /\ live' = live
        /\ kernel' = [kernel EXCEPT ![hFile[s]] = "stream"]
    BY <1>2 DEF TlsConnectSucceeds
  <2>2. hFile[s] \in Fds => Open(hFile[s])
    BY NoFdAssumption DEF HandleIsOpen
  <2>3. \A g \in Fds : Open(g)' <=> Open(g)
    BY <2>1, <2>2 DEF Open, TypeOK
  <2>. QED BY <2>1, <2>3 DEF HandleStep, Keeps
<1>3. CASE ConnectFails(s) \/ HandshakeSucceeds(s) \/ AcceptFails(s)
  BY <1>3 DEF ConnectFails, HandshakeSucceeds, AcceptFails, HandleStep, Keeps, Open
<1>4. CASE TlsFails(s)
  <2>1. CASE Abort("write")
    BY <2>1 DEF Abort, HandleStep, Keeps, Open
  <2>2. CASE ~Abort("write")
    <3>1. /\ s \in live /\ live' = live
          /\ hFile' = [hFile EXCEPT ![s] = NoFd]
          /\ kernel' = [kernel EXCEPT ![hFile[s]] = "free"]
      BY <1>4, <2>2 DEF TlsFails, In
    <3>2. \A g \in Fds : Open(g)' <=> Open(g) /\ g # hFile[s]
      BY <3>1 DEF Open, TypeOK
    <3>. QED BY <3>1, <3>2 DEF HandleStep, Drops
  <2>. QED BY <2>1, <2>2
<1>5. ASSUME NEW c \in Sockets, NEW f \in Fds, AcceptSucceeds(s, c, f)
      PROVE  HandleStep
  <2>1. /\ ~Open(f) /\ c \notin live
        /\ hFile' = [hFile EXCEPT ![c] = f]
        /\ live' = live \union {c}
        /\ kernel' = [kernel EXCEPT ![f] = "stream"]
    BY <1>5 DEF AcceptSucceeds
  <2>2. \A g \in Fds : Open(g)' <=> Open(g) \/ g = f
    BY <2>1 DEF Open, TypeOK
  <2>. QED BY <2>1, <2>2 DEF HandleStep, Takes
<1>. QED BY <1>1, <1>2, <1>3, <1>4, <1>5 DEF CallReturns

(* Without assignment every step has one of the four shapes. *)
LEMMA HandleSteps ==
    ASSUME TypeOK, OneHolder, HandleIsOpen, "assign" \notin Habits, [Next]_vars
    PROVE  HandleStep
<1>1. CASE UNCHANGED vars
  BY <1>1 DEF vars, HandleStep, Keeps, Open
<1>2. ASSUME NEW s \in Sockets,
             \/ Construct(s) \/ ListenCall(s) \/ Put(s) \/ Flush(s) \/ Read(s) \/ Clear(s)
      PROVE  HandleStep
  <2>1. hFile' = hFile /\ live \subseteq live' /\ kernel' = kernel
    BY <1>2 DEF Construct, ListenCall, Abort, Put, Flush, Read, Clear
  <2>. QED BY <2>1 DEF HandleStep, Keeps, Open
<1>3. ASSUME NEW s \in Sockets, Close(s) \/ Destroy(s)
      PROVE  HandleStep
  <2>1. CASE Abort("write")
    BY <2>1 DEF Abort, HandleStep, Keeps, Open
  <2>2. CASE ~Abort("write")
    <3>1. s \in live /\ live \ {s} \subseteq live' /\ Closing(s)
      BY <1>3, <2>2 DEF Close, Destroy, Callable, In
    <3>2. \A g \in Fds : Open(g)' <=> Open(g) /\ g # hFile[s]
      BY <3>1 DEF Closing, Open, TypeOK
    <3>. QED BY <3>1, <3>2 DEF HandleStep, Drops, Closing
  <2>. QED BY <2>1, <2>2
<1>4. ASSUME NEW s \in Sockets, NEW r \in Sockets, Assign(s, r)
      PROVE  HandleStep
  BY <1>4 DEF Assign
<1>. QED BY <1>1, <1>2, <1>3, <1>4, OpenSteps, ReturnSteps DEF Next

------------------------------------------------------------------------------
(* What the steps write into io is an IoRecord. *)
LEMMA IoType ==
    ASSUME NEW g \in BOOLEAN, NEW p \in BOOLEAN, NEW st \in Statuses
    PROVE  Io(g, p, st) \in IoRecord
BY DEF Io, IoRecord, Statuses

LEMMA IoFields ==
    ASSUME NEW o \in IoRecord
    PROVE  o.good \in BOOLEAN /\ o.pending \in BOOLEAN /\ o.status \in Statuses
BY DEF IoRecord, Statuses

LEMMA IoUpdates ==
    ASSUME NEW o \in IoRecord
    PROVE  /\ \A st \in Statuses : Io(o.good, o.pending, st) \in IoRecord
           /\ \A st \in Statuses : Io(TRUE, o.pending, st) \in IoRecord
           /\ \A st \in Statuses : Io(FALSE, o.pending, st) \in IoRecord
           /\ \A st \in Statuses : Io(o.good, FALSE, st) \in IoRecord
           /\ Io(TRUE, TRUE, o.status) \in IoRecord
           /\ Io(TRUE, o.pending, o.status) \in IoRecord
           /\ o.status \in Statuses
<1>1. TRUE \in BOOLEAN /\ FALSE \in BOOLEAN
  OBVIOUS
<1>. QED BY <1>1, IoType, IoFields

LEMMA RefuseType ==
    ASSUME NEW o \in IoRecord, NEW form \in Forms
    PROVE  Refuse(o, form) \in IoRecord
<1>1. CASE o.good /\ form # "constructor"
  <2>1. Refuse(o, form) = Io(TRUE, o.pending, "FAILED")
    BY <1>1 DEF Refuse
  <2>. QED BY <2>1, IoUpdates DEF Statuses
<1>2. CASE ~(o.good /\ form # "constructor")
  <2>1. Refuse(o, form) = Io(FALSE, o.pending, "FAILED")
    BY <1>2 DEF Refuse
  <2>. QED BY <2>1, IoUpdates DEF Statuses
<1>. QED BY <1>1, <1>2

LEMMA SyncType ==
    ASSUME NEW o \in IoRecord, NEW p, NEW h, NEW r \in SyncResults(o, p, h)
    PROVE  r \in IoRecord
<1>1. \/ r = Io(TRUE, o.status # "OK", o.status)
      \/ r = Io(FALSE, TRUE, "FAILED")
      \/ r = Io(o.good, FALSE, o.status)
  BY DEF SyncResults
<1>2. CASE r = Io(TRUE, o.status # "OK", o.status)
  <2>1. CASE o.status = "OK"
    <3>1. r = Io(TRUE, FALSE, "OK")
      BY <1>2, <2>1
    <3>. QED BY <3>1, IoType DEF Statuses
  <2>2. CASE o.status # "OK"
    <3>1. r = Io(TRUE, TRUE, o.status)
      BY <1>2, <2>2
    <3>. QED BY <3>1, IoUpdates
  <2>. QED BY <2>1, <2>2
<1>3. CASE r = Io(FALSE, TRUE, "FAILED")
  BY <1>3, IoType DEF Statuses
<1>4. CASE r = Io(o.good, FALSE, o.status)
  BY <1>4, IoUpdates
<1>. QED BY <1>1, <1>2, <1>3, <1>4

(* Put and flush: only the stream changes. *)
LEMMA FlushType ==
    ASSUME NEW o \in IoRecord
    PROVE  Io(o.good /\ ~o.pending, o.pending, o.status) \in IoRecord
<1>1. CASE o.good /\ ~o.pending
  BY <1>1, IoType, IoFields
<1>2. CASE ~(o.good /\ ~o.pending)
  BY <1>2, IoType, IoFields
<1>. QED BY <1>1, <1>2

LEMMA ReturnTypes ==
    ASSUME TypeOK, NEW s \in Sockets
    PROVE  /\ ReturnTrue(s) => io' \in [Sockets -> IoRecord]
           /\ \A form \in Forms, o \in IoRecord :
                 ReturnFalse(s, form, o) => io' \in [Sockets -> IoRecord]
<1>1. io \in [Sockets -> IoRecord] /\ io[s] \in IoRecord
  BY DEF TypeOK
<1>2. Io(io[s].good, io[s].pending, "OK") \in IoRecord
  BY <1>1, IoUpdates DEF Statuses
<1>3. ReturnTrue(s) => io' \in [Sockets -> IoRecord]
  BY <1>1, <1>2 DEF ReturnTrue
<1>4. \A form \in Forms, o \in IoRecord :
        ReturnFalse(s, form, o) => io' \in [Sockets -> IoRecord]
  BY <1>1, RefuseType DEF ReturnFalse
<1>. QED BY <1>3, <1>4

LEMMA CallTypes ==
    ASSUME TypeOK, NEW s \in Sockets
    PROVE  LET Calls == [op: {"none", "connect", "tlsConnect", "handshake", "accept"},
                         form: Forms]
           IN  /\ ReturnTrue(s) => call' \in [Sockets -> Calls]
               /\ \A form, o : ReturnFalse(s, form, o) => call' \in [Sockets -> Calls]
               /\ call[s].form \in Forms
<1>. DEFINE Calls == [op: {"none", "connect", "tlsConnect", "handshake", "accept"},
                      form: Forms]
<1>1. call \in [Sockets -> Calls]
  BY DEF TypeOK
<1>2. Idle \in Calls
  BY DEF Idle, Forms
<1>3. [call EXCEPT ![s] = Idle] \in [Sockets -> Calls]
  BY <1>1, <1>2
<1>4. call[s].form \in Forms
  BY <1>1
<1>. QED BY <1>3, <1>4 DEF ReturnTrue, ReturnFalse

LEMMA InitTypeOK == Init => TypeOK
<1>1. FreshIo \in IoRecord
  BY IoType DEF FreshIo, Statuses
<1>2. ASSUME Init
      PROVE  ssl \in [Sockets -> BOOLEAN] /\ aborted = "no" /\ program \in Programs
  BY <1>2 DEF Init
<1>3. ASSUME Init
      PROVE  io \in [Sockets -> IoRecord]
  BY <1>1, <1>3 DEF Init
<1>4. ASSUME Init
      PROVE  call \in [Sockets -> [op: {"none", "connect", "tlsConnect", "handshake", "accept"},
                                   form: Forms]]
  BY <1>4 DEF Init, Idle, Forms
<1>5. ASSUME Init
      PROVE  /\ live \subseteq Sockets
             /\ pState \in [Sockets -> States]
             /\ hFile \in [Sockets -> Fds \union {NoFd}]
             /\ proto \in [Sockets -> {"uninit", "stream", "dgram"}]
             /\ ctx \in [Sockets -> {"uninit", "owned", "freed"}]
             /\ kernel \in [Fds -> {"free", "fresh", "listening", "stream", "dgram"}]
  BY <1>5 DEF Init, States
<1>. QED BY <1>2, <1>3, <1>4, <1>5 DEF TypeOK

LEMMA NextTypeOK == TypeOK /\ [Next]_vars => TypeOK'
<1>. SUFFICES ASSUME TypeOK, [Next]_vars
              PROVE  TypeOK'
  OBVIOUS
<1>0. program' = program
  BY ProgramKept
<1>. USE <1>0 DEF TypeOK, States, Connections, Forms, Idle
<1>1. CASE UNCHANGED vars
  BY <1>1 DEF vars
<1>2. ASSUME NEW s \in Sockets, Construct(s) \/ ListenCall(s)
      PROVE  TypeOK'
  <2>1. CASE Construct(s)
    BY <2>1 DEF Construct
  <2>2. CASE ListenCall(s)
    <3>1. CASE Abort("listen")
      BY <3>1 DEF Abort
    <3>2. CASE ~Abort("listen")
      BY <2>2, <3>2 DEF ListenCall
    <3>. QED BY <3>1, <3>2
  <2>. QED BY <1>2, <2>1, <2>2
<1>3. ASSUME NEW s \in Sockets, OpenCall(s)
      PROVE  TypeOK'
  <2>1. PICK form \in Forms, t \in Targets :
          \/ OpenRefused(s, form, t)
          \/ OpenNobody(s, form, t)
          \/ OpenWithoutSocket(s, form, t)
          \/ \E f \in Fds :
                \/ OpenServer(s, form, t, f)
                \/ OpenThenClose(s, form, t, f)
                \/ OpenClientFails(s, form, t, f)
                \/ OpenDatagramClient(s, form, t, f)
                \/ OpenConnects(s, form, t, f)
    BY <1>3 DEF OpenCall
  <2>2. t.proto \in {"stream", "dgram"}
    BY ProgramsAssumption DEF Program, Target, Targets
  <2>3. Entered(s, form) \in Fds \union {NoFd}
    BY DEF Entered
  <2>4. CASE OpenRefused(s, form, t)
    BY <2>2, <2>3, <2>4, ReturnTypes, CallTypes, SMTT(60) DEF OpenRefused
  <2>5. CASE OpenNobody(s, form, t)
    BY <2>5 DEF OpenNobody, Abort
  <2>6. CASE OpenWithoutSocket(s, form, t)
    BY <2>2, <2>3, <2>6, ReturnTypes, CallTypes, ZenonT(60) DEF OpenWithoutSocket
  <2>7. ASSUME NEW f \in Fds, OpenServer(s, form, t, f)
        PROVE  TypeOK'
    BY <2>2, <2>7, ReturnTypes, CallTypes DEF OpenServer, ServerState
  <2>8. ASSUME NEW f \in Fds, OpenThenClose(s, form, t, f)
        PROVE  TypeOK'
    <3>1. CASE Abort("write")
      BY <3>1 DEF Abort
    <3>2. ASSUME NEW o \in SyncResults(io[s], "Closed", f), ReturnFalse(s, form, o)
          PROVE  io' \in [Sockets -> IoRecord]
      BY <3>2, SyncType, ReturnTypes
    <3>3. CASE ~Abort("write")
      <4>1. PICK o \in SyncResults(io[s], "Closed", f) : ReturnFalse(s, form, o)
        BY <2>8, <3>3 DEF OpenThenClose
      <4>2. io' \in [Sockets -> IoRecord]
        BY <3>2, <4>1
      <4>3. call' = [call EXCEPT ![s] = Idle]
        BY <4>1 DEF ReturnFalse
      <4>4. /\ live' = live \union {s}
            /\ hFile' = [hFile EXCEPT ![s] = NoFd]
            /\ pState' = [pState EXCEPT ![s] = "Closed"]
            /\ proto' = [proto EXCEPT ![s] = t.proto]
            /\ UNCHANGED <<ctx, ssl, kernel, aborted>>
        BY <2>8, <3>3 DEF OpenThenClose
      <4>. QED BY <2>2, <4>2, <4>3, <4>4
    <3>. QED BY <3>1, <3>3
  <2>9. ASSUME NEW f \in Fds, OpenClientFails(s, form, t, f)
        PROVE  TypeOK'
    BY <2>2, <2>9, ReturnTypes, CallTypes DEF OpenClientFails
  <2>10. ASSUME NEW f \in Fds, OpenDatagramClient(s, form, t, f)
         PROVE  TypeOK'
    BY <2>2, <2>10, ReturnTypes, CallTypes DEF OpenDatagramClient
  <2>11. ASSUME NEW f \in Fds, OpenConnects(s, form, t, f)
         PROVE  TypeOK'
    BY <2>2, <2>11 DEF OpenConnects
  <2>. QED BY <2>1, <2>4, <2>5, <2>6, <2>7, <2>8, <2>9, <2>10, <2>11
<1>4. ASSUME NEW s \in Sockets, CallReturns(s)
      PROVE  TypeOK'
  <2>1. CASE ConnectSucceeds(s)
    BY <2>1, ReturnTypes, CallTypes DEF ConnectSucceeds
  <2>2. CASE ConnectFails(s)
    BY <2>2, ReturnTypes, CallTypes DEF ConnectFails
  <2>3. CASE TlsConnectSucceeds(s)
    BY <2>3 DEF TlsConnectSucceeds
  <2>4. CASE HandshakeSucceeds(s)
    BY <2>4, ReturnTypes, CallTypes DEF HandshakeSucceeds
  <2>5. CASE TlsFails(s)
    <3>1. CASE Abort("write")
      BY <3>1 DEF Abort
    <3>2. ASSUME NEW o \in SyncResults(io[s], pState[s], hFile[s]),
                 ReturnFalse(s, call[s].form, o)
          PROVE  io' \in [Sockets -> IoRecord]
      BY <3>2, SyncType, ReturnTypes, CallTypes
    <3>3. CASE ~Abort("write")
      BY <2>5, <3>2, <3>3, CallTypes DEF TlsFails
    <3>. QED BY <3>1, <3>3
  <2>6. CASE AcceptFails(s)
    BY <2>6 DEF AcceptFails
  <2>7. ASSUME NEW c \in Sockets, NEW f \in Fds, AcceptSucceeds(s, c, f)
        PROVE  TypeOK'
    BY <2>7 DEF AcceptSucceeds
  <2>. QED BY <1>4, <2>1, <2>2, <2>3, <2>4, <2>5, <2>6, <2>7 DEF CallReturns
<1>5. ASSUME NEW s \in Sockets, Put(s) \/ Read(s) \/ Clear(s)
      PROVE  TypeOK'
  <2>1. \E new \in IoRecord : io' = [io EXCEPT ![s] = new]
    BY <1>5, IoUpdates DEF Put, Read, Clear, Statuses
  <2>. QED BY <1>5, <2>1 DEF Put, Read, Clear
<1>6. ASSUME NEW s \in Sockets, Flush(s)
      PROVE  TypeOK'
  BY <1>6, SyncType, FlushType DEF Flush
<1>7. ASSUME NEW s \in Sockets, Close(s) \/ Destroy(s)
      PROVE  TypeOK'
  <2>1. CASE Abort("write")
    BY <2>1 DEF Abort
  <2>2. FreshIo \in IoRecord
    BY IoType DEF FreshIo, Statuses
  <2>3. CASE Close(s) /\ ~Abort("write")
    <3>1. io' \in [Sockets -> IoRecord]
      BY <2>3, SyncType DEF Close
    <3>2. Released(s) \in {"uninit", "owned", "freed"}
      BY DEF Released
    <3>3. hFile' = [hFile EXCEPT ![s] = NoFd] /\ kernel' \in [Fds -> {"free", "fresh", "listening", "stream", "dgram"}]
      BY <2>3 DEF Close, Closing
    <3>4. /\ UNCHANGED <<live, proto, ssl, call, aborted>>
          /\ pState' = [pState EXCEPT ![s] = "Closed"]
          /\ ctx' = [ctx EXCEPT ![s] = Released(s)]
      BY <2>3 DEF Close
    <3>. QED BY <3>1, <3>2, <3>3, <3>4
  <2>4. CASE Destroy(s) /\ ~Abort("write")
    <3>1. io' \in [Sockets -> IoRecord]
      BY <2>2, <2>4 DEF Destroy
    <3>2. hFile' = [hFile EXCEPT ![s] = NoFd] /\ kernel' \in [Fds -> {"free", "fresh", "listening", "stream", "dgram"}]
      BY <2>4 DEF Destroy, Closing
    <3>. QED BY <2>4, <3>1, <3>2, ZenonT(60) DEF Destroy
  <2>. QED BY <1>7, <2>1, <2>3, <2>4
<1>8. ASSUME NEW s \in Sockets, NEW r \in Sockets, Assign(s, r)
      PROVE  TypeOK'
  <2>1. Io(io[s].good, io[s].pending, io[r].status) \in IoRecord
    BY IoUpdates
  <2>. QED BY <1>8, <2>1 DEF Assign
<1>. QED BY <1>1, <1>2, <1>3, <1>4, <1>5, <1>6, <1>7, <1>8 DEF Next

(* Every value stays of its type, whatever the program permits itself. *)
THEOREM TypeCorrect == Spec => []TypeOK
BY InitTypeOK, NextTypeOK, PTL DEF Spec

------------------------------------------------------------------------------
(***************************************************************************)
(* Ownership.  Each invariant is inductive over the four shapes alone.      *)
(***************************************************************************)
OwnershipInv == TypeOK /\ OneHolder /\ HandleIsOpen

LEMMA OwnershipInit == Init => OwnershipInv /\ AllHeld
<1>. SUFFICES ASSUME Init PROVE OwnershipInv /\ AllHeld
  OBVIOUS
<1>1. TypeOK
  BY InitTypeOK
<1>. QED BY <1>1 DEF Init, OwnershipInv, OneHolder, HandleIsOpen, AllHeld, Open

LEMMA OwnershipStep ==
    ASSUME OwnershipInv, "assign" \notin Habits, [Next]_vars
    PROVE  OwnershipInv'
<1>. USE DEF OwnershipInv
<1>1. TypeOK'
  BY NextTypeOK
<1>2. HandleStep
  BY HandleSteps
<1>3. CASE Keeps
  BY <1>1, <1>3 DEF Keeps, OneHolder, HandleIsOpen, TypeOK
<1>4. ASSUME NEW s \in Sockets, NEW f \in Fds, Takes(s, f)
      PROVE  OwnershipInv'
  <2>1. /\ hFile'[s] = f
        /\ \A r \in Sockets : r # s => hFile'[r] = hFile[r]
    BY <1>4 DEF Takes, TypeOK
  <2>2. \A r \in Sockets : hFile[r] # f
    BY <1>4, NoFdAssumption DEF Takes, HandleIsOpen
  <2>3. OneHolder'
    BY <2>1, <2>2 DEF OneHolder
  <2>4. HandleIsOpen'
    BY <1>4, <2>1 DEF Takes, HandleIsOpen, TypeOK
  <2>. QED BY <1>1, <2>3, <2>4
<1>5. ASSUME NEW s \in Sockets, Drops(s) \/ Forgets(s)
      PROVE  OwnershipInv'
  <2>1. /\ hFile'[s] = NoFd
        /\ \A r \in Sockets : r # s => hFile'[r] = hFile[r]
    BY <1>5 DEF Drops, Forgets, TypeOK
  <2>2. OneHolder'
    BY <2>1 DEF OneHolder
  <2>3. HandleIsOpen'
    BY <1>5, <2>1 DEF Drops, Forgets, HandleIsOpen, OneHolder, TypeOK
  <2>. QED BY <1>1, <2>2, <2>3
<1>. QED BY <1>2, <1>3, <1>4, <1>5 DEF HandleStep

(* A program that never assigns sockets, whatever else it does, never has two
   objects on one descriptor nor an object on a closed one. *)
THEOREM OwnershipHolds ==
    Spec => [](ExclusiveOwnership /\ ("assign" \notin Habits => HandleIsOpen))
<1>. DEFINE Inv == "assign" \notin Habits => OwnershipInv
<1>1. Init => Inv
  BY OwnershipInit
<1>2. Inv /\ [Next]_vars => Inv'
  BY OwnershipStep, ProgramKept
<1>3. Inv => ExclusiveOwnership /\ ("assign" \notin Habits => HandleIsOpen)
  BY DEF OwnershipInv, ExclusiveOwnership, OneHolder
<1>. HIDE DEF Inv
<1>. QED BY <1>1, <1>2, <1>3, PTL DEF Spec

LEMMA NoLeakStep ==
    ASSUME OwnershipInv, AllHeld, OneOwner, [Next]_vars
    PROVE  AllHeld'
<1>. USE DEF OwnershipInv, OneOwner
<1>1. HandleStep
  BY HandleSteps
<1>2. CASE Keeps
  BY <1>2 DEF Keeps, AllHeld
<1>3. ASSUME NEW s \in Sockets, NEW f \in Fds, Takes(s, f)
      PROVE  AllHeld'
  <2>1. hFile[s] = NoFd
    BY <1>3 DEF Takes, HandleIsOpen
  <2>2. /\ hFile'[s] = f
        /\ \A r \in Sockets : r # s => hFile'[r] = hFile[r]
    BY <1>3 DEF Takes, TypeOK
  <2>. QED BY <1>3, <2>1, <2>2, NoFdAssumption DEF Takes, AllHeld, TypeOK
<1>4. ASSUME NEW s \in Sockets, Drops(s)
      PROVE  AllHeld'
  <2>1. \A r \in Sockets : r # s => hFile'[r] = hFile[r]
    BY <1>4 DEF Drops, TypeOK
  <2>. QED BY <1>4, <2>1 DEF Drops, AllHeld, TypeOK
<1>5. ASSUME NEW s \in Sockets, Forgets(s)
      PROVE  AllHeld'
  <2>1. hFile[s] = NoFd
    BY <1>5 DEF Forgets, HandleIsOpen
  <2>2. hFile' = hFile
    BY <1>5, <2>1 DEF Forgets, TypeOK
  <2>. QED BY <1>5, <2>2 DEF Forgets, AllHeld
<1>. QED BY <1>1, <1>2, <1>3, <1>4, <1>5 DEF HandleStep

(* Inductive for every program. *)
OwnedInv == OneOwner => OwnershipInv /\ AllHeld

LEMMA OwnedStep ==
    ASSUME OwnedInv, [Next]_vars
    PROVE  OwnedInv'
<1>1. OneOwner' = OneOwner
  BY ProgramKept DEF OneOwner
<1>2. ASSUME OneOwner
      PROVE  (OwnershipInv /\ AllHeld)'
  <2>1. "assign" \notin Habits
    BY <1>2 DEF OneOwner
  <2>. QED BY <1>2, <2>1, OwnershipStep, NoLeakStep DEF OwnedInv
<1>. QED BY <1>1, <1>2 DEF OwnedInv

(* If it also closes before it opens again, every open descriptor is held by an
   object that exists. *)
THEOREM NoLeakHolds ==
    Spec => []NoLeak
<1>1. Init => OwnedInv
  BY OwnershipInit DEF OwnedInv
<1>2. OwnedInv /\ [Next]_vars => OwnedInv'
  BY OwnedStep
<1>3. OwnedInv => NoLeak
  BY DEF OwnedInv, OneOwner, NoLeak, AllHeld
<1>. QED BY <1>1, <1>2, <1>3, PTL DEF Spec

------------------------------------------------------------------------------
(* Then the objects also implement DescriptorOwnership. *)
LEMMA OwnershipStepRefines ==
    ASSUME OwnershipInv, OneOwner, [Next]_vars
    PROVE  [Ownership!Next]_<<{f \in Fds : OneOwner /\ Open(f)},
                              [f \in Fds |-> {s \in Sockets : OneOwner /\ hFile[s] = f}]>>
<1>. DEFINE open == {f \in Fds : OneOwner /\ Open(f)}
            heldBy == [f \in Fds |-> {s \in Sockets : OneOwner /\ hFile[s] = f}]
<1>0. OneOwner'
  BY ProgramKept DEF OneOwner
<1>01. "assign" \notin Habits /\ "retry" \notin Habits
  BY DEF OneOwner
<1>. USE <1>0, <1>01 DEF OwnershipInv
<1>1. HandleStep
  BY HandleSteps
<1>2. ASSUME Keeps
      PROVE  UNCHANGED <<open, heldBy>>
  BY <1>2 DEF Keeps
<1>3. ASSUME NEW s \in Sockets, NEW f \in Fds, Takes(s, f)
      PROVE  Ownership!Acquire(f, s)
  <2>1. hFile[s] = NoFd /\ ~Open(f)
    BY <1>3 DEF Takes, HandleIsOpen
  <2>2. /\ hFile'[s] = f
        /\ \A r \in Sockets : r # s => hFile'[r] = hFile[r]
        /\ \A r \in Sockets : hFile[r] # f
    BY <1>3, NoFdAssumption DEF Takes, TypeOK, HandleIsOpen
  <2>3. f \notin open /\ \A g \in Fds : s \notin heldBy[g]
    BY <2>1, NoFdAssumption
  <2>4. open' = open \union {f}
    BY <1>3 DEF Takes
  <2>5. heldBy' = [heldBy EXCEPT ![f] = {s}]
    BY <2>1, <2>2, NoFdAssumption
  <2>. QED BY <2>3, <2>4, <2>5 DEF Ownership!Acquire
<1>4. ASSUME NEW s \in Sockets, NEW f \in Fds, Drops(s), f = hFile[s]
      PROVE  Ownership!Release(f)
  <2>1. Open(f)
    BY <1>4, NoFdAssumption DEF HandleIsOpen
  <2>2. /\ hFile'[s] = NoFd
        /\ \A r \in Sockets : r # s => hFile'[r] = hFile[r] /\ hFile[r] # f
    BY <1>4, NoFdAssumption DEF Drops, TypeOK, OneHolder
  <2>3. open' = open \ {f}
    BY <1>4 DEF Drops
  <2>4. heldBy' = [heldBy EXCEPT ![f] = {}]
    BY <1>4, <2>1, <2>2, NoFdAssumption
  <2>. QED BY <2>1, <2>3, <2>4 DEF Ownership!Release
<1>5. ASSUME NEW s \in Sockets, Drops(s) \/ Forgets(s), hFile[s] = NoFd
      PROVE  UNCHANGED <<open, heldBy>>
  <2>1. hFile' = hFile
    BY <1>5 DEF Drops, Forgets, TypeOK
  <2>2. open' = open
    BY <1>5, NoFdAssumption DEF Drops, Forgets
  <2>. QED BY <2>1, <2>2
<1>6. ASSUME NEW s \in Sockets, Forgets(s)
      PROVE  hFile[s] = NoFd
  BY <1>6 DEF Forgets, HandleIsOpen
<1>7. \A s \in Sockets, f \in Fds : Takes(s, f) => Ownership!Next
  BY <1>3 DEF Ownership!Next
<1>8. ASSUME NEW s \in Sockets, Drops(s)
      PROVE  Ownership!Next \/ UNCHANGED <<open, heldBy>>
  <2>1. CASE hFile[s] = NoFd
    BY <1>5, <1>8, <2>1
  <2>2. CASE hFile[s] # NoFd
    <3>1. PICK f \in Fds : f = hFile[s]
      BY <2>2 DEF TypeOK
    <3>2. Ownership!Release(f)
      BY <1>4, <1>8, <3>1
    <3>. QED BY <3>2 DEF Ownership!Next
  <2>. QED BY <2>1, <2>2
<1>9. \A s \in Sockets : Forgets(s) => UNCHANGED <<open, heldBy>>
  BY <1>5, <1>6
<1>10. Ownership!Next \/ UNCHANGED <<open, heldBy>>
  BY <1>1, <1>2, <1>7, <1>8, <1>9 DEF HandleStep
<1>. QED BY <1>10

(* Every step acquires, releases or keeps: the promise of DescriptorOwnership. *)
THEOREM OwnershipImplemented == Spec => ImplementsOwnership
<1>. DEFINE open == {f \in Fds : OneOwner /\ Open(f)}
            heldBy == [f \in Fds |-> {s \in Sockets : OneOwner /\ hFile[s] = f}]
<1>1. Init => OwnedInv /\ Ownership!Init
  BY OwnershipInit, NoFdAssumption DEF Init, Ownership!Init, Open, OwnedInv
<1>2. OwnedInv /\ [Next]_vars => OwnedInv'
  BY OwnedStep
<1>3. ASSUME OwnedInv, [Next]_vars
      PROVE  [Ownership!Next]_<<open, heldBy>>
  <2>1. CASE OneOwner
    BY <1>3, <2>1, OwnershipStepRefines DEF OwnedInv
  <2>2. CASE ~OneOwner
    <3>1. ~OneOwner'
      BY <1>3, <2>2, ProgramKept DEF OneOwner
    <3>. QED BY <2>2, <3>1
  <2>. QED BY <2>1, <2>2
<1>. QED BY <1>1, <1>2, <1>3, PTL DEF Spec, ImplementsOwnership, Ownership!Spec

------------------------------------------------------------------------------
(***************************************************************************)
(* States and descriptors.  A step changes one object, s: of the others it  *)
(* only lets a blocking call return.  So an invariant about each object by  *)
(* itself needs an argument about s alone.                                  *)
(***************************************************************************)
Opening == {"connect", "tlsConnect", "handshake"}

(* Inductive, and StateHasHandle: a state other than SSClosed has a descriptor,
   and a blocked open() is that of an object in SSClosed that has one. *)
ObjectSound(s) ==
    /\ hFile[s] = NoFd => pState[s] = "Closed"
    /\ call[s].op # "none" => s \in live
    /\ call[s].op \in Opening => hFile[s] # NoFd /\ pState[s] = "Closed"

ObjectsSound == \A s \in Sockets : ObjectSound(s)

OthersKeep(s) ==
    \A r \in Sockets : r # s =>
        /\ hFile'[r] = hFile[r]
        /\ pState'[r] = pState[r]
        /\ call'[r] = call[r] \/ call'[r] = Idle
        /\ r \in live => r \in live'

Nothing == UNCHANGED <<live, pState, hFile, call>>

(* What open() leaves: a descriptor or SSClosed, and no call or one that blocks
   in SSClosed on the descriptor it has. *)
LEMMA OpenSound ==
    ASSUME TypeOK, ObjectsSound, NEW s \in Sockets, OpenCall(s)
    PROVE  Nothing \/ (OthersKeep(s) /\ ObjectSound(s)')
<1>. USE NoFdAssumption DEF TypeOK
<1>1. PICK form \in Forms, t \in Targets :
        \/ OpenRefused(s, form, t)
        \/ OpenNobody(s, form, t)
        \/ OpenWithoutSocket(s, form, t)
        \/ \E f \in Fds :
              \/ OpenServer(s, form, t, f)
              \/ OpenThenClose(s, form, t, f)
              \/ OpenClientFails(s, form, t, f)
              \/ OpenDatagramClient(s, form, t, f)
              \/ OpenConnects(s, form, t, f)
  BY DEF OpenCall
<1>2. ObjectSound(s)
  BY DEF ObjectsSound
<1>3. CASE OpenRefused(s, form, t)
  <2>1. /\ live' = live \union {s}
        /\ hFile' = [hFile EXCEPT ![s] = Entered(s, form)]
        /\ pState' = [pState EXCEPT ![s] = IF form = "address" THEN @ ELSE "Closed"]
        /\ call' = [call EXCEPT ![s] = Idle]
    BY <1>3 DEF OpenRefused, ReturnFalse
  <2>. QED BY <1>2, <2>1 DEF OthersKeep, ObjectSound, Entered, Idle, Opening
<1>4. CASE OpenNobody(s, form, t)
  BY <1>4 DEF OpenNobody, Abort, Nothing
<1>5. CASE OpenWithoutSocket(s, form, t)
  <2>1. /\ live' = live \union {s}
        /\ \E h \in Fds \union {NoFd} : hFile' = [hFile EXCEPT ![s] = h]
        /\ pState' = [pState EXCEPT ![s] = "Closed"]
        /\ call' = [call EXCEPT ![s] = Idle]
    BY <1>5 DEF OpenWithoutSocket, ReturnFalse, Entered
  <2>. QED BY <2>1 DEF OthersKeep, ObjectSound, Idle, Opening
<1>6. ASSUME NEW f \in Fds, OpenThenClose(s, form, t, f)
      PROVE  Nothing \/ (OthersKeep(s) /\ ObjectSound(s)')
  <2>1. CASE Abort("write")
    BY <2>1 DEF Abort, Nothing
  <2>2. CASE ~Abort("write")
    <3>1. /\ live' = live \union {s}
          /\ hFile' = [hFile EXCEPT ![s] = NoFd]
          /\ pState' = [pState EXCEPT ![s] = "Closed"]
          /\ call' = [call EXCEPT ![s] = Idle]
      BY <1>6, <2>2 DEF OpenThenClose, ReturnFalse
    <3>. QED BY <3>1 DEF OthersKeep, ObjectSound, Idle, Opening
  <2>. QED BY <2>1, <2>2
<1>7. ASSUME NEW f \in Fds,
             \/ OpenServer(s, form, t, f) \/ OpenClientFails(s, form, t, f)
             \/ OpenDatagramClient(s, form, t, f)
      PROVE  OthersKeep(s) /\ ObjectSound(s)'
  <2>1. /\ live' = live \union {s}
        /\ hFile' = [hFile EXCEPT ![s] = f]
        /\ \E p : pState' = [pState EXCEPT ![s] = p]
        /\ call' = [call EXCEPT ![s] = Idle]
    BY <1>7 DEF OpenServer, OpenClientFails, OpenDatagramClient, ReturnTrue, ReturnFalse
  <2>. QED BY <2>1 DEF OthersKeep, ObjectSound, Idle, Opening
<1>8. ASSUME NEW f \in Fds, OpenConnects(s, form, t, f)
      PROVE  OthersKeep(s) /\ ObjectSound(s)'
  <2>1. /\ live' = live \union {s}
        /\ hFile' = [hFile EXCEPT ![s] = f]
        /\ pState' = [pState EXCEPT ![s] = "Closed"]
        /\ \E c : call' = [call EXCEPT ![s] = c]
    BY <1>8 DEF OpenConnects
  <2>. QED BY <2>1 DEF OthersKeep, ObjectSound
<1>. QED BY <1>1, <1>3, <1>4, <1>5, <1>6, <1>7, <1>8

(* The return of a blocking call; accept fills in an object c that was not there. *)
LEMMA ReturnSound ==
    ASSUME TypeOK, ObjectsSound, NEW s \in Sockets, CallReturns(s)
    PROVE  Nothing \/ \E r \in Sockets : OthersKeep(r) /\ ObjectSound(r)'
<1>. USE NoFdAssumption DEF TypeOK
<1>1. ObjectSound(s)
  BY DEF ObjectsSound
<1>2. CASE ConnectSucceeds(s) \/ HandshakeSucceeds(s)
  <2>1. /\ hFile[s] # NoFd
        /\ UNCHANGED <<live, hFile>>
        /\ \E p : pState' = [pState EXCEPT ![s] = p]
        /\ call' = [call EXCEPT ![s] = Idle]
    BY <1>1, <1>2 DEF ConnectSucceeds, HandshakeSucceeds, ReturnTrue, In, ObjectSound, Opening
  <2>2. OthersKeep(s) /\ ObjectSound(s)'
    BY <2>1 DEF OthersKeep, ObjectSound, Idle, Opening
  <2>. QED BY <2>2
<1>3. CASE ConnectFails(s) \/ AcceptFails(s)
  <2>1. /\ UNCHANGED <<live, hFile, pState>>
        /\ call' = [call EXCEPT ![s] = Idle]
    BY <1>3 DEF ConnectFails, AcceptFails, ReturnFalse
  <2>2. OthersKeep(s) /\ ObjectSound(s)'
    BY <1>1, <2>1 DEF OthersKeep, ObjectSound, Idle, Opening
  <2>. QED BY <2>2
<1>4. CASE TlsConnectSucceeds(s)
  <2>1. /\ s \in live /\ hFile[s] # NoFd /\ pState[s] = "Closed"
        /\ UNCHANGED <<live, hFile, pState>>
        /\ \E c : call' = [call EXCEPT ![s] = c]
    BY <1>1, <1>4 DEF TlsConnectSucceeds, In, ObjectSound, Opening
  <2>2. OthersKeep(s) /\ ObjectSound(s)'
    BY <2>1 DEF OthersKeep, ObjectSound
  <2>. QED BY <2>2
<1>5. CASE TlsFails(s)
  <2>1. CASE Abort("write")
    BY <2>1 DEF Abort, Nothing
  <2>2. CASE ~Abort("write")
    <3>1. /\ UNCHANGED live
          /\ hFile' = [hFile EXCEPT ![s] = NoFd]
          /\ pState' = [pState EXCEPT ![s] = "Closed"]
          /\ call' = [call EXCEPT ![s] = Idle]
      BY <1>5, <2>2 DEF TlsFails, ReturnFalse
    <3>2. OthersKeep(s) /\ ObjectSound(s)'
      BY <3>1 DEF OthersKeep, ObjectSound, Idle, Opening
    <3>. QED BY <3>2
  <2>. QED BY <2>1, <2>2
<1>6. ASSUME NEW c \in Sockets, NEW f \in Fds, AcceptSucceeds(s, c, f)
      PROVE  OthersKeep(c) /\ ObjectSound(c)'
  <2>1. /\ c \notin live /\ s \in live
        /\ live' = live \union {c}
        /\ hFile' = [hFile EXCEPT ![c] = f]
        /\ pState' = [pState EXCEPT ![c] = "Connected"]
        /\ call' = [call EXCEPT ![s] = Idle]
    BY <1>6 DEF AcceptSucceeds, In
  <2>2. call'[c].op = "none"
    BY <2>1 DEF ObjectsSound, ObjectSound
  <2>. QED BY <2>1, <2>2 DEF OthersKeep, ObjectSound, Opening
<1>. QED BY <1>2, <1>3, <1>4, <1>5, <1>6 DEF CallReturns

LEMMA StateSteps ==
    ASSUME TypeOK, ObjectsSound, [Next]_vars
    PROVE  Nothing \/ \E s \in Sockets : OthersKeep(s) /\ ObjectSound(s)'
<1>. USE NoFdAssumption DEF TypeOK
<1>1. CASE UNCHANGED vars
  BY <1>1 DEF vars, Nothing
<1>2. ASSUME NEW s \in Sockets, Construct(s)
      PROVE  OthersKeep(s) /\ ObjectSound(s)'
  BY <1>2 DEF Construct, OthersKeep, ObjectsSound, ObjectSound
<1>3. ASSUME NEW s \in Sockets, ListenCall(s)
      PROVE  Nothing \/ (OthersKeep(s) /\ ObjectSound(s)')
  <2>1. CASE Abort("listen")
    BY <2>1 DEF Abort, Nothing
  <2>2. CASE ~Abort("listen")
    <3>1. /\ s \in live
          /\ UNCHANGED <<live, hFile, pState>>
          /\ call' = [call EXCEPT ![s] = [op |-> "accept", form |-> "address"]]
      BY <1>3, <2>2 DEF ListenCall, Callable
    <3>. QED BY <3>1 DEF OthersKeep, ObjectsSound, ObjectSound, Opening
  <2>. QED BY <2>1, <2>2
<1>4. ASSUME NEW s \in Sockets, Put(s) \/ Flush(s) \/ Read(s) \/ Clear(s)
      PROVE  Nothing
  BY <1>4 DEF Put, Flush, Read, Clear, Nothing
<1>5. ASSUME NEW s \in Sockets, Close(s)
      PROVE  Nothing \/ (OthersKeep(s) /\ ObjectSound(s)')
  <2>1. CASE Abort("write")
    BY <2>1 DEF Abort, Nothing
  <2>2. CASE ~Abort("write")
    <3>1. /\ UNCHANGED <<live, call>>
          /\ hFile' = [hFile EXCEPT ![s] = NoFd]
          /\ pState' = [pState EXCEPT ![s] = "Closed"]
          /\ call[s].op \notin Opening
      BY <1>5, <2>2 DEF Close, Closing, Callable, In, Idle, Opening
    <3>. QED BY <3>1 DEF OthersKeep, ObjectsSound, ObjectSound
  <2>. QED BY <2>1, <2>2
<1>6. ASSUME NEW s \in Sockets, Destroy(s)
      PROVE  Nothing \/ (OthersKeep(s) /\ ObjectSound(s)')
  <2>1. CASE Abort("write")
    BY <2>1 DEF Abort, Nothing
  <2>2. CASE ~Abort("write")
    <3>1. /\ live' = live \ {s}
          /\ UNCHANGED call
          /\ hFile' = [hFile EXCEPT ![s] = NoFd]
          /\ pState' = [pState EXCEPT ![s] = "Closed"]
          /\ call[s] = Idle
      BY <1>6, <2>2 DEF Destroy, Closing, Callable
    <3>. QED BY <3>1 DEF OthersKeep, ObjectSound, Idle, Opening
  <2>. QED BY <2>1, <2>2
<1>7. ASSUME NEW s \in Sockets, NEW r \in Sockets, Assign(s, r)
      PROVE  OthersKeep(s) /\ ObjectSound(s)'
  <2>1. /\ call[s] = Idle
        /\ UNCHANGED <<live, call>>
        /\ hFile' = [hFile EXCEPT ![s] = hFile[r]]
        /\ pState' = [pState EXCEPT ![s] = pState[r]]
    BY <1>7 DEF Assign, Callable
  <2>2. hFile[r] = NoFd => pState[r] = "Closed"
    BY DEF ObjectsSound, ObjectSound
  <2>. QED BY <2>1, <2>2 DEF OthersKeep, ObjectSound, Idle, Opening
<1>. QED BY <1>1, <1>2, <1>3, <1>4, <1>5, <1>6, <1>7, OpenSound, ReturnSound DEF Next

LEMMA ObjectsSoundInit == Init => ObjectsSound
BY DEF Init, ObjectsSound, ObjectSound, Idle, Opening

LEMMA ObjectsSoundStep ==
    ASSUME TypeOK, ObjectsSound, [Next]_vars
    PROVE  ObjectsSound'
<1>1. CASE Nothing
  BY <1>1 DEF Nothing, ObjectsSound, ObjectSound
<1>2. ASSUME NEW s \in Sockets, OthersKeep(s), ObjectSound(s)'
      PROVE  ObjectsSound'
  <2>1. ASSUME NEW r \in Sockets, r # s
        PROVE  ObjectSound(r)'
    BY <1>2, <2>1 DEF OthersKeep, ObjectsSound, ObjectSound, Idle, Opening
  <2>. QED BY <1>2, <2>1 DEF ObjectsSound
<1>. QED BY <1>1, <1>2, StateSteps

(* Whatever the program does, copying sockets and opening open ones included, no
   state object ever makes a system call on INVALID_SOCKET. *)
THEOREM StatesHaveHandles == Spec => []StateHasHandle
<1>1. Init => TypeOK /\ ObjectsSound
  BY InitTypeOK, ObjectsSoundInit
<1>2. TypeOK /\ ObjectsSound /\ [Next]_vars => (TypeOK /\ ObjectsSound)'
  BY NextTypeOK, ObjectsSoundStep
<1>3. ObjectsSound => StateHasHandle
  BY DEF ObjectsSound, ObjectSound, StateHasHandle
<1>. QED BY <1>1, <1>2, <1>3, PTL DEF Spec

------------------------------------------------------------------------------
(***************************************************************************)
(* States and the kernel.  Where nobody assigns, descriptors have one       *)
(* holder, so that what one object's step does to the kernel's table leaves *)
(* the descriptors of the others as they are.                               *)
(***************************************************************************)

(* Inductive with ownership, and StateMatchesKernel for one object: the state
   fits the descriptor, also while SSL_connect runs on a connected one. *)
Matches(s) ==
    /\ pState[s] = "Listening" => hFile[s] # NoFd /\ kernel[hFile[s]] = "listening"
    /\ pState[s] = "Connected" => hFile[s] # NoFd /\ kernel[hFile[s]] \in {"stream", "dgram"}
    /\ pState[s] = "ConnectedTLS" => hFile[s] # NoFd /\ kernel[hFile[s]] = "stream"
    /\ call[s].op = "handshake" => kernel[hFile[s]] = "stream"

AllMatch == \A s \in Sockets : Matches(s)

OthersMatch(s) ==
    /\ \A r \in Sockets : r # s =>
          /\ hFile'[r] = hFile[r]
          /\ pState'[r] = pState[r]
          /\ call'[r] = call[r] \/ call'[r] = Idle
    /\ \A g \in Fds : Open(g) /\ g # hFile[s] => kernel'[g] = kernel[g]

SameDescriptors == UNCHANGED <<hFile, pState, call, kernel>>

LEMMA OpenMatches ==
    ASSUME TypeOK, NEW s \in Sockets, Matches(s), OpenCall(s)
    PROVE  SameDescriptors \/ (OthersMatch(s) /\ Matches(s)')
<1>. USE NoFdAssumption DEF TypeOK, Open
<1>1. PICK form \in Forms, t \in Targets :
        \/ OpenRefused(s, form, t)
        \/ OpenNobody(s, form, t)
        \/ OpenWithoutSocket(s, form, t)
        \/ \E f \in Fds :
              \/ OpenServer(s, form, t, f)
              \/ OpenThenClose(s, form, t, f)
              \/ OpenClientFails(s, form, t, f)
              \/ OpenDatagramClient(s, form, t, f)
              \/ OpenConnects(s, form, t, f)
  BY DEF OpenCall
<1>2. CASE OpenRefused(s, form, t)
  <2>1. /\ hFile' = [hFile EXCEPT ![s] = Entered(s, form)]
        /\ pState' = [pState EXCEPT ![s] = IF form = "address" THEN @ ELSE "Closed"]
        /\ call' = [call EXCEPT ![s] = Idle]
        /\ UNCHANGED kernel
    BY <1>2 DEF OpenRefused, ReturnFalse
  <2>2. OthersMatch(s)
    BY <2>1 DEF OthersMatch
  <2>3. Matches(s)'
    BY <2>1 DEF Matches, Entered, Idle
  <2>. QED BY <2>2, <2>3
<1>3. CASE OpenNobody(s, form, t)
  BY <1>3 DEF OpenNobody, Abort, SameDescriptors
<1>4. ASSUME NEW f \in Fds, OpenThenClose(s, form, t, f)
      PROVE  SameDescriptors \/ (OthersMatch(s) /\ Matches(s)')
  <2>1. CASE Abort("write")
    BY <2>1 DEF Abort, SameDescriptors
  <2>2. CASE ~Abort("write")
    <3>1. /\ hFile' = [hFile EXCEPT ![s] = NoFd]
          /\ pState' = [pState EXCEPT ![s] = "Closed"]
          /\ call' = [call EXCEPT ![s] = Idle]
          /\ UNCHANGED kernel
      BY <1>4, <2>2 DEF OpenThenClose, ReturnFalse
    <3>. QED BY <3>1 DEF OthersMatch, Matches, Idle
  <2>. QED BY <2>1, <2>2
<1>5. CASE OpenWithoutSocket(s, form, t)
  <2>1. /\ \E h \in Fds \union {NoFd} : hFile' = [hFile EXCEPT ![s] = h]
        /\ pState' = [pState EXCEPT ![s] = "Closed"]
        /\ call' = [call EXCEPT ![s] = Idle]
        /\ UNCHANGED kernel
    BY <1>5 DEF OpenWithoutSocket, ReturnFalse, Entered
  <2>. QED BY <2>1 DEF OthersMatch, Matches, Idle
<1>6. ASSUME NEW f \in Fds, OpenServer(s, form, t, f)
      PROVE  OthersMatch(s) /\ Matches(s)'
  <2>1. /\ ~Open(f)
        /\ hFile' = [hFile EXCEPT ![s] = f]
        /\ pState' = [pState EXCEPT ![s] = IF t.proto = "stream" THEN "Listening" ELSE "Connected"]
        /\ kernel' = [kernel EXCEPT ![f] = IF t.proto = "stream" THEN "listening" ELSE "dgram"]
        /\ call' = [call EXCEPT ![s] = Idle]
    BY <1>6 DEF OpenServer, ServerState, ReturnTrue
  <2>. QED BY <2>1 DEF OthersMatch, Matches, Idle
<1>7. ASSUME NEW f \in Fds, OpenClientFails(s, form, t, f) \/ OpenConnects(s, form, t, f)
      PROVE  OthersMatch(s) /\ Matches(s)'
  <2>1. /\ ~Open(f)
        /\ hFile' = [hFile EXCEPT ![s] = f]
        /\ pState' = [pState EXCEPT ![s] = "Closed"]
        /\ kernel' = [kernel EXCEPT ![f] = "fresh"]
    BY <1>7 DEF OpenClientFails, OpenConnects
  <2>2. \E c : call' = [call EXCEPT ![s] = c] /\ c.op # "handshake"
    BY <1>7 DEF OpenClientFails, OpenConnects, ReturnFalse, Idle
  <2>. QED BY <2>1, <2>2 DEF OthersMatch, Matches
<1>8. ASSUME NEW f \in Fds, OpenDatagramClient(s, form, t, f)
      PROVE  OthersMatch(s) /\ Matches(s)'
  <2>1. /\ ~Open(f)
        /\ hFile' = [hFile EXCEPT ![s] = f]
        /\ pState' = [pState EXCEPT ![s] = "Connected"]
        /\ kernel' = [kernel EXCEPT ![f] = "dgram"]
        /\ call' = [call EXCEPT ![s] = Idle]
    BY <1>8 DEF OpenDatagramClient, ReturnTrue
  <2>. QED BY <2>1 DEF OthersMatch, Matches, Idle
<1>. QED BY <1>1, <1>2, <1>3, <1>4, <1>5, <1>6, <1>7, <1>8

LEMMA ReturnMatches ==
    ASSUME TypeOK, HandleIsOpen, ObjectsSound, AllMatch, NEW s \in Sockets, CallReturns(s)
    PROVE  SameDescriptors \/ \E r \in Sockets : OthersMatch(r) /\ Matches(r)'
<1>. USE NoFdAssumption DEF TypeOK, Open
<1>1. ObjectSound(s) /\ Matches(s)
  BY DEF ObjectsSound, AllMatch
<1>2. CASE ConnectSucceeds(s) \/ TlsConnectSucceeds(s)
  <2>1. /\ hFile[s] \in Fds
        /\ UNCHANGED hFile
        /\ kernel' = [kernel EXCEPT ![hFile[s]] = "stream"]
        /\ \/ pState' = [pState EXCEPT ![s] = "Connected"]
           \/ pState' = pState /\ pState[s] = "Closed"
        /\ \E c : call' = [call EXCEPT ![s] = c]
    BY <1>1, <1>2
       DEF ConnectSucceeds, TlsConnectSucceeds, ReturnTrue, In, ObjectSound, Opening
  <2>2. OthersMatch(s) /\ Matches(s)'
    BY <2>1 DEF OthersMatch, Matches
  <2>. QED BY <2>2
<1>3. CASE HandshakeSucceeds(s)
  <2>1. /\ hFile[s] # NoFd /\ kernel[hFile[s]] = "stream"
        /\ UNCHANGED <<hFile, kernel>>
        /\ pState' = [pState EXCEPT ![s] = "ConnectedTLS"]
        /\ call' = [call EXCEPT ![s] = Idle]
    BY <1>1, <1>3 DEF HandshakeSucceeds, ReturnTrue, In, ObjectSound, Opening, Matches
  <2>2. OthersMatch(s) /\ Matches(s)'
    BY <2>1 DEF OthersMatch, Matches, Idle
  <2>. QED BY <2>2
<1>4. CASE ConnectFails(s) \/ AcceptFails(s)
  <2>1. /\ UNCHANGED <<hFile, pState, kernel>>
        /\ call' = [call EXCEPT ![s] = Idle]
    BY <1>4 DEF ConnectFails, AcceptFails, ReturnFalse
  <2>2. OthersMatch(s) /\ Matches(s)'
    BY <1>1, <2>1 DEF OthersMatch, Matches, Idle
  <2>. QED BY <2>2
<1>5. CASE TlsFails(s)
  <2>1. CASE Abort("write")
    BY <2>1 DEF Abort, SameDescriptors
  <2>2. CASE ~Abort("write")
    <3>1. /\ hFile' = [hFile EXCEPT ![s] = NoFd]
          /\ pState' = [pState EXCEPT ![s] = "Closed"]
          /\ kernel' = [kernel EXCEPT ![hFile[s]] = "free"]
          /\ call' = [call EXCEPT ![s] = Idle]
      BY <1>5, <2>2 DEF TlsFails, ReturnFalse
    <3>2. OthersMatch(s) /\ Matches(s)'
      BY <3>1 DEF OthersMatch, Matches, Idle
    <3>. QED BY <3>2
  <2>. QED BY <2>1, <2>2
<1>6. ASSUME NEW c \in Sockets, NEW f \in Fds, AcceptSucceeds(s, c, f)
      PROVE  OthersMatch(c) /\ Matches(c)'
  <2>1. /\ c \notin live /\ ~Open(f) /\ s \in live
        /\ hFile' = [hFile EXCEPT ![c] = f]
        /\ pState' = [pState EXCEPT ![c] = "Connected"]
        /\ kernel' = [kernel EXCEPT ![f] = "stream"]
        /\ call' = [call EXCEPT ![s] = Idle]
    BY <1>6 DEF AcceptSucceeds, In
  <2>2. OthersMatch(c)
    BY <2>1 DEF OthersMatch
  <2>3. hFile'[c] = f /\ kernel'[f] = "stream" /\ pState'[c] = "Connected"
    BY <2>1
  <2>. QED BY <2>2, <2>3 DEF Matches
<1>. QED BY <1>2, <1>3, <1>4, <1>5, <1>6 DEF CallReturns

LEMMA MatchSteps ==
    ASSUME TypeOK, HandleIsOpen, ObjectsSound, AllMatch, "assign" \notin Habits, [Next]_vars
    PROVE  SameDescriptors \/ \E s \in Sockets : OthersMatch(s) /\ Matches(s)'
<1>. USE NoFdAssumption DEF TypeOK, Open
<1>1. ASSUME UNCHANGED vars \/ \E s \in Sockets : Construct(s) \/ Put(s) \/ Flush(s) \/ Read(s) \/ Clear(s)
      PROVE  SameDescriptors
  BY <1>1 DEF vars, Construct, Put, Flush, Read, Clear, SameDescriptors
<1>2. ASSUME NEW s \in Sockets, ListenCall(s)
      PROVE  SameDescriptors \/ (OthersMatch(s) /\ Matches(s)')
  <2>1. CASE Abort("listen")
    BY <2>1 DEF Abort, SameDescriptors
  <2>2. CASE ~Abort("listen")
    <3>1. /\ UNCHANGED <<hFile, pState, kernel>>
          /\ call' = [call EXCEPT ![s] = [op |-> "accept", form |-> "address"]]
      BY <1>2, <2>2 DEF ListenCall
    <3>. QED BY <3>1 DEF OthersMatch, AllMatch, Matches
  <2>. QED BY <2>1, <2>2
<1>3. ASSUME NEW s \in Sockets, Close(s) \/ Destroy(s)
      PROVE  SameDescriptors \/ (OthersMatch(s) /\ Matches(s)')
  <2>1. CASE Abort("write")
    BY <2>1 DEF Abort, SameDescriptors
  <2>2. CASE ~Abort("write")
    <3>1. /\ hFile' = [hFile EXCEPT ![s] = NoFd]
          /\ pState' = [pState EXCEPT ![s] = "Closed"]
          /\ kernel' = [f \in Fds |-> IF f = hFile[s] THEN "free" ELSE kernel[f]]
          /\ UNCHANGED call
          /\ call[s].op # "handshake"
      BY <1>3, <2>2 DEF Close, Destroy, Closing, Callable, In, Idle
    <3>. QED BY <3>1 DEF OthersMatch, Matches
  <2>. QED BY <2>1, <2>2
<1>4. ASSUME NEW s \in Sockets, NEW r \in Sockets, Assign(s, r)
      PROVE  FALSE
  BY <1>4 DEF Assign
<1>5. ASSUME NEW s \in Sockets, OpenCall(s)
      PROVE  SameDescriptors \/ (OthersMatch(s) /\ Matches(s)')
  BY <1>5, OpenMatches DEF AllMatch
<1>. QED BY <1>1, <1>2, <1>3, <1>4, <1>5, ReturnMatches DEF Next

LEMMA AllMatchInit == Init => AllMatch
BY DEF Init, AllMatch, Matches, Idle

LEMMA AllMatchStep ==
    ASSUME OwnershipInv, ObjectsSound, AllMatch, "assign" \notin Habits, [Next]_vars
    PROVE  AllMatch'
<1>. USE NoFdAssumption DEF OwnershipInv
<1>1. CASE SameDescriptors
  BY <1>1 DEF SameDescriptors, AllMatch, Matches
<1>2. ASSUME NEW s \in Sockets, OthersMatch(s), Matches(s)'
      PROVE  AllMatch'
  <2>1. ASSUME NEW r \in Sockets, r # s
        PROVE  Matches(r)'
    <3>1. hFile[r] # NoFd => kernel'[hFile[r]] = kernel[hFile[r]]
      BY <1>2, <2>1 DEF OthersMatch, OneHolder, HandleIsOpen, TypeOK
    <3>2. call[r].op = "handshake" => hFile[r] # NoFd
      BY DEF ObjectsSound, ObjectSound, Opening
    <3>. QED BY <1>2, <2>1, <3>1, <3>2 DEF OthersMatch, AllMatch, Matches, Idle
  <2>. QED BY <1>2, <2>1 DEF AllMatch
<1>. QED BY <1>1, <1>2, MatchSteps

(* A program that never assigns sockets never makes the system calls of a state
   on a descriptor of another kind. *)
THEOREM StatesMatchKernel ==
    Spec => []StateMatchesKernel
<1>. DEFINE Inv == "assign" \notin Habits => OwnershipInv /\ ObjectsSound /\ AllMatch
<1>1. Init => Inv
  BY OwnershipInit, ObjectsSoundInit, AllMatchInit
<1>2. Inv /\ [Next]_vars => Inv'
  BY OwnershipStep, ObjectsSoundStep, AllMatchStep, ProgramKept DEF OwnershipInv
<1>3. Inv => StateMatchesKernel
  BY DEF AllMatch, Matches, StateMatchesKernel
<1>. HIDE DEF Inv
<1>. QED BY <1>1, <1>2, <1>3, PTL DEF Spec

------------------------------------------------------------------------------
(***************************************************************************)
(* The TLS context.  Only a finished handshake enters SSConnectedTLS, and   *)
(* only leaving that state gives the context up.                            *)
(***************************************************************************)
OwnsContext(s) == pState[s] = "ConnectedTLS" => ctx[s] = "owned" /\ ssl[s]

(* A step that leaves the state and the two pointers of an object alone, or
   leaves it in another state. *)
KeepsContext(s) ==
    \/ pState'[s] = pState[s] /\ ctx'[s] = ctx[s] /\ ssl'[s] = ssl[s]
    \/ pState'[s] # "ConnectedTLS"

LEMMA OpenKeepsContext ==
    ASSUME TypeOK, NEW s \in Sockets, OpenCall(s)
    PROVE  \A r \in Sockets : KeepsContext(r)
<1>1. PICK form \in Forms, t \in Targets :
        \/ OpenRefused(s, form, t)
        \/ OpenNobody(s, form, t)
        \/ OpenWithoutSocket(s, form, t)
        \/ \E f \in Fds :
              \/ OpenServer(s, form, t, f)
              \/ OpenThenClose(s, form, t, f)
              \/ OpenClientFails(s, form, t, f)
              \/ OpenDatagramClient(s, form, t, f)
              \/ OpenConnects(s, form, t, f)
  BY DEF OpenCall
<1>2. UNCHANGED <<ctx, ssl>>
  BY <1>1 DEF OpenRefused, OpenNobody, OpenWithoutSocket, OpenServer, OpenThenClose,
              OpenClientFails, OpenDatagramClient, OpenConnects, Abort
<1>3. \/ UNCHANGED pState
      \/ \E p \in {"Closed", "Listening", "Connected"} : pState' = [pState EXCEPT ![s] = p]
  <2>1. CASE OpenRefused(s, form, t)
    BY <2>1 DEF OpenRefused, TypeOK
  <2>2. CASE OpenNobody(s, form, t) \/ OpenWithoutSocket(s, form, t)
    BY <2>2 DEF OpenNobody, OpenWithoutSocket, Abort
  <2>3. ASSUME NEW f \in Fds, OpenServer(s, form, t, f)
        PROVE  \E p \in {"Listening", "Connected"} : pState' = [pState EXCEPT ![s] = p]
    BY <2>3 DEF OpenServer, ServerState
  <2>4. ASSUME NEW f \in Fds,
               \/ OpenThenClose(s, form, t, f) \/ OpenClientFails(s, form, t, f)
               \/ OpenDatagramClient(s, form, t, f) \/ OpenConnects(s, form, t, f)
        PROVE  \/ UNCHANGED pState
               \/ \E p \in {"Closed", "Connected"} : pState' = [pState EXCEPT ![s] = p]
    BY <2>4 DEF OpenThenClose, OpenClientFails, OpenDatagramClient, OpenConnects, Abort
  <2>. QED BY <1>1, <2>1, <2>2, <2>3, <2>4
<1>. QED BY <1>2, <1>3 DEF KeepsContext, TypeOK

LEMMA ContextStep ==
    ASSUME TypeOK, \A s \in Sockets : OwnsContext(s), "assign" \notin Habits, [Next]_vars
    PROVE  (\A s \in Sockets : OwnsContext(s))'
<1>1. ASSUME \A s \in Sockets : KeepsContext(s)
      PROVE  (\A s \in Sockets : OwnsContext(s))'
  BY <1>1 DEF KeepsContext, OwnsContext
<1>2. ASSUME UNCHANGED <<pState, ctx, ssl>>
      PROVE  (\A s \in Sockets : OwnsContext(s))'
  BY <1>2 DEF OwnsContext
<1>3. CASE UNCHANGED vars
  BY <1>2, <1>3 DEF vars
<1>4. ASSUME NEW s \in Sockets,
             \/ Construct(s) \/ ListenCall(s) \/ Put(s) \/ Flush(s) \/ Read(s) \/ Clear(s)
             \/ ConnectFails(s) \/ TlsConnectSucceeds(s) \/ AcceptFails(s)
      PROVE  UNCHANGED <<pState, ctx, ssl>>
  BY <1>4 DEF Construct, ListenCall, Abort, Put, Flush, Read, Clear, ConnectFails,
              TlsConnectSucceeds, AcceptFails
<1>5. ASSUME NEW s \in Sockets, HandshakeSucceeds(s)
      PROVE  (\A r \in Sockets : OwnsContext(r))'
  <2>1. /\ pState' = [pState EXCEPT ![s] = "ConnectedTLS"]
        /\ ctx' = [ctx EXCEPT ![s] = "owned"]
    BY <1>5 DEF HandshakeSucceeds
  <2>2. ssl' = [ssl EXCEPT ![s] = TRUE]
    BY <1>5 DEF HandshakeSucceeds
  <2>3. ssl'[s] /\ \A r \in Sockets : r # s => (ssl'[r] <=> ssl[r])
    BY <2>2, ZenonT(30) DEF TypeOK
  <2>4. /\ ctx'[s] = "owned"
        /\ \A r \in Sockets : r # s => ctx'[r] = ctx[r] /\ pState'[r] = pState[r]
    BY <2>1 DEF TypeOK
  <2>. QED BY <2>3, <2>4 DEF OwnsContext
<1>6. ASSUME NEW s \in Sockets, ConnectSucceeds(s)
      PROVE  \A r \in Sockets : KeepsContext(r)
  BY <1>6 DEF ConnectSucceeds, KeepsContext, TypeOK
<1>7. ASSUME NEW s \in Sockets, NEW c \in Sockets, NEW f \in Fds, AcceptSucceeds(s, c, f)
      PROVE  \A r \in Sockets : KeepsContext(r)
  BY <1>7 DEF AcceptSucceeds, KeepsContext, TypeOK
<1>8. ASSUME NEW s \in Sockets, TlsFails(s) \/ Close(s) \/ Destroy(s)
      PROVE  \A r \in Sockets : KeepsContext(r)
  <2>1. CASE Abort("write")
    BY <2>1 DEF Abort, KeepsContext
  <2>2. CASE ~Abort("write")
    <3>1. /\ pState' = [pState EXCEPT ![s] = "Closed"]
          /\ \E v : ctx' = [ctx EXCEPT ![s] = v]
      BY <1>8, <2>2 DEF TlsFails, Close, Destroy, TypeOK
    <3>2. ssl' = ssl \/ ssl' = [ssl EXCEPT ![s] = FALSE]
      BY <1>8, <2>2 DEF TlsFails, Close, Destroy
    <3>3. \A r \in Sockets : r # s => ssl'[r] = ssl[r]
      BY <3>2 DEF TypeOK
    <3>. QED BY <3>1, <3>3 DEF KeepsContext, TypeOK
  <2>. QED BY <2>1, <2>2
<1>9. ASSUME NEW s \in Sockets, NEW r \in Sockets, Assign(s, r)
      PROVE  FALSE
  BY <1>9 DEF Assign
<1>. QED BY <1>1, <1>2, <1>3, <1>4, <1>5, <1>6, <1>7, <1>8, <1>9, OpenKeepsContext
         DEF Next, CallReturns

(* SSConnectedTLS::close never frees a context that was never stored or is
   already freed, in a program that never assigns sockets. *)
THEOREM TlsContextIsOwned ==
    Spec => []TlsContextOwned
<1>. DEFINE Inv == TypeOK /\ ("assign" \notin Habits => \A s \in Sockets : OwnsContext(s))
<1>1. Init => Inv
  BY InitTypeOK DEF Init, OwnsContext
<1>2. Inv /\ [Next]_vars => Inv'
  BY NextTypeOK, ContextStep, ProgramKept
<1>3. Inv => TlsContextOwned
  BY DEF OwnsContext, TlsContextOwned
<1>. HIDE DEF Inv
<1>. QED BY <1>1, <1>2, <1>3, PTL DEF Spec

------------------------------------------------------------------------------
(***************************************************************************)
(* No VERIFY fails but open()'s.  sync() aborts on bytes put into a good    *)
(* stream whose state is not a connected one; the invariant is that a       *)
(* careful program has no such stream.                                      *)
(***************************************************************************)
Unsent(o) == o.good /\ o.pending

(* Inductive: bytes wait only in a connected state, where the status is SC_OK
   as long as the stream is good. *)
StreamSound(s) ==
    /\ Unsent(io[s]) => pState[s] \in Connections
    /\ io[s].good /\ pState[s] \in Connections => io[s].status = "OK"
    /\ s \notin live => io[s] = FreshIo

StreamsSound == \A s \in Sockets : StreamSound(s)

DisciplineInv == OwnershipInv /\ ObjectsSound /\ StreamsSound

(* The programs that the theorem is about. *)
Careful == Habits = {}

(* A VERIFY fails in open() or not at all. *)
OpenAborts == aborted' \in {aborted, "open"}

LEMMA IoParts ==
    ASSUME NEW g \in BOOLEAN, NEW p \in BOOLEAN, NEW st
    PROVE  /\ Io(g, p, st).good = g
           /\ Io(g, p, st).pending = p
           /\ Io(g, p, st).status = st
BY DEF Io

LEMMA IoStatus ==
    ASSUME NEW g, NEW p, NEW st
    PROVE  Io(g, p, st).status = st
BY DEF Io

LEMMA IoBad ==
    ASSUME NEW p, NEW st
    PROVE  ~Io(FALSE, p, st).good
BY DEF Io

LEMMA RefuseSettled ==
    ASSUME NEW o \in IoRecord, NEW form, ~Unsent(o)
    PROVE  ~Unsent(Refuse(o, form))
<1>1. o.good \in BOOLEAN /\ o.pending \in BOOLEAN
  BY IoFields
<1>2. CASE ~(o.good /\ form # "constructor")
  <2>1. Refuse(o, form) = Io(FALSE, o.pending, "FAILED")
    BY <1>2 DEF Refuse
  <2>2. ~Io(FALSE, o.pending, "FAILED").good
    BY IoBad
  <2>. QED BY <2>1, <2>2 DEF Unsent
<1>3. CASE ~o.pending
  <2>1. Refuse(o, form) = Io(TRUE, FALSE, "FAILED") \/ Refuse(o, form) = Io(FALSE, FALSE, "FAILED")
    BY <1>1, <1>3 DEF Refuse
  <2>2. ~Io(TRUE, FALSE, "FAILED").pending /\ ~Io(FALSE, FALSE, "FAILED").pending
    BY IoParts
  <2>. QED BY <2>1, <2>2 DEF Unsent
<1>. QED BY <1>2, <1>3 DEF Unsent

(* A sync that does not abort leaves nothing unsent in a good stream. *)
LEMMA SyncSettles ==
    ASSUME NEW o \in IoRecord, NEW p, NEW h, NEW r \in SyncResults(o, p, h),
           Unsent(o) => o.status = "OK" /\ h # NoFd
    PROVE  ~Unsent(r)
<1>1. o.good \in BOOLEAN /\ o.pending \in BOOLEAN
  BY IoFields
<1>2. CASE Writes(o, h)
  <2>1. r = Io(TRUE, FALSE, "OK") \/ r = Io(FALSE, TRUE, "FAILED")
    BY <1>2 DEF SyncResults, Writes, Unsent
  <2>2. ~Io(TRUE, FALSE, "OK").pending /\ ~Io(FALSE, TRUE, "FAILED").good
    BY IoParts
  <2>. QED BY <2>1, <2>2 DEF Unsent
<1>3. CASE ~Writes(o, h)
  <2>1. r = Io(o.good, FALSE, o.status)
    BY <1>3 DEF SyncResults
  <2>2. ~Io(o.good, FALSE, o.status).pending
    BY <1>1, IoParts
  <2>. QED BY <2>1, <2>2 DEF Unsent
<1>. QED BY <1>2, <1>3

(* An object a careful program opens is closed, with nothing unsent. *)
LEMMA OpensSettled ==
    ASSUME DisciplineInv, Careful, NEW s \in Sockets, NEW form, MayOpen(s, form)
    PROVE  hFile[s] = NoFd /\ pState[s] = "Closed" /\ ~Unsent(io[s]) /\ aborted = "no"
<1>1. hFile[s] = NoFd
  BY MayOpenFacts DEF MayOpen, Careful, DisciplineInv, OwnershipInv, HandleIsOpen
<1>2. pState[s] = "Closed"
  BY <1>1 DEF DisciplineInv, ObjectsSound, ObjectSound
<1>. QED BY <1>1, <1>2
         DEF DisciplineInv, StreamsSound, StreamSound, Connections, MayOpen, Callable

OthersFlow(s) ==
    \A r \in Sockets : r # s =>
        /\ io'[r] = io[r]
        /\ pState'[r] = pState[r]
        /\ r \in live' <=> r \in live

SameStreams == UNCHANGED <<live, pState, io>>

(* After any call of open() the object is closed, connected with a status of
   SC_OK, or listening, and in each case nothing is unsent. *)
LEMMA OpenFlows ==
    ASSUME DisciplineInv, Careful, NEW s \in Sockets, OpenCall(s)
    PROVE  OpenAborts /\ (SameStreams \/ (OthersFlow(s) /\ StreamSound(s)'))
<1>. USE DEF TypeOK, DisciplineInv, OwnershipInv
<1>1. PICK form \in Forms, t \in Targets :
        \/ OpenRefused(s, form, t)
        \/ OpenNobody(s, form, t)
        \/ OpenWithoutSocket(s, form, t)
        \/ \E f \in Fds :
              \/ OpenServer(s, form, t, f)
              \/ OpenThenClose(s, form, t, f)
              \/ OpenClientFails(s, form, t, f)
              \/ OpenDatagramClient(s, form, t, f)
              \/ OpenConnects(s, form, t, f)
  BY DEF OpenCall
<1>2. MayOpen(s, form)
  BY <1>1 DEF OpenRefused, OpenNobody, OpenWithoutSocket, OpenServer, OpenThenClose,
              OpenClientFails, OpenDatagramClient, OpenConnects
<1>3. pState[s] = "Closed" /\ ~Unsent(io[s]) /\ aborted = "no"
  BY <1>2, OpensSettled
<1>4. CASE OpenNobody(s, form, t)
  BY <1>4 DEF OpenNobody, Abort, OpenAborts, SameStreams
<1>5. io[s] \in IoRecord /\ io[s].good \in BOOLEAN /\ io[s].pending \in BOOLEAN
  BY IoFields
<1>6. ASSUME live' = live \union {s},
             pState' = [pState EXCEPT ![s] = "Closed"],
             NEW o, io' = [io EXCEPT ![s] = o], ~Unsent(o)
      PROVE  OthersFlow(s) /\ StreamSound(s)'
  BY <1>6 DEF OthersFlow, StreamSound, Connections
<1>7. ASSUME OpenRefused(s, form, t) \/ OpenWithoutSocket(s, form, t)
      PROVE  OthersFlow(s) /\ StreamSound(s)' /\ aborted' = aborted
  <2>1. /\ live' = live \union {s}
        /\ pState' = [pState EXCEPT ![s] = "Closed"]
        /\ io' = [io EXCEPT ![s] = Refuse(io[s], form)]
        /\ aborted' = aborted
    BY <1>3, <1>7 DEF OpenRefused, OpenWithoutSocket, ReturnFalse
  <2>2. ~Unsent(Refuse(io[s], form))
    BY <1>3, <1>5, RefuseSettled
  <2>. QED BY <1>6, <2>1, <2>2
<1>8. ASSUME NEW f \in Fds, OpenClientFails(s, form, t, f)
      PROVE  OthersFlow(s) /\ StreamSound(s)' /\ aborted' = aborted
  <2>1. /\ live' = live \union {s}
        /\ pState' = [pState EXCEPT ![s] = "Closed"]
        /\ io' = [io EXCEPT ![s] = Refuse(io[s], form)]
        /\ aborted' = aborted
    BY <1>8 DEF OpenClientFails, ReturnFalse
  <2>2. ~Unsent(Refuse(io[s], form))
    BY <1>3, <1>5, RefuseSettled
  <2>. QED BY <1>6, <2>1, <2>2
<1>9. ASSUME NEW f \in Fds, OpenThenClose(s, form, t, f)
      PROVE  OthersFlow(s) /\ StreamSound(s)' /\ aborted' = aborted
  <2>1. ~SyncAborts(io[s], "Closed", f)
    BY <1>3 DEF SyncAborts, Writes, Unsent
  <2>2. /\ live' = live \union {s}
        /\ pState' = [pState EXCEPT ![s] = "Closed"]
        /\ aborted' = aborted
        /\ \E o \in SyncResults(io[s], "Closed", f) : ReturnFalse(s, form, o)
    BY <1>9, <2>1 DEF OpenThenClose
  <2>3. PICK o \in SyncResults(io[s], "Closed", f) : io' = [io EXCEPT ![s] = Refuse(o, form)]
    BY <2>2 DEF ReturnFalse
  <2>4. o \in IoRecord /\ ~Unsent(o)
    BY <1>3, <1>5, SyncType, SyncSettles
  <2>5. ~Unsent(Refuse(o, form))
    BY <2>4, RefuseSettled
  <2>. QED BY <1>6, <2>2, <2>3, <2>5
<1>10. ASSUME NEW f \in Fds, OpenConnects(s, form, t, f)
       PROVE  OthersFlow(s) /\ StreamSound(s)' /\ aborted' = aborted
  <2>1. /\ live' = live \union {s}
        /\ pState' = [pState EXCEPT ![s] = "Closed"]
        /\ io' = [io EXCEPT ![s] = io[s]]
        /\ aborted' = aborted
    BY <1>10 DEF OpenConnects
  <2>. QED BY <1>3, <1>6, <2>1
<1>11. ASSUME NEW f \in Fds, OpenServer(s, form, t, f) \/ OpenDatagramClient(s, form, t, f)
       PROVE  OthersFlow(s) /\ StreamSound(s)' /\ aborted' = aborted
  <2>1. /\ live' = live \union {s}
        /\ \E p : pState' = [pState EXCEPT ![s] = p]
        /\ io' = [io EXCEPT ![s] = Io(io[s].good, io[s].pending, "OK")]
        /\ aborted' = aborted
    BY <1>11 DEF OpenServer, OpenDatagramClient, ReturnTrue
  <2>2. io'[s] = Io(io[s].good, io[s].pending, "OK")
    BY <2>1
  <2>3. ~Unsent(io'[s]) /\ io'[s].status = "OK"
    BY <1>3, <1>5, <2>2, IoParts DEF Unsent
  <2>4. OthersFlow(s) /\ s \in live'
    BY <2>1 DEF OthersFlow
  <2>. QED BY <2>1, <2>3, <2>4 DEF StreamSound
<1>. QED BY <1>1, <1>4, <1>7, <1>8, <1>9, <1>10, <1>11 DEF OpenAborts

LEMMA ReturnFlows ==
    ASSUME DisciplineInv, Careful, NEW s \in Sockets, CallReturns(s)
    PROVE  /\ aborted' = aborted
           /\ SameStreams \/ \E r \in Sockets : OthersFlow(r) /\ StreamSound(r)'
<1>. USE DEF TypeOK, DisciplineInv, OwnershipInv
<1>1. io[s] \in IoRecord /\ io[s].good \in BOOLEAN /\ io[s].pending \in BOOLEAN
  BY IoFields
<1>2. ObjectSound(s) /\ StreamSound(s)
  BY DEF ObjectsSound, StreamsSound
<1>3. ASSUME call[s].op \in Opening
      PROVE  hFile[s] # NoFd /\ pState[s] = "Closed" /\ ~Unsent(io[s]) /\ s \in live
  BY <1>2, <1>3 DEF ObjectSound, StreamSound, Connections, Opening
<1>4. CASE ConnectSucceeds(s) \/ HandshakeSucceeds(s)
  <2>1. ~Unsent(io[s]) /\ s \in live
    BY <1>3, <1>4 DEF ConnectSucceeds, HandshakeSucceeds, In, Opening
  <2>2. /\ UNCHANGED <<live, aborted>>
        /\ \E p : pState' = [pState EXCEPT ![s] = p]
        /\ io' = [io EXCEPT ![s] = Io(io[s].good, io[s].pending, "OK")]
    BY <1>4 DEF ConnectSucceeds, HandshakeSucceeds, ReturnTrue
  <2>3. io'[s] = Io(io[s].good, io[s].pending, "OK")
    BY <2>2
  <2>4. ~Unsent(io'[s]) /\ io'[s].status = "OK"
    BY <1>1, <2>1, <2>3, IoParts DEF Unsent
  <2>5. OthersFlow(s)
    BY <2>2 DEF OthersFlow
  <2>6. StreamSound(s)'
    BY <2>1, <2>2, <2>4 DEF StreamSound
  <2>. QED BY <2>2, <2>5, <2>6
<1>5. CASE ConnectFails(s)
  <2>1. pState[s] = "Closed" /\ ~Unsent(io[s]) /\ s \in live
    BY <1>3, <1>5 DEF ConnectFails, In, Opening
  <2>2. /\ UNCHANGED <<live, pState, aborted>>
        /\ io' = [io EXCEPT ![s] = Refuse(io[s], call[s].form)]
    BY <1>5 DEF ConnectFails, ReturnFalse
  <2>3. ~Unsent(Refuse(io[s], call[s].form))
    BY <1>1, <2>1, RefuseSettled
  <2>4. OthersFlow(s) /\ StreamSound(s)'
    BY <2>1, <2>2, <2>3 DEF OthersFlow, StreamSound, Connections
  <2>. QED BY <2>2, <2>4
<1>6. CASE TlsConnectSucceeds(s) \/ AcceptFails(s)
  BY <1>6 DEF TlsConnectSucceeds, AcceptFails, SameStreams
<1>7. CASE TlsFails(s)
  <2>1. pState[s] = "Closed" /\ ~Unsent(io[s]) /\ s \in live
    BY <1>3, <1>7 DEF TlsFails, In, Opening
  <2>2. ~SyncAborts(io[s], pState[s], hFile[s])
    BY <2>1 DEF SyncAborts, Writes, Unsent
  <2>3. /\ UNCHANGED <<live, aborted>>
        /\ pState' = [pState EXCEPT ![s] = "Closed"]
        /\ \E o \in SyncResults(io[s], pState[s], hFile[s]) : ReturnFalse(s, call[s].form, o)
    BY <1>7, <2>2 DEF TlsFails
  <2>4. PICK o \in SyncResults(io[s], pState[s], hFile[s]) :
          io' = [io EXCEPT ![s] = Refuse(o, call[s].form)]
    BY <2>3 DEF ReturnFalse
  <2>5. o \in IoRecord /\ ~Unsent(o)
    BY <1>1, <2>1, SyncType, SyncSettles
  <2>6. ~Unsent(Refuse(o, call[s].form))
    BY <2>5, RefuseSettled
  <2>7. OthersFlow(s) /\ StreamSound(s)'
    BY <2>1, <2>3, <2>4, <2>6 DEF OthersFlow, StreamSound, Connections
  <2>. QED BY <2>3, <2>7
<1>8. ASSUME NEW c \in Sockets, NEW f \in Fds, AcceptSucceeds(s, c, f)
      PROVE  aborted' = aborted /\ OthersFlow(c) /\ StreamSound(c)'
  <2>1. /\ c \notin live
        /\ live' = live \union {c}
        /\ pState' = [pState EXCEPT ![c] = "Connected"]
        /\ UNCHANGED <<io, aborted>>
    BY <1>8 DEF AcceptSucceeds
  <2>2. io[c] = Io(TRUE, FALSE, "OK")
    BY <2>1 DEF StreamsSound, StreamSound, FreshIo
  <2>3. ~Unsent(io[c]) /\ io[c].status = "OK"
    <3>. DEFINE o == Io(TRUE, FALSE, "OK")
    <3>1. o.pending = FALSE /\ o.status = "OK"
      BY IoParts
    <3>. HIDE DEF o
    <3>2. io[c] = o
      BY <2>2 DEF o
    <3>. QED BY <3>1, <3>2 DEF Unsent
  <2>. QED BY <2>1, <2>3 DEF OthersFlow, StreamSound
<1>9. CASE \E c \in Sockets, f \in Fds : AcceptSucceeds(s, c, f)
  BY <1>8, <1>9
<1>. QED BY <1>4, <1>5, <1>6, <1>7, <1>9 DEF CallReturns

LEMMA StreamSteps ==
    ASSUME DisciplineInv, Careful, [Next]_vars
    PROVE  /\ OpenAborts
           /\ SameStreams \/ \E s \in Sockets : OthersFlow(s) /\ StreamSound(s)'
<1>. USE DEF TypeOK, DisciplineInv, OwnershipInv
<1>2. ASSUME NEW s \in Sockets
      PROVE  /\ io[s] \in IoRecord /\ io[s].good \in BOOLEAN /\ io[s].pending \in BOOLEAN
             /\ ObjectSound(s) /\ StreamSound(s)
  BY IoFields DEF ObjectsSound, StreamsSound
<1>3. ASSUME NEW s \in Sockets, Construct(s)
      PROVE  aborted' = aborted /\ OthersFlow(s) /\ StreamSound(s)'
  BY <1>2, <1>3 DEF Construct, OthersFlow, StreamSound
<1>4. ASSUME NEW s \in Sockets, ListenCall(s)
      PROVE  aborted' = aborted /\ SameStreams
  BY <1>4 DEF ListenCall, Careful, SameStreams
<1>5. ASSUME NEW s \in Sockets, Put(s)
      PROVE  aborted' = aborted /\ OthersFlow(s) /\ StreamSound(s)'
  <2>1. pState[s] \in Connections /\ io[s].good /\ s \in live
    BY <1>5 DEF Put, Careful, Callable
  <2>2. /\ UNCHANGED <<live, pState, aborted>>
        /\ io' = [io EXCEPT ![s] = Io(TRUE, TRUE, io[s].status)]
    BY <1>5 DEF Put
  <2>3. io'[s] = Io(TRUE, TRUE, io[s].status) /\ io[s].status = "OK"
    BY <1>2, <2>1, <2>2 DEF StreamSound
  <2>4. Io(TRUE, TRUE, io[s].status).status = io[s].status
    BY IoStatus
  <2>5. io'[s].status = "OK"
    BY <2>3, <2>4, Zenon
  <2>. QED BY <2>1, <2>2, <2>5 DEF OthersFlow, StreamSound
<1>6. ASSUME NEW s \in Sockets, Flush(s)
      PROVE  aborted' = aborted /\ OthersFlow(s) /\ StreamSound(s)'
  <2>1. pState[s] \in Connections /\ io[s].good /\ s \in live /\ io[s].status = "OK"
    BY <1>2, <1>6 DEF Flush, Callable, StreamSound
  <2>2. hFile[s] # NoFd
    BY <1>2, <2>1 DEF ObjectSound, Connections
  <2>3. PICK o \in SyncResults(io[s], pState[s], hFile[s]) :
          io' = [io EXCEPT ![s] = Io(o.good /\ ~o.pending, o.pending, o.status)]
    BY <1>6 DEF Flush
  <2>4. io[s].pending
    BY <1>6 DEF Flush
  <2>5. o = Io(TRUE, FALSE, "OK") \/ o = Io(FALSE, TRUE, "FAILED")
    BY <2>1, <2>2, <2>4 DEF SyncResults, Writes
  <2>6. CASE o = Io(TRUE, FALSE, "OK")
    <3>1. o.good /\ ~o.pending /\ o.status = "OK"
      BY <2>6, IoParts
    <3>2. o.good \in BOOLEAN /\ o.pending = FALSE /\ (o.good /\ ~o.pending) = TRUE
      BY <3>1, <2>6, IoParts
    <3>3. io' = [io EXCEPT ![s] = Io(TRUE, FALSE, "OK")]
      BY <2>3, <3>1, <3>2
    <3>4. io'[s] = o
      BY <2>6, <3>3
    <3>. QED BY <1>6, <2>1, <3>1, <3>3, <3>4 DEF Flush, OthersFlow, StreamSound, Unsent
  <2>7. CASE o = Io(FALSE, TRUE, "FAILED")
    <3>1. ~o.good /\ o.pending = TRUE /\ o.status = "FAILED"
      BY <2>7, IoParts
    <3>2. (o.good /\ ~o.pending) = FALSE
      BY <3>1
    <3>3. io' = [io EXCEPT ![s] = Io(FALSE, TRUE, "FAILED")]
      BY <2>3, <3>1, <3>2
    <3>4. io'[s] = o
      BY <2>7, <3>3
    <3>. QED BY <1>6, <2>1, <3>1, <3>3, <3>4 DEF Flush, OthersFlow, StreamSound, Unsent
  <2>. QED BY <2>5, <2>6, <2>7
<1>7. ASSUME NEW s \in Sockets, Read(s)
      PROVE  aborted' = aborted /\ OthersFlow(s) /\ StreamSound(s)'
  <2>1. pState[s] \in Connections /\ s \in live
    BY <1>7 DEF Read, Callable
  <2>2. /\ UNCHANGED <<live, pState, aborted>>
        /\ \/ io' = [io EXCEPT ![s] = Io(TRUE, io[s].pending, "OK")]
           \/ io' = [io EXCEPT ![s] = Io(FALSE, io[s].pending, "NODATA")]
    BY <1>7 DEF Read
  <2>3. \/ io'[s] = Io(TRUE, io[s].pending, "OK")
        \/ io'[s] = Io(FALSE, io[s].pending, "NODATA")
    BY <2>2
  <2>4. Io(TRUE, io[s].pending, "OK").status = "OK"
    BY IoStatus
  <2>5. ~Io(FALSE, io[s].pending, "NODATA").good
    BY IoBad
  <2>6. io'[s].status = "OK" \/ ~io'[s].good
    BY <2>3, <2>4, <2>5, Zenon
  <2>. QED BY <2>1, <2>2, <2>6 DEF OthersFlow, StreamSound
<1>8. ASSUME NEW s \in Sockets, Close(s) \/ Destroy(s)
      PROVE  ~SyncAborts(io[s], pState[s], hFile[s])
  BY <1>2 DEF SyncAborts, Writes, StreamSound, Unsent
<1>9. ASSUME NEW s \in Sockets, Close(s)
      PROVE  aborted' = aborted /\ OthersFlow(s) /\ StreamSound(s)'
  <2>1. /\ UNCHANGED <<live, aborted>>
        /\ pState' = [pState EXCEPT ![s] = "Closed"]
        /\ hFile[s] # NoFd /\ s \in live
        /\ \E o \in SyncResults(io[s], pState[s], hFile[s]) : io' = [io EXCEPT ![s] = o]
    BY <1>8, <1>9 DEF Close, Callable, In
  <2>2. PICK o \in SyncResults(io[s], pState[s], hFile[s]) : io' = [io EXCEPT ![s] = o]
    BY <2>1
  <2>3. Unsent(io[s]) => io[s].status = "OK"
    BY <1>2 DEF StreamSound, Unsent
  <2>4. ~Unsent(o)
    BY <1>2, <2>1, <2>3, SyncSettles
  <2>. QED BY <2>1, <2>2, <2>4 DEF OthersFlow, StreamSound, Connections
<1>10. ASSUME NEW s \in Sockets, Destroy(s)
       PROVE  aborted' = aborted /\ OthersFlow(s) /\ StreamSound(s)'
  <2>1. /\ live' = live \ {s} /\ aborted' = aborted
        /\ pState' = [pState EXCEPT ![s] = "Closed"]
        /\ io' = [io EXCEPT ![s] = FreshIo]
    BY <1>8, <1>10 DEF Destroy
  <2>2. ~Unsent(FreshIo)
    BY IoParts DEF Unsent, FreshIo
  <2>. QED BY <2>1, <2>2 DEF OthersFlow, StreamSound, Connections
<1>11. ASSUME NEW s \in Sockets, Clear(s) \/ \E r \in Sockets : Assign(s, r)
       PROVE  FALSE
  BY <1>11 DEF Clear, Assign, Careful
<1>12. ASSUME NEW s \in Sockets,
              \/ Construct(s) \/ ListenCall(s) \/ Put(s) \/ Flush(s) \/ Read(s)
              \/ Close(s) \/ Destroy(s) \/ CallReturns(s)
       PROVE  /\ aborted' = aborted
              /\ SameStreams \/ \E r \in Sockets : OthersFlow(r) /\ StreamSound(r)'
  BY <1>12, <1>3, <1>4, <1>5, <1>6, <1>7, <1>9, <1>10, ReturnFlows
<1>13. CASE Next
  <2>1. PICK s \in Sockets :
          \/ OpenCall(s)
          \/ \/ Construct(s) \/ ListenCall(s) \/ Put(s) \/ Flush(s) \/ Read(s)
             \/ Close(s) \/ Destroy(s) \/ CallReturns(s)
    BY <1>11, <1>13 DEF Next
  <2>2. CASE OpenCall(s)
    BY <2>2, OpenFlows
  <2>. QED BY <1>12, <2>1, <2>2 DEF OpenAborts
<1>14. CASE UNCHANGED vars
  BY <1>14 DEF vars, SameStreams, OpenAborts
<1>. QED BY <1>13, <1>14

LEMMA DisciplineStep ==
    ASSUME DisciplineInv, Careful, [Next]_vars
    PROVE  DisciplineInv' /\ OpenAborts
<1>1. OwnershipInv' /\ ObjectsSound'
  BY OwnershipStep, ObjectsSoundStep DEF DisciplineInv, OwnershipInv, Careful
<1>3. ASSUME NEW s \in Sockets, OthersFlow(s), StreamSound(s)'
      PROVE  StreamsSound'
  <2>1. ASSUME NEW r \in Sockets, r # s
        PROVE  StreamSound(r)'
    BY <1>3, <2>1 DEF OthersFlow, DisciplineInv, StreamsSound, StreamSound
  <2>. QED BY <1>3, <2>1 DEF StreamsSound
<1>4. SameStreams => StreamsSound'
  BY DEF SameStreams, DisciplineInv, StreamsSound, StreamSound
<1>. QED BY <1>1, <1>3, <1>4, StreamSteps DEF DisciplineInv

(* In a program with none of the habits no VERIFY of the library fails but the
   one in open(): whatever connects, handshakes, flushes and reads return, using,
   closing and destroying objects does not end the process. *)
THEOREM NeverAborts == Spec => []OnlyOpenAborts
<1>. DEFINE Inv == Careful => DisciplineInv /\ aborted \in {"no", "open"}
<1>1. Init => Inv
  <2>. SUFFICES ASSUME Init PROVE DisciplineInv /\ aborted = "no"
    OBVIOUS
  <2>1. OwnershipInv /\ ObjectsSound /\ aborted = "no"
    BY OwnershipInit, ObjectsSoundInit DEF Init
  <2>2. ~Unsent(FreshIo) /\ FreshIo.status = "OK"
    BY IoParts DEF Unsent, FreshIo
  <2>3. StreamsSound
    BY <2>2 DEF Init, StreamsSound, StreamSound
  <2>. QED BY <2>1, <2>3 DEF DisciplineInv
<1>2. Inv /\ [Next]_vars => Inv'
  BY DisciplineStep, ProgramKept DEF Careful, OpenAborts
<1>3. Inv => OnlyOpenAborts
  BY DEF Careful, OnlyOpenAborts
<1>. HIDE DEF Inv
<1>. QED BY <1>1, <1>2, <1>3, PTL DEF Spec

==============================================================================
