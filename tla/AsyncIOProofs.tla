---------------------------- MODULE AsyncIOProofs ----------------------------
(***************************************************************************)
(* Theorems about AsyncIO: for any number of workers and buffers, any       *)
(* bounds, and any set of programs.  An invariant that only some programs   *)
(* have is proved of the execution of each of those, by its habits: those   *)
(* that wait before they close, those that give each call a buffer of its   *)
(* own, those that have one call of a kind at a time.                       *)
(***************************************************************************)
EXTENDS AsyncIO, SequenceLemmas

Pcs == {"idle", "spawned", "dispatched", "blocked", "calling", "ending"}
Ops == {"read", "write"}
JobType == [pc : Pcs, op : Ops, buf : AllBufs, item : Items,
            asked : Conns \union {NoConn}, on : Conns \union {NoConn}]
Active == {"spawned", "dispatched", "blocked", "calling"}

(* The Socket is connected exactly when it has a descriptor; the program's own
   ::recv and the workers are on one. *)
OnConnections ==
    /\ pState = "Connected" <=> hFile # NoConn
    /\ pState = "Connected" => alive /\ hFile = latest
    /\ main # "idle" => pState = "Connected"
    /\ \A w \in Workers :
          /\ job[w].pc \in Active => job[w].asked # NoConn
          /\ job[w].pc \in {"blocked", "calling"} => job[w].on # NoConn

TypeInv == TypeOK /\ OnConnections

------------------------------------------------------------------------------
(* Conns, messages and bytes. *)
LEMMA ItemFacts ==
    /\ Conns \subseteq Nat /\ NoConn \notin Conns /\ 1 \in Conns
    /\ Nothing \in Items
    /\ \A c \in Conns, k \in 1 .. MaxIn : Byte(c, k) \in Items
    /\ \A m \in 1 .. MaxOut : Message(m) \in Items
<1>1. MaxIn \in Nat /\ MaxOut \in Nat /\ MaxConn \in Nat \ {0}
  BY BoundAssumption
<1>2. Conns \subseteq Nat /\ NoConn \notin Conns /\ 1 \in Conns
  BY <1>1 DEF Conns, NoConn
<1>3. \A c \in 0 .. MaxConn, k \in 0 .. MaxIn + MaxOut : <<c, k>> \in Items
  BY DEF Items
<1>4. Nothing \in Items
  BY <1>1, <1>3 DEF Nothing
<1>5. ASSUME NEW c \in Conns, NEW k \in 1 .. MaxIn
      PROVE  Byte(c, k) \in Items
  <2>1. c \in 0 .. MaxConn /\ k \in 0 .. MaxIn + MaxOut
    BY <1>1 DEF Conns
  <2>. QED BY <1>3, <2>1 DEF Byte
<1>6. \A m \in 1 .. MaxOut : Message(m) \in Items
  BY <1>1, <1>3 DEF Message
<1>. QED BY <1>2, <1>4, <1>5, <1>6

(* A worker's job j[w] goes on to k[w], keeping what it was given. *)
OnlyMoves(j, k, w, p) ==
    /\ k \in [Workers -> JobType]
    /\ \A v \in Workers : v # w => k[v] = j[v]
    /\ k[w].pc = p
    /\ k[w].op = j[w].op
    /\ k[w].buf = j[w].buf
    /\ k[w].asked = j[w].asked

LEMMA Moving ==
    ASSUME NEW j \in [Workers -> JobType], NEW w \in Workers, NEW p \in Pcs
    PROVE  /\ OnlyMoves(j, [j EXCEPT ![w].pc = p], w, p)
           /\ [j EXCEPT ![w].pc = p][w].item = j[w].item
           /\ [j EXCEPT ![w].pc = p][w].on = j[w].on
BY DEF OnlyMoves, JobType

LEMMA Spawning ==
    ASSUME TypeInv, NEW w \in Workers, NEW op \in Ops, NEW b \in AllBufs, NEW i \in Items,
           Spawn(w, op, b, i)
    PROVE  /\ job' \in [Workers -> JobType]
           /\ \A v \in Workers : v # w => job'[v] = job[v]
           /\ job'[w] = [pc |-> "spawned", op |-> op, buf |-> b, item |-> i,
                         asked |-> hFile, on |-> NoConn]
           /\ awaited' = awaited \union {w} /\ w \notin awaited /\ job[w].pc = "idle"
<1>1. job \in [Workers -> JobType] /\ hFile \in Conns \union {NoConn}
  BY DEF TypeInv, TypeOK, JobType, Pcs, Ops
<1>2. [pc |-> "spawned", op |-> op, buf |-> b, item |-> i,
       asked |-> hFile, on |-> NoConn] \in JobType
  BY <1>1 DEF JobType, Pcs
<1>. QED BY <1>1, <1>2 DEF Spawn, Busy

LEMMA IdleType == Idle \in JobType /\ Idle.pc = "idle"
BY ItemFacts DEF Idle, JobType, Pcs, Ops, AllBufs

LEMMA JobTyped ==
    ASSUME TypeInv
    PROVE  /\ job \in [Workers -> JobType]
           /\ \A w \in Workers : job[w].buf \in AllBufs /\ job[w].op \in Ops /\ job[w].pc \in Pcs
BY DEF TypeInv, TypeOK, JobType, Pcs, Ops

------------------------------------------------------------------------------
(* Types.  What a step does to the jobs is enough for their part of it. *)
LEMMA InitTypes == Init => TypeInv
<1>. SUFFICES ASSUME Init PROVE TypeInv
  OBVIOUS
<1>. USE ItemFacts DEF Init
<1>1. job \in [Workers -> JobType]
  BY IdleType
<1>2. MaxIn \in Nat /\ MaxOut \in Nat /\ 0 \in 0 .. MaxIn
  BY BoundAssumption
<1>3. alive \in BOOLEAN /\ aborted \in BOOLEAN /\ trespassed \in BOOLEAN
  OBVIOUS
<1>4. /\ content \in [AllBufs -> Items]
      /\ sent \in [Conns -> 0 .. MaxIn]
      /\ queue \in [Conns -> Seq(Items)]
      /\ delivered \in [Conns -> Seq(Items)]
      /\ written \in Seq(Items) /\ Len(written) <= MaxOut /\ wire \in Seq(Items)
  BY <1>2
<1>5. TypeOK
  BY <1>1, <1>3, <1>4 DEF TypeOK, JobType, Pcs, Ops
<1>6. OnConnections
  BY IdleType DEF OnConnections, Active
<1>. QED BY <1>5, <1>6 DEF TypeInv

(* The jobs a worker's own step leaves. *)
JobsOnConnections ==
    \A w \in Workers :
        /\ job[w].pc \in Active => job[w].asked # NoConn
        /\ job[w].pc \in {"blocked", "calling"} => job[w].on # NoConn

LEMMA ReadReturnsTypes ==
    ASSUME TypeInv, UNCHANGED program, NEW b \in AllBufs, ReadReturns(b)
    PROVE  TypeInv'
<1>1. hFile \in Conns
  BY DEF TypeInv, TypeOK, OnConnections, ReadReturns
<1>2. /\ queue' \in [Conns -> Seq(Items)]
      /\ delivered' \in [Conns -> Seq(Items)]
      /\ content' \in [AllBufs -> Items]
  <2>1. CASE queue[hFile] # <<>>
    <3>1. queue[hFile] \in Seq(Items) /\ delivered[hFile] \in Seq(Items)
      BY <1>1 DEF TypeInv, TypeOK
    <3>2. Tail(queue[hFile]) \in Seq(Items) /\ Head(queue[hFile]) \in Items
      BY <2>1, <3>1, HeadTailProperties
    <3>3. Append(delivered[hFile], Head(queue[hFile])) \in Seq(Items)
      BY <3>1, <3>2, AppendProperties
    <3>. QED BY <1>1, <2>1, <3>2, <3>3 DEF ReadReturns, TypeInv, TypeOK
  <2>2. CASE queue[hFile] = <<>>
    BY <2>2 DEF ReadReturns, TypeInv, TypeOK
  <2>. QED BY <2>1, <2>2
<1>. QED BY <1>2 DEF ReadReturns, socketVars, streamVars, peerVars, TypeInv, TypeOK, OnConnections

LEMMA SpawnJobs ==
    ASSUME TypeInv, NEW w \in Workers, NEW op \in Ops, NEW b \in AllBufs, NEW i \in Items,
           pState = "Connected", Spawn(w, op, b, i)
    PROVE  /\ job' \in [Workers -> JobType]
           /\ awaited' \subseteq Workers
           /\ JobsOnConnections'
<1>1. hFile # NoConn
  BY DEF TypeInv, OnConnections
<1>2. /\ job' \in [Workers -> JobType]
      /\ \A v \in Workers : v # w => job'[v] = job[v]
      /\ job'[w] = [pc |-> "spawned", op |-> op, buf |-> b, item |-> i,
                    asked |-> hFile, on |-> NoConn]
      /\ awaited' = awaited \union {w}
  BY Spawning
<1>3. job'[w].asked # NoConn /\ job'[w].pc = "spawned"
  BY <1>1, <1>2
<1>4. awaited' \subseteq Workers
  BY <1>2 DEF TypeInv, TypeOK
<1>. QED BY <1>2, <1>3, <1>4 DEF TypeInv, OnConnections, JobsOnConnections

LEMMA ProgramTyped ==
    ASSUME TypeInv
    PROVE  program.writes \in 0 .. MaxOut /\ program.opens \in 1 .. MaxConn
BY ProgramAssumption DEF TypeInv, TypeOK, Program

(* The text in the put area may be the next message to write. *)
LEMMA NextTyped ==
    ASSUME TypeInv, Len(written) < program.writes
    PROVE  /\ NextMessage \in Items
           /\ Append(written, NextMessage) \in Seq(Items)
           /\ Len(Append(written, NextMessage)) <= MaxOut
           /\ Len(Append(written, NextMessage)) = Len(written) + 1 /\ Len(written) \in Nat
<1>1. Len(written) \in Nat /\ written \in Seq(Items) /\ MaxOut \in Nat
  BY BoundAssumption, LenProperties DEF TypeInv, TypeOK
<1>2. Len(written) + 1 \in 1 .. MaxOut
  BY <1>1, ProgramTyped
<1>3. NextMessage \in Items
  BY <1>2, ItemFacts DEF NextMessage
<1>. QED BY <1>1, <1>2, <1>3, AppendProperties

LEMMA ReaderSpawnTypes ==
    ASSUME TypeInv, UNCHANGED program, NEW w \in Workers, NEW b \in AllBufs,
           ReaderSpawns(w, b), good' \in BOOLEAN
    PROVE  TypeInv'
<1>1. pState = "Connected" /\ Spawn(w, "read", b, Nothing)
  BY DEF ReaderSpawns, Ready
<1>2. job' \in [Workers -> JobType] /\ awaited' \subseteq Workers /\ JobsOnConnections'
  BY <1>1, SpawnJobs, ItemFacts DEF Ops
<1>. QED BY <1>2 DEF ReaderSpawns, socketVars, peerVars, TypeInv, TypeOK, OnConnections,
                 JobsOnConnections, JobType, Pcs, Ops

LEMMA WriteTypes ==
    ASSUME TypeInv, UNCHANGED program, NEW w \in Workers, NEW b \in AllBufs, Write(w, b)
    PROVE  TypeInv' /\ NextMessage \in Items
<1>1. pState = "Connected" /\ Spawn(w, "write", b, NextMessage)
  BY DEF Write, Ready
<1>2. NextMessage \in Items /\ written' \in Seq(Items) /\ Len(written') <= MaxOut
  BY NextTyped DEF Write
<1>3. job' \in [Workers -> JobType] /\ awaited' \subseteq Workers /\ JobsOnConnections'
  BY <1>1, <1>2, SpawnJobs DEF Ops
<1>4. content' \in [AllBufs -> Items]
  BY <1>2 DEF Write, Filled, TypeInv, TypeOK
<1>. QED BY <1>2, <1>3, <1>4
         DEF Write, socketVars, streamVars, peerVars, TypeInv, TypeOK, OnConnections,
             JobsOnConnections, JobType, Pcs, Ops

LEMMA PutTypes ==
    ASSUME TypeInv, UNCHANGED program, Put
    PROVE  TypeInv' /\ NextMessage \in Items
<1>1. NextMessage \in Items /\ written' \in Seq(Items) /\ Len(written') <= MaxOut
  BY NextTyped DEF Put
<1>2. content' \in [AllBufs -> Items]
  BY <1>1 DEF Put, Filled, TypeInv, TypeOK
<1>. QED BY <1>1, <1>2 DEF Put, socketVars, peerVars, TypeInv, TypeOK, OnConnections

LEMMA SyncTypes ==
    ASSUME TypeInv, UNCHANGED program, NEW w \in Workers, Flush(w) \/ CloseFlushes(w)
    PROVE  TypeInv' /\ content[OutBuf] \in Items
<1>1. pState = "Connected" /\ SyncWrites(w) /\ (main' = main \/ main' = "closing")
  BY DEF Flush, CloseFlushes, Ready
<1>2. content[OutBuf] \in Items /\ OutBuf \in AllBufs
  BY DEF AllBufs, TypeInv, TypeOK
<1>3. job' \in [Workers -> JobType] /\ awaited' \subseteq Workers /\ JobsOnConnections'
  BY <1>1, <1>2, SpawnJobs DEF SyncWrites, Ops
<1>. QED BY <1>1, <1>2, <1>3
         DEF SyncWrites, socketVars, peerVars, TypeInv, TypeOK, OnConnections,
             JobsOnConnections, JobType, Pcs, Ops

LEMMA SocketTypes ==
    ASSUME TypeInv, UNCHANGED program, Close \/ Destroy \/ Reopen \/ ReadPolls
    PROVE  TypeInv'
<1>1. CASE Close
  BY <1>1, ItemFacts DEF Close, ClosedState, peerVars, TypeInv, TypeOK, OnConnections
<1>2. CASE Destroy
  BY <1>2, ItemFacts DEF Destroy, streamVars, peerVars, TypeInv, TypeOK, OnConnections
<1>3. CASE Reopen
  <2>1. latest + 1 \in Conns
    <3>1. latest \in 1 .. MaxConn /\ latest < program.opens /\ MaxConn \in Nat
      BY <1>3, BoundAssumption DEF Reopen, TypeInv, TypeOK, Conns
    <3>2. program.opens \in 1 .. MaxConn
      BY ProgramTyped
    <3>. QED BY <3>1, <3>2 DEF Conns
  <2>. QED BY <1>3, <2>1, ItemFacts
           DEF Reopen, streamVars, peerVars, TypeInv, TypeOK, OnConnections
<1>4. CASE ReadPolls
  BY <1>4 DEF ReadPolls, Ready, socketVars, streamVars, peerVars, TypeInv, TypeOK, OnConnections
<1>. QED BY <1>1, <1>2, <1>3, <1>4

LEMMA PeerTypes ==
    ASSUME TypeInv, UNCHANGED program, NEW c \in Conns, PeerSends(c) \/ PeerFinishes(c)
    PROVE  TypeInv'
<1>1. CASE PeerSends(c)
  <2>1. sent[c] \in 0 .. MaxIn /\ sent[c] < MaxIn /\ MaxIn \in Nat
    BY <1>1, BoundAssumption DEF PeerSends, TypeInv, TypeOK
  <2>2. sent[c] + 1 \in 1 .. MaxIn /\ sent[c] + 1 \in 0 .. MaxIn
    BY <2>1
  <2>3. Byte(c, sent[c] + 1) \in Items /\ queue[c] \in Seq(Items)
    BY <2>2, ItemFacts DEF TypeInv, TypeOK
  <2>4. Append(queue[c], Byte(c, sent[c] + 1)) \in Seq(Items)
    BY <2>3, AppendProperties
  <2>5. /\ sent' \in [Conns -> 0 .. MaxIn]
        /\ queue' \in [Conns -> Seq(Items)]
    BY <1>1, <2>2, <2>4 DEF PeerSends, TypeInv, TypeOK
  <2>. QED BY <1>1, <2>5 DEF PeerSends, socketVars, streamVars, TypeInv, TypeOK, OnConnections
<1>2. CASE PeerFinishes(c)
  BY <1>2 DEF PeerFinishes, socketVars, streamVars, TypeInv, TypeOK, OnConnections
<1>. QED BY <1>1, <1>2

(* A worker that moves on keeps its connections. *)
LEMMA MoveTypes ==
    ASSUME TypeInv, NEW w \in Workers, NEW p \in Pcs, OnlyMoves(job, job', w, p),
           p \in Active => job[w].pc \in Active,
           p \in {"blocked", "calling"} => job'[w].on # NoConn
    PROVE  JobsOnConnections'
BY DEF TypeInv, OnConnections, OnlyMoves, JobsOnConnections

LEMMA EndTypes ==
    ASSUME TypeInv, NEW w \in Workers, NEW p \in {"ending", "dispatched", "idle"},
           p = "dispatched" => job[w].pc = "spawned", Goes(w, p)
    PROVE  job' \in [Workers -> JobType] /\ JobsOnConnections'
<1>1. OnlyMoves(job, job', w, p) /\ p \in Pcs
  BY JobTyped, Moving DEF Goes, Pcs
<1>2. JobsOnConnections'
  BY <1>1, MoveTypes DEF Active
<1>. QED BY <1>1, <1>2 DEF OnlyMoves

LEMMA DispatchTypes ==
    ASSUME TypeInv, UNCHANGED program, NEW w \in Workers, Dispatch(w)
    PROVE  TypeInv'
<1>1. /\ \/ job' = job
         \/ job' \in [Workers -> JobType] /\ JobsOnConnections'
  BY EndTypes DEF Dispatch, Trespasses, At
<1>2. aborted' \in BOOLEAN /\ trespassed' \in BOOLEAN
  <2>1. (aborted' = aborted \/ aborted' = TRUE) /\ (trespassed' = trespassed \/ trespassed' = TRUE)
    BY DEF Dispatch, Trespasses
  <2>. QED BY <2>1 DEF TypeInv, TypeOK
<1>. QED BY <1>1, <1>2 DEF Dispatch, socketVars, streamVars, peerVars, TypeInv, TypeOK, OnConnections,
                           JobsOnConnections, JobType, Pcs, Ops

LEMMA EnterTypes ==
    ASSUME TypeInv, UNCHANGED program, NEW w \in Workers, Enter(w)
    PROVE  TypeInv'
<1>1. ASSUME Trespasses(w)
      PROVE  job' \in [Workers -> JobType] /\ JobsOnConnections'
  BY <1>1, EndTypes DEF Trespasses
<1>2. ASSUME ~Trespasses(w)
      PROVE  job' \in [Workers -> JobType] /\ JobsOnConnections'
  <2>. DEFINE p == IF hFile = NoConn THEN "ending" ELSE "blocked"
              k == [job EXCEPT ![w].pc = p, ![w].on = hFile]
  <2>1. job' = k /\ job[w].pc = "dispatched"
    BY <1>2 DEF Enter, At
  <2>2. p \in Pcs /\ hFile \in Conns \union {NoConn}
    BY DEF Pcs, TypeInv, TypeOK
  <2>3. p \in {"blocked", "calling"} => hFile # NoConn
    OBVIOUS
  <2>. HIDE DEF p
  <2>4. job \in [Workers -> JobType]
    BY JobTyped
  <2>5. OnlyMoves(job, k, w, p) /\ k[w].on = hFile
    BY <2>2, <2>4 DEF OnlyMoves, JobType
  <2>. HIDE DEF k
  <2>6. OnlyMoves(job, job', w, p) /\ job'[w].on = hFile
    BY <2>1, <2>5
  <2>7. JobsOnConnections'
    BY <2>1, <2>2, <2>3, <2>6, MoveTypes DEF Active
  <2>. QED BY <2>6, <2>7 DEF OnlyMoves
<1>3. job' \in [Workers -> JobType] /\ JobsOnConnections'
  BY <1>1, <1>2
<1>4. aborted' \in BOOLEAN /\ trespassed' \in BOOLEAN
  <2>1. aborted' = aborted /\ (trespassed' = trespassed \/ trespassed' = TRUE)
    BY DEF Enter, Trespasses
  <2>. QED BY <2>1 DEF TypeInv, TypeOK
<1>. QED BY <1>3, <1>4 DEF Enter, socketVars, streamVars, peerVars, TypeInv, TypeOK, OnConnections,
                           JobsOnConnections, JobType, Pcs, Ops

(* ::recv took the first byte of the queue of the worker's connection. *)
Takes(w) ==
    /\ Waiting(job[w].on)
    /\ content' = [content EXCEPT ![job[w].buf] = Head(queue[job[w].on])]
    /\ queue' = [queue EXCEPT ![job[w].on] = Tail(@)]
    /\ job' = [job EXCEPT ![w].pc = "calling", ![w].item = Head(queue[job[w].on])]

LEMMA TakesTypes ==
    ASSUME TypeInv, NEW w \in Workers, At(w, "blocked"), Takes(w)
    PROVE  /\ job[w].on \in Conns /\ job[w].buf \in AllBufs
           /\ queue[job[w].on] \in Seq(Items)
           /\ Head(queue[job[w].on]) \in Items /\ Tail(queue[job[w].on]) \in Seq(Items)
           /\ OnlyMoves(job, job', w, "calling")
           /\ job'[w].item = Head(queue[job[w].on]) /\ job'[w].on = job[w].on
<1>1. job[w].on \in Conns /\ job[w].buf \in AllBufs
  <2>1. job[w].on # NoConn
    BY DEF TypeInv, OnConnections, At
  <2>. QED BY <2>1, JobTyped DEF JobType
<1>2. queue[job[w].on] \in Seq(Items)
  BY <1>1 DEF TypeInv, TypeOK
<1>3. Head(queue[job[w].on]) \in Items /\ Tail(queue[job[w].on]) \in Seq(Items)
  BY <1>2, HeadTailProperties DEF Takes, Waiting
<1>. DEFINE i == Head(queue[job[w].on])
            k == [job EXCEPT ![w].pc = "calling", ![w].item = i]
<1>4. job' = k /\ i \in Items /\ "calling" \in Pcs
  BY <1>3 DEF Takes, Pcs
<1>. HIDE DEF i
<1>5. job \in [Workers -> JobType]
  BY JobTyped
<1>6. OnlyMoves(job, k, w, "calling") /\ k[w].item = i /\ k[w].on = job[w].on
  BY <1>4, <1>5 DEF OnlyMoves, JobType
<1>. HIDE DEF k
<1>7. OnlyMoves(job, job', w, "calling") /\ job'[w].item = i /\ job'[w].on = job[w].on
  BY <1>4, <1>6
<1>. QED BY <1>1, <1>2, <1>3, <1>7 DEF i

LEMMA UseTyped ==
    ASSUME TypeInv, NEW w \in Workers, UsesBuffer(w)
    PROVE  trespassed' \in BOOLEAN
BY DEF UsesBuffer, TypeInv, TypeOK

LEMMA ReceiveTypes ==
    ASSUME TypeInv, UNCHANGED program, NEW w \in Workers, Receive(w)
    PROVE  TypeInv'
<1>1. /\ At(w, "blocked")
      /\ Takes(w) \/ (Goes(w, "ending") /\ UNCHANGED <<content, queue>>)
  BY DEF Receive, Takes
<1>2. CASE Takes(w)
  <2>1. /\ job[w].on \in Conns /\ job[w].buf \in AllBufs
        /\ Head(queue[job[w].on]) \in Items /\ Tail(queue[job[w].on]) \in Seq(Items)
    BY <1>1, <1>2, TakesTypes
  <2>2. OnlyMoves(job, job', w, "calling") /\ job'[w].on = job[w].on
    BY <1>1, <1>2, TakesTypes
  <2>3. content' \in [AllBufs -> Items] /\ queue' \in [Conns -> Seq(Items)]
    BY <1>2, <2>1 DEF Takes, TypeInv, TypeOK
  <2>4. job[w].on # NoConn /\ job[w].pc \in Active /\ "calling" \in Pcs
    BY <1>1, <2>1, ItemFacts DEF At, Active, Pcs
  <2>5. JobsOnConnections'
    BY <2>2, <2>4, MoveTypes
  <2>6. job' \in [Workers -> JobType]
    BY <2>2 DEF OnlyMoves
  <2>7. trespassed' \in BOOLEAN
    BY UseTyped DEF Receive, TypeInv, TypeOK
  <2>. QED BY <2>3, <2>5, <2>6, <2>7
           DEF Receive, socketVars, streamVars, peerVars, TypeInv, TypeOK, OnConnections,
               JobsOnConnections, JobType, Pcs, Ops
<1>3. CASE Goes(w, "ending") /\ UNCHANGED <<content, queue>>
  <2>1. job' \in [Workers -> JobType] /\ JobsOnConnections'
    BY <1>3, EndTypes
  <2>2. trespassed' \in BOOLEAN
    BY UseTyped DEF Receive, TypeInv, TypeOK
  <2>. QED BY <1>3, <2>1, <2>2 DEF Receive, socketVars, streamVars, peerVars, TypeInv, TypeOK, OnConnections,
                             JobsOnConnections, JobType, Pcs, Ops
<1>. QED BY <1>1, <1>2, <1>3

LEMMA SendTypes ==
    ASSUME TypeInv, UNCHANGED program, NEW w \in Workers, Send(w)
    PROVE  TypeInv'
<1>1. job[w].buf \in AllBufs /\ job[w].pc = "blocked"
  BY JobTyped DEF Send, At
<1>2. job[w].on # NoConn
  BY <1>1 DEF TypeInv, OnConnections
<1>3. wire' \in Seq(Items)
  <2>1. content[job[w].buf] \in Items /\ wire \in Seq(Items)
    BY <1>1 DEF TypeInv, TypeOK
  <2>. QED BY <2>1, AppendProperties DEF Send
<1>4. job' \in [Workers -> JobType] /\ JobsOnConnections'
  <2>1. CASE Goes(w, "ending")
    BY <2>1, EndTypes
  <2>2. CASE Goes(w, "calling")
    <3>1. "calling" \in Pcs /\ job[w].pc \in Active
      BY <1>1 DEF Pcs, Active
    <3>2. OnlyMoves(job, job', w, "calling") /\ job'[w].on = job[w].on
      BY <2>2, <3>1, JobTyped, Moving DEF Goes
    <3>3. JobsOnConnections'
      BY <1>2, <3>1, <3>2, MoveTypes
    <3>. QED BY <3>2, <3>3 DEF OnlyMoves
  <2>. QED BY <2>1, <2>2 DEF Send
<1>5. trespassed' \in BOOLEAN
  BY UseTyped DEF Send, TypeInv, TypeOK
<1>. QED BY <1>3, <1>4, <1>5 DEF Send, socketVars, streamVars, peerVars, TypeInv, TypeOK, OnConnections,
                           JobsOnConnections, JobType, Pcs, Ops

LEMMA CallbackTypes ==
    ASSUME TypeInv, UNCHANGED program, NEW w \in Workers, Callback(w)
    PROVE  TypeInv' /\ job[w].asked \in Conns /\ content[job[w].buf] \in Items
<1>1. job[w].buf \in AllBufs /\ job[w].pc = "calling" /\ job[w].asked \in Conns \union {NoConn}
  BY JobTyped DEF Callback, At, JobType
<1>2. job[w].asked \in Conns
  BY <1>1 DEF TypeInv, OnConnections, Active
<1>3. content[job[w].buf] \in Items /\ delivered[job[w].asked] \in Seq(Items)
  BY <1>1, <1>2 DEF TypeInv, TypeOK
<1>4. Append(delivered[job[w].asked], content[job[w].buf]) \in Seq(Items)
  BY <1>3, AppendProperties
<1>5. delivered' \in [Conns -> Seq(Items)]
  BY <1>2, <1>4 DEF Callback, TypeInv, TypeOK
<1>6. content' \in [AllBufs -> Items]
  BY <1>1, ItemFacts DEF Callback, TypeInv, TypeOK
<1>7. job' \in [Workers -> JobType] /\ JobsOnConnections'
  BY EndTypes DEF Callback
<1>8. awaited' \subseteq Workers
  BY DEF Callback, TypeInv, TypeOK
<1>9. TypeInv'
  BY <1>5, <1>6, <1>7, <1>8
     DEF Callback, socketVars, streamVars, peerVars, TypeInv, TypeOK, OnConnections, JobsOnConnections,
         JobType, Pcs, Ops
<1>. QED BY <1>2, <1>3, <1>9

LEMMA FinishTypes ==
    ASSUME TypeInv, UNCHANGED program, NEW w \in Workers, Finish(w)
    PROVE  TypeInv'
<1>1. job' \in [Workers -> JobType] /\ JobsOnConnections'
  <2>1. CASE job' = [job EXCEPT ![w].pc = "idle"]
    BY <2>1, EndTypes DEF Goes
  <2>2. CASE job' = [job EXCEPT ![w] = Idle]
    BY <2>2, JobTyped, IdleType DEF TypeInv, OnConnections, JobsOnConnections, Active
  <2>. QED BY <2>1, <2>2 DEF Finish
<1>. QED BY <1>1 DEF Finish, socketVars, streamVars, peerVars, TypeInv, TypeOK, OnConnections,
                     JobsOnConnections, JobType, Pcs, Ops

LEMMA NextTypes ==
    ASSUME TypeInv, [Next]_vars
    PROVE  TypeInv'
<1>1. \A b \in Bufs : b \in AllBufs
  BY DEF AllBufs
<1>2. InBuf \in AllBufs /\ OutBuf \in AllBufs
  BY DEF AllBufs
<1>3. ASSUME ProgramStep, UNCHANGED program
      PROVE  TypeInv'
  <2>1. \A w \in Workers, b \in AllBufs : ReaderSpawns(w, b) /\ good' \in BOOLEAN => TypeInv'
    BY <1>3, ReaderSpawnTypes
  <2>2. \A w \in Workers : StreamGet(w) => TypeInv'
    BY <1>2, <2>1 DEF StreamGet
  <2>3. \A w \in Workers, b \in Bufs : ReadSpawns(w, b) \/ Write(w, b) => TypeInv'
    BY <1>1, <1>3, <2>1, WriteTypes DEF ReadSpawns
  <2>4. \A b \in Bufs \union {InBuf} : ReadReturns(b) => TypeInv'
    BY <1>1, <1>2, <1>3, ReadReturnsTypes
  <2>. QED BY <1>3, <2>2, <2>3, <2>4, PutTypes, SyncTypes, SocketTypes DEF ProgramStep
<1>4. ASSUME NEW w \in Workers, WorkerStep(w), UNCHANGED program
      PROVE  TypeInv'
  BY <1>4, DispatchTypes, EnterTypes, ReceiveTypes, SendTypes, CallbackTypes, FinishTypes
     DEF WorkerStep
<1>5. CASE UNCHANGED vars
  BY <1>5 DEF vars, socketVars, streamVars, peerVars, TypeInv, TypeOK, OnConnections
<1>. QED BY <1>3, <1>4, <1>5, PeerTypes DEF Next

(* Every value stays of its type, whatever overlaps and whenever the program
   closes: also the indices that a ::recv and a callback use. *)
THEOREM AsyncTypeCorrect == Spec => []TypeOK
<1>1. TypeInv => TypeOK
  BY DEF TypeInv
<1>. QED BY <1>1, InitTypes, NextTypes, PTL DEF Spec

(* The program that runs stays the same. *)
LEMMA SameProgram ==
    ASSUME [Next]_vars
    PROVE  UNCHANGED <<program, Habits>>
<1>1. program' = program
  BY DEF Next, vars
<1>. QED BY <1>1 DEF Habits

------------------------------------------------------------------------------
(***************************************************************************)
(* Programs that wait for every callback, and flush, before they close the  *)
(* Socket.  Their calls may overlap.                                        *)
(***************************************************************************)
Waits == "closeBusy" \notin Habits

(* A worker that is not yet at its end is awaited; those awaited are on the
   open connection. *)
Attended ==
    /\ awaited # {} => pState = "Connected"
    /\ \A w \in Workers : job[w].pc \in Active => w \in awaited
    /\ \A w \in awaited : job[w].asked = hFile
    /\ \A w \in Workers : job[w].pc \in {"blocked", "calling"} => job[w].on = hFile

AwaitInv == TypeInv /\ Attended /\ main # "closing" /\ ~aborted /\ ~trespassed

LEMMA AwaitMove ==
    ASSUME AwaitInv, TypeInv', NEW w \in Workers, NEW p \in Pcs, OnlyMoves(job, job', w, p),
           p \in Active => job[w].pc \in Active,
           p \in {"blocked", "calling"} => job'[w].on = hFile,
           UNCHANGED <<socketVars, main, awaited, aborted, trespassed>>
    PROVE  AwaitInv'
<1>1. awaited \subseteq Workers
  BY DEF AwaitInv, TypeInv, TypeOK
<1>2. \A v \in Workers : job'[v].op = job[v].op /\ job'[v].buf = job[v].buf /\ job'[v].asked = job[v].asked
  BY DEF OnlyMoves
<1>3. Attended'
  BY <1>1, <1>2 DEF OnlyMoves, AwaitInv, Attended, socketVars
<1>. QED BY <1>3 DEF AwaitInv

(* The new worker joins those awaited. *)
LEMMA AwaitSpawn ==
    ASSUME AwaitInv, TypeInv', NEW w \in Workers, NEW op \in Ops, NEW b \in AllBufs,
           NEW i \in Items, Spawn(w, op, b, i), Ready,
           UNCHANGED <<socketVars, main, aborted, trespassed>>
    PROVE  AwaitInv'
<1>1. /\ \A v \in Workers : v # w => job'[v] = job[v]
      /\ job'[w] = [pc |-> "spawned", op |-> op, buf |-> b, item |-> i,
                    asked |-> hFile, on |-> NoConn]
      /\ awaited' = awaited \union {w} /\ w \notin awaited
  BY Spawning DEF AwaitInv
<1>2. job'[w].pc = "spawned" /\ job'[w].asked = hFile
  BY <1>1
<1>3. awaited \subseteq Workers /\ pState = "Connected"
  BY DEF AwaitInv, TypeInv, TypeOK, Ready
<1>4. Attended'
  BY <1>1, <1>2, <1>3 DEF AwaitInv, Attended, socketVars
<1>. QED BY <1>4 DEF AwaitInv

(* Closing, such a program has nothing to send any more. *)
LEMMA NothingToFlush ==
    ASSUME Waits
    PROVE  \A w \in Workers : ~CloseFlushes(w)
BY DEF CloseFlushes, SyncWrites, MayClose, Waits

LEMMA AwaitProgram ==
    ASSUME AwaitInv, TypeInv', Waits, ProgramStep
    PROVE  AwaitInv'
<1>1. /\ \A b \in Bufs : b \in AllBufs
      /\ InBuf \in AllBufs /\ OutBuf \in AllBufs
      /\ "read" \in Ops /\ "write" \in Ops /\ Nothing \in Items
  BY ItemFacts DEF AllBufs, Ops
<1>2. ASSUME NEW w \in Workers, NEW b \in AllBufs, ReaderSpawns(w, b)
      PROVE  AwaitInv'
  <2>1. /\ Spawn(w, "read", b, Nothing) /\ Ready
        /\ UNCHANGED <<socketVars, main, aborted, trespassed>>
    BY <1>2 DEF ReaderSpawns
  <2>. QED BY <1>1, <2>1, AwaitSpawn
<1>3. ASSUME NEW w \in Workers, NEW b \in Bufs, ReadSpawns(w, b) \/ Write(w, b)
      PROVE  AwaitInv'
  <2>1. CASE Write(w, b)
    <3>1. /\ Spawn(w, "write", b, NextMessage) /\ Ready
          /\ UNCHANGED <<socketVars, main, aborted, trespassed>>
      BY <2>1 DEF Write
    <3>2. NextMessage \in Items
      BY <2>1, NextTyped DEF Write, AwaitInv
    <3>. QED BY <1>1, <3>1, <3>2, AwaitSpawn
  <2>. QED BY <1>1, <1>2, <1>3, <2>1 DEF ReadSpawns
<1>4. ASSUME NEW w \in Workers, Flush(w)
      PROVE  AwaitInv'
  <2>1. /\ Spawn(w, "write", OutBuf, content[OutBuf]) /\ Ready
        /\ UNCHANGED <<socketVars, main, aborted, trespassed>>
    BY <1>4 DEF Flush, SyncWrites
  <2>2. content[OutBuf] \in Items
    BY <1>1 DEF AwaitInv, TypeInv, TypeOK
  <2>. QED BY <1>1, <2>1, <2>2, AwaitSpawn
<1>5. CASE ReadPolls \/ Put \/ (\E b \in Bufs \union {InBuf} : ReadReturns(b))
  <2>1. /\ UNCHANGED <<socketVars, job, awaited, aborted, trespassed>>
        /\ main' # "closing"
    BY <1>5 DEF ReadPolls, ReadReturns, Put, AwaitInv
  <2>. QED BY <2>1 DEF socketVars, AwaitInv, Attended
<1>6. CASE Close
  <2>1. awaited = {}
    BY <1>6 DEF Close, MayClose, Waits, AwaitInv
  <2>. QED BY <1>6, <2>1 DEF Close, AwaitInv, Attended, Active
<1>7. CASE Destroy \/ Reopen
  <2>1. awaited = {}
    BY <1>7 DEF Destroy, Reopen, AwaitInv, Attended
  <2>. QED BY <1>7, <2>1 DEF Destroy, Reopen, AwaitInv, Attended, Active
<1>. QED BY <1>1, <1>2, <1>3, <1>4, <1>5, <1>6, <1>7, NothingToFlush DEF ProgramStep, StreamGet

(* A worker at work finds the Socket and its connection there. *)
LEMMA AtWork ==
    ASSUME AwaitInv, NEW w \in Workers, job[w].pc \in Active
    PROVE  /\ w \in awaited /\ alive /\ pState = "Connected" /\ hFile \in Conns
           /\ job[w].asked = hFile
           /\ UsesBuffer(w) => trespassed' = trespassed
<1>1. w \in awaited /\ pState = "Connected" /\ job[w].asked = hFile
  BY DEF AwaitInv, Attended
<1>2. alive /\ hFile \in Conns
  BY <1>1 DEF AwaitInv, TypeInv, TypeOK, OnConnections
<1>3. UsesBuffer(w) => trespassed' = trespassed
  BY <1>2 DEF UsesBuffer, AwaitInv, TypeInv, TypeOK
<1>. QED BY <1>1, <1>2, <1>3

LEMMA DispatchMoves ==
    ASSUME AwaitInv, NEW w \in Workers, Dispatch(w)
    PROVE  job[w].pc = "spawned" /\ Goes(w, "dispatched") /\ UNCHANGED <<aborted, trespassed>>
<1>1. job[w].pc = "spawned" /\ job[w].pc \in Active
  BY DEF Dispatch, At, Active
<1>2. alive /\ pState = "Connected"
  BY <1>1, AtWork
<1>. QED BY <1>1, <1>2 DEF Dispatch, Trespasses

LEMMA EnterMoves ==
    ASSUME AwaitInv, NEW w \in Workers, Enter(w)
    PROVE  /\ job[w].pc = "dispatched"
           /\ OnlyMoves(job, job', w, "blocked")
           /\ job'[w].on = hFile /\ job'[w].item = job[w].item
           /\ UNCHANGED <<aborted, trespassed>>
<1>1. job[w].pc = "dispatched" /\ job[w].pc \in Active
  BY DEF Enter, At, Active
<1>2. alive /\ hFile # NoConn /\ hFile \in Conns
  BY <1>1, AtWork, ItemFacts
<1>. DEFINE k == [job EXCEPT ![w].pc = "blocked", ![w].on = hFile]
<1>3. job' = k /\ UNCHANGED <<aborted, trespassed>>
  BY <1>2 DEF Enter, Trespasses
<1>4. job \in [Workers -> JobType]
  BY JobTyped DEF AwaitInv
<1>5. OnlyMoves(job, k, w, "blocked") /\ k[w].on = hFile /\ k[w].item = job[w].item
  BY <1>2, <1>4 DEF OnlyMoves, JobType, Pcs
<1>. HIDE DEF k
<1>. QED BY <1>1, <1>3, <1>5

LEMMA AwaitWorker ==
    ASSUME AwaitInv, TypeInv', NEW w \in Workers, WorkerStep(w)
    PROVE  AwaitInv'
<1>1. CASE Dispatch(w)
  <2>1. job[w].pc = "spawned" /\ Goes(w, "dispatched") /\ UNCHANGED <<aborted, trespassed>>
    BY <1>1, DispatchMoves
  <2>2. OnlyMoves(job, job', w, "dispatched") /\ "dispatched" \in Pcs /\ job[w].pc \in Active
    BY <2>1, JobTyped, Moving DEF Goes, Pcs, Active, AwaitInv
  <2>3. UNCHANGED <<socketVars, main, awaited, aborted, trespassed>>
    BY <1>1, <2>1 DEF Dispatch
  <2>. QED BY <2>2, <2>3, AwaitMove
<1>2. CASE Enter(w)
  <2>1. /\ job[w].pc = "dispatched" /\ OnlyMoves(job, job', w, "blocked")
        /\ job'[w].on = hFile /\ UNCHANGED <<aborted, trespassed>>
    BY <1>2, EnterMoves
  <2>2. "blocked" \in Pcs /\ job[w].pc \in Active
    BY <2>1 DEF Pcs, Active
  <2>3. UNCHANGED <<socketVars, main, awaited, aborted, trespassed>>
    BY <1>2, <2>1 DEF Enter
  <2>. QED BY <2>1, <2>2, <2>3, AwaitMove
<1>3. CASE Receive(w)
  <2>1. job[w].pc = "blocked" /\ job[w].pc \in Active /\ job[w].op = "read" /\ job[w].on = hFile
    BY <1>3 DEF Receive, At, Active, AwaitInv, Attended
  <2>2. UNCHANGED trespassed
    BY <1>3, <2>1, AtWork DEF Receive
  <2>3. UNCHANGED <<socketVars, main, awaited, aborted, trespassed>>
    BY <1>3, <2>2 DEF Receive
  <2>4. CASE Takes(w)
    <3>1. OnlyMoves(job, job', w, "calling") /\ job'[w].on = job[w].on
      BY <1>3, <2>4, TakesTypes DEF Receive, AwaitInv
    <3>2. "calling" \in Pcs
      BY DEF Pcs
    <3>. QED BY <2>1, <2>3, <3>1, <3>2, AwaitMove
  <2>5. CASE Goes(w, "ending")
    <3>1. OnlyMoves(job, job', w, "ending") /\ "ending" \in Pcs /\ "ending" \notin Active
      BY <2>5, JobTyped, Moving DEF Goes, Pcs, Active, AwaitInv
    <3>. QED BY <2>3, <3>1, AwaitMove
  <2>. QED BY <1>3, <2>4, <2>5 DEF Receive, Takes
<1>4. CASE Send(w)
  <2>1. job[w].pc = "blocked" /\ job[w].pc \in Active /\ job[w].on = hFile
    BY <1>4 DEF Send, At, Active, AwaitInv, Attended
  <2>2. UNCHANGED trespassed
    BY <1>4, <2>1, AtWork DEF Send
  <2>3. UNCHANGED <<socketVars, main, awaited, aborted, trespassed>>
    BY <1>4, <2>2 DEF Send
  <2>4. PICK p \in {"calling", "ending"} : Goes(w, p)
    BY <1>4 DEF Send
  <2>5. job \in [Workers -> JobType] /\ p \in Pcs
    BY JobTyped DEF Pcs, AwaitInv
  <2>6. OnlyMoves(job, [job EXCEPT ![w].pc = p], w, p) /\ [job EXCEPT ![w].pc = p][w].on = job[w].on
    BY <2>5, Moving
  <2>7. OnlyMoves(job, job', w, p) /\ job'[w].on = job[w].on
    BY <2>4, <2>6 DEF Goes
  <2>. QED BY <2>1, <2>3, <2>5, <2>7, AwaitMove
<1>5. CASE Callback(w)
  <2>1. OnlyMoves(job, job', w, "ending")
    BY <1>5, JobTyped, Moving DEF Callback, Goes, Pcs, AwaitInv
  <2>2. awaited' = awaited \ {w} /\ UNCHANGED <<socketVars, main, aborted, trespassed>>
    BY <1>5 DEF Callback
  <2>3. awaited \subseteq Workers
    BY DEF AwaitInv, TypeInv, TypeOK
  <2>4. Attended'
    BY <2>1, <2>2, <2>3 DEF OnlyMoves, AwaitInv, Attended, Active, socketVars
  <2>. QED BY <2>2, <2>4 DEF AwaitInv
<1>6. CASE Finish(w)
  <2>1. UNCHANGED <<socketVars, main, awaited, aborted, trespassed>>
    BY <1>6 DEF Finish
  <2>2. CASE w \in awaited
    <3>1. Goes(w, "idle")
      BY <1>6, <2>2 DEF Finish, Goes
    <3>2. OnlyMoves(job, job', w, "idle") /\ "idle" \in Pcs /\ "idle" \notin Active
      BY <3>1, JobTyped, Moving DEF Goes, Pcs, Active, AwaitInv
    <3>. QED BY <2>1, <3>2, AwaitMove
  <2>3. CASE w \notin awaited
    <3>1. job' = [job EXCEPT ![w] = Idle]
      BY <1>6, <2>3 DEF Finish
    <3>2. job'[w] = Idle /\ \A v \in Workers : v # w => job'[v] = job[v]
      BY <3>1, JobTyped DEF AwaitInv
    <3>3. awaited \subseteq Workers
      BY DEF AwaitInv, TypeInv, TypeOK
    <3>4. \A v \in awaited : job'[v] = job[v]
      BY <2>3, <3>2, <3>3
    <3>5. Attended'
      BY <2>1, <3>2, <3>4, IdleType DEF AwaitInv, Attended, Active, socketVars
    <3>. QED BY <2>1, <3>5 DEF AwaitInv
  <2>. QED BY <2>2, <2>3
<1>. QED BY <1>1, <1>2, <1>3, <1>4, <1>5, <1>6 DEF WorkerStep

LEMMA AwaitInit == Init => AwaitInv
BY InitTypes, IdleType DEF Init, AwaitInv, Attended, Active

LEMMA AwaitStep ==
    ASSUME AwaitInv, Waits, [Next]_vars
    PROVE  AwaitInv'
<1>1. TypeInv'
  BY NextTypes DEF AwaitInv
<1>2. ASSUME NEW c \in Conns, PeerSends(c) \/ PeerFinishes(c)
      PROVE  AwaitInv'
  <2>1. UNCHANGED <<socketVars, main, job, awaited, aborted, trespassed>>
    BY <1>2 DEF PeerSends, PeerFinishes
  <2>. QED BY <1>1, <2>1 DEF socketVars, AwaitInv, Attended
<1>3. CASE UNCHANGED vars
  BY <1>1, <1>3 DEF vars, socketVars, AwaitInv, Attended
<1>. QED BY <1>1, <1>2, <1>3, AwaitProgram, AwaitWorker DEF Next

(* No worker of a program that waits for its callbacks, and flushes, before it
   closes finds the Socket closed (VERIFY fails in SSClosed) or gone, however
   its calls overlap and whichever buffers they share. *)
THEOREM WorkersInTime == Spec => []WorkersEndInTime
<1>. DEFINE Inv == Waits => AwaitInv
<1>1. Init => Inv
  BY AwaitInit
<1>2. Inv /\ [Next]_vars => Inv'
  BY AwaitStep, SameProgram DEF Waits
<1>3. Inv => WorkersEndInTime
  BY DEF AwaitInv, WorkersEndInTime, NoAbort, Waits
<1>. HIDE DEF Inv
<1>. QED BY <1>1, <1>2, <1>3, PTL DEF Spec

------------------------------------------------------------------------------
(***************************************************************************)
(* Programs that give every call they await a buffer of its own.  Only the  *)
(* put area, which the StreamBuf passes on without asking, may be given to  *)
(* several.                                                                 *)
(***************************************************************************)
OwnBuffers == "sameBuffer" \notin Habits

BufsFor(op) == IF op = "read" THEN Bufs \union {InBuf} ELSE Bufs \union {OutBuf}
Held(w) == job[w].op = "read" /\ job[w].pc = "calling"

Lent ==
    /\ \A w \in Workers : job[w].pc \in Active => w \in awaited
    /\ \A w \in awaited : job[w].buf \in BufsFor(job[w].op)
    /\ \A v, w \in awaited : v # w /\ job[v].buf = job[w].buf => job[w].buf = OutBuf

(* What a call is about is in its buffer, or in the put area a later text. *)
Kept ==
    /\ \A w \in Workers : Held(w) => content[job[w].buf] = job[w].item
    /\ \A w \in Workers : ToSend(w) =>
          \/ content[job[w].buf] = job[w].item
          \/ "rushes" \in Habits /\ job[w].buf = OutBuf /\ content[OutBuf][2] > job[w].item[2]

Bounded ==
    /\ \A w \in Workers : ToSend(w) => job[w].item[2] <= Len(written)
    /\ put => content[OutBuf][2] <= Len(written)

LentInv == TypeInv /\ Lent /\ Kept /\ Bounded

LEMMA ItemNumber == \A x \in Items : x[2] \in Nat
<1>1. MaxIn + MaxOut \in Nat
  BY BoundAssumption
<1>. QED BY <1>1 DEF Items

LEMMA AtWorkOrAwaited ==
    ASSUME LentInv, NEW w \in Workers, ToSend(w) \/ Held(w)
    PROVE  w \in awaited
BY DEF ToSend, Held, LentInv, Lent, Active

(* What a worker's step must leave as it is. *)
LEMMA LentMove ==
    ASSUME LentInv, TypeInv', UNCHANGED Habits, NEW w \in Workers,
           \A v \in Workers : v # w => job'[v] = job[v],
           awaited' = awaited \/ awaited' = awaited \ {w},
           job'[w].pc \in Active => w \in awaited',
           w \in awaited' => job'[w].op = job[w].op /\ job'[w].buf = job[w].buf,
           \A v \in Workers : v # w /\ (ToSend(v) \/ Held(v)) =>
               content'[job[v].buf] = content[job[v].buf],
           ToSend(w)' => ToSend(w) /\ job'[w].item = job[w].item /\ UNCHANGED content,
           Held(w)' => content'[job'[w].buf] = job'[w].item,
           put' = put, put => content'[OutBuf] = content[OutBuf],
           written' = written
    PROVE  LentInv'
<1>1. awaited \subseteq Workers /\ awaited' \subseteq awaited
  BY DEF LentInv, TypeInv, TypeOK
<1>2. Lent'
  <2>1. \A v \in awaited' : job'[v].op = job[v].op /\ job'[v].buf = job[v].buf
    BY <1>1
  <2>2. \A v \in Workers : job'[v].pc \in Active => v \in awaited'
    BY DEF LentInv, Lent
  <2>3. \A v \in awaited' : job'[v].buf \in BufsFor(job'[v].op)
    BY <1>1, <2>1 DEF LentInv, Lent
  <2>4. \A v, u \in awaited' : v # u /\ job'[v].buf = job'[u].buf => job'[u].buf = OutBuf
    BY <1>1, <2>1 DEF LentInv, Lent
  <2>. QED BY <2>2, <2>3, <2>4 DEF Lent, BufsFor
<1>3. \A v \in Workers : v # w => /\ ToSend(v)' = ToSend(v) /\ Held(v)' = Held(v)
                                  /\ job'[v].buf = job[v].buf /\ job'[v].item = job[v].item
  BY DEF ToSend, Held
<1>4. ASSUME ToSend(w)'
      PROVE  ToSend(w) /\ job'[w].item = job[w].item /\ content' = content /\ job'[w].buf = job[w].buf
  BY <1>4, <1>1, AtWorkOrAwaited DEF ToSend, Active
<1>5. ASSUME NEW v \in Workers, ToSend(v)'
      PROVE  /\ ToSend(v) /\ job'[v].item = job[v].item /\ job'[v].buf = job[v].buf
             /\ content'[job[v].buf] = content[job[v].buf]
  BY <1>3, <1>4, <1>5
<1>6. Kept'
  <2>1. ASSUME NEW v \in Workers, Held(v)'
        PROVE  content'[job'[v].buf] = job'[v].item
    BY <1>3, <2>1 DEF LentInv, Kept
  <2>2. ASSUME NEW v \in Workers, ToSend(v)'
        PROVE  \/ content'[job'[v].buf] = job'[v].item
               \/ /\ "rushes" \in Habits' /\ job'[v].buf = OutBuf
                  /\ content'[OutBuf][2] > job'[v].item[2]
    BY <1>5, <2>2 DEF LentInv, Kept
  <2>. QED BY <2>1, <2>2 DEF Kept
<1>7. Bounded'
  BY <1>5 DEF LentInv, Bounded
<1>. QED BY <1>2, <1>6, <1>7 DEF LentInv

(* What a step that starts a worker must. *)
LEMMA LentSpawn ==
    ASSUME LentInv, TypeInv', UNCHANGED Habits, NEW w \in Workers, NEW op \in Ops,
           NEW b \in BufsFor(op), NEW i \in Items, Spawn(w, op, b, i),
           NotLent(b) \/ b = OutBuf,
           op = "write" => content'[b] = i /\ i[2] <= Len(written'),
           \A v \in Workers : ToSend(v) \/ Held(v) => content'[job[v].buf] = content[job[v].buf],
           put' => put /\ content'[OutBuf] = content[OutBuf],
           Len(written) <= Len(written')
    PROVE  LentInv'
<1>1. /\ \A v \in Workers : v # w => job'[v] = job[v]
      /\ job'[w] = [pc |-> "spawned", op |-> op, buf |-> b, item |-> i,
                    asked |-> hFile, on |-> NoConn]
      /\ awaited' = awaited \union {w} /\ w \notin awaited
  <2>1. b \in AllBufs
    BY DEF BufsFor, AllBufs
  <2>. QED BY <2>1, Spawning DEF LentInv
<1>2. /\ job'[w].pc = "spawned" /\ job'[w].op = op /\ job'[w].buf = b /\ job'[w].item = i
      /\ awaited \subseteq Workers
  BY <1>1 DEF LentInv, TypeInv, TypeOK
<1>3. \A v \in awaited : v # w /\ job'[v] = job[v] /\ (job[v].buf = b => b = OutBuf)
  BY <1>1, <1>2 DEF NotLent
<1>4. Lent'
  <2>1. \A v \in Workers : job'[v].pc \in Active => v \in awaited'
    BY <1>1 DEF LentInv, Lent
  <2>2. \A v \in awaited' : job'[v].buf \in BufsFor(job'[v].op)
    BY <1>1, <1>2, <1>3 DEF LentInv, Lent
  <2>3. \A v, u \in awaited' : v # u /\ job'[v].buf = job'[u].buf => job'[u].buf = OutBuf
    BY <1>1, <1>2, <1>3 DEF LentInv, Lent
  <2>. QED BY <2>1, <2>2, <2>3 DEF Lent, BufsFor
<1>5. \A v \in Workers : v # w => /\ ToSend(v)' = ToSend(v) /\ Held(v)' = Held(v)
                                  /\ job'[v].buf = job[v].buf /\ job'[v].item = job[v].item
  BY <1>1 DEF ToSend, Held
<1>6. ~Held(w)' /\ (ToSend(w)' => op = "write")
  BY <1>2 DEF Held, ToSend
<1>7. Kept'
  <2>1. ASSUME NEW v \in Workers, Held(v)'
        PROVE  content'[job'[v].buf] = job'[v].item
    BY <1>5, <1>6, <2>1 DEF LentInv, Kept
  <2>2. ASSUME NEW v \in Workers, ToSend(v)'
        PROVE  \/ content'[job'[v].buf] = job'[v].item
               \/ /\ "rushes" \in Habits' /\ job'[v].buf = OutBuf
                  /\ content'[OutBuf][2] > job'[v].item[2]
    <3>1. CASE v = w
      BY <1>2, <1>6, <2>2, <3>1
    <3>2. CASE v # w
      BY <1>5, <2>2, <3>2 DEF LentInv, Kept
    <3>. QED BY <3>1, <3>2
  <2>. QED BY <2>1, <2>2 DEF Kept
<1>8. Bounded'
  <2>1. Len(written) \in Nat /\ Len(written') \in Nat
    BY LenProperties DEF LentInv, TypeInv, TypeOK
  <2>2. ASSUME NEW v \in Workers, ToSend(v)'
        PROVE  job'[v].item[2] <= Len(written')
    <3>1. CASE v = w
      BY <1>2, <1>6, <2>2, <3>1
    <3>2. CASE v # w
      <4>1. ToSend(v) /\ job'[v].item = job[v].item /\ job[v].item[2] <= Len(written)
        BY <1>5, <2>2, <3>2 DEF LentInv, Bounded
      <4>2. job[v].item \in Items
        BY JobTyped DEF LentInv, JobType
      <4>. QED BY <2>1, <4>1, <4>2, ItemNumber
    <3>. QED BY <3>1, <3>2
  <2>3. ASSUME put'
        PROVE  content'[OutBuf][2] <= Len(written')
    <3>1. content'[OutBuf][2] <= Len(written) /\ content'[OutBuf] \in Items
      BY <2>3 DEF LentInv, Bounded, TypeInv, TypeOK, AllBufs
    <3>. QED BY <2>1, <3>1, ItemNumber
  <2>. QED BY <2>2, <2>3 DEF Bounded
<1>. QED BY <1>4, <1>7, <1>8 DEF LentInv

(* The text in the put area is the newest. *)
LEMMA LentPut ==
    ASSUME LentInv, TypeInv', UNCHANGED Habits, Put
    PROVE  LentInv'
<1>1. /\ content' = [content EXCEPT ![OutBuf] = NextMessage]
      /\ written' = Append(written, NextMessage)
      /\ job' = job /\ awaited' = awaited
      /\ "rushes" \in Habits \/ NotLent(OutBuf)
  BY DEF Put, Filled
<1>2. /\ Len(written) \in Nat /\ Len(written') = Len(written) + 1
      /\ NextMessage[2] = Len(written) + 1
  BY NextTyped DEF Put, LentInv, NextMessage, Message
<1>3. /\ content \in [AllBufs -> Items] /\ OutBuf \in AllBufs
      /\ \A v \in Workers : job[v].buf \in AllBufs /\ job[v].item \in Items
  BY JobTyped DEF LentInv, TypeInv, TypeOK, AllBufs, JobType
<1>4. Lent'
  BY <1>1 DEF LentInv, Lent
<1>5. Kept'
  <2>1. ASSUME NEW v \in Workers, Held(v)
        PROVE  content'[job[v].buf] = job[v].item
    <3>1. v \in awaited /\ job[v].buf \in Bufs \union {InBuf}
      BY <2>1, AtWorkOrAwaited DEF LentInv, Lent, BufsFor, Held
    <3>2. job[v].buf # OutBuf
      BY <3>1, BufAssumption
    <3>. QED BY <1>1, <1>3, <2>1, <3>2 DEF LentInv, Kept
  <2>2. ASSUME NEW v \in Workers, ToSend(v)
        PROVE  \/ content'[job[v].buf] = job[v].item
               \/ /\ "rushes" \in Habits /\ job[v].buf = OutBuf
                  /\ content'[OutBuf][2] > job[v].item[2]
    <3>1. CASE job[v].buf = OutBuf
      <4>1. "rushes" \in Habits
        BY <1>1, <2>2, <3>1, AtWorkOrAwaited DEF NotLent
      <4>2. content'[OutBuf][2] = Len(written) + 1
        BY <1>1, <1>2, <1>3
      <4>3. job[v].item[2] <= Len(written) /\ job[v].item[2] \in Nat
        BY <1>3, <2>2, ItemNumber DEF LentInv, Bounded
      <4>4. Len(written) + 1 > job[v].item[2]
        BY <1>2, <4>3
      <4>. QED BY <3>1, <4>1, <4>2, <4>4
    <3>2. CASE job[v].buf # OutBuf
      BY <1>1, <1>3, <2>2, <3>2 DEF LentInv, Kept
    <3>. QED BY <3>1, <3>2
  <2>. QED BY <1>1, <2>1, <2>2 DEF Kept, Held, ToSend
<1>6. Bounded'
  <2>1. ASSUME NEW v \in Workers, ToSend(v)
        PROVE  job[v].item[2] <= Len(written')
    <3>1. job[v].item[2] <= Len(written) /\ job[v].item[2] \in Nat
      BY <1>3, <2>1, ItemNumber DEF LentInv, Bounded
    <3>. QED BY <1>2, <3>1
  <2>2. content'[OutBuf] = NextMessage
    BY <1>1, <1>3
  <2>3. content'[OutBuf][2] <= Len(written')
    BY <1>2, <2>2
  <2>. QED BY <1>1, <2>1, <2>3 DEF Bounded, ToSend
<1>. QED BY <1>4, <1>5, <1>6 DEF LentInv

LEMMA LentOther ==
    ASSUME LentInv, TypeInv', UNCHANGED <<Habits, job, awaited, content, written>>, put' => put
    PROVE  LentInv'
BY DEF LentInv, Lent, Kept, Bounded, Held, ToSend

LEMMA LentProgram ==
    ASSUME LentInv, TypeInv', OwnBuffers, UNCHANGED Habits, ProgramStep
    PROVE  LentInv'
<1>1. /\ \A b \in Bufs : b \in BufsFor("read") /\ b \in BufsFor("write") /\ b # OutBuf
      /\ InBuf \in BufsFor("read") /\ OutBuf \in BufsFor("write")
      /\ "read" \in Ops /\ "write" \in Ops /\ Nothing \in Items
      /\ OutBuf \in AllBufs /\ Len(written) \in Nat
  BY ItemFacts, BufAssumption, LenProperties DEF BufsFor, Ops, AllBufs, LentInv, TypeInv, TypeOK
<1>2. ASSUME NEW w \in Workers, NEW b \in BufsFor("read"), ReaderSpawns(w, b)
      PROVE  LentInv'
  <2>1. /\ Spawn(w, "read", b, Nothing) /\ NotLent(b)
        /\ UNCHANGED <<content, put, written>>
    BY <1>2 DEF ReaderSpawns, MayUse, OwnBuffers
  <2>. QED BY <1>1, <2>1, LentSpawn
<1>3. ASSUME NEW w \in Workers, NEW b \in Bufs, Write(w, b)
      PROVE  LentInv'
  <2>1. /\ Spawn(w, "write", b, NextMessage) /\ NotLent(b) /\ put' = put
        /\ content' = [content EXCEPT ![b] = NextMessage]
        /\ written' = Append(written, NextMessage)
    BY <1>3 DEF Write, MayUse, OwnBuffers, Filled, streamVars
  <2>2. /\ NextMessage \in Items /\ Len(written') = Len(written) + 1
        /\ NextMessage[2] = Len(written) + 1
    BY <1>3, NextTyped DEF Write, LentInv, NextMessage, Message
  <2>3. content \in [AllBufs -> Items] /\ b \in AllBufs
    BY DEF LentInv, TypeInv, TypeOK, AllBufs
  <2>4. \A v \in Workers : ToSend(v) \/ Held(v) => content'[job[v].buf] = content[job[v].buf]
    BY <2>1, <2>3, AtWorkOrAwaited, JobTyped DEF NotLent, LentInv
  <2>5. content'[b] = NextMessage /\ content'[OutBuf] = content[OutBuf]
    BY <1>1, <2>1, <2>3
  <2>6. NextMessage[2] <= Len(written') /\ Len(written) <= Len(written')
    BY <1>1, <2>2
  <2>. QED BY <1>1, <2>1, <2>2, <2>4, <2>5, <2>6, LentSpawn
<1>4. ASSUME NEW w \in Workers, SyncWrites(w)
      PROVE  LentInv'
  <2>1. /\ put /\ ~put' /\ Spawn(w, "write", OutBuf, content[OutBuf])
        /\ UNCHANGED <<content, written>>
    BY <1>4 DEF SyncWrites
  <2>2. content[OutBuf] \in Items /\ content[OutBuf][2] <= Len(written)
    BY <1>1, <2>1 DEF LentInv, Bounded, TypeInv, TypeOK
  <2>. QED BY <1>1, <2>1, <2>2, LentSpawn
<1>5. ASSUME NEW b \in Bufs \union {InBuf}, ReadReturns(b)
      PROVE  LentInv'
  <2>1. UNCHANGED <<job, awaited, content, written, put>>
    BY <1>5 DEF ReadReturns, MayUse, OwnBuffers
  <2>. QED BY <2>1, LentOther
<1>6. CASE ReadPolls \/ Close \/ Destroy \/ Reopen
  <2>1. UNCHANGED <<job, awaited, content, written>> /\ (put' => put)
    BY <1>6 DEF ReadPolls, Close, Destroy, Reopen, streamVars
  <2>. QED BY <2>1, LentOther
<1>. QED BY <1>1, <1>2, <1>3, <1>4, <1>5, <1>6, LentPut
         DEF ProgramStep, ReadSpawns, StreamGet, Flush, CloseFlushes

LEMMA LentWorker ==
    ASSUME LentInv, TypeInv', UNCHANGED Habits, NEW w \in Workers, WorkerStep(w)
    PROVE  LentInv'
<1>1. /\ job \in [Workers -> JobType] /\ content \in [AllBufs -> Items]
      /\ \A v \in Workers : job[v].buf \in AllBufs
      /\ OutBuf \in AllBufs
  BY JobTyped DEF LentInv, TypeInv, TypeOK, AllBufs
<1>2. ASSUME NEW p \in Pcs, Goes(w, p)
      PROVE  OnlyMoves(job, job', w, p) /\ job'[w].item = job[w].item
  BY <1>1, <1>2, Moving DEF Goes
<1>3. ASSUME NEW p \in {"dispatched", "blocked", "ending"}, OnlyMoves(job, job', w, p),
             job'[w].item = job[w].item, p # "ending" => job[w].pc \in {"spawned", "dispatched"},
             UNCHANGED <<awaited, content, put, written>>
      PROVE  LentInv'
  <2>1. job'[w].pc = p /\ job'[w].op = job[w].op /\ job'[w].buf = job[w].buf
    BY <1>3 DEF OnlyMoves
  <2>2. /\ \A v \in Workers : v # w => job'[v] = job[v]
        /\ job'[w].pc \in Active => w \in awaited'
    BY <1>3, <2>1 DEF OnlyMoves, LentInv, Lent, Active
  <2>3. (ToSend(w)' => ToSend(w)) /\ ~Held(w)'
    BY <1>3, <2>1 DEF ToSend, Held
  <2>. QED BY <1>3, <2>1, <2>2, <2>3, LentMove
<1>4. CASE Dispatch(w)
  <2>1. UNCHANGED <<awaited, content, put, written>> /\ job[w].pc = "spawned"
    BY <1>4 DEF Dispatch, At, streamVars
  <2>2. Goes(w, "ending") \/ Goes(w, "dispatched") \/ job' = job
    BY <1>4 DEF Dispatch, Trespasses
  <2>3. "ending" \in Pcs /\ "dispatched" \in Pcs
    BY DEF Pcs
  <2>. QED BY <1>2, <1>3, <2>1, <2>2, <2>3, LentOther
<1>5. CASE Enter(w)
  <2>1. UNCHANGED <<awaited, content, put, written>> /\ job[w].pc = "dispatched" /\ "ending" \in Pcs
    BY <1>5 DEF Enter, At, streamVars, Pcs
  <2>2. CASE Trespasses(w)
    BY <1>2, <1>3, <2>1, <2>2 DEF Trespasses
  <2>3. CASE ~Trespasses(w)
    <3>. DEFINE p == IF hFile = NoConn THEN "ending" ELSE "blocked"
                k == [job EXCEPT ![w].pc = p, ![w].on = hFile]
    <3>1. job' = k /\ p \in {"dispatched", "blocked", "ending"} /\ p \in Pcs
      BY <1>5, <2>3 DEF Enter, Pcs
    <3>2. hFile \in Conns \union {NoConn}
      BY DEF LentInv, TypeInv, TypeOK
    <3>. HIDE DEF p
    <3>3. OnlyMoves(job, k, w, p) /\ k[w].item = job[w].item
      BY <1>1, <3>1, <3>2 DEF OnlyMoves, JobType
    <3>. HIDE DEF k
    <3>4. PICK q \in {"dispatched", "blocked", "ending"} :
               OnlyMoves(job, job', w, q) /\ job'[w].item = job[w].item
      BY <3>1, <3>3
    <3>. QED BY <1>3, <2>1, <3>4
  <2>. QED BY <2>2, <2>3
<1>6. CASE Receive(w)
  <2>1. /\ UNCHANGED <<awaited, put, written>> /\ job[w].op = "read" /\ At(w, "blocked")
        /\ "ending" \in Pcs
    BY <1>6 DEF Receive, streamVars, Pcs
  <2>2. CASE Goes(w, "ending") /\ UNCHANGED content
    BY <1>2, <1>3, <2>1, <2>2
  <2>3. CASE Takes(w)
    <3>1. /\ OnlyMoves(job, job', w, "calling") /\ job'[w].item = Head(queue[job[w].on])
          /\ Head(queue[job[w].on]) \in Items
      BY <2>1, <2>3, TakesTypes DEF LentInv
    <3>2. /\ job'[w].pc = "calling" /\ job'[w].op = "read" /\ job'[w].buf = job[w].buf
          /\ \A v \in Workers : v # w => job'[v] = job[v]
      BY <2>1, <3>1 DEF OnlyMoves
    <3>3. w \in awaited /\ job[w].buf \in Bufs \union {InBuf}
      BY <2>1 DEF LentInv, Lent, Active, At, BufsFor
    <3>4. job[w].buf # OutBuf
      BY <3>3, BufAssumption
    <3>5. \A v \in Workers : v # w /\ (ToSend(v) \/ Held(v)) => job[v].buf # job[w].buf
      BY <3>3, <3>4, AtWorkOrAwaited DEF LentInv, Lent
    <3>6. /\ \A v \in Workers : v # w /\ (ToSend(v) \/ Held(v)) =>
                 content'[job[v].buf] = content[job[v].buf]
          /\ content'[OutBuf] = content[OutBuf]
          /\ content'[job'[w].buf] = job'[w].item
      BY <1>1, <2>3, <3>1, <3>2, <3>4, <3>5 DEF Takes
    <3>7. ~ToSend(w)'
      BY <3>2 DEF ToSend
    <3>. QED BY <2>1, <3>2, <3>3, <3>6, <3>7, LentMove
  <2>. QED BY <1>6, <2>2, <2>3 DEF Receive, Takes
<1>7. CASE Send(w)
  <2>1. UNCHANGED <<awaited, content, put, written>> /\ job[w].op = "write" /\ job[w].pc = "blocked"
    BY <1>7 DEF Send, At, streamVars
  <2>2. "ending" \in Pcs /\ "calling" \in Pcs
    BY DEF Pcs
  <2>3. CASE Goes(w, "ending")
    BY <1>2, <1>3, <2>1, <2>2, <2>3
  <2>4. CASE Goes(w, "calling")
    <3>1. OnlyMoves(job, job', w, "calling")
      BY <1>2, <2>2, <2>4
    <3>2. /\ job'[w].pc = "calling" /\ job'[w].op = "write" /\ job'[w].buf = job[w].buf
          /\ \A v \in Workers : v # w => job'[v] = job[v]
          /\ job'[w].op = job[w].op
      BY <2>1, <3>1 DEF OnlyMoves
    <3>3. ~ToSend(w)' /\ ~Held(w)' /\ w \in awaited
      BY <2>1, <3>2 DEF ToSend, Held, LentInv, Lent, Active
    <3>. QED BY <2>1, <3>2, <3>3, LentMove
  <2>. QED BY <1>7, <2>3, <2>4 DEF Send
<1>8. CASE Callback(w)
  <2>1. /\ Goes(w, "ending") /\ awaited' = awaited \ {w} /\ UNCHANGED <<put, written>>
        /\ "ending" \in Pcs
    BY <1>8 DEF Callback, streamVars, Pcs
  <2>2. /\ job'[w].pc = "ending" /\ \A v \in Workers : v # w => job'[v] = job[v]
    BY <1>2, <2>1 DEF OnlyMoves
  <2>3. /\ \A v \in Workers : v # w /\ (ToSend(v) \/ Held(v)) =>
               content'[job[v].buf] = content[job[v].buf]
        /\ put => content'[OutBuf] = content[OutBuf]
    <3>1. \A v \in Workers : ToSend(v) \/ Held(v) => Busy(v)
      BY DEF ToSend, Held, Busy
    <3>2. CASE content' = content
      BY <3>2
    <3>3. CASE content' # content
      <4>1. /\ content' = [content EXCEPT ![job[w].buf] = Nothing]
            /\ \A v \in Workers : v # w /\ Busy(v) => job[v].buf # job[w].buf
            /\ put => job[w].buf # OutBuf
        BY <1>8, <3>3 DEF Callback
      <4>. QED BY <1>1, <3>1, <4>1
    <3>. QED BY <3>2, <3>3
  <2>4. ~ToSend(w)' /\ ~Held(w)' /\ job'[w].pc \notin Active
    BY <2>2 DEF ToSend, Held, Active
  <2>. QED BY <2>1, <2>2, <2>3, <2>4, LentMove
<1>9. CASE Finish(w)
  <2>1. UNCHANGED <<awaited, content, put, written>>
    BY <1>9 DEF Finish, streamVars
  <2>2. CASE w \in awaited
    <3>1. Goes(w, "idle") /\ "idle" \in Pcs
      BY <1>9, <2>2 DEF Finish, Goes, Pcs
    <3>2. OnlyMoves(job, job', w, "idle")
      BY <1>2, <3>1
    <3>3. /\ job'[w].pc = "idle" /\ job'[w].op = job[w].op /\ job'[w].buf = job[w].buf
          /\ \A v \in Workers : v # w => job'[v] = job[v]
      BY <3>2 DEF OnlyMoves
    <3>4. ~ToSend(w)' /\ ~Held(w)' /\ job'[w].pc \notin Active
      BY <3>3 DEF ToSend, Held, Active
    <3>. QED BY <2>1, <3>3, <3>4, LentMove
  <2>3. CASE w \notin awaited
    <3>1. job' = [job EXCEPT ![w] = Idle]
      BY <1>9, <2>3 DEF Finish
    <3>2. job'[w].pc = "idle" /\ \A v \in Workers : v # w => job'[v] = job[v]
      BY <1>1, <3>1, IdleType
    <3>3. ~ToSend(w)' /\ ~Held(w)' /\ job'[w].pc \notin Active
      BY <3>2 DEF ToSend, Held, Active
    <3>. QED BY <2>1, <2>3, <3>2, <3>3, LentMove
  <2>. QED BY <2>2, <2>3
<1>. QED BY <1>4, <1>5, <1>6, <1>7, <1>8, <1>9 DEF WorkerStep

LEMMA LentInit == Init => LentInv
<1>. SUFFICES ASSUME Init PROVE LentInv
  OBVIOUS
<1>1. \A w \in Workers : job[w].pc = "idle"
  BY IdleType DEF Init
<1>2. \A w \in Workers : ~ToSend(w) /\ ~Held(w) /\ job[w].pc \notin Active
  BY <1>1 DEF ToSend, Held, Active
<1>. QED BY <1>2, InitTypes DEF Init, LentInv, Lent, Kept, Bounded

LEMMA LentStep ==
    ASSUME LentInv, OwnBuffers, [Next]_vars
    PROVE  LentInv'
<1>1. TypeInv' /\ UNCHANGED Habits
  BY NextTypes, SameProgram DEF LentInv
<1>2. ASSUME NEW c \in Conns, PeerSends(c) \/ PeerFinishes(c)
      PROVE  LentInv'
  <2>1. UNCHANGED <<job, awaited, content, written, put>>
    BY <1>2 DEF PeerSends, PeerFinishes, streamVars
  <2>. QED BY <1>1, <2>1, LentOther
<1>3. CASE UNCHANGED vars
  <2>1. UNCHANGED <<job, awaited, content, written, put>>
    BY <1>3 DEF vars, streamVars
  <2>. QED BY <1>1, <2>1, LentOther
<1>. QED BY <1>1, <1>2, <1>3, LentProgram, LentWorker DEF Next

------------------------------------------------------------------------------
(***************************************************************************)
(* Programs that have one read and one write at a time, besides, and wait   *)
(* for every callback before they close.                                    *)
(***************************************************************************)
OneAtATime == Habits \intersect {"overlap", "closeBusy"} = {}

Apart == \A v, w \in awaited : v # w => job[v].op # job[w].op
Polled == main = "receiving" => \A v \in awaited : job[v].op # "read"

OneInv == AwaitInv /\ Apart /\ Polled

LEMMA SameOps ==
    ASSUME TypeInv, NEW w \in Workers, WorkerStep(w)
    PROVE  /\ awaited' \subseteq awaited /\ awaited \subseteq Workers
           /\ \A v \in Workers : v # w => job'[v] = job[v]
           /\ \A v \in awaited' : job'[v].op = job[v].op
           /\ UNCHANGED <<main, put, good, written>>
<1>1. awaited \subseteq Workers /\ job \in [Workers -> JobType]
  BY JobTyped DEF TypeInv, TypeOK
<1>2. UNCHANGED <<main, put, good, written>> /\ awaited' \subseteq awaited
  BY DEF WorkerStep, Dispatch, Enter, Receive, Send, Callback, Finish, streamVars
<1>3. ASSUME NEW p, job' = [job EXCEPT ![w].pc = p]
      PROVE  \A v \in Workers : (v # w => job'[v] = job[v]) /\ job'[v].op = job[v].op
  BY <1>1, <1>3 DEF JobType
<1>4. ASSUME NEW p, NEW x, job' = [job EXCEPT ![w].pc = p, ![w].on = x]
      PROVE  \A v \in Workers : (v # w => job'[v] = job[v]) /\ job'[v].op = job[v].op
  BY <1>1, <1>4 DEF JobType
<1>5. ASSUME NEW p, NEW x, job' = [job EXCEPT ![w].pc = p, ![w].item = x]
      PROVE  \A v \in Workers : (v # w => job'[v] = job[v]) /\ job'[v].op = job[v].op
  BY <1>1, <1>5 DEF JobType
<1>6. CASE Finish(w) /\ w \notin awaited
  BY <1>1, <1>2, <1>6 DEF Finish
<1>7. CASE ~ (Finish(w) /\ w \notin awaited)
  <2>1. \/ job' = job
        \/ \E p : job' = [job EXCEPT ![w].pc = p]
        \/ \E p, x : job' = [job EXCEPT ![w].pc = p, ![w].on = x]
        \/ \E p, x : job' = [job EXCEPT ![w].pc = p, ![w].item = x]
    <3>1. Dispatch(w) \/ Send(w) \/ Callback(w) =>
              job' = job \/ \E p : job' = [job EXCEPT ![w].pc = p]
      BY DEF Dispatch, Trespasses, Send, Callback, Goes
    <3>2. Enter(w) => \/ \E p : job' = [job EXCEPT ![w].pc = p]
                      \/ \E p, x : job' = [job EXCEPT ![w].pc = p, ![w].on = x]
      BY DEF Enter, Trespasses, Goes
    <3>3. Receive(w) => \/ \E p : job' = [job EXCEPT ![w].pc = p]
                        \/ \E p, x : job' = [job EXCEPT ![w].pc = p, ![w].item = x]
      BY DEF Receive, Goes
    <3>4. Finish(w) => \E p : job' = [job EXCEPT ![w].pc = p]
      BY <1>7 DEF Finish
    <3>. QED BY <3>1, <3>2, <3>3, <3>4 DEF WorkerStep
  <2>2. \A v \in Workers : (v # w => job'[v] = job[v]) /\ job'[v].op = job[v].op
    BY <1>3, <1>4, <1>5, <2>1
  <2>. QED BY <1>1, <1>2, <2>2
<1>. QED BY <1>6, <1>7

LEMMA OneSpawn ==
    ASSUME OneInv, NEW w \in Workers, NEW op \in Ops, NEW b \in AllBufs, NEW i \in Items,
           Spawn(w, op, b, i), Ready, OneAtATime, MayStart(op), main' = main
    PROVE  Apart' /\ Polled'
<1>1. /\ \A v \in Workers : v # w => job'[v] = job[v]
      /\ job'[w] = [pc |-> "spawned", op |-> op, buf |-> b, item |-> i,
                    asked |-> hFile, on |-> NoConn]
      /\ awaited' = awaited \union {w} /\ w \notin awaited
  BY Spawning DEF OneInv, AwaitInv
<1>2. job'[w].op = op /\ awaited \subseteq Workers
  BY <1>1 DEF OneInv, AwaitInv, TypeInv, TypeOK
<1>3. \A v \in awaited : job[v].op # op
  BY DEF MayStart, OneAtATime
<1>. QED BY <1>1, <1>2, <1>3 DEF OneInv, Apart, Polled, Ready

LEMMA OneStep ==
    ASSUME OneInv, OneAtATime, [Next]_vars
    PROVE  OneInv'
<1>. Waits
  BY DEF Waits, OneAtATime
<1>1. TypeInv /\ AwaitInv'
  BY AwaitStep DEF OneInv, AwaitInv
<1>. SUFFICES Apart' /\ Polled'
  BY <1>1 DEF OneInv
<1>2. ASSUME NEW w \in Workers, WorkerStep(w)
      PROVE  Apart' /\ Polled'
  <2>1. /\ awaited' \subseteq awaited /\ main' = main
        /\ \A v \in awaited' : job'[v].op = job[v].op
    BY <1>1, <1>2, SameOps
  <2>. QED BY <2>1 DEF OneInv, Apart, Polled
<1>3. ASSUME UNCHANGED <<job, awaited>>, main' = "receiving" => main' = main
      PROVE  Apart' /\ Polled'
  BY <1>3 DEF OneInv, Apart, Polled
<1>4. CASE ProgramStep
  <2>1. /\ \A b \in Bufs : b \in AllBufs
        /\ InBuf \in AllBufs /\ OutBuf \in AllBufs
        /\ "read" \in Ops /\ "write" \in Ops /\ Nothing \in Items /\ content[OutBuf] \in Items
    BY <1>1, ItemFacts DEF AllBufs, Ops, TypeInv, TypeOK
  <2>2. ASSUME NEW w \in Workers, NEW b \in AllBufs, ReaderSpawns(w, b)
        PROVE  Apart' /\ Polled'
    <3>1. Spawn(w, "read", b, Nothing) /\ Ready /\ MayStart("read") /\ main' = main
      BY <2>2 DEF ReaderSpawns
    <3>. QED BY <2>1, <3>1, OneSpawn
  <2>3. ASSUME NEW w \in Workers, NEW b \in Bufs, Write(w, b)
        PROVE  Apart' /\ Polled'
    <3>1. Spawn(w, "write", b, NextMessage) /\ Ready /\ MayStart("write") /\ main' = main
      BY <2>3 DEF Write
    <3>2. NextMessage \in Items
      BY <1>1, <2>3, NextTyped DEF Write
    <3>. QED BY <2>1, <3>1, <3>2, OneSpawn
  <2>4. ASSUME NEW w \in Workers, Flush(w)
        PROVE  Apart' /\ Polled'
    <3>1. /\ Spawn(w, "write", OutBuf, content[OutBuf]) /\ Ready /\ MayStart("write")
          /\ main' = main
      BY <2>4 DEF Flush, SyncWrites
    <3>. QED BY <2>1, <3>1, OneSpawn
  <2>5. CASE ReadPolls
    <3>1. \A v \in awaited : job[v].op # "read"
      BY <2>5 DEF ReadPolls, MayStart, OneAtATime
    <3>. QED BY <2>5, <3>1 DEF ReadPolls, OneInv, Apart, Polled
  <2>6. CASE (\E b \in Bufs \union {InBuf} : ReadReturns(b)) \/ Put \/ Close \/ Destroy \/ Reopen
    <3>1. UNCHANGED <<job, awaited>> /\ (main' = main \/ main' = "idle")
      BY <2>6 DEF ReadReturns, Put, Close, Destroy, Reopen
    <3>. QED BY <1>3, <3>1
  <2>. QED BY <1>4, <2>1, <2>2, <2>3, <2>4, <2>5, <2>6, NothingToFlush
           DEF ProgramStep, ReadSpawns, StreamGet
<1>5. CASE \E c \in Conns : PeerSends(c) \/ PeerFinishes(c)
  BY <1>3, <1>5 DEF PeerSends, PeerFinishes
<1>6. CASE UNCHANGED vars
  BY <1>3, <1>6 DEF vars
<1>. QED BY <1>2, <1>4, <1>5, <1>6 DEF Next

LEMMA OneInit == Init => OneInv
BY AwaitInit DEF Init, OneInv, Apart, Polled

------------------------------------------------------------------------------
(***************************************************************************)
(* The order of messages, in programs that permit themselves the stream at  *)
(* most.                                                                    *)
(***************************************************************************)
Plain == Habits \subseteq {"stream"}

(* On the connection, then with the worker, then in the put area: each message
   is later than those before it. *)
Sends ==
    /\ \A i \in DOMAIN wire : wire[i][2] <= Len(written)
    /\ \A i, j \in DOMAIN wire : i < j => wire[i][2] < wire[j][2]
    /\ put => \A i \in DOMAIN wire : wire[i][2] < content[OutBuf][2]
    /\ \A w \in Workers : ToSend(w) =>
          /\ \A i \in DOMAIN wire : wire[i][2] < job[w].item[2]
          /\ put => job[w].item[2] < content[OutBuf][2]

OrderInv == LentInv /\ OneInv /\ Sends

LEMMA WireNumbers ==
    ASSUME TypeInv
    PROVE  /\ \A i \in DOMAIN wire : wire[i][2] \in Nat
           /\ \A w \in Workers : job[w].item[2] \in Nat
           /\ \A b \in AllBufs : content[b][2] \in Nat
           /\ OutBuf \in AllBufs /\ Len(written) \in Nat
<1>1. wire \in Seq(Items) /\ written \in Seq(Items) /\ content \in [AllBufs -> Items]
  BY DEF TypeInv, TypeOK
<1>2. \A i \in DOMAIN wire : wire[i] \in Items
  BY <1>1, ElementOfSeq
<1>3. \A w \in Workers : job[w].item \in Items
  BY JobTyped DEF JobType
<1>. QED BY <1>1, <1>2, <1>3, ItemNumber, LenProperties DEF AllBufs

(* Nothing new is on its way. *)
LEMMA SendsSame ==
    ASSUME OrderInv,
           \A v \in Workers : ToSend(v)' => ToSend(v) /\ job'[v].item = job[v].item,
           UNCHANGED <<wire, written>>, put' => put /\ content'[OutBuf] = content[OutBuf]
    PROVE  Sends'
BY DEF OrderInv, Sends

(* A worker starts with a message later than those on the connection, and
   leaves the put area empty. *)
LEMMA SendsSpawn ==
    ASSUME OrderInv, NEW w \in Workers, NEW op \in Ops, NEW b \in AllBufs, NEW i \in Items,
           Spawn(w, op, b, i), wire' = wire, Len(written) <= Len(written'), Len(written') \in Nat,
           put' => put /\ content'[OutBuf] = content[OutBuf],
           op = "write" => ~put' /\ \A k \in DOMAIN wire : wire[k][2] < i[2]
    PROVE  Sends'
<1>1. /\ \A v \in Workers : v # w => job'[v] = job[v]
      /\ job'[w] = [pc |-> "spawned", op |-> op, buf |-> b, item |-> i,
                    asked |-> hFile, on |-> NoConn]
  BY Spawning DEF OrderInv, LentInv
<1>2. job'[w].op = op /\ job'[w].item = i
  BY <1>1
<1>3. \A k \in DOMAIN wire' : wire'[k][2] <= Len(written')
  <2>1. \A k \in DOMAIN wire : wire[k][2] \in Nat /\ wire[k][2] <= Len(written)
    BY WireNumbers DEF OrderInv, LentInv, Sends
  <2>2. Len(written) \in Nat
    BY WireNumbers DEF OrderInv, LentInv
  <2>. QED BY <2>1, <2>2
<1>4. ASSUME NEW v \in Workers, ToSend(v)'
      PROVE  /\ \A k \in DOMAIN wire' : wire'[k][2] < job'[v].item[2]
             /\ put' => job'[v].item[2] < content'[OutBuf][2]
  <2>1. CASE v = w
    BY <1>2, <1>4, <2>1 DEF ToSend
  <2>2. CASE v # w
    <3>1. ToSend(v) /\ job'[v] = job[v]
      BY <1>1, <1>4, <2>2 DEF ToSend
    <3>. QED BY <3>1 DEF OrderInv, Sends
  <2>. QED BY <2>1, <2>2
<1>. QED BY <1>3, <1>4 DEF OrderInv, Sends

LEMMA SendsPut ==
    ASSUME OrderInv, Put
    PROVE  Sends'
<1>1. /\ content' = [content EXCEPT ![OutBuf] = NextMessage] /\ ~put
      /\ written' = Append(written, NextMessage)
      /\ job' = job /\ wire' = wire
  BY DEF Put, Filled
<1>2. /\ Len(written) \in Nat /\ Len(written') = Len(written) + 1
      /\ NextMessage[2] = Len(written) + 1
  BY NextTyped DEF Put, OrderInv, LentInv, NextMessage, Message
<1>3. content'[OutBuf][2] = Len(written) + 1
  BY <1>1, <1>2 DEF OrderInv, LentInv, TypeInv, TypeOK, AllBufs
<1>4. \A i \in DOMAIN wire : wire[i][2] \in Nat /\ wire[i][2] <= Len(written)
  BY WireNumbers DEF OrderInv, LentInv, Sends
<1>5. \A i \in DOMAIN wire : wire[i][2] <= Len(written) + 1 /\ wire[i][2] < Len(written) + 1
  BY <1>2, <1>4
<1>6. ASSUME NEW w \in Workers, ToSend(w)
      PROVE  job[w].item[2] < Len(written) + 1
  <2>1. job[w].item[2] \in Nat /\ job[w].item[2] <= Len(written)
    BY <1>6, WireNumbers DEF OrderInv, LentInv, Bounded
  <2>. QED BY <1>2, <2>1
<1>7. \A w \in Workers : ToSend(w)' <=> ToSend(w)
  BY <1>1 DEF ToSend
<1>. QED BY <1>1, <1>2, <1>3, <1>5, <1>6, <1>7 DEF OrderInv, Sends

LEMMA SendsProgram ==
    ASSUME OrderInv, LentInv', Plain, ProgramStep
    PROVE  Sends'
<1>1. /\ \A b \in Bufs : b \in AllBufs /\ b # OutBuf
      /\ InBuf \in AllBufs /\ OutBuf \in AllBufs
      /\ "read" \in Ops /\ "write" \in Ops /\ Nothing \in Items /\ content[OutBuf] \in Items
      /\ Len(written) \in Nat /\ Len(written') \in Nat
  BY ItemFacts, BufAssumption, LenProperties
     DEF AllBufs, Ops, OrderInv, LentInv, TypeInv, TypeOK
<1>2. ASSUME NEW w \in Workers, NEW b \in AllBufs, ReaderSpawns(w, b)
      PROVE  Sends'
  <2>1. Spawn(w, "read", b, Nothing) /\ UNCHANGED <<content, put, written, wire>>
    BY <1>2 DEF ReaderSpawns
  <2>. QED BY <1>1, <2>1, SendsSpawn
<1>3. ASSUME NEW w \in Workers, NEW b \in Bufs, Write(w, b)
      PROVE  Sends'
  <2>1. /\ Spawn(w, "write", b, NextMessage) /\ ~put /\ put' = put /\ wire' = wire
        /\ written' = Append(written, NextMessage)
    BY <1>3 DEF Write, Plain, streamVars
  <2>2. /\ NextMessage \in Items /\ Len(written') = Len(written) + 1
        /\ NextMessage[2] = Len(written) + 1
    BY <1>3, NextTyped DEF Write, OrderInv, LentInv, NextMessage, Message
  <2>3. \A i \in DOMAIN wire : wire[i][2] \in Nat /\ wire[i][2] <= Len(written)
    BY WireNumbers DEF OrderInv, LentInv, Sends
  <2>4. \A i \in DOMAIN wire : wire[i][2] < NextMessage[2]
    BY <1>1, <2>2, <2>3
  <2>5. Len(written) <= Len(written')
    BY <1>1, <2>2
  <2>. QED BY <1>1, <2>1, <2>2, <2>4, <2>5, SendsSpawn
<1>4. ASSUME NEW w \in Workers, Flush(w)
      PROVE  Sends'
  <2>1. /\ put /\ ~put' /\ Spawn(w, "write", OutBuf, content[OutBuf])
        /\ UNCHANGED <<wire, written>>
    BY <1>4 DEF Flush, SyncWrites
  <2>2. \A i \in DOMAIN wire : wire[i][2] < content[OutBuf][2]
    BY <2>1 DEF OrderInv, Sends
  <2>. QED BY <1>1, <2>1, <2>2, SendsSpawn
<1>5. CASE \/ ReadPolls \/ Close \/ Destroy \/ Reopen
           \/ \E b \in Bufs \union {InBuf} : ReadReturns(b)
  <2>1. UNCHANGED <<job, wire, written>> /\ (put' => put)
    BY <1>5 DEF ReadPolls, Close, Destroy, Reopen, ReadReturns, streamVars
  <2>2. content' = content
    BY <1>5 DEF ReadPolls, Close, Destroy, Reopen, ReadReturns, MayUse, Plain
  <2>. QED BY <2>1, <2>2, SendsSame DEF ToSend
<1>6. \A w \in Workers : ~CloseFlushes(w)
  BY NothingToFlush DEF Plain, Waits
<1>. QED BY <1>1, <1>2, <1>3, <1>4, <1>5, <1>6, SendsPut
         DEF ProgramStep, ReadSpawns, StreamGet

(* ::send passes on the message that the worker was given, the latest there. *)
LEMMA SendsSend ==
    ASSUME OrderInv, Plain, NEW w \in Workers, Send(w)
    PROVE  Sends'
<1>1. /\ job[w].op = "write" /\ job[w].pc = "blocked" /\ ToSend(w) /\ w \in awaited
      /\ UNCHANGED <<content, put, written>>
      /\ \A v \in Workers : v # w => job'[v] = job[v]
      /\ TypeInv
  BY AtWorkOrAwaited, SameOps
     DEF Send, At, ToSend, streamVars, OrderInv, LentInv, WorkerStep
<1>2. ~ToSend(w)'
  <2>1. PICK p \in {"calling", "ending"} : job' = [job EXCEPT ![w].pc = p]
    BY DEF Send, Goes
  <2>2. job'[w].pc = p
    BY <1>1, <2>1, JobTyped DEF JobType
  <2>. QED BY <2>2 DEF ToSend
<1>3. \A v \in Workers : ~ToSend(v)'
  <2>1. ASSUME NEW v \in Workers, v # w, ToSend(v)
        PROVE  FALSE
    <3>1. v \in awaited /\ job[v].op = "write"
      BY <2>1, AtWorkOrAwaited DEF OrderInv, ToSend
    <3>. QED BY <1>1, <2>1, <3>1 DEF OrderInv, OneInv, Apart
  <2>. QED BY <1>1, <1>2, <2>1 DEF ToSend
<1>4. CASE wire' = wire
  BY <1>1, <1>3, <1>4, SendsSame
<1>5. CASE wire' = Append(wire, content[job[w].buf])
  <2>. DEFINE e == job[w].item
  <2>1. content[job[w].buf] = e
    BY <1>1 DEF OrderInv, LentInv, Kept, Plain
  <2>2. /\ e[2] \in Nat /\ Len(written) \in Nat /\ e[2] <= Len(written)
        /\ \A i \in DOMAIN wire : wire[i][2] \in Nat /\ wire[i][2] < e[2] /\ wire[i][2] <= Len(written)
        /\ put => e[2] < content[OutBuf][2]
    BY <1>1, WireNumbers DEF OrderInv, LentInv, Bounded, Sends
  <2>3. wire \in Seq(Items) /\ e \in Items
    BY <1>1, JobTyped DEF TypeInv, TypeOK, JobType
  <2>. HIDE DEF e
  <2>4. wire' = Append(wire, e)
    BY <1>5, <2>1
  <2>5. /\ Len(wire) \in Nat /\ DOMAIN wire = 1 .. Len(wire) /\ DOMAIN wire' = 1 .. Len(wire) + 1
        /\ \A i \in 1 .. Len(wire) : wire'[i] = wire[i]
        /\ wire'[Len(wire) + 1] = e
    BY <2>3, <2>4, AppendProperties, LenProperties
  <2>6. \A i \in DOMAIN wire' : i \in DOMAIN wire \/ i = Len(wire) + 1
    BY <2>5
  <2>7. \A i \in DOMAIN wire' : wire'[i][2] <= Len(written)
    BY <2>2, <2>5, <2>6
  <2>8. ASSUME NEW i \in DOMAIN wire', NEW j \in DOMAIN wire', i < j
        PROVE  wire'[i][2] < wire'[j][2]
    <3>1. i \in DOMAIN wire /\ wire'[i] = wire[i]
      BY <2>5, <2>8
    <3>2. CASE j = Len(wire) + 1
      BY <2>2, <2>5, <3>1, <3>2
    <3>3. CASE j \in DOMAIN wire
      <4>1. wire'[j] = wire[j]
        BY <2>5, <3>3
      <4>. QED BY <2>8, <3>1, <3>3, <4>1 DEF OrderInv, Sends
    <3>. QED BY <2>6, <3>2, <3>3
  <2>9. ASSUME put
        PROVE  \A i \in DOMAIN wire' : wire'[i][2] < content[OutBuf][2]
    <3>1. \A i \in DOMAIN wire : wire[i][2] < content[OutBuf][2]
      BY <2>9 DEF OrderInv, Sends
    <3>. QED BY <2>2, <2>5, <2>6, <2>9, <3>1
  <2>. QED BY <1>1, <1>3, <2>7, <2>8, <2>9 DEF Sends
<1>. QED BY <1>4, <1>5 DEF Send

LEMMA SendsWorker ==
    ASSUME OrderInv, Plain, NEW w \in Workers, WorkerStep(w), ~Send(w)
    PROVE  Sends'
<1>1. /\ \A v \in Workers : v # w => job'[v] = job[v]
      /\ UNCHANGED <<put, written>> /\ TypeInv
  BY SameOps DEF OrderInv, LentInv
<1>2. job \in [Workers -> JobType] /\ content \in [AllBufs -> Items] /\ OutBuf \in AllBufs
  BY <1>1, JobTyped DEF TypeInv, TypeOK, AllBufs
<1>3. wire' = wire
  BY DEF WorkerStep, Dispatch, Enter, Receive, Callback, Finish
<1>4. ToSend(w)' => ToSend(w) /\ job'[w].item = job[w].item
  <2>1. CASE Dispatch(w)
    <3>1. PICK p \in {"dispatched", "ending", job[w].pc} :
              job' = job \/ job' = [job EXCEPT ![w].pc = p]
      BY <2>1 DEF Dispatch, Trespasses, Goes
    <3>2. job[w].pc = "spawned"
      BY <2>1 DEF Dispatch, At
    <3>. QED BY <1>2, <3>1, <3>2 DEF ToSend, JobType
  <2>2. CASE Enter(w)
    <3>1. job[w].pc = "dispatched"
      BY <2>2 DEF Enter, At
    <3>2. CASE Trespasses(w)
      <4>1. job'[w].pc = "ending"
        BY <1>2, <3>2 DEF Trespasses, Goes, JobType
      <4>. QED BY <4>1 DEF ToSend
    <3>3. CASE ~Trespasses(w)
      <4>1. PICK p, x : job' = [job EXCEPT ![w].pc = p, ![w].on = x]
        BY <2>2, <3>3 DEF Enter
      <4>2. job'[w].op = job[w].op /\ job'[w].item = job[w].item
        BY <1>2, <4>1 DEF JobType
      <4>. QED BY <3>1, <4>2 DEF ToSend
    <3>. QED BY <3>2, <3>3
  <2>3. CASE Receive(w)
    <3>1. job[w].op = "read"
      BY <2>3 DEF Receive
    <3>2. \/ \E p : job' = [job EXCEPT ![w].pc = p]
          \/ \E p, x : job' = [job EXCEPT ![w].pc = p, ![w].item = x]
      BY <2>3 DEF Receive, Goes
    <3>3. job'[w].op = job[w].op
      BY <1>2, <3>2 DEF JobType
    <3>. QED BY <3>1, <3>3 DEF ToSend
  <2>4. CASE Callback(w) \/ Finish(w)
    <3>1. job'[w].pc \in {"ending", "idle"}
      BY <1>2, <2>4, IdleType DEF Callback, Finish, Goes, JobType
    <3>. QED BY <3>1 DEF ToSend
  <2>. QED BY <2>1, <2>2, <2>3, <2>4 DEF WorkerStep
<1>5. ASSUME put
      PROVE  content'[OutBuf] = content[OutBuf]
  <2>1. CASE Receive(w)
    <3>1. w \in awaited /\ job[w].op = "read"
      BY <2>1 DEF Receive, At, OrderInv, LentInv, Lent, Active
    <3>2. job[w].buf \in Bufs \union {InBuf}
      BY <3>1 DEF OrderInv, LentInv, Lent, BufsFor
    <3>3. job[w].buf # OutBuf
      BY <3>2, BufAssumption
    <3>. QED BY <1>2, <2>1, <3>3 DEF Receive
  <2>2. CASE Callback(w)
    BY <1>2, <1>5, <2>2 DEF Callback
  <2>3. CASE Dispatch(w) \/ Enter(w) \/ Finish(w)
    BY <2>3 DEF Dispatch, Enter, Finish
  <2>. QED BY <2>1, <2>2, <2>3 DEF WorkerStep
<1>6. \A v \in Workers : ToSend(v)' => ToSend(v) /\ job'[v].item = job[v].item
  BY <1>1, <1>4 DEF ToSend
<1>. QED BY <1>1, <1>3, <1>5, <1>6, SendsSame

LEMMA OrderStep ==
    ASSUME OrderInv, Plain, [Next]_vars
    PROVE  OrderInv'
<1>1. LentInv' /\ OneInv'
  <2>1. OwnBuffers /\ OneAtATime
    BY DEF Plain, OwnBuffers, OneAtATime
  <2>. QED BY <2>1, LentStep, OneStep DEF OrderInv
<1>. SUFFICES Sends'
  BY <1>1 DEF OrderInv
<1>2. ASSUME UNCHANGED <<job, content, put, wire, written>>
      PROVE  Sends'
  BY <1>2, SendsSame DEF ToSend
<1>3. CASE \E c \in Conns : PeerSends(c) \/ PeerFinishes(c)
  BY <1>2, <1>3 DEF PeerSends, PeerFinishes, streamVars
<1>4. CASE UNCHANGED vars
  BY <1>2, <1>4 DEF vars, streamVars
<1>5. ASSUME NEW w \in Workers, WorkerStep(w)
      PROVE  Sends'
  BY <1>5, SendsSend, SendsWorker
<1>. QED BY <1>1, <1>3, <1>4, <1>5, SendsProgram DEF Next

LEMMA OrderInit == Init => OrderInv
<1>. SUFFICES ASSUME Init PROVE OrderInv
  OBVIOUS
<1>1. \A w \in Workers : ~ToSend(w)
  BY IdleType DEF Init, ToSend
<1>. QED BY <1>1, LentInit, OneInit DEF Init, OrderInv, Sends

(* In a program whose calls have buffers of their own, a message that waits for
   its worker is the one that was passed, or, if the program rushes, a later
   text in the put area; if the program does not overlap calls, rush, or close
   early, the messages reach the connection in the order they were written. *)
THEOREM WrittenAsPassed == Spec => []WritesAsPassed
<1>. DEFINE Inv == (OwnBuffers => LentInv) /\ (Plain => OrderInv)
<1>1. Init => Inv
  BY LentInit, OrderInit
<1>2. Inv /\ [Next]_vars => Inv'
  BY LentStep, OrderStep, SameProgram DEF OwnBuffers, Plain
<1>3. Inv => WritesAsPassed
  <2>. SUFFICES ASSUME Inv, OwnBuffers PROVE WritesAsPassed
    BY DEF WritesAsPassed, OwnBuffers
  <2>1. \A w \in Workers : ToSend(w) =>
            LET now == content[job[w].buf] IN
            \/ now = job[w].item
            \/ "rushes" \in Habits /\ job[w].buf = OutBuf /\ now[2] > job[w].item[2]
    BY DEF LentInv, Kept
  <2>2. Plain => \A i, j \in DOMAIN wire : i < j => wire[i][2] < wire[j][2]
    BY DEF OrderInv, Sends
  <2>. QED BY <2>1, <2>2 DEF WritesAsPassed, Plain
<1>. HIDE DEF Inv
<1>. QED BY <1>1, <1>2, <1>3, PTL DEF Spec

------------------------------------------------------------------------------
(***************************************************************************)
(* The bytes of a connection: handed over, in a worker's hands, queued, when *)
(* the program has one read at a time, buffers for all that it awaits, and  *)
(* waits before it closes.                                                  *)
(***************************************************************************)
InTurn == Habits \intersect {"overlap", "sameBuffer", "closeBusy"} = {}

Numbered(c, n) == [k \in 1 .. n |-> Byte(c, k)]

(* InHand, of the jobs j. *)
Hands(j, c) == {w \in Workers : j[w].pc = "calling" /\ j[w].op = "read" /\ j[w].on = c}
HandOf(j, c) == IF Hands(j, c) = {} THEN <<>> ELSE <<j[CHOOSE w \in Hands(j, c) : TRUE].item>>

(* The three parts of the open connection's bytes. *)
Parts(c) == delivered[c] \o HandOf(job, c) \o queue[c]

(* A connection that was not opened yet has no bytes.  A closed one keeps the
   prefix that was handed over. *)
Flow ==
    /\ \A c \in Conns : c > latest => delivered[c] = <<>> /\ queue[c] = <<>> /\ sent[c] = 0
    /\ \A c \in Conns : IsPrefix(delivered[c], Numbered(c, sent[c]))
    /\ \A c \in Conns : c = hFile => Parts(c) = Numbered(c, sent[c])

KeptInv == OneInv /\ LentInv
FlowInv == KeptInv /\ Flow

LEMMA NumberedFacts ==
    ASSUME NEW c \in Conns, NEW n \in 0 .. MaxIn
    PROVE  /\ Numbered(c, n) \in Seq(Items) /\ Len(Numbered(c, n)) = n
           /\ n = 0 => Numbered(c, n) = <<>>
<1>1. \A k \in 1 .. n : Byte(c, k) \in Items
  BY ItemFacts, BoundAssumption
<1>. QED BY <1>1, BoundAssumption DEF Numbered

LEMMA NumberedGrows ==
    ASSUME NEW c \in Conns, NEW n \in 0 .. MaxIn, n < MaxIn
    PROVE  Numbered(c, n + 1) = Append(Numbered(c, n), Byte(c, n + 1))
<1>1. n \in Nat /\ n + 1 \in 0 .. MaxIn /\ n + 1 \in 1 .. MaxIn
  BY BoundAssumption
<1>2. /\ Numbered(c, n) \in Seq(Items) /\ Len(Numbered(c, n)) = n
      /\ Numbered(c, n + 1) \in Seq(Items) /\ Len(Numbered(c, n + 1)) = n + 1
      /\ Byte(c, n + 1) \in Items
  BY <1>1, NumberedFacts, ItemFacts
<1>. DEFINE e == Byte(c, n + 1)
            s == Numbered(c, n)
            t == Numbered(c, n + 1)
<1>3. /\ \A k \in 1 .. n : t[k] = s[k]
      /\ t[n + 1] = e
  BY <1>1 DEF Numbered
<1>4. s \in Seq(Items) /\ t \in Seq(Items) /\ Len(s) = n /\ Len(t) = n + 1 /\ e \in Items
  BY <1>2
<1>. HIDE DEF e, s, t
<1>5. /\ Append(s, e) \in Seq(Items) /\ Len(Append(s, e)) = n + 1
      /\ \A k \in 1 .. n : Append(s, e)[k] = s[k]
      /\ Append(s, e)[n + 1] = e
  BY <1>1, <1>4, AppendProperties
<1>6. \A k \in 1 .. n + 1 : t[k] = Append(s, e)[k]
  BY <1>1, <1>3, <1>5
<1>7. t = Append(s, e)
  BY <1>1, <1>4, <1>5, <1>6, SeqEqual
<1>. QED BY <1>7 DEF e, s, t

LEMMA HandEmpty ==
    ASSUME NEW j, NEW c, Hands(j, c) = {}
    PROVE  HandOf(j, c) = <<>>
BY DEF HandOf

LEMMA HandOne ==
    ASSUME NEW j, NEW c, NEW w, Hands(j, c) = {w}
    PROVE  HandOf(j, c) = <<j[w].item>>
<1>1. (CHOOSE v \in Hands(j, c) : TRUE) = w
  OBVIOUS
<1>. QED BY <1>1 DEF HandOf

LEMMA HandSame ==
    ASSUME NEW j, NEW k, NEW c,
           \A v \in Workers : v \in Hands(k, c) <=> v \in Hands(j, c),
           \A v \in Hands(j, c) : k[v].item = j[v].item
    PROVE  HandOf(k, c) = HandOf(j, c)
<1>1. Hands(k, c) = Hands(j, c)
  BY DEF Hands
<1>2. CASE Hands(j, c) = {}
  BY <1>1, <1>2 DEF HandOf
<1>3. CASE Hands(j, c) # {}
  <2>1. (CHOOSE v \in Hands(j, c) : TRUE) \in Hands(j, c)
    BY <1>3
  <2>. QED BY <1>1, <1>3, <2>1 DEF HandOf
<1>. QED BY <1>2, <1>3

LEMMA HandInSeq ==
    ASSUME NEW j \in [Workers -> JobType], NEW c
    PROVE  HandOf(j, c) \in Seq(Items)
<1>1. CASE Hands(j, c) = {}
  <2>1. HandOf(j, c) = <<>>
    BY <1>1, HandEmpty
  <2>. QED BY <2>1
<1>2. CASE Hands(j, c) # {}
  <2>1. (CHOOSE v \in Hands(j, c) : TRUE) \in Workers
    BY <1>2 DEF Hands
  <2>2. j[CHOOSE v \in Hands(j, c) : TRUE].item \in Items
    BY <2>1 DEF JobType
  <2>. QED BY <1>2, <2>2 DEF HandOf
<1>. QED BY <1>1, <1>2

(* A byte moves from one part to the next. *)
LEMMA ToHand ==
    ASSUME NEW s \in Seq(Items), NEW t \in Seq(Items), t # <<>>
    PROVE  s \o <<Head(t)>> \o Tail(t) = s \o <<>> \o t
<1>1. Head(t) \in Items /\ Tail(t) \in Seq(Items) /\ <<Head(t)>> \o Tail(t) = t
  BY FirstAndRest
<1>2. <<Head(t)>> \in Seq(Items)
  BY <1>1
<1>. DEFINE u == <<Head(t)>>
<1>3. u \in Seq(Items) /\ u \o Tail(t) = t
  BY <1>1, <1>2
<1>. HIDE DEF u
<1>4. (s \o u) \o Tail(t) = s \o (u \o Tail(t))
  BY <1>1, <1>3, ConcatAssociative, SMTT(60)
<1>5. s \o <<>> = s
  BY ConcatEmptySeq
<1>. QED BY <1>3, <1>4, <1>5 DEF u

LEMMA FromHand ==
    ASSUME NEW s \in Seq(Items), NEW t \in Seq(Items), NEW e \in Items
    PROVE  Append(s, e) \o <<>> \o t = s \o <<e>> \o t
<1>1. Append(s, e) = s \o <<e>> /\ Append(s, e) \in Seq(Items)
  BY AppendIsConcat, AppendProperties
<1>2. Append(s, e) \o <<>> = Append(s, e)
  BY <1>1, ConcatEmptySeq
<1>. QED BY <1>1, <1>2

LEMMA HandedOver ==
    ASSUME NEW s \in Seq(Items), NEW t \in Seq(Items), t # <<>>
    PROVE  Append(s, Head(t)) \o <<>> \o Tail(t) = s \o <<>> \o t
<1>1. Head(t) \in Items /\ Tail(t) \in Seq(Items)
  BY HeadTailProperties
<1>2. Append(s, Head(t)) \o <<>> \o Tail(t) = s \o <<Head(t)>> \o Tail(t)
  BY <1>1, FromHand
<1>. QED BY <1>2, ToHand

LEMMA AtTheEnd ==
    ASSUME NEW s \in Seq(Items), NEW h \in Seq(Items), NEW t \in Seq(Items), NEW e \in Items
    PROVE  s \o h \o Append(t, e) = Append(s \o h \o t, e)
<1>1. s \o h \in Seq(Items)
  BY ConcatInSeq
<1>. QED BY <1>1, ConcatAppend

(* What was handed over is a prefix of what was sent. *)
LEMMA PartsPrefix ==
    ASSUME NEW s \in Seq(Items), NEW h \in Seq(Items), NEW t \in Seq(Items)
    PROVE  IsPrefix(s, s \o h \o t)
<1>1. s \o h \o t = s \o (h \o t) /\ h \o t \in Seq(Items)
  BY ConcatAssociative, ConcatInSeq, SMTT(60)
<1>2. IsPrefix(s, s \o (h \o t))
  BY <1>1, PrefixOfConcat
<1>. QED BY <1>1, <1>2

(* It is enough that a step keeps the bytes of the open connection together,
   and leaves those of the others alone. *)
LEMMA FlowMove ==
    ASSUME Flow, TypeInv', UNCHANGED <<hFile, latest>>,
           \A c \in Conns : c # hFile => UNCHANGED <<delivered[c], queue[c], sent[c]>>,
           hFile \in Conns => hFile <= latest /\ Parts(hFile)' = Numbered(hFile, sent'[hFile])
    PROVE  Flow'
<1>1. ASSUME NEW c \in Conns, c = hFile
      PROVE  IsPrefix(delivered'[c], Numbered(c, sent'[c]))
  <2>1. delivered'[c] \in Seq(Items) /\ queue'[c] \in Seq(Items)
    BY DEF TypeInv, TypeOK
  <2>2. HandOf(job', c) \in Seq(Items)
    <3>1. job' \in [Workers -> JobType]
      BY DEF TypeInv, TypeOK, JobType, Pcs, Ops
    <3>. QED BY <3>1, HandInSeq
  <2>3. delivered'[c] \o HandOf(job', c) \o queue'[c] = Numbered(c, sent'[c])
    BY <1>1 DEF Parts
  <2>. QED BY <2>1, <2>2, <2>3, PartsPrefix
<1>2. \A c \in Conns : IsPrefix(delivered'[c], Numbered(c, sent'[c]))
  BY <1>1 DEF Flow
<1>3. \A c \in Conns : c > latest' => delivered'[c] = <<>> /\ queue'[c] = <<>> /\ sent'[c] = 0
  <2>1. ASSUME NEW c \in Conns, c > latest, c = hFile
        PROVE  FALSE
    <3>1. latest \in Nat /\ hFile <= latest /\ c \in Nat
      BY <2>1, ItemFacts DEF TypeInv, TypeOK
    <3>. QED BY <2>1, <3>1
  <2>. QED BY <2>1 DEF Flow
<1>4. \A c \in Conns : c = hFile' => Parts(c)' = Numbered(c, sent'[c])
  OBVIOUS
<1>. QED BY <1>2, <1>3, <1>4 DEF Flow

LEMMA OpenIsLatest ==
    ASSUME TypeInv, hFile \in Conns
    PROVE  hFile <= latest /\ pState = "Connected"
<1>1. pState = "Connected" /\ hFile = latest
  BY ItemFacts DEF TypeInv, OnConnections
<1>. QED BY <1>1, ItemFacts DEF TypeInv, TypeOK

(* The three parts are sequences of bytes. *)
LEMMA PartsTyped ==
    ASSUME TypeInv, NEW c \in Conns
    PROVE  delivered[c] \in Seq(Items) /\ HandOf(job, c) \in Seq(Items) /\ queue[c] \in Seq(Items)
<1>1. job \in [Workers -> JobType]
  BY JobTyped
<1>. QED BY <1>1, HandInSeq DEF TypeInv, TypeOK

LEMMA FlowSame ==
    ASSUME FlowInv, TypeInv', UNCHANGED <<hFile, latest, delivered, queue, sent>>,
           HandOf(job', hFile) = HandOf(job, hFile)
    PROVE  Flow'
<1>1. ASSUME hFile \in Conns
      PROVE  hFile <= latest /\ Parts(hFile)' = Numbered(hFile, sent'[hFile])
  <2>1. hFile <= latest
    BY <1>1, OpenIsLatest DEF FlowInv, KeptInv, OneInv, AwaitInv
  <2>2. Parts(hFile) = Numbered(hFile, sent[hFile])
    BY <1>1 DEF FlowInv, Flow
  <2>. QED BY <2>1, <2>2 DEF Parts
<1>. QED BY <1>1, FlowMove DEF FlowInv

(* A step of a worker that has no byte in its hands, and takes none. *)
LEMMA FlowQuiet ==
    ASSUME FlowInv, TypeInv', NEW w \in Workers,
           \A v \in Workers : v # w => job'[v] = job[v],
           ~Held(w), ~Held(w)',
           UNCHANGED <<hFile, latest, delivered, queue, sent>>
    PROVE  Flow'
<1>1. \A v \in Workers : v \in Hands(job', hFile) <=> v \in Hands(job, hFile)
  BY DEF Hands, Held
<1>2. \A v \in Hands(job, hFile) : job'[v].item = job[v].item
  BY DEF Hands, Held
<1>3. HandOf(job', hFile) = HandOf(job, hFile)
  BY <1>1, <1>2, HandSame
<1>. QED BY <1>3, FlowSame

(* While the program waits inside ::recv, or a worker does, no other worker
   has a byte in its hands. *)
LEMMA NoneHeld ==
    ASSUME OneInv,
           main = "receiving" \/ \E w \in awaited : job[w].op = "read" /\ job[w].pc # "calling"
    PROVE  Hands(job, hFile) = {}
<1>. SUFFICES ASSUME NEW v \in Workers, job[v].pc = "calling", job[v].op = "read"
              PROVE  FALSE
  BY DEF Hands
<1>1. v \in awaited
  BY DEF OneInv, AwaitInv, Attended, Active
<1>. QED BY <1>1 DEF OneInv, Apart, Polled

LEMMA FlowReturns ==
    ASSUME FlowInv, TypeInv', NEW b \in Bufs \union {InBuf}, ReadReturns(b)
    PROVE  Flow'
<1>1. TypeInv /\ main = "receiving" /\ UNCHANGED <<hFile, latest, job, sent>>
  BY DEF FlowInv, KeptInv, OneInv, AwaitInv, ReadReturns, socketVars, peerVars
<1>2. hFile \in Conns /\ hFile <= latest
  <2>1. hFile \in Conns
    BY <1>1 DEF TypeInv, TypeOK, OnConnections
  <2>. QED BY <1>1, <2>1, OpenIsLatest
<1>3. CASE UNCHANGED <<queue, delivered>>
  BY <1>1, <1>3, FlowSame
<1>4. CASE /\ queue[hFile] # <<>>
           /\ queue' = [queue EXCEPT ![hFile] = Tail(@)]
           /\ delivered' = [delivered EXCEPT ![hFile] = Append(@, Head(queue[hFile]))]
  <2>1. Hands(job, hFile) = {}
    BY <1>1, NoneHeld DEF FlowInv, KeptInv, OneInv
  <2>2. HandOf(job, hFile) = <<>> /\ HandOf(job', hFile') = <<>>
    BY <1>1, <2>1, HandEmpty
  <2>3. queue \in [Conns -> Seq(Items)] /\ delivered \in [Conns -> Seq(Items)]
    BY <1>1 DEF TypeInv, TypeOK
  <2>4. /\ queue'[hFile] = Tail(queue[hFile])
        /\ delivered'[hFile] = Append(delivered[hFile], Head(queue[hFile]))
        /\ \A c \in Conns : c # hFile => UNCHANGED <<delivered[c], queue[c]>>
    BY <1>2, <1>4, <2>3
  <2>5. delivered[hFile] \o <<>> \o queue[hFile] = Numbered(hFile, sent[hFile])
    BY <1>2, <2>2 DEF FlowInv, Flow, Parts
  <2>6. delivered[hFile] \in Seq(Items) /\ queue[hFile] \in Seq(Items) /\ queue[hFile] # <<>>
    BY <1>2, <1>4, <2>3
  <2>7. Append(delivered[hFile], Head(queue[hFile])) \o <<>> \o Tail(queue[hFile])
          = delivered[hFile] \o <<>> \o queue[hFile]
    BY <2>6, HandedOver
  <2>8. Parts(hFile)' = Numbered(hFile, sent'[hFile])
    BY <1>1, <2>2, <2>4, <2>5, <2>7 DEF Parts
  <2>. QED BY <1>1, <1>2, <2>4, <2>8, FlowMove DEF FlowInv
<1>. QED BY <1>3, <1>4 DEF ReadReturns

LEMMA FlowReceive ==
    ASSUME FlowInv, TypeInv', NEW w \in Workers, Receive(w)
    PROVE  Flow'
<1>1. /\ job[w].pc = "blocked" /\ At(w, "blocked") /\ job[w].op = "read" /\ job[w].on = hFile
      /\ Takes(w) \/ (Goes(w, "ending") /\ UNCHANGED <<content, queue>>)
      /\ UNCHANGED <<hFile, latest, delivered, sent>>
  BY DEF Receive, Takes, At, FlowInv, KeptInv, OneInv, AwaitInv, Attended, socketVars, peerVars
<1>2. CASE Takes(w)
  <2>1. /\ hFile \in Conns /\ queue[hFile] \in Seq(Items) /\ Head(queue[hFile]) \in Items
        /\ OnlyMoves(job, job', w, "calling") /\ job'[w].item = Head(queue[hFile])
        /\ job'[w].on = hFile
    BY <1>1, <1>2, TakesTypes DEF FlowInv, KeptInv, OneInv, AwaitInv
  <2>2. w \in awaited
    BY <1>1 DEF FlowInv, KeptInv, OneInv, AwaitInv, Attended, Active
  <2>3. Hands(job, hFile) = {}
    BY <1>1, <2>2, NoneHeld DEF FlowInv, KeptInv, OneInv
  <2>4. Hands(job', hFile) = {w}
    BY <1>1, <2>1, <2>3 DEF OnlyMoves, Hands
  <2>5. HandOf(job, hFile) = <<>> /\ HandOf(job', hFile) = <<Head(queue[hFile])>>
    <3>1. HandOf(job', hFile) = <<job'[w].item>>
      BY <2>4, HandOne
    <3>. QED BY <2>1, <2>3, <3>1, HandEmpty
  <2>6. queue[hFile] # <<>> /\ queue' = [queue EXCEPT ![hFile] = Tail(@)]
    BY <1>1, <1>2 DEF Takes, Waiting
  <2>7. queue \in [Conns -> Seq(Items)] /\ delivered[hFile] \in Seq(Items)
    BY <2>1 DEF FlowInv, KeptInv, OneInv, AwaitInv, TypeInv, TypeOK
  <2>8. queue'[hFile] = Tail(queue[hFile]) /\ \A c \in Conns : c # hFile => queue'[c] = queue[c]
    BY <2>1, <2>6, <2>7
  <2>9. delivered[hFile] \o <<Head(queue[hFile])>> \o Tail(queue[hFile])
          = delivered[hFile] \o <<>> \o queue[hFile]
    BY <2>1, <2>6, <2>7, ToHand
  <2>10. delivered[hFile] \o <<>> \o queue[hFile] = Numbered(hFile, sent[hFile])
    BY <2>1, <2>5 DEF FlowInv, Flow, Parts
  <2>11. Parts(hFile)' = Numbered(hFile, sent'[hFile])
    BY <1>1, <2>5, <2>8, <2>9, <2>10 DEF Parts
  <2>12. hFile <= latest
    BY <2>1, OpenIsLatest DEF FlowInv, KeptInv, OneInv, AwaitInv
  <2>. QED BY <1>1, <2>8, <2>11, <2>12, FlowMove DEF FlowInv
<1>3. CASE Goes(w, "ending") /\ UNCHANGED <<content, queue>>
  <2>1. OnlyMoves(job, [job EXCEPT ![w].pc = "ending"], w, "ending")
    BY JobTyped, Moving DEF Pcs, FlowInv, KeptInv, OneInv, AwaitInv
  <2>2. OnlyMoves(job, job', w, "ending")
    BY <1>3, <2>1 DEF Goes
  <2>3. ~Held(w) /\ ~Held(w)' /\ \A v \in Workers : v # w => job'[v] = job[v]
    BY <1>1, <2>2 DEF OnlyMoves, Held
  <2>. QED BY <1>1, <1>3, <2>3, FlowQuiet
<1>. QED BY <1>1, <1>2, <1>3

LEMMA FlowCallback ==
    ASSUME FlowInv, TypeInv', NEW w \in Workers, Callback(w)
    PROVE  Flow'
<1>1. /\ job[w].pc = "calling" /\ Goes(w, "ending")
      /\ UNCHANGED <<hFile, latest, queue, sent>>
  BY DEF Callback, At, socketVars, peerVars
<1>2. OnlyMoves(job, [job EXCEPT ![w].pc = "ending"], w, "ending")
  BY JobTyped, Moving DEF Pcs, FlowInv, KeptInv, OneInv, AwaitInv
<1>3. OnlyMoves(job, job', w, "ending")
  BY <1>1, <1>2 DEF Goes
<1>4. CASE job[w].op # "read"
  <2>1. ~Held(w) /\ ~Held(w)' /\ \A v \in Workers : v # w => job'[v] = job[v]
    BY <1>3, <1>4 DEF OnlyMoves, Held
  <2>2. delivered' = delivered
    BY <1>4 DEF Callback
  <2>. QED BY <1>1, <2>1, <2>2, FlowQuiet
<1>5. CASE job[w].op = "read"
  <2>1. w \in awaited /\ job[w].on = hFile /\ job[w].asked = hFile
    BY <1>1 DEF FlowInv, KeptInv, OneInv, AwaitInv, Attended, Active
  <2>2. hFile \in Conns /\ hFile <= latest /\ job[w].item \in Items
    <3>1. hFile \in Conns
      BY <1>1, <2>1 DEF FlowInv, KeptInv, OneInv, AwaitInv, TypeInv, TypeOK, OnConnections
    <3>2. job[w] \in JobType
      BY JobTyped DEF FlowInv, KeptInv, OneInv, AwaitInv
    <3>. QED BY <3>1, <3>2, OpenIsLatest DEF JobType, FlowInv, KeptInv, OneInv, AwaitInv
  <2>3. Hands(job, hFile) = {w}
    <3>1. ASSUME NEW v \in Workers, job[v].pc = "calling", job[v].op = "read", v # w
          PROVE  FALSE
      <4>1. v \in awaited
        BY <3>1 DEF FlowInv, KeptInv, OneInv, AwaitInv, Attended, Active
      <4>. QED BY <1>5, <2>1, <3>1, <4>1 DEF FlowInv, KeptInv, OneInv, Apart
    <3>. QED BY <1>1, <1>5, <2>1, <3>1 DEF Hands
  <2>4. Hands(job', hFile) = {}
    BY <1>3, <2>3 DEF OnlyMoves, Hands
  <2>5. HandOf(job, hFile) = <<job[w].item>> /\ HandOf(job', hFile) = <<>>
    BY <2>3, <2>4, HandEmpty, HandOne
  <2>6. content[job[w].buf] = job[w].item
    BY <1>1, <1>5 DEF FlowInv, KeptInv, LentInv, Kept, Held
  <2>7. delivered' = [delivered EXCEPT ![hFile] = Append(@, job[w].item)]
    BY <1>5, <2>1, <2>6 DEF Callback
  <2>8. delivered \in [Conns -> Seq(Items)] /\ queue[hFile] \in Seq(Items)
    BY <2>2 DEF FlowInv, KeptInv, OneInv, AwaitInv, TypeInv, TypeOK
  <2>9. /\ delivered'[hFile] = Append(delivered[hFile], job[w].item)
        /\ \A c \in Conns : c # hFile => delivered'[c] = delivered[c]
        /\ delivered[hFile] \in Seq(Items)
    BY <2>2, <2>7, <2>8
  <2>10. Append(delivered[hFile], job[w].item) \o <<>> \o queue[hFile]
           = delivered[hFile] \o <<job[w].item>> \o queue[hFile]
    BY <2>2, <2>8, <2>9, FromHand
  <2>11. delivered[hFile] \o <<job[w].item>> \o queue[hFile] = Numbered(hFile, sent[hFile])
    BY <2>2, <2>5 DEF FlowInv, Flow, Parts
  <2>12. Parts(hFile)' = Numbered(hFile, sent'[hFile])
    BY <1>1, <2>5, <2>9, <2>10, <2>11 DEF Parts
  <2>. QED BY <1>1, <2>2, <2>9, <2>12, FlowMove DEF FlowInv
<1>. QED BY <1>4, <1>5

LEMMA FlowPeer ==
    ASSUME FlowInv, TypeInv', NEW c \in Conns, PeerSends(c)
    PROVE  Flow'
<1>. DEFINE n == sent[c]
            e == Byte(c, n + 1)
<1>1. /\ n < MaxIn /\ sent' = [sent EXCEPT ![c] = n + 1]
      /\ queue' = [queue EXCEPT ![c] = Append(@, e)]
      /\ UNCHANGED <<hFile, latest, job, delivered>>
  BY DEF PeerSends, socketVars
<1>2. c = hFile
  BY DEF PeerSends, Seen, FlowInv, KeptInv, OneInv, AwaitInv, Attended
<1>3. TypeInv /\ n \in 0 .. MaxIn /\ queue \in [Conns -> Seq(Items)] /\ sent \in [Conns -> 0 .. MaxIn]
  BY DEF FlowInv, KeptInv, OneInv, AwaitInv, TypeInv, TypeOK
<1>4. n + 1 \in 1 .. MaxIn
  BY <1>1, <1>3, BoundAssumption
<1>5. e \in Items
  BY <1>4, ItemFacts
<1>6. Numbered(c, n + 1) = Append(Numbered(c, n), e)
  BY <1>1, <1>3, NumberedGrows
<1>7. Parts(c) = Numbered(c, n)
  BY <1>2 DEF FlowInv, Flow
<1>8. /\ sent'[c] = n + 1 /\ queue'[c] = Append(queue[c], e)
      /\ \A d \in Conns : d # c => UNCHANGED <<queue[d], sent[d]>>
  BY <1>1, <1>3
<1>9. delivered[c] \in Seq(Items) /\ HandOf(job, c) \in Seq(Items) /\ queue[c] \in Seq(Items)
  BY <1>3, PartsTyped
<1>. HIDE DEF n, e
<1>10. delivered[c] \o HandOf(job, c) \o Append(queue[c], e)
         = Append(delivered[c] \o HandOf(job, c) \o queue[c], e)
  BY <1>5, <1>9, AtTheEnd
<1>11. Parts(c)' = Numbered(c, sent'[c])
  BY <1>1, <1>6, <1>7, <1>8, <1>10 DEF Parts
<1>12. hFile <= latest
  BY <1>2, <1>3, OpenIsLatest
<1>. QED BY <1>1, <1>2, <1>8, <1>11, <1>12, FlowMove DEF FlowInv

LEMMA FlowWorker ==
    ASSUME FlowInv, TypeInv', NEW w \in Workers, WorkerStep(w)
    PROVE  Flow'
<1>1. CASE Dispatch(w)
  <2>1. job[w].pc = "spawned" /\ Goes(w, "dispatched")
    BY <1>1, DispatchMoves DEF FlowInv, KeptInv, OneInv
  <2>2. OnlyMoves(job, [job EXCEPT ![w].pc = "dispatched"], w, "dispatched")
    BY JobTyped, Moving DEF Pcs, FlowInv, KeptInv, OneInv, AwaitInv
  <2>3. OnlyMoves(job, job', w, "dispatched")
    BY <2>1, <2>2 DEF Goes
  <2>4. UNCHANGED <<hFile, latest, delivered, queue, sent>>
    BY <1>1 DEF Dispatch, socketVars, peerVars
  <2>. QED BY <2>1, <2>3, <2>4, FlowQuiet DEF OnlyMoves, Held
<1>2. CASE Enter(w)
  <2>1. job[w].pc = "dispatched" /\ OnlyMoves(job, job', w, "blocked")
    BY <1>2, EnterMoves DEF FlowInv, KeptInv, OneInv
  <2>2. UNCHANGED <<hFile, latest, delivered, queue, sent>>
    BY <1>2 DEF Enter, socketVars, peerVars
  <2>. QED BY <2>1, <2>2, FlowQuiet DEF OnlyMoves, Held
<1>3. CASE Send(w)
  <2>1. PICK p \in {"calling", "ending"} : Goes(w, p)
    BY <1>3 DEF Send
  <2>2. job \in [Workers -> JobType] /\ p \in Pcs
    BY JobTyped DEF Pcs, FlowInv, KeptInv, OneInv, AwaitInv
  <2>3. OnlyMoves(job, [job EXCEPT ![w].pc = p], w, p)
    BY <2>2, Moving
  <2>4. OnlyMoves(job, job', w, p)
    BY <2>1, <2>3 DEF Goes
  <2>5. job[w].op = "write" /\ UNCHANGED <<hFile, latest, delivered, queue, sent>>
    BY <1>3 DEF Send, socketVars, peerVars
  <2>. QED BY <2>4, <2>5, FlowQuiet DEF OnlyMoves, Held
<1>4. CASE Finish(w)
  <2>1. /\ job[w].pc = "ending" /\ job \in [Workers -> JobType]
        /\ UNCHANGED <<hFile, latest, delivered, queue, sent>>
    BY <1>4, JobTyped DEF Finish, At, socketVars, peerVars, FlowInv, KeptInv, OneInv, AwaitInv
  <2>2. CASE job' = [job EXCEPT ![w].pc = "idle"]
    <3>1. OnlyMoves(job, job', w, "idle")
      BY <2>1, <2>2, Moving DEF Pcs
    <3>. QED BY <2>1, <3>1, FlowQuiet DEF OnlyMoves, Held
  <2>3. CASE job' = [job EXCEPT ![w] = Idle]
    <3>1. /\ \A v \in Workers : v # w => job'[v] = job[v]
          /\ job'[w].pc = "idle"
      BY <2>1, <2>3, IdleType
    <3>. QED BY <2>1, <3>1, FlowQuiet DEF Held
  <2>. QED BY <1>4, <2>2, <2>3 DEF Finish
<1>. QED BY <1>1, <1>2, <1>3, <1>4, FlowReceive, FlowCallback DEF WorkerStep

LEMMA FlowProgram ==
    ASSUME FlowInv, TypeInv', ProgramStep
    PROVE  Flow'
<1>1. /\ \A b \in Bufs : b \in AllBufs
      /\ InBuf \in AllBufs /\ OutBuf \in AllBufs
      /\ "read" \in Ops /\ "write" \in Ops /\ Nothing \in Items
  BY ItemFacts DEF AllBufs, Ops
<1>2. ASSUME NEW w \in Workers, NEW op \in Ops, NEW b \in AllBufs, NEW i \in Items,
             Spawn(w, op, b, i), UNCHANGED <<socketVars, delivered, queue, peerVars>>
      PROVE  Flow'
  <2>1. job[w].pc = "idle"
    BY <1>2 DEF Spawn, Busy
  <2>2. /\ \A v \in Workers : v # w => job'[v] = job[v]
        /\ job'[w].pc = "spawned"
    <3>1. TypeInv
      BY DEF FlowInv, KeptInv, OneInv, AwaitInv
    <3>2. /\ \A v \in Workers : v # w => job'[v] = job[v]
          /\ job'[w] = [pc |-> "spawned", op |-> op, buf |-> b, item |-> i,
                        asked |-> hFile, on |-> NoConn]
      BY <1>2, <3>1, Spawning
    <3>. QED BY <3>2
  <2>3. UNCHANGED <<hFile, latest, delivered, queue, sent>>
    BY <1>2 DEF socketVars, peerVars
  <2>. QED BY <2>1, <2>2, <2>3, FlowQuiet DEF Held
<1>3. ASSUME NEW w \in Workers, NEW b \in AllBufs, ReaderSpawns(w, b)
      PROVE  Flow'
  <2>1. Spawn(w, "read", b, Nothing) /\ UNCHANGED <<socketVars, delivered, queue, peerVars>>
    BY <1>3 DEF ReaderSpawns
  <2>. QED BY <1>1, <1>2, <2>1
<1>4. ASSUME NEW w \in Workers, NEW b \in AllBufs, Write(w, b)
      PROVE  Flow'
  <2>1. /\ Spawn(w, "write", b, NextMessage)
        /\ UNCHANGED <<socketVars, delivered, queue, peerVars>>
    BY <1>4 DEF Write
  <2>2. NextMessage \in Items
    BY <1>4, NextTyped DEF Write, FlowInv, KeptInv, OneInv, AwaitInv
  <2>. QED BY <1>1, <1>2, <2>1, <2>2
<1>5. CASE ReadPolls
  <2>1. UNCHANGED <<hFile, latest, delivered, queue, sent, job>>
    BY <1>5 DEF ReadPolls, socketVars, peerVars
  <2>. QED BY <2>1, FlowSame
<1>6. CASE \E b \in Bufs \union {InBuf} : ReadReturns(b)
  BY <1>6, FlowReturns
<1>7. CASE Close \/ Destroy
  <2>1. hFile' = NoConn /\ UNCHANGED <<latest, delivered, queue, sent>>
    BY <1>7 DEF Close, Destroy, peerVars, FlowInv, KeptInv, OneInv, AwaitInv, TypeInv, TypeOK,
                OnConnections
  <2>2. \A c \in Conns : c # hFile'
    BY <2>1, ItemFacts
  <2>. QED BY <2>1, <2>2 DEF FlowInv, Flow
<1>8. CASE Reopen
  <2>1. /\ latest' = latest + 1 /\ hFile' = latest + 1 /\ awaited = {}
        /\ UNCHANGED <<delivered, queue, sent, job>>
    BY <1>8 DEF Reopen, peerVars, FlowInv, KeptInv, OneInv, AwaitInv, Attended
  <2>2. latest \in Nat /\ latest + 1 \in Conns
    BY <1>8, BoundAssumption, ItemFacts DEF Reopen, FlowInv, KeptInv, OneInv, AwaitInv, TypeInv, TypeOK, Conns
  <2>3. \A c \in Conns : c > latest' => delivered'[c] = <<>> /\ queue'[c] = <<>> /\ sent'[c] = 0
    <3>1. \A c \in Conns : c > latest' => c > latest
      BY <2>1, <2>2, ItemFacts
    <3>. QED BY <2>1, <3>1 DEF FlowInv, Flow
  <2>4. \A c \in Conns : IsPrefix(delivered'[c], Numbered(c, sent'[c]))
    BY <2>1 DEF FlowInv, Flow
  <2>5. ASSUME NEW d \in Conns, d = latest + 1
        PROVE  delivered'[d] \o HandOf(job', d) \o queue'[d] = Numbered(d, sent'[d])
    <3>1. d > latest
      BY <2>2, <2>5
    <3>2. delivered[d] = <<>> /\ queue[d] = <<>> /\ sent[d] = 0
      BY <3>1 DEF FlowInv, Flow
    <3>3. Hands(job, d) = {}
      BY <2>1 DEF FlowInv, KeptInv, OneInv, AwaitInv, Attended, Active, Hands
    <3>4. HandOf(job, d) = <<>>
      BY <3>3, HandEmpty
    <3>5. Numbered(d, 0) = <<>>
      BY <3>1, NumberedFacts, BoundAssumption
    <3>6. <<>> \o <<>> \o <<>> = <<>>
      OBVIOUS
    <3>. QED BY <2>1, <3>2, <3>4, <3>5, <3>6
  <2>6. \A c \in Conns : c = hFile' => Parts(c)' = Numbered(c, sent'[c])
    BY <2>1, <2>5 DEF Parts
  <2>. QED BY <2>3, <2>4, <2>6 DEF Flow
<1>9. ASSUME NEW w \in Workers, NEW b \in Bufs, ReadSpawns(w, b) \/ Write(w, b)
      PROVE  Flow'
  BY <1>1, <1>3, <1>4, <1>9 DEF ReadSpawns
<1>10. ASSUME NEW w \in Workers, StreamGet(w) \/ Flush(w) \/ CloseFlushes(w)
      PROVE  Flow'
  <2>1. CASE StreamGet(w)
    BY <1>1, <1>3, <2>1 DEF StreamGet
  <2>2. CASE SyncWrites(w)
    <3>1. /\ Spawn(w, "write", OutBuf, content[OutBuf])
          /\ UNCHANGED <<socketVars, delivered, queue, peerVars>>
      BY <2>2 DEF SyncWrites
    <3>2. content[OutBuf] \in Items
      BY <1>1 DEF FlowInv, KeptInv, OneInv, AwaitInv, TypeInv, TypeOK
    <3>. QED BY <1>1, <1>2, <3>1, <3>2
  <2>. QED BY <1>10, <2>1, <2>2 DEF Flush, CloseFlushes
<1>11. CASE Put
  <2>1. UNCHANGED <<hFile, latest, delivered, queue, sent, job>>
    BY <1>11 DEF Put, socketVars, peerVars
  <2>. QED BY <2>1, FlowSame
<1>. QED BY <1>5, <1>6, <1>7, <1>8, <1>9, <1>10, <1>11 DEF ProgramStep

LEMMA FlowInit == Init => FlowInv
<1>. SUFFICES ASSUME Init PROVE FlowInv
  OBVIOUS
<1>1. \A c \in Conns : delivered[c] = <<>> /\ queue[c] = <<>> /\ sent[c] = 0
  BY DEF Init
<1>2. \A c \in Conns : Numbered(c, 0) = <<>>
  BY NumberedFacts, BoundAssumption
<1>3. \A c \in Conns : HandOf(job, c) = <<>>
  <2>1. \A c \in Conns : Hands(job, c) = {}
    BY IdleType DEF Init, Hands
  <2>. QED BY <2>1, HandEmpty
<1>4. <<>> \o <<>> \o <<>> = <<>> /\ <<>> \in Seq(Items)
  OBVIOUS
<1>5. IsPrefix(<<>>, <<>>)
  BY <1>4, PartsPrefix
<1>6. Flow
  BY <1>1, <1>2, <1>3, <1>4, <1>5 DEF Flow, Parts
<1>. QED BY <1>6, OneInit, LentInit DEF FlowInv, KeptInv

LEMMA FlowStep ==
    ASSUME FlowInv, InTurn, [Next]_vars
    PROVE  FlowInv'
<1>1. KeptInv' /\ TypeInv'
  <2>1. OwnBuffers /\ OneAtATime
    BY DEF InTurn, OwnBuffers, OneAtATime
  <2>. QED BY <2>1, LentStep, OneStep DEF FlowInv, KeptInv, LentInv
<1>2. Flow'
  <2>1. CASE ProgramStep
    BY <1>1, <2>1, FlowProgram
  <2>2. CASE \E w \in Workers : WorkerStep(w)
    BY <1>1, <2>2, FlowWorker
  <2>3. ASSUME NEW c \in Conns, PeerSends(c) \/ PeerFinishes(c)
        PROVE  Flow'
    <3>1. CASE PeerSends(c)
      BY <1>1, <3>1, FlowPeer
    <3>2. CASE PeerFinishes(c)
      <4>1. UNCHANGED <<hFile, latest, delivered, queue, sent, job>>
        BY <3>2 DEF PeerFinishes, socketVars
      <4>. QED BY <1>1, <4>1, FlowSame
    <3>. QED BY <2>3, <3>1, <3>2
  <2>4. CASE UNCHANGED vars
    <3>1. UNCHANGED <<hFile, latest, delivered, queue, sent, job>>
      BY <2>4 DEF vars, socketVars, peerVars
    <3>. QED BY <1>1, <3>1, FlowSame
  <2>. QED BY <2>1, <2>2, <2>3, <2>4 DEF Next
<1>. QED BY <1>1, <1>2 DEF FlowInv

(* Through its own reads, its workers and their callbacks the program is given
   the bytes of the open connection in the order in which they were sent, none
   lost and none overwritten on the way; a closed connection's are a prefix. *)
THEOREM BytesInOrder == Spec => []InOrder
<1>. DEFINE Inv == InTurn => FlowInv
<1>1. Inv => InOrder
  <2>. SUFFICES ASSUME Inv, InTurn, NEW c \in Conns
                PROVE  /\ IsPrefix(delivered[c], Numbered(c, sent[c]))
                       /\ c = hFile => delivered[c] \o InHand(c) \o queue[c] = Numbered(c, sent[c])
    BY DEF InOrder, Numbered, InTurn
  <2>1. InHand(c) = HandOf(job, c)
    BY DEF InHand, HandOf, Hands
  <2>. QED BY <2>1 DEF FlowInv, Flow, Parts
<1>2. Init => Inv
  BY FlowInit
<1>3. Inv /\ [Next]_vars => Inv'
  BY FlowStep, SameProgram DEF InTurn
<1>. HIDE DEF Inv
<1>. QED BY <1>1, <1>2, <1>3, PTL DEF Spec

------------------------------------------------------------------------------
(***************************************************************************)
(* Where the bytes are, in programs whose calls have buffers of their own,  *)
(* whatever overlaps and whenever they close.                               *)
(***************************************************************************)
(* The places a byte can be in, and the bytes that are in each. *)
Kernel(c) == <<"queue", c>>
Given(c) == <<"given", c>>
HandIn(w) == <<"hand", w>>
Places == {Kernel(c) : c \in Conns} \union {Given(c) : c \in Conns} \union {HandIn(w) : w \in Workers}
Hand(j, w) == IF j[w].op = "read" /\ j[w].pc = "calling" THEN {j[w].item} ELSE {}
Found(q, d, j) ==
    [p \in Places |-> IF p[1] = "queue" THEN ToSet(q[p[2]])
                      ELSE IF p[1] = "given" THEN ToSet(d[p[2]]) ELSE Hand(j, p[2])]

Disjoint(f) == \A p, r \in Places : p # r => f[p] \intersect f[r] = {}
Total(f) == UNION {f[p] : p \in Places}

(* Each byte sent is in one place, and there once. *)
OneEach ==
    /\ \A c \in Conns : IsInjective(queue[c]) /\ IsInjective(delivered[c])
    /\ Disjoint(Found(queue, delivered, job))
    /\ Total(Found(queue, delivered, job)) = SentBytes

PlaceInv == LentInv /\ OneEach

LEMMA PlaceFacts ==
    /\ \A c \in Conns : Kernel(c) \in Places /\ Given(c) \in Places
    /\ \A w \in Workers : HandIn(w) \in Places
    /\ \A c, d : Kernel(c) # Given(d) /\ Kernel(c) # HandIn(d) /\ Given(c) # HandIn(d)
    /\ \A c, d : c # d => Kernel(c) # Kernel(d) /\ Given(c) # Given(d) /\ HandIn(c) # HandIn(d)
    /\ \A p \in Places : \/ \E c \in Conns : p = Kernel(c) \/ p = Given(c)
                         \/ \E w \in Workers : p = HandIn(w)
BY DEF Places, Kernel, Given, HandIn

LEMMA FoundFacts ==
    ASSUME NEW q, NEW d, NEW j
    PROVE  /\ \A c \in Conns : /\ Found(q, d, j)[Kernel(c)] = ToSet(q[c])
                               /\ Found(q, d, j)[Given(c)] = ToSet(d[c])
           /\ \A w \in Workers : Found(q, d, j)[HandIn(w)] = Hand(j, w)
<1>1. /\ \A c \in Conns : Kernel(c) \in Places /\ Given(c) \in Places
      /\ \A w \in Workers : HandIn(w) \in Places
  BY PlaceFacts
<1>2. \A c : Kernel(c)[1] = "queue" /\ Kernel(c)[2] = c
  BY DEF Kernel
<1>3. \A c : Given(c)[1] = "given" /\ Given(c)[2] = c
  BY DEF Given
<1>4. \A w : HandIn(w)[1] = "hand" /\ HandIn(w)[2] = w
  BY DEF HandIn
<1>. QED BY <1>1, <1>2, <1>3, <1>4 DEF Found

(* One byte moves from place p to place r, or comes from nowhere to r. *)
LEMMA ByteMoves ==
    ASSUME NEW f, NEW g, NEW p \in Places, NEW r \in Places, p # r, NEW e,
           Disjoint(f), f[p] = g[p] \union {e}, e \notin g[p], g[r] = f[r] \union {e},
           \A x \in Places \ {p, r} : g[x] = f[x]
    PROVE  Disjoint(g) /\ Total(g) = Total(f)
<1>1. Disjoint(g)
  BY DEF Disjoint
<1>2. \A x \in Places : \A y \in g[x] : \E z \in Places : y \in f[z]
  OBVIOUS
<1>3. \A x \in Places : \A y \in f[x] : \E z \in Places : y \in g[z]
  OBVIOUS
<1>4. Total(g) = Total(f)
  BY <1>2, <1>3 DEF Total
<1>. QED BY <1>1, <1>4

LEMMA ByteComes ==
    ASSUME NEW f, NEW g, NEW r \in Places, NEW e, Disjoint(f), e \notin Total(f),
           g[r] = f[r] \union {e}, \A x \in Places \ {r} : g[x] = f[x]
    PROVE  Disjoint(g) /\ Total(g) = Total(f) \union {e}
<1>1. \A x \in Places : e \notin f[x]
  BY DEF Total
<1>2. Disjoint(g)
  BY <1>1 DEF Disjoint
<1>3. \A x \in Places : \A y \in g[x] : y = e \/ \E z \in Places : y \in f[z]
  OBVIOUS
<1>4. (\A x \in Places : \A y \in f[x] : \E z \in Places : y \in g[z]) /\ e \in g[r]
  OBVIOUS
<1>5. Total(g) = Total(f) \union {e}
  BY <1>3, <1>4 DEF Total
<1>. QED BY <1>2, <1>5

(* What stays in its place. *)
LEMMA FoundSame ==
    ASSUME NEW q, NEW d, NEW j, NEW k, \A w \in Workers : Hand(k, w) = Hand(j, w)
    PROVE  Found(q, d, k) = Found(q, d, j)
<1>1. \A p \in Places : Found(q, d, k)[p] = Found(q, d, j)[p]
  BY PlaceFacts, FoundFacts
<1>. QED BY <1>1 DEF Found

LEMMA SentIsTyped ==
    ASSUME TypeInv
    PROVE  /\ SentBytes \subseteq Items
           /\ \A c \in Conns : Byte(c, sent[c] + 1) \notin SentBytes
<1>1. \A c \in Conns : sent[c] \in 0 .. MaxIn /\ MaxIn \in Nat
  BY BoundAssumption DEF TypeInv, TypeOK
<1>2. ASSUME NEW c \in Conns, NEW k \in 1 .. sent[c]
      PROVE  Byte(c, k) \in Items
  <2>1. k \in 1 .. MaxIn
    BY <1>1
  <2>. QED BY <2>1, ItemFacts
<1>3. ASSUME NEW c \in Conns, NEW d \in Conns, NEW k \in 1 .. sent[d],
             Byte(c, sent[c] + 1) = Byte(d, k)
      PROVE  FALSE
  <2>1. c = d /\ sent[c] + 1 = k
    BY <1>3 DEF Byte
  <2>. QED BY <1>1, <2>1
<1>. QED BY <1>2, <1>3 DEF SentBytes

(* A step that moves no byte. *)
LEMMA PlaceSame ==
    ASSUME OneEach, UNCHANGED <<queue, delivered, sent>>,
           \A v \in Workers : Hand(job', v) = Hand(job, v)
    PROVE  OneEach'
<1>1. Found(queue', delivered', job') = Found(queue, delivered, job)
  BY FoundSame
<1>2. SentBytes' = SentBytes
  BY DEF SentBytes
<1>. QED BY <1>1, <1>2 DEF OneEach

LEMMA PlaceReturns ==
    ASSUME PlaceInv, NEW b \in Bufs \union {InBuf}, ReadReturns(b)
    PROVE  OneEach'
<1>1. /\ hFile \in Conns /\ queue[hFile] \in Seq(Items) /\ delivered[hFile] \in Seq(Items)
      /\ queue \in [Conns -> Seq(Items)] /\ delivered \in [Conns -> Seq(Items)]
  BY DEF PlaceInv, LentInv, TypeInv, TypeOK, OnConnections, ReadReturns
<1>2. CASE UNCHANGED <<queue, delivered>>
  BY <1>2, PlaceSame DEF ReadReturns, peerVars, PlaceInv
<1>3. ASSUME queue[hFile] # <<>>,
             queue' = [queue EXCEPT ![hFile] = Tail(@)],
             delivered' = [delivered EXCEPT ![hFile] = Append(@, Head(queue[hFile]))]
      PROVE  OneEach'
  <2>. DEFINE e == Head(queue[hFile])
              f == Found(queue, delivered, job)
              g == Found(queue', delivered', job')
              p == Kernel(hFile)
              r == Given(hFile)
  <2>1. /\ e \in Items /\ IsInjective(Tail(queue[hFile])) /\ e \notin ToSet(Tail(queue[hFile]))
        /\ ToSet(queue[hFile]) = ToSet(Tail(queue[hFile])) \union {e}
    <3>1. IsInjective(queue[hFile]) /\ e \in Items
      BY <1>1, <1>3, FirstAndRest DEF PlaceInv, OneEach
    <3>. QED BY <1>1, <1>3, <3>1, HeadOnce
  <2>2. /\ p \in Places /\ r \in Places /\ p # r
        /\ f[p] = ToSet(queue[hFile]) /\ f[r] = ToSet(delivered[hFile])
        /\ g[p] = ToSet(queue'[hFile]) /\ g[r] = ToSet(delivered'[hFile])
    <3>1. p \in Places /\ r \in Places /\ p # r
      BY <1>1, PlaceFacts
    <3>2. f[p] = ToSet(queue[hFile]) /\ f[r] = ToSet(delivered[hFile])
      BY <1>1, FoundFacts
    <3>3. g[p] = ToSet(queue'[hFile]) /\ g[r] = ToSet(delivered'[hFile])
      BY <1>1, FoundFacts
    <3>. QED BY <3>1, <3>2, <3>3
  <2>3. Disjoint(f)
    BY DEF PlaceInv, OneEach
  <2>4. queue'[hFile] = Tail(queue[hFile]) /\ delivered'[hFile] = Append(delivered[hFile], e)
    BY <1>1, <1>3
  <2>5. f[p] = g[p] \union {e} /\ e \notin g[p]
    BY <2>1, <2>2, <2>4
  <2>. HIDE DEF e
  <2>6. g[r] = f[r] \union {e}
    BY <1>1, <2>1, <2>2, <2>4, SetOfAppend
  <2>7. \A x \in Places \ {p, r} : g[x] = f[x]
    <3>1. \A c \in Conns \ {hFile} : queue'[c] = queue[c] /\ delivered'[c] = delivered[c]
      BY <1>1, <1>3
    <3>2. job' = job
      BY DEF ReadReturns
    <3>. QED BY <3>1, <3>2, PlaceFacts, FoundFacts
  <2>8. e \notin f[r]
    BY <2>2, <2>3, <2>5 DEF Disjoint
  <2>. HIDE DEF f, g, p, r
  <2>9. Disjoint(g) /\ Total(g) = Total(f)
    BY <2>2, <2>3, <2>5, <2>6, <2>7, ByteMoves
  <2>10. IsInjective(delivered'[hFile])
    <3>1. IsInjective(delivered[hFile])
      BY <1>1 DEF PlaceInv, OneEach
    <3>. QED BY <1>1, <2>1, <2>2, <2>4, <2>8, <3>1, AppendOnce
  <2>11. \A c \in Conns : IsInjective(queue'[c]) /\ IsInjective(delivered'[c])
    BY <1>1, <1>3, <2>1, <2>4, <2>10 DEF PlaceInv, OneEach
  <2>12. Total(f) = SentBytes /\ SentBytes' = SentBytes
    BY DEF f, PlaceInv, OneEach, SentBytes, ReadReturns, peerVars
  <2>. QED BY <2>9, <2>11, <2>12 DEF g, OneEach
<1>. QED BY <1>2, <1>3 DEF ReadReturns

LEMMA PlaceReceive ==
    ASSUME PlaceInv, NEW w \in Workers, At(w, "blocked"), job[w].op = "read", Takes(w),
           UNCHANGED <<delivered, sent>>
    PROVE  OneEach'
<1>. DEFINE c == job[w].on
            e == Head(queue[c])
            f == Found(queue, delivered, job)
            g == Found(queue', delivered', job')
            p == Kernel(c)
            r == HandIn(w)
<1>1. /\ c \in Conns /\ queue[c] \in Seq(Items) /\ e \in Items
      /\ OnlyMoves(job, job', w, "calling") /\ job'[w].item = e
  BY TakesTypes DEF PlaceInv, LentInv
<1>2. /\ queue[c] # <<>> /\ queue' = [queue EXCEPT ![c] = Tail(@)]
      /\ queue \in [Conns -> Seq(Items)]
  BY DEF Takes, Waiting, PlaceInv, LentInv, TypeInv, TypeOK
<1>3. /\ IsInjective(Tail(queue[c])) /\ e \notin ToSet(Tail(queue[c]))
      /\ ToSet(queue[c]) = ToSet(Tail(queue[c])) \union {e}
  <2>1. IsInjective(queue[c])
    BY <1>1 DEF PlaceInv, OneEach
  <2>. QED BY <1>1, <1>2, <2>1, HeadOnce
<1>4. queue'[c] = Tail(queue[c])
  BY <1>1, <1>2
<1>. HIDE DEF c
<1>5. /\ p \in Places /\ r \in Places /\ p # r
      /\ f[p] = ToSet(queue[c]) /\ g[p] = ToSet(queue'[c])
      /\ f[r] = Hand(job, w) /\ g[r] = Hand(job', w)
  <2>1. p \in Places /\ r \in Places /\ p # r
    BY <1>1, PlaceFacts
  <2>2. f[p] = ToSet(queue[c]) /\ g[p] = ToSet(queue'[c])
    BY <1>1, FoundFacts
  <2>3. f[r] = Hand(job, w) /\ g[r] = Hand(job', w)
    BY FoundFacts
  <2>. QED BY <2>1, <2>2, <2>3
<1>6. Disjoint(f)
  BY DEF PlaceInv, OneEach
<1>7. f[p] = g[p] \union {e} /\ e \notin g[p]
  BY <1>3, <1>4, <1>5
<1>8. Hand(job, w) = {} /\ Hand(job', w) = {e}
  BY <1>1 DEF Hand, At, OnlyMoves
<1>9. g[r] = f[r] \union {e}
  BY <1>5, <1>8
<1>10. \A x \in Places \ {p, r} : g[x] = f[x]
  <2>1. \A d \in Conns \ {c} : queue'[d] = queue[d]
    BY <1>1, <1>2
  <2>2. \A v \in Workers \ {w} : Hand(job', v) = Hand(job, v)
    BY <1>1 DEF OnlyMoves, Hand
  <2>3. delivered' = delivered
    OBVIOUS
  <2>. QED BY <2>1, <2>2, <2>3, PlaceFacts, FoundFacts
<1>. HIDE DEF e, f, g, p, r
<1>11. Disjoint(g) /\ Total(g) = Total(f)
  BY <1>5, <1>6, <1>7, <1>9, <1>10, ByteMoves
<1>12. \A d \in Conns : IsInjective(queue'[d]) /\ IsInjective(delivered'[d])
  BY <1>2, <1>3, <1>4 DEF PlaceInv, OneEach
<1>13. Total(f) = SentBytes /\ SentBytes' = SentBytes
  BY DEF f, PlaceInv, OneEach, SentBytes
<1>. QED BY <1>11, <1>12, <1>13 DEF g, OneEach

LEMMA PlaceCallback ==
    ASSUME PlaceInv, UNCHANGED program, NEW w \in Workers, Callback(w), job[w].op = "read"
    PROVE  OneEach'
<1>. DEFINE c == job[w].asked
            e == job[w].item
            f == Found(queue, delivered, job)
            g == Found(queue', delivered', job')
            p == HandIn(w)
            r == Given(c)
<1>1. job[w].pc = "calling" /\ Goes(w, "ending") /\ UNCHANGED <<queue, sent>>
  BY DEF Callback, At, peerVars
<1>2. c \in Conns /\ content[job[w].buf] = e /\ content[job[w].buf] \in Items
  BY <1>1, CallbackTypes DEF PlaceInv, LentInv, Kept, Held
<1>3. /\ delivered' = [delivered EXCEPT ![c] = Append(@, e)]
      /\ delivered \in [Conns -> Seq(Items)] /\ delivered[c] \in Seq(Items)
  BY <1>2 DEF Callback, PlaceInv, LentInv, TypeInv, TypeOK
<1>4. OnlyMoves(job, job', w, "ending")
  <2>1. OnlyMoves(job, [job EXCEPT ![w].pc = "ending"], w, "ending")
    BY JobTyped, Moving DEF Pcs, PlaceInv, LentInv
  <2>. QED BY <1>1, <2>1 DEF Goes
<1>5. Hand(job, w) = {e} /\ Hand(job', w) = {}
  BY <1>1, <1>4 DEF Hand, OnlyMoves
<1>6. /\ p \in Places /\ r \in Places /\ p # r
      /\ f[p] = Hand(job, w) /\ g[p] = Hand(job', w)
      /\ f[r] = ToSet(delivered[c]) /\ g[r] = ToSet(delivered'[c])
  BY <1>2, PlaceFacts, FoundFacts
<1>7. Disjoint(f)
  BY DEF PlaceInv, OneEach
<1>8. f[p] = g[p] \union {e} /\ e \notin g[p]
  BY <1>5, <1>6
<1>9. delivered'[c] = Append(delivered[c], e) /\ e \in Items
  BY <1>2, <1>3
<1>10. \A x \in Places \ {p, r} : g[x] = f[x]
  <2>1. \A d \in Conns \ {c} : delivered'[d] = delivered[d]
    BY <1>2, <1>3
  <2>2. \A v \in Workers \ {w} : Hand(job', v) = Hand(job, v)
    BY <1>4 DEF OnlyMoves, Hand
  <2>3. queue' = queue
    BY <1>1
  <2>. QED BY <2>1, <2>2, <2>3, PlaceFacts, FoundFacts
<1>. HIDE DEF e, f, g, p, r
<1>11. g[r] = f[r] \union {e}
  BY <1>3, <1>6, <1>9, SetOfAppend
<1>12. Disjoint(g) /\ Total(g) = Total(f)
  BY <1>6, <1>7, <1>8, <1>10, <1>11, ByteMoves
<1>13. IsInjective(delivered'[c])
  <2>1. IsInjective(delivered[c])
    BY <1>2 DEF PlaceInv, OneEach
  <2>2. e \notin ToSet(delivered[c])
    BY <1>6, <1>7, <1>8 DEF Disjoint
  <2>. QED BY <1>3, <1>9, <2>1, <2>2, AppendOnce
<1>14. \A d \in Conns : IsInjective(queue'[d]) /\ IsInjective(delivered'[d])
  BY <1>1, <1>3, <1>13 DEF PlaceInv, OneEach
<1>15. Total(f) = SentBytes /\ SentBytes' = SentBytes
  BY <1>1 DEF f, PlaceInv, OneEach, SentBytes
<1>. QED BY <1>12, <1>14, <1>15 DEF g, OneEach

LEMMA PlacePeer ==
    ASSUME PlaceInv, NEW c \in Conns, PeerSends(c)
    PROVE  OneEach'
<1>. DEFINE e == Byte(c, sent[c] + 1)
            f == Found(queue, delivered, job)
            g == Found(queue', delivered', job')
            r == Kernel(c)
<1>1. /\ sent' = [sent EXCEPT ![c] = @ + 1] /\ sent[c] < MaxIn
      /\ queue' = [queue EXCEPT ![c] = Append(@, e)]
      /\ UNCHANGED <<delivered, job>>
  BY DEF PeerSends
<1>2. /\ queue \in [Conns -> Seq(Items)] /\ queue[c] \in Seq(Items)
      /\ sent \in [Conns -> 0 .. MaxIn] /\ MaxIn \in Nat /\ sent[c] \in 0 .. MaxIn
  BY BoundAssumption DEF PlaceInv, LentInv, TypeInv, TypeOK
<1>3. e \in Items
  <2>1. sent[c] + 1 \in 1 .. MaxIn
    BY <1>1, <1>2
  <2>. QED BY <2>1, ItemFacts
<1>4. Disjoint(f) /\ Total(f) = SentBytes /\ e \notin SentBytes
  BY SentIsTyped DEF PlaceInv, LentInv, OneEach
<1>5. SentBytes' = SentBytes \union {e}
  <2>1. sent'[c] = sent[c] + 1 /\ \A d \in Conns \ {c} : sent'[d] = sent[d]
    BY <1>1, <1>2
  <2>2. 1 .. sent'[c] = 1 .. sent[c] \union {sent[c] + 1}
    BY <1>2, <2>1
  <2>3. ASSUME NEW d \in Conns, NEW k \in 1 .. sent'[d]
        PROVE  Byte(d, k) \in SentBytes \union {e}
    BY <2>1, <2>2 DEF SentBytes
  <2>4. ASSUME NEW d \in Conns, NEW k \in 1 .. sent[d]
        PROVE  k \in 1 .. sent'[d]
    BY <2>1, <2>2
  <2>5. e \in SentBytes'
    BY <2>1, <2>2 DEF SentBytes
  <2>. QED BY <2>3, <2>4, <2>5 DEF SentBytes
<1>6. queue'[c] = Append(queue[c], e)
  BY <1>1, <1>2
<1>7. r \in Places /\ f[r] = ToSet(queue[c]) /\ g[r] = ToSet(queue'[c])
  BY PlaceFacts, FoundFacts
<1>8. \A x \in Places \ {r} : g[x] = f[x]
  <2>1. \A d \in Conns \ {c} : queue'[d] = queue[d]
    BY <1>1, <1>2
  <2>2. delivered' = delivered /\ job' = job
    BY <1>1
  <2>. QED BY <2>1, <2>2, PlaceFacts, FoundFacts
<1>. HIDE DEF e, f, g, r
<1>9. g[r] = f[r] \union {e}
  BY <1>2, <1>3, <1>6, <1>7, SetOfAppend
<1>10. Disjoint(g) /\ Total(g) = Total(f) \union {e}
  BY <1>4, <1>7, <1>8, <1>9, ByteComes
<1>11. IsInjective(queue'[c])
  <2>1. IsInjective(queue[c])
    BY DEF PlaceInv, OneEach
  <2>2. e \notin ToSet(queue[c])
    BY <1>4, <1>7 DEF Total
  <2>. QED BY <1>2, <1>3, <1>6, <2>1, <2>2, AppendOnce
<1>12. \A d \in Conns : IsInjective(queue'[d]) /\ IsInjective(delivered'[d])
  BY <1>1, <1>2, <1>11 DEF PlaceInv, OneEach
<1>. QED BY <1>4, <1>5, <1>10, <1>12 DEF g, OneEach

LEMMA HandHeld ==
    ASSUME NEW w \in Workers
    PROVE  /\ Held(w) => Hand(job, w) = {job[w].item}
           /\ ~Held(w) => Hand(job, w) = {}
           /\ ~Held(w)' => Hand(job', w) = {}
BY DEF Held, Hand

(* A worker's step that neither takes a byte nor hands one over. *)
LEMMA PlaceQuiet ==
    ASSUME PlaceInv, NEW w \in Workers,
           \A v \in Workers : v # w => job'[v] = job[v],
           ~Held(w), ~Held(w)', UNCHANGED <<queue, delivered, sent>>
    PROVE  OneEach'
<1>1. \A v \in Workers : Hand(job', v) = Hand(job, v)
  BY HandHeld DEF Hand
<1>. QED BY <1>1, PlaceSame DEF PlaceInv

(* A step that moves no byte and concerns no call. *)
LEMMA PlaceStutter ==
    ASSUME PlaceInv, UNCHANGED <<job, queue, delivered, sent>>
    PROVE  OneEach'
BY PlaceSame DEF PlaceInv

LEMMA PlaceSpawn ==
    ASSUME PlaceInv, NEW w \in Workers, NEW op \in Ops, NEW b \in AllBufs, NEW i \in Items,
           Spawn(w, op, b, i), UNCHANGED <<queue, delivered, sent>>
    PROVE  OneEach'
<1>1. /\ \A v \in Workers : v # w => job'[v] = job[v]
      /\ job'[w] = [pc |-> "spawned", op |-> op, buf |-> b, item |-> i,
                    asked |-> hFile, on |-> NoConn]
      /\ job[w].pc = "idle"
  BY Spawning DEF PlaceInv, LentInv
<1>2. job'[w].pc = "spawned"
  BY <1>1
<1>3. ~Held(w) /\ ~Held(w)'
  BY <1>1, <1>2 DEF Held
<1>. QED BY <1>1, <1>3, PlaceQuiet

LEMMA PlaceProgram ==
    ASSUME PlaceInv, ProgramStep
    PROVE  OneEach'
<1>1. /\ \A b \in Bufs : b \in AllBufs
      /\ InBuf \in AllBufs /\ OutBuf \in AllBufs
      /\ "read" \in Ops /\ "write" \in Ops /\ Nothing \in Items /\ content[OutBuf] \in Items
  BY ItemFacts DEF AllBufs, Ops, PlaceInv, LentInv, TypeInv, TypeOK
<1>2. ASSUME NEW w \in Workers, NEW b \in AllBufs, ReaderSpawns(w, b)
      PROVE  OneEach'
  <2>1. Spawn(w, "read", b, Nothing) /\ UNCHANGED <<queue, delivered, sent>>
    BY <1>2 DEF ReaderSpawns, peerVars
  <2>. QED BY <1>1, <2>1, PlaceSpawn
<1>3. ASSUME NEW w \in Workers, NEW b \in Bufs, Write(w, b)
      PROVE  OneEach'
  <2>1. Spawn(w, "write", b, NextMessage) /\ UNCHANGED <<queue, delivered, sent>>
    BY <1>3 DEF Write, peerVars
  <2>2. NextMessage \in Items
    BY <1>3, NextTyped DEF Write, PlaceInv, LentInv
  <2>. QED BY <1>1, <2>1, <2>2, PlaceSpawn
<1>4. ASSUME NEW w \in Workers, Flush(w) \/ CloseFlushes(w)
      PROVE  OneEach'
  <2>1. Spawn(w, "write", OutBuf, content[OutBuf]) /\ UNCHANGED <<queue, delivered, sent>>
    BY <1>4 DEF Flush, CloseFlushes, SyncWrites, peerVars
  <2>. QED BY <1>1, <2>1, PlaceSpawn
<1>5. CASE ReadPolls \/ Put \/ Close \/ Destroy \/ Reopen
  <2>1. UNCHANGED <<job, queue, delivered, sent>>
    BY <1>5 DEF ReadPolls, Put, Close, Destroy, Reopen, peerVars
  <2>. QED BY <2>1, PlaceStutter
<1>. QED BY <1>1, <1>2, <1>3, <1>4, <1>5, PlaceReturns DEF ProgramStep, ReadSpawns, StreamGet

LEMMA PlaceWorker ==
    ASSUME PlaceInv, UNCHANGED program, NEW w \in Workers, WorkerStep(w)
    PROVE  OneEach'
<1>1. /\ TypeInv /\ job \in [Workers -> JobType]
      /\ \A v \in Workers : v # w => job'[v] = job[v]
  BY JobTyped, SameOps DEF PlaceInv, LentInv
<1>2. ASSUME job[w].pc # "calling" \/ job[w].op # "read",
             job'[w].pc # "calling" \/ job'[w].op # "read",
             UNCHANGED <<queue, delivered, sent>>
      PROVE  OneEach'
  <2>1. ~Held(w) /\ ~Held(w)'
    BY <1>2 DEF Held
  <2>. QED BY <1>1, <1>2, <2>1, PlaceQuiet
<1>3. \A p : Goes(w, p) => job'[w].pc = p /\ job'[w].op = job[w].op
  BY <1>1 DEF Goes, JobType
<1>4. CASE Dispatch(w)
  <2>1. /\ job[w].pc = "spawned" /\ UNCHANGED <<queue, delivered, sent>>
        /\ job' = job \/ Goes(w, "ending") \/ Goes(w, "dispatched")
    BY <1>4 DEF Dispatch, Trespasses, At, peerVars
  <2>. QED BY <1>2, <1>3, <2>1
<1>5. CASE Enter(w)
  <2>1. job[w].pc = "dispatched" /\ UNCHANGED <<queue, delivered, sent>>
    BY <1>5 DEF Enter, At, peerVars
  <2>2. CASE Trespasses(w)
    BY <1>2, <1>3, <2>1, <2>2 DEF Trespasses
  <2>3. CASE ~Trespasses(w)
    <3>1. PICK p \in {"ending", "blocked"} : job' = [job EXCEPT ![w].pc = p, ![w].on = hFile]
      BY <1>5, <2>3 DEF Enter
    <3>2. job'[w].pc = p
      BY <1>1, <3>1 DEF JobType
    <3>. QED BY <1>2, <2>1, <3>2
  <2>. QED BY <2>2, <2>3
<1>6. CASE Receive(w)
  <2>1. At(w, "blocked") /\ job[w].pc = "blocked" /\ job[w].op = "read" /\ UNCHANGED <<delivered, sent>>
    BY <1>6 DEF Receive, At, peerVars
  <2>2. Takes(w) \/ (Goes(w, "ending") /\ UNCHANGED queue)
    BY <1>6 DEF Receive, Takes
  <2>. QED BY <1>2, <1>3, <2>1, <2>2, PlaceReceive
<1>7. CASE Send(w)
  <2>1. /\ job[w].op = "write" /\ UNCHANGED <<queue, delivered, sent>>
        /\ Goes(w, "calling") \/ Goes(w, "ending")
    BY <1>7 DEF Send, peerVars
  <2>. QED BY <1>2, <1>3, <2>1
<1>8. CASE Callback(w)
  <2>1. CASE job[w].op = "read"
    BY <1>8, <2>1, PlaceCallback
  <2>2. CASE job[w].op # "read"
    <3>1. Goes(w, "ending") /\ UNCHANGED <<queue, delivered, sent>>
      BY <1>8, <2>2 DEF Callback, peerVars
    <3>. QED BY <1>2, <1>3, <2>2, <3>1
  <2>. QED BY <2>1, <2>2
<1>9. CASE Finish(w)
  <2>1. job[w].pc = "ending" /\ UNCHANGED <<queue, delivered, sent>>
    BY <1>9 DEF Finish, At, peerVars
  <2>2. job'[w].pc = "idle"
    BY <1>1, <1>9, IdleType DEF Finish, JobType
  <2>. QED BY <1>2, <2>1, <2>2
<1>. QED BY <1>4, <1>5, <1>6, <1>7, <1>8, <1>9 DEF WorkerStep

LEMMA PlaceStep ==
    ASSUME PlaceInv, OwnBuffers, [Next]_vars
    PROVE  PlaceInv'
<1>1. LentInv'
  BY LentStep DEF PlaceInv
<1>. SUFFICES OneEach'
  BY <1>1 DEF PlaceInv
<1>2. ASSUME NEW c \in Conns, PeerFinishes(c)
      PROVE  OneEach'
  BY <1>2, PlaceStutter DEF PeerFinishes
<1>3. CASE UNCHANGED vars
  BY <1>3, PlaceStutter DEF vars, peerVars
<1>. QED BY <1>2, <1>3, PlacePeer, PlaceProgram, PlaceWorker DEF Next

LEMMA PlaceInit == Init => PlaceInv
<1>. SUFFICES ASSUME Init PROVE PlaceInv
  OBVIOUS
<1>1. LentInv
  BY LentInit
<1>2. \A c \in Conns : queue[c] = <<>> /\ delivered[c] = <<>> /\ sent[c] = 0
  BY DEF Init
<1>3. IsInjective(<<>>) /\ ToSet(<<>>) = {}
  BY DEF IsInjective, ToSet
<1>4. \A w \in Workers : Hand(job, w) = {}
  BY IdleType DEF Init, Hand
<1>5. \A p \in Places : Found(queue, delivered, job)[p] = {}
  BY <1>2, <1>3, <1>4, PlaceFacts, FoundFacts
<1>6. SentBytes = {}
  BY <1>2 DEF SentBytes
<1>7. OneEach
  BY <1>2, <1>3, <1>5, <1>6 DEF OneEach, Disjoint, Total
<1>. QED BY <1>1, <1>7 DEF PlaceInv

(* What is in the kernel and what was handed over, connection by connection. *)
LEMMA PlacesListed ==
    ASSUME PlaceInv
    PROVE  LET rest == FlattenSeq([c \in Conns |-> queue[c] \o delivered[c]])
           IN  /\ IsInjective(rest)
               /\ \A x : x \in ToSet(rest)
                         <=> \E c \in Conns : x \in ToSet(queue[c]) \/ x \in ToSet(delivered[c])
<1>. DEFINE s == [c \in Conns |-> queue[c] \o delivered[c]]
<1>1. /\ queue \in [Conns -> Seq(Items)] /\ delivered \in [Conns -> Seq(Items)]
      /\ MaxConn \in Nat /\ Conns = 1 .. MaxConn
  BY BoundAssumption DEF PlaceInv, LentInv, TypeInv, TypeOK, Conns
<1>2. \A c \in Conns : s[c] \in Seq(Items)
  BY <1>1, ConcatProperties
<1>3. s \in Seq(Seq(Items)) /\ Len(s) = MaxConn
  BY <1>1, <1>2
<1>4. \A c \in Conns : ToSet(s[c]) = ToSet(queue[c]) \union ToSet(delivered[c])
  <2>. SUFFICES ASSUME NEW c \in Conns
                PROVE  ToSet(queue[c] \o delivered[c]) = ToSet(queue[c]) \union ToSet(delivered[c])
    OBVIOUS
  <2>. QED BY <1>1, SetOfConcat
<1>5. Disjoint(Found(queue, delivered, job))
  BY DEF PlaceInv, OneEach
<1>6. \A c \in Conns : IsInjective(s[c])
  <2>. SUFFICES ASSUME NEW c \in Conns
                PROVE  IsInjective(queue[c] \o delivered[c])
    OBVIOUS
  <2>1. Kernel(c) # Given(c)
    BY PlaceFacts
  <2>2. ToSet(queue[c]) \intersect ToSet(delivered[c]) = {}
    BY <1>5, <2>1, PlaceFacts, FoundFacts DEF Disjoint
  <2>3. IsInjective(queue[c]) /\ IsInjective(delivered[c])
    BY DEF PlaceInv, OneEach
  <2>. QED BY <1>1, <2>2, <2>3, ConcatInjective
<1>7. \A c, d \in Conns : c # d => ToSet(s[c]) \intersect ToSet(s[d]) = {}
  <2>. SUFFICES ASSUME NEW c \in Conns, NEW d \in Conns, c # d
                PROVE  ToSet(s[c]) \intersect ToSet(s[d]) = {}
    OBVIOUS
  <2>1. /\ Kernel(c) # Kernel(d) /\ Given(c) # Given(d)
        /\ Kernel(c) # Given(d) /\ Given(c) # Kernel(d)
    BY PlaceFacts
  <2>2. /\ ToSet(queue[c]) \intersect ToSet(queue[d]) = {}
        /\ ToSet(delivered[c]) \intersect ToSet(delivered[d]) = {}
        /\ ToSet(queue[c]) \intersect ToSet(delivered[d]) = {}
        /\ ToSet(delivered[c]) \intersect ToSet(queue[d]) = {}
    BY <1>5, <2>1, PlaceFacts, FoundFacts DEF Disjoint
  <2>. HIDE DEF s
  <2>. QED BY <1>4, <2>2
<1>. HIDE DEF s
<1>8. /\ ToSet(FlattenSeq(s)) = Elements(s, MaxConn)
      /\ IsInjective(FlattenSeq(s))
  <2>1. Len(s) = MaxConn /\ s \in Seq(Seq(Items)) /\ 1 .. Len(s) = Conns
    BY <1>1, <1>3
  <2>2. /\ \A i \in 1 .. Len(s) : IsInjective(s[i])
        /\ \A i, j \in 1 .. Len(s) : i # j => ToSet(s[i]) \intersect ToSet(s[j]) = {}
    BY <1>6, <1>7, <2>1
  <2>. QED BY <2>1, <2>2, FlattenElements
<1>9. \A x : x \in Elements(s, MaxConn)
             <=> \E c \in Conns : x \in ToSet(queue[c]) \/ x \in ToSet(delivered[c])
  <2>1. \A x : x \in Elements(s, MaxConn) <=> \E c \in Conns : x \in ToSet(s[c])
    BY <1>1 DEF Elements
  <2>. QED BY <1>4, <2>1
<1>. QED BY <1>8, <1>9 DEF s

(* Each byte the peers sent is in one place and there once: in the kernel, with
   one worker that is on its way to its callback, or handed over.  No call that
   overlaps another, and no close or reopen in the middle, loses or doubles one. *)
THEOREM BytesConserved == Spec => []Conserved
<1>. DEFINE Inv == OwnBuffers => PlaceInv
<1>1. ASSUME PlaceInv PROVE Conserved
  <2>. DEFINE rest == FlattenSeq([c \in Conns |-> queue[c] \o delivered[c]])
              hands == {w \in Workers : job[w].pc = "calling" /\ job[w].op = "read"}
              held == {job[w].item : w \in hands}
              f == Found(queue, delivered, job)
  <2>1. /\ IsInjective(rest)
        /\ \A x : x \in ToSet(rest)
                  <=> \E c \in Conns : x \in ToSet(queue[c]) \/ x \in ToSet(delivered[c])
    BY <1>1, PlacesListed
  <2>. HIDE DEF rest
  <2>2. Disjoint(f) /\ Total(f) = SentBytes
    BY <1>1 DEF PlaceInv, OneEach
  <2>3. \A w \in hands : w \in Workers /\ f[HandIn(w)] = {job[w].item} /\ HandIn(w) \in Places
    <3>1. \A w \in hands : w \in Workers /\ Hand(job, w) = {job[w].item}
      BY DEF Hand
    <3>2. \A w \in Workers : HandIn(w) \in Places /\ f[HandIn(w)] = Hand(job, w)
      BY PlaceFacts, FoundFacts
    <3>. QED BY <3>1, <3>2
  <2>4. \A c \in Conns : /\ Kernel(c) \in Places /\ Given(c) \in Places
                         /\ f[Kernel(c)] = ToSet(queue[c])
                         /\ f[Given(c)] = ToSet(delivered[c])
    BY PlaceFacts, FoundFacts
  <2>5. \A w \in Workers : w \notin hands => f[HandIn(w)] = {}
    BY FoundFacts DEF Hand
  <2>. HIDE DEF f
  <2>7. IsInjective([w \in hands |-> job[w].item])
    <3>. SUFFICES ASSUME NEW v \in hands, NEW w \in hands, job[v].item = job[w].item, v # w
                  PROVE  FALSE
      BY DEF IsInjective
    <3>1. HandIn(v) # HandIn(w)
      BY PlaceFacts
    <3>. QED BY <2>2, <2>3, <3>1 DEF Disjoint
  <2>8. ToSet(rest) \intersect held = {}
    <3>. SUFFICES ASSUME NEW w \in hands, job[w].item \in ToSet(rest)
                  PROVE  FALSE
      OBVIOUS
    <3>1. PICK c \in Conns : job[w].item \in ToSet(queue[c]) \/ job[w].item \in ToSet(delivered[c])
      BY <2>1
    <3>2. HandIn(w) # Kernel(c) /\ HandIn(w) # Given(c)
      BY PlaceFacts
    <3>. QED BY <2>2, <2>3, <2>4, <3>1, <3>2 DEF Disjoint
  <2>9. ToSet(rest) \union held = Total(f)
    <3>1. ASSUME NEW x \in ToSet(rest)
          PROVE  x \in Total(f)
      BY <2>1, <2>4 DEF Total
    <3>2. ASSUME NEW w \in hands
          PROVE  job[w].item \in Total(f)
      BY <2>3 DEF Total
    <3>3. ASSUME NEW p \in Places, NEW x \in f[p]
          PROVE  x \in ToSet(rest) \union held
      <4>1. ASSUME NEW w \in Workers, p = HandIn(w)
            PROVE  x \in ToSet(rest) \union held
        <5>1. w \in hands
          BY <2>5, <3>3, <4>1
        <5>2. x = job[w].item
          BY <2>3, <3>3, <4>1, <5>1
        <5>. QED BY <5>1, <5>2
      <4>2. ASSUME NEW c \in Conns, p = Kernel(c) \/ p = Given(c)
            PROVE  x \in ToSet(rest) \union held
        BY <2>1, <2>4, <3>3, <4>2
      <4>. QED BY <4>1, <4>2, PlaceFacts
    <3>. QED BY <3>1, <3>2, <3>3 DEF Total
  <2>. QED BY <2>1, <2>2, <2>7, <2>8, <2>9 DEF Conserved, rest
<1>2. Inv => Conserved
  BY <1>1 DEF Conserved, OwnBuffers
<1>3. Init => Inv
  BY PlaceInit
<1>4. Inv /\ [Next]_vars => Inv'
  BY PlaceStep, SameProgram DEF OwnBuffers
<1>. HIDE DEF Inv
<1>. QED BY <1>2, <1>3, <1>4, PTL DEF Spec

==============================================================================
