-------------------------- MODULE ConnectionsProofs --------------------------
(***************************************************************************)
(* Proofs about the connections: module ConnectionBsd, for every size of   *)
(* the two buffers and any number of bytes, and module ConnectionLwIp, for *)
(* any number of buffers of any size and any window.                       *)
(***************************************************************************)
EXTENDS MCConnections, SequenceTheorems, FiniteSetTheorems, WellFoundedInduction, TLAPS

ConnType ==
    [recv : 0..RecvSize, send : 0..SendSize, size : 0..SendSize,
     stream : {"none", "requested", "scheduled", "open"}, trySend : BOOLEAN]

Kinds == {"receive", "data", "stream"}

\* Events that open the send stream: whether there is one, and no second
Opens(s) == \E i \in 1 .. Len(s) : s[i] = "stream"
OpensOnce(s) == \A i, j \in 1 .. Len(s) : s[i] = "stream" /\ s[j] = "stream" => i = j

\* No byte is lost or made on the way in either direction, and what will be
\* written to a stream is within the bound on the bytes written.
BytesInv ==
    /\ peerSent = kernelIn + conn.recv + read
    /\ written = sent + conn.send
    /\ conn.stream # "none" => written + conn.size <= MaxBytes

\* Only a stream that is scheduled has an event that opens it, and it has one
\* as long as the connection is attached.
StreamInv ==
    /\ OpensOnce(events)
    /\ Opens(events) => conn.stream = "scheduled"
    /\ life = "attached" /\ conn.stream = "scheduled" => Opens(events)
    /\ life \in {"none", "waiting"} => conn.stream = "none"
    /\ life = "none" => conn = Bsd!Constructed /\ events = <<>>

\* A client connects once, and its connector is gone when it has told.
ConnectorInv ==
    /\ connector = "pending" => link = "up" /\ told = <<>>
    /\ link = "none" => told = <<>>
    /\ Len(told) <= 1

\* The inductive invariant
BsdInv == Bsd!TypeOK /\ Bsd!PromiseKept /\ BytesInv /\ StreamInv /\ ConnectorInv

-----------------------------------------------------------------------------

(***************************************************************************)
(* The queue of events, when events are appended.                          *)
(***************************************************************************)
LEMMA EventsAppended ==
    ASSUME NEW s \in Seq(Kinds), NEW t \in Seq(Kinds),
           OpensOnce(s), OpensOnce(t), ~(Opens(s) /\ Opens(t))
    PROVE  /\ s \o t \in Seq(Kinds)
           /\ OpensOnce(s \o t)
           /\ Opens(s \o t) <=> Opens(s) \/ Opens(t)
<1>1. /\ s \o t \in Seq(Kinds) /\ Len(s \o t) = Len(s) + Len(t)
      /\ Len(s) \in Nat /\ Len(t) \in Nat
  BY ConcatProperties
<1>2. \A i \in 1 .. Len(s) + Len(t) : (s \o t)[i] = IF i <= Len(s) THEN s[i] ELSE t[i - Len(s)]
  BY ConcatProperties
<1>3. ASSUME Opens(s)
      PROVE  Opens(s \o t)
  BY <1>1, <1>2, <1>3 DEF Opens
<1>4. ASSUME Opens(t)
      PROVE  Opens(s \o t)
  <2>1. PICK i \in 1 .. Len(t) : t[i] = "stream"
    BY <1>4 DEF Opens
  <2>2. i + Len(s) \in 1 .. Len(s) + Len(t) /\ (s \o t)[i + Len(s)] = "stream"
    BY <1>1, <1>2, <2>1
  <2> QED
    BY <1>1, <2>2 DEF Opens
<1>5. ASSUME NEW i \in 1 .. Len(s) + Len(t), (s \o t)[i] = "stream"
      PROVE  \/ i \in 1 .. Len(s) /\ s[i] = "stream" /\ Opens(s)
             \/ i - Len(s) \in 1 .. Len(t) /\ t[i - Len(s)] = "stream" /\ Opens(t)
  BY <1>1, <1>2, <1>5 DEF Opens
<1>6. OpensOnce(s \o t)
  <2> SUFFICES ASSUME NEW i \in 1 .. Len(s) + Len(t), NEW j \in 1 .. Len(s) + Len(t),
                      (s \o t)[i] = "stream", (s \o t)[j] = "stream"
               PROVE  i = j
    BY <1>1 DEF OpensOnce
  <2>1. CASE Opens(s)
    BY <1>5, <2>1 DEF OpensOnce
  <2>2. CASE ~Opens(s)
    <3>1. /\ i - Len(s) \in 1 .. Len(t) /\ t[i - Len(s)] = "stream"
          /\ j - Len(s) \in 1 .. Len(t) /\ t[j - Len(s)] = "stream"
      BY <1>5, <2>2
    <3>2. i - Len(s) = j - Len(s)
      BY <3>1 DEF OpensOnce
    <3> QED
      BY <1>1, <3>2
  <2> QED
    BY <2>1, <2>2
<1>7. ASSUME Opens(s \o t)
      PROVE  Opens(s) \/ Opens(t)
  BY <1>1, <1>5, <1>7 DEF Opens
<1> QED
  BY <1>1, <1>3, <1>4, <1>6, <1>7

(***************************************************************************)
(* The queue of events, when the first one is executed.                    *)
(***************************************************************************)
LEMMA EventExecuted ==
    ASSUME NEW s \in Seq(Kinds), s # <<>>, OpensOnce(s)
    PROVE  /\ Tail(s) \in Seq(Kinds)
           /\ OpensOnce(Tail(s))
           /\ Head(s) = "stream" => Opens(s) /\ ~Opens(Tail(s))
           /\ Head(s) # "stream" => (Opens(Tail(s)) <=> Opens(s))
<1>1. /\ Tail(s) \in Seq(Kinds)
      /\ Len(s) \in Nat \ {0} /\ Len(Tail(s)) = Len(s) - 1
      /\ Head(s) = s[1]
  OBVIOUS
<1>2. \A i \in 1 .. Len(s) - 1 : Tail(s)[i] = s[i + 1]
  BY <1>1
<1>3. OpensOnce(Tail(s))
  BY <1>1, <1>2 DEF OpensOnce
<1>4. Head(s) = "stream" => Opens(s) /\ ~Opens(Tail(s))
  BY <1>1, <1>2 DEF OpensOnce, Opens
<1>5. Opens(Tail(s)) => Opens(s)
  BY <1>1, <1>2 DEF Opens
<1>6. ASSUME Head(s) # "stream", Opens(s)
      PROVE  Opens(Tail(s))
  <2>1. PICK i \in 1 .. Len(s) : s[i] = "stream"
    BY <1>6 DEF Opens
  <2>2. i - 1 \in 1 .. Len(s) - 1 /\ Tail(s)[i - 1] = "stream"
    BY <1>1, <1>2, <1>6, <2>1
  <2> QED
    BY <1>1, <2>2 DEF Opens
<1> QED
  BY <1>1, <1>3, <1>4, <1>5, <1>6

(***************************************************************************)
(* The queues that handlers start from or append.                          *)
(***************************************************************************)
LEMMA FewEvents ==
    /\ <<>> \in Seq(Kinds) /\ OpensOnce(<<>>) /\ ~Opens(<<>>)
    /\ \A e \in Kinds : /\ <<e>> \in Seq(Kinds) /\ OpensOnce(<<e>>)
                        /\ Opens(<<e>>) <=> e = "stream"
<1>1. <<>> \in Seq(Kinds) /\ Len(<<>>) = 0
  OBVIOUS
<1>2. ASSUME NEW e \in Kinds
      PROVE  <<e>> \in Seq(Kinds) /\ OpensOnce(<<e>>) /\ (Opens(<<e>>) <=> e = "stream")
  <2>1. <<e>> \in Seq(Kinds) /\ Len(<<e>>) = 1 /\ <<e>>[1] = e
    OBVIOUS
  <2>2. \A i \in 1 .. 1 : i = 1
    OBVIOUS
  <2>3. OpensOnce(<<e>>)
    BY <2>1, <2>2 DEF OpensOnce
  <2>4. Opens(<<e>>) <=> e = "stream"
    BY <2>1, <2>2 DEF Opens
  <2> QED
    BY <2>1, <2>3, <2>4
<1>3. OpensOnce(<<>>) /\ ~Opens(<<>>)
  BY <1>1 DEF Opens, OpensOnce
<1> QED
  BY <1>1, <1>2, <1>3

-----------------------------------------------------------------------------

(***************************************************************************)
(* TryAllocateSendStream promises room that there is.                      *)
(***************************************************************************)
LEMMA AllocateStep ==
    ASSUME Bsd!ConnectionBsdAssumption, NEW c \in ConnType,
           c.stream \in {"scheduled", "open"} => c.send + c.size <= SendSize
    PROVE  LET d == Bsd!TryAllocateSendStream(c)
           IN  /\ d \in ConnType
               /\ d.recv = c.recv /\ d.send = c.send /\ d.size = c.size /\ d.trySend = c.trySend
               /\ d.stream \in {"scheduled", "open"} => d.send + d.size <= SendSize
               /\ d.stream = c.stream \/ (c.stream = "requested" /\ d.stream = "scheduled")
<1> DEFINE d == Bsd!TryAllocateSendStream(c)
<1>1. /\ SendSize \in Nat /\ RecvSize \in Nat
      /\ c.send \in 0..SendSize /\ c.size \in 0..SendSize /\ c.recv \in 0..RecvSize
  BY DEF Bsd!ConnectionBsdAssumption, ConnType
<1>2. CASE c.stream = "requested" /\ SendSize - c.send >= c.size
  <2>1. d = [c EXCEPT !.stream = "scheduled"]
    BY <1>2 DEF Bsd!TryAllocateSendStream
  <2>2. /\ d \in ConnType /\ d.stream = "scheduled"
        /\ d.recv = c.recv /\ d.send = c.send /\ d.size = c.size /\ d.trySend = c.trySend
    BY <2>1 DEF ConnType
  <2>3. c.send + c.size <= SendSize
    BY <1>1, <1>2
  <2> QED
    BY <1>2, <2>2, <2>3
<1>3. CASE ~(c.stream = "requested" /\ SendSize - c.send >= c.size)
  <2>1. d = c
    BY <1>3 DEF Bsd!TryAllocateSendStream
  <2> QED
    BY <2>1
<1> QED
  BY <1>2, <1>3

(***************************************************************************)
(* Send takes bytes out of the buffer, and gives the room to a stream when *)
(* the buffer is empty.                                                    *)
(***************************************************************************)
LEMMA SendStep ==
    ASSUME Bsd!ConnectionBsdAssumption, NEW c \in ConnType, NEW k \in 0 .. c.send,
           c.stream \in {"scheduled", "open"} => c.send + c.size <= SendSize
    PROVE  LET d == Bsd!Send(c, k)
           IN  /\ d \in ConnType
               /\ d.recv = c.recv /\ d.send = c.send - k /\ d.size = c.size /\ d.trySend = c.trySend
               /\ d.stream \in {"scheduled", "open"} => d.send + d.size <= SendSize
               /\ d.stream = c.stream \/ (c.stream = "requested" /\ d.stream = "scheduled")
<1> DEFINE b == [c EXCEPT !.send = @ - k]
<1>1. SendSize \in Nat /\ c.send \in 0..SendSize /\ c.size \in 0..SendSize
  BY DEF Bsd!ConnectionBsdAssumption, ConnType
<1>2. c.send - k \in 0 .. SendSize
  BY <1>1
<1>3. /\ b \in ConnType /\ b.send = c.send - k
      /\ b.recv = c.recv /\ b.size = c.size /\ b.trySend = c.trySend /\ b.stream = c.stream
  BY <1>2 DEF ConnType
<1>4. b.stream \in {"scheduled", "open"} => b.send + b.size <= SendSize
  BY <1>1, <1>3
<1>5. Bsd!Send(c, k) = b \/ Bsd!Send(c, k) = Bsd!TryAllocateSendStream(b)
  <2>1. k = c.send => c.send - k = 0
    BY <1>1
  <2> QED
    BY <2>1 DEF Bsd!Send
<1> HIDE DEF b
<1> QED
  BY <1>3, <1>4, <1>5, AllocateStep

-----------------------------------------------------------------------------

\* What the parts of the invariant say of the single variables
Facts ==
    /\ RecvSize \in Nat /\ SendSize \in Nat /\ MaxBytes \in Nat
    /\ life \in {"none", "waiting", "attached", "freed"}
    /\ conn \in ConnType
    /\ conn.recv \in 0..RecvSize /\ conn.send \in 0..SendSize /\ conn.size \in 0..SendSize
    /\ events \in Seq(Kinds)
    /\ socket \in {"open", "closed"} /\ ended \in {"no", "fin", "reset"}
    /\ kernelIn \in 0..MaxBytes /\ peerSent \in 0..MaxBytes /\ written \in 0..MaxBytes
    /\ sent \in 0..MaxBytes /\ read \in 0..MaxBytes
    /\ connector \in {"none", "pending"} /\ link \in {"none", "up"}
    /\ told \in Seq({"established", "refused"})
    /\ fault \in {"none", "freed", "close", "connect", "select", "noObserver", "erased"}

(***************************************************************************)
(* The facts follow from the invariant, and imply the type invariant.      *)
(***************************************************************************)
LEMMA FactsFollow ==
    ASSUME Bsd!ConnectionBsdAssumption, Bsd!TypeOK
    PROVE  Facts /\ owes \in BOOLEAN
<1>1. conn \in ConnType
  BY DEF Bsd!TypeOK, ConnType
<1>2. conn.recv \in 0..RecvSize /\ conn.send \in 0..SendSize /\ conn.size \in 0..SendSize
  BY <1>1 DEF ConnType
<1>3. owes \in BOOLEAN
  BY DEF Bsd!TypeOK
<1> QED
  BY <1>1, <1>2, <1>3 DEF Bsd!TypeOK, Facts, Kinds, Bsd!ConnectionBsdAssumption

(***************************************************************************)
(* The bytes: what the counters say keeps each of them within its bound.   *)
(***************************************************************************)
LEMMA TypesFollow ==
    ASSUME Facts, owes \in BOOLEAN, {blocking, stuck} \subseteq BOOLEAN
    PROVE  Bsd!TypeOK
<1>1. {kernelIn, peerSent, written, sent, read} \subseteq 0..MaxBytes
  BY DEF Facts
<1>2. conn \in [recv : 0..RecvSize, send : 0..SendSize, size : 0..SendSize,
                 stream : {"none", "requested", "scheduled", "open"}, trySend : BOOLEAN]
  BY DEF Facts, ConnType
<1>3. /\ life \in {"none", "waiting", "attached", "freed"}
      /\ events \in Seq({"receive", "data", "stream"})
      /\ socket \in {"open", "closed"} /\ ended \in {"no", "fin", "reset"}
      /\ connector \in {"none", "pending"} /\ link \in {"none", "up"}
      /\ told \in Seq({"established", "refused"})
      /\ fault \in {"none", "freed", "close", "connect", "select", "noObserver", "erased"}
  BY DEF Facts, Kinds
<1> QED
  BY <1>1, <1>2, <1>3, Zenon DEF Bsd!TypeOK

\* The invariant in the form that the steps keep
StepInv == Facts /\ owes \in BOOLEAN /\ Bsd!PromiseKept /\ BytesInv /\ StreamInv /\ ConnectorInv

(***************************************************************************)
(* A connection is constructed, by a listener or by a connector.           *)
(***************************************************************************)
LEMMA ConstructStep ==
    ASSUME StepInv, Bsd!Construct
    PROVE  /\ life' \in {"waiting", "attached", "freed"}
           /\ conn' = conn /\ conn'.stream = "none"
           /\ events' \in Seq(Kinds) /\ OpensOnce(events') /\ ~Opens(events')
           /\ UNCHANGED <<kernelIn, ended, peerSent, written, sent, read, owes>>
<1>1. life = "none" /\ conn' = Bsd!Constructed /\ conn = Bsd!Constructed /\ events' = <<"receive">>
  BY DEF Bsd!Construct, StepInv, StreamInv
<1>2. "receive" \in Kinds
  BY DEF Kinds
<1> QED
  BY <1>1, <1>2, FewEvents DEF Bsd!Construct, Bsd!Constructed

(***************************************************************************)
(* A connection is destructed: only the event of its constructor stays.    *)
(***************************************************************************)
LEMMA FreeStep ==
    ASSUME StepInv, Bsd!Free
    PROVE  /\ life' = "freed" /\ socket' = "closed"
           /\ events' \in Seq(Kinds) /\ OpensOnce(events') /\ ~Opens(events')
           /\ fault' \in {fault, "close"}
           /\ UNCHANGED <<conn, kernelIn, read, owes, written, sent>>
<1>1. events' = <<>> \/ events' = <<"receive">>
  BY DEF Bsd!Free
<1>2. "receive" \in Kinds
  BY DEF Kinds
<1> QED
  BY <1>1, <1>2, FewEvents DEF Bsd!Free

(***************************************************************************)
(* Receive takes as much as there is room for.                             *)
(***************************************************************************)
LEMMA ReceiveStep ==
    ASSUME StepInv, NEW c \in ConnType
    PROVE  /\ Bsd!Received(c) \in 0 .. kernelIn
           /\ Bsd!Receive(c) \in ConnType
           /\ Bsd!Receive(c).recv = c.recv + Bsd!Received(c)
           /\ Bsd!Receive(c).send = c.send /\ Bsd!Receive(c).size = c.size
           /\ Bsd!Receive(c).stream = c.stream /\ Bsd!Receive(c).trySend = c.trySend
           /\ Bsd!DataEvent(c) \in Seq(Kinds) /\ OpensOnce(Bsd!DataEvent(c)) /\ ~Opens(Bsd!DataEvent(c))
<1>1. RecvSize \in Nat /\ kernelIn \in Nat /\ c.recv \in 0..RecvSize
  BY DEF StepInv, Facts, ConnType
<1>2. Bsd!Received(c) \in 0 .. kernelIn /\ c.recv + Bsd!Received(c) \in 0..RecvSize
  BY <1>1 DEF Bsd!Received, Bsd!Least
<1>3. /\ Bsd!Receive(c) \in ConnType
      /\ Bsd!Receive(c).recv = c.recv + Bsd!Received(c)
      /\ Bsd!Receive(c).send = c.send /\ Bsd!Receive(c).size = c.size
      /\ Bsd!Receive(c).stream = c.stream /\ Bsd!Receive(c).trySend = c.trySend
  BY <1>2 DEF Bsd!Receive, ConnType
<1>4. Bsd!DataEvent(c) = <<>> \/ Bsd!DataEvent(c) = <<"data">>
  BY DEF Bsd!DataEvent
<1>5. "data" \in Kinds
  BY DEF Kinds
<1> QED
  BY <1>2, <1>3, <1>4, <1>5, FewEvents

(***************************************************************************)
(* Listeners and connectors.                                               *)
(***************************************************************************)
LEMMA ConnectingSteps ==
    ASSUME Bsd!ConnectionBsdAssumption, StepInv,
           Bsd!Accept \/ Bsd!SetObserver \/ Bsd!Connect \/ Bsd!CancelConnect \/ Bsd!IdleConnector
    PROVE  StepInv'
<1>1. CASE Bsd!Accept
  <2>1. Bsd!Construct /\ socket' = "open" /\ UNCHANGED <<Bsd!connecting, fault>>
    BY <1>1 DEF Bsd!Accept
  <2>2. Facts' /\ owes' \in BOOLEAN
    BY <2>1, ConstructStep DEF StepInv, Facts, Bsd!connecting
  <2>3. Bsd!PromiseKept' /\ BytesInv' /\ ConnectorInv'
    BY <2>1, ConstructStep DEF StepInv, Bsd!PromiseKept, BytesInv, ConnectorInv, Bsd!connecting
  <2>4. StreamInv'
    BY <2>1, ConstructStep DEF StreamInv
  <2> QED
    BY <2>2, <2>3, <2>4 DEF StepInv
<1>2. CASE Bsd!SetObserver
  <2>1. Facts' /\ owes' \in BOOLEAN
    BY <1>2 DEF Bsd!SetObserver, StepInv, Facts, Bsd!kernel, Bsd!connecting
  <2>2. Bsd!PromiseKept' /\ BytesInv' /\ ConnectorInv' /\ StreamInv'
    BY <1>2 DEF Bsd!SetObserver, StepInv, Bsd!PromiseKept, BytesInv, ConnectorInv, StreamInv,
       Bsd!kernel, Bsd!connecting
  <2> QED
    BY <2>1, <2>2 DEF StepInv
<1>3. CASE Bsd!Connect
  <2>1. Facts' /\ owes' \in BOOLEAN
    BY <1>3 DEF Bsd!Connect, StepInv, Facts, Bsd!kernel
  <2>2. Bsd!PromiseKept' /\ BytesInv' /\ StreamInv'
    BY <1>3 DEF Bsd!Connect, StepInv, Bsd!PromiseKept, BytesInv, StreamInv, Bsd!kernel
  <2>3. ConnectorInv'
    BY <1>3 DEF Bsd!Connect, StepInv, ConnectorInv
  <2> QED
    BY <2>1, <2>2, <2>3 DEF StepInv
<1>4. CASE Bsd!CancelConnect
  <2>1. Facts' /\ owes' \in BOOLEAN
    BY <1>4 DEF Bsd!CancelConnect, StepInv, Facts, Bsd!kernel
  <2>2. Bsd!PromiseKept' /\ BytesInv' /\ StreamInv'
    BY <1>4 DEF Bsd!CancelConnect, StepInv, Bsd!PromiseKept, BytesInv, StreamInv, Bsd!kernel
  <2>3. ConnectorInv'
    BY <1>4 DEF Bsd!CancelConnect, StepInv, ConnectorInv
  <2> QED
    BY <2>1, <2>2, <2>3 DEF StepInv
<1>5. CASE Bsd!IdleConnector
  <2>1. /\ connector = "pending" /\ connector' = "none" /\ link = "up" /\ told = <<>>
        /\ fault' \in {fault, "erased"} /\ UNCHANGED link
    BY <1>5 DEF Bsd!IdleConnector, StepInv, ConnectorInv
  <2>2. told' \in Seq({"established", "refused"}) /\ Len(told') = 1
    <3>1. PICK outcome \in {"established", "refused"} : told' = Append(told, outcome)
      BY <1>5 DEF Bsd!IdleConnector, Bsd!ConnectorConnected, Bsd!ConnectorFailed
    <3>2. told \in Seq({"established", "refused"}) /\ Len(told) = 0
      BY <2>1 DEF StepInv, Facts
    <3> QED
      BY <3>1, <3>2
  <2>3. ConnectorInv'
    BY <2>1, <2>2 DEF ConnectorInv
  <2>4. CASE Bsd!ConnectorConnected
    <3>1. Bsd!Construct /\ socket' = "closed"
      BY <2>4 DEF Bsd!ConnectorConnected
    <3>2. Facts' /\ owes' \in BOOLEAN
      BY <2>1, <2>2, <3>1, ConstructStep DEF StepInv, Facts
    <3>3. Bsd!PromiseKept' /\ BytesInv'
      BY <3>1, ConstructStep DEF StepInv, Bsd!PromiseKept, BytesInv
    <3>4. StreamInv'
      BY <3>1, ConstructStep DEF StreamInv
    <3> QED
      BY <2>3, <3>2, <3>3, <3>4 DEF StepInv
  <2>5. CASE Bsd!ConnectorFailed
    <3>1. Facts' /\ owes' \in BOOLEAN
      BY <2>1, <2>2, <2>5 DEF Bsd!ConnectorFailed, StepInv, Facts, Bsd!kernel
    <3>2. Bsd!PromiseKept' /\ BytesInv' /\ StreamInv'
      BY <2>5 DEF Bsd!ConnectorFailed, StepInv, Bsd!PromiseKept, BytesInv, StreamInv, Bsd!kernel
    <3> QED
      BY <2>3, <3>1, <3>2 DEF StepInv
  <2> QED
    BY <1>5, <2>4, <2>5 DEF Bsd!IdleConnector
<1> QED
  BY <1>1, <1>2, <1>3, <1>4, <1>5

(***************************************************************************)
(* The event of the constructor.                                           *)
(***************************************************************************)
LEMMA ReceiveEventStep ==
    ASSUME Bsd!ConnectionBsdAssumption, StepInv, Bsd!ReceiveEvent
    PROVE  StepInv'
<1>1. /\ events # <<>> /\ Head(events) = "receive"
      /\ UNCHANGED <<ended, peerSent, connector, link, told>>
  BY DEF Bsd!ReceiveEvent, Bsd!connecting
<1>2. /\ Tail(events) \in Seq(Kinds) /\ OpensOnce(Tail(events))
      /\ Opens(Tail(events)) <=> Opens(events)
  BY <1>1, EventExecuted DEF StepInv, Facts, StreamInv
<1>3. ConnectorInv'
  BY <1>1 DEF StepInv, ConnectorInv
<1>4. CASE /\ life = "freed" /\ fault' = "freed"
           /\ UNCHANGED <<life, conn, events, socket, kernelIn, written, sent, read, owes>>
  <2>1. Facts' /\ owes' \in BOOLEAN
    BY <1>1, <1>4 DEF StepInv, Facts
  <2>2. Bsd!PromiseKept' /\ BytesInv' /\ StreamInv'
    BY <1>1, <1>4 DEF StepInv, Bsd!PromiseKept, BytesInv, StreamInv
  <2> QED
    BY <1>3, <2>1, <2>2 DEF StepInv
<1>5. CASE /\ life' = "freed" /\ socket' = "closed" /\ events' = <<>>
           /\ fault' = IF socket = "closed" THEN "close" ELSE fault
           /\ UNCHANGED <<conn, kernelIn, written, sent, read, owes>>
  <2>1. events' \in Seq(Kinds) /\ OpensOnce(events') /\ ~Opens(events')
    BY <1>5, FewEvents
  <2>2. Facts' /\ owes' \in BOOLEAN
    BY <1>1, <1>5, <2>1 DEF StepInv, Facts
  <2>3. Bsd!PromiseKept' /\ BytesInv'
    BY <1>1, <1>5 DEF StepInv, Bsd!PromiseKept, BytesInv
  <2>4. StreamInv'
    BY <1>5, <2>1 DEF StreamInv
  <2> QED
    BY <1>3, <2>2, <2>3, <2>4 DEF StepInv
<1>6. CASE /\ life \in {"waiting", "attached"}
           /\ conn' = Bsd!Receive(conn) /\ events' = Tail(events) \o Bsd!DataEvent(conn)
           /\ kernelIn' = kernelIn - Bsd!Received(conn)
           /\ UNCHANGED <<life, socket, written, sent, read, owes, fault>>
  <2>1. conn \in ConnType
    BY DEF StepInv, Facts
  <2>2. /\ Bsd!Received(conn) \in 0 .. kernelIn
        /\ conn' \in ConnType /\ conn'.recv = conn.recv + Bsd!Received(conn)
        /\ conn'.send = conn.send /\ conn'.size = conn.size
        /\ conn'.stream = conn.stream /\ conn'.trySend = conn.trySend
        /\ Bsd!DataEvent(conn) \in Seq(Kinds) /\ OpensOnce(Bsd!DataEvent(conn)) /\ ~Opens(Bsd!DataEvent(conn))
    BY <1>6, <2>1, ReceiveStep
  <2>3. events' \in Seq(Kinds) /\ OpensOnce(events') /\ (Opens(events') <=> Opens(events))
    BY <1>2, <1>6, <2>2, EventsAppended
  <2>4. kernelIn' \in 0 .. MaxBytes /\ kernelIn' + conn'.recv = kernelIn + conn.recv
    <3>1. /\ kernelIn \in 0 .. MaxBytes /\ MaxBytes \in Nat /\ conn.recv \in Nat
          /\ conn'.recv = conn.recv + Bsd!Received(conn) /\ kernelIn' = kernelIn - Bsd!Received(conn)
      BY <1>6, <2>2 DEF StepInv, Facts
    <3> QED
      BY <2>2, <3>1
  <2>5. conn'.recv \in 0..RecvSize /\ conn'.send \in 0..SendSize /\ conn'.size \in 0..SendSize
    BY <2>2 DEF ConnType
  <2>6. Facts' /\ owes' \in BOOLEAN
    BY <1>1, <1>6, <2>2, <2>3, <2>4, <2>5 DEF StepInv, Facts
  <2>7. Bsd!PromiseKept' /\ BytesInv'
    BY <1>1, <1>6, <2>2, <2>4, <2>5 DEF StepInv, Facts, Bsd!PromiseKept, BytesInv
  <2>8. StreamInv'
    BY <1>6, <2>2, <2>3 DEF StepInv, StreamInv
  <2> QED
    BY <1>3, <2>6, <2>7, <2>8 DEF StepInv
<1>7. CASE /\ life = "waiting" /\ events' = Tail(events)
           /\ UNCHANGED <<life, conn, socket, kernelIn, written, sent, read, owes, fault>>
  <2>1. Facts' /\ owes' \in BOOLEAN
    BY <1>1, <1>2, <1>7 DEF StepInv, Facts
  <2>2. Bsd!PromiseKept' /\ BytesInv'
    BY <1>1, <1>7 DEF StepInv, Bsd!PromiseKept, BytesInv
  <2>3. StreamInv'
    BY <1>2, <1>7 DEF StepInv, StreamInv
  <2> QED
    BY <1>3, <2>1, <2>2, <2>3 DEF StepInv
<1> QED
  BY <1>4, <1>5, <1>6, <1>7 DEF Bsd!ReceiveEvent

(***************************************************************************)
(* The other events: DataReceived and SendStreamAvailable.                 *)
(***************************************************************************)
LEMMA EventSteps ==
    ASSUME Bsd!ConnectionBsdAssumption, StepInv,
           Bsd!DataReceived \/ Bsd!SendStreamAvailable \/ Bsd!AckReceived
    PROVE  StepInv'
<1>1. ASSUME Bsd!ReadAll
      PROVE  /\ conn' \in ConnType
             /\ conn'.recv = 0 /\ conn'.send = conn.send /\ conn'.size = conn.size
             /\ conn'.stream = conn.stream
             /\ conn'.recv \in 0..RecvSize /\ read' \in 0..MaxBytes
             /\ peerSent = kernelIn + conn'.recv + read'
  <2>1. conn \in ConnType /\ RecvSize \in Nat
    BY DEF StepInv, Facts
  <2>2. /\ conn' \in ConnType
        /\ conn'.recv = 0 /\ conn'.send = conn.send /\ conn'.size = conn.size
        /\ conn'.stream = conn.stream
    BY <1>1, <2>1 DEF Bsd!ReadAll, ConnType
  <2>3. /\ kernelIn \in 0..MaxBytes /\ peerSent \in 0..MaxBytes /\ read \in 0..MaxBytes
        /\ MaxBytes \in Nat /\ conn.recv \in Nat
        /\ peerSent = kernelIn + conn.recv + read
    BY DEF StepInv, Facts, BytesInv
  <2>4. read' = read + conn.recv
    BY <1>1 DEF Bsd!ReadAll
  <2>5. read' \in 0..MaxBytes /\ peerSent = kernelIn + 0 + read'
    BY <2>3, <2>4
  <2> QED
    BY <2>1, <2>2, <2>5
<1>2. CASE Bsd!DataReceived
  <2>1. /\ events # <<>> /\ Head(events) = "data" /\ events' = Tail(events)
        /\ UNCHANGED <<life, socket, kernelIn, ended, peerSent, written, sent, connector, link, told>>
        /\ fault' \in {fault, "noObserver"}
    BY <1>2 DEF Bsd!DataReceived, Bsd!kernel, Bsd!connecting
  <2>2. events' \in Seq(Kinds) /\ OpensOnce(events') /\ (Opens(events') <=> Opens(events))
    BY <2>1, EventExecuted DEF StepInv, Facts, StreamInv
  <2>3. CASE life = "attached" /\ Bsd!ReadAll /\ owes' = FALSE
    <3>1. Facts' /\ owes' \in BOOLEAN
      BY <1>1, <2>1, <2>2, <2>3 DEF StepInv, Facts
    <3>2. Bsd!PromiseKept' /\ BytesInv' /\ ConnectorInv'
      BY <1>1, <2>1, <2>3 DEF StepInv, Bsd!PromiseKept, BytesInv, ConnectorInv
    <3>3. StreamInv'
      BY <1>1, <2>1, <2>2, <2>3 DEF StepInv, StreamInv
    <3> QED
      BY <3>1, <3>2, <3>3 DEF StepInv
  <2>4. CASE owes' \in BOOLEAN /\ UNCHANGED <<conn, read>>
    <3>1. Facts'
      BY <2>1, <2>2, <2>4 DEF StepInv, Facts
    <3>2. Bsd!PromiseKept' /\ BytesInv' /\ ConnectorInv'
      BY <2>1, <2>4 DEF StepInv, Bsd!PromiseKept, BytesInv, ConnectorInv
    <3>3. StreamInv'
      BY <2>1, <2>2, <2>4 DEF StepInv, StreamInv
    <3> QED
      BY <2>4, <3>1, <3>2, <3>3 DEF StepInv
  <2> QED
    BY <1>2, <2>3, <2>4 DEF Bsd!DataReceived, StepInv
<1>3. CASE Bsd!SendStreamAvailable
  <2>1. /\ events # <<>> /\ Head(events) = "stream" /\ events' = Tail(events)
        /\ conn' = [conn EXCEPT !.stream = "open"]
        /\ UNCHANGED <<life, socket, kernelIn, ended, peerSent, written, sent, read, owes,
                       connector, link, told, fault>>
    BY <1>3 DEF Bsd!SendStreamAvailable, Bsd!kernel, Bsd!connecting
  <2>2. events' \in Seq(Kinds) /\ OpensOnce(events') /\ ~Opens(events') /\ Opens(events)
    BY <2>1, EventExecuted DEF StepInv, Facts, StreamInv
  <2>3. conn.stream = "scheduled" /\ life \notin {"none", "waiting"}
    BY <2>2 DEF StepInv, StreamInv
  <2>4. /\ conn' \in ConnType /\ conn'.stream = "open"
        /\ conn'.recv = conn.recv /\ conn'.send = conn.send /\ conn'.size = conn.size
    BY <2>1 DEF StepInv, Facts, ConnType
  <2>5. Facts' /\ owes' \in BOOLEAN
    BY <2>1, <2>2, <2>4 DEF StepInv, Facts
  <2>6. Bsd!PromiseKept' /\ BytesInv' /\ ConnectorInv'
    BY <2>1, <2>3, <2>4 DEF StepInv, Bsd!PromiseKept, BytesInv, ConnectorInv
  <2>7. StreamInv'
    BY <2>1, <2>2, <2>3, <2>4 DEF StreamInv
  <2> QED
    BY <2>5, <2>6, <2>7 DEF StepInv
<1>4. CASE Bsd!AckReceived
  <2>1. /\ Bsd!ReadAll /\ owes' = FALSE /\ life = "attached"
        /\ UNCHANGED <<life, events, socket, kernelIn, ended, peerSent, written, sent,
                       connector, link, told, fault>>
    BY <1>4 DEF Bsd!AckReceived, Bsd!kernel, Bsd!connecting
  <2>2. Facts' /\ owes' \in BOOLEAN
    BY <1>1, <2>1 DEF StepInv, Facts
  <2>3. Bsd!PromiseKept' /\ BytesInv' /\ ConnectorInv'
    BY <1>1, <2>1 DEF StepInv, Bsd!PromiseKept, BytesInv, ConnectorInv
  <2>4. StreamInv'
    BY <1>1, <2>1 DEF StepInv, StreamInv
  <2> QED
    BY <2>2, <2>3, <2>4 DEF StepInv
<1> QED
  BY <1>2, <1>3, <1>4

(***************************************************************************)
(* Idle: Send, Receive and Send again, each of which may schedule a        *)
(* stream, or the end of the connection.                                   *)
(***************************************************************************)
LEMMA IdleStep ==
    ASSUME Bsd!ConnectionBsdAssumption, StepInv,
           NEW k1 \in 0..SendSize, NEW k2 \in 0..SendSize, Bsd!Idle(k1, k2)
    PROVE  StepInv'
<1> DEFINE c1 == Bsd!TrySend(conn, k1)
           r == Bsd!Receive(c1)
           c2 == Bsd!Send(r, k2)
<1>1. /\ life = "attached" /\ events = <<>>
      /\ k1 + k2 <= conn.send /\ (k1 > 0 => conn.trySend)
      /\ UNCHANGED <<ended, peerSent, connector, link, told>>
  BY DEF Bsd!Idle, Bsd!connecting
<1>2. ConnectorInv'
  BY <1>1 DEF StepInv, ConnectorInv
<1>3. conn \in ConnType /\ SendSize \in Nat /\ conn.send \in 0..SendSize
  BY DEF StepInv, Facts
<1>4. conn.stream \in {"scheduled", "open"} => conn.send + conn.size <= SendSize
  BY DEF StepInv, Bsd!PromiseKept
<1>5. conn.stream # "scheduled"
  BY <1>1, FewEvents DEF StepInv, StreamInv
<1>6. /\ c1 \in ConnType
      /\ c1.recv = conn.recv /\ c1.send = conn.send - k1 /\ c1.size = conn.size
      /\ c1.stream \in {"scheduled", "open"} => c1.send + c1.size <= SendSize
      /\ c1.stream = conn.stream \/ (conn.stream = "requested" /\ c1.stream = "scheduled")
  <2>1. CASE conn.trySend
    <3> DEFINE b == [conn EXCEPT !.trySend = FALSE]
    <3>1. /\ b \in ConnType /\ b.recv = conn.recv /\ b.send = conn.send /\ b.size = conn.size
          /\ b.stream = conn.stream
      BY <1>3 DEF ConnType
    <3>2. c1 = Bsd!Send(b, k1)
      BY <2>1 DEF Bsd!TrySend
    <3>3. k1 \in 0 .. b.send
      BY <1>1, <1>3, <3>1
    <3> HIDE DEF b
    <3> QED
      BY <1>4, <3>1, <3>2, <3>3, SendStep
  <2>2. CASE ~conn.trySend
    <3>1. c1 = conn /\ k1 = 0
      BY <1>1, <2>2 DEF Bsd!TrySend
    <3> QED
      BY <1>3, <1>4, <3>1
  <2> QED
    BY <2>1, <2>2
<1> HIDE DEF c1
<1>7. CASE socket = "closed"
  <2>1. /\ fault' = "select"
        /\ UNCHANGED <<life, conn, events, socket, kernelIn, written, sent, read, owes>>
    BY <1>7 DEF Bsd!Idle
  <2>2. Facts' /\ owes' \in BOOLEAN
    BY <1>1, <2>1 DEF StepInv, Facts
  <2>3. Bsd!PromiseKept' /\ BytesInv' /\ StreamInv'
    BY <1>1, <2>1 DEF StepInv, Bsd!PromiseKept, BytesInv, StreamInv
  <2> QED
    BY <1>2, <2>2, <2>3 DEF StepInv
<1>8. CASE Bsd!Free
  <2>1. Facts' /\ owes' \in BOOLEAN
    BY <1>1, <1>8, FreeStep DEF StepInv, Facts
  <2>2. Bsd!PromiseKept' /\ BytesInv'
    BY <1>1, <1>8, FreeStep DEF StepInv, Bsd!PromiseKept, BytesInv
  <2>3. StreamInv'
    BY <1>8, FreeStep DEF StreamInv
  <2> QED
    BY <1>2, <2>1, <2>2, <2>3 DEF StepInv
<1>9. CASE /\ conn' = c2
           /\ events' = Bsd!StreamEvent(conn, c1) \o Bsd!DataEvent(c1) \o Bsd!StreamEvent(c1, c2)
           /\ kernelIn' = kernelIn - Bsd!Received(c1)
           /\ sent' = sent + k1 + k2
           /\ UNCHANGED <<life, socket, written, read, owes, fault>>
  <2>1. /\ Bsd!Received(c1) \in 0 .. kernelIn
        /\ r \in ConnType /\ r.recv = c1.recv + Bsd!Received(c1)
        /\ r.send = c1.send /\ r.size = c1.size /\ r.stream = c1.stream
        /\ Bsd!DataEvent(c1) \in Seq(Kinds) /\ OpensOnce(Bsd!DataEvent(c1)) /\ ~Opens(Bsd!DataEvent(c1))
    BY <1>6, ReceiveStep
  <2> HIDE DEF r
  <2>2. k2 \in 0 .. r.send
    BY <1>1, <1>3, <1>6, <2>1
  <2>3. /\ c2 \in ConnType
        /\ c2.recv = r.recv /\ c2.send = r.send - k2 /\ c2.size = r.size
        /\ c2.stream \in {"scheduled", "open"} => c2.send + c2.size <= SendSize
        /\ c2.stream = r.stream \/ (r.stream = "requested" /\ c2.stream = "scheduled")
    BY <1>6, <2>1, <2>2, SendStep
  <2> HIDE DEF c2
  <2>4. ASSUME NEW c, NEW d
        PROVE  /\ Bsd!StreamEvent(c, d) \in Seq(Kinds) /\ OpensOnce(Bsd!StreamEvent(c, d))
               /\ Opens(Bsd!StreamEvent(c, d)) <=> c.stream = "requested" /\ d.stream = "scheduled"
    <3>1. "stream" \in Kinds
      BY DEF Kinds
    <3>2. Bsd!StreamEvent(c, d) =
            IF c.stream = "requested" /\ d.stream = "scheduled" THEN <<"stream">> ELSE <<>>
      BY DEF Bsd!StreamEvent
    <3> QED
      BY <3>1, <3>2, FewEvents
  <2>5. /\ Bsd!StreamEvent(conn, c1) \o Bsd!DataEvent(c1) \in Seq(Kinds)
        /\ OpensOnce(Bsd!StreamEvent(conn, c1) \o Bsd!DataEvent(c1))
        /\ Opens(Bsd!StreamEvent(conn, c1) \o Bsd!DataEvent(c1))
              <=> conn.stream = "requested" /\ c1.stream = "scheduled"
    BY <2>1, <2>4, EventsAppended
  <2>6. /\ events' \in Seq(Kinds) /\ OpensOnce(events')
        /\ Opens(events') <=> \/ conn.stream = "requested" /\ c1.stream = "scheduled"
                              \/ c1.stream = "requested" /\ c2.stream = "scheduled"
    <3>1. ~(c1.stream = "scheduled" /\ c1.stream = "requested")
      OBVIOUS
    <3> QED
      BY <1>9, <2>4, <2>5, <3>1, EventsAppended
  <2>7. Opens(events') <=> conn'.stream = "scheduled"
    BY <1>5, <1>6, <1>9, <2>1, <2>3, <2>6
  <2>8. conn'.recv \in 0..RecvSize /\ conn'.send \in 0..SendSize /\ conn'.size \in 0..SendSize
    BY <1>9, <2>3 DEF ConnType
  <2>9. /\ conn'.send = conn.send - k1 - k2 /\ conn'.size = conn.size
        /\ kernelIn' \in 0 .. MaxBytes /\ kernelIn' + conn'.recv = kernelIn + conn.recv
    <3>1. conn'.send = conn.send - k1 - k2 /\ conn'.size = conn.size
      BY <1>3, <1>6, <1>9, <2>1, <2>3
    <3>2. /\ kernelIn \in 0 .. MaxBytes /\ MaxBytes \in Nat /\ conn.recv \in Nat
          /\ conn'.recv = conn.recv + Bsd!Received(c1) /\ kernelIn' = kernelIn - Bsd!Received(c1)
      BY <1>6, <1>9, <2>1, <2>3 DEF StepInv, Facts
    <3>3. kernelIn' \in 0 .. MaxBytes /\ kernelIn' + conn'.recv = kernelIn + conn.recv
      BY <2>1, <3>2
    <3> QED
      BY <3>1, <3>3
  <2>10. sent' + conn'.send = written /\ sent' \in 0 .. MaxBytes
    <3>1. /\ sent \in 0 .. MaxBytes /\ written \in 0 .. MaxBytes /\ MaxBytes \in Nat
          /\ written = sent + conn.send
      BY DEF StepInv, Facts, BytesInv
    <3>2. conn'.send = conn.send - k1 - k2 /\ sent' = sent + k1 + k2
      BY <1>9, <2>9
    <3>3. sent' + conn'.send = written /\ sent' >= 0 /\ conn'.send >= 0
      BY <1>1, <1>3, <3>1, <3>2
    <3> QED
      BY <1>3, <3>1, <3>2, <3>3
  <2>11. Facts' /\ owes' \in BOOLEAN
    BY <1>1, <1>9, <2>3, <2>6, <2>8, <2>9, <2>10 DEF StepInv, Facts
  <2>12. Bsd!PromiseKept'
    BY <1>9, <2>3 DEF Bsd!PromiseKept
  <2>13. BytesInv'
    <3>1. conn'.stream # "none" => conn.stream # "none"
      BY <1>6, <1>9, <2>1, <2>3
    <3> QED
      BY <1>1, <1>9, <2>8, <2>9, <2>10, <3>1 DEF StepInv, Facts, BytesInv
  <2>14. StreamInv'
    BY <1>1, <1>9, <2>6, <2>7 DEF StreamInv
  <2> QED
    BY <1>2, <2>11, <2>12, <2>13, <2>14 DEF StepInv
<1> QED
  BY <1>7, <1>8, <1>9 DEF Bsd!Idle, c1, r, c2

(***************************************************************************)
(* The observer that writes or ends the connection, and the peer.          *)
(***************************************************************************)
LEMMA ObserverSteps ==
    ASSUME Bsd!ConnectionBsdAssumption, StepInv,
           \/ \E n \in 1..SendSize : Bsd!RequestSendStream(n)
           \/ Bsd!SomeWriterClosed \/ Bsd!AbortAndDestroy \/ Bsd!PeerSends \/ Bsd!PeerEnds
    PROVE  StepInv'
<1>1. /\ conn \in ConnType /\ SendSize \in Nat /\ MaxBytes \in Nat
      /\ conn.send \in 0..SendSize /\ conn.size \in 0..SendSize
      /\ written \in 0..MaxBytes /\ sent \in 0..MaxBytes /\ written = sent + conn.send
  BY DEF StepInv, Facts, BytesInv
<1>2. ASSUME NEW n \in 1..SendSize, Bsd!RequestSendStream(n)
      PROVE  StepInv'
  <2> DEFINE asked == [conn EXCEPT !.stream = "requested", !.size = n]
             c == Bsd!TryAllocateSendStream(asked)
  <2>1. /\ life = "attached" /\ conn.stream = "none" /\ written + n <= MaxBytes
        /\ conn' = c /\ events' = events \o Bsd!StreamEvent(asked, c)
        /\ UNCHANGED <<life, socket, kernelIn, ended, peerSent, written, sent, read, owes,
                       connector, link, told, fault>>
    BY <1>2 DEF Bsd!RequestSendStream, Bsd!kernel, Bsd!connecting
  <2>2. /\ asked \in ConnType /\ asked.stream = "requested"
        /\ asked.recv = conn.recv /\ asked.send = conn.send /\ asked.size = n
    <3>1. n \in 0..SendSize
      BY <1>1
    <3> QED
      BY <1>1, <3>1 DEF ConnType
  <2> HIDE DEF asked
  <2>3. /\ c \in ConnType
        /\ c.recv = conn.recv /\ c.send = conn.send /\ c.size = n
        /\ c.stream \in {"scheduled", "open"} => c.send + c.size <= SendSize
        /\ c.stream \in {"requested", "scheduled"}
    BY <2>2, AllocateStep
  <2> HIDE DEF c
  <2>4. /\ Bsd!StreamEvent(asked, c) \in Seq(Kinds) /\ OpensOnce(Bsd!StreamEvent(asked, c))
        /\ Opens(Bsd!StreamEvent(asked, c)) <=> c.stream = "scheduled"
    <3>1. "stream" \in Kinds
      BY DEF Kinds
    <3> QED
      BY <2>2, <3>1, FewEvents DEF Bsd!StreamEvent
  <2>5. ~Opens(events) /\ OpensOnce(events) /\ events \in Seq(Kinds)
    BY <2>1 DEF StepInv, StreamInv, Facts
  <2>6. /\ events' \in Seq(Kinds) /\ OpensOnce(events')
        /\ Opens(events') <=> conn'.stream = "scheduled"
    BY <2>1, <2>4, <2>5, EventsAppended
  <2>7. conn'.recv \in 0..RecvSize /\ conn'.send \in 0..SendSize /\ conn'.size \in 0..SendSize
    BY <2>1, <2>3 DEF ConnType
  <2>8. Facts' /\ owes' \in BOOLEAN
    BY <2>1, <2>3, <2>6, <2>7 DEF StepInv, Facts
  <2>9. Bsd!PromiseKept' /\ BytesInv' /\ ConnectorInv'
    BY <2>1, <2>3 DEF StepInv, Bsd!PromiseKept, BytesInv, ConnectorInv
  <2>10. StreamInv'
    BY <2>1, <2>6 DEF StreamInv
  <2> QED
    BY <2>8, <2>9, <2>10 DEF StepInv
<1>3. ASSUME NEW m \in 0..SendSize, Bsd!CloseWriter(m)
      PROVE  StepInv'
  <2>1. /\ life = "attached" /\ conn.stream = "open" /\ m <= conn.size
        /\ conn' = [conn EXCEPT !.stream = "none", !.send = @ + m, !.trySend = TRUE]
        /\ written' = written + m
        /\ UNCHANGED <<life, events, socket, kernelIn, ended, peerSent, sent, read, owes,
                       connector, link, told, fault>>
    BY <1>3 DEF Bsd!CloseWriter, Bsd!kernel, Bsd!connecting
  <2>2. conn.send + conn.size <= SendSize /\ written + conn.size <= MaxBytes
    BY <2>1 DEF StepInv, Bsd!PromiseKept, BytesInv
  <2>3. /\ conn.send + m \in 0..SendSize
        /\ written' \in 0..MaxBytes /\ written' = sent + (conn.send + m)
    BY <1>1, <2>1, <2>2
  <2>4. /\ conn' \in ConnType /\ conn'.stream = "none" /\ conn'.recv = conn.recv
        /\ conn'.send = conn.send + m /\ conn'.size = conn.size
    BY <1>1, <2>1, <2>3 DEF ConnType
  <2>5. Facts' /\ owes' \in BOOLEAN
    BY <2>1, <2>3, <2>4 DEF StepInv, Facts
  <2>6. Bsd!PromiseKept' /\ BytesInv' /\ ConnectorInv'
    BY <2>1, <2>3, <2>4 DEF StepInv, Bsd!PromiseKept, BytesInv, ConnectorInv
  <2>7. StreamInv'
    BY <2>1, <2>4 DEF StepInv, StreamInv
  <2> QED
    BY <2>5, <2>6, <2>7 DEF StepInv
<1>4. CASE Bsd!AbortAndDestroy
  <2>1. Bsd!Free /\ UNCHANGED <<ended, peerSent, connector, link, told>>
    BY <1>4 DEF Bsd!AbortAndDestroy, Bsd!connecting
  <2>2. Facts' /\ owes' \in BOOLEAN
    BY <2>1, FreeStep DEF StepInv, Facts
  <2>3. Bsd!PromiseKept' /\ BytesInv' /\ ConnectorInv'
    BY <2>1, FreeStep DEF StepInv, Bsd!PromiseKept, BytesInv, ConnectorInv
  <2>4. StreamInv'
    BY <2>1, FreeStep DEF StreamInv
  <2> QED
    BY <2>2, <2>3, <2>4 DEF StepInv
<1>5. CASE Bsd!PeerSends
  <2>1. /\ peerSent < MaxBytes /\ kernelIn' = kernelIn + 1 /\ peerSent' = peerSent + 1
        /\ UNCHANGED <<life, conn, events, socket, ended, written, sent, read, owes,
                       connector, link, told, fault>>
    BY <1>5 DEF Bsd!PeerSends, Bsd!connecting
  <2>2. /\ kernelIn \in Nat /\ peerSent \in Nat /\ conn.recv \in Nat /\ read \in Nat
        /\ peerSent = kernelIn + conn.recv + read
    BY DEF StepInv, Facts, BytesInv
  <2>3. /\ kernelIn' \in 0..MaxBytes /\ peerSent' \in 0..MaxBytes
        /\ peerSent' = kernelIn' + conn.recv + read
    BY <1>1, <2>1, <2>2
  <2>4. Facts' /\ owes' \in BOOLEAN
    BY <2>1, <2>3 DEF StepInv, Facts
  <2>5. Bsd!PromiseKept' /\ BytesInv' /\ ConnectorInv' /\ StreamInv'
    BY <2>1, <2>3 DEF StepInv, Bsd!PromiseKept, BytesInv, ConnectorInv, StreamInv
  <2> QED
    BY <2>4, <2>5 DEF StepInv
<1>6. CASE Bsd!PeerEnds
  <2>1. /\ ended' \in {"fin", "reset"}
        /\ UNCHANGED <<life, conn, events, socket, kernelIn, peerSent, written, sent, read, owes,
                       connector, link, told, fault>>
    BY <1>6 DEF Bsd!PeerEnds, Bsd!connecting, Bsd!ConnectionBsdAssumption
  <2>2. Facts' /\ owes' \in BOOLEAN
    BY <2>1 DEF StepInv, Facts
  <2>3. Bsd!PromiseKept' /\ BytesInv' /\ ConnectorInv' /\ StreamInv'
    BY <2>1 DEF StepInv, Bsd!PromiseKept, BytesInv, ConnectorInv, StreamInv
  <2> QED
    BY <2>2, <2>3 DEF StepInv
<1> QED
  BY <1>2, <1>3, <1>4, <1>5, <1>6 DEF Bsd!SomeWriterClosed

(***************************************************************************)
(* The thread that waits in recv or send, and what has not changed.        *)
(***************************************************************************)
LEMMA WaitsStep ==
    ASSUME StepInv, Bsd!Waits \/ UNCHANGED Bsd!vars
    PROVE  StepInv'
<1>1. Facts' /\ owes' \in BOOLEAN
  BY DEF Bsd!Waits, StepInv, Facts, Bsd!vars, Bsd!kernel, Bsd!connecting
<1>2. Bsd!PromiseKept' /\ BytesInv' /\ ConnectorInv' /\ StreamInv'
  BY DEF Bsd!Waits, StepInv, Bsd!PromiseKept, BytesInv, ConnectorInv, StreamInv, Bsd!vars,
         Bsd!kernel, Bsd!connecting
<1> QED
  BY <1>1, <1>2 DEF StepInv

(***************************************************************************)
(* Whether the socket blocks, and whether the thread does.                 *)
(***************************************************************************)
LEMMA BlockingStep ==
    ASSUME Bsd!ConnectionBsdAssumption, blocking \in BOOLEAN, stuck \in BOOLEAN, Bsd!Next
    PROVE  blocking' \in BOOLEAN /\ stuck' \in BOOLEAN
<1>1. stuck' = stuck \/ stuck' = TRUE \/ stuck' = FALSE
  BY Zenon DEF Bsd!Next, Bsd!Does, Bsd!Completes, Bsd!Waits
<1>2. blocking' = blocking \/ blocking' \in Blocking
  BY DEF Bsd!Next, Bsd!Does, Bsd!Completes, Bsd!Waits, Bsd!kernel, Bsd!Accept, Bsd!SetObserver,
         Bsd!Connect, Bsd!CancelConnect, Bsd!IdleConnector, Bsd!ConnectorConnected,
         Bsd!ConnectorFailed, Bsd!DataReceived, Bsd!SendStreamAvailable, Bsd!RequestSendStream,
         Bsd!SomeWriterClosed, Bsd!CloseWriter, Bsd!AckReceived, Bsd!AbortAndDestroy,
         Bsd!ReceiveEvent, Bsd!SomeIdle, Bsd!Idle, Bsd!PeerSends, Bsd!PeerEnds
<1>3. Blocking \subseteq BOOLEAN
  BY Zenon DEF Bsd!ConnectionBsdAssumption
<1> QED
  BY <1>1, <1>2, <1>3, Zenon

(***************************************************************************)
(* Connections on sockets are safe, for buffers of any size and however    *)
(* connections are made and end: every variable keeps its type, so that    *)
(* no buffer holds more than it may; the send buffer has room for the      *)
(* stream that TryAllocateSendStream promised, when its writer is closed;  *)
(* exactly one event opens it; and a connector tells its factory once.     *)
(* It holds whether or not accepted sockets block, and whatever part of a  *)
(* send buffer the kernel takes.                                           *)
(***************************************************************************)
THEOREM BsdIsSafe ==
    Bsd!ConnectionBsdAssumption /\ Bsd!Spec /\ [](subject = "bsd") => []BsdSafe
<1>1. Bsd!ConnectionBsdAssumption /\ Bsd!Init => BsdInv
  <2> SUFFICES ASSUME Bsd!ConnectionBsdAssumption, Bsd!Init
               PROVE  BsdInv
    OBVIOUS
  <2>1. /\ conn = Bsd!Constructed /\ Bsd!Constructed \in ConnType
        /\ conn.recv = 0 /\ conn.send = 0 /\ conn.stream = "none" /\ conn.size = 0
    <3>1. RecvSize \in Nat /\ SendSize \in Nat
      BY DEF Bsd!ConnectionBsdAssumption
    <3>2. Bsd!Constructed \in ConnType
      BY <3>1 DEF Bsd!Constructed, ConnType
    <3> QED
      BY <3>2 DEF Bsd!Init, Bsd!Constructed
  <2>2. Facts /\ owes \in BOOLEAN
    <3>1. owes \in BOOLEAN
      BY Zenon DEF Bsd!Init
    <3>2. events \in Seq(Kinds) /\ told \in Seq({"established", "refused"})
      BY DEF Bsd!Init
    <3>3. /\ conn \in ConnType /\ conn.recv \in 0..RecvSize
          /\ conn.send \in 0..SendSize /\ conn.size \in 0..SendSize
      BY <2>1 DEF Bsd!ConnectionBsdAssumption
    <3> QED
      BY <3>1, <3>2, <3>3 DEF Bsd!Init, Facts, Bsd!ConnectionBsdAssumption
  <2>3. Bsd!PromiseKept /\ BytesInv /\ ConnectorInv
    BY <2>1 DEF Bsd!Init, Bsd!PromiseKept, BytesInv, ConnectorInv
  <2>4. StreamInv
    BY <2>1, FewEvents DEF Bsd!Init, StreamInv
  <2>5. {blocking, stuck} \subseteq BOOLEAN
    BY Zenon DEF Bsd!Init
  <2> QED
    BY <2>2, <2>3, <2>4, <2>5, TypesFollow DEF BsdInv
<1>2. Bsd!ConnectionBsdAssumption /\ BsdInv /\ [Bsd!Next]_Bsd!vars => BsdInv'
  <2> SUFFICES ASSUME Bsd!ConnectionBsdAssumption, BsdInv, [Bsd!Next]_Bsd!vars
               PROVE  BsdInv'
    OBVIOUS
  <2>1. StepInv
    BY FactsFollow DEF BsdInv, StepInv
  <2>2. StepInv'
    <3>1. CASE Bsd!Next
      BY <2>1, <3>1, ConnectingSteps, ReceiveEventStep, EventSteps, IdleStep, ObserverSteps,
         WaitsStep
      DEF Bsd!Next, Bsd!Does, Bsd!Completes, Bsd!SomeIdle
    <3> QED
      BY <2>1, <3>1, WaitsStep
  <2>3. ({blocking, stuck} \subseteq BOOLEAN)'
    <3>1. blocking \in BOOLEAN /\ stuck \in BOOLEAN
      BY Zenon DEF BsdInv, Bsd!TypeOK
    <3>2. CASE Bsd!Next
      BY <3>1, <3>2, BlockingStep
    <3>3. CASE UNCHANGED Bsd!vars
      BY <3>1, <3>3 DEF Bsd!vars, Bsd!kernel
    <3> QED
      BY <3>2, <3>3
  <2>4. Bsd!TypeOK'
    <3>1. Facts' /\ (owes \in BOOLEAN)' /\ ({blocking, stuck} \subseteq BOOLEAN)' => Bsd!TypeOK'
      BY TypesFollow, PTL
    <3> QED
      BY <2>2, <2>3, <3>1 DEF StepInv
  <2> QED
    BY <2>2, <2>4 DEF BsdInv, StepInv
<1>3. Bsd!ConnectionBsdAssumption /\ BsdInv /\ subject = "bsd" => BsdSafe
  <2> SUFFICES ASSUME BsdInv, subject = "bsd"
               PROVE  BsdSafe
    OBVIOUS
  <2>1. DOMAIN events = 1 .. Len(events)
    BY DEF BsdInv, Bsd!TypeOK
  <2>2. Bsd!OneStreamEvent
    BY <2>1 DEF BsdInv, StreamInv, Opens, OpensOnce, Bsd!OneStreamEvent
  <2> QED
    BY <2>2 DEF BsdInv, ConnectorInv, BsdSafe, Bsd!BsdSafe, Bsd!ToldOnce
<1>4. Bsd!ConnectionBsdAssumption => []Bsd!ConnectionBsdAssumption
  OBVIOUS
<1> QED
  BY <1>1, <1>2, <1>3, <1>4, PTL DEF Bsd!Spec


-----------------------------------------------------------------------------
(* ConnectionLwIp: units and buffers *)

Segments == [mem : Memory, size : 1 .. MaxSegment]

(***************************************************************************)
(* A set of natural numbers has a least one.                               *)
(***************************************************************************)
LEMMA LeastNumber ==
    ASSUME NEW S, S \subseteq Nat, S /= {}
    PROVE  \E i \in S : \A j \in S : i <= j
<1> DEFINE R == OpToRel(<, Nat)
<1>1. IsWellFoundedOn(R, Nat)
  BY NatLessThanWellFounded
<1>2. \A i, j \in Nat : j < i => <<j, i>> \in R
  BY DEF OpToRel
<1> HIDE DEF R
<1>3. PICK i \in S : \A j \in S : <<j, i>> \notin R
  BY <1>1, WFMin
<1>4. \A j \in S : ~(j < i)
  BY <1>2, <1>3
<1> QED
  BY <1>4

SameSteps(n, f, g) == f[0] = g[0] /\ \A k \in 1 .. n : f[k - 1] = g[k - 1] => f[k] = g[k]

(***************************************************************************)
(* Two sequences of sums with the same steps are the same.                 *)
(***************************************************************************)
LEMMA SameSums ==
    ASSUME NEW n \in Nat, NEW f, NEW g, SameSteps(n, f, g)
    PROVE  \A k \in 0 .. n : f[k] = g[k]
<1> DEFINE bad == {k \in 0 .. n : f[k] /= g[k]}
<1> SUFFICES ASSUME bad /= {} PROVE FALSE
  OBVIOUS
<1>1. PICK k \in bad : \A j \in bad : k <= j
  <2>1. bad \subseteq Nat
    OBVIOUS
  <2> HIDE DEF bad
  <2> QED
    BY <2>1, LeastNumber
<1>2. k \in 1 .. n /\ f[k] /= g[k]
  BY <1>1 DEF SameSteps
<1>3. k - 1 \in 0 .. n /\ k - 1 \notin bad
  BY <1>1, <1>2
<1> QED
  BY <1>2, <1>3 DEF SameSteps

\* f[k] are the units in the first k of the buffers b.
IsSums(b, f) ==
    /\ f \in [0 .. Len(b) -> Nat]
    /\ f[0] = 0
    /\ \A k \in 1 .. Len(b) : f[k] = f[k - 1] + b[k].size

(***************************************************************************)
(* There are such sums.                                                    *)
(***************************************************************************)
LEMMA SumsExist ==
    ASSUME NEW b \in Seq(Segments)
    PROVE  \E f : IsSums(b, f)
<1> DEFINE n == Len(b)
           Good(m) == \E f \in [0 .. m -> Nat] :
                          f[0] = 0 /\ \A k \in 1 .. m : f[k] = f[k - 1] + b[k].size
           bad == {m \in 0 .. n : ~Good(m)}
<1>0. n \in Nat /\ \A k \in 1 .. n : b[k].size \in Nat
  <2>1. \A k \in 1 .. n : b[k] \in Segments
    OBVIOUS
  <2> QED
    BY <2>1, SizesAssumption DEF Segments
<1> SUFFICES ASSUME bad /= {} PROVE FALSE
  <2>1. Good(n) => \E f : IsSums(b, f)
    BY DEF IsSums
  <2>2. n \in 0 .. n
    BY <1>0
  <2> HIDE DEF Good
  <2> QED
    BY <2>1, <2>2
<1> HIDE DEF n
<1>1. PICK m \in bad : \A j \in bad : m <= j
  <2>1. bad \subseteq Nat
    BY <1>0
  <2> HIDE DEF bad
  <2> QED
    BY <2>1, LeastNumber
<1>2. Good(0)
  <2>1. [i \in 0 .. 0 |-> 0] \in [0 .. 0 -> Nat] /\ [i \in 0 .. 0 |-> 0][0] = 0 /\ 1 .. 0 = {}
    OBVIOUS
  <2> QED
    BY <2>1
<1>3. m \in 1 .. n
  <2>1. m \in 0 .. n /\ ~Good(m)
    BY <1>1
  <2> HIDE DEF Good
  <2> QED
    BY <1>0, <1>2, <2>1
<1>4. Good(m - 1)
  <2>1. m - 1 \in 0 .. n /\ ~(m <= m - 1)
    BY <1>0, <1>3
  <2>2. m - 1 \notin bad
    <3> HIDE DEF bad
    <3> QED
      BY <1>1, <2>1
  <2> QED
    BY <2>1, <2>2
<1>5. PICK f \in [0 .. m - 1 -> Nat] :
         f[0] = 0 /\ \A k \in 1 .. m - 1 : f[k] = f[k - 1] + b[k].size
  BY <1>4
<1> DEFINE h == [i \in 0 .. m |-> IF i = m THEN f[m - 1] + b[m].size ELSE f[i]]
<1>6. f[m - 1] + b[m].size \in Nat
  <2>1. f[m - 1] \in Nat
    BY <1>0, <1>3, <1>5
  <2> QED
    BY <1>0, <1>3, <2>1
<1>7. h \in [0 .. m -> Nat]
  <2> SUFFICES ASSUME NEW i \in 0 .. m PROVE (IF i = m THEN f[m - 1] + b[m].size ELSE f[i]) \in Nat
    OBVIOUS
  <2>1. i /= m => i \in 0 .. m - 1
    BY <1>0, <1>3
  <2> QED
    BY <1>5, <1>6, <2>1
<1>8. h[0] = 0
  BY <1>0, <1>3, <1>5
<1>9. ASSUME NEW i \in 1 .. m
      PROVE  h[i] = h[i - 1] + b[i].size
  <2>1. i - 1 \in 0 .. m /\ i - 1 /= m /\ i \in 0 .. m
    BY <1>0, <1>3
  <2>2. h[i - 1] = f[i - 1]
    BY <2>1
  <2>3. CASE i = m
    BY <2>1, <2>2, <2>3
  <2>4. CASE i /= m
    <3>1. i \in 1 .. m - 1
      BY <1>0, <1>3, <2>4
    <3>2. h[i] = f[i]
      BY <2>1, <2>4
    <3> QED
      BY <1>5, <2>2, <3>1, <3>2
  <2> QED
    BY <2>3, <2>4
<1>10. Good(m)
  <2> HIDE DEF h
  <2> QED
    BY <1>7, <1>8, <1>9
<1> QED
  BY <1>1, <1>10

(***************************************************************************)
(* Sizes are the sums.                                                     *)
(***************************************************************************)
LEMMA SizesAreSums ==
    ASSUME NEW b \in Seq(Segments)
    PROVE  IsSums(b, Sizes(b))
<1> DEFINE n == Len(b)
           Is(r) == r = [k \in 0 .. n |-> IF k = 0 THEN 0 ELSE r[k - 1] + b[k].size]
           r == CHOOSE r : Is(r)
<1>0. n \in Nat
  OBVIOUS
<1>1. PICK f : IsSums(b, f)
  BY SumsExist
<1>2. Is(f)
  <2>1. \A k \in 0 .. n : f[k] = IF k = 0 THEN 0 ELSE f[k - 1] + b[k].size
    <3>1. \A k \in 0 .. n : k /= 0 => k \in 1 .. n
      BY <1>0
    <3> QED
      BY <1>1, <3>1 DEF IsSums
  <2>2. f \in [0 .. n -> Nat]
    BY <1>1 DEF IsSums
  <2> QED
    BY <2>1, <2>2
<1>3. Sizes(b) = r
  BY DEF Sizes
<1>4. Is(r)
  <2> HIDE DEF Is
  <2> QED
    BY <1>2
<1> HIDE DEF r
<1>5. DOMAIN r = 0 .. n /\ r[0] = 0 /\ \A k \in 1 .. n : r[k] = r[k - 1] + b[k].size
  <2> HIDE DEF n
  <2> QED
    BY <1>0, <1>4
<1>6. \A k \in 0 .. n : r[k] = f[k]
  <2>1. f[0] = 0 /\ \A k \in 1 .. n : f[k] = f[k - 1] + b[k].size
    BY <1>1 DEF IsSums
  <2>2. SameSteps(n, r, f)
    BY <1>5, <2>1 DEF SameSteps
  <2> HIDE DEF n
  <2> QED
    BY <1>0, <2>2, SameSums
<1>7. r = f
  <2>1. f \in [0 .. n -> Nat]
    BY <1>1 DEF IsSums
  <2>2. r = [k \in 0 .. n |-> r[k]]
    BY <1>4
  <2> HIDE DEF n, Is
  <2> QED
    BY <1>6, <2>1, <2>2
<1> QED
  BY <1>1, <1>3, <1>7


(***************************************************************************)
(* They grow.                                                              *)
(***************************************************************************)
LEMMA SumsGrow ==
    ASSUME NEW b \in Seq(Segments), NEW f, IsSums(b, f)
    PROVE  \A j \in 0 .. Len(b) : \A k \in 0 .. j : f[k] <= f[j]
<1> DEFINE n == Len(b)
           Good(j) == \A k \in 0 .. j : f[k] <= f[j]
           bad == {j \in 0 .. n : ~Good(j)}
<1>0. n \in Nat /\ \A k \in 1 .. n : b[k].size \in Nat
  <2>1. \A k \in 1 .. n : b[k] \in Segments
    OBVIOUS
  <2> QED
    BY <2>1, SizesAssumption DEF Segments
<1>1. /\ \A k \in 0 .. n : f[k] \in Nat
      /\ \A k \in 1 .. n : f[k] = f[k - 1] + b[k].size
  BY DEF IsSums
<1> SUFFICES ASSUME bad /= {} PROVE FALSE
  OBVIOUS
<1> HIDE DEF n
<1>2. PICK j \in bad : \A i \in bad : j <= i
  <2>1. bad \subseteq Nat
    BY <1>0
  <2> HIDE DEF bad
  <2> QED
    BY <2>1, LeastNumber
<1>3. j \in 0 .. n /\ ~Good(j)
  BY <1>2
<1>4. PICK k \in 0 .. j : ~(f[k] <= f[j])
  BY <1>3
<1>5. j \in 1 .. n /\ k \in 0 .. j - 1
  <2>1. f[j] \in Nat
    BY <1>1, <1>3
  <2>2. k /= j
    BY <1>4, <2>1
  <2> QED
    BY <1>0, <1>3, <1>4, <2>2
<1>6. Good(j - 1)
  <2>1. j - 1 \in 0 .. n /\ ~(j <= j - 1)
    BY <1>0, <1>5
  <2>2. j - 1 \notin bad
    <3> HIDE DEF bad
    <3> QED
      BY <1>2, <2>1
  <2> QED
    BY <2>1, <2>2
<1>7. f[k] <= f[j - 1] /\ f[j] = f[j - 1] + b[j].size
  BY <1>1, <1>5, <1>6
<1>8. f[k] \in Nat /\ f[j - 1] \in Nat /\ b[j].size \in Nat
  <2>1. k \in 0 .. n /\ j - 1 \in 0 .. n
    BY <1>0, <1>5
  <2> QED
    BY <1>0, <1>1, <1>5, <2>1
<1> QED
  BY <1>4, <1>7, <1>8

(***************************************************************************)
(* No buffers, no units.                                                   *)
(***************************************************************************)
LEMMA CoversNothing == Covers(<< >>, << >>)
<1>1. << >> \in Seq(Segments) /\ Len(<< >>) = 0
  OBVIOUS
<1>2. Sizes(<< >>)[0] = 0
  BY <1>1, SizesAreSums DEF IsSums
<1> QED
  BY <1>1, <1>2 DEF Covers

(***************************************************************************)
(* tcp_write takes a buffer: its units come after the others.              *)
(***************************************************************************)
LEMMA CoversAppend ==
    ASSUME NEW b \in Seq(Segments), NEW u \in Seq(Memory), Covers(b, u), NEW x \in Segments
    PROVE  Covers(Append(b, x), u \o [i \in 1 .. x.size |-> x.mem])
<1> DEFINE c == Append(b, x)
           v == u \o [i \in 1 .. x.size |-> x.mem]
           f == Sizes(b)
           g == Sizes(c)
           n == Len(b)
           m == Len(u)
<1>0. n \in Nat /\ m \in Nat /\ x.size \in Nat /\ x.mem \in Memory
  BY SizesAssumption DEF Segments
<1>1. /\ c \in Seq(Segments) /\ Len(c) = n + 1 /\ c[n + 1] = x
      /\ \A k \in 1 .. n : c[k] = b[k]
  OBVIOUS
<1>2. /\ Len(v) = m + x.size
      /\ \A i \in 1 .. m : v[i] = u[i]
      /\ \A i \in m + 1 .. m + x.size : v[i] = x.mem
  <2> DEFINE w == [i \in 1 .. x.size |-> x.mem]
  <2>1. w \in Seq(Memory) /\ Len(w) = x.size /\ \A i \in 1 .. x.size : w[i] = x.mem
    BY <1>0
  <2> HIDE DEF w
  <2>2. \A i \in m + 1 .. m + x.size : i - m \in 1 .. x.size
    BY <1>0
  <2> QED
    BY <1>0, <2>1, <2>2
<1>3. IsSums(b, f) /\ IsSums(c, g)
  BY <1>1, SizesAreSums
<1>4. m = f[n] /\ \A k \in 1 .. n : \A i \in f[k - 1] + 1 .. f[k] : u[i] = b[k].mem
  BY DEF Covers
<1> HIDE DEF c, v, f, g, n, m
<1>5. \A k \in 0 .. n : g[k] = f[k]
  <2>1. /\ f[0] = 0 /\ \A k \in 1 .. n : f[k] = f[k - 1] + b[k].size
        /\ g[0] = 0 /\ \A k \in 1 .. n + 1 : g[k] = g[k - 1] + c[k].size
    BY <1>1, <1>3 DEF IsSums, n
  <2>2. \A k \in 1 .. n : k \in 1 .. n + 1 /\ c[k].size = b[k].size
    BY <1>0, <1>1
  <2>3. SameSteps(n, g, f)
    BY <2>1, <2>2 DEF SameSteps
  <2>4. n \in Nat
    BY <1>0
  <2> QED
    BY <2>3, <2>4, SameSums, Zenon
<1>6. g[n + 1] = m + x.size
  <2>1. g[n + 1] = g[(n + 1) - 1] + c[n + 1].size
    BY <1>0, <1>1, <1>3 DEF IsSums
  <2>2. (n + 1) - 1 = n /\ g[n] = m
    BY <1>0, <1>4, <1>5
  <2> QED
    BY <1>1, <2>1, <2>2
<1>7. ASSUME NEW k \in 1 .. n + 1, NEW i \in g[k - 1] + 1 .. g[k]
      PROVE  v[i] = c[k].mem
  <2>1. CASE k = n + 1
    <3>1. k - 1 = n /\ n \in 0 .. n
      BY <1>0, <2>1
    <3>2. g[k - 1] = m
      BY <1>4, <1>5, <3>1
    <3>3. i \in m + 1 .. m + x.size
      BY <1>6, <2>1, <3>2
    <3> QED
      BY <1>1, <1>2, <2>1, <3>3
  <2>2. CASE k /= n + 1
    <3>1. k \in 1 .. n /\ k \in 0 .. n /\ k - 1 \in 0 .. n
      BY <1>0, <2>2
    <3>2. i \in f[k - 1] + 1 .. f[k]
      BY <1>5, <3>1
    <3>3. f[k - 1] \in Nat /\ f[k] \in Nat
      BY <1>3, <3>1 DEF IsSums, n
    <3>4. f[k] <= m
      <4>1. n \in 0 .. n
        BY <1>0
      <4>2. \A j \in 0 .. n : \A l \in 0 .. j : f[l] <= f[j]
        BY <1>3, SumsGrow DEF n
      <4> QED
        BY <1>4, <3>1, <4>1, <4>2
    <3>5. i \in 1 .. m
      BY <1>0, <3>2, <3>3, <3>4
    <3> QED
      BY <1>1, <1>2, <1>4, <3>1, <3>2, <3>5
  <2> QED
    BY <2>1, <2>2
<1>8. Covers(c, v)
  BY <1>1, <1>2, <1>6, <1>7 DEF Covers, g
<1> QED
  BY <1>8 DEF c, v


(***************************************************************************)
(* The loop of Sent stops at the first buffer that is not acknowledged     *)
(* completely.                                                             *)
(***************************************************************************)
LEMMA AcknowledgedStops ==
    ASSUME sendBuffers \in Seq(Segments), NEW len \in Nat
    PROVE  /\ Acknowledged(len) \in 0 .. Len(sendBuffers)
           /\ Size(Acknowledged(len)) <= len
           /\ Acknowledged(len) < Len(sendBuffers) => len < Size(Acknowledged(len) + 1)
<1> DEFINE n == Len(sendBuffers)
           Stops(k) == k < n => len < Size(k + 1)
           stops == {k \in 0 .. n : Stops(k)}
           Is(k) == Size(k) <= len /\ Stops(k)
<1>0. n \in Nat
  OBVIOUS
<1>1. Size(0) = 0 /\ \A k \in 0 .. n : Size(k) \in Nat
  BY SizesAreSums DEF IsSums, Size
<1> HIDE DEF n
<1>2. PICK k \in stops : \A j \in stops : k <= j
  <2>1. stops \subseteq Nat
    BY <1>0
  <2>2. n \in stops
    BY <1>0
  <2> HIDE DEF stops
  <2> QED
    BY <2>1, <2>2, LeastNumber
<1>3. k \in 0 .. n /\ Stops(k)
  BY <1>2
<1>4. Size(k) <= len
  <2>1. CASE k = 0
    BY <1>1, <2>1
  <2>2. CASE k /= 0
    <3>1. k - 1 \in 0 .. n /\ ~(k <= k - 1) /\ (k - 1) + 1 = k /\ k - 1 < n
      BY <1>0, <1>3, <2>2
    <3>2. k - 1 \notin stops
      <4> HIDE DEF stops
      <4> QED
        BY <1>2, <3>1
    <3>3. ~(len < Size((k - 1) + 1))
      BY <3>1, <3>2
    <3> QED
      BY <1>1, <1>3, <3>1, <3>3
  <2> QED
    BY <2>1, <2>2
<1>5. Is(k)
  BY <1>3, <1>4
<1>6. Acknowledged(len) = CHOOSE j \in 0 .. n : Is(j)
  BY DEF Acknowledged, n
<1>7. Acknowledged(len) \in 0 .. n /\ Is(Acknowledged(len))
  <2> HIDE DEF Is
  <2> QED
    BY <1>3, <1>5, <1>6
<1> QED
  BY <1>7 DEF n

(***************************************************************************)
(* What the loop of Sent leaves: fewer buffers, the first one smaller, and *)
(* exactly those that the units which remain refer to.                     *)
(***************************************************************************)
LEMMA SentLeaves ==
    ASSUME sendBuffers \in Seq(Segments), unacked \in Seq(Memory), Covers(sendBuffers, unacked),
           NEW len \in Nat, len <= Len(unacked)
    PROVE  /\ BuffersAfter(len) \in Seq(Segments)
           /\ Len(BuffersAfter(len)) = Len(sendBuffers) - Acknowledged(len)
           /\ \A i \in 1 .. Len(sendBuffers) - Acknowledged(len) :
                 BuffersAfter(len)[i].mem = sendBuffers[Acknowledged(len) + i].mem
           /\ Covers(BuffersAfter(len), SubSeq(unacked, len + 1, Len(unacked)))
<1> DEFINE n == Len(sendBuffers)
           m == Len(unacked)
           k == Acknowledged(len)
           f == Sizes(sendBuffers)
           a == BuffersAfter(len)
           v == SubSeq(unacked, len + 1, m)
           s == SubSeq(sendBuffers, k + 1, n)
<1>0. /\ n \in Nat /\ m \in Nat /\ IsSums(sendBuffers, f) /\ m = f[n]
      /\ \A j \in 1 .. n : \A i \in f[j - 1] + 1 .. f[j] : unacked[i] = sendBuffers[j].mem
  BY SizesAreSums DEF Covers
<1>1. k \in 0 .. n /\ f[k] <= len /\ (k < n => len < f[k + 1])
  BY AcknowledgedStops DEF Size
<1>2. a = IF s = << >> THEN s ELSE [s EXCEPT ![1].size = @ - (len - f[k])]
  BY DEF BuffersAfter, Size
<1>3. \A j \in 1 .. n : sendBuffers[j] \in Segments
  OBVIOUS
<1> HIDE DEF k
<1>4. /\ s \in Seq(Segments) /\ Len(s) = n - k
      /\ \A i \in 1 .. n - k : s[i] = sendBuffers[k + i]
  <2>1. k + 1 \in 1 .. n + 1 /\ n \in k .. n
    BY <1>0, <1>1
  <2> QED
    BY <1>0, <1>1, <1>3, <2>1
<1>5. /\ v \in Seq(Memory) /\ Len(v) = m - len
      /\ \A i \in 1 .. m - len : v[i] = unacked[len + i]
  BY <1>0
<1> HIDE DEF s, v, a
<1>6. CASE k = n
  <2>1. s = << >> /\ a = << >>
    BY <1>0, <1>2, <1>4, <1>6
  <2>2. len = m /\ n - k = 0
    BY <1>0, <1>1, <1>6
  <2>3. v = << >>
    BY <1>5, <2>2
  <2>4. Covers(a, v)
    BY <2>1, <2>3, CoversNothing
  <2>5. a \in Seq(Segments) /\ Len(a) = n - k
    BY <2>1, <2>2
  <2>6. \A i \in 1 .. n - k : a[i].mem = sendBuffers[k + i].mem
    BY <2>2
  <2> QED
    BY <2>4, <2>5, <2>6 DEF a, v, k
<1>7. CASE k /= n
  <2> DEFINE e == f[k + 1] - len
             g == Sizes(a)
             h == [i \in 0 .. n - k |-> IF i = 0 THEN 0 ELSE f[k + i] - len]
  <2>1. k \in Nat /\ k + 1 \in 1 .. n /\ n - k \in Nat /\ 1 \in 1 .. n - k /\ len < f[k + 1]
    BY <1>0, <1>1, <1>7
  <2>2. s /= << >>
    BY <1>4, <2>1
  <2>3. /\ f[k] \in Nat /\ f[k + 1] \in Nat /\ f[k + 1] = f[k] + sendBuffers[k + 1].size
        /\ sendBuffers[k + 1].size \in 1 .. MaxSegment /\ sendBuffers[k + 1].mem \in Memory
    <3>1. f[k + 1] = f[(k + 1) - 1] + sendBuffers[k + 1].size /\ (k + 1) - 1 = k
      BY <1>0, <2>1 DEF IsSums
    <3>2. sendBuffers[k + 1] \in Segments
      BY <1>3, <2>1
    <3>3. k \in 0 .. n /\ k + 1 \in 0 .. n
      BY <1>0, <2>1
    <3> QED
      BY <1>0, <3>1, <3>2, <3>3 DEF IsSums, Segments
  <2>4. e \in 1 .. MaxSegment /\ sendBuffers[k + 1].size - (len - f[k]) = e
    <3> DEFINE p == f[k]
               q == f[k + 1]
               z == sendBuffers[k + 1].size
    <3>1. /\ p \in Nat /\ q \in Nat /\ z \in Nat /\ len \in Nat /\ MaxSegment \in Nat
          /\ p <= len /\ len < q /\ q = p + z /\ z <= MaxSegment
      BY <1>1, <2>1, <2>3, SizesAssumption
    <3> HIDE DEF p, q, z
    <3>2. q - len \in 1 .. MaxSegment /\ z - (len - p) = q - len
      BY <3>1
    <3> QED
      BY <3>2 DEF p, q, z
  <2> HIDE DEF e
  <2>5. /\ a = [s EXCEPT ![1] = [mem |-> sendBuffers[k + 1].mem, size |-> e]]
        /\ s[1] = sendBuffers[k + 1]
    <3>1. s[1] = sendBuffers[k + 1]
      BY <1>4, <2>1
    <3>2. a = [s EXCEPT ![1].size = @ - (len - f[k])]
      BY <1>2, <2>2
    <3>3. [s[1] EXCEPT !.size = s[1].size - (len - f[k])] =
             [mem |-> sendBuffers[k + 1].mem, size |-> e]
      <4>1. sendBuffers[k + 1] \in Segments
        BY <1>3, <2>1
      <4> QED
        BY <2>4, <3>1, <4>1 DEF Segments
    <3> QED
      BY <3>1, <3>2, <3>3
  <2>6. /\ a \in Seq(Segments) /\ Len(a) = n - k
        /\ a[1].mem = sendBuffers[k + 1].mem /\ a[1].size = e
        /\ \A i \in 2 .. n - k : a[i] = sendBuffers[k + i]
    <3>1. [mem |-> sendBuffers[k + 1].mem, size |-> e] \in Segments
      BY <2>3, <2>4 DEF Segments
    <3> QED
      BY <1>4, <2>1, <2>5, <3>1
  <2>7. \A i \in 1 .. n - k : a[i].mem = sendBuffers[k + i].mem
    <3>1. \A i \in 1 .. n - k : i = 1 \/ i \in 2 .. n - k
      BY <2>1
    <3> QED
      BY <2>6, <3>1
  <2>8. \A j \in 0 .. n : f[j] \in Nat
    BY <1>0 DEF IsSums
  <2>9. \A i \in 0 .. n - k : g[i] = h[i]
    <3>1. IsSums(a, g)
      BY <2>6, SizesAreSums
    <3>2. g[0] = 0 /\ \A i \in 1 .. n - k : g[i] = g[i - 1] + a[i].size
      BY <2>6, <3>1 DEF IsSums
    <3> HIDE DEF g
    <3>3. h[0] = 0 /\ \A i \in 1 .. n - k : h[i] = f[k + i] - len
      BY <2>1
    <3>4. ASSUME NEW i \in 1 .. n - k
          PROVE  h[i] = h[i - 1] + a[i].size
      <4>1. CASE i = 1
        <5>1. h[1] = f[k + 1] - len /\ i - 1 = 0
          BY <3>3, <4>1
        <5>2. a[i].size = f[k + 1] - len
          BY <2>6, <4>1 DEF e
        <5>3. f[k + 1] - len = 0 + (f[k + 1] - len)
          BY <2>3
        <5> QED
          BY <3>3, <4>1, <5>1, <5>2, <5>3
      <4>2. CASE i /= 1
        <5>1. i - 1 \in 1 .. n - k /\ i \in 2 .. n - k /\ k + i \in 1 .. n /\ k + (i - 1) = (k + i) - 1
          BY <1>0, <2>1, <4>2
        <5>2. h[i] = f[k + i] - len /\ h[i - 1] = f[(k + i) - 1] - len
          BY <3>3, <5>1
        <5>3. f[k + i] = f[(k + i) - 1] + a[i].size
          BY <1>0, <2>6, <5>1 DEF IsSums
        <5>4. f[(k + i) - 1] \in Nat /\ a[i].size \in Nat
          <6>1. (k + i) - 1 \in 0 .. n /\ sendBuffers[k + i] \in Segments
            BY <1>0, <1>3, <5>1
          <6>2. a[i] = sendBuffers[k + i]
            BY <2>6, <5>1
          <6>3. sendBuffers[k + i].size \in 1 .. MaxSegment
            BY <6>1 DEF Segments
          <6>4. sendBuffers[k + i].size \in Nat
            BY <6>3, SizesAssumption
          <6> QED
            BY <2>8, <6>1, <6>2, <6>4
        <5> QED
          BY <5>2, <5>3, <5>4
      <4> QED
        BY <4>1, <4>2
    <3> HIDE DEF h
    <3>5. SameSteps(n - k, g, h)
      BY <3>2, <3>3, <3>4 DEF SameSteps
    <3> QED
      BY <2>1, <3>5, SameSums
  <2> HIDE DEF g
  <2>10. Len(v) = g[n - k]
    <3>1. n - k \in 0 .. n - k /\ n - k /= 0 /\ k + (n - k) = n
      BY <1>0, <2>1
    <3>2. g[n - k] = f[k + (n - k)] - len
      BY <2>9, <3>1
    <3> QED
      BY <1>0, <1>5, <3>1, <3>2
  <2>11. ASSUME NEW i \in 1 .. n - k, NEW j \in g[i - 1] + 1 .. g[i]
         PROVE  v[j] = a[i].mem
    <3>1. i - 1 \in 0 .. n - k /\ k + i \in 1 .. n /\ (k + i) - 1 \in 0 .. n /\ k + i \in 0 .. n
      BY <1>0, <2>1
    <3>2. g[i] = f[k + i] - len /\ g[i - 1] = IF i = 1 THEN 0 ELSE f[(k + i) - 1] - len
      <4>1. i /= 0 /\ (i - 1 = 0 <=> i = 1) /\ k + (i - 1) = (k + i) - 1
        BY <2>1
      <4> QED
        BY <2>9, <3>1, <4>1
    <3>3. f[(k + i) - 1] \in Nat /\ f[k + i] \in Nat
      BY <2>8, <3>1
    <3>4. len + j \in f[(k + i) - 1] + 1 .. f[k + i] /\ j \in Nat \ {0}
      <4>1. CASE i = 1
        <5>1. (k + i) - 1 = k /\ g[i - 1] = 0
          BY <2>1, <3>2, <4>1
        <5>2. j \in 1 .. f[k + i] - len
          BY <3>2, <5>1
        <5> QED
          BY <1>1, <2>3, <3>3, <5>1, <5>2
      <4>2. CASE i /= 1
        <5>1. j \in (f[(k + i) - 1] - len) + 1 .. f[k + i] - len
          BY <3>2, <4>2
        <5>2. f[k + 1] <= f[(k + i) - 1]
          <6>1. \A y \in 0 .. n : \A x \in 0 .. y : f[x] <= f[y]
            BY <1>0, SumsGrow
          <6>2. k + 1 \in 0 .. (k + i) - 1
            BY <2>1, <4>2
          <6> QED
            BY <3>1, <6>1, <6>2
        <5> DEFINE p == f[(k + i) - 1]
                   q == f[k + i]
        <5>3. p \in Nat /\ q \in Nat /\ len \in Nat /\ len < p
          BY <2>1, <2>3, <3>3, <5>2
        <5>4. j \in (p - len) + 1 .. q - len
          BY <5>1
        <5> HIDE DEF p, q
        <5>5. len + j \in p + 1 .. q /\ j \in Nat \ {0}
          BY <5>3, <5>4
        <5> QED
          BY <5>5 DEF p, q
      <4> QED
        BY <4>1, <4>2
    <3>5. f[k + i] <= m
      <4>1. \A y \in 0 .. n : \A x \in 0 .. y : f[x] <= f[y]
        BY <1>0, SumsGrow
      <4>2. n \in 0 .. n
        BY <1>0
      <4> QED
        BY <1>0, <3>1, <4>1, <4>2
    <3>6. j \in 1 .. m - len
      BY <1>0, <3>3, <3>4, <3>5
    <3>7. v[j] = unacked[len + j]
      BY <1>5, <3>6
    <3>8. unacked[len + j] = sendBuffers[k + i].mem
      BY <1>0, <3>1, <3>4
    <3> QED
      BY <2>7, <3>7, <3>8
  <2>12. Covers(a, v)
    BY <2>6, <2>10, <2>11 DEF Covers, g
  <2> QED
    BY <2>6, <2>7, <2>12 DEF a, v, k
<1> QED
  BY <1>6, <1>7


-----------------------------------------------------------------------------
(* Connections on lwIP *)

\* The buffer that a send stream has and that lwIP was not given yet
Waiting ==
    IF sendBuffer # NoBuffer THEN sendBuffer ELSE IF granting # NoBuffer THEN granting ELSE writer

\* MemoryPaired place by place: the memory of every buffer is where the
\* buffer is, that of the one that waits comes last, and no two are the same.
Paired(pool, buffers, last) ==
    /\ Len(pool) = Len(buffers) + (IF last = NoBuffer THEN 0 ELSE 1)
    /\ \A i \in 1 .. Len(buffers) : pool[i] = buffers[i].mem
    /\ last # NoBuffer => pool[Len(buffers) + 1] = last.mem
    /\ \A i, j \in 1 .. Len(pool) : pool[i] = pool[j] => i = j

LwTypes ==
    /\ object \in {"none", "held", "owned"}
    /\ pcb \in {"none", "open", "finReceived", "closing"}
    /\ requestedSendSize \in 0 .. MaxSegment
    /\ granting \in Buffers /\ writer \in Buffers /\ sendBuffer \in Buffers
    /\ sendBuffers \in Seq(Segments)
    /\ sendMemoryPool \in Seq(Memory) /\ Len(sendMemoryPool) <= QueueLen
    /\ unacked \in Seq(Memory)
    /\ receiveBuffer \in 0 .. Wnd /\ window \in 0 .. Wnd
    /\ broken \subseteq {"freedPcb", "closedPcb", "nullControl", "okAfterAbort"}

LwFlags ==
    /\ control \in BOOLEAN /\ aborted \in BOOLEAN
    /\ dataReceivedScheduled \in BOOLEAN /\ news \in BOOLEAN
    /\ news => dataReceivedScheduled

\* A stream is asked for, granted or open, and none while a buffer is tried
\* again.
OneWaits ==
    /\ sendBuffer # NoBuffer => granting = NoBuffer /\ writer = NoBuffer
    /\ granting # NoBuffer => writer = NoBuffer
    /\ requestedSendSize # 0 => granting = NoBuffer /\ writer = NoBuffer

\* Nothing is left of an object that is gone.
Gone ==
    /\ ~control /\ requestedSendSize = 0
    /\ granting = NoBuffer /\ writer = NoBuffer /\ sendBuffer = NoBuffer
    /\ sendBuffers = << >> /\ sendMemoryPool = << >>
    /\ receiveBuffer = 0

\* As long as there is a pcb, lwIP and the object agree about both directions.
Linked ==
    /\ control => PcbOpen /\ Covers(sendBuffers, unacked) /\ window = Wnd - receiveBuffer
    /\ pcb = "none" => unacked = << >>
    /\ object = "none" => Gone

\* The inductive invariant
LwInv ==
    /\ LwTypes /\ LwFlags /\ OneWaits /\ NothingOvertaken
    /\ Paired(sendMemoryPool, sendBuffers, Waiting)
    /\ Linked

-----------------------------------------------------------------------------

(***************************************************************************)
(* While there is room in sendMemoryPool, some memory is free.             *)
(***************************************************************************)
LEMMA MemoryIsFree ==
    ASSUME NEW pool \in Seq(Memory), Len(pool) < QueueLen
    PROVE  \E m \in Memory : m \notin Range(pool)
<1> DEFINE indices == 1 .. Len(pool)
           indexOf == [m \in Memory |-> CHOOSE i \in indices : pool[i] = m]
<1>1. Len(pool) \in Nat /\ DOMAIN pool = indices /\ QueueLen \in Nat
  BY SizesAssumption
<1>2. SUFFICES ASSUME \A m \in Memory : m \in Range(pool)
               PROVE  FALSE
  OBVIOUS
<1>3. /\ IsFiniteSet(Memory) /\ Cardinality(Memory) = QueueLen
      /\ IsFiniteSet(indices) /\ Cardinality(indices) = Len(pool)
  <2>1. /\ IsFiniteSet(1 .. QueueLen)
        /\ Cardinality(1 .. QueueLen) = IF 1 > QueueLen THEN 0 ELSE (QueueLen - 1) + 1
    BY <1>1, FS_Interval
  <2>2. /\ IsFiniteSet(indices)
        /\ Cardinality(indices) = IF 1 > Len(pool) THEN 0 ELSE (Len(pool) - 1) + 1
    <3> DEFINE n == Len(pool)
    <3>1. n \in Int /\ 1 \in Int /\ indices = 1 .. n
      BY <1>1
    <3> HIDE DEF n
    <3>2. IsFiniteSet(1 .. n) /\ Cardinality(1 .. n) = IF 1 > n THEN 0 ELSE (n - 1) + 1
      BY <3>1, FS_Interval
    <3> QED
      BY <3>1, <3>2 DEF n
  <2> HIDE DEF indices
  <2> QED
    BY <1>1, <2>1, <2>2 DEF Memory
<1>4. \A m \in Memory : indexOf[m] \in indices /\ pool[indexOf[m]] = m
  BY <1>1, <1>2 DEF Range
<1>5. indexOf \in [Memory -> indices]
  BY <1>4
<1> HIDE DEF indexOf, indices
<1>6. \E m, l \in Memory : m /= l /\ indexOf[m] = indexOf[l]
  BY <1>3, <1>5, FS_PigeonHole
<1> QED
  BY <1>4, <1>6

(***************************************************************************)
(* TryAllocateSendStream takes free memory for the stream.                 *)
(***************************************************************************)
LEMMA PairedAllocates ==
    ASSUME NEW pool \in Seq(Memory), NEW b \in Seq(Segments), Paired(pool, b, NoBuffer),
           NEW m \in Memory, m \notin Range(pool), NEW size \in 1 .. MaxSegment
    PROVE  /\ [mem |-> m, size |-> size] \in Segments
           /\ [mem |-> m, size |-> size] # NoBuffer
           /\ Append(pool, m) \in Seq(Memory) /\ Len(Append(pool, m)) = Len(pool) + 1
           /\ Paired(Append(pool, m), b, [mem |-> m, size |-> size])
<1> DEFINE x == [mem |-> m, size |-> size]
           p == Append(pool, m)
<1>1. x \in Segments /\ x.mem = m
  BY DEF Segments
<1>2. x # NoBuffer
  <2>1. m # 0
    BY SizesAssumption DEF Memory
  <2>2. NoBuffer.mem = 0
    BY DEF NoBuffer
  <2> QED
    BY <1>1, <2>1, <2>2
<1>3. /\ p \in Seq(Memory) /\ Len(p) = Len(pool) + 1 /\ Len(pool) \in Nat
      /\ p[Len(pool) + 1] = m /\ \A i \in 1 .. Len(pool) : p[i] = pool[i]
  OBVIOUS
<1>4. /\ Len(pool) = Len(b) /\ \A i \in 1 .. Len(b) : pool[i] = b[i].mem
      /\ \A i, j \in 1 .. Len(pool) : pool[i] = pool[j] => i = j
  BY DEF Paired
<1>5. \A i \in 1 .. Len(pool) : pool[i] # m
  BY DEF Range
<1> HIDE DEF x, p
<1>6. \A i, j \in 1 .. Len(p) : p[i] = p[j] => i = j
  <2>1. \A i \in 1 .. Len(p) : i = Len(pool) + 1 \/ i \in 1 .. Len(pool)
    BY <1>3
  <2> QED
    BY <1>3, <1>4, <1>5, <2>1
<1>7. Paired(p, b, x)
  BY <1>1, <1>2, <1>3, <1>4, <1>6 DEF Paired
<1> QED
  BY <1>1, <1>2, <1>3, <1>7 DEF x, p

(***************************************************************************)
(* The memory stays when lwIP takes the buffer, and when it does not.      *)
(***************************************************************************)
LEMMA PairedKeeps ==
    ASSUME NEW pool \in Seq(Memory), NEW b \in Seq(Segments), NEW x \in Buffers, x # NoBuffer,
           Paired(pool, b, x), NEW y \in Segments, y.mem = x.mem
    PROVE  /\ y # NoBuffer /\ Paired(pool, b, y)
           /\ Append(b, y) \in Seq(Segments) /\ Paired(pool, Append(b, y), NoBuffer)
<1> DEFINE c == Append(b, y)
<1>1. y # NoBuffer
  <2>1. y.mem # 0
    BY SizesAssumption DEF Memory, Segments
  <2>2. NoBuffer.mem = 0
    BY DEF NoBuffer
  <2> QED
    BY <2>1, <2>2
<1>2. /\ Len(pool) = Len(b) + 1 /\ \A i \in 1 .. Len(b) : pool[i] = b[i].mem
      /\ pool[Len(b) + 1] = x.mem
      /\ \A i, j \in 1 .. Len(pool) : pool[i] = pool[j] => i = j
  BY DEF Paired
<1>3. Paired(pool, b, y)
  BY <1>1, <1>2 DEF Paired
<1>4. /\ c \in Seq(Segments) /\ Len(c) = Len(b) + 1 /\ Len(b) \in Nat
      /\ c[Len(b) + 1] = y /\ \A i \in 1 .. Len(b) : c[i] = b[i]
  OBVIOUS
<1> HIDE DEF c
<1>5. \A i \in 1 .. Len(c) : pool[i] = c[i].mem
  <2>1. \A i \in 1 .. Len(c) : i = Len(b) + 1 \/ i \in 1 .. Len(b)
    BY <1>4
  <2> QED
    BY <1>2, <1>4, <2>1
<1>6. Len(pool) = Len(c) + 0
  BY <1>2, <1>4
<1>7. Paired(pool, c, NoBuffer)
  BY <1>2, <1>5, <1>6 DEF Paired
<1> QED
  BY <1>1, <1>3, <1>4, <1>7 DEF c

(***************************************************************************)
(* A stream that is closed without data gives its memory back.             *)
(***************************************************************************)
LEMMA PairedReleases ==
    ASSUME NEW pool \in Seq(Memory), NEW b \in Seq(Segments), NEW x \in Buffers, x # NoBuffer,
           Paired(pool, b, x)
    PROVE  /\ Front(pool) \in Seq(Memory) /\ Len(Front(pool)) <= Len(pool)
           /\ Paired(Front(pool), b, NoBuffer)
<1> DEFINE n == Len(b)
           p == Front(pool)
<1>1. /\ Len(pool) = n + 1 /\ \A i \in 1 .. n : pool[i] = b[i].mem
      /\ \A i, j \in 1 .. Len(pool) : pool[i] = pool[j] => i = j
  BY DEF Paired
<1>2. n \in Nat
  OBVIOUS
<1>3. p \in Seq(Memory) /\ Len(p) = n /\ \A i \in 1 .. n : p[i] = pool[i]
  BY <1>1, <1>2 DEF Front
<1> HIDE DEF p
<1>4. \A i \in 1 .. n : i \in 1 .. Len(pool)
  BY <1>1, <1>2
<1>5. Len(p) = n + 0 /\ n <= Len(pool)
  BY <1>1, <1>2, <1>3
<1>6. Paired(p, b, NoBuffer)
  <2>1. \A i, j \in 1 .. Len(p) : p[i] = p[j] => i = j
    BY <1>1, <1>3, <1>4
  <2>2. \A i \in 1 .. n : p[i] = b[i].mem
    BY <1>1, <1>3
  <2> QED
    BY <1>5, <2>1, <2>2 DEF Paired
<1> QED
  BY <1>3, <1>5, <1>6 DEF p

(***************************************************************************)
(* Sent gives back the memory of the buffers that it takes away.           *)
(***************************************************************************)
LEMMA PairedShifts ==
    ASSUME NEW pool \in Seq(Memory), NEW b \in Seq(Segments), NEW x \in Buffers,
           Paired(pool, b, x), NEW k \in 0 .. Len(b), NEW a \in Seq(Segments),
           Len(a) = Len(b) - k, \A i \in 1 .. Len(b) - k : a[i].mem = b[k + i].mem
    PROVE  /\ SubSeq(pool, k + 1, Len(pool)) \in Seq(Memory)
           /\ Len(SubSeq(pool, k + 1, Len(pool))) <= Len(pool)
           /\ Paired(SubSeq(pool, k + 1, Len(pool)), a, x)
<1> DEFINE n == Len(b)
           e == IF x = NoBuffer THEN 0 ELSE 1
           m == Len(pool)
           p == SubSeq(pool, k + 1, m)
<1>1. /\ m = n + e /\ \A i \in 1 .. n : pool[i] = b[i].mem
      /\ x # NoBuffer => pool[n + 1] = x.mem
      /\ \A i, j \in 1 .. m : pool[i] = pool[j] => i = j
  BY DEF Paired
<1>2. n \in Nat /\ e \in 0 .. 1 /\ k \in 0 .. n /\ m \in Nat
  OBVIOUS
<1>0. Len(a) = n - k /\ \A i \in 1 .. n - k : a[i].mem = b[k + i].mem
  OBVIOUS
<1>3. p \in Seq(Memory) /\ Len(p) = m - k /\ \A i \in 1 .. m - k : p[i] = pool[k + i]
  <2>1. k + 1 \in 1 .. m + 1
    BY <1>1, <1>2
  <2> QED
    BY <1>2, <2>1
<1>4. m - k \in Nat /\ m - k <= m /\ m - k = (n - k) + e
  BY <1>1, <1>2
<1> HIDE DEF p, e, n, m
<1>5. \A i \in 1 .. n - k : i \in 1 .. m - k /\ k + i \in 1 .. n
  BY <1>1, <1>2
<1>6. \A i \in 1 .. m - k : k + i \in 1 .. m
  BY <1>1, <1>2
<1>7. Paired(p, a, x)
  <2>1. \A i \in 1 .. n - k : p[i] = a[i].mem
    <3> TAKE i \in 1 .. n - k
    <3>1. i \in 1 .. m - k /\ k + i \in 1 .. n
      BY <1>5
    <3>2. p[i] = pool[k + i] /\ pool[k + i] = b[k + i].mem /\ a[i].mem = b[k + i].mem
      BY <1>0, <1>1, <1>3, <3>1
    <3> QED
      BY <3>2
  <2>2. \A i, j \in 1 .. Len(p) : p[i] = p[j] => i = j
    <3> SUFFICES ASSUME NEW i \in 1 .. m - k, NEW j \in 1 .. m - k, p[i] = p[j]
                 PROVE  i = j
      BY <1>3
    <3>1. pool[k + i] = pool[k + j]
      BY <1>3
    <3>2. k + i \in 1 .. m /\ k + j \in 1 .. m
      BY <1>6
    <3>3. k + i = k + j
      BY <1>1, <3>1, <3>2
    <3> QED
      BY <1>2, <1>4, <3>3
  <2>3. x # NoBuffer => p[(n - k) + 1] = x.mem
    <3> SUFFICES ASSUME x # NoBuffer
                 PROVE  p[(n - k) + 1] = x.mem
      OBVIOUS
    <3>1. e = 1
      BY DEF e
    <3>2. (n - k) + 1 \in 1 .. m - k /\ k + ((n - k) + 1) = n + 1
      BY <1>1, <1>2, <3>1
    <3> QED
      BY <1>1, <1>3, <3>2
  <2>4. Len(p) = (n - k) + e
    BY <1>3, <1>4
  <2> QED
    BY <1>0, <2>1, <2>2, <2>3, <2>4 DEF Paired, e
<1> QED
  BY <1>3, <1>4, <1>7 DEF p, m

(***************************************************************************)
(* Place by place or as one sequence: the memory is that of the buffers.   *)
(***************************************************************************)
LEMMA PairedIsPaired ==
    ASSUME LwTypes, OneWaits, Paired(sendMemoryPool, sendBuffers, Waiting)
    PROVE  MemoryPaired
<1> DEFINE n == Len(sendBuffers)
           mems == Mems(sendBuffers)
<1>1. /\ sendBuffers \in Seq(Segments) /\ sendMemoryPool \in Seq(Memory)
      /\ granting \in Buffers /\ writer \in Buffers /\ sendBuffer \in Buffers
  BY DEF LwTypes
<1>2. n \in Nat /\ DOMAIN sendBuffers = 1 .. n
  BY <1>1
<1>3. /\ Len(sendMemoryPool) = n + (IF Waiting = NoBuffer THEN 0 ELSE 1)
      /\ \A i \in 1 .. n : sendMemoryPool[i] = sendBuffers[i].mem
      /\ Waiting # NoBuffer => sendMemoryPool[n + 1] = Waiting.mem
      /\ \A i, j \in 1 .. Len(sendMemoryPool) : sendMemoryPool[i] = sendMemoryPool[j] => i = j
  BY DEF Paired
<1>4. mems \in Seq(Memory) /\ Len(mems) = n /\ \A i \in 1 .. n : mems[i] = sendBuffers[i].mem
  <2>1. mems = [i \in 1 .. n |-> sendBuffers[i].mem]
    BY <1>2 DEF Mems
  <2>2. \A i \in 1 .. n : sendBuffers[i].mem \in Memory
    <3>1. \A i \in 1 .. n : sendBuffers[i] \in Segments
      BY <1>1
    <3> QED
      BY <3>1 DEF Segments
  <2> HIDE DEF mems, n
  <2> QED
    BY <1>2, <2>1, <2>2
<1>5. \A b \in Buffers : b # NoBuffer => b.mem \in Memory
  BY DEF Buffers
<1>6. Waiting \in Buffers
  BY <1>1 DEF Waiting
<1> HIDE DEF mems, n
<1>7. mems \o Mem(sendBuffer) \o Mem(granting) \o Mem(writer) = mems \o Mem(Waiting)
  <2>1. Mem(NoBuffer) = << >>
    BY DEF Mem
  <2>2. \A s \in Seq(Memory) : s \o << >> = s
    OBVIOUS
  <2>3. \A b \in Buffers : Mem(b) \in Seq(Memory)
    BY <1>5 DEF Mem
  <2>4. \A b \in Buffers : mems \o Mem(b) \in Seq(Memory)
    BY <1>4, <2>3
  <2>5. CASE sendBuffer # NoBuffer
    <3>1. Waiting = sendBuffer /\ granting = NoBuffer /\ writer = NoBuffer
      BY <2>5 DEF Waiting, OneWaits
    <3> QED
      BY <1>1, <2>1, <2>2, <2>4, <3>1
  <2>6. CASE sendBuffer = NoBuffer /\ granting # NoBuffer
    <3>1. Waiting = granting /\ writer = NoBuffer
      BY <2>6 DEF Waiting, OneWaits
    <3> QED
      BY <1>1, <1>4, <2>1, <2>2, <2>4, <2>6, <3>1
  <2>7. CASE sendBuffer = NoBuffer /\ granting = NoBuffer
    <3>1. Waiting = writer
      BY <2>7 DEF Waiting
    <3> QED
      BY <1>1, <1>4, <2>1, <2>2, <2>4, <2>7, <3>1
  <2> QED
    BY <2>5, <2>6, <2>7
<1>8. sendMemoryPool = mems \o Mem(Waiting)
  <2>1. CASE Waiting = NoBuffer
    <3>1. Mem(Waiting) = << >> /\ Len(sendMemoryPool) = n
      BY <1>2, <1>3, <2>1 DEF Mem
    <3>2. mems \o << >> = mems
      BY <1>4
    <3>3. sendMemoryPool = mems
      BY <1>1, <1>3, <1>4, <3>1
    <3> QED
      BY <3>1, <3>2, <3>3
  <2>2. CASE Waiting # NoBuffer
    <3> DEFINE l == <<Waiting.mem>>
               t == mems \o l
    <3>1. Mem(Waiting) = l /\ Len(sendMemoryPool) = n + 1 /\ Waiting.mem \in Memory
      BY <1>3, <1>5, <1>6, <2>2 DEF Mem
    <3>2. /\ t \in Seq(Memory) /\ Len(t) = n + 1 /\ t[n + 1] = Waiting.mem
          /\ \A i \in 1 .. n : t[i] = mems[i]
      BY <1>2, <1>4, <3>1
    <3> HIDE DEF t
    <3>3. \A i \in 1 .. n + 1 : i = n + 1 \/ i \in 1 .. n
      BY <1>2
    <3>4. \A i \in 1 .. n + 1 : sendMemoryPool[i] = t[i]
      BY <1>3, <1>4, <2>2, <3>2, <3>3
    <3>5. sendMemoryPool = t
      BY <1>1, <3>1, <3>2, <3>4
    <3> QED
      BY <3>1, <3>5 DEF t
  <2> QED
    BY <2>1, <2>2
<1>9. IsInjective(sendMemoryPool)
  BY <1>1, <1>3 DEF IsInjective
<1> QED
  BY <1>7, <1>8, <1>9 DEF MemoryPaired, mems

(***************************************************************************)
(* The invariant says what LwIpSafe says, and more.                        *)
(***************************************************************************)
LEMMA LwInvIsSafe ==
    ASSUME LwInv, subject = "lwip"
    PROVE  LwIpSafe
<1>1. LwTypes /\ OneWaits /\ NothingOvertaken /\ Paired(sendMemoryPool, sendBuffers, Waiting)
  BY DEF LwInv
<1>2. LwFlags /\ Linked
  BY DEF LwInv
<1>3. MemoryPaired
  BY <1>1, PairedIsPaired
<1>4. Len(sendBuffers) <= QueueLen
  <2>1. Len(sendMemoryPool) = Len(sendBuffers) + (IF Waiting = NoBuffer THEN 0 ELSE 1)
    BY <1>1 DEF Paired
  <2>2. Len(sendMemoryPool) <= QueueLen /\ Len(sendBuffers) \in Nat
    BY <1>1 DEF LwTypes
  <2> QED
    BY <2>1, <2>2, SizesAssumption
<1>5. owed \in 0 .. QueueLen
  BY <1>1, SizesAssumption DEF NothingOvertaken
<1>6. sendBuffers \in Seq(Buffers)
  <2>1. Segments \subseteq Buffers
    BY DEF Segments, Buffers
  <2> QED
    BY <1>1, <2>1 DEF LwTypes
<1>7. /\ control \in BOOLEAN /\ aborted \in BOOLEAN
      /\ dataReceivedScheduled \in BOOLEAN /\ news \in BOOLEAN
  BY <1>2, Zenon DEF LwFlags
<1>8. TypeOK
  BY <1>1, <1>4, <1>5, <1>6, <1>7, Zenon DEF LwTypes, TypeOK
<1>9. BuffersAreUnacked /\ WindowIsRoom
  BY <1>2, Zenon DEF Linked, BuffersAreUnacked, WindowIsRoom
<1>10. DataAnnounced
  BY <1>2, Zenon DEF LwFlags, DataAnnounced
<1>11. subject # "lwipLasts"
  OBVIOUS
<1> QED
  BY <1>1, <1>3, <1>8, <1>9, <1>10, <1>11, Zenon DEF LwIpSafe

(***************************************************************************)
(* At first there is no connection.                                        *)
(***************************************************************************)
LEMMA LwInitially == Init => LwInv
<1> SUFFICES ASSUME Init
             PROVE  LwInv
  OBVIOUS
<1>1. LwFlags
  BY Zenon DEF Init, LwFlags
<1>2. LwTypes
  BY SizesAssumption DEF Init, LwTypes, Buffers
<1>3. OneWaits /\ NothingOvertaken /\ Waiting = NoBuffer
  BY DEF Init, OneWaits, NothingOvertaken, Waiting
<1>4. Paired(<< >>, << >>, NoBuffer)
  BY DEF Paired
<1>5. Linked
  BY DEF Init, Linked, Gone
<1> QED
  BY <1>1, <1>2, <1>3, <1>4, <1>5 DEF LwInv, Init

-----------------------------------------------------------------------------

(***************************************************************************)
(* The destructor leaves nothing, whatever becomes of the pcb.             *)
(***************************************************************************)
LEMMA DestructStep ==
    ASSUME LwInv, Destruct, window' = window,
           \/ unacked' = << >> /\ pcb' \in {"none", "closing"}
           \/ unacked' = unacked /\ pcb' = "closing",
           broken' \subseteq {"freedPcb", "closedPcb", "nullControl", "okAfterAbort"},
           aborted' \in BOOLEAN
    PROVE  LwInv'
<1>1. LwFlags'
  BY Zenon DEF LwFlags, Destruct
<1>2. LwTypes'
  <2>1. window \in 0 .. Wnd /\ unacked \in Seq(Memory)
    BY DEF LwInv, LwTypes
  <2>2. NoBuffer \in Buffers /\ 0 \in 0 .. Wnd /\ 0 \in 0 .. MaxSegment
    BY SizesAssumption DEF Buffers
  <2>3. /\ << >> \in Seq(Segments) /\ << >> \in Seq(Memory)
        /\ Len(<< >>) = 0 /\ 0 <= QueueLen
    BY SizesAssumption
  <2>4. unacked' \in Seq(Memory) /\ pcb' \in {"none", "open", "finReceived", "closing"}
    BY <2>1, <2>3
  <2> QED
    BY <2>1, <2>2, <2>3, <2>4 DEF LwTypes, Destruct
<1>3. OneWaits' /\ NothingOvertaken' /\ Waiting' = NoBuffer
  BY DEF Destruct, OneWaits, NothingOvertaken, Waiting
<1>4. Paired(<< >>, << >>, NoBuffer)
  BY DEF Paired
<1>5. Gone' /\ control' = FALSE
  BY DEF Destruct, Gone
<1>6. Linked'
  BY <1>5 DEF Linked
<1>7. sendMemoryPool' = << >> /\ sendBuffers' = << >>
  BY DEF Destruct
<1> QED
  BY <1>1, <1>2, <1>3, <1>4, <1>6, <1>7 DEF LwInv

(***************************************************************************)
(* Steps that leave the buffers alone.                                     *)
(***************************************************************************)
LEMMA BuffersUnchanged ==
    ASSUME LwInv, UNCHANGED send
    PROVE  /\ OneWaits' /\ NothingOvertaken'
           /\ Paired(sendMemoryPool', sendBuffers', Waiting')
<1>1. OneWaits /\ NothingOvertaken /\ Paired(sendMemoryPool, sendBuffers, Waiting)
  BY DEF LwInv
<1>2. /\ requestedSendSize' = requestedSendSize /\ granting' = granting /\ writer' = writer
      /\ sendBuffer' = sendBuffer /\ sendBuffers' = sendBuffers
      /\ sendMemoryPool' = sendMemoryPool /\ owed' = owed
  BY DEF send
<1>3. OneWaits' /\ NothingOvertaken'
  BY <1>1, <1>2 DEF OneWaits, NothingOvertaken
<1>4. Waiting' = Waiting
  BY <1>2 DEF Waiting
<1> QED
  BY <1>1, <1>2, <1>3, <1>4

(***************************************************************************)
(* The pcb is gone and an object without observer stays.                   *)
(***************************************************************************)
LEMMA ControlResetStep ==
    ASSUME LwInv, object # "none", control' = FALSE, UNCHANGED <<object, send, receive, window>>,
           unacked' = << >>, pcb' = "none",
           broken' \subseteq {"freedPcb", "closedPcb", "nullControl", "okAfterAbort"},
           aborted' = aborted
    PROVE  LwInv'
<1>1. LwTypes /\ LwFlags /\ Linked
  BY DEF LwInv
<1>2. LwFlags'
  BY <1>1, Zenon DEF LwFlags, receive
<1>3. LwTypes'
  BY <1>1 DEF LwTypes, send, receive
<1>4. Linked'
  BY <1>1 DEF Linked
<1> QED
  BY <1>2, <1>3, <1>4, BuffersUnchanged DEF LwInv

(***************************************************************************)
(* Err, for every error: the assertion stops the program, or control is    *)
(* reset and an object with an observer is destructed.                     *)
(***************************************************************************)
LEMMA ErrStep ==
    ASSUME LwInv, Exists, NEW err, Err(err)
    PROVE  LwInv'
<1>1. LwTypes /\ LwFlags /\ Linked /\ object # "none"
  BY DEF LwInv, Exists
<1>2. CASE Debug /\ ~ErrAssertion(err)
  <2>1. /\ aborted' = TRUE
        /\ UNCHANGED <<object, control, pcb, send, unacked, receive, window, broken>>
    BY <1>2 DEF Err
  <2>2. LwFlags'
    BY <1>1, <2>1, Zenon DEF LwFlags, receive
  <2>3. LwTypes'
    BY <1>1, <2>1 DEF LwTypes, send, receive
  <2>4. Linked'
    BY <1>1, <2>1 DEF Linked, Gone, PcbOpen, send, receive
  <2> QED
    BY <2>1, <2>2, <2>3, <2>4, BuffersUnchanged DEF LwInv
<1>3. CASE ~(Debug /\ ~ErrAssertion(err))
  <2>1. /\ control' = FALSE /\ ResetOwnership /\ pcb' = "none" /\ unacked' = << >>
        /\ window' = window /\ aborted' = aborted
        /\ broken' \subseteq {"freedPcb", "closedPcb", "nullControl", "okAfterAbort"}
    BY <1>1, <1>3 DEF Err, Break, LwTypes
  <2>2. aborted' \in BOOLEAN
    BY <1>1, <2>1, Zenon DEF LwFlags
  <2>3. CASE object = "owned"
    BY <2>1, <2>2, <2>3, DestructStep DEF ResetOwnership
  <2>4. CASE object # "owned"
    BY <1>1, <2>1, <2>4, ControlResetStep DEF ResetOwnership
  <2> QED
    BY <2>3, <2>4
<1> QED
  BY <1>2, <1>3

(***************************************************************************)
(* ListenerLwIp::Accept: a connection begins with nothing to acknowledge.  *)
(***************************************************************************)
LEMMA LwAccept ==
    ASSUME LwInv, NEW how \in {"held", "owned"}, Accept(how)
    PROVE  LwInv'
<1>1. LwTypes /\ LwFlags /\ Linked /\ object = "none" /\ pcb = "none" /\ Gone /\ unacked = << >>
  BY DEF LwInv, Accept, Linked
<1>2. /\ object' = how /\ control' = TRUE /\ pcb' = "open" /\ window' = Wnd
      /\ UNCHANGED <<send, unacked, receive, broken, aborted>>
  BY DEF Accept
<1>3. LwFlags'
  BY <1>1, <1>2, Zenon DEF LwFlags, receive
<1>4. LwTypes'
  BY <1>1, <1>2, SizesAssumption DEF LwTypes, send, receive
<1>5. Linked'
  <2>1. sendBuffers' = << >> /\ unacked' = << >> /\ receiveBuffer' = 0
    BY <1>1, <1>2 DEF Gone, send, receive
  <2>2. Wnd = Wnd - 0
    BY SizesAssumption
  <2>3. object' # "none" /\ pcb' # "none" /\ PcbOpen'
    BY <1>2 DEF PcbOpen
  <2> QED
    BY <1>2, <2>1, <2>2, <2>3, CoversNothing DEF Linked
<1> QED
  BY <1>2, <1>3, <1>4, <1>5, BuffersUnchanged DEF LwInv

(***************************************************************************)
(* However a connection ends, nothing of it is left for the next one.      *)
(***************************************************************************)
LEMMA LwEndings ==
    ASSUME LwInv,
           Attach \/ Drop \/ Reset \/ AbortAndDestroy \/ CloseAndDestroy \/ Closed \/ RecvClosed
    PROVE  LwInv'
<1>1. LwTypes /\ LwFlags /\ Linked
  BY DEF LwInv
<1>2. aborted \in BOOLEAN
  BY <1>1, Zenon DEF LwFlags
<1>3. broken \subseteq {"freedPcb", "closedPcb", "nullControl", "okAfterAbort"}
  BY <1>1 DEF LwTypes
<1>4. CASE Attach
  <2>1. /\ object' = "owned" /\ object # "none"
        /\ UNCHANGED <<control, pcb, send, unacked, receive, window, broken, aborted>>
    BY <1>4 DEF Attach, Exists
  <2>2. LwFlags'
    BY <1>1, <2>1, Zenon DEF LwFlags, receive
  <2>3. LwTypes'
    BY <1>1, <2>1 DEF LwTypes, send, receive
  <2>4. Linked'
    BY <1>1, <2>1 DEF Linked, PcbOpen, send, receive
  <2> QED
    BY <2>1, <2>2, <2>3, <2>4, BuffersUnchanged DEF LwInv
<1>5. CASE Drop
  BY <1>2, <1>3, <1>5, DestructStep DEF Drop
<1>6. CASE Reset \/ AbortAndDestroy
  BY <1>6, ErrStep DEF Reset, AbortAndDestroy, Connected, Exists
<1>7. CASE CloseAndDestroy
  <2>1. CASE Err("ABRT")
    BY <1>7, <2>1, ErrStep DEF CloseAndDestroy, Connected, Exists
  <2>2. CASE ~Err("ABRT")
    <3>1. /\ Destruct /\ window' = window /\ aborted' = aborted
          /\ \/ unacked' = << >> /\ pcb' = "none" /\ Break({"closedPcb"})
             \/ unacked' = unacked /\ pcb' = "closing" /\ broken' = broken
      BY <1>7, <2>2 DEF CloseAndDestroy, Connected, ResetOwnership
    <3>2. broken' \subseteq {"freedPcb", "closedPcb", "nullControl", "okAfterAbort"}
      BY <1>3, <3>1 DEF Break
    <3> QED
      BY <1>2, <3>1, <3>2, DestructStep
  <2> QED
    BY <2>1, <2>2
<1>8. CASE Closed
  <2>1. /\ pcb = "closing" /\ pcb' = "none" /\ unacked' = << >>
        /\ UNCHANGED <<object, control, send, receive, window, broken, aborted>>
    BY <1>8 DEF Closed
  <2>2. LwFlags'
    BY <1>1, <2>1, Zenon DEF LwFlags, receive
  <2>3. LwTypes'
    BY <1>1, <2>1 DEF LwTypes, send, receive
  <2>4. Linked'
    <3>1. ~control
      BY <1>1, <2>1 DEF Linked, PcbOpen
    <3> QED
      BY <1>1, <2>1, <3>1 DEF Linked, Gone, send, receive
  <2> QED
    BY <2>1, <2>2, <2>3, <2>4, BuffersUnchanged DEF LwInv
<1>9. CASE RecvClosed
  <2>1. CASE object = "owned"
    <3>1. broken' \subseteq {"freedPcb", "closedPcb", "nullControl", "okAfterAbort"}
      BY <1>3, <1>9, <2>1 DEF RecvClosed, Break
    <3> QED
      BY <1>2, <1>9, <2>1, <3>1, DestructStep DEF RecvClosed, ResetOwnership
  <2>2. CASE object # "owned"
    <3>1. /\ object # "none" /\ pcb' = "finReceived"
          /\ UNCHANGED <<object, control, unacked, send, receive, window, broken, aborted>>
      BY <1>9, <2>2 DEF RecvClosed, ResetOwnership, Exists
    <3>2. LwFlags'
      BY <1>1, <3>1, Zenon DEF LwFlags, receive
    <3>3. LwTypes'
      BY <1>1, <3>1 DEF LwTypes, send, receive
    <3>4. Linked'
      BY <1>1, <3>1 DEF Linked, PcbOpen, send, receive
    <3> QED
      BY <3>1, <3>2, <3>3, <3>4, BuffersUnchanged DEF LwInv
  <2> QED
    BY <2>1, <2>2
<1> QED
  BY <1>4, <1>5, <1>6, <1>7, <1>8, <1>9

(***************************************************************************)
(* Data comes, and the observer consumes it.                               *)
(***************************************************************************)
LEMMA LwReceives ==
    ASSUME LwInv, NEW size \in 0 .. Wnd, Recv(size) \/ DataReceived(size)
    PROVE  LwInv'
<1>1. LwTypes /\ LwFlags /\ Linked
  BY DEF LwInv
<1>2. /\ object # "none"
      /\ UNCHANGED <<object, control, pcb, send, unacked, broken, aborted>>
  BY DEF Recv, DataReceived, Exists, Connected
<1>3. /\ window \in Nat /\ window <= Wnd /\ receiveBuffer \in Nat /\ receiveBuffer <= Wnd
      /\ Wnd \in Nat /\ size \in Nat
  BY <1>1, SizesAssumption DEF LwTypes
<1>4. /\ window' \in 0 .. Wnd /\ receiveBuffer' \in 0 .. Wnd
      /\ control => window' = Wnd - receiveBuffer'
  <2>1. control => window = Wnd - receiveBuffer
    BY <1>1 DEF Linked
  <2>2. CASE Recv(size)
    <3>1. /\ control /\ size <= window /\ window' = window - size
          /\ receiveBuffer' = receiveBuffer + size
      BY <2>2 DEF Recv
    <3> QED
      BY <1>3, <2>1, <3>1
  <2>3. CASE DataReceived(size)
    <3>1. /\ size <= receiveBuffer /\ receiveBuffer' = receiveBuffer - size
          /\ window' = IF control THEN window + size ELSE window
      BY <2>3 DEF DataReceived, ConsumeRead
    <3> QED
      BY <1>3, <2>1, <3>1
  <2> QED
    BY <2>2, <2>3
<1>5. LwFlags'
  <2>1. CASE Recv(size)
    BY <1>1, <1>2, <2>1, Zenon DEF LwFlags, Recv, Schedules
  <2>2. CASE DataReceived(size)
    BY <1>1, <1>2, <2>2, Zenon DEF LwFlags, DataReceived
  <2> QED
    BY <2>1, <2>2
<1>6. LwTypes'
  BY <1>1, <1>2, <1>4 DEF LwTypes, send
<1>7. Linked'
  BY <1>1, <1>2, <1>4 DEF Linked, PcbOpen, send
<1> QED
  BY <1>2, <1>5, <1>6, <1>7, BuffersUnchanged DEF LwInv

(***************************************************************************)
(* TryAllocateSendStream: the stream gets memory of its own, or the        *)
(* request is remembered.                                                  *)
(***************************************************************************)
LEMMA LwAllocates ==
    ASSUME NEW size \in 1 .. MaxSegment, NEW b \in Seq(Segments), NEW pool \in Seq(Memory),
           Len(pool) <= QueueLen, sendBuffer \in Buffers,
           granting = NoBuffer, writer = NoBuffer, UNCHANGED <<writer, sendBuffer>>,
           Paired(pool, b, sendBuffer), TryAllocateSendStream(size, b, pool)
    PROVE  /\ requestedSendSize' \in 0 .. MaxSegment /\ granting' \in Buffers
           /\ sendMemoryPool' \in Seq(Memory) /\ Len(sendMemoryPool') <= QueueLen
           /\ OneWaits' /\ Paired(sendMemoryPool', b, Waiting')
<1>1. QueueLen \in Nat /\ MaxSegment \in Nat
  BY SizesAssumption
<1>2. CASE CanAllocate(b, pool)
  <2> DEFINE m == CHOOSE m \in Memory : m \notin Range(pool)
             x == [mem |-> m, size |-> size]
  <2>1. sendBuffer = NoBuffer /\ Len(pool) < QueueLen
    BY <1>2 DEF CanAllocate
  <2>2. m \in Memory /\ m \notin Range(pool)
    BY <2>1, MemoryIsFree
  <2>3. sendMemoryPool' = Append(pool, m) /\ granting' = x /\ requestedSendSize' = 0
    BY <1>2 DEF TryAllocateSendStream
  <2> HIDE DEF m
  <2>4. /\ x \in Segments /\ x # NoBuffer
        /\ Append(pool, m) \in Seq(Memory) /\ Len(Append(pool, m)) = Len(pool) + 1
        /\ Paired(Append(pool, m), b, x)
    BY <2>1, <2>2, PairedAllocates
  <2> HIDE DEF x
  <2>5. x \in Buffers
    BY <2>4 DEF Segments, Buffers
  <2>6. Waiting' = x /\ OneWaits'
    BY <2>1, <2>3, <2>4 DEF Waiting, OneWaits
  <2>7. Len(pool) + 1 <= QueueLen /\ 0 \in 0 .. MaxSegment
    BY <1>1, <2>1
  <2> QED
    BY <2>3, <2>4, <2>5, <2>6, <2>7
<1>3. CASE ~CanAllocate(b, pool)
  <2>1. sendMemoryPool' = pool /\ requestedSendSize' = size /\ granting' = granting
    BY <1>3 DEF TryAllocateSendStream
  <2>2. Waiting' = sendBuffer /\ OneWaits'
    BY <2>1 DEF Waiting, OneWaits
  <2>3. NoBuffer \in Buffers /\ size \in 0 .. MaxSegment
    BY <1>1 DEF Buffers
  <2> QED
    BY <2>1, <2>2, <2>3
<1> QED
  BY <1>2, <1>3

(***************************************************************************)
(* Steps that leave the link with lwIP alone.                              *)
(***************************************************************************)
LEMMA LinkUnchanged ==
    ASSUME LwInv, object # "none",
           UNCHANGED <<object, control, pcb, unacked, sendBuffers, receiveBuffer, window>>
    PROVE  Linked'
<1>1. Linked
  BY DEF LwInv
<1> QED
  BY <1>1 DEF Linked, PcbOpen

(***************************************************************************)
(* RequestSendStream, with and without a pcb.                              *)
(***************************************************************************)
LEMMA LwRequests ==
    ASSUME LwInv, NEW size \in 1 .. MaxSegment, RequestSendStream(size)
    PROVE  LwInv'
<1>1. LwTypes /\ LwFlags /\ OneWaits /\ NothingOvertaken
  BY DEF LwInv
<1>2. Paired(sendMemoryPool, sendBuffers, Waiting)
  BY DEF LwInv
<1>3. /\ object # "none" /\ requestedSendSize = 0 /\ granting = NoBuffer /\ writer = NoBuffer
      /\ UNCHANGED <<object, control, pcb, writer, sendBuffer, sendBuffers, unacked, owed>>
      /\ UNCHANGED <<receive, window, aborted>>
  BY DEF RequestSendStream, Connected
<1>4. /\ requestedSendSize' \in 0 .. MaxSegment /\ granting' \in Buffers
      /\ sendMemoryPool' \in Seq(Memory) /\ Len(sendMemoryPool') <= QueueLen
      /\ OneWaits' /\ Paired(sendMemoryPool', sendBuffers', Waiting')
  <2>1. CASE control
    <3>1. TryAllocateSendStream(size, sendBuffers, sendMemoryPool)
      BY <2>1 DEF RequestSendStream
    <3>2. Waiting = sendBuffer
      BY <1>3 DEF Waiting
    <3>3. /\ sendBuffers \in Seq(Segments) /\ sendMemoryPool \in Seq(Memory)
          /\ Len(sendMemoryPool) <= QueueLen /\ sendBuffer \in Buffers
      BY <1>1 DEF LwTypes
    <3>4. sendBuffers' = sendBuffers /\ UNCHANGED <<writer, sendBuffer>>
      BY <1>3
    <3> QED
      BY <1>2, <1>3, <3>1, <3>2, <3>3, <3>4, LwAllocates
  <2>2. CASE ~control
    <3>1. UNCHANGED <<requestedSendSize, granting, sendMemoryPool>>
      BY <2>2 DEF RequestSendStream
    <3>2. Waiting' = Waiting /\ OneWaits'
      BY <1>1, <1>3, <3>1 DEF Waiting, OneWaits
    <3> QED
      BY <1>1, <1>2, <1>3, <3>1, <3>2 DEF LwTypes
  <2> QED
    BY <2>1, <2>2
<1>5. broken' \subseteq {"freedPcb", "closedPcb", "nullControl", "okAfterAbort"}
  BY <1>1 DEF LwTypes, RequestSendStream, Break
<1>6. LwFlags'
  BY <1>1, <1>3, Zenon DEF LwFlags, receive
<1>7. LwTypes'
  BY <1>1, <1>3, <1>4, <1>5 DEF LwTypes, receive
<1>8. NothingOvertaken'
  BY <1>1, <1>3 DEF NothingOvertaken
<1>9. Linked'
  BY <1>3, LinkUnchanged DEF receive
<1> QED
  BY <1>4, <1>6, <1>7, <1>8, <1>9 DEF LwInv

(***************************************************************************)
(* SendStreamAvailable moves the buffer from the event to the writer.      *)
(***************************************************************************)
LEMMA LwGives ==
    ASSUME LwInv, SendStreamAvailable
    PROVE  LwInv'
<1>1. LwTypes /\ LwFlags /\ OneWaits /\ NothingOvertaken
  BY DEF LwInv
<1>2. Paired(sendMemoryPool, sendBuffers, Waiting)
  BY DEF LwInv
<1>3. /\ object # "none" /\ granting # NoBuffer /\ writer' = granting /\ granting' = NoBuffer
      /\ UNCHANGED <<object, control, pcb, requestedSendSize, sendBuffer, sendBuffers>>
      /\ UNCHANGED <<sendMemoryPool, unacked, owed, receive, window, broken, aborted>>
  BY DEF SendStreamAvailable, Connected
<1>4. Waiting' = Waiting /\ OneWaits' /\ NothingOvertaken'
  BY <1>1, <1>3 DEF OneWaits, Waiting, NothingOvertaken
<1>5. LwFlags'
  BY <1>1, <1>3, Zenon DEF LwFlags, receive
<1>6. LwTypes'
  <2>1. NoBuffer \in Buffers
    BY DEF Buffers
  <2> QED
    BY <1>1, <1>3, <2>1 DEF LwTypes, receive
<1>7. Linked'
  BY <1>3, LinkUnchanged DEF receive
<1> QED
  BY <1>2, <1>3, <1>4, <1>5, <1>6, <1>7 DEF LwInv

(***************************************************************************)
(* SendBuffer: tcp_write takes the buffer, or it waits for another try.    *)
(***************************************************************************)
LEMMA LwSends ==
    ASSUME LwInv, object # "none", NEW x \in Buffers, x # NoBuffer, Waiting = x,
           granting = NoBuffer, requestedSendSize' = requestedSendSize,
           NEW y \in Segments, y.mem = x.mem, NEW taken \in BOOLEAN, taken => control,
           SendBuffer(y, taken), writer' = NoBuffer, granting' = NoBuffer,
           owed' = IF taken THEN 0 ELSE 1,
           UNCHANGED <<object, control, pcb, sendMemoryPool, receive, window, broken, aborted>>
    PROVE  LwInv'
<1>1. LwTypes /\ LwFlags /\ OneWaits /\ Linked
  BY DEF LwInv
<1>2. Paired(sendMemoryPool, sendBuffers, x)
  BY DEF LwInv
<1>3. sendMemoryPool \in Seq(Memory) /\ sendBuffers \in Seq(Segments) /\ unacked \in Seq(Memory)
  BY <1>1 DEF LwTypes
<1>4. /\ y # NoBuffer /\ Paired(sendMemoryPool, sendBuffers, y)
      /\ Append(sendBuffers, y) \in Seq(Segments)
      /\ Paired(sendMemoryPool, Append(sendBuffers, y), NoBuffer)
  BY <1>2, <1>3, PairedKeeps
<1>5. LwFlags'
  BY <1>1, Zenon DEF LwFlags, receive
<1>6. y \in Buffers /\ NoBuffer \in Buffers
  BY DEF Buffers, Segments
<1>7. CASE taken
  <2> DEFINE u == unacked \o [i \in 1 .. y.size |-> y.mem]
  <2>1. unacked' = u /\ sendBuffers' = Append(sendBuffers, y) /\ sendBuffer' = NoBuffer
    BY <1>7 DEF SendBuffer
  <2>2. control /\ PcbOpen /\ Covers(sendBuffers, unacked) /\ window = Wnd - receiveBuffer
    BY <1>1, <1>7 DEF Linked
  <2>3. Covers(Append(sendBuffers, y), u)
    BY <1>3, <2>2, CoversAppend
  <2>4. u \in Seq(Memory)
    <3> DEFINE w == [i \in 1 .. y.size |-> y.mem]
    <3>1. y.size \in Nat /\ y.mem \in Memory
      BY SizesAssumption DEF Segments
    <3>2. w \in Seq(Memory)
      BY <3>1
    <3> HIDE DEF w
    <3>3. unacked \o w \in Seq(Memory)
      BY <1>3, <3>2
    <3> QED
      BY <3>3 DEF w
  <2> HIDE DEF u
  <2>5. LwTypes'
    BY <1>1, <1>4, <1>6, <2>1, <2>4 DEF LwTypes, receive
  <2>6. Waiting' = NoBuffer /\ OneWaits' /\ NothingOvertaken'
    BY <1>7, <2>1 DEF Waiting, OneWaits, NothingOvertaken
  <2>7. Linked'
    <3>1. pcb' # "none" /\ PcbOpen'
      BY <2>2 DEF PcbOpen
    <3> QED
      BY <2>1, <2>2, <2>3, <3>1 DEF Linked, receive
  <2> QED
    BY <1>4, <1>5, <2>1, <2>5, <2>6, <2>7 DEF LwInv
<1>8. CASE ~taken
  <2>1. unacked' = unacked /\ sendBuffers' = sendBuffers /\ sendBuffer' = y
    BY <1>8 DEF SendBuffer
  <2>2. LwTypes'
    BY <1>1, <1>6, <2>1 DEF LwTypes, receive
  <2>3. Waiting' = y /\ OneWaits' /\ NothingOvertaken'
    BY <1>4, <1>8, <2>1 DEF Waiting, OneWaits, NothingOvertaken
  <2>4. Linked'
    BY <2>1, LinkUnchanged DEF receive
  <2> QED
    BY <1>4, <1>5, <2>1, <2>2, <2>3, <2>4 DEF LwInv
<1> QED
  BY <1>7, <1>8

(***************************************************************************)
(* The observer closes its stream, with or without data in it.             *)
(***************************************************************************)
LEMMA LwCloses ==
    ASSUME LwInv, NEW size \in 0 .. MaxSegment, NEW taken \in BOOLEAN, CloseWriter(size, taken)
    PROVE  LwInv'
<1>1. LwTypes /\ LwFlags /\ OneWaits /\ NothingOvertaken
  BY DEF LwInv
<1>2. Paired(sendMemoryPool, sendBuffers, Waiting)
  BY DEF LwInv
<1>3. /\ object # "none" /\ writer # NoBuffer /\ (taken => control) /\ writer' = NoBuffer
      /\ UNCHANGED <<object, control, pcb, requestedSendSize, granting, receive, window>>
      /\ UNCHANGED <<broken, aborted>>
  BY DEF CloseWriter, Connected
<1>4. /\ sendBuffer = NoBuffer /\ granting = NoBuffer /\ requestedSendSize = 0
      /\ Waiting = writer /\ owed = 0
  BY <1>1, <1>3 DEF OneWaits, Waiting, NothingOvertaken
<1>5. writer \in Buffers /\ sendMemoryPool \in Seq(Memory) /\ sendBuffers \in Seq(Segments)
  BY <1>1 DEF LwTypes
<1>6. CASE size = 0
  <2>1. /\ sendMemoryPool' = Front(sendMemoryPool)
        /\ UNCHANGED <<sendBuffer, sendBuffers, unacked, owed>>
    BY <1>6 DEF CloseWriter, ReleaseMemory
  <2>2. /\ Front(sendMemoryPool) \in Seq(Memory)
        /\ Len(Front(sendMemoryPool)) <= Len(sendMemoryPool)
        /\ Paired(Front(sendMemoryPool), sendBuffers, NoBuffer)
    BY <1>2, <1>3, <1>4, <1>5, PairedReleases
  <2>3. Waiting' = NoBuffer /\ OneWaits' /\ NothingOvertaken'
    BY <1>3, <1>4, <2>1 DEF Waiting, OneWaits, NothingOvertaken
  <2>4. Len(sendMemoryPool') <= QueueLen
    <3>1. Len(sendMemoryPool) <= QueueLen /\ Len(sendMemoryPool) \in Nat /\ QueueLen \in Nat
      BY <1>1, SizesAssumption DEF LwTypes
    <3>2. Len(Front(sendMemoryPool)) \in Nat
      BY <2>2
    <3> QED
      BY <2>1, <2>2, <3>1, <3>2
  <2>5. LwFlags'
    BY <1>1, <1>3, Zenon DEF LwFlags, receive
  <2>6. LwTypes'
    <3>1. NoBuffer \in Buffers
      BY DEF Buffers
    <3> QED
      BY <1>1, <1>3, <2>1, <2>2, <2>4, <3>1 DEF LwTypes, receive
  <2>7. Linked'
    BY <1>3, <2>1, LinkUnchanged DEF receive
  <2> QED
    BY <2>1, <2>2, <2>3, <2>5, <2>6, <2>7 DEF LwInv
<1>7. CASE size # 0
  <2> DEFINE y == [mem |-> writer.mem, size |-> size]
  <2>1. SendBuffer(y, taken) /\ owed' = (IF taken THEN owed ELSE owed + 1)
    BY <1>7 DEF CloseWriter
  <2>2. sendMemoryPool' = sendMemoryPool
    BY <1>7 DEF CloseWriter
  <2>3. y \in Segments /\ y.mem = writer.mem
    <3>1. size \in 1 .. MaxSegment
      BY <1>7, SizesAssumption
    <3>2. writer.mem \in Memory
      BY <1>3, <1>5 DEF Buffers
    <3> QED
      BY <3>1, <3>2 DEF Segments
  <2>4. owed' = IF taken THEN 0 ELSE 1
    BY <1>4, <2>1
  <2>5. granting' = NoBuffer /\ requestedSendSize' = requestedSendSize
    BY <1>3, <1>4
  <2> HIDE DEF y
  <2> QED
    BY <1>3, <1>4, <1>5, <2>1, <2>2, <2>3, <2>4, <2>5, LwSends
<1> QED
  BY <1>6, <1>7

(***************************************************************************)
(* retrySendTimer: the buffer that lwIP refused is the one that is tried.  *)
(***************************************************************************)
LEMMA LwRetries ==
    ASSUME LwInv, NEW taken \in BOOLEAN, RetrySend(taken)
    PROVE  LwInv'
<1>1. LwTypes /\ OneWaits /\ NothingOvertaken
  BY DEF LwInv
<1>2. /\ object # "none" /\ sendBuffer # NoBuffer /\ (taken => control)
      /\ SendBuffer(sendBuffer, taken) /\ owed' = (IF taken THEN owed - 1 ELSE owed)
      /\ UNCHANGED <<object, control, pcb, requestedSendSize, granting, writer, sendMemoryPool>>
      /\ UNCHANGED <<receive, window, broken, aborted>>
  BY DEF RetrySend, Connected
<1>3. granting = NoBuffer /\ writer = NoBuffer /\ Waiting = sendBuffer /\ owed = 1
  BY <1>1, <1>2 DEF OneWaits, Waiting, NothingOvertaken
<1>4. sendBuffer \in Buffers /\ sendBuffer \in Segments
  BY <1>1, <1>2 DEF LwTypes, Buffers, Segments
<1>5. owed' = (IF taken THEN 0 ELSE 1) /\ writer' = NoBuffer /\ granting' = NoBuffer
  BY <1>2, <1>3
<1>6. requestedSendSize' = requestedSendSize
  BY <1>2
<1> QED
  BY <1>2, <1>3, <1>4, <1>5, <1>6, LwSends

(***************************************************************************)
(* The peer acknowledges a part of a buffer, or many: the memory that is   *)
(* given back is exactly what lwIP no longer refers to.                    *)
(***************************************************************************)
LEMMA LwAcknowledges ==
    ASSUME LwInv, NEW len \in 1 .. QueueLen * MaxSegment, Sent(len)
    PROVE  LwInv'
<1> DEFINE k == Acknowledged(len)
           a == BuffersAfter(len)
           p == SubSeq(sendMemoryPool, k + 1, Len(sendMemoryPool))
           u == SubSeq(unacked, len + 1, Len(unacked))
<1>1. LwTypes /\ LwFlags /\ OneWaits /\ NothingOvertaken
  BY DEF LwInv
<1>2. Paired(sendMemoryPool, sendBuffers, Waiting) /\ Linked
  BY DEF LwInv
<1>3. /\ object # "none" /\ control /\ PcbOpen /\ len <= Len(unacked)
      /\ unacked' = u /\ sendBuffers' = a
      /\ IF TriesAgain
         THEN TryAllocateSendStream(requestedSendSize, a, p)
         ELSE sendMemoryPool' = p /\ UNCHANGED <<requestedSendSize, granting>>
      /\ UNCHANGED <<object, control, pcb, writer, sendBuffer, owed, receive, window>>
      /\ UNCHANGED <<broken, aborted>>
  BY DEF Sent, Exists
<1>4. len \in Nat
  BY SizesAssumption
<1>5. /\ sendBuffers \in Seq(Segments) /\ unacked \in Seq(Memory)
      /\ sendMemoryPool \in Seq(Memory) /\ Len(sendMemoryPool) <= QueueLen
      /\ granting \in Buffers /\ writer \in Buffers /\ sendBuffer \in Buffers
      /\ requestedSendSize \in 0 .. MaxSegment
  BY <1>1 DEF LwTypes
<1>6. Covers(sendBuffers, unacked)
  BY <1>2, <1>3 DEF Linked
<1>7. /\ a \in Seq(Segments) /\ Len(a) = Len(sendBuffers) - k
      /\ \A i \in 1 .. Len(sendBuffers) - k : a[i].mem = sendBuffers[k + i].mem
      /\ Covers(a, u)
  BY <1>3, <1>4, <1>5, <1>6, SentLeaves
<1>8. k \in 0 .. Len(sendBuffers)
  BY <1>4, <1>5, AcknowledgedStops
<1>9. u \in Seq(Memory)
  BY <1>4, <1>5
<1>10. Waiting \in Buffers
  BY <1>5 DEF Waiting
<1> HIDE DEF k, a, u
<1>11. p \in Seq(Memory) /\ Len(p) <= Len(sendMemoryPool) /\ Paired(p, a, Waiting)
  BY <1>2, <1>5, <1>7, <1>8, <1>10, PairedShifts
<1> HIDE DEF p
<1>12. Len(p) <= QueueLen
  BY <1>5, <1>11, SizesAssumption
<1>13. /\ requestedSendSize' \in 0 .. MaxSegment /\ granting' \in Buffers
       /\ sendMemoryPool' \in Seq(Memory) /\ Len(sendMemoryPool') <= QueueLen
       /\ OneWaits' /\ Paired(sendMemoryPool', a, Waiting')
  <2>1. CASE TriesAgain
    <3>1. requestedSendSize \in 1 .. MaxSegment /\ granting = NoBuffer /\ writer = NoBuffer
      BY <1>1, <1>5, <2>1, SizesAssumption DEF TriesAgain, OneWaits
    <3>2. Waiting = sendBuffer
      BY <3>1 DEF Waiting
    <3>3. TryAllocateSendStream(requestedSendSize, a, p) /\ UNCHANGED <<writer, sendBuffer>>
      BY <1>3, <2>1
    <3> QED
      BY <1>5, <1>7, <1>11, <1>12, <3>1, <3>2, <3>3, LwAllocates
  <2>2. CASE ~TriesAgain
    <3>1. sendMemoryPool' = p /\ UNCHANGED <<requestedSendSize, granting, writer, sendBuffer>>
      BY <1>3, <2>2
    <3>2. Waiting' = Waiting /\ OneWaits'
      BY <1>1, <3>1 DEF Waiting, OneWaits
    <3> QED
      BY <1>5, <1>11, <1>12, <3>1, <3>2
  <2> QED
    BY <2>1, <2>2
<1>14. LwFlags'
  BY <1>1, <1>3, Zenon DEF LwFlags, receive
<1>15. LwTypes'
  BY <1>1, <1>3, <1>7, <1>9, <1>13 DEF LwTypes, receive
<1>16. NothingOvertaken'
  BY <1>1, <1>3 DEF NothingOvertaken
<1>17. Linked'
  <2>1. pcb' # "none" /\ PcbOpen' /\ object' # "none"
    BY <1>3 DEF PcbOpen
  <2>2. window' = Wnd - receiveBuffer'
    BY <1>2, <1>3 DEF Linked, receive
  <2> QED
    BY <1>3, <1>7, <2>1, <2>2 DEF Linked
<1> QED
  BY <1>3, <1>13, <1>14, <1>15, <1>16, <1>17 DEF LwInv

(***************************************************************************)
(* Connections on lwIP are safe, for any number of buffers of any size and *)
(* any window, however connections are made and end: the memory that lwIP  *)
(* refers to is neither reused nor given back before the peer has          *)
(* acknowledged it, whatever part of a buffer an acknowledgement covers;   *)
(* no buffer overtakes one that lwIP refused; the peer sees as much window *)
(* as there is room; and what comes is announced.                          *)
(***************************************************************************)
THEOREM LwIpIsSafe == Spec /\ [](subject = "lwip") => []LwIpSafe
<1>1. LwInv /\ [Next]_vars => LwInv'
  <2> SUFFICES ASSUME LwInv, [Next]_vars
               PROVE  LwInv'
    OBVIOUS
  <2>1. CASE Next
    <3>1. CASE Accept("owned") \/ Accept("held")
      BY <3>1, LwAccept
    <3>2. CASE Attach \/ Drop \/ Reset \/ AbortAndDestroy \/ CloseAndDestroy \/ Closed \/ RecvClosed
      BY <3>2, LwEndings
    <3>3. CASE \E size \in 1 .. MaxSegment : RequestSendStream(size)
      BY <3>3, LwRequests
    <3>4. CASE \E len \in 1 .. QueueLen * MaxSegment : Sent(len)
      BY <3>4, LwAcknowledges
    <3>5. CASE SendStreamAvailable
      BY <3>5, LwGives
    <3>6. CASE \E size \in 0 .. MaxSegment, taken \in BOOLEAN : CloseWriter(size, taken)
      BY <3>6, LwCloses
    <3>7. CASE \E taken \in BOOLEAN : RetrySend(taken)
      BY <3>7, LwRetries
    <3>8. CASE \E size \in 0 .. Wnd : Recv(size) \/ DataReceived(size)
      BY <3>8, LwReceives
    <3>9. 1 .. Wnd \subseteq 0 .. Wnd
      BY SizesAssumption
    <3> QED
      BY <2>1, <3>1, <3>2, <3>3, <3>4, <3>5, <3>6, <3>7, <3>8, <3>9 DEF Next
  <2>2. CASE UNCHANGED vars
    <3>1. LwTypes /\ LwFlags /\ Linked
      BY DEF LwInv
    <3>2. /\ UNCHANGED <<object, control, pcb, send, unacked, receive, window>>
          /\ UNCHANGED <<broken, aborted>>
      BY <2>2 DEF vars
    <3>3. LwFlags'
      BY <3>1, <3>2, Zenon DEF LwFlags, receive
    <3>4. LwTypes'
      BY <3>1, <3>2 DEF LwTypes, send, receive
    <3>5. Linked'
      BY <3>1, <3>2 DEF Linked, Gone, PcbOpen, send, receive
    <3> QED
      BY <3>2, <3>3, <3>4, <3>5, BuffersUnchanged DEF LwInv
  <2> QED
    BY <2>1, <2>2
<1>2. LwInv /\ subject = "lwip" => LwIpSafe
  BY LwInvIsSafe
<1> QED
  BY <1>1, <1>2, LwInitially, PTL DEF Spec
=============================================================================
