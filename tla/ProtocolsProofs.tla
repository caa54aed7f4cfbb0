--------------------------- MODULE ProtocolsProofs ---------------------------
(***************************************************************************)
(* Proofs about module MqttClient, for any number of connections and of    *)
(* publications, and any factory that creates the observer at once, and    *)
(* about module HttpServer, for any connections and number of requests.    *)
(***************************************************************************)
EXTENDS MCProtocols, SequenceTheorems, TLAPS

Quiet == toBroker = << >> /\ fromBroker = << >> /\ received = << >>

\* A client exists exactly on an open connection, and while the factory has
\* to be told how a Connect ended it was told nothing.
ConnectorInv ==
    /\ tcp = "open" <=> state /= "none"
    /\ tcp = "pending" \/ state = "connecting" => told = << >>
    /\ Mqtt!ToldOnce

\* One packet at a time is under way, as a request, as its answer, or as what
\* is left of it in the buffer, and none while no answer is expected.
TrafficInv ==
    /\ Len(toBroker) + Len(toBroker) + Len(fromBroker) + Len(received) <= 2
    /\ stream \/ state = "none" \/ (state = "connected" /\ publish /= "sent") => Quiet
    /\ stream /\ state = "connected" => publish = "requested"

PublishInv ==
    /\ done <= publishes
    /\ publish /= "none" => done < publishes /\ state = "connected"

\* The inductive invariant
MqttInv ==
    /\ Mqtt!TypeOK /\ ~deferred /\ ConnectorInv /\ Mqtt!WaitsWithTimer
    /\ TrafficInv /\ PublishInv

(***************************************************************************)
(* Nothing is under way on a new connection.                               *)
(***************************************************************************)
LEMMA EmptyTyped ==
    /\ << >> \in Seq({"established", "failed", "cancelled"})
    /\ << >> \in Seq({"connect", "publish"})
    /\ << >> \in Seq(Mqtt!Halves)
    /\ Len(<< >>) = 0
OBVIOUS

(***************************************************************************)
(* What one packet at a time means for the lengths of the queues.          *)
(***************************************************************************)
LEMMA OnePacket ==
    ASSUME NEW a \in Nat, NEW b \in Nat, NEW c \in Nat, a + a + b + c <= 2
    PROVE  /\ c >= 2 => a = 0 /\ b = 0 /\ c = 2
           /\ a >= 1 => \A r \in {0, 2} : (a - 1) + (a - 1) + (b + r) + c <= 2
OBVIOUS

(***************************************************************************)
(* The initial state                                                       *)
(***************************************************************************)
LEMMA MqttInvInit == Mqtt!MqttAssumption /\ Mqtt!Init => MqttInv
<1> SUFFICES ASSUME Mqtt!MqttAssumption, Mqtt!Init
             PROVE  MqttInv
  OBVIOUS
<1>1. 0 \in 0 .. MaxConnects /\ 0 \in 0 .. MaxPublishes
  BY DEF Mqtt!MqttAssumption
<1>2. /\ told \in Seq({"established", "failed", "cancelled"})
      /\ toBroker \in Seq({"connect", "publish"})
      /\ fromBroker \in Seq(Mqtt!Halves) /\ received \in Seq(Mqtt!Halves) /\ Len(received) <= 2
  BY EmptyTyped DEF Mqtt!Init
<1>3. Mqtt!TypeOK
  BY <1>1, <1>2 DEF Mqtt!Init, Mqtt!TypeOK
<1> QED
  BY <1>3, EmptyTyped DEF Mqtt!Init, MqttInv, ConnectorInv, Mqtt!WaitsWithTimer, TrafficInv,
     PublishInv, Mqtt!ToldOnce, Quiet

(***************************************************************************)
(* The factory is told that the connection failed: it hears so once, or    *)
(* connects again.                                                         *)
(***************************************************************************)
LEMMA FactoryTold ==
    ASSUME Mqtt!MqttAssumption, Mqtt!TypeOK, told = << >>, NEW allocatable \in BOOLEAN,
           Mqtt!TellFailed(allocatable)
    PROVE  /\ told' \in Seq({"established", "failed", "cancelled"}) /\ Len(told') <= 1
           /\ tcp' \in {"none", "pending"} /\ (tcp' = "pending" => told' = << >>)
           /\ connects' \in 0 .. MaxConnects /\ asserted' \in BOOLEAN
<1>1. CASE told' = Append(told, "failed") /\ tcp' = "none" /\ UNCHANGED <<connects, asserted>>
  <2>1. told' = <<"failed">>
    BY <1>1
  <2>2. told' \in Seq({"established", "failed", "cancelled"}) /\ Len(told') = 1
    BY <2>1
  <2> QED
    BY <1>1, <2>2 DEF Mqtt!TypeOK
<1>2. CASE /\ Retries /\ connects < MaxConnects
           /\ Mqtt!StartConnect /\ asserted' = (asserted \/ ~allocatable)
  <2>1. told' = << >> /\ tcp' = "pending" /\ connects' = connects + 1
    BY <1>2 DEF Mqtt!StartConnect
  <2>2. told' \in Seq({"established", "failed", "cancelled"}) /\ Len(told') = 0
    BY <2>1
  <2>3. connects' \in 0 .. MaxConnects
    BY <1>2, <2>1 DEF Mqtt!TypeOK, Mqtt!MqttAssumption
  <2>4. asserted' \in BOOLEAN
    BY <1>2 DEF Mqtt!TypeOK
  <2> QED
    BY <2>1, <2>2, <2>3, <2>4
<1> QED
  BY <1>1, <1>2 DEF Mqtt!TellFailed

(***************************************************************************)
(* The operations of the connector                                         *)
(***************************************************************************)
LEMMA ConnectorNext ==
    ASSUME Mqtt!MqttAssumption, MqttInv,
           Mqtt!Connect \/ Mqtt!CancelConnect \/ Mqtt!ConnectionEstablished \/ Mqtt!ConnectionFailed
    PROVE  MqttInv'
<1> USE DEF Mqtt!MqttAssumption, Mqtt!client, Mqtt!history
<1>0. Mqtt!TypeOK /\ ~deferred /\ ConnectorInv /\ Mqtt!WaitsWithTimer /\ TrafficInv /\ PublishInv
  BY DEF MqttInv
<1>1. CASE Mqtt!Connect
  <2>1. Mqtt!TypeOK'
    BY <1>0, <1>1 DEF Mqtt!Connect, Mqtt!StartConnect, Mqtt!TypeOK
  <2> QED
    BY <1>0, <1>1, <2>1 DEF Mqtt!Connect, Mqtt!StartConnect, MqttInv, ConnectorInv,
       Mqtt!WaitsWithTimer,
       TrafficInv, PublishInv, Mqtt!ToldOnce, Quiet
<1>2. CASE Mqtt!CancelConnect
  <2>1. Mqtt!TypeOK'
    BY <1>0, <1>2 DEF Mqtt!CancelConnect, Mqtt!TypeOK
  <2> QED
    BY <1>0, <1>2, <2>1 DEF Mqtt!CancelConnect, MqttInv, ConnectorInv, Mqtt!WaitsWithTimer,
       TrafficInv, PublishInv, Mqtt!ToldOnce, Quiet
<1>3. CASE Mqtt!ConnectionEstablished
  <2>1. /\ toBroker' \in Seq({"connect", "publish"})
        /\ fromBroker' \in Seq(Mqtt!Halves) /\ received' \in Seq(Mqtt!Halves) /\ Len(received') <= 2
    BY <1>3, EmptyTyped DEF Mqtt!ConnectionEstablished
  <2>2. Mqtt!TypeOK'
    BY <1>0, <1>3, <2>1 DEF Mqtt!ConnectionEstablished, Mqtt!TypeOK
  <2> QED
    BY <1>0, <1>3, <2>2, EmptyTyped DEF Mqtt!ConnectionEstablished, MqttInv, ConnectorInv,
       Mqtt!WaitsWithTimer,
       TrafficInv, PublishInv, Mqtt!ToldOnce, Quiet
<1>4. CASE Mqtt!ConnectionFailed
  <2>1. /\ told' \in Seq({"established", "failed", "cancelled"}) /\ Len(told') <= 1
        /\ tcp' \in {"none", "pending"} /\ (tcp' = "pending" => told' = << >>)
        /\ connects' \in 0 .. MaxConnects /\ asserted' \in BOOLEAN
    BY <1>0, <1>4, FactoryTold DEF Mqtt!ConnectionFailed, ConnectorInv
  <2>2. /\ UNCHANGED <<stream, toBroker, fromBroker, received, dataReceived, Mqtt!client, publishes, done>>
        /\ tcp = "pending"
    BY <1>4 DEF Mqtt!ConnectionFailed
  <2>3. Mqtt!TypeOK'
    BY <1>0, <2>1, <2>2 DEF Mqtt!TypeOK
  <2> QED
    BY <1>0, <2>1, <2>2, <2>3 DEF MqttInv,
       ConnectorInv, Mqtt!WaitsWithTimer, TrafficInv, PublishInv, Mqtt!ToldOnce, Quiet
<1> QED
  BY <1>1, <1>2, <1>3, <1>4

(***************************************************************************)
(* A client that is destroyed with its connection leaves nothing behind,   *)
(* whoever is told.                                                        *)
(***************************************************************************)
LEMMA DestroyedNext ==
    ASSUME Mqtt!MqttAssumption, MqttInv, Mqtt!ResetOwnership,
           publishes' = publishes, done' = done,
           tcp' \in {"none", "pending"}, tcp' = "pending" => told' = << >>,
           told' \in Seq({"established", "failed", "cancelled"}), Len(told') <= 1,
           connects' \in 0 .. MaxConnects, asserted' \in BOOLEAN
    PROVE  MqttInv'
<1>0. Mqtt!TypeOK /\ PublishInv
  BY DEF MqttInv
<1>1. /\ toBroker' \in Seq({"connect", "publish"})
      /\ fromBroker' \in Seq(Mqtt!Halves) /\ received' \in Seq(Mqtt!Halves) /\ Len(received') <= 2
  BY EmptyTyped DEF Mqtt!ResetOwnership
<1>2. Mqtt!TypeOK'
  BY <1>0, <1>1 DEF Mqtt!ResetOwnership, Mqtt!TypeOK
<1> QED
  BY <1>0, <1>2, EmptyTyped DEF Mqtt!ResetOwnership, MqttInv, ConnectorInv, Mqtt!WaitsWithTimer,
     TrafficInv, PublishInv, Mqtt!ToldOnce, Quiet

(***************************************************************************)
(* The connection breaks, is closed, or is aborted.                        *)
(***************************************************************************)
LEMMA AbortNext ==
    ASSUME Mqtt!MqttAssumption, MqttInv, Mqtt!AbortAndDestroy \/ Mqtt!Timeout
    PROVE  MqttInv'
<1>0. Mqtt!TypeOK /\ ConnectorInv /\ Mqtt!WaitsWithTimer
  BY DEF MqttInv
<1>1. Mqtt!ResetOwnership /\ publishes' = publishes /\ done' = done
  BY DEF Mqtt!AbortAndDestroy, Mqtt!Timeout
<1>2. CASE Mqtt!TellFailed(FALSE) /\ state = "connecting"
  <2>1. told = << >>
    BY <1>0, <1>2 DEF ConnectorInv
  <2>2. /\ told' \in Seq({"established", "failed", "cancelled"}) /\ Len(told') <= 1
        /\ tcp' \in {"none", "pending"} /\ (tcp' = "pending" => told' = << >>)
        /\ connects' \in 0 .. MaxConnects /\ asserted' \in BOOLEAN
    BY <1>0, <1>2, <2>1, FactoryTold
  <2> QED
    BY <1>1, <2>2, DestroyedNext
<1>3. CASE Mqtt!ConnectedClosed
  <2>1. /\ told' \in Seq({"established", "failed", "cancelled"}) /\ Len(told') <= 1
        /\ tcp' = "none" /\ connects' \in 0 .. MaxConnects /\ asserted' \in BOOLEAN
    BY <1>0, <1>3 DEF Mqtt!ConnectedClosed, Mqtt!TypeOK, ConnectorInv, Mqtt!ToldOnce
  <2> QED
    BY <1>1, <2>1, DestroyedNext
<1> QED
  BY <1>0, <1>2, <1>3
     DEF Mqtt!AbortAndDestroy, Mqtt!Timeout, Mqtt!ClosingConnection, Mqtt!ConnectingClosed,
        Mqtt!WaitsWithTimer

(***************************************************************************)
(* A stream becomes available, or the client asks for one.                 *)
(***************************************************************************)
LEMMA StreamNext ==
    ASSUME Mqtt!MqttAssumption, MqttInv, Mqtt!SendStreamAvailable \/ Mqtt!Publish
    PROVE  MqttInv'
<1>0. Mqtt!TypeOK /\ ~deferred /\ ConnectorInv /\ Mqtt!WaitsWithTimer /\ TrafficInv /\ PublishInv
  BY DEF MqttInv
<1>1. CASE Mqtt!SendStreamAvailable
  <2>1. /\ stream /\ state /= "none" /\ Quiet /\ stream' = FALSE
        /\ UNCHANGED <<tcp, fromBroker, received, dataReceived, state, timeout, deferred, told,
                       connects, publishes, done, asserted>>
    BY <1>0, <1>1 DEF Mqtt!SendStreamAvailable, Mqtt!WaitsWithTimer, TrafficInv, Mqtt!history
  <2>2. PICK packet \in {"connect", "publish"} : toBroker' = Append(<< >>, packet)
    BY <1>1, <2>1 DEF Mqtt!SendStreamAvailable, Mqtt!SendsConnect, Mqtt!SendsPublish, Quiet
  <2>3. toBroker' \in Seq({"connect", "publish"}) /\ Len(toBroker') = 1
    BY <2>2
  <2>4. IF state = "connecting"
        THEN publish' = publish /\ publishTimeout' = publishTimeout
        ELSE state = "connected" /\ publish = "requested" /\ publish' = "sent"
             /\ publishTimeout' = TRUE
    BY <1>0, <1>1, <2>1 DEF Mqtt!SendStreamAvailable, Mqtt!SendsConnect, Mqtt!SendsPublish,
       Mqtt!TypeOK, TrafficInv
  <2>5. Mqtt!TypeOK'
    BY <1>0, <2>1, <2>3, <2>4 DEF Mqtt!TypeOK
  <2>6. Mqtt!WaitsWithTimer' /\ PublishInv' /\ ConnectorInv'
    BY <1>0, <2>1, <2>4 DEF Mqtt!TypeOK, Mqtt!WaitsWithTimer, PublishInv, ConnectorInv,
       Mqtt!ToldOnce
  <2>7. TrafficInv'
    BY <1>0, <2>1, <2>3, <2>4, EmptyTyped DEF TrafficInv, Quiet
  <2> QED
    BY <1>0, <2>1, <2>5, <2>6, <2>7 DEF MqttInv
<1>2. CASE Mqtt!Publish
  <2>1. /\ state = "connected" /\ publish = "none" /\ publishes < MaxPublishes
        /\ publishes' = publishes + 1 /\ publish' = "requested" /\ stream' = TRUE
        /\ UNCHANGED <<tcp, toBroker, fromBroker, received, dataReceived, state, timeout,
                       publishTimeout, deferred, told, connects, done, asserted>>
    BY <1>2 DEF Mqtt!Publish, Mqtt!Publishes
  <2>2. Mqtt!TypeOK'
    BY <1>0, <2>1 DEF Mqtt!TypeOK, Mqtt!MqttAssumption
  <2> QED
    BY <1>0, <2>1, <2>2 DEF Mqtt!TypeOK, MqttInv, ConnectorInv, Mqtt!WaitsWithTimer, TrafficInv,
       PublishInv, Mqtt!ToldOnce, Quiet
<1> QED
  BY <1>1, <1>2

(***************************************************************************)
(* An answer of the broker was taken from the buffer, and the client       *)
(* publishes something at once or does not.                                *)
(***************************************************************************)
LEMMA AnsweredNext ==
    ASSUME Mqtt!MqttAssumption, MqttInv, received /= << >>, Len(received) >= 2, Mqtt!AckPacket,
           Mqtt!Publishes \/ Mqtt!NoPublish,
           state' = "connected", timeout' = FALSE, deferred' = FALSE, publishTimeout' = FALSE,
           tcp = "open", UNCHANGED <<tcp, toBroker, fromBroker, connects, asserted>>,
           told' \in Seq({"established", "failed", "cancelled"}), Len(told') <= 1,
           done' \in Nat, done' <= publishes
    PROVE  MqttInv'
<1>0. Mqtt!TypeOK /\ TrafficInv
  BY DEF MqttInv
<1>1. Len(received) = 2 /\ toBroker = << >> /\ fromBroker = << >> /\ ~stream
  <2>1. /\ toBroker \in Seq({"connect", "publish"}) /\ Len(toBroker) \in Nat
        /\ fromBroker \in Seq(Mqtt!Halves) /\ Len(fromBroker) \in Nat /\ Len(received) \in Nat
    BY <1>0 DEF Mqtt!TypeOK
  <2>2. Len(received) = 2 /\ Len(toBroker) = 0 /\ Len(fromBroker) = 0
    <3>1. Len(toBroker) + Len(toBroker) + Len(fromBroker) + Len(received) <= 2
      BY <1>0 DEF TrafficInv
    <3> QED
      BY <2>1, <3>1, OnePacket, Zenon
  <2>3. ~stream
    BY <1>0 DEF TrafficInv, Quiet
  <2> QED
    BY <2>1, <2>2, <2>3
<1>2. received' = << >> /\ dataReceived' = FALSE
  BY <1>0, <1>1 DEF Mqtt!AckPacket, Mqtt!TypeOK
<1>3. \/ publishes' = publishes + 1 /\ publish' = "requested" /\ stream' = TRUE
      \/ publishes' = publishes /\ publish' = "none" /\ stream' = FALSE
  BY <1>0, <1>1 DEF Mqtt!Publishes, Mqtt!NoPublish, Mqtt!TypeOK
<1>4. publishes' \in 0 .. MaxPublishes
  BY <1>0 DEF Mqtt!Publishes, Mqtt!NoPublish, Mqtt!TypeOK, Mqtt!MqttAssumption
<1>5. Mqtt!TypeOK'
  <2>1. received' \in Seq(Mqtt!Halves) /\ Len(received') <= 2
    BY <1>2, EmptyTyped
  <2> QED
    BY <1>0, <1>2, <1>3, <1>4, <2>1 DEF Mqtt!TypeOK
<1>6. Mqtt!WaitsWithTimer' /\ ConnectorInv'
  BY <1>3 DEF Mqtt!WaitsWithTimer, ConnectorInv, Mqtt!ToldOnce
<1>7. PublishInv'
  BY <1>0, <1>3 DEF PublishInv, Mqtt!TypeOK
<1>8. TrafficInv'
  BY <1>1, <1>2, <1>3, EmptyTyped DEF TrafficInv, Quiet
<1> QED
  BY <1>5, <1>6, <1>7, <1>8 DEF MqttInv

(***************************************************************************)
(* Data of the broker is looked at.                                        *)
(***************************************************************************)
LEMMA DataReceivedNext ==
    ASSUME Mqtt!MqttAssumption, MqttInv, Mqtt!DataReceived
    PROVE  MqttInv'
<1>0. Mqtt!TypeOK /\ ~deferred /\ ConnectorInv /\ Mqtt!WaitsWithTimer /\ TrafficInv /\ PublishInv
  BY DEF MqttInv
<1>1. ASSUME /\ dataReceived' = FALSE
             /\ UNCHANGED <<tcp, stream, toBroker, fromBroker, received, Mqtt!client, Mqtt!history>>
      PROVE  MqttInv'
  BY <1>0, <1>1 DEF Mqtt!client, Mqtt!history, Mqtt!TypeOK, MqttInv, ConnectorInv,
     Mqtt!WaitsWithTimer,
     TrafficInv, PublishInv, Mqtt!ToldOnce, Quiet
<1>2. ASSUME Len(received) >= 2
      PROVE  /\ received /= << >>
             /\ state /= "none" /\ tcp = "open"
             /\ state /= "connecting" => state = "connected" /\ publish = "sent"
  <2>1. received /= << >>
    BY <1>2, EmptyTyped
  <2> QED
    BY <1>0, <2>1 DEF TrafficInv, Quiet, Mqtt!TypeOK, ConnectorInv
<1>3. CASE Len(received) >= 2 /\ state = "connecting" /\ Mqtt!ReceiveConAck
  <2>1. told = << >> /\ publishTimeout = FALSE
    BY <1>0, <1>3 DEF ConnectorInv, Mqtt!WaitsWithTimer, PublishInv, Mqtt!TypeOK
  <2>2. CASE Mqtt!AbortAndDestroy
    BY <2>2, AbortNext
  <2>3. CASE /\ Mqtt!ObserverCreated /\ Mqtt!AckPacket /\ told' = Append(told, "established")
             /\ UNCHANGED <<connects, done, asserted>>
    <3>1. told' = <<"established">>
      BY <2>1, <2>3
    <3>2. told' \in Seq({"established", "failed", "cancelled"}) /\ Len(told') <= 1
      BY <3>1
    <3>3. done' \in Nat /\ done' <= publishes
      BY <1>0, <2>3 DEF Mqtt!TypeOK, PublishInv
    <3>4. /\ Mqtt!AckPacket /\ (Mqtt!Publishes \/ Mqtt!NoPublish)
          /\ state' = "connected" /\ timeout' = FALSE /\ deferred' = FALSE
          /\ publishTimeout' = FALSE
          /\ UNCHANGED <<tcp, toBroker, fromBroker, connects, asserted>>
      BY <2>1, <2>3 DEF Mqtt!ObserverCreated
    <3> QED
      BY <1>2, <1>3, <3>2, <3>3, <3>4, AnsweredNext
  <2>4. CASE Mqtt!ObserverRefused /\ UNCHANGED <<connects, done, asserted>>
    <3>1. told' = <<"established">>
      BY <2>1, <2>4 DEF Mqtt!ObserverRefused
    <3>2. told' \in Seq({"established", "failed", "cancelled"}) /\ Len(told') <= 1
      BY <3>1
    <3>3. Mqtt!ResetOwnership /\ tcp' = "none" /\ UNCHANGED <<publishes, done, connects, asserted>>
      BY <2>4 DEF Mqtt!ObserverRefused
    <3>4. connects' \in 0 .. MaxConnects /\ asserted' \in BOOLEAN
      BY <1>0, <3>3 DEF Mqtt!TypeOK
    <3> QED
      BY <3>2, <3>3, <3>4, DestroyedNext
  <2> QED
    BY <1>3, <2>2, <2>3, <2>4 DEF Mqtt!ReceiveConAck
<1>4. CASE Len(received) >= 2 /\ state /= "connecting" /\ Mqtt!ReceivePubAck
  <2>1. CASE received[1] = "puback"
    <3>1. state = "connected" /\ publish = "sent" /\ tcp = "open" /\ received /= << >>
      BY <1>2, <1>4
    <3>2. /\ Mqtt!AckPacket /\ (Mqtt!Publishes \/ Mqtt!NoPublish) /\ done' = done + 1
          /\ publishTimeout' = FALSE
          /\ UNCHANGED <<tcp, toBroker, fromBroker, state, timeout, deferred, told, connects,
                         asserted>>
      BY <1>4, <2>1 DEF Mqtt!ReceivePubAck
    <3>3. done' \in Nat /\ done' <= publishes
      BY <1>0, <3>1, <3>2 DEF Mqtt!TypeOK, PublishInv
    <3>4. state' = "connected" /\ timeout' = FALSE /\ deferred' = FALSE
      BY <1>0, <3>1, <3>2 DEF Mqtt!TypeOK, Mqtt!WaitsWithTimer
    <3>5. told' \in Seq({"established", "failed", "cancelled"}) /\ Len(told') <= 1
      BY <1>0, <3>2 DEF Mqtt!TypeOK, ConnectorInv, Mqtt!ToldOnce
    <3> QED
      BY <1>4, <3>1, <3>2, <3>3, <3>4, <3>5, AnsweredNext
  <2>2. CASE received[1] /= "puback"
    BY <1>1, <1>4, <2>2 DEF Mqtt!ReceivePubAck
  <2> QED
    BY <2>1, <2>2
<1>5. Len(received) \in Nat
  BY <1>0 DEF Mqtt!TypeOK
<1>6. CASE Len(received) < 2
  BY <1>1, <1>6 DEF Mqtt!DataReceived
<1>7. CASE ~(Len(received) < 2)
  <2>1. Len(received) >= 2
    BY <1>5, <1>7
  <2> QED
    BY <1>3, <1>4, <1>7, <2>1 DEF Mqtt!DataReceived
<1> QED
  BY <1>6, <1>7

(***************************************************************************)
(* The broker answers what it receives, and TCP delivers its answer in     *)
(* halves.                                                                 *)
(***************************************************************************)
LEMMA BrokerNext ==
    ASSUME Mqtt!MqttAssumption, MqttInv, Mqtt!BrokerReceives \/ Mqtt!Arrive
    PROVE  MqttInv'
<1>0. Mqtt!TypeOK /\ ~deferred /\ ConnectorInv /\ Mqtt!WaitsWithTimer /\ TrafficInv /\ PublishInv
  BY DEF MqttInv
<1>1. /\ toBroker \in Seq({"connect", "publish"}) /\ Len(toBroker) \in Nat
      /\ fromBroker \in Seq(Mqtt!Halves) /\ Len(fromBroker) \in Nat
      /\ received \in Seq(Mqtt!Halves) /\ Len(received) \in Nat
  BY <1>0 DEF Mqtt!TypeOK
<1>2. CASE Mqtt!BrokerReceives
  <2>1. PICK r \in Mqtt!Replies(Head(toBroker)) : fromBroker' = fromBroker \o r
    BY <1>2 DEF Mqtt!BrokerReceives
  <2>2. /\ toBroker /= << >> /\ toBroker' = Tail(toBroker)
        /\ UNCHANGED <<tcp, stream, received, dataReceived, Mqtt!client, Mqtt!history>>
    BY <1>2 DEF Mqtt!BrokerReceives
  <2>3. r \in Seq(Mqtt!Halves) /\ Len(r) \in {0, 2}
    <3>1. \/ r = << >> \/ r = <<"other", "other">> \/ r = <<"conack", "conack">>
          \/ r = <<"puback", "puback">>
      BY DEF Mqtt!Replies
    <3>2. \A h \in Mqtt!Halves : <<h, h>> \in Seq(Mqtt!Halves) /\ Len(<<h, h>>) = 2
      OBVIOUS
    <3>3. {"other", "conack", "puback"} \subseteq Mqtt!Halves
      BY DEF Mqtt!Halves
    <3> QED
      BY <3>1, <3>2, <3>3, EmptyTyped
  <2>4. fromBroker' \in Seq(Mqtt!Halves) /\ Len(fromBroker') = Len(fromBroker) + Len(r)
    BY <1>1, <2>1, <2>3
  <2>5. toBroker' \in Seq({"connect", "publish"}) /\ Len(toBroker') = Len(toBroker) - 1
    BY <1>1, <2>2
  <2>6. Mqtt!TypeOK'
    BY <1>0, <2>2, <2>4, <2>5 DEF Mqtt!TypeOK, Mqtt!client, Mqtt!history
  <2>7. TrafficInv'
    <3>1. Len(toBroker') + Len(toBroker') + Len(fromBroker') + Len(received') <= 2
      <4>1. Len(toBroker) + Len(toBroker) + Len(fromBroker) + Len(received) <= 2
        BY <1>0 DEF TrafficInv
      <4>2. Len(toBroker) >= 1 /\ received' = received
        BY <1>1, <2>2
      <4> QED
        BY <1>1, <2>3, <2>4, <2>5, <4>1, <4>2, OnePacket, Zenon
    <3>2. ~(stream \/ state = "none" \/ (state = "connected" /\ publish /= "sent"))
      BY <1>0, <2>2 DEF TrafficInv, Quiet
    <3> QED
      BY <2>2, <3>1, <3>2 DEF TrafficInv, Mqtt!client
  <2> QED
    BY <1>0, <2>2, <2>6, <2>7 DEF Mqtt!client, Mqtt!history, MqttInv, ConnectorInv,
       Mqtt!WaitsWithTimer,
       PublishInv, Mqtt!ToldOnce
<1>3. CASE Mqtt!Arrive
  <2>1. /\ fromBroker /= << >> /\ received' = Append(received, Head(fromBroker))
        /\ fromBroker' = Tail(fromBroker) /\ dataReceived' = TRUE
        /\ UNCHANGED <<tcp, stream, toBroker, Mqtt!client, Mqtt!history>>
    BY <1>3 DEF Mqtt!Arrive
  <2>2. fromBroker' \in Seq(Mqtt!Halves) /\ Len(fromBroker') = Len(fromBroker) - 1
    BY <1>1, <2>1
  <2>3. Head(fromBroker) \in Mqtt!Halves
    BY <1>1, <2>1
  <2>4. received' \in Seq(Mqtt!Halves) /\ Len(received') = Len(received) + 1
    BY <1>1, <2>1, <2>3
  <2>5. Len(toBroker') + Len(toBroker') + Len(fromBroker') + Len(received') <= 2
    BY <1>0, <1>1, <2>1, <2>2, <2>4 DEF TrafficInv
  <2>6. Mqtt!TypeOK'
    <3>1. Len(received') <= 2
      BY <1>1, <2>1, <2>2, <2>4, <2>5
    <3> QED
      BY <1>0, <2>1, <2>2, <2>4, <3>1 DEF Mqtt!TypeOK, Mqtt!client, Mqtt!history
  <2>7. TrafficInv'
    <3>1. ~(stream \/ state = "none" \/ (state = "connected" /\ publish /= "sent"))
      BY <1>0, <2>1 DEF TrafficInv, Quiet
    <3> QED
      BY <2>1, <2>5, <3>1 DEF TrafficInv, Mqtt!client
  <2> QED
    BY <1>0, <2>1, <2>6, <2>7 DEF Mqtt!client, Mqtt!history, MqttInv, ConnectorInv,
       Mqtt!WaitsWithTimer,
       PublishInv, Mqtt!ToldOnce
<1> QED
  BY <1>2, <1>3

(***************************************************************************)
(* Whatever the factory, the client, the broker and TCP do: each Connect   *)
(* is answered at most once, nobody waits for the broker without a timer,  *)
(* no timer outlives what it is for, and PublishDone is called for what    *)
(* the broker acknowledged.                                                *)
(***************************************************************************)
THEOREM MqttIsSafe == Mqtt!MqttAssumption /\ Mqtt!Spec => []MqttSafe
<1>1. Mqtt!MqttAssumption /\ Mqtt!Init => MqttInv
  BY MqttInvInit
<1>2. Mqtt!MqttAssumption /\ MqttInv /\ [Mqtt!Next]_Mqtt!vars => MqttInv'
  <2> SUFFICES ASSUME Mqtt!MqttAssumption, MqttInv, [Mqtt!Next]_Mqtt!vars
               PROVE  MqttInv'
    OBVIOUS
  <2>1. CASE Mqtt!Connect \/ Mqtt!CancelConnect \/ Mqtt!ConnectionEstablished \/ Mqtt!ConnectionFailed
    BY <2>1, ConnectorNext
  <2>2. CASE Mqtt!Disconnect \/ Mqtt!Timeout \/ Mqtt!PublishTimeout
    BY <2>2, AbortNext DEF Mqtt!Disconnect, Mqtt!PublishTimeout
  <2>3. CASE Mqtt!SendStreamAvailable \/ Mqtt!Publish
    BY <2>3, StreamNext
  <2>4. CASE Mqtt!DataReceived
    BY <2>4, DataReceivedNext
  <2>5. CASE Mqtt!CreateObserverLater
    BY <2>5 DEF Mqtt!CreateObserverLater, MqttInv
  <2>6. CASE Mqtt!BrokerReceives \/ Mqtt!Arrive
    BY <2>6, BrokerNext
  <2>7. CASE UNCHANGED Mqtt!vars
    BY <2>7 DEF Mqtt!vars, Mqtt!connection, Mqtt!client, Mqtt!history, MqttInv, Mqtt!TypeOK,
       ConnectorInv, Mqtt!WaitsWithTimer,
       TrafficInv, PublishInv, Mqtt!ToldOnce, Quiet
  <2> QED
    BY <2>1, <2>2, <2>3, <2>4, <2>5, <2>6, <2>7 DEF Mqtt!Next
<1>3. MqttInv => MqttSafe
  <2> SUFFICES ASSUME MqttInv
               PROVE  MqttSafe
    OBVIOUS
  <2>1. Mqtt!DoneWhenSent
    <3>1. publish = "requested" => received = << >>
      BY DEF MqttInv, TrafficInv, Quiet, PublishInv
    <3>2. publish = "requested" => DOMAIN received = {}
      BY <3>1
    <3> QED
      BY <3>2 DEF Mqtt!DoneWhenSent, MqttInv, PublishInv
  <2> QED
    BY <2>1 DEF MqttInv, MqttSafe, Mqtt!MqttSafe, ConnectorInv
<1>4. Mqtt!MqttAssumption => []Mqtt!MqttAssumption
  OBVIOUS
<1> QED
  BY <1>1, <1>2, <1>3, <1>4, PTL DEF Mqtt!Spec


-----------------------------------------------------------------------------
(* HttpServer *)

\* Every request is too long by one fragment at most; otherwise the rest of
\* it would be taken for the next one.
RequestsFit == \A r \in Requests : Len(Fragments(r)) <= BufferSize + 1

Observers ==
    [writer : {"none", "requested", "open"}, buffer : Seq(FragmentKinds),
     idle : BOOLEAN, closeWhenIdle : BOOLEAN, requestInProgress : BOOLEAN,
     send100 : BOOLEAN, initialIdle : BOOLEAN, closed : {FALSE}]

ObserverFields ==
    {"writer", "buffer", "idle", "closeWhenIdle", "requestInProgress", "send100", "initialIdle",
     "closed"}

ServerTypes ==
    /\ current \in Connections \cup {None} /\ waiting \in Connections \cup {None}
    /\ stop \in {"no", "idle", "serving", "destroyed"}
    /\ taken \in BOOLEAN /\ page \in BOOLEAN /\ announced \in BOOLEAN
    /\ gone \subseteq Connections /\ spoilt \subseteq Connections /\ pages \in Nat
    /\ observer \in Observers

ClientTypes ==
    /\ rest \in [Connections -> Seq(FragmentKinds)]
    /\ unread \in [Connections -> Seq(FragmentKinds)]
    /\ asked \in [Connections -> Seq(Requests)]
    /\ answers \in [Connections -> Seq(Answers)]

\* A request is in progress while a page works on it, with a stream to answer
\* on, or after it took the connection over.
InOrder(o, working) ==
    /\ o.requestInProgress <=> working \/ taken
    /\ working => o.writer = "open"

\* The observer of the current connection
ServingInv ==
    /\ page => current # None /\ ~taken /\ pages >= 1
    /\ taken => current # None /\ observer.writer = "none"
    /\ announced => current # None
    /\ observer.requestInProgress => ~observer.idle /\ ~observer.initialIdle
    /\ current # None /\ Undisturbed(current) => InOrder(observer, page)

\* No connection is at two places.
PlacesInv ==
    /\ current # None => current # waiting
    /\ current \notin gone /\ waiting \notin gone

\* One connection, with the fragments that were read, that have arrived and
\* that are yet to come, the requests and the answers: everything is
\* answered, or all fragments but those of the last request are gone.
Underway(read, busy, arrived, coming, requests, replies) ==
    /\ Len(read) <= BufferSize
    /\ \/ /\ Len(requests) = Len(replies) /\ ~busy
          /\ read = <<>> /\ arrived = <<>> /\ coming = <<>>
       \/ /\ Len(requests) = Len(replies) + 1
          /\ read \o (arrived \o coming) = Fragments(requests[Len(requests)])
          /\ IF busy THEN arrived = <<>> /\ coming = <<>> /\ requests[Len(requests)] # "bad"
                     ELSE read # Fragments(requests[Len(requests)])

Answered(requests, replies) ==
    /\ Len(replies) <= Len(requests)
    /\ \A i \in 1 .. Len(replies) : replies[i].kind = Expected(requests[i])

Held(c) == IF c = current THEN observer.buffer ELSE <<>>
Busy(c) == c = current /\ observer.requestInProgress

TrafficOf(c) ==
    c \notin gone => Underway(Held(c), Busy(c), unread[c], rest[c], asked[c], answers[c])

\* What is so on a connection to which others have left nothing
RightOn(c) == Undisturbed(c) => TrafficOf(c) /\ Answered(asked[c], answers[c])

\* The inductive invariant
HttpInv ==
    /\ ServerTypes /\ ClientTypes /\ ServingInv /\ PlacesInv /\ WaitingIsExpected
    /\ \A c \in Connections : RightOn(c)
    /\ Len(observer.buffer) <= BufferSize

-----------------------------------------------------------------------------

RequestKinds == {"get", "bad", "post", "expect", "long"}

(***************************************************************************)
(* A request begins with its headers, which declare how much follows.      *)
(***************************************************************************)
LEMMA FragmentsOf ==
    ASSUME NEW r \in RequestKinds
    PROVE  /\ Fragments(r) \in Seq(FragmentKinds) /\ Len(Fragments(r)) \in 1 .. 3
           /\ HasHeaderEnd(Fragments(r)[1])
           /\ \A i \in 2 .. Len(Fragments(r)) : Fragments(r)[i] = "body"
           /\ Declares(Fragments(r)[1]) = Len(Fragments(r)) - 1
           /\ Fragments(r)[1] = "bad" <=> r = "bad"
<1>1. CASE r = "get"
  <2>1. Fragments(r) = <<"get">>
    BY <1>1 DEF Fragments
  <2>2. Fragments(r) \in Seq(FragmentKinds) /\ Len(Fragments(r)) = 1
    BY <2>1 DEF FragmentKinds
  <2>3. Fragments(r)[1] = "get"
    BY <2>1
  <2>4. HasHeaderEnd("get") /\ Declares("get") = 0
    BY DEF HasHeaderEnd, Declares
  <2>5. \A i \in 2 .. 1 : Fragments(r)[i] = "body"
    BY <2>3
  <2>6. 1 \in 1 .. 3 /\ 1 - 1 = 0
    OBVIOUS
  <2>7. Fragments(r)[1] = "bad" <=> r = "bad"
    BY <1>1, <2>3
  <2> QED
    BY <2>2, <2>3, <2>4, <2>5, <2>6, <2>7, Zenon
<1>2. CASE r = "bad"
  <2>1. Fragments(r) = <<"bad">>
    BY <1>2 DEF Fragments
  <2>2. Fragments(r) \in Seq(FragmentKinds) /\ Len(Fragments(r)) = 1
    BY <2>1 DEF FragmentKinds
  <2>3. Fragments(r)[1] = "bad"
    BY <2>1
  <2>4. HasHeaderEnd("bad") /\ Declares("bad") = 0
    BY DEF HasHeaderEnd, Declares
  <2>5. \A i \in 2 .. 1 : Fragments(r)[i] = "body"
    BY <2>3
  <2>6. 1 \in 1 .. 3 /\ 1 - 1 = 0
    OBVIOUS
  <2>7. Fragments(r)[1] = "bad" <=> r = "bad"
    BY <1>2, <2>3
  <2> QED
    BY <2>2, <2>3, <2>4, <2>5, <2>6, <2>7, Zenon
<1>3. CASE r = "post"
  <2>1. Fragments(r) = <<"head", "body">>
    BY <1>3 DEF Fragments
  <2>2. Fragments(r) \in Seq(FragmentKinds) /\ Len(Fragments(r)) = 2
    BY <2>1 DEF FragmentKinds
  <2>3. Fragments(r)[1] = "head" /\ Fragments(r)[2] = "body"
    BY <2>1
  <2>4. HasHeaderEnd("head") /\ Declares("head") = 1
    BY DEF HasHeaderEnd, Declares
  <2>5. \A i \in 2 .. 2 : Fragments(r)[i] = "body"
    BY <2>3
  <2>6. 2 \in 1 .. 3 /\ 2 - 1 = 1
    OBVIOUS
  <2>7. Fragments(r)[1] = "bad" <=> r = "bad"
    BY <1>3, <2>3
  <2> QED
    BY <2>2, <2>3, <2>4, <2>5, <2>6, <2>7, Zenon
<1>4. CASE r = "expect"
  <2>1. Fragments(r) = <<"head100", "body">>
    BY <1>4 DEF Fragments
  <2>2. Fragments(r) \in Seq(FragmentKinds) /\ Len(Fragments(r)) = 2
    BY <2>1 DEF FragmentKinds
  <2>3. Fragments(r)[1] = "head100" /\ Fragments(r)[2] = "body"
    BY <2>1
  <2>4. HasHeaderEnd("head100") /\ Declares("head100") = 1
    BY DEF HasHeaderEnd, Declares
  <2>5. \A i \in 2 .. 2 : Fragments(r)[i] = "body"
    BY <2>3
  <2>6. 2 \in 1 .. 3 /\ 2 - 1 = 1
    OBVIOUS
  <2>7. Fragments(r)[1] = "bad" <=> r = "bad"
    BY <1>4, <2>3
  <2> QED
    BY <2>2, <2>3, <2>4, <2>5, <2>6, <2>7, Zenon
<1>5. CASE r = "long"
  <2>1. Fragments(r) = <<"headLong", "body", "body">>
    BY <1>5 DEF Fragments
  <2>2. Fragments(r) \in Seq(FragmentKinds) /\ Len(Fragments(r)) = 3
    BY <2>1 DEF FragmentKinds
  <2>3. Fragments(r)[1] = "headLong" /\ Fragments(r)[2] = "body" /\ Fragments(r)[3] = "body"
    BY <2>1
  <2>4. HasHeaderEnd("headLong") /\ Declares("headLong") = 2
    BY DEF HasHeaderEnd, Declares
  <2>5. \A i \in 2 .. 3 : Fragments(r)[i] = "body"
    BY <2>3
  <2>6. 3 \in 1 .. 3 /\ 3 - 1 = 2
    OBVIOUS
  <2>7. Fragments(r)[1] = "bad" <=> r = "bad"
    BY <1>5, <2>3
  <2> QED
    BY <2>2, <2>3, <2>4, <2>5, <2>6, <2>7, Zenon
<1> QED
  BY <1>1, <1>2, <1>3, <1>4, <1>5 DEF RequestKinds

(***************************************************************************)
(* However TCP cuts it, a request is complete when all of it is there.     *)
(***************************************************************************)
LEMMA CompleteAtEnd ==
    ASSUME NEW r \in RequestKinds, NEW s \in Seq(FragmentKinds), NEW t \in Seq(FragmentKinds),
           s \o t = Fragments(r), s # <<>>
    PROVE  /\ Complete(s) <=> t = <<>>
           /\ Len(s) + Len(t) = Len(Fragments(r))
           /\ Valid(s) <=> r # "bad"
<1> DEFINE f == Fragments(r)
           n == Len(s)
           declaring == {i \in DOMAIN s : Declares(s[i]) > 0}
<1>1. /\ f \in Seq(FragmentKinds) /\ Len(f) \in 1 .. 3 /\ HasHeaderEnd(f[1])
      /\ \A i \in 2 .. Len(f) : f[i] = "body"
      /\ Declares(f[1]) = Len(f) - 1
      /\ f[1] = "bad" <=> r = "bad"
  BY FragmentsOf
<1>2. /\ n \in Nat /\ n >= 1 /\ Len(t) \in Nat /\ n + Len(t) = Len(f)
      /\ DOMAIN s = 1 .. n /\ \A i \in 1 .. n : s[i] = f[i]
  <2>1. n \in Nat /\ Len(t) \in Nat /\ DOMAIN s = 1 .. n /\ n # 0
    OBVIOUS
  <2>2. Len(s \o t) = n + Len(t) /\ \A i \in 1 .. n : (s \o t)[i] = s[i]
    OBVIOUS
  <2> QED
    BY <2>1, <2>2
<1>3. t = <<>> <=> Len(t) = 0
  OBVIOUS
<1> HIDE DEF f, n
<1>4. s[1] = f[1] /\ \A i \in 2 .. n : s[i] = "body"
  BY <1>1, <1>2
<1>5. /\ HasHeaderEnd(s[1]) /\ \A i \in 2 .. n : ~HasHeaderEnd(s[i])
      /\ \A i \in 2 .. n : Declares(s[i]) = 0
      /\ Declares(s[1]) = Len(f) - 1
  BY <1>1, <1>4 DEF HasHeaderEnd, Declares
<1>6. \A i \in 1 .. n : i = 1 \/ i \in 2 .. n
  BY <1>2
<1>7. ContentLength(s) = Len(f) - 1
  <2>1. CASE Len(f) = 1
    <3>1. \A i \in 1 .. n : ~(Declares(s[i]) > 0)
      BY <1>5, <1>6, <2>1
    <3>2. declaring = {}
      BY <1>2, <3>1
    <3> QED
      BY <1>1, <2>1, <3>2 DEF ContentLength
  <2>2. CASE Len(f) # 1
    <3>1. Declares(s[1]) > 0
      <4> DEFINE l == Len(f)
      <4>1. l \in 1 .. 3 /\ l # 1
        BY <1>1, <2>2
      <4> HIDE DEF l
      <4>2. l - 1 > 0
        BY <4>1
      <4> QED
        BY <1>5, <4>2 DEF l
    <3>2. declaring = {1}
      <4>1. 1 \in DOMAIN s
        BY <1>2
      <4>2. \A i \in DOMAIN s : Declares(s[i]) > 0 => i = 1
        <5>1. ~(0 > 0)
          OBVIOUS
        <5> QED
          BY <1>2, <1>5, <1>6, <5>1
      <4> QED
        BY <3>1, <4>1, <4>2
    <3>3. (CHOOSE i \in declaring : \A j \in declaring : i <= j) = 1
      BY <3>2
    <3> QED
      BY <1>5, <3>2, <3>3 DEF ContentLength
  <2> QED
    BY <2>1, <2>2
<1>8. Complete(s) <=> n - 1 >= Len(f) - 1
  <2>1. ASSUME Complete(s) PROVE n - 1 >= Len(f) - 1
    <3>1. PICK i \in DOMAIN s : HasHeaderEnd(s[i]) /\ Len(s) - i >= ContentLength(s)
      BY <2>1 DEF Complete
    <3>2. i = 1
      BY <1>2, <1>5, <1>6, <3>1
    <3> QED
      BY <1>7, <3>1, <3>2 DEF n
  <2>2. ASSUME n - 1 >= Len(f) - 1 PROVE Complete(s)
    <3>1. 1 \in DOMAIN s /\ \A j \in 1 .. 1 - 1 : FALSE
      BY <1>2
    <3> QED
      BY <1>5, <1>7, <2>2, <3>1 DEF Complete, n
  <2> QED
    BY <2>1, <2>2
<1>9. Complete(s) <=> t = <<>>
  BY <1>1, <1>2, <1>3, <1>8
<1>10. Valid(s) <=> r # "bad"
  BY <1>1, <1>4, <1>5 DEF Valid, HasHeaderEnd
<1> QED
  BY <1>2, <1>9, <1>10 DEF f, n

(***************************************************************************)
(* A request of which nothing has been sent is all to come.                *)
(***************************************************************************)
LEMMA FragmentsAlone ==
    ASSUME NEW r \in RequestKinds
    PROVE  Fragments(r) # <<>> /\ <<>> \o (<<>> \o (<<>> \o Fragments(r))) = Fragments(r)
<1>1. Fragments(r) \in Seq(FragmentKinds) /\ Len(Fragments(r)) \in 1 .. 3
  BY FragmentsOf
<1> QED
  BY <1>1

(***************************************************************************)
(* The client begins a request when everything is answered.                *)
(***************************************************************************)
LEMMA UnderwayRequest ==
    ASSUME NEW b, NEW busy \in BOOLEAN, NEW u, NEW t, NEW q \in Seq(Requests),
           NEW a \in Seq(Answers), NEW r \in Requests, r \in RequestKinds,
           Underway(b, busy, u, t, q, a), Len(a) = Len(q), Answered(q, a)
    PROVE  /\ Underway(b, busy, u, t \o Fragments(r), Append(q, r), a)
           /\ Answered(Append(q, r), a)
<1> DEFINE p == Append(q, r)
<1>1. /\ Len(b) <= BufferSize /\ ~busy /\ b = <<>> /\ u = <<>> /\ t = <<>>
  BY DEF Underway
<1>2. /\ p \in Seq(Requests) /\ Len(p) = Len(q) + 1 /\ p[Len(q) + 1] = r /\ Len(q) \in Nat
      /\ \A i \in 1 .. Len(q) : p[i] = q[i]
  OBVIOUS
<1> HIDE DEF p
<1>3. Fragments(r) # <<>> /\ <<>> \o (<<>> \o (<<>> \o Fragments(r))) = Fragments(r)
  BY FragmentsAlone
<1>4. Underway(b, busy, u, t \o Fragments(r), p, a)
  BY <1>1, <1>2, <1>3 DEF Underway
<1>5. Answered(p, a)
  <2>1. Len(a) <= Len(p)
    BY <1>2
  <2>2. \A i \in 1 .. Len(a) : a[i].kind = Expected(q[i]) /\ p[i] = q[i]
    BY <1>2 DEF Answered
  <2> QED
    BY <2>1, <2>2 DEF Answered
<1> QED
  BY <1>4, <1>5 DEF p

(***************************************************************************)
(* TCP delivers a fragment.                                                *)
(***************************************************************************)
LEMMA UnderwayTransmit ==
    ASSUME NEW b \in Seq(FragmentKinds), NEW busy \in BOOLEAN, NEW u \in Seq(FragmentKinds),
           NEW t \in Seq(FragmentKinds), t # <<>>, NEW q, NEW a, Underway(b, busy, u, t, q, a)
    PROVE  ~busy /\ Underway(b, busy, Append(u, Head(t)), Tail(t), q, a)
<1>1. /\ ~busy /\ Len(b) <= BufferSize /\ Len(q) = Len(a) + 1
      /\ b \o (u \o t) = Fragments(q[Len(q)]) /\ b # Fragments(q[Len(q)])
  BY DEF Underway
<1>2. Append(u, Head(t)) \o Tail(t) = u \o t
  <2> DEFINE v == Append(u, Head(t))
             w == Tail(t)
             m == Len(u)
             n == Len(t)
  <2>1. /\ v \in Seq(FragmentKinds) /\ Len(v) = m + 1 /\ v[m + 1] = t[1]
        /\ \A i \in 1 .. m : v[i] = u[i]
    OBVIOUS
  <2>2. /\ w \in Seq(FragmentKinds) /\ Len(w) = n - 1
        /\ \A i \in 1 .. n - 1 : w[i] = t[i + 1]
    OBVIOUS
  <2>3. m \in Nat /\ n \in Nat /\ n # 0
    OBVIOUS
  <2>4. /\ Len(u \o t) = m + n
        /\ \A i \in 1 .. m + n : (u \o t)[i] = IF i <= m THEN u[i] ELSE t[i - m]
    BY ConcatProperties
  <2> HIDE DEF v, w
  <2>5. /\ Len(v \o w) = (m + 1) + (n - 1)
        /\ \A i \in 1 .. (m + 1) + (n - 1) :
              (v \o w)[i] = IF i <= m + 1 THEN v[i] ELSE w[i - (m + 1)]
    <3> HIDE DEF m, n
    <3>1. /\ Len(v \o w) = Len(v) + Len(w)
          /\ \A i \in 1 .. Len(v) + Len(w) :
                (v \o w)[i] = IF i <= Len(v) THEN v[i] ELSE w[i - Len(v)]
      BY <2>1, <2>2, ConcatProperties
    <3> QED
      BY <2>1, <2>2, <3>1
  <2> HIDE DEF m, n
  <2>8. (m + 1) + (n - 1) = m + n
    BY <2>3
  <2>9. ASSUME NEW i \in 1 .. m + n
        PROVE  (v \o w)[i] = (u \o t)[i]
    <3>1. CASE i <= m
      <4>1. i <= m + 1 /\ i \in 1 .. m
        BY <2>3, <3>1
      <4> QED
        BY <2>1, <2>4, <2>5, <2>8, <3>1, <4>1
    <3>2. CASE i = m + 1
      <4>1. ~(i <= m) /\ i <= m + 1 /\ i - m = 1
        BY <2>3, <3>2
      <4> QED
        BY <2>1, <2>4, <2>5, <2>8, <3>2, <4>1
    <3>3. CASE i > m + 1
      <4>1. /\ i - (m + 1) \in 1 .. n - 1 /\ (i - (m + 1)) + 1 = i - m
            /\ ~(i <= m + 1) /\ ~(i <= m)
        BY <2>3, <3>3
      <4>2. (v \o w)[i] = w[i - (m + 1)] /\ (u \o t)[i] = t[i - m]
        BY <2>4, <2>5, <2>8, <4>1
      <4> QED
        BY <2>2, <4>1, <4>2
    <3>4. i <= m \/ i = m + 1 \/ i > m + 1
      BY <2>3
    <3> QED
      BY <3>1, <3>2, <3>3, <3>4
  <2>6. v \o w \in Seq(FragmentKinds) /\ u \o t \in Seq(FragmentKinds)
    BY <2>1, <2>2
  <2>7. v \o w = u \o t
    BY <2>4, <2>5, <2>6, <2>8, <2>9, SeqEqual
  <2> QED
    BY <2>7 DEF v, w
<1> QED
  BY <1>1, <1>2 DEF Underway

\* What is known of the last request when more of it is read.
ReadInTurn(read, busy, arrived, coming, requests, replies) ==
    LET request == requests[Len(requests)]
        now == read \o arrived
    IN  /\ ~busy /\ Len(requests) = Len(replies) + 1 /\ request \in Requests
        /\ now \in Seq(FragmentKinds)
        /\ Len(arrived) > BufferSize - Len(read) =>
              coming = <<>> /\ Expected(request) = "outOfMemory"
        /\ ~(Len(arrived) > BufferSize - Len(read)) =>
              /\ Complete(now) <=> coming = <<>>
              /\ Valid(now) <=> request # "bad"
              /\ coming = <<>> => Expected(request) = IF request = "bad" THEN "bad" ELSE "page"
              /\ coming = <<>> /\ Valid(now) => Underway(now, TRUE, <<>>, <<>>, requests, replies)
              /\ coming # <<>> => Underway(now, FALSE, <<>>, coming, requests, replies)

(***************************************************************************)
(* The server reads what has arrived of a request.                         *)
(***************************************************************************)
LEMMA UnderwayRead ==
    ASSUME HttpServerAssumption, RequestsFit, NEW b \in Seq(FragmentKinds),
           NEW u \in Seq(FragmentKinds), u # <<>>, NEW t \in Seq(FragmentKinds),
           NEW q \in Seq(Requests), NEW a, Len(a) \in Nat, NEW busy \in BOOLEAN,
           Underway(b, busy, u, t, q, a)
    PROVE  ReadInTurn(b, busy, u, t, q, a)
<1> DEFINE r == q[Len(q)]
           s == b \o u
           m == Len(b)
           n == Len(u)
           l == Len(t)
<1>1. ~busy /\ Len(q) = Len(a) + 1 /\ b \o (u \o t) = Fragments(r) /\ b # Fragments(r)
  BY DEF Underway
<1>2. r \in Requests /\ r \in RequestKinds
  <2>1. Len(q) \in 1 .. Len(q)
    BY <1>1
  <2>2. r \in Requests
    BY <2>1
  <2> QED
    BY <2>2 DEF HttpServerAssumption, RequestKinds
<1>3. /\ s \in Seq(FragmentKinds) /\ Len(s) = m + n
      /\ m \in Nat /\ n \in Nat /\ n # 0 /\ l \in Nat /\ (t = <<>> <=> l = 0)
  OBVIOUS
<1>4. s \o t = Fragments(r)
  <2>1. (b \o u) \o t = b \o (u \o t)
    BY ConcatAssociative
  <2> QED
    BY <1>1, <2>1
<1>5. s # <<>>
  BY <1>3
<1>6. BufferSize \in Nat /\ Len(Fragments(r)) <= BufferSize + 1
  BY <1>2 DEF HttpServerAssumption, RequestsFit
<1> HIDE DEF r, s
<1>7. /\ Complete(s) <=> t = <<>>
      /\ Len(s) + Len(t) = Len(Fragments(r))
      /\ Valid(s) <=> r # "bad"
  BY <1>2, <1>3, <1>4, <1>5, CompleteAtEnd
<1>8. Len(Fragments(r)) = (m + n) + l
  BY <1>3, <1>7
<1> HIDE DEF m, n, l
<1>9. ASSUME n > BufferSize - m
      PROVE  t = <<>> /\ Expected(r) = "outOfMemory"
  <2>1. l = 0 /\ Len(Fragments(r)) > BufferSize
    BY <1>3, <1>6, <1>8, <1>9
  <2> QED
    BY <1>3, <2>1 DEF Expected
<1>10. ASSUME ~(n > BufferSize - m)
       PROVE  /\ t = <<>> => Expected(r) = IF r = "bad" THEN "bad" ELSE "page"
              /\ t = <<>> /\ Valid(s) => Underway(s, TRUE, <<>>, <<>>, q, a)
              /\ t # <<>> => Underway(s, FALSE, <<>>, t, q, a)
  <2>1. Len(s) <= BufferSize
    BY <1>3, <1>6, <1>10
  <2>2. ASSUME t = <<>>
        PROVE  Expected(r) = (IF r = "bad" THEN "bad" ELSE "page") /\ s = Fragments(r)
    <3>1. ~(Len(Fragments(r)) > BufferSize)
      BY <1>3, <1>6, <1>8, <1>10, <2>2
    <3>2. s = Fragments(r)
      BY <1>3, <1>4, <2>2
    <3> QED
      BY <3>1, <3>2 DEF Expected
  <2>3. ASSUME t = <<>>, Valid(s)
        PROVE  Underway(s, TRUE, <<>>, <<>>, q, a)
    <3>1. s \o (<<>> \o <<>>) = s
      BY <1>3
    <3> QED
      BY <1>1, <1>7, <2>1, <2>2, <2>3, <3>1 DEF Underway, r
  <2>4. ASSUME t # <<>>
        PROVE  Underway(s, FALSE, <<>>, t, q, a)
    <3>1. <<>> \o t = t
      OBVIOUS
    <3>2. s # Fragments(r)
      BY <1>3, <1>7, <2>4
    <3> QED
      BY <1>1, <1>4, <2>1, <3>1, <3>2 DEF Underway, r
  <2> QED
    BY <2>2, <2>3, <2>4
<1> QED
  BY <1>1, <1>2, <1>3, <1>7, <1>9, <1>10 DEF r, s, m, n, ReadInTurn

(***************************************************************************)
(* The server answers the last request.                                    *)
(***************************************************************************)
LEMMA UnderwayAnswered ==
    ASSUME HttpServerAssumption, NEW q \in Seq(Requests), NEW a \in Seq(Answers),
           Len(q) = Len(a) + 1, Answered(q, a), NEW x \in Answers, x.kind = Expected(q[Len(q)])
    PROVE  /\ Append(a, x) \in Seq(Answers)
           /\ Underway(<<>>, FALSE, <<>>, <<>>, q, Append(a, x))
           /\ Answered(q, Append(a, x))
<1> DEFINE p == Append(a, x)
<1>1. /\ p \in Seq(Answers) /\ Len(p) = Len(a) + 1 /\ p[Len(a) + 1] = x /\ Len(a) \in Nat
      /\ \A i \in 1 .. Len(a) : p[i] = a[i]
  OBVIOUS
<1> HIDE DEF p
<1>2. Len(<<>>) <= BufferSize
  BY DEF HttpServerAssumption
<1>3. Underway(<<>>, FALSE, <<>>, <<>>, q, p)
  BY <1>1, <1>2 DEF Underway
<1>4. Answered(q, p)
  <2>1. \A i \in 1 .. Len(a) : a[i].kind = Expected(q[i])
    BY DEF Answered
  <2>2. \A i \in 1 .. Len(p) : i = Len(q) \/ i \in 1 .. Len(a)
    BY <1>1
  <2>3. Len(p) <= Len(q)
    BY <1>1
  <2> QED
    BY <1>1, <2>1, <2>2, <2>3 DEF Answered
<1> QED
  BY <1>1, <1>3, <1>4 DEF p

-----------------------------------------------------------------------------

(***************************************************************************)
(* What the methods of the observer make of it.                            *)
(***************************************************************************)
LEMMA Prepared ==
    ASSUME NEW o \in Observers
    PROVE  /\ PrepareForNextRequest(o).closed = o.closeWhenIdle
           /\ PrepareForNextRequest(o).buffer = <<>>
           /\ ~o.closeWhenIdle =>
                 /\ PrepareForNextRequest(o) \in Observers
                 /\ PrepareForNextRequest(o).writer = "requested"
                 /\ ~PrepareForNextRequest(o).requestInProgress
<1> DEFINE q == RequestSendStream(o)
           p == PrepareForNextRequest(o)
<1>1. q \in Observers /\ q.writer = "requested" /\ q.closeWhenIdle = o.closeWhenIdle
  BY DEF RequestSendStream, Observers
<1>2. DOMAIN q = ObserverFields
  BY <1>1 DEF Observers, ObserverFields
<1>3. p = [q EXCEPT !.idle = TRUE, !.requestInProgress = FALSE, !.send100 = FALSE,
                    !.buffer = <<>>, !.closed = o.closeWhenIdle]
  BY DEF PrepareForNextRequest
<1>4. o.closeWhenIdle \in BOOLEAN
  BY DEF Observers
<1> HIDE DEF p, q
<1>5. /\ p.closed = o.closeWhenIdle /\ p.writer = q.writer /\ p.buffer = <<>>
      /\ p.requestInProgress = FALSE
  BY <1>2, <1>3 DEF ObserverFields
<1>6. ASSUME ~o.closeWhenIdle
      PROVE  p \in Observers
  <2>1. o.closeWhenIdle = FALSE
    BY <1>4, <1>6, Zenon
  <2>2. <<>> \in Seq(FragmentKinds)
    OBVIOUS
  <2> QED
    BY <1>1, <1>3, <2>1, <2>2 DEF Observers
<1> QED
  BY <1>1, <1>5, <1>6 DEF p

(***************************************************************************)
(* A request is given to a page.                                           *)
(***************************************************************************)
LEMMA Handled ==
    ASSUME NEW o \in Observers
    PROVE  /\ HandleRequest(o) \in Observers
           /\ HandleRequest(o).writer = o.writer
           /\ HandleRequest(o).buffer = o.buffer
           /\ HandleRequest(o).closeWhenIdle = o.closeWhenIdle
           /\ HandleRequest(o).requestInProgress
           /\ ~HandleRequest(o).idle /\ ~HandleRequest(o).initialIdle
           /\ ~HandleRequest(o).closed
<1> DEFINE p == HandleRequest(o)
           x == o.send100 \/ Expect100(o.buffer)
           q == RequestIsNowInProgress(o)
<1>1. q = [o EXCEPT !.idle = FALSE, !.initialIdle = FALSE, !.requestInProgress = TRUE]
  BY DEF RequestIsNowInProgress
<1>2. p = [q EXCEPT !.send100 = x]
  BY DEF HandleRequest
<1>3. x \in BOOLEAN
  BY Zenon
<1> HIDE DEF p, q, x
<1>4. DOMAIN o = ObserverFields /\ o.closed = FALSE
  BY DEF Observers, ObserverFields
<1>5. q \in Observers
  BY <1>1 DEF Observers
<1>6. /\ q.writer = o.writer /\ q.buffer = o.buffer /\ q.closeWhenIdle = o.closeWhenIdle
      /\ q.requestInProgress = TRUE /\ q.idle = FALSE /\ q.initialIdle = FALSE
      /\ q.closed = FALSE
  BY <1>1, <1>4 DEF ObserverFields
<1>7. p \in Observers
  BY <1>2, <1>3, <1>5 DEF Observers
<1>8. DOMAIN q = ObserverFields
  BY <1>5 DEF Observers, ObserverFields
<1>9. /\ p.writer = q.writer /\ p.buffer = q.buffer /\ p.closeWhenIdle = q.closeWhenIdle
      /\ p.requestInProgress = q.requestInProgress /\ p.idle = q.idle
      /\ p.initialIdle = q.initialIdle /\ p.closed = q.closed
  BY <1>2, <1>8 DEF ObserverFields
<1> QED
  BY <1>6, <1>7, <1>9 DEF p

WithBuffer(o, b) == [o EXCEPT !.buffer = b]

(***************************************************************************)
(* More of a request is read.                                              *)
(***************************************************************************)
LEMMA Read ==
    ASSUME NEW o \in Observers, NEW b \in Seq(FragmentKinds)
    PROVE  /\ WithBuffer(o, b) \in Observers
           /\ WithBuffer(o, b).buffer = b
           /\ WithBuffer(o, b).writer = o.writer
           /\ WithBuffer(o, b).idle = o.idle
           /\ WithBuffer(o, b).initialIdle = o.initialIdle
           /\ WithBuffer(o, b).closeWhenIdle = o.closeWhenIdle
           /\ WithBuffer(o, b).requestInProgress = o.requestInProgress
           /\ WithBuffer(o, b).closed = FALSE
BY DEF Observers, WithBuffer

(***************************************************************************)
(* The stream is requested, opened or given away.                          *)
(***************************************************************************)
LEMMA WriterSet ==
    ASSUME NEW o \in Observers, NEW w \in {"none", "requested", "open"}
    PROVE  /\ [o EXCEPT !.writer = w] \in Observers
           /\ [o EXCEPT !.writer = w].writer = w
           /\ [o EXCEPT !.writer = w].buffer = o.buffer
           /\ [o EXCEPT !.writer = w].idle = o.idle
           /\ [o EXCEPT !.writer = w].initialIdle = o.initialIdle
           /\ [o EXCEPT !.writer = w].closeWhenIdle = o.closeWhenIdle
           /\ [o EXCEPT !.writer = w].requestInProgress = o.requestInProgress
           /\ [o EXCEPT !.writer = w].closed = FALSE
BY DEF Observers

(***************************************************************************)
(* The connection is closed.                                               *)
(***************************************************************************)
LEMMA Closes ==
    ASSUME NEW o \in Observers
    PROVE  Close(o).closed /\ Close(o).buffer = o.buffer
BY DEF Observers, Close

(***************************************************************************)
(* An observer begins with what is in the buffer and no request in         *)
(* progress.                                                               *)
(***************************************************************************)
LEMMA ConnectedIs ==
    ASSUME NEW b \in Seq(FragmentKinds)
    PROVE  /\ ConnectedObserver(b) \in Observers /\ ConnectedObserver(b).buffer = b
           /\ ConnectedObserver(b).requestInProgress = FALSE
BY DEF ConnectedObserver, Observers

-----------------------------------------------------------------------------

\* With these answers the connection is undisturbed.
Clean(c, replies) == c \notin spoilt /\ \A i \in DOMAIN replies : replies[i].kind # "late"

\* A step leaves the traffic of all connections but c alone.
OthersKept(c) ==
    \A d \in Connections : d # c => unread'[d] = unread[d] /\ answers'[d] = answers[d]

\* The answers are right after a step that asks nothing.
StillAnswered ==
    \A d \in Connections :
        Clean(d, answers'[d]) => Undisturbed(d) /\ Answered(asked[d], answers'[d])

(***************************************************************************)
(* The current connection is gone, and the observer is allocated for the   *)
(* next one, or kept free because the server was stopped.                  *)
(***************************************************************************)
LEMMA HttpAllocates ==
    ASSUME HttpServerAssumption, HttpInv, NEW next \in Connections \cup {None},
           NEW b \in Seq(FragmentKinds), Len(b) <= BufferSize,
           gone' \subseteq Connections, gone \subseteq gone', next \notin gone',
           current = None \/ current \in gone',
           ObserverAllocatable(next, b) \/ OnAllocatable(next, b), pages' \in Nat,
           stop' = stop, rest' = rest, asked' = asked, ClientTypes',
           OthersKept(current), StillAnswered
    PROVE  HttpInv'
<1>1. /\ ServerTypes /\ ServingInv /\ \A c \in Connections : RightOn(c)
  BY DEF HttpInv
<1>2. None \notin Connections /\ BufferSize \in Nat
  BY DEF HttpServerAssumption
<1>3. \/ ObserverAllocatable(next, b)
      \/ /\ stop = "serving" /\ current' = None /\ waiting' = next /\ page' = FALSE
         /\ taken' = FALSE /\ announced' = FALSE /\ observer' = WithBuffer(observer, b)
         /\ spoilt' = spoilt
  BY DEF OnAllocatable, WithBuffer
<1>4. observer \in Observers
  BY <1>1 DEF ServerTypes
<1>5. /\ ServerTypes' /\ ServingInv' /\ PlacesInv' /\ WaitingIsExpected'
      /\ Len(observer'.buffer) <= BufferSize /\ spoilt \subseteq spoilt'
      /\ \A c \in Connections : c = current' /\ c \notin spoilt' =>
            observer'.buffer = <<>> /\ observer'.requestInProgress = FALSE
  <2>1. CASE ObserverAllocatable(next, b)
    <3>1. /\ current' = next /\ waiting' = None /\ page' = FALSE /\ taken' = FALSE
          /\ announced' \in {FALSE, next # None} /\ observer' = ConnectedObserver(b)
          /\ spoilt' = spoilt \cup {c \in {next} \ {None} : b # <<>>}
      BY <2>1 DEF ObserverAllocatable
    <3>2. page' \in BOOLEAN /\ taken' \in BOOLEAN /\ announced' \in BOOLEAN
      BY <3>1, Zenon
    <3>3. /\ observer' \in Observers /\ observer'.buffer = b
          /\ observer'.requestInProgress = FALSE
      BY <3>1, ConnectedIs
    <3>4. spoilt' \subseteq Connections
      BY <1>1, <3>1 DEF ServerTypes
    <3>5. ServerTypes'
      BY <1>1, <3>1, <3>2, <3>3, <3>4 DEF ServerTypes
    <3>6. announced' => current' # None
      BY <3>1, Zenon
    <3>7. ServingInv'
      BY <3>1, <3>3, <3>6 DEF ServingInv, InOrder
    <3>8. PlacesInv' /\ WaitingIsExpected'
      BY <1>2, <3>1 DEF PlacesInv, WaitingIsExpected
    <3>9. ASSUME NEW c \in Connections, c = current', c \notin spoilt'
          PROVE  b = <<>>
      BY <1>2, <3>1, <3>9
    <3> QED
      BY <3>1, <3>3, <3>5, <3>7, <3>8, <3>9
  <2>2. CASE ~ObserverAllocatable(next, b)
    <3>1. /\ stop = "serving" /\ current' = None /\ waiting' = next /\ page' = FALSE
          /\ taken' = FALSE /\ announced' = FALSE /\ observer' = WithBuffer(observer, b)
          /\ spoilt' = spoilt
      BY <1>3, <2>2
    <3>2. /\ observer' \in Observers /\ observer'.buffer = b
          /\ observer'.requestInProgress = observer.requestInProgress
          /\ observer'.idle = observer.idle /\ observer'.initialIdle = observer.initialIdle
      BY <1>4, <3>1, Read
    <3>3. ServerTypes'
      BY <1>1, <3>1, <3>2 DEF ServerTypes
    <3>4. ServingInv'
      BY <1>1, <3>1, <3>2 DEF ServingInv
    <3>5. PlacesInv' /\ WaitingIsExpected'
      BY <1>2, <3>1 DEF PlacesInv, WaitingIsExpected
    <3> QED
      BY <1>2, <3>1, <3>2, <3>3, <3>4, <3>5
  <2> QED
    BY <2>1, <2>2
<1>6. ASSUME NEW d \in Connections, Undisturbed(d)'
      PROVE  TrafficOf(d)' /\ Answered(asked[d], answers[d])'
  <2>1. d \notin spoilt' /\ Clean(d, answers'[d])
    BY <1>5, <1>6 DEF Undisturbed, Clean
  <2>2. Undisturbed(d) /\ Answered(asked[d], answers'[d])
    BY <2>1 DEF StillAnswered
  <2>3. ASSUME d \notin gone'
        PROVE  Underway(Held(d)', Busy(d)', unread'[d], rest'[d], asked'[d], answers'[d])
    <3>1. d # current /\ d \notin gone
      BY <1>2, <2>3
    <3>2. Underway(<<>>, FALSE, unread[d], rest[d], asked[d], answers[d])
      <4>1. Held(d) = <<>> /\ Busy(d) = FALSE
        BY <3>1, Zenon DEF Held, Busy
      <4> QED
        BY <1>1, <2>2, <3>1, <4>1 DEF RightOn, TrafficOf
    <3>3. Held(d)' = <<>> /\ Busy(d)' = FALSE
      <4>1. CASE d = current'
        <5>1. observer'.buffer = <<>> /\ observer'.requestInProgress = FALSE
          BY <1>5, <2>1, <4>1
        <5>2. Held(d)' = <<>>
          BY <4>1, <5>1 DEF Held
        <5>3. Busy(d)' = FALSE
          BY <4>1, <5>1, Zenon DEF Busy
        <5> QED
          BY <5>2, <5>3
      <4>2. CASE d # current'
        BY <4>2, Zenon DEF Held, Busy
      <4> QED
        BY <4>1, <4>2
    <3>4. unread'[d] = unread[d] /\ answers'[d] = answers[d]
      BY <3>1 DEF OthersKept
    <3> QED
      BY <3>2, <3>3, <3>4
  <2> QED
    BY <2>2, <2>3 DEF TrafficOf
<1>7. \A d \in Connections : RightOn(d)'
  BY <1>6 DEF RightOn
<1> QED
  BY <1>5, <1>7 DEF HttpInv

\* The observer that a handler leaves, and a page that works or not
ObserverOk(o, working) ==
    /\ o \in Observers
    /\ working => ~taken
    /\ taken => o.writer = "none"
    /\ o.requestInProgress => ~o.idle /\ ~o.initialIdle
    /\ stop = "no" /\ waiting # None => o.closeWhenIdle /\ ~o.idle

\* The observer, a page that works or not, and what is under way
RightWith(o, working, arrived, replies) ==
    /\ InOrder(o, working)
    /\ Underway(o.buffer, o.requestInProgress, arrived, rest[current], asked[current], replies)

(***************************************************************************)
(* The end of a handler of the current connection.                         *)
(***************************************************************************)
LEMMA HttpFinishes ==
    ASSUME HttpServerAssumption, HttpInv, current # None,
           NEW o, NEW working \in BOOLEAN, NEW event \in BOOLEAN, Finish(o, working, event),
           o.buffer \in Seq(FragmentKinds), Len(o.buffer) <= BufferSize,
           pages' \in Nat, working => pages' >= 1,
           ~o.closed => ObserverOk(o, working),
           ~o.closed /\ Clean(current, answers'[current]) =>
              RightWith(o, working, unread'[current], answers'[current]),
           rest' = rest, asked' = asked, ClientTypes', OthersKept(current), StillAnswered
    PROVE  HttpInv'
<1>1. /\ ServerTypes /\ ServingInv /\ PlacesInv
      /\ \A c \in Connections : RightOn(c)
  BY DEF HttpInv
<1>2. current \in Connections /\ waiting \in Connections \cup {None} /\ gone \subseteq Connections
  BY <1>1 DEF ServerTypes
<1>3. CASE o.closed
  <2>1. stop' = stop /\ OnAllocatable(waiting, o.buffer) /\ gone' = gone \cup {current}
    BY <1>3 DEF Finish
  <2>2. waiting \notin gone'
    BY <1>1, <2>1 DEF PlacesInv
  <2>3. gone' \subseteq Connections /\ gone \subseteq gone' /\ current \in gone'
    BY <1>2, <2>1
  <2> QED
    BY <1>2, <2>1, <2>2, <2>3, HttpAllocates
<1>4. CASE ~o.closed
  <2>1. /\ stop' = stop /\ observer' = o /\ page' = working /\ announced' = event
        /\ current' = current /\ waiting' = waiting /\ taken' = taken /\ gone' = gone
        /\ spoilt' = spoilt
    BY <1>4 DEF Finish
  <2>2. ObserverOk(o, working)
    BY <1>4
  <2>3. Clean(current, answers'[current]) =>
           RightWith(o, working, unread'[current], answers'[current])
    BY <1>4
  <2>4. ServerTypes'
    BY <1>1, <2>1, <2>2 DEF ServerTypes, ObserverOk
  <2>5. Undisturbed(current)' => InOrder(observer, page)'
    <3>1. Undisturbed(current)' => Clean(current, answers'[current])
      BY <2>1 DEF Undisturbed, Clean
    <3>2. RightWith(o, working, unread'[current], answers'[current]) => InOrder(observer, page)'
      BY <2>1 DEF RightWith, InOrder
    <3> QED
      BY <2>3, <3>1, <3>2
  <2>6. ServingInv'
    BY <2>1, <2>2, <2>5 DEF ServingInv, ObserverOk
  <2>7. PlacesInv' /\ WaitingIsExpected'
    BY <1>1, <2>1, <2>2 DEF PlacesInv, WaitingIsExpected, ObserverOk
  <2>8. ASSUME NEW d \in Connections, Undisturbed(d)'
        PROVE  TrafficOf(d)' /\ Answered(asked[d], answers[d])'
    <3>1. Clean(d, answers'[d])
      BY <2>1, <2>8 DEF Undisturbed, Clean
    <3>2. Undisturbed(d) /\ Answered(asked[d], answers'[d])
      BY <3>1 DEF StillAnswered
    <3>3. CASE d = current
      <4>1. Held(d)' = o.buffer
        BY <2>1, <3>3 DEF Held
      <4>2. o.requestInProgress \in BOOLEAN
        BY <2>2 DEF ObserverOk, Observers
      <4>3. Busy(d)' = o.requestInProgress
        BY <2>1, <3>3, <4>2, Zenon DEF Busy
      <4>4. Underway(o.buffer, o.requestInProgress, unread'[d], rest[d], asked[d], answers'[d])
        BY <2>3, <3>1, <3>3 DEF RightWith
      <4> QED
        BY <3>2, <4>1, <4>3, <4>4 DEF TrafficOf
    <3>4. CASE d # current
      <4>1. Held(d)' = Held(d)
        BY <2>1, <3>4 DEF Held
      <4>2. Busy(d)' = Busy(d)
        BY <2>1, <3>4, Zenon DEF Busy
      <4>3. unread'[d] = unread[d] /\ answers'[d] = answers[d]
        BY <3>4 DEF OthersKept
      <4>4. TrafficOf(d)
        BY <1>1, <3>2 DEF RightOn
      <4> QED
        BY <2>1, <3>2, <4>1, <4>2, <4>3, <4>4 DEF TrafficOf
    <3> QED
      BY <3>3, <3>4
  <2>9. \A d \in Connections : RightOn(d)'
    BY <2>8 DEF RightOn
  <2> QED
    BY <2>1, <2>4, <2>6, <2>7, <2>9 DEF HttpInv
<1> QED
  BY <1>3, <1>4

\* The answer belongs to the last request, of which everything was read.
AnswerInTurn(kind, working, arrived) ==
    /\ working = FALSE /\ arrived = <<>> /\ rest[current] = <<>>
    /\ Len(asked[current]) = Len(answers[current]) + 1
    /\ kind = Expected(asked[current][Len(asked[current])])

(***************************************************************************)
(* SendResponse: the last request gets its answer, and the server waits    *)
(* for the next one or makes room.                                         *)
(***************************************************************************)
LEMMA HttpResponds ==
    ASSUME HttpServerAssumption, HttpInv, current # None, ~taken,
           NEW o \in Observers, o.closeWhenIdle = observer.closeWhenIdle,
           NEW kind \in {"page", "bad", "outOfMemory", "late"}, NEW working \in BOOLEAN,
           NEW event \in BOOLEAN, SendResponse(o, kind, working, event),
           pages' \in Nat, working => pages' >= 1, NEW u \in Seq(FragmentKinds),
           kind # "late" /\ Undisturbed(current) => AnswerInTurn(kind, working, u),
           rest' = rest, asked' = asked, unread' = [unread EXCEPT ![current] = u]
    PROVE  HttpInv'
<1> DEFINE a == Append(answers[current], Response(o, kind))
           p == PrepareForNextRequest(o)
<1>1. ServerTypes /\ ClientTypes /\ WaitingIsExpected
  BY DEF HttpInv
<1>2. current \in Connections
  BY <1>1 DEF ServerTypes
<1>3. /\ asked[current] \in Seq(Requests) /\ answers[current] \in Seq(Answers)
      /\ Undisturbed(current) => Answered(asked[current], answers[current])
  BY <1>1, <1>2 DEF ClientTypes, HttpInv, RightOn
<1>4. Response(o, kind) \in Answers /\ Response(o, kind).kind = kind
  BY DEF Response, Answers, Observers
<1>5. /\ a \in Seq(Answers)
      /\ Clean(current, a) => kind # "late" /\ Undisturbed(current)
  <2>1. /\ a \in Seq(Answers) /\ Len(a) = Len(answers[current]) + 1
        /\ Len(answers[current]) \in Nat /\ a[Len(answers[current]) + 1] = Response(o, kind)
        /\ \A i \in 1 .. Len(answers[current]) : a[i] = answers[current][i]
    BY <1>3, <1>4
  <2>2. DOMAIN a = 1 .. Len(a) /\ DOMAIN answers[current] = 1 .. Len(answers[current])
    BY <1>3, <2>1
  <2> HIDE DEF a
  <2>3. Clean(current, a) => kind # "late"
    BY <1>4, <2>1, <2>2 DEF Clean
  <2>4. Clean(current, a) => Undisturbed(current)
    BY <2>1, <2>2 DEF Clean, Undisturbed
  <2> QED
    BY <2>1, <2>3, <2>4
<1>6. ASSUME Clean(current, a)
      PROVE  /\ Underway(<<>>, FALSE, <<>>, <<>>, asked[current], a)
             /\ Answered(asked[current], a)
             /\ working = FALSE /\ u = <<>> /\ rest[current] = <<>>
  <2>1. AnswerInTurn(kind, working, u) /\ Answered(asked[current], answers[current])
    BY <1>3, <1>5, <1>6
  <2> QED
    BY <1>3, <1>4, <2>1, UnderwayAnswered DEF AnswerInTurn
<1>7. answers' = [answers EXCEPT ![current] = a] /\ Finish(p, working, event)
  BY DEF SendResponse
<1> HIDE DEF a
<1>8. answers'[current] = a /\ unread'[current] = u /\ OthersKept(current)
  BY <1>1, <1>2, <1>7 DEF ClientTypes, OthersKept
<1>9. ClientTypes'
  BY <1>1, <1>2, <1>5, <1>7 DEF ClientTypes
<1>10. StillAnswered
  <2> SUFFICES ASSUME NEW d \in Connections, Clean(d, answers'[d])
               PROVE  Undisturbed(d) /\ Answered(asked[d], answers'[d])
    BY DEF StillAnswered
  <2>1. CASE d = current
    BY <1>5, <1>6, <1>8, <2>1
  <2>2. CASE d # current
    <3>1. answers'[d] = answers[d]
      BY <1>8, <2>2 DEF OthersKept
    <3>2. Undisturbed(d)
      BY <3>1 DEF Clean, Undisturbed
    <3> QED
      BY <3>1, <3>2 DEF HttpInv, RightOn
  <2> QED
    BY <2>1, <2>2
<1>11. p.buffer = <<>>
  BY Prepared
<1>12. <<>> \in Seq(FragmentKinds) /\ Len(<<>>) <= BufferSize
  BY DEF HttpServerAssumption
<1>13. ASSUME ~p.closed
       PROVE  /\ ObserverOk(p, working)
              /\ Clean(current, answers'[current]) =>
                    RightWith(p, working, unread'[current], answers'[current])
  <2>1. ~o.closeWhenIdle
    BY <1>13, Prepared
  <2>2. /\ p \in Observers /\ p.writer = "requested" /\ ~p.requestInProgress
    BY <2>1, Prepared
  <2> HIDE DEF p
  <2>3. p.requestInProgress = FALSE
    <3>1. p.requestInProgress \in BOOLEAN
      BY <2>2 DEF Observers
    <3> QED
      BY <2>2, <3>1, Zenon
  <2>4. ~(stop = "no" /\ waiting # None)
    BY <1>1, <2>1 DEF WaitingIsExpected
  <2>5. ObserverOk(p, working)
    BY <2>2, <2>3, <2>4 DEF ObserverOk
  <2>6. ASSUME Clean(current, answers'[current])
        PROVE  RightWith(p, working, unread'[current], answers'[current])
    <3>1. Underway(p.buffer, p.requestInProgress, unread'[current],
                   rest[current], asked[current], answers'[current])
      BY <1>6, <1>8, <1>11, <2>3, <2>6
    <3>2. InOrder(p, working)
      BY <1>6, <1>8, <2>3, <2>6 DEF InOrder
    <3> QED
      BY <3>1, <3>2 DEF RightWith
  <2> QED
    BY <2>5, <2>6
<1> HIDE DEF p
<1> QED
  BY <1>7, <1>8, <1>9, <1>10, <1>11, <1>12, <1>13, HttpFinishes

(***************************************************************************)
(* The current connection is not gone, and its observer is in order.       *)
(***************************************************************************)
LEMMA CurrentIs ==
    ASSUME HttpInv, current # None
    PROVE  /\ current \in Connections /\ current \notin gone
           /\ observer \in Observers /\ observer.requestInProgress \in BOOLEAN
           /\ observer.buffer \in Seq(FragmentKinds) /\ Len(observer.buffer) <= BufferSize
           /\ ObserverOk(observer, page) /\ page \in BOOLEAN
           /\ pages \in Nat /\ (page => pages >= 1)
           /\ Undisturbed(current) =>
                 RightWith(observer, page, unread[current], answers[current])
           /\ rest[current] \in Seq(FragmentKinds) /\ unread[current] \in Seq(FragmentKinds)
           /\ asked[current] \in Seq(Requests) /\ answers[current] \in Seq(Answers)
<1>1. ServerTypes /\ ClientTypes /\ ServingInv /\ PlacesInv /\ WaitingIsExpected
  BY DEF HttpInv
<1>2. current \in Connections /\ current \notin gone /\ observer \in Observers
  BY <1>1 DEF ServerTypes, PlacesInv
<1>3. observer.requestInProgress \in BOOLEAN /\ observer.buffer \in Seq(FragmentKinds)
  BY <1>2 DEF Observers
<1>4. ObserverOk(observer, page) /\ Len(observer.buffer) <= BufferSize
  BY <1>1, <1>2 DEF ServingInv, WaitingIsExpected, ObserverOk, HttpInv
<1>5. Held(current) = observer.buffer
  BY DEF Held
<1>6. Busy(current) = observer.requestInProgress
  BY <1>3, Zenon DEF Busy
<1>7. Undisturbed(current) => TrafficOf(current)
  BY <1>2 DEF HttpInv, RightOn
<1>8. page \in BOOLEAN
  BY <1>1, Zenon DEF ServerTypes
<1>9. pages \in Nat /\ (page => pages >= 1)
  BY <1>1 DEF ServerTypes, ServingInv
<1>10. Undisturbed(current) => RightWith(observer, page, unread[current], answers[current])
  BY <1>1, <1>2, <1>5, <1>6, <1>7 DEF TrafficOf, ServingInv, RightWith
<1>11. /\ rest[current] \in Seq(FragmentKinds) /\ unread[current] \in Seq(FragmentKinds)
       /\ asked[current] \in Seq(Requests) /\ answers[current] \in Seq(Answers)
  BY <1>1, <1>2 DEF ClientTypes
<1> QED
  BY <1>2, <1>3, <1>4, <1>8, <1>9, <1>10, <1>11

(***************************************************************************)
(* A handler that asks and answers nothing.                                *)
(***************************************************************************)
LEMMA NothingAnswered ==
    ASSUME HttpInv, NEW c, answers' = answers, rest' = rest, asked' = asked,
           unread' = unread \/ (c \in Connections /\ unread' = [unread EXCEPT ![c] = <<>>])
    PROVE  /\ ClientTypes' /\ OthersKept(c) /\ StillAnswered
           /\ \A d \in Connections : Clean(d, answers'[d]) => Undisturbed(d)
<1>1. ClientTypes /\ \A d \in Connections : RightOn(d)
  BY DEF HttpInv
<1>2. <<>> \in Seq(FragmentKinds)
  OBVIOUS
<1>3. ClientTypes'
  BY <1>1, <1>2 DEF ClientTypes
<1>4. OthersKept(c)
  BY <1>1 DEF OthersKept, ClientTypes
<1>5. \A d \in Connections : Clean(d, answers'[d]) => Undisturbed(d)
  BY DEF Clean, Undisturbed
<1>6. StillAnswered
  BY <1>1, <1>5 DEF StillAnswered, RightOn
<1> QED
  BY <1>3, <1>4, <1>5, <1>6

(***************************************************************************)
(* DataReceived with a stream to answer on: whatever part of a request has *)
(* arrived, it is kept, answered or given to a page.                       *)
(***************************************************************************)
LEMMA HttpReads ==
    ASSUME HttpServerAssumption, RequestsFit, HttpInv, current # None, ~taken,
           NEW o \in Observers, o.writer = "open", o.buffer = observer.buffer,
           o.idle = observer.idle, o.initialIdle = observer.initialIdle,
           o.closeWhenIdle = observer.closeWhenIdle,
           o.requestInProgress = observer.requestInProgress,
           NEW event \in BOOLEAN, ReadData(o, event), rest' = rest, asked' = asked
    PROVE  HttpInv'
<1> DEFINE b == observer.buffer
           u == unread[current]
           t == rest[current]
           q == asked[current]
           a == answers[current]
           busy == observer.requestInProgress
<1>1. /\ current \in Connections /\ busy \in BOOLEAN
      /\ u \in Seq(FragmentKinds) /\ t \in Seq(FragmentKinds)
      /\ q \in Seq(Requests) /\ a \in Seq(Answers) /\ page \in BOOLEAN
      /\ pages \in Nat /\ (page => pages >= 1)
      /\ b \in Seq(FragmentKinds) /\ Len(b) <= BufferSize
  BY CurrentIs
<1>2. Undisturbed(current) =>
         Underway(b, busy, u, t, q, a) /\ InOrder(o, page)
  <2>1. Undisturbed(current) => RightWith(observer, page, unread[current], answers[current])
    BY CurrentIs
  <2> QED
    BY <2>1 DEF RightWith, InOrder
<1>3. ObserverOk(o, page) /\ o.closed = FALSE
  <2>1. ObserverOk(observer, page)
    BY CurrentIs
  <2> QED
    BY <2>1 DEF ObserverOk, Observers
<1>4. CASE u = <<>>
  <2>1. Finish(o, page, event) /\ answers' = answers /\ unread' = unread /\ pages' = pages
    BY <1>4 DEF ReadData
  <2>2. /\ ClientTypes' /\ OthersKept(current) /\ StillAnswered
        /\ Clean(current, answers'[current]) => Undisturbed(current)
    BY <1>1, <2>1, NothingAnswered
  <2>3. Clean(current, answers'[current]) =>
           RightWith(o, page, unread'[current], answers'[current])
    BY <1>2, <2>1, <2>2 DEF RightWith
  <2>4. pages' \in Nat /\ (page => pages' >= 1)
    BY <1>1, <2>1
  <2>5. o.buffer \in Seq(FragmentKinds) /\ Len(o.buffer) <= BufferSize
    BY <1>1
  <2> HIDE DEF b, u, t, q, a, busy
  <2> QED
    BY <1>1, <1>3, <2>1, <2>2, <2>3, <2>4, <2>5, HttpFinishes
<1>5. CASE u # <<>>
  <2> DEFINE s == b \o u
             r == q[Len(q)]
             read == WithBuffer(o, s)
             unchanged == <<pages, answers>>
  <2>1. /\ unread' = [unread EXCEPT ![current] = <<>>]
        /\ IF Len(u) > BufferSize - Len(b)
           THEN SendResponse(o, "outOfMemory", page, event) /\ UNCHANGED pages
           ELSE ReceivedRequest(o, event)
    BY <1>5 DEF ReadData
  <2>2. Undisturbed(current) => ReadInTurn(b, busy, u, t, q, a) /\ page = FALSE
    <3> SUFFICES ASSUME Undisturbed(current)
                 PROVE  ReadInTurn(b, busy, u, t, q, a) /\ page = FALSE
      OBVIOUS
    <3>1. Len(a) \in Nat /\ Underway(b, busy, u, t, q, a) /\ InOrder(o, page)
      BY <1>1, <1>2
    <3>2. o.requestInProgress = busy
      OBVIOUS
    <3> HIDE DEF b, u, t, q, a, busy
    <3>3. ReadInTurn(b, busy, u, t, q, a)
      BY <1>1, <1>5, <3>1, UnderwayRead
    <3>4. ~page
      BY <3>1, <3>2, <3>3 DEF ReadInTurn, InOrder
    <3>5. page = FALSE
      BY <1>1, <3>4, Zenon
    <3> QED
      BY <3>3, <3>5
  <2>3. <<>> \in Seq(FragmentKinds) /\ unread'[current] = <<>>
    <3>1. unread \in [Connections -> Seq(FragmentKinds)]
      BY DEF HttpInv, ClientTypes
    <3> QED
      BY <1>1, <2>1, <3>1
  <2>4. CASE Len(u) > BufferSize - Len(b)
    <3>1. SendResponse(o, "outOfMemory", page, event) /\ pages' = pages
      BY <2>1, <2>4
    <3>2. Undisturbed(current) => AnswerInTurn("outOfMemory", page, <<>>)
      BY <2>2, <2>4 DEF ReadInTurn, AnswerInTurn
    <3>3. unread' = [unread EXCEPT ![current] = <<>>] /\ pages' \in Nat /\ (page => pages' >= 1)
      BY <1>1, <2>1, <3>1
    <3>4. /\ page \in BOOLEAN /\ "outOfMemory" \in {"page", "bad", "outOfMemory", "late"}
          /\ "outOfMemory" # "late" /\ Undisturbed(current) =>
                AnswerInTurn("outOfMemory", page, <<>>)
      BY <1>1, <3>2
    <3> HIDE DEF b, u, t, q, a, busy, s, r, read
    <3> QED
      BY <2>3, <3>1, <3>3, <3>4, HttpResponds, ZenonT(30)
  <2>5. CASE ~(Len(u) > BufferSize - Len(b))
    <3>1. ReceivedRequest(o, event)
      BY <2>1, <2>5
    <3>2. s \in Seq(FragmentKinds) /\ Len(s) <= BufferSize
      <4> DEFINE m == Len(b)
                 n == Len(u)
      <4>1. s \in Seq(FragmentKinds) /\ Len(s) = m + n /\ m \in Nat /\ n \in Nat
        BY <1>1
      <4>2. BufferSize \in Nat /\ ~(n > BufferSize - m)
        BY <2>5 DEF HttpServerAssumption
      <4> HIDE DEF m, n, s
      <4> QED
        BY <4>1, <4>2
    <3> HIDE DEF s
    <3>3. /\ read \in Observers /\ read.buffer = s /\ read.writer = "open"
          /\ read.idle = o.idle /\ read.initialIdle = o.initialIdle
          /\ read.closeWhenIdle = o.closeWhenIdle
          /\ read.requestInProgress = o.requestInProgress /\ read.closed = FALSE
      BY <3>2, Read
    <3>4. IF Complete(read.buffer)
          THEN TryHandleRequest(read, event)
          ELSE Finish(read, page, event) /\ UNCHANGED unchanged
      BY <3>1 DEF ReceivedRequest, s, WithBuffer
    <3> HIDE DEF read
    <3>5. /\ read.buffer \in Seq(FragmentKinds) /\ Len(read.buffer) <= BufferSize
          /\ read.closeWhenIdle = observer.closeWhenIdle
          /\ unread' = [unread EXCEPT ![current] = <<>>]
      BY <2>1, <3>2, <3>3
    <3>6. ObserverOk(read, page)
      BY <1>3, <3>3 DEF ObserverOk
    <3>7. Undisturbed(current) =>
             /\ o.requestInProgress = FALSE /\ page = FALSE
             /\ Complete(s) <=> rest[current] = <<>>
             /\ rest[current] = <<>> =>
                   /\ Len(asked[current]) = Len(answers[current]) + 1
                   /\ Expected(r) = IF Valid(s) THEN "page" ELSE "bad"
                   /\ Valid(s) => Underway(s, TRUE, <<>>, <<>>, asked[current], answers[current])
             /\ rest[current] # <<>> =>
                   Underway(s, FALSE, <<>>, rest[current], asked[current], answers[current])
      <4> SUFFICES ASSUME Undisturbed(current)
                   PROVE  <3>7!2
        OBVIOUS
      <4>1. ReadInTurn(b, busy, u, t, q, a) /\ page = FALSE
        BY <2>2
      <4>2. ~busy
        BY <4>1 DEF ReadInTurn
      <4>3. o.requestInProgress = FALSE
        BY <1>1, <4>2, Zenon
      <4>4. /\ Len(q) = Len(a) + 1
            /\ Complete(s) <=> t = <<>>
            /\ Valid(s) <=> r # "bad"
            /\ t = <<>> => Expected(r) = IF r = "bad" THEN "bad" ELSE "page"
            /\ t = <<>> /\ Valid(s) => Underway(s, TRUE, <<>>, <<>>, q, a)
            /\ t # <<>> => Underway(s, FALSE, <<>>, t, q, a)
        BY <2>5, <4>1 DEF ReadInTurn, s
      <4>5. t = <<>> => Expected(r) = IF Valid(s) THEN "page" ELSE "bad"
        BY <4>4
      <4> HIDE DEF r
      <4> QED
        BY <4>1, <4>3, <4>4, <4>5
    <3>8. CASE ~Complete(s)
      <4>1. Finish(read, page, event) /\ answers' = answers /\ pages' = pages
        BY <3>3, <3>4, <3>8
      <4>2. /\ ClientTypes' /\ OthersKept(current) /\ StillAnswered
            /\ Clean(current, answers'[current]) => Undisturbed(current)
        BY <1>1, <2>1, <4>1, NothingAnswered
      <4>3. ASSUME Clean(current, answers'[current])
            PROVE  RightWith(read, page, unread'[current], answers'[current])
        <5>1. Undisturbed(current)
          BY <4>2, <4>3
        <5>2. InOrder(read, page)
          BY <1>2, <3>3, <5>1 DEF InOrder
        <5>3. Underway(read.buffer, read.requestInProgress, unread'[current],
                       rest[current], asked[current], answers'[current])
          BY <2>3, <3>3, <3>7, <3>8, <4>1, <5>1
        <5> QED
          BY <5>2, <5>3 DEF RightWith
      <4>4. pages' \in Nat /\ (page => pages' >= 1)
        BY <1>1, <4>1
      <4> HIDE DEF b, u, t, q, a, busy, r
      <4> QED
        BY <1>1, <3>5, <3>6, <4>1, <4>2, <4>3, <4>4, HttpFinishes
    <3>9. CASE Complete(s)
      <4>1. TryHandleRequest(read, event)
        BY <3>3, <3>4, <3>9
      <4>2. CASE ~Valid(s)
        <5>1. SendResponse(read, "bad", page, event) /\ pages' = pages
          BY <3>3, <4>1, <4>2 DEF TryHandleRequest
        <5>2. Undisturbed(current) => AnswerInTurn("bad", page, <<>>)
          BY <3>7, <3>9, <4>2 DEF AnswerInTurn
        <5>3. pages' \in Nat /\ (page => pages' >= 1)
          BY <1>1, <5>1
        <5>4. /\ page \in BOOLEAN /\ "bad" \in {"page", "bad", "outOfMemory", "late"}
              /\ "bad" # "late" /\ Undisturbed(current) => AnswerInTurn("bad", page, <<>>)
              /\ read \in Observers
          BY <1>1, <3>3, <5>2
        <5> HIDE DEF b, u, t, q, a, busy, r
        <5> QED
          BY <2>3, <3>5, <5>1, <5>3, <5>4, HttpResponds, ZenonT(30)
      <4>3. CASE Valid(s) /\ o.requestInProgress
        <5>1. Finish(Close(read), page, event) /\ pages' = pages /\ answers' = answers
          BY <3>3, <4>1, <4>3 DEF TryHandleRequest
        <5>2. ClientTypes' /\ OthersKept(current) /\ StillAnswered
          BY <1>1, <2>1, <5>1, NothingAnswered
        <5>3. Close(read).closed /\ Close(read).buffer = read.buffer
          BY <3>3, Closes
        <5>4. pages' \in Nat /\ (page => pages' >= 1)
          BY <1>1, <5>1
        <5> HIDE DEF b, u, t, q, a, busy, r
        <5> QED
          BY <1>1, <3>5, <5>1, <5>2, <5>3, <5>4, HttpFinishes
      <4>4. CASE Valid(s) /\ ~o.requestInProgress
        <5> DEFINE h == HandleRequest(read)
        <5>1. ServePage(h, event)
          BY <3>3, <4>1, <4>4 DEF TryHandleRequest
        <5>2. /\ h \in Observers /\ h.writer = "open" /\ h.buffer = s
              /\ h.closeWhenIdle = observer.closeWhenIdle /\ h.requestInProgress
              /\ ~h.idle /\ ~h.initialIdle /\ ~h.closed
          BY <3>3, Handled
        <5> HIDE DEF h
        <5>3. CASE SendResponse(h, "page", page, event) /\ pages' = pages
          <6>1. Undisturbed(current) => AnswerInTurn("page", page, <<>>)
            BY <3>7, <3>9, <4>4 DEF AnswerInTurn
          <6>2. pages' \in Nat /\ (page => pages' >= 1)
            BY <1>1, <5>3
          <6>3. /\ page \in BOOLEAN /\ "page" \in {"page", "bad", "outOfMemory", "late"}
                /\ "page" # "late" /\ Undisturbed(current) => AnswerInTurn("page", page, <<>>)
            BY <1>1, <6>1
          <6> HIDE DEF b, u, t, q, a, busy, r
          <6> QED
            BY <2>3, <3>5, <5>2, <5>3, <6>2, <6>3, HttpResponds, ZenonT(30)
        <5>4. CASE Finish(h, TRUE, event) /\ pages' = pages + 1 /\ answers' = answers
          <6>1. /\ ClientTypes' /\ OthersKept(current) /\ StillAnswered
                /\ Clean(current, answers'[current]) => Undisturbed(current)
            BY <1>1, <2>1, <5>4, NothingAnswered
          <6>2. ObserverOk(h, TRUE)
            BY <1>3, <5>2 DEF ObserverOk
          <6>3. h.requestInProgress = TRUE
            <7>1. h.requestInProgress \in BOOLEAN
              BY <5>2 DEF Observers
            <7> QED
              BY <5>2, <7>1, Zenon
          <6>4. ASSUME Clean(current, answers'[current])
                PROVE  RightWith(h, TRUE, unread'[current], answers'[current])
            <7>1. Undisturbed(current)
              BY <6>1, <6>4
            <7>2. Underway(h.buffer, h.requestInProgress, unread'[current],
                           rest[current], asked[current], answers'[current])
              BY <2>3, <3>7, <3>9, <4>4, <5>2, <5>4, <6>3, <7>1
            <7> QED
              BY <5>2, <6>3, <7>2 DEF RightWith, InOrder
          <6>5. /\ pages' \in Nat /\ pages' >= 1 /\ TRUE \in BOOLEAN
                /\ h.buffer \in Seq(FragmentKinds) /\ Len(h.buffer) <= BufferSize
            BY <1>1, <3>2, <5>2, <5>4
          <6> HIDE DEF b, u, t, q, a, busy, r
          <6> QED
            BY <5>4, <6>1, <6>2, <6>4, <6>5, HttpFinishes
        <5> QED
          BY <5>1, <5>3, <5>4 DEF ServePage
      <4> QED
        BY <4>2, <4>3, <4>4
    <3> QED
      BY <3>8, <3>9
  <2> QED
    BY <2>4, <2>5
<1> QED
  BY <1>4, <1>5

(***************************************************************************)
(* Events of the connection and of the timer.                              *)
(***************************************************************************)
LEMMA HttpEvents ==
    ASSUME HttpServerAssumption, RequestsFit, HttpInv,
           DataReceived \/ SendStreamAvailable \/ InitialIdle
    PROVE  HttpInv'
<1>1. ServerTypes /\ ServingInv
  BY DEF HttpInv
<1>2. current # None
  BY <1>1 DEF DataReceived, SendStreamAvailable, InitialIdle, ServingInv
<1>3. /\ current \in Connections /\ observer \in Observers /\ ObserverOk(observer, page)
      /\ page \in BOOLEAN /\ pages \in Nat /\ (page => pages >= 1)
      /\ observer.buffer \in Seq(FragmentKinds) /\ Len(observer.buffer) <= BufferSize
      /\ Undisturbed(current) => RightWith(observer, page, unread[current], answers[current])
  BY <1>2, CurrentIs
<1>4. announced \in BOOLEAN /\ FALSE \in BOOLEAN
  BY <1>1, Zenon DEF ServerTypes
<1>5. CASE DataReceived
  <2>1. rest' = rest /\ asked' = asked
    BY <1>5 DEF DataReceived
  <2>2. CASE observer.writer = "open"
    <3>1. ReadData(observer, FALSE)
      BY <1>5, <2>2 DEF DataReceived
    <3>2. ~taken
      BY <1>1, <2>2 DEF ServingInv
    <3> QED
      BY <1>2, <1>3, <1>4, <2>1, <2>2, <3>1, <3>2, HttpReads
  <2>3. CASE observer.writer # "open"
    <3>1. /\ Finish(observer, page, FALSE) /\ answers' = answers /\ unread' = unread
          /\ pages' = pages
      BY <1>5, <2>3 DEF DataReceived
    <3>2. /\ ClientTypes' /\ OthersKept(current) /\ StillAnswered
          /\ Clean(current, answers'[current]) => Undisturbed(current)
      BY <1>3, <2>1, <3>1, NothingAnswered
    <3>3. Clean(current, answers'[current]) =>
             RightWith(observer, page, unread'[current], answers'[current])
      BY <1>3, <3>1, <3>2
    <3>4. pages' \in Nat /\ (page => pages' >= 1)
      BY <1>3, <3>1
    <3> QED
      BY <1>2, <1>3, <1>4, <2>1, <3>1, <3>2, <3>3, <3>4, HttpFinishes
  <2> QED
    BY <2>2, <2>3
<1>6. CASE SendStreamAvailable
  <2> DEFINE o == [observer EXCEPT !.writer = "open"]
  <2>1. /\ observer.writer = "requested" /\ ReadData(o, announced)
        /\ rest' = rest /\ asked' = asked
    BY <1>6 DEF SendStreamAvailable
  <2>2. ~taken
    BY <1>1, <2>1 DEF ServingInv
  <2>3. /\ o \in Observers /\ o.writer = "open" /\ o.buffer = observer.buffer
        /\ o.idle = observer.idle /\ o.initialIdle = observer.initialIdle
        /\ o.closeWhenIdle = observer.closeWhenIdle
        /\ o.requestInProgress = observer.requestInProgress
    BY <1>3, WriterSet
  <2> HIDE DEF o
  <2> QED
    BY <1>2, <1>4, <2>1, <2>2, <2>3, HttpReads
<1>7. CASE InitialIdle
  <2> DEFINE o == [observer EXCEPT !.initialIdle = FALSE, !.idle = TRUE,
                                   !.closed = observer.closeWhenIdle]
  <2>1. /\ observer.initialIdle /\ Finish(o, page, announced) /\ pages' = pages
        /\ rest' = rest /\ asked' = asked /\ unread' = unread /\ answers' = answers
    BY <1>7 DEF InitialIdle, clients
  <2>2. /\ ClientTypes' /\ OthersKept(current) /\ StillAnswered
        /\ Clean(current, answers'[current]) => Undisturbed(current)
    BY <1>3, <2>1, NothingAnswered
  <2>3. DOMAIN observer = ObserverFields
    BY <1>3 DEF Observers, ObserverFields
  <2>4. /\ o.closed = observer.closeWhenIdle /\ o.buffer = observer.buffer
        /\ o.requestInProgress = observer.requestInProgress /\ o.writer = observer.writer
    BY <2>3 DEF ObserverFields
  <2>5. ~observer.requestInProgress
    BY <1>1, <2>1 DEF ServingInv
  <2>6. ASSUME ~o.closed
        PROVE  ObserverOk(o, page)
    <3>1. observer.closeWhenIdle = FALSE
      <4>1. observer.closeWhenIdle \in BOOLEAN
        BY <1>3 DEF Observers
      <4> QED
        BY <2>4, <2>6, <4>1, Zenon
    <3>2. o \in Observers
      BY <1>3, <3>1 DEF Observers
    <3>3. ~(stop = "no" /\ waiting # None)
      BY <1>3, <3>1 DEF ObserverOk
    <3> HIDE DEF o
    <3> QED
      BY <1>3, <2>4, <2>5, <3>2, <3>3 DEF ObserverOk
  <2> HIDE DEF o
  <2>7. Clean(current, answers'[current]) =>
           RightWith(o, page, unread'[current], answers'[current])
    BY <1>3, <2>1, <2>2, <2>4 DEF RightWith, InOrder
  <2>8. /\ pages' \in Nat /\ (page => pages' >= 1)
        /\ o.buffer \in Seq(FragmentKinds) /\ Len(o.buffer) <= BufferSize
    BY <1>3, <2>1, <2>4
  <2> QED
    BY <1>2, <1>3, <1>4, <2>1, <2>2, <2>6, <2>7, <2>8, HttpFinishes
<1> QED
  BY <1>5, <1>6, <1>7

(***************************************************************************)
(* The page answers, also when its connection is gone, or takes the        *)
(* connection over.                                                        *)
(***************************************************************************)
LEMMA HttpPages ==
    ASSUME HttpServerAssumption, HttpInv, PageAnswers \/ PageAnswersLate \/ TakeOverConnection
    PROVE  HttpInv'
<1>1. ServerTypes /\ ServingInv /\ ClientTypes /\ PlacesInv /\ WaitingIsExpected
  BY DEF HttpInv
<1>2. current # None
  BY <1>1 DEF ServingInv, PageAnswers, PageAnswersLate, TakeOverConnection
<1>3. /\ current \in Connections /\ observer \in Observers
      /\ page \in BOOLEAN /\ pages \in Nat /\ (page => pages >= 1)
      /\ observer.requestInProgress \in BOOLEAN
      /\ Undisturbed(current) => RightWith(observer, page, unread[current], answers[current])
      /\ asked[current] \in Seq(Requests) /\ answers[current] \in Seq(Answers)
      /\ observer.buffer \in Seq(FragmentKinds) /\ unread[current] \in Seq(FragmentKinds)
  BY <1>2, CurrentIs
<1>4. announced \in BOOLEAN /\ FALSE \in BOOLEAN
  BY <1>1, Zenon DEF ServerTypes
<1>5. unread = [unread EXCEPT ![current] = unread[current]]
  BY <1>1, <1>3 DEF ClientTypes
<1>6. CASE PageAnswers
  <2> DEFINE q == asked[current]
             r == q[Len(q)]
  <2>1. /\ SendResponse(observer, "page", FALSE, announced) /\ page /\ observer.writer = "open"
        /\ rest' = rest /\ asked' = asked /\ unread' = unread /\ pages' = pages - 1
    BY <1>6 DEF PageAnswers, clients
  <2>2. ~taken /\ pages' \in Nat
    BY <1>1, <1>3, <2>1 DEF ServingInv
  <2>3. ASSUME Undisturbed(current)
        PROVE  AnswerInTurn("page", FALSE, unread[current])
    <3>1. observer.requestInProgress = TRUE
      <4>1. observer.requestInProgress
        BY <1>3, <2>1, <2>3 DEF RightWith, InOrder
      <4> QED
        BY <1>3, <4>1, Zenon
    <3>2. /\ Len(q) = Len(answers[current]) + 1 /\ Len(observer.buffer) <= BufferSize
          /\ observer.buffer \o (<<>> \o <<>>) = Fragments(r)
          /\ unread[current] = <<>> /\ rest[current] = <<>> /\ r # "bad"
      BY <1>3, <2>3, <3>1 DEF RightWith, Underway
    <3>3. Fragments(r) = observer.buffer
      BY <1>3, <3>2
    <3>4. ~(Len(Fragments(r)) > BufferSize)
      <4>1. Len(observer.buffer) \in Nat /\ BufferSize \in Nat
        BY <1>3 DEF HttpServerAssumption
      <4> QED
        BY <3>2, <3>3, <4>1
    <3>5. Expected(r) = "page"
      BY <3>2, <3>4 DEF Expected
    <3> QED
      BY <3>2, <3>5 DEF AnswerInTurn
  <2>4. /\ unread' = [unread EXCEPT ![current] = unread[current]]
        /\ "page" \in {"page", "bad", "outOfMemory", "late"}
        /\ "page" # "late" /\ Undisturbed(current) =>
              AnswerInTurn("page", FALSE, unread[current])
    BY <1>5, <2>1, <2>3
  <2>5. observer.closeWhenIdle = observer.closeWhenIdle /\ (FALSE => pages' >= 1)
    OBVIOUS
  <2> HIDE DEF q, r
  <2> QED
    BY <1>2, <1>3, <1>4, <2>1, <2>2, <2>4, <2>5, HttpResponds, ZenonT(30)
<1>7. CASE PageAnswersLate
  <2>1. /\ SendResponse(observer, "late", page, announced) /\ observer.writer = "open"
        /\ rest' = rest /\ asked' = asked /\ unread' = unread /\ pages' = pages - 1
        /\ pages > (IF page THEN 1 ELSE 0)
    BY <1>7 DEF PageAnswersLate, clients
  <2>2. ~taken
    BY <1>1, <2>1 DEF ServingInv
  <2>3. pages' \in Nat /\ (page => pages' >= 1)
    BY <1>3, <2>1
  <2>4. /\ unread' = [unread EXCEPT ![current] = unread[current]]
        /\ "late" \in {"page", "bad", "outOfMemory", "late"}
        /\ "late" # "late" /\ Undisturbed(current) =>
              AnswerInTurn("late", page, unread[current])
        /\ observer.closeWhenIdle = observer.closeWhenIdle
    BY <1>5, <2>1
  <2> QED
    BY <1>2, <1>3, <1>4, <2>1, <2>2, <2>3, <2>4, HttpResponds, ZenonT(30)
<1>8. CASE TakeOverConnection
  <2> DEFINE o == [observer EXCEPT !.writer = "none"]
  <2>1. /\ taken' = TRUE /\ page' = FALSE /\ announced' = FALSE /\ observer' = o
        /\ current' = current /\ waiting' = waiting /\ stop' = stop /\ gone' = gone
        /\ rest' = rest /\ asked' = asked /\ unread' = unread /\ answers' = answers
        /\ spoilt' = spoilt /\ pages' = pages - 1 /\ page
    BY <1>8 DEF TakeOverConnection, clients
  <2>2. /\ o \in Observers /\ o.writer = "none" /\ o.buffer = observer.buffer
        /\ o.idle = observer.idle /\ o.initialIdle = observer.initialIdle
        /\ o.closeWhenIdle = observer.closeWhenIdle
        /\ o.requestInProgress = observer.requestInProgress
    BY <1>3, WriterSet
  <2> HIDE DEF o
  <2>3. pages' \in Nat
    BY <1>3, <2>1
  <2>4. ServerTypes' /\ ClientTypes'
    BY <1>1, <2>1, <2>2, <2>3 DEF ServerTypes, ClientTypes
  <2>6. Undisturbed(current)' => InOrder(observer, page)'
    <3>1. Undisturbed(current)' => Undisturbed(current)
      BY <2>1 DEF Undisturbed
    <3> QED
      BY <1>3, <2>1, <2>2, <3>1 DEF RightWith, InOrder
  <2>7. ServingInv'
    BY <1>1, <1>2, <2>1, <2>2, <2>6 DEF ServingInv
  <2>8. PlacesInv' /\ WaitingIsExpected'
    BY <1>1, <2>1, <2>2 DEF PlacesInv, WaitingIsExpected
  <2>9. Len(observer'.buffer) <= BufferSize
    BY <2>1, <2>2 DEF HttpInv
  <2>10. \A d \in Connections : RightOn(d)'
    <3> SUFFICES ASSUME NEW d \in Connections
                 PROVE  RightOn(d)'
      OBVIOUS
    <3>1. RightOn(d)
      BY DEF HttpInv
    <3>2. Held(d)' = Held(d)
      BY <2>1, <2>2 DEF Held
    <3>3. Busy(d)' = Busy(d)
      BY <2>1, <2>2 DEF Busy
    <3>4. Undisturbed(d)' => Undisturbed(d)
      BY <2>1 DEF Undisturbed
    <3> QED
      BY <2>1, <3>1, <3>2, <3>3, <3>4 DEF RightOn, TrafficOf
  <2> QED
    BY <2>4, <2>7, <2>8, <2>9, <2>10 DEF HttpInv
<1> QED
  BY <1>6, <1>7, <1>8

(***************************************************************************)
(* A connection is accepted: it is served, or it waits and the connection  *)
(* that is served is told to make room.                                    *)
(***************************************************************************)
LEMMA HttpAccepts ==
    ASSUME HttpServerAssumption, HttpInv, NEW c \in Connections, ConnectionAccepted(c)
    PROVE  HttpInv'
<1> DEFINE o == CloseWhenIdle(observer)
<1>1. ServerTypes /\ ServingInv /\ ClientTypes /\ PlacesInv
  BY DEF HttpInv
<1>2. None \notin Connections
  BY DEF HttpServerAssumption
<1>3. /\ c \notin gone /\ c # current /\ c # waiting
      /\ gone' = gone \cup ({waiting, current} \ {None, current'})
      /\ stop' = stop /\ rest' = rest /\ asked' = asked /\ unread' = unread /\ answers' = answers
      /\ pages' = pages /\ pages' \in Nat
  BY <1>1 DEF ConnectionAccepted, clients, ServerTypes
<1>4. ClientTypes' /\ OthersKept(current) /\ StillAnswered
  BY <1>3, NothingAnswered
<1>5. gone' \subseteq Connections /\ gone \subseteq gone'
  BY <1>1, <1>3 DEF ServerTypes
<1>6. c \notin gone'
  BY <1>3
<1>7. CASE current = None \/ o.closed
  <2>1. ObserverAllocatable(c, observer.buffer) \/ OnAllocatable(c, observer.buffer)
    BY <1>7 DEF ConnectionAccepted
  <2>2. current = None \/ current \in gone'
    <3>1. current = None \/ current' # current
      BY <1>2, <1>3, <2>1 DEF ObserverAllocatable, OnAllocatable
    <3> QED
      BY <1>3, <3>1
  <2>3. observer.buffer \in Seq(FragmentKinds) /\ Len(observer.buffer) <= BufferSize
    BY <1>1 DEF HttpInv, ServerTypes, Observers
  <2> QED
    BY <1>3, <1>4, <1>5, <1>6, <2>1, <2>2, <2>3, HttpAllocates
<1>8. CASE current # None /\ ~o.closed
  <2>1. /\ waiting' = c /\ observer' = o /\ current' = current /\ taken' = taken
        /\ page' = page /\ announced' = announced /\ spoilt' = spoilt
    BY <1>8 DEF ConnectionAccepted
  <2>2. observer \in Observers /\ current \in Connections /\ current \notin gone
    BY <1>8, CurrentIs
  <2>3. DOMAIN observer = ObserverFields /\ observer.idle \in BOOLEAN
    BY <2>2 DEF Observers, ObserverFields
  <2>4. o = [observer EXCEPT !.closeWhenIdle = TRUE, !.closed = observer.idle]
    BY DEF CloseWhenIdle
  <2> HIDE DEF o
  <2>5. /\ o.closed = observer.idle /\ o.closeWhenIdle = TRUE /\ o.idle = observer.idle
        /\ o.initialIdle = observer.initialIdle /\ o.buffer = observer.buffer
        /\ o.writer = observer.writer /\ o.requestInProgress = observer.requestInProgress
    BY <2>3, <2>4 DEF ObserverFields
  <2>6. observer.idle = FALSE
    BY <1>8, <2>3, <2>5, Zenon
  <2>7. o \in Observers
    BY <2>2, <2>4, <2>6 DEF Observers
  <2>8. ServerTypes'
    BY <1>1, <1>3, <1>5, <2>1, <2>7 DEF ServerTypes
  <2>9. ServingInv'
    <3>1. Undisturbed(current)' => Undisturbed(current)
      BY <1>3, <2>1 DEF Undisturbed
    <3>2. InOrder(observer, page) => InOrder(observer, page)'
      BY <2>1, <2>5 DEF InOrder
    <3> QED
      BY <1>1, <1>3, <2>1, <2>5, <3>1, <3>2 DEF ServingInv
  <2>10. current \notin gone'
    BY <1>3, <2>1, <2>2
  <2>11. PlacesInv' /\ WaitingIsExpected'
    BY <1>3, <1>6, <1>8, <2>1, <2>5, <2>6, <2>10 DEF PlacesInv, WaitingIsExpected
  <2>12. Len(observer'.buffer) <= BufferSize
    BY <2>1, <2>5 DEF HttpInv
  <2>13. \A d \in Connections : RightOn(d)'
    <3> SUFFICES ASSUME NEW d \in Connections
                 PROVE  RightOn(d)'
      OBVIOUS
    <3>1. RightOn(d)
      BY DEF HttpInv
    <3>2. Held(d)' = Held(d)
      BY <2>1, <2>5 DEF Held
    <3>3. Busy(d)' = Busy(d)
      BY <2>1, <2>5 DEF Busy
    <3>4. Undisturbed(d)' => Undisturbed(d)
      BY <1>3, <2>1 DEF Undisturbed
    <3> QED
      BY <1>3, <1>5, <3>1, <3>2, <3>3, <3>4 DEF RightOn, TrafficOf
  <2> QED
    BY <1>4, <2>8, <2>9, <2>11, <2>12, <2>13 DEF HttpInv
<1> QED
  BY <1>7, <1>8

(***************************************************************************)
(* The current connection is closed, or the server stops or is destroyed.  *)
(***************************************************************************)
LEMMA HttpCloses ==
    ASSUME HttpServerAssumption, HttpInv, Disconnect \/ Stop \/ Destroy
    PROVE  HttpInv'
<1>1. ServerTypes /\ ServingInv /\ ClientTypes /\ PlacesInv /\ WaitingIsExpected
  BY DEF HttpInv
<1>2. None \notin Connections
  BY DEF HttpServerAssumption
<1>3. /\ rest' = rest /\ asked' = asked /\ unread' = unread /\ answers' = answers
      /\ pages' = pages /\ pages' \in Nat
  BY <1>1 DEF Disconnect, Stop, Destroy, clients, ServerTypes
<1>4. ClientTypes' /\ OthersKept(current) /\ StillAnswered
  BY <1>3, NothingAnswered
<1>5. CASE Disconnect
  <2>1. /\ current # None /\ OnAllocatable(waiting, observer.buffer)
        /\ gone' = gone \cup {current} /\ stop' = stop
    BY <1>5 DEF Disconnect
  <2>2. /\ gone' \subseteq Connections /\ gone \subseteq gone' /\ current \in gone'
        /\ waiting \notin gone' /\ waiting \in Connections \cup {None}
    BY <1>1, <2>1 DEF ServerTypes, PlacesInv
  <2>3. observer.buffer \in Seq(FragmentKinds) /\ Len(observer.buffer) <= BufferSize
    BY <1>1 DEF HttpInv, ServerTypes, Observers
  <2> QED
    BY <1>3, <1>4, <2>1, <2>2, <2>3, HttpAllocates
<1>6. CASE Stop \/ Destroy
  <2>1. /\ waiting' = waiting /\ observer' = observer /\ spoilt' = spoilt
        /\ stop' \in {"idle", "serving", "destroyed"}
        /\ \/ /\ current' = None /\ page' = FALSE /\ taken' = FALSE /\ announced' = FALSE
              /\ gone' = gone \cup ({current} \ {None})
           \/ /\ current' = current /\ page' = page /\ taken' = taken /\ announced' = announced
              /\ gone' = gone
    BY <1>6 DEF Stop, Destroy
  <2>2. ServerTypes'
    BY <1>1, <1>3, <2>1 DEF ServerTypes
  <2>3. ServingInv'
    <3>1. Undisturbed(current)' => Undisturbed(current) \/ current' # current
      BY <1>3, <2>1 DEF Undisturbed
    <3>2. InOrder(observer, page) => InOrder(observer, page)' \/ current' = None
      BY <2>1 DEF InOrder
    <3> QED
      BY <1>1, <1>3, <2>1, <3>1, <3>2 DEF ServingInv
  <2>4. PlacesInv'
    BY <1>1, <1>2, <2>1 DEF PlacesInv, ServerTypes
  <2>5. WaitingIsExpected'
    BY <2>1 DEF WaitingIsExpected
  <2>6. Len(observer'.buffer) <= BufferSize
    BY <2>1 DEF HttpInv
  <2>7. \A d \in Connections : RightOn(d)'
    <3> SUFFICES ASSUME NEW d \in Connections
                 PROVE  RightOn(d)'
      OBVIOUS
    <3>1. RightOn(d) /\ (Undisturbed(d)' => Undisturbed(d))
      BY <1>3, <2>1 DEF HttpInv, Undisturbed
    <3>2. CASE d \in gone'
      BY <1>3, <3>1, <3>2 DEF RightOn, TrafficOf
    <3>3. CASE d \notin gone'
      <4>1. d \notin gone /\ (current' = current \/ (current' = None /\ d # current /\ d # None))
        BY <1>2, <2>1, <3>3
      <4>2. Held(d)' = Held(d)
        BY <2>1, <4>1 DEF Held
      <4>3. Busy(d)' = Busy(d)
        BY <2>1, <4>1 DEF Busy
      <4> QED
        BY <1>3, <3>1, <4>1, <4>2, <4>3 DEF RightOn, TrafficOf
    <3> QED
      BY <3>2, <3>3
  <2> QED
    BY <1>4, <2>2, <2>3, <2>4, <2>5, <2>6, <2>7 DEF HttpInv
<1> QED
  BY <1>5, <1>6

(***************************************************************************)
(* A client whose requests are answered begins another one, and TCP        *)
(* delivers the next fragment of it.                                       *)
(***************************************************************************)
LEMMA HttpClients ==
    ASSUME HttpServerAssumption, Polite, HttpInv, NEW c \in Connections,
           (\E r \in Requests : SendRequest(c, r)) \/ Transmit(c)
    PROVE  HttpInv'
<1> DEFINE b == Held(c)
           busy == Busy(c)
           u == unread[c]
           t == rest[c]
           q == asked[c]
           a == answers[c]
<1>1. ServerTypes /\ ServingInv /\ ClientTypes /\ PlacesInv /\ WaitingIsExpected
  BY DEF HttpInv
<1>2. c \notin gone
  BY <1>1 DEF SendRequest, Transmit, PlacesInv
<1>3. Undisturbed(c) => Underway(b, busy, u, t, q, a) /\ Answered(q, a)
  BY <1>2 DEF HttpInv, RightOn, TrafficOf
<1>4. busy \in BOOLEAN
  BY Zenon DEF Busy
<1>5. b \in Seq(FragmentKinds)
  <2>1. observer.buffer \in Seq(FragmentKinds) /\ <<>> \in Seq(FragmentKinds)
    BY <1>1 DEF ServerTypes, Observers
  <2> QED
    BY <2>1 DEF Held
<1>6. /\ u \in Seq(FragmentKinds) /\ t \in Seq(FragmentKinds)
      /\ q \in Seq(Requests) /\ a \in Seq(Answers)
  BY <1>1 DEF ClientTypes
<1>7. /\ current' = current /\ waiting' = waiting /\ stop' = stop /\ taken' = taken
      /\ observer' = observer /\ page' = page /\ answers' = answers /\ gone' = gone
      /\ pages' = pages /\ spoilt' = spoilt
  BY DEF SendRequest, Transmit, server
<1>8. /\ announced' \in BOOLEAN /\ (announced' => current # None)
      /\ ClientTypes' /\ OthersKept(c)
      /\ \A d \in Connections : d # c => rest'[d] = rest[d] /\ asked'[d] = asked[d]
      /\ Undisturbed(c) =>
            /\ Underway(b, busy, unread'[c], rest'[c], asked'[c], answers'[c])
            /\ Answered(asked'[c], answers'[c])
  <2>1. ASSUME NEW r \in Requests, SendRequest(c, r)
        PROVE  <1>8!:
    <3> DEFINE f == Fragments(r)
    <3>1. /\ rest' = [rest EXCEPT ![c] = t \o f] /\ asked' = [asked EXCEPT ![c] = Append(q, r)]
          /\ unread' = unread /\ announced' = announced /\ Len(a) = Len(q)
      BY <2>1 DEF SendRequest, server
    <3>2. r \in RequestKinds
      BY DEF HttpServerAssumption, RequestKinds
    <3>3. ASSUME Undisturbed(c)
          PROVE  Underway(b, busy, u, t \o f, Append(q, r), a) /\ Answered(Append(q, r), a)
      <4>1. Underway(b, busy, u, t, q, a) /\ Answered(q, a)
        BY <1>3, <3>3
      <4> HIDE DEF b, busy, u, t, q, a
      <4> QED
        BY <1>4, <1>6, <3>1, <3>2, <4>1, UnderwayRequest
    <3>4. f \in Seq(FragmentKinds)
      BY <3>2, FragmentsOf
    <3> HIDE DEF f, t, q
    <3>5. t \o f \in Seq(FragmentKinds) /\ Append(q, r) \in Seq(Requests)
      BY <1>6, <3>4
    <3>6. rest'[c] = t \o f /\ asked'[c] = Append(q, r)
      BY <1>1, <3>1 DEF ClientTypes
    <3>7. ClientTypes'
      BY <1>1, <1>7, <3>1, <3>5 DEF ClientTypes
    <3>8. /\ OthersKept(c)
          /\ \A d \in Connections : d # c => rest'[d] = rest[d] /\ asked'[d] = asked[d]
      BY <1>1, <1>7, <3>1 DEF ClientTypes, OthersKept
    <3>9. announced' \in BOOLEAN /\ (announced' => current # None)
      BY <1>1, <3>1 DEF ServerTypes, ServingInv
    <3> QED
      BY <1>7, <3>1, <3>3, <3>6, <3>7, <3>8, <3>9
  <2>2. ASSUME Transmit(c)
        PROVE  <1>8!:
    <3> DEFINE v == IF c = current /\ taken THEN u ELSE Append(u, Head(t))
    <3>1. /\ t # <<>> /\ rest' = [rest EXCEPT ![c] = Tail(t)] /\ asked' = asked
          /\ c \in {current, waiting}
      BY <2>2 DEF Transmit
    <3>2. ASSUME Undisturbed(c)
          PROVE  Underway(b, busy, v, Tail(t), q, a)
      <4>1. Underway(b, busy, u, t, q, a)
        BY <1>3, <3>2
      <4>2. ~busy /\ Underway(b, busy, Append(u, Head(t)), Tail(t), q, a)
        <5> HIDE DEF b, busy, u, t, q, a
        <5> QED
          BY <1>4, <1>5, <1>6, <3>1, <4>1, UnderwayTransmit
      <4>3. ~(c = current /\ taken)
        BY <1>1, <3>2, <4>2 DEF ServingInv, InOrder, Busy
      <4> QED
        BY <4>2, <4>3
    <3>3. unread' = [unread EXCEPT ![c] = v]
      BY <1>1, <2>2 DEF Transmit, ClientTypes
    <3>4. announced' = announced \/ announced' = (announced \/ c = current)
      BY <2>2 DEF Transmit
    <3>5. c # None
      BY DEF HttpServerAssumption
    <3>6. announced' \in BOOLEAN /\ (announced' => current # None)
      <4>1. announced \in BOOLEAN /\ (announced => current # None)
        BY <1>1 DEF ServingInv, ServerTypes
      <4>2. CASE announced' = announced
        BY <4>1, <4>2
      <4>3. CASE announced' = (announced \/ c = current)
        BY <3>5, <4>1, <4>3, Zenon
      <4> QED
        BY <3>4, <4>2, <4>3
    <3> HIDE DEF t, u
    <3>7. v \in Seq(FragmentKinds) /\ Tail(t) \in Seq(FragmentKinds)
      <4>1. Append(u, Head(t)) \in Seq(FragmentKinds) /\ Tail(t) \in Seq(FragmentKinds)
        BY <1>6, <3>1
      <4> QED
        BY <1>6, <4>1
    <3> HIDE DEF v
    <3>8. unread'[c] = v /\ rest'[c] = Tail(t)
      BY <1>1, <3>1, <3>3 DEF ClientTypes
    <3>9. ClientTypes'
      BY <1>1, <1>7, <3>1, <3>3, <3>7 DEF ClientTypes
    <3>10. /\ OthersKept(c)
           /\ \A d \in Connections : d # c => rest'[d] = rest[d] /\ asked'[d] = asked[d]
      BY <1>1, <1>7, <3>1, <3>3 DEF ClientTypes, OthersKept
    <3> QED
      BY <1>3, <1>7, <3>1, <3>2, <3>6, <3>8, <3>9, <3>10
  <2> QED
    BY <2>1, <2>2
<1>9. ServerTypes' /\ ServingInv' /\ PlacesInv' /\ WaitingIsExpected'
  <2>1. ServerTypes'
    BY <1>1, <1>7, <1>8 DEF ServerTypes
  <2>2. ServingInv'
    <3>1. Undisturbed(current)' => Undisturbed(current)
      BY <1>7 DEF Undisturbed
    <3>2. InOrder(observer, page) => InOrder(observer, page)'
      BY <1>7 DEF InOrder
    <3> QED
      BY <1>1, <1>7, <1>8, <3>1, <3>2 DEF ServingInv
  <2> QED
    BY <1>1, <1>7, <2>1, <2>2 DEF PlacesInv, WaitingIsExpected
<1>10. Len(observer'.buffer) <= BufferSize
  BY <1>7 DEF HttpInv
<1>11. ASSUME NEW d \in Connections
       PROVE  RightOn(d)'
  <2>1. RightOn(d) /\ (Undisturbed(d)' => Undisturbed(d))
    BY <1>7 DEF HttpInv, Undisturbed
  <2>2. Held(d)' = Held(d)
    BY <1>7 DEF Held
  <2>3. Busy(d)' = Busy(d)
    BY <1>7 DEF Busy
  <2>4. CASE d = c
    BY <1>8, <2>1, <2>2, <2>3, <2>4 DEF RightOn, TrafficOf
  <2>5. CASE d # c
    BY <1>7, <1>8, <2>1, <2>2, <2>3, <2>5 DEF RightOn, TrafficOf, OthersKept
  <2> QED
    BY <2>4, <2>5
<1> QED
  BY <1>8, <1>9, <1>10, <1>11 DEF HttpInv

(***************************************************************************)
(* Nothing is served in the beginning.                                     *)
(***************************************************************************)
LEMMA HttpBegins == HttpServerAssumption /\ Init => HttpInv
<1> SUFFICES ASSUME HttpServerAssumption, Init
             PROVE  HttpInv
  OBVIOUS
<1>1. /\ current = None /\ waiting = None /\ stop = "no" /\ taken = FALSE
      /\ observer = ConnectedObserver(<<>>) /\ page = FALSE /\ announced = FALSE
      /\ rest = [c \in Connections |-> <<>>] /\ unread = rest
      /\ asked = rest /\ answers = rest /\ gone = {} /\ spoilt = {} /\ pages = 0
  BY DEF Init
<1>2. /\ observer \in Observers /\ observer.buffer = <<>>
      /\ observer.requestInProgress = FALSE
  <2>1. <<>> \in Seq(FragmentKinds)
    OBVIOUS
  <2> QED
    BY <1>1, <2>1, ConnectedIs
<1>3. Len(<<>>) <= BufferSize /\ Len(<<>>) = 0
  BY DEF HttpServerAssumption
<1>4. ServerTypes
  BY <1>1, <1>2 DEF ServerTypes
<1>5. ClientTypes
  <2>1. <<>> \in Seq(FragmentKinds) /\ <<>> \in Seq(Requests) /\ <<>> \in Seq(Answers)
    OBVIOUS
  <2> QED
    BY <1>1, <2>1 DEF ClientTypes
<1>6. ServingInv /\ PlacesInv /\ WaitingIsExpected
  BY <1>1, <1>2 DEF ServingInv, PlacesInv, WaitingIsExpected
<1>7. ASSUME NEW c \in Connections
      PROVE  RightOn(c)
  <2>1. rest[c] = <<>> /\ unread[c] = <<>> /\ asked[c] = <<>> /\ answers[c] = <<>>
    BY <1>1
  <2>2. Held(c) = <<>> /\ ~Busy(c)
    BY <1>2 DEF Held, Busy
  <2>3. Underway(Held(c), Busy(c), <<>>, <<>>, <<>>, <<>>)
    BY <1>3, <2>2 DEF Underway
  <2>4. Answered(<<>>, <<>>)
    BY <1>3 DEF Answered
  <2> QED
    BY <2>1, <2>3, <2>4 DEF RightOn, TrafficOf
<1> QED
  BY <1>2, <1>3, <1>4, <1>5, <1>6, <1>7 DEF HttpInv

(***************************************************************************)
(* Every step of the server and of clients that wait for their answers.    *)
(***************************************************************************)
LEMMA HttpNext ==
    ASSUME HttpServerAssumption, Polite, RequestsFit, HttpInv, [Next]_vars
    PROVE  HttpInv'
<1>1. CASE DataReceived \/ SendStreamAvailable \/ InitialIdle
  BY <1>1, HttpEvents
<1>2. CASE PageAnswers \/ PageAnswersLate \/ TakeOverConnection
  BY <1>2, HttpPages
<1>3. CASE \E c \in Connections : ConnectionAccepted(c)
  BY <1>3, HttpAccepts
<1>4. CASE Disconnect \/ Stop \/ Destroy
  BY <1>4, HttpCloses
<1>5. CASE \E c \in Connections : Transmit(c) \/ \E r \in Requests : SendRequest(c, r)
  BY <1>5, HttpClients
<1>6. CASE UNCHANGED vars
  <2>1. /\ current' = current /\ waiting' = waiting /\ stop' = stop /\ taken' = taken
        /\ observer' = observer /\ page' = page /\ announced' = announced
        /\ rest' = rest /\ unread' = unread /\ asked' = asked /\ answers' = answers
        /\ gone' = gone /\ pages' = pages /\ spoilt' = spoilt
    BY <1>6 DEF vars, server, clients
  <2>2. ServerTypes' /\ ClientTypes' /\ Len(observer'.buffer) <= BufferSize
    BY <2>1 DEF HttpInv, ServerTypes, ClientTypes
  <2>3. ServingInv' /\ PlacesInv' /\ WaitingIsExpected'
    BY <2>1 DEF HttpInv, ServingInv, PlacesInv, WaitingIsExpected, InOrder, Undisturbed
  <2>4. \A c \in Connections : RightOn(c)'
    BY <2>1 DEF HttpInv, RightOn, TrafficOf, Held, Busy, Undisturbed
  <2> QED
    BY <2>2, <2>3, <2>4 DEF HttpInv
<1> QED
  BY <1>1, <1>2, <1>3, <1>4, <1>5, <1>6 DEF Next

(***************************************************************************)
(* Over each connection of clients that wait for their answers, every      *)
(* request gets exactly one answer, its own, in order, however TCP cuts    *)
(* and glues the data, and a page that works on a request has a stream to  *)
(* answer on, as long as the connection is undisturbed: its observer did   *)
(* not begin with what another connection left in the buffer, and no page  *)
(* of another connection has answered on it.  Disturbed or not, the buffer *)
(* is never overrun, and a connection that waits is expected by the one    *)
(* that is served.  Clients that do not wait and requests that are far too *)
(* long are excluded: a second request is then read with, or instead of,   *)
(* the rest of the first.                                                  *)
(***************************************************************************)
THEOREM HttpIsSafe == Polite /\ RequestsFit /\ Spec /\ [](subject = "http") => []HttpSafe
<1>1. HttpInv /\ subject = "http" => HttpSafe
  <2> SUFFICES ASSUME HttpInv, subject = "http"
               PROVE  HttpSafe
    OBVIOUS
  <2>1. ServerTypes /\ ClientTypes /\ ServingInv /\ WaitingIsExpected
    BY DEF HttpInv
  <2>2. TypeOK
    <3> DEFINE b == observer.buffer
               l == Len(b)
               bounded == UNION {[1..n -> FragmentKinds] : n \in 0..BufferSize}
    <3>1. observer \in Observers /\ l <= BufferSize /\ b \in Seq(FragmentKinds)
      BY <2>1 DEF HttpInv, ServerTypes, Observers
    <3>2. b \in [1..l -> FragmentKinds] /\ l \in Nat
      BY <3>1
    <3>3. l \in 0..BufferSize
      <4>1. BufferSize \in Nat
        BY HttpServerAssumption
      <4> HIDE DEF l
      <4> QED
        BY <3>1, <3>2, <4>1
    <3>4. b \in bounded
      <4> HIDE DEF b, l
      <4> QED
        BY <3>2, <3>3
    <3>5. observer \in
            [writer : {"none", "requested", "open"}, buffer : bounded,
             idle : BOOLEAN, closeWhenIdle : BOOLEAN, requestInProgress : BOOLEAN,
             send100 : BOOLEAN, initialIdle : BOOLEAN, closed : {FALSE}]
      <4> HIDE DEF bounded, l
      <4> QED
        BY <3>1, <3>4 DEF Observers
    <3>6. {taken, page, announced} \subseteq BOOLEAN
      BY <2>1 DEF ServerTypes
    <3> QED
      BY <2>1, <3>5, <3>6 DEF TypeOK, ServerTypes, ClientTypes
  <2>3. EachRequestItsAnswer
    <3> SUFFICES ASSUME NEW c \in Connections, Undisturbed(c)
                 PROVE  /\ Len(answers[c]) <= Len(asked[c])
                        /\ \A i \in DOMAIN answers[c] :
                              answers[c][i].kind = Expected(asked[c][i])
      BY DEF EachRequestItsAnswer
    <3>1. Answered(asked[c], answers[c]) /\ answers[c] \in Seq(Answers)
      BY <2>1 DEF HttpInv, RightOn, ClientTypes
    <3>2. DOMAIN answers[c] = 1 .. Len(answers[c])
      BY <3>1
    <3> QED
      BY <3>1, <3>2 DEF Answered
  <2>4. PageHasStream
    BY <2>1 DEF ServingInv, InOrder, PageHasStream
  <2> QED
    BY <2>1, <2>2, <2>3, <2>4 DEF HttpSafe
<1>2. Init => HttpInv
  BY HttpServerAssumption, HttpBegins
<1>3. Polite /\ RequestsFit /\ HttpInv /\ [Next]_vars => HttpInv'
  BY HttpServerAssumption, HttpNext
<1>4. Polite /\ RequestsFit => [](Polite /\ RequestsFit)
  OBVIOUS
<1> QED
  BY <1>1, <1>2, <1>3, <1>4, PTL DEF Spec

(***************************************************************************)
(* As long as a page works on a request of an undisturbed connection,      *)
(* neither another connection nor the initial idle timer closes it.        *)
(***************************************************************************)
THEOREM BusyIsNotClosed == Polite /\ RequestsFit /\ Spec => NotClosedWhenBusy
<1>1. HttpInv /\ [Next]_vars => [BusyStays]_vars
  <2> SUFFICES ASSUME HttpInv, page, Undisturbed(current),
                      InitialIdle \/ \E c \in Connections : ConnectionAccepted(c)
               PROVE  current' = current
    BY DEF BusyStays
  <2>1. ServingInv /\ ServerTypes
    BY DEF HttpInv
  <2>2. /\ current # None /\ observer.requestInProgress
        /\ ~observer.idle /\ ~observer.initialIdle
    BY <2>1 DEF ServingInv, InOrder
  <2>3. PICK c \in Connections : ConnectionAccepted(c)
    BY <2>2 DEF InitialIdle
  <2>4. CloseWhenIdle(observer).closed = observer.idle
    <3>1. DOMAIN observer = ObserverFields
      BY <2>1 DEF ServerTypes, Observers, ObserverFields
    <3> QED
      BY <3>1 DEF CloseWhenIdle, ObserverFields
  <2> QED
    BY <2>2, <2>3, <2>4 DEF ConnectionAccepted
<1>2. Init => HttpInv
  BY HttpServerAssumption, HttpBegins
<1>3. Polite /\ RequestsFit /\ HttpInv /\ [Next]_vars => HttpInv'
  BY HttpServerAssumption, HttpNext
<1>4. Polite /\ RequestsFit => [](Polite /\ RequestsFit)
  OBVIOUS
<1> QED
  BY <1>1, <1>2, <1>3, <1>4, PTL DEF Spec, NotClosedWhenBusy
=============================================================================
