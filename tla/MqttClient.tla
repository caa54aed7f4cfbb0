----------------------------- MODULE MqttClient -----------------------------
(***************************************************************************)
(* MqttClientConnectorImpl and MqttClientImpl                              *)
(* (services/network/MqttClientImpl.cpp): a client asks for a connection   *)
(* to a broker, the connector makes a TCP connection, sends Connect and    *)
(* waits a minute for ConAck; then the client publishes messages, one at a *)
(* time, each of which the broker acknowledges with PubAck before the      *)
(* publish timeout.  The broker may answer late, in pieces, with something *)
(* else, or not at all, and the TCP connection may break at any moment.    *)
(***************************************************************************)
EXTENDS Integers, Sequences

CONSTANTS
    MaxConnects,    \* bound on the number of calls of Connect
    MaxPublishes,   \* bound on the number of calls of Publish
    Defers,         \* the factory may keep createdClientObserver for later
    Retries         \* ConnectionFailed may call Connect again at once

MqttAssumption ==
    /\ MaxConnects \in Nat /\ MaxPublishes \in Nat
    /\ Defers \in BOOLEAN /\ Retries \in BOOLEAN

VARIABLES
    tcp,        \* "none", "pending" (connectionFactory.Connect) or "open"
    state,      \* the state of MqttClientImpl; "none": client is allocatable
    timeout,    \* the timer of StateConnecting runs
    publishTimeout, \* the timer of StateConnected runs
    stream,     \* a send stream was requested and is not yet available
    publish,    \* "none", "requested", "sent": the message being published
    deferred,   \* the factory holds createdClientObserver
    told,       \* what the factory was told since the last Connect
    connects,   \* calls of Connect
    publishes,  \* calls of Publish
    done,       \* calls of PublishDone
    toBroker,   \* packets under way to the broker
    fromBroker, \* halves of packets under way to the client
    unread,     \* halves of packets that arrived and are not acknowledged
    announced,  \* a DataReceived event is scheduled
    asserted    \* assert(client.Allocatable()) of Connect failed

connection == <<tcp, stream, toBroker, fromBroker, unread, announced>>
client == <<state, timeout, publishTimeout, publish, deferred>>
history == <<told, connects, publishes, done, asserted>>
vars == <<connection, client, history>>

-----------------------------------------------------------------------------
(* The connector.                                                          *)
StartConnect ==
    /\ tcp' = "pending" /\ told' = <<>> /\ connects' = connects + 1

Connect ==
    /\ tcp = "none" /\ state = "none" /\ connects < MaxConnects
    /\ StartConnect
    /\ UNCHANGED <<stream, toBroker, fromBroker, unread, announced, client,
                   publishes, done, asserted>>

CancelConnect ==
    /\ tcp = "pending"
    /\ tcp' = "none" /\ told' = <<"cancelled">>
    /\ UNCHANGED <<stream, toBroker, fromBroker, unread, announced, client,
                   connects, publishes, done, asserted>>

(* The client is constructed in StateConnecting, attached to the           *)
(* connection and Connected, which requests a stream for the Connect       *)
(* packet.                                                                 *)
ConnectionEstablished ==
    /\ tcp = "pending"
    /\ tcp' = "open" /\ stream' = TRUE /\ announced' = FALSE
    /\ toBroker' = <<>> /\ fromBroker' = <<>> /\ unread' = <<>>
    /\ state' = "connecting" /\ timeout' = TRUE
    /\ UNCHANGED <<publishTimeout, publish, deferred, history>>

(* The factory is told that the connection failed, and may connect again   *)
(* there and then; `allocatable' says whether the client is free by then.  *)
TellFailed(allocatable) ==
    \/ /\ told' = Append(told, "failed")
       /\ tcp' = "none" /\ UNCHANGED <<connects, asserted>>
    \/ /\ Retries /\ connects < MaxConnects
       /\ StartConnect /\ asserted' = (asserted \/ ~allocatable)

ConnectionFailed ==
    /\ tcp = "pending"
    /\ TellFailed(TRUE)
    /\ UNCHANGED <<stream, toBroker, fromBroker, unread, announced, client,
                   publishes, done>>

-----------------------------------------------------------------------------
(* The client.  ResetOwnership: the client is destroyed with its timers,   *)
(* after ClosingConnection has told whoever is concerned.                  *)
ResetOwnership ==
    /\ state' = "none" /\ timeout' = FALSE /\ publishTimeout' = FALSE
    /\ publish' = "none" /\ deferred' = FALSE
    /\ stream' = FALSE /\ announced' = FALSE
    /\ toBroker' = <<>> /\ fromBroker' = <<>> /\ unread' = <<>>

(* StateConnecting::ClosingConnection without signaledFailure.             *)
ConnectingClosed == TellFailed(FALSE)

(* StateConnected::ClosingConnection tells the observer.                   *)
ConnectedClosed == tcp' = "none" /\ UNCHANGED <<told, connects, asserted>>

ClosingConnection ==
    IF state = "connecting" THEN ConnectingClosed ELSE ConnectedClosed

AbortAndDestroy ==
    /\ ClosingConnection /\ ResetOwnership
    /\ UNCHANGED <<publishes, done>>

(* The connection breaks, or the broker closes it.                         *)
Disconnect ==
    /\ tcp = "open" /\ AbortAndDestroy

(* StateConnecting::Timeout sets signaledFailure, tells the factory        *)
(* itself, and aborts.                                                     *)
Timeout ==
    /\ timeout
    /\ TellFailed(FALSE) /\ ResetOwnership
    /\ UNCHANGED <<publishes, done>>

PublishTimeout ==
    /\ publishTimeout /\ AbortAndDestroy

(* Mutant: the timer of the publication is not started.                    *)
SendsUntimed ==
    /\ toBroker' = Append(toBroker, "publish")
    /\ publish' = "sent" /\ UNCHANGED publishTimeout

(* StateConnected::SendStreamAvailable.                                    *)
SendsPublish ==
    /\ toBroker' = Append(toBroker, "publish")
    /\ publish' = "sent" /\ publishTimeout' = TRUE

(* StateConnecting::SendStreamAvailable.                                   *)
SendsConnect ==
    /\ toBroker' = Append(toBroker, "connect")
    /\ UNCHANGED <<publish, publishTimeout>>

SendStreamAvailable ==
    /\ stream
    /\ stream' = FALSE
    /\ IF state = "connecting" THEN SendsConnect ELSE SendsPublish
    /\ UNCHANGED <<tcp, fromBroker, unread, announced, state, timeout, deferred, history>>

(* Publish requests a stream.  Clients publish one message at a time, and  *)
(* may do so in the callbacks Connected and PublishDone.                   *)
Publishes ==
    /\ publishes < MaxPublishes
    /\ publishes' = publishes + 1 /\ publish' = "requested" /\ stream' = TRUE

NoPublish == publish' = "none" /\ UNCHANGED <<publishes, stream>>

Publish ==
    /\ state = "connected" /\ publish = "none"
    /\ Publishes
    /\ UNCHANGED <<tcp, toBroker, fromBroker, unread, announced, state, timeout,
                   publishTimeout, deferred, told, connects, done, asserted>>

(* createdClientObserver with an observer: the client goes to              *)
(* StateConnected, which destroys the timer with the old state; what is    *)
(* left of the data is looked at again, but holds no PubAck as nothing was *)
(* published yet.                                                          *)
ObserverCreated ==
    /\ state' = "connected" /\ timeout' = FALSE /\ deferred' = FALSE
    /\ Publishes \/ NoPublish
    /\ UNCHANGED <<tcp, toBroker, fromBroker, publishTimeout>>

(* createdClientObserver without an observer: signaledFailure is set, so   *)
(* that the abort does not tell the factory.                               *)
ObserverRefused ==
    /\ tcp' = "none" /\ told' = Append(told, "established")
    /\ ResetOwnership
    /\ UNCHANGED publishes

AckPacket == unread' = SubSeq(unread, 3, Len(unread)) /\ announced' = FALSE

(* StateConnecting::DataReceived.                                          *)
ReceiveConAck ==
    IF unread[1] = "conack"
    THEN \/ ObserverCreated /\ AckPacket /\ told' = Append(told, "established")
            /\ UNCHANGED <<connects, done, asserted>>
         \/ ObserverRefused /\ UNCHANGED <<connects, done, asserted>>
         \/ /\ Defers /\ deferred' = TRUE /\ told' = Append(told, "established")
            /\ AckPacket
            /\ UNCHANGED <<tcp, stream, toBroker, fromBroker, state, timeout,
                           publishTimeout, publish, publishes, connects, done, asserted>>
    ELSE AbortAndDestroy

(* The factory calls the function it kept.                                 *)
CreateObserverLater ==
    /\ deferred
    /\ ObserverCreated
    /\ UNCHANGED <<unread, announced, told, connects, done, asserted>>

(* Mutant: the timeout of the publication is left running.                 *)
ReceivePubAckTimed ==
    IF unread[1] = "puback"
    THEN /\ done' = done + 1 /\ AckPacket
         /\ Publishes \/ NoPublish
         /\ UNCHANGED <<tcp, toBroker, fromBroker, state, timeout, publishTimeout,
                        deferred, told, connects, asserted>>
    ELSE /\ announced' = FALSE
         /\ UNCHANGED <<tcp, stream, toBroker, fromBroker, unread, client, history>>

(* StateConnected::DataReceived: other packets stay, unacknowledged, in    *)
(* front of what follows.                                                  *)
ReceivePubAck ==
    IF unread[1] = "puback"
    THEN /\ publishTimeout' = FALSE /\ done' = done + 1 /\ AckPacket
         /\ Publishes \/ NoPublish
         /\ UNCHANGED <<tcp, toBroker, fromBroker, state, timeout,
                        deferred, told, connects, asserted>>
    ELSE /\ announced' = FALSE
         /\ UNCHANGED <<tcp, stream, toBroker, fromBroker, unread, client, history>>

(* Half a packet makes the stream fail, and is left for the next time.     *)
DataReceived ==
    /\ announced
    /\ IF Len(unread) < 2
       THEN /\ announced' = FALSE
            /\ UNCHANGED <<tcp, stream, toBroker, fromBroker, unread, client, history>>
       ELSE IF state = "connecting" THEN ReceiveConAck ELSE ReceivePubAck

-----------------------------------------------------------------------------
(* External: the broker acknowledges, answers something else, or is        *)
(* silent; TCP delivers its packets in halves.  As MQTT demands, it sends  *)
(* at most one packet for each that it gets, and none that is not asked    *)
(* for: StateConnected::DataReceived would take any PubAck for that of the *)
(* message in progress.                                                    *)
Replies(packet) ==
    {<<>>, <<"other", "other">>,
     IF packet = "connect" THEN <<"conack", "conack">> ELSE <<"puback", "puback">>}

BrokerReceives ==
    /\ toBroker # <<>>
    /\ \E r \in Replies(Head(toBroker)) : fromBroker' = fromBroker \o r
    /\ toBroker' = Tail(toBroker)
    /\ UNCHANGED <<tcp, stream, unread, announced, client, history>>

Arrive ==
    /\ fromBroker # <<>>
    /\ unread' = Append(unread, Head(fromBroker)) /\ fromBroker' = Tail(fromBroker)
    /\ announced' = TRUE
    /\ UNCHANGED <<tcp, stream, toBroker, client, history>>

-----------------------------------------------------------------------------
Init ==
    /\ tcp = "none" /\ state = "none" /\ timeout = FALSE /\ publishTimeout = FALSE
    /\ stream = FALSE /\ publish = "none" /\ deferred = FALSE
    /\ told = <<>> /\ connects = 0 /\ publishes = 0 /\ done = 0
    /\ toBroker = <<>> /\ fromBroker = <<>> /\ unread = <<>>
    /\ announced = FALSE /\ asserted = FALSE

Next ==
    \/ Connect \/ CancelConnect \/ ConnectionEstablished \/ ConnectionFailed
    \/ Disconnect \/ Timeout \/ PublishTimeout
    \/ SendStreamAvailable \/ Publish \/ DataReceived \/ CreateObserverLater
    \/ BrokerReceives \/ Arrive

Spec == Init /\ [][Next]_vars

(* The connection factory ends every attempt, the connection offers the    *)
(* stream, timers fire, and scheduled events run; the broker owes nothing. *)
FairSpec ==
    /\ Spec
    /\ WF_vars(ConnectionEstablished \/ ConnectionFailed)
    /\ WF_vars(SendStreamAvailable) /\ WF_vars(DataReceived)
    /\ WF_vars(Timeout) /\ WF_vars(PublishTimeout)

-----------------------------------------------------------------------------
Halves == {"conack", "puback", "other"}

(* Type invariant; at most one packet is left in the receive buffer.       *)
TypeOK ==
    /\ tcp \in {"none", "pending", "open"}
    /\ state \in {"none", "connecting", "connected"}
    /\ timeout \in BOOLEAN /\ publishTimeout \in BOOLEAN /\ stream \in BOOLEAN
    /\ deferred \in BOOLEAN /\ announced \in BOOLEAN /\ asserted \in BOOLEAN
    /\ publish \in {"none", "requested", "sent"}
    /\ told \in Seq({"established", "failed", "cancelled"})
    /\ connects \in 0..MaxConnects /\ publishes \in 0..MaxPublishes /\ done \in Nat
    /\ toBroker \in Seq({"connect", "publish"})
    /\ fromBroker \in Seq(Halves) /\ unread \in Seq(Halves) /\ Len(unread) <= 2

(* "The factory already got a ConnectionEstablished, so it should not get  *)
(* a ConnectionFailed" (MqttClientImpl.cpp:203): whatever ends the         *)
(* connection, and when, each Connect is answered at most once.            *)
ToldOnce == Len(told) <= 1

(* Nobody waits for the broker without a timer, and no timer of something  *)
(* that has ended runs on: it would abort a healthy connection.            *)
WaitsWithTimer ==
    /\ timeout <=> state = "connecting"
    /\ publishTimeout <=> publish = "sent"
    /\ publish = "requested" => stream
    /\ state = "none" => ~stream /\ publish = "none"

(* PublishDone is called once for each message that was acknowledged, and  *)
(* never for one that is waiting for its stream.                           *)
DoneWhenSent ==
    /\ done <= publishes
    /\ publish # "none" => done < publishes
    /\ (publish = "requested" => \A i \in DOMAIN unread : unread[i] # "puback")

(* What the client promises to a factory that creates the observer at once.*)
MqttSafe == TypeOK /\ ToldOnce /\ WaitsWithTimer /\ DoneWhenSent

(* Every Connect that is not cancelled is answered.                        *)
EveryConnectEnds == connects > 0 /\ told = <<>> ~> told # <<>>

(* Every Publish ends with PublishDone or with ClosingConnection.          *)
EveryPublishEnds == publish # "none" ~> publish = "none"

(* `assert(client.Allocatable());' (MqttClientImpl.cpp:274): a factory     *)
(* that is told that the connection failed can connect again.              *)
CanConnectAgain == ~asserted
=============================================================================
