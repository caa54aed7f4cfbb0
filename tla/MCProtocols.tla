---------------------------- MODULE MCProtocols ----------------------------
(***************************************************************************)
(* The HTTP server and the MQTT client, side by side for TLC.  A behaviour *)
(* is about one subject, and the other one stays where it begins:          *)
(*   "http"      two connections, pages that take them over or answer when *)
(*               they are gone, requests that are too long;                *)
(*   "serving"   three connections of one request each, and pages that     *)
(*               answer;                                                   *)
(*   "mqtt"      a factory that connects again as soon as it is told that  *)
(*               a connection failed;                                      *)
(*   "patient"   a factory that keeps the function that creates the        *)
(*               observer, and does not connect again at once.             *)
(***************************************************************************)
EXTENDS HttpServer

CONSTANTS
    ThirdConnection,
    Retries, MaxConnects, MaxPublishes       \* of MqttClient

VARIABLES
    subject,
    tcp, state, timeout, publishTimeout, stream, publish, deferred, told, connects,
    publishes, done, toBroker, fromBroker, received, dataReceived, asserted

Serving == INSTANCE HttpServer
    WITH Connections <- Connections \cup {ThirdConnection}, Requests <- {"get", "bad", "post"},
         BufferSize <- 1, MaxRequests <- 1, TakesOver <- FALSE, LateAnswers <- FALSE

Mqtt == INSTANCE MqttClient
    WITH unread <- received, announced <- dataReceived, Defers <- FALSE
PatientMqtt == INSTANCE MqttClient
    WITH unread <- received, announced <- dataReceived, Defers <- TRUE, Retries <- FALSE,
         MaxConnects <- 2, MaxPublishes <- 2

ASSUME ConnectionsAssumption == ThirdConnection \notin Connections
ASSUME ClientAssumption == Mqtt!MqttAssumption

mqttVars == <<tcp, state, timeout, publishTimeout, stream, publish, deferred, told, connects,
              publishes, done, toBroker, fromBroker, received, dataReceived, asserted>>

ProtocolsInit ==
    /\ \/ subject \in {"http", "mqtt", "patient"} /\ Init
       \/ subject = "serving" /\ Serving!Init
    /\ Mqtt!Init

ProtocolsNext ==
    \/ subject = "http" /\ Next /\ UNCHANGED <<subject, mqttVars>>
    \/ subject = "serving" /\ Serving!Next /\ UNCHANGED <<subject, mqttVars>>
    \/ subject = "mqtt" /\ Mqtt!Next /\ UNCHANGED <<subject, vars>>
    \/ subject = "patient" /\ PatientMqtt!Next /\ UNCHANGED <<subject, vars>>

\* The fairness that each component states, where it is served
ProtocolsSpec ==
    /\ ProtocolsInit /\ [][ProtocolsNext]_<<subject, vars, mqttVars>>
    /\ WF_vars(subject = "serving" /\ Serving!SendStreamAvailable)
    /\ WF_vars(subject = "serving" /\ Serving!DataReceived)
    /\ WF_vars(subject = "serving" /\ Serving!InitialIdle)
    /\ WF_vars(subject = "serving" /\ Serving!PageAnswers)
    /\ \A c \in Connections \cup {ThirdConnection} :
           WF_vars(subject = "serving" /\ Serving!Transmit(c))
    /\ WF_mqttVars(/\ subject = "patient"
                   /\ PatientMqtt!ConnectionEstablished \/ PatientMqtt!ConnectionFailed)
    /\ WF_mqttVars(subject = "patient" /\ PatientMqtt!SendStreamAvailable)
    /\ WF_mqttVars(subject = "patient" /\ PatientMqtt!DataReceived)
    /\ WF_mqttVars(subject = "patient" /\ PatientMqtt!Timeout)
    /\ WF_mqttVars(subject = "patient" /\ PatientMqtt!PublishTimeout)

-----------------------------------------------------------------------------
\* HttpServer: whoever waits is expected and, on a connection to which others
\* have left neither part of a request nor a page that answers late, a page has
\* a stream to answer on and every request gets its own answer, however TCP
\* cuts and glues them.
HttpSafe ==
    /\ subject = "http" => TypeOK /\ EachRequestItsAnswer
    /\ subject = "serving" => Serving!TypeOK /\ Serving!EachRequestItsAnswer
    /\ WaitingIsExpected
    /\ PageHasStream

\* MqttClient: the factory is told once how each Connect ended, nobody waits
\* for the broker without a timer and no timer outlives what it is for, and
\* PublishDone is called for what the broker has acknowledged.
MqttSafe == Mqtt!TypeOK /\ (subject = "mqtt" => Mqtt!MqttSafe)

\* HTTP connections that wait are served and their requests answered; every
\* Connect and every Publish of the MQTT client ends, whatever the broker does.
EveryoneServed ==
    /\ subject = "serving" => Serving!EveryConnectionServed /\ Serving!EveryRequestAnswered
    /\ subject = "patient" => PatientMqtt!EveryConnectEnds /\ PatientMqtt!EveryPublishEnds
=============================================================================
