----------------- MODULE ConnectionFactoryWithNameResolver -----------------
(***************************************************************************)
(* ConnectionFactoryWithNameResolverImpl on top of a NameResolver and of   *)
(* ConnectionFactoryLwIp: a client names a host; an Action looks the name  *)
(* up and then connects to the address.  There is room for a number of     *)
(* Actions; clients that find none wait in a list.                         *)
(*                                                                         *)
(* Of the resolver only what NameResolver promises is used: a lookup that  *)
(* is pending ends with an address or without one, unless it is cancelled. *)
(* A callback may make the client connect again, or another one.           *)
(***************************************************************************)
EXTENDS Naturals, Sequences, SequencesExt, FiniteSets, ConnectionFactoryLwIp

CONSTANTS
    Clients,            \* ClientConnectionObserverFactoryWithNameResolver objects
    NumParallelActions, \* the room in actions
    MaxConnects,        \* bound on the calls of Connect
    CancelsActions,     \* whether clients cancel when an Action is at work
    AllocationFails,    \* whether there may be no room for a ConnectionLwIp
    None

ClientsAssumption == None \notin Clients
RoomAssumption == NumParallelActions \in Nat \ {0} /\ NumConnectors \in Nat \ {0}
MaxConnectsAssumption == MaxConnects \in Nat
CancelsAssumption == CancelsActions \in BOOLEAN
AllocationAssumption == AllocationFails \in BOOLEAN

VARIABLES
    factory,        \* the factories and the lookups that are pending
    connects        \* calls of Connect so far

vars == <<factory, connects>>

\* The places that Actions are in: the factories that ConnectionFactoryLwIp
\* sees and the results that the resolver sees
Places == 1 .. NumParallelActions

(***************************************************************************)
(* The type of the state.  wanted are the clients that have called Connect *)
(* and were neither told the outcome nor have cancelled; unwanted tells    *)
(* that another one was told an outcome.                                   *)
(***************************************************************************)
Actions == [place : Places, client : Clients, connecting : BOOLEAN]

Factories == [waitingActions : Seq(Clients), actions : Seq(Actions),
              waitingConnectors : Seq(Places), connectors : Seq(Places),
              lookups : SUBSET Places, wanted : SUBSET Clients, unwanted : BOOLEAN,
              fault : SUBSET {"not found", "not waiting", "null control", "connector gone"}]

TypeOK ==
    /\ factory \in Factories
    /\ Len(factory.actions) <= NumParallelActions
    /\ Len(factory.connectors) <= NumConnectors
    /\ connects \in 0 .. MaxConnects

Init ==
    /\ factory = [waitingActions |-> << >>, actions |-> << >>,
                  waitingConnectors |-> << >>, connectors |-> << >>,
                  lookups |-> {}, wanted |-> {}, unwanted |-> FALSE, fault |-> {}]
    /\ connects = 0

-----------------------------------------------------------------------------
(* The parts of the handlers *)

FreePlace(f) == CHOOSE place \in Places : \A i \in DOMAIN f.actions : f.actions[i].place /= place

\* The constructor of an Action starts the lookup.
CheckNameLookup(f) ==
    IF f.waitingActions /= << >> /\ Len(f.actions) < NumParallelActions
    THEN [f EXCEPT !.actions = Append(@, [place |-> FreePlace(f), connecting |-> FALSE,
                                          client |-> Head(f.waitingActions)]),
                   !.lookups = @ \cup {FreePlace(f)},
                   !.waitingActions = Tail(@)]
    ELSE f

ConnectWithName(f, client) ==
    CheckNameLookup([f EXCEPT !.waitingActions = Append(@, client),
                              !.wanted = @ \cup {client}])

ActionIsDone(f, place) ==
    LET i == CHOOSE i \in DOMAIN f.actions : f.actions[i].place = place
    IN CheckNameLookup([f EXCEPT !.actions = RemoveAt(@, i)])

ClientOf(f, place) ==
    (CHOOSE action \in ToSet(f.actions) : action.place = place).client

\* NameLookupFailed, ConnectionEstablished and ConnectionFailed of an Action:
\* the client's callback comes last and may lead to another Connect.
Tells(f, place, again) ==
    LET client == ClientOf(f, place)
        told == [ActionIsDone(f, place) EXCEPT !.wanted = @ \ {client},
                                               !.unwanted = @ \/ client \notin f.wanted]
    IN IF again = None THEN told ELSE ConnectWithName(told, again)

\* Mutant: the lookup is not cancelled.
RemoveConnectingOnly(f, action) ==
    IF action.connecting THEN CancelConnect(f, action.place) ELSE f

\* Action::Remove; the Action stays in actions.  A resolver asserts that a
\* lookup that is cancelled is pending.
RemoveAction(f, action) ==
    CASE action.connecting -> CancelConnect(f, action.place)
      [] ~action.connecting /\ action.place \in f.lookups ->
            [f EXCEPT !.lookups = @ \ {action.place}]
      [] OTHER -> [f EXCEPT !.fault = @ \cup {"not waiting"}]

\* The first Action of a client
ActionOf(f, client) ==
    f.actions[CHOOSE i \in DOMAIN f.actions :
                  /\ f.actions[i].client = client
                  /\ \A j \in 1 .. i - 1 : f.actions[j].client /= client]

-----------------------------------------------------------------------------
(* The handlers *)

\* A failed assertion ends the program.  So does the use of a connector that
\* is gone, of which nothing can be said.
Alive == factory.fault \cap {"not found", "not waiting", "connector gone"} = {}

Connects(client) ==
    /\ Alive
    /\ client \notin factory.wanted
    /\ connects < MaxConnects
    /\ connects' = connects + 1
    /\ factory' = ConnectWithName(factory, client)

CancelsWaiting(client) ==
    /\ Alive
    /\ Contains(factory.waitingActions, client)
    /\ factory' = [factory EXCEPT !.waitingActions = Without(@, client),
                                  !.wanted = @ \ {client}]
    /\ UNCHANGED connects

CancelsAction(client) ==
    /\ Alive
    /\ CancelsActions
    /\ client \in factory.wanted /\ ~Contains(factory.waitingActions, client)
    /\ factory' = [RemoveAction(factory, ActionOf(factory, client)) EXCEPT
                       !.wanted = @ \ {client}]
    /\ UNCHANGED connects

NameLookupDone(place) ==
    /\ Alive
    /\ place \in factory.lookups
    /\ factory' = [Connect([factory EXCEPT !.lookups = @ \ {place}], place) EXCEPT
                       !.actions = [i \in DOMAIN @ |->
                           IF @[i].place = place THEN [@[i] EXCEPT !.connecting = TRUE]
                                                 ELSE @[i]]]
    /\ UNCHANGED connects

\* A client that connects from the callback of the client of an Action
ConnectsAgain(place, again) ==
    /\ again /= None => /\ again \notin factory.wanted \ {ClientOf(factory, place)}
                        /\ connects < MaxConnects
    /\ connects' = connects + IF again = None THEN 0 ELSE 1

NameLookupFailed(place, again) ==
    /\ Alive
    /\ place \in factory.lookups
    /\ ConnectsAgain(place, again)
    /\ factory' = Tells([factory EXCEPT !.lookups = @ \ {place}], place, again)

\* ConnectorLwIp::Error, and ConnectorLwIp::Connected when there is room for
\* a ConnectionLwIp: the connector is removed after the callback.
Ended(f, place, again) == RemoveConnector(Tells(f, place, again), place)

AttemptEnds(place, again) ==
    /\ Alive
    /\ Contains(factory.connectors, place)
    /\ ConnectsAgain(place, again)
    /\ factory' = Ended(factory, place, again)

(***************************************************************************)
(* ConnectorLwIp::Connected when there is no room: tcp_abort calls Error,  *)
(* because errf is still set, which tells the client, and the connector is *)
(* gone when Connected uses it to tell the outcome and to remove itself,   *)
(* both for the second time.                                               *)
(***************************************************************************)
AllocationFailed(place, again) ==
    /\ Alive
    /\ AllocationFails
    /\ Contains(factory.connectors, place)
    /\ ConnectsAgain(place, again)
    /\ factory' = [Ended(factory, place, again) EXCEPT !.unwanted = TRUE,
                                                       !.fault = @ \cup {"connector gone"}]

Next ==
    \/ \E client \in Clients :
           Connects(client) \/ CancelsWaiting(client) \/ CancelsAction(client)
    \/ \E place \in Places :
           \/ NameLookupDone(place)
           \/ \E again \in Clients \cup {None} :
                  \/ NameLookupFailed(place, again)
                  \/ AttemptEnds(place, again)
                  \/ AllocationFailed(place, again)

Spec == Init /\ [][Next]_vars

\* The resolver ends every lookup, and lwIP every attempt to connect.
FairSpec ==
    /\ Spec
    /\ \A place \in Places :
           /\ WF_vars(NameLookupDone(place)
                      \/ \E again \in Clients \cup {None} : NameLookupFailed(place, again))
           /\ WF_vars(\E again \in Clients \cup {None} : AttemptEnds(place, again))

-----------------------------------------------------------------------------
(* Properties *)

\* Connected has not failed to allocate a connection.
RoomForConnections == "connector gone" \notin factory.fault

PlacesOf(f) == {action.place : action \in ToSet(f.actions)}

(***************************************************************************)
(* Whatever is cancelled when, the resolver and ConnectionFactoryLwIp hold *)
(* no reference to an Action that is gone, nor both to the same one, and   *)
(* an Action knows which of them holds it.                                 *)
(***************************************************************************)
NoDanglingAction ==
    LET connecting == ToSet(factory.waitingConnectors) \cup ToSet(factory.connectors)
    IN /\ factory.lookups \cap connecting = {}
       /\ factory.lookups \cup connecting \subseteq PlacesOf(factory)
       /\ \A action \in ToSet(factory.actions) :
              action.place \in connecting => action.connecting

(***************************************************************************)
(* A client is told the outcome once, and not after it has cancelled; it   *)
(* is told twice when there is no room for the connection.                 *)
(***************************************************************************)
ToldOnce == ~factory.unwanted

(***************************************************************************)
(* A client waits only while all Actions are taken, and an Action only     *)
(* while all connectors are.                                               *)
(***************************************************************************)
WaitsForRoom ==
    /\ factory.waitingActions /= << >> => Len(factory.actions) = NumParallelActions
    /\ factory.waitingConnectors /= << >> => Len(factory.connectors) = NumConnectors

(***************************************************************************)
(* Every client that connects is told the outcome or cancels.              *)
(***************************************************************************)
EveryConnectEnds ==
    \A client \in Clients :
        (client \in factory.wanted) ~> (client \notin factory.wanted)

(***************************************************************************)
(* What is cancelled is pending: neither the resolver nor the connection   *)
(* factory is asked to cancel what it does not know.                       *)
(***************************************************************************)
CancelsPending == factory.fault \cap {"not found", "not waiting"} = {}

(***************************************************************************)
(* The control block of a connector is not used once it is null.           *)
(***************************************************************************)
NoNullControl == "null control" \notin factory.fault
=============================================================================
