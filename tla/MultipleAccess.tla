--------------------------- MODULE MultipleAccess ---------------------------
(***************************************************************************)
(* services/util/FlashMultipleAccess, I2cMultipleAccess and                *)
(* SpiMultipleAccess: clients share a flash or a bus through a             *)
(* ClaimableResource.  An access claims the resource, and the function     *)
(* that the grant calls starts a transfer of the hardware.  On I2C and SPI *)
(* a transfer may leave the session open (continueSession, repeatedStart); *)
(* the claim is then kept until a transfer that ends with stop.            *)
(*                                                                         *)
(* A client has one access at a time and ends the sessions it opens.  The  *)
(* callback of a transfer may start the next access.                       *)
(***************************************************************************)
EXTENDS Naturals

CONSTANTS
    Clients,          \* the FlashMultipleAccess, ... objects
    None,
    MaxEvents,        \* bound on the events of the resource
    Bus,              \* "flash", "i2c" or "spi"
    Reenters          \* a client starts an access in a callback that comes before EndSession

BusAssumption == Bus \in {"flash", "i2c", "spi"} /\ Reenters \in BOOLEAN

VARIABLES
    currentClaim, pendingClaims, isGranted, isQueued, onGranted, alive, events,
    requested,        \* the nextAction of the access that waits for a grant
    transfers,        \* what the hardware is asked to do
    session,          \* the client for which the session on the bus was opened
    ending,           \* the client whose EndSession follows its callback
    configurator,     \* SpiMultipleAccess::communicationConfigurator, None or the client's own
    busConfigurator   \* SpiMultipleAccessMaster::communicationConfigurator

resource == <<currentClaim, pendingClaims, isGranted, isQueued, onGranted, alive, events>>
access == <<requested, transfers, session, ending, configurator, busConfigurator>>
vars == <<resource, access>>

Resource == INSTANCE ClaimableResource WITH Claimers <- Clients

NextActions == IF Bus = "flash" THEN {"stop"} ELSE {"continueSession", "stop"}

Transfers == [client : Clients, next : NextActions, configurator : Clients \cup {None}]

TypeOK ==
    /\ requested \in [Clients -> NextActions \cup {"none"}]
    /\ transfers \subseteq Transfers
    /\ session \in Clients \cup {None} /\ ending \in Clients \cup {None}
    /\ configurator \in [Clients -> Clients \cup {None}]
    /\ busConfigurator \in Clients \cup {None}

Init ==
    /\ Resource!Init
    /\ requested = [c \in Clients |-> "none"]
    /\ transfers = {}
    /\ session = None /\ ending = None
    /\ configurator = [c \in Clients |-> None]
    /\ busConfigurator = None

Construct(c) ==
    /\ ending = None
    /\ Resource!Construct(c)
    /\ UNCHANGED access

Idle(c) == requested[c] = "none" /\ ~\E t \in transfers : t.client = c

\* SetCommunicationConfigurator or ResetCommunicationConfigurator of the master
SetBusConfigurator(c) == busConfigurator' = configurator[c]

\* SendDataOnClaimed, ReceiveDataOnClaimed, SendAndReceiveOnClaimed and the
\* functions of FlashMultipleAccess
OnClaimed(c, next) ==
    /\ transfers' = transfers \cup {[client |-> c, next |-> next, configurator |-> configurator[c]]}
    /\ session' = IF Bus = "flash" \/ session /= None THEN session ELSE c
    /\ SetBusConfigurator(c)
    /\ UNCHANGED <<ending, configurator>>

NeedsClaim(c) == Bus = "flash" \/ ~isGranted[c]

\* WriteBuffer, ReadBuffer, EraseSectors; SendData, ReceiveData; SendAndReceive
Access(c, next) ==
    /\ c \in alive /\ Idle(c)
    /\ ending = None \/ (Reenters /\ ending = c)
    /\ IF NeedsClaim(c)
       THEN /\ Resource!Claim(c)
            /\ requested' = [requested EXCEPT ![c] = next]
            /\ UNCHANGED <<transfers, session, ending, configurator, busConfigurator>>
       ELSE /\ OnClaimed(c, next)
            /\ UNCHANGED <<resource, requested>>

\* The event of the resource, with the function that a grant calls
ReEvaluateClaim ==
    /\ ending = None
    /\ Resource!ReEvaluateClaim
    /\ IF currentClaim' /= currentClaim
       THEN /\ OnClaimed(currentClaim', requested[currentClaim'])
            /\ requested' = [requested EXCEPT ![currentClaim'] = "none"]
       ELSE UNCHANGED access

\* Mutant: the claim is given up after every transfer.
EndsClaimAlways(t) == TRUE

EndsClaim(t) == t.next = "stop"

\* The hardware is done: the function given to the master by the OnClaimed
\* functions; or EndSession and the callback, which an SPI driver may call in
\* either order
Done(t) ==
    /\ t \in transfers /\ ending = None
    /\ transfers' = transfers \ {t}
    /\ \/ ~EndsClaim(t) /\ UNCHANGED <<resource, session, ending>>
       \/ /\ EndsClaim(t) /\ Resource!Release(t.client)
          /\ session' = IF t.next = "stop" THEN None ELSE session
          /\ UNCHANGED ending
       \/ EndsClaim(t) /\ Bus = "spi" /\ ending' = t.client /\ UNCHANGED <<resource, session>>
    /\ UNCHANGED <<requested, configurator, busConfigurator>>

\* SpiMultipleAccess::EndSession after the callback
EndSession ==
    /\ ending /= None
    /\ Resource!Release(ending)
    /\ session' = None /\ ending' = None
    /\ UNCHANGED <<requested, transfers, configurator, busConfigurator>>

\* SpiMultipleAccess::SetCommunicationConfigurator, ResetCommunicationConfigurator
Configure(c) ==
    /\ Bus = "spi" /\ c \in alive /\ Idle(c) /\ ending = None
    /\ configurator' = [configurator EXCEPT ![c] = IF @ = None THEN c ELSE None]
    /\ UNCHANGED <<resource, requested, transfers, session, ending, busConfigurator>>

Next ==
    \/ \E c \in Clients : Construct(c) \/ Configure(c) \/ \E next \in NextActions : Access(c, next)
    \/ ReEvaluateClaim
    \/ \E t \in transfers : Done(t)
    \/ EndSession

\* The dispatcher executes its events, the hardware finishes its transfers,
\* and a client that has a session open ends it.
Closes(c) == session = c /\ Access(c, "stop")
DoneFor(c) == \E t \in transfers : t.client = c /\ Done(t)

Spec ==
    /\ Init /\ [][Next]_vars
    /\ WF_vars(ReEvaluateClaim) /\ WF_vars(EndSession)
    /\ \A c \in Clients : SF_vars(Closes(c)) /\ WF_vars(DoneFor(c))
-----------------------------------------------------------------------------
\* The hardware is given one transfer at a time, whoever asks for what.
OneTransfer == \A t, u \in transfers : t = u

\* Nobody else transfers anything between the transfers of an open session.
SessionUndisturbed ==
    session /= None => isGranted[session] /\ \A t \in transfers : t.client = session

\* A transfer runs with the configurator that its client had set when it
\* started, and without one if the client had none, although the master only
\* passes on changes (SpiMultipleAccess.cpp:21).
ConfiguredForClient == \A t \in transfers : busConfigurator = t.configurator

\* Only a client that transfers something or has a session open holds the
\* resource: nobody keeps it for nothing.
HeldForUse ==
    \A c \in Clients : isGranted[c] => session = c \/ \E t \in transfers : t.client = c

\* What a shared flash or bus promises to the clients that share it.
AccessSafe == TypeOK /\ OneTransfer /\ SessionUndisturbed /\ ConfiguredForClient /\ HeldForUse

\* Every access that waits is granted, if the sessions of others end.
EveryAccessGranted == \A c \in Clients : requested[c] /= "none" ~> requested[c] = "none"
=============================================================================
