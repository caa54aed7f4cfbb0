------------------------------ MODULE MCEvents ------------------------------
(***************************************************************************)
(* The components that live on the event dispatcher and do not know each   *)
(* other, side by side for TLC: a behaviour is about one of them, its      *)
(* subject, and the others stay where they begin.  ClaimableResource is    *)
(* driven by claimers that do what they like ("claimers") and by the       *)
(* clients of a bus (the subjects in Buses).                               *)
(***************************************************************************)
EXTENDS ClaimableResource

CONSTANTS
    N, MaxElements,              \* of the queue
    Participants, Leavers, NumStates, RunsAgain

VARIABLES
    subject,
    requested, transfers, session, ending, configurator, busConfigurator,
    buffer, contentsBegin, contentsEnd, notificationScheduled, scheduled,
    wpc, chunk, rest, rpc, amount, view, stored, added, removed, got,
    participants, previous, current, running, currentState, answers, working, reached, aborted

Buses == {"flash", "i2c", "spi"}

Access(bus) == INSTANCE MultipleAccess WITH Clients <- Claimers, Bus <- bus, Reenters <- FALSE
Queue == INSTANCE QueueForOneReaderOneIrqWriter
States == INSTANCE SystemStateManager
              WITH alive <- participants, events <- answers

ASSUME QueueAssumption == Queue!NAssumption /\ Queue!MaxElementsAssumption
ASSUME StatesAssumption == States!LeaversAssumption /\ States!NumStatesAssumption
ASSUME BusesAssumption == \A bus \in Buses : Access(bus)!BusAssumption

accessVars == <<requested, transfers, session, ending, configurator, busConfigurator>>
busVars == <<vars, accessVars>>
queueVars == <<buffer, contentsBegin, contentsEnd, notificationScheduled, scheduled,
               wpc, chunk, rest, rpc, amount, view, stored, added, removed, got>>
statesVars == <<participants, previous, current, running, currentState, answers,
                working, reached, aborted>>

EventsInit ==
    /\ subject \in Buses \cup {"claimers", "queue", "states"}
    /\ \A bus \in Buses : Access(bus)!Init
    /\ Queue!Init
    /\ States!Init

EventsNext ==
    \/ subject = "claimers" /\ Next /\ UNCHANGED <<subject, accessVars, queueVars, statesVars>>
    \/ \E bus \in Buses : /\ subject = bus /\ Access(bus)!Next
                          /\ UNCHANGED <<subject, queueVars, statesVars>>
    \/ subject = "queue" /\ Queue!Next /\ UNCHANGED <<subject, busVars, statesVars>>
    \/ subject = "states" /\ States!Next /\ UNCHANGED <<subject, busVars, queueVars>>

\* The fairness that each component states, where it is the subject
EventsSpec ==
    /\ EventsInit /\ [][EventsNext]_<<subject, busVars, queueVars, statesVars>>
    /\ WF_vars(subject = "claimers" /\ ReEvaluateClaim)
    /\ \A c \in Claimers : WF_vars(subject = "claimers" /\ GiveBack(c))
    /\ WF_busVars(\E bus \in Buses : subject = bus /\ Access(bus)!ReEvaluateClaim)
    /\ WF_busVars(\E bus \in Buses : subject = bus /\ Access(bus)!EndSession)
    /\ \A c \in Claimers :
          /\ SF_busVars(\E bus \in Buses : subject = bus /\ Access(bus)!Closes(c))
          /\ WF_busVars(\E bus \in Buses : subject = bus /\ Access(bus)!DoneFor(c))
    /\ WF_queueVars(subject = "queue" /\ Queue!ContinueWriter)
    /\ WF_queueVars(subject = "queue" /\ Queue!Reader)
    /\ States!Fairness

-----------------------------------------------------------------------------
\* QueueForOneReaderOneIrqWriter: whatever interrupt strikes between two
\* accesses of the reader, elements are read in order, none lost and none
\* twice; ranges handed out stay intact; Size is what is in the queue; and
\* contents are announced, by one event at a time.
QueueSafe == Queue!QueueSafe

\* MultipleAccess: the hardware gets one transfer at a time, with the
\* configurator of its client; nobody disturbs the session of another one;
\* and nobody keeps the resource for nothing.
AccessSafe == \A bus \in Buses : subject = bus => Access(bus)!AccessSafe

\* Every claim, of claimers that give the resource back and of the clients of
\* a bus, is granted.
EveryoneGranted ==
    /\ EveryClaimGranted
    /\ \A c \in Claimers : requested[c] /= "none" ~> requested[c] = "none"

\* SystemStateManager: no participant is told a state before all reached the
\* one before it, and the manager waits for exactly those that are late.
StatesSafe == States!StatesSafe

\* Every element that an interrupt adds to the queue reaches the reader, and
\* the participants get to the end of the states, unless one is destroyed.
EveryEventHandled == Queue!EveryElementDelivered /\ States!EveryStateReached
=============================================================================
