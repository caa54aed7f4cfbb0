------------------------- MODULE SystemStateManager -------------------------
(***************************************************************************)
(* infra/event/SystemStateManager.cpp: participants are taken through a    *)
(* sequence of states, all of them together.  A participant is told which  *)
(* state to go to and says that it is there with ReachedState, which an    *)
(* event of the dispatcher brings to the manager.                          *)
(*                                                                         *)
(* The order of participants in the lists is only the order in which they  *)
(* are told, so the lists are sets.  A participant answers a request once  *)
(* and is destroyed neither with its answer under way nor while the        *)
(* manager has it in participantsInCurrentState, which the code asserts.   *)
(***************************************************************************)
EXTENDS Naturals, Sequences, FiniteSets

CONSTANTS
    Participants,
    Leavers,       \* participants that may be destroyed
    NumStates,     \* size of the range given to RunStates
    RunsAgain      \* whether RunStates is called again when all is done

LeaversAssumption == Leavers \subseteq Participants
NumStatesAssumption == NumStates \in Nat \ {0}
RunsAgainAssumption == RunsAgain \in BOOLEAN

VARIABLES
    alive,         \* participants that were constructed and not destroyed
    previous,      \* participantsInPreviousState
    current,       \* participantsInCurrentState
    running,       \* ~ runningStates.empty()
    currentState,  \* position of the state, 0 before the first one
    events,        \* the ReachedState events in the dispatcher
    working,       \* history: participants that were told a state and have not answered
    reached,       \* history: how many states each participant said it reached
    aborted        \* an assertion failed

vars == <<alive, previous, current, running, currentState, events, working, reached, aborted>>

Finished == running /\ currentState = NumStates + 1

Answering == {events[i] : i \in 1 .. Len(events)}

TypeOK ==
    /\ alive \subseteq Participants
    /\ previous \subseteq Participants /\ current \subseteq Participants
    /\ running \in BOOLEAN /\ aborted \in BOOLEAN
    /\ currentState \in 0 .. NumStates + 1
    /\ events \in Seq(Participants)
    /\ working \subseteq Participants
    /\ reached \in [Participants -> 0 .. NumStates]

Init ==
    /\ alive = {} /\ previous = {} /\ current = {}
    /\ running = FALSE /\ aborted = FALSE
    /\ currentState = 0
    /\ events = << >>
    /\ working = {}
    /\ reached = [p \in Participants |-> 0]

\* SystemStateParticipant's constructor, AddParticipant
Construct(p) ==
    /\ p \notin alive /\ reached[p] = 0 /\ ~running /\ ~aborted
    /\ alive' = alive \cup {p}
    /\ current' = current \cup {p}
    /\ UNCHANGED <<previous, running, currentState, events, working, reached, aborted>>

\* GoToNextState and InformAllParticipants, which call each other until the
\* end when there is nobody to inform
GoToNextState(waiting, ready, state) ==
    IF waiting /= {}
    THEN aborted' = TRUE /\ UNCHANGED <<previous, current, currentState, working>>
    ELSE /\ previous' = ready
         /\ current' = {}
         /\ currentState' = IF ready = {} THEN NumStates + 1 ELSE state + 1
         /\ working' = IF currentState' = NumStates + 1 THEN {} ELSE ready
         /\ aborted' = FALSE

RunStates ==
    /\ ~aborted
    /\ ~running \/ (Finished /\ RunsAgain)
    /\ running' = TRUE
    /\ IF ~running \/ currentState = NumStates
       THEN GoToNextState(previous, current, 0)
       ELSE aborted' = TRUE /\ UNCHANGED <<previous, current, currentState, working>>
    /\ UNCHANGED <<alive, events, reached>>

\* SystemStateParticipant::ReachedState
ReachedState(p) ==
    /\ p \in working /\ ~aborted
    /\ working' = working \ {p}
    /\ reached' = [reached EXCEPT ![p] = @ + 1]
    /\ events' = Append(events, p)
    /\ UNCHANGED <<alive, previous, current, running, currentState, aborted>>

\* Mutant: the answer of one participant is taken for that of all.
StillWaitingForNobody(p) == {}

\* The participants whose answer the manager waits for after that of p
StillWaiting(p) == previous \ {p}

\* The test that ends SystemStateManager::ReachedState
AllReached(waiting) == waiting = {}

\* The event: SystemStateManager::ReachedState
ExecuteReachedState ==
    /\ events /= << >> /\ ~aborted
    /\ LET p == Head(events)
           waiting == StillWaiting(p)
           ready == current \cup {p}
       IN IF p \notin previous
          THEN aborted' = TRUE /\ UNCHANGED <<previous, current, currentState, working>>
          ELSE IF AllReached(waiting) THEN GoToNextState(waiting, ready, currentState)
          ELSE /\ previous' = waiting /\ current' = ready
               /\ UNCHANGED <<currentState, working, aborted>>
    /\ events' = Tail(events)
    /\ UNCHANGED <<alive, running, reached>>

\* SystemStateParticipant's destructor, RemoveParticipant
Destruct(p) ==
    /\ p \in Leavers \cap previous /\ p \notin Answering /\ ~aborted
    /\ alive' = alive \ {p}
    /\ previous' = previous \ {p}
    /\ working' = working \ {p}
    /\ UNCHANGED <<current, running, currentState, events, reached, aborted>>

Next ==
    \/ \E p \in Participants : Construct(p) \/ ReachedState(p) \/ Destruct(p)
    \/ RunStates
    \/ ExecuteReachedState

\* The dispatcher executes its events and a participant that was told a state
\* says that it reached it.
Fairness ==
    /\ WF_vars(ExecuteReachedState)
    /\ \A p \in Participants : WF_vars(ReachedState(p))

Spec == Init /\ [][Next]_vars /\ Fairness
-----------------------------------------------------------------------------
\* No participant is told a state before every other one said that it reached
\* the state before it (SystemStateManager.cpp:62), whoever leaves meanwhile.
InStep ==
    running => \A p \in alive : reached[p] + 1 >= currentState

\* While states run, the manager waits for exactly the participants that work
\* on the state or whose answer is under way, so that the assertions in
\* ReachedState (:58) and GoToNextState (:68) hold.
WaitsForWhoIsLate ==
    running /\ ~Finished =>
        /\ previous = working \cup Answering
        /\ alive = previous \cup current
        /\ previous \cap current = {}
        /\ ~aborted

\* What a run of the states promises, whoever leaves and in whatever order the
\* answers come: both of the above, with every variable of its type.
StatesSafe == TypeOK /\ InStep /\ WaitsForWhoIsLate

\* Once started, the participants get to the end of the states, unless the
\* last one that the manager waits for is destroyed (:50 does not go on then).
EveryStateReached == running ~> Finished \/ previous = {}

\* When all participants have reached the last state, another sequence of
\* states can be run: the assertion at :38 demands a current state that is
\* the last one.
CanRunAgain == ~aborted
=============================================================================
