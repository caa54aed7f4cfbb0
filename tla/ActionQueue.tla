---------------------------- MODULE ActionQueue ----------------------------
(***************************************************************************)
(* What infra::EventDispatcherWorker promises its callers: the actions     *)
(* given to Schedule form one bounded FIFO queue, they are executed one at *)
(* a time, to completion, each exactly once, in the order in which they    *)
(* entered the queue, and as long as the dispatcher runs every action is   *)
(* eventually executed.  An action is named by its position in that order. *)
(***************************************************************************)
EXTENDS Integers, Sequences

CONSTANT Capacity

VARIABLES
    queue,      \* actions scheduled and not yet begun, oldest first
    executed,   \* actions begun, in the order in which they were begun
    busy        \* an action is being executed

vars == <<queue, executed, busy>>

Init ==
    /\ queue = << >>
    /\ executed = << >>
    /\ busy = FALSE

Occupied == Len(queue) + (IF busy THEN 1 ELSE 0)

Schedule ==
    /\ Occupied < Capacity
    /\ queue' = Append(queue, Len(executed) + Len(queue))
    /\ UNCHANGED <<executed, busy>>

BeginExecute ==
    /\ ~busy
    /\ queue /= << >>
    /\ executed' = Append(executed, Head(queue))
    /\ queue' = Tail(queue)
    /\ busy' = TRUE

EndExecute ==
    /\ busy
    /\ busy' = FALSE
    /\ UNCHANGED <<queue, executed>>

Next == Schedule \/ BeginExecute \/ EndExecute

Spec == Init /\ [][Next]_vars

FairSpec == Spec /\ WF_vars(BeginExecute) /\ WF_vars(EndExecute)
=============================================================================
