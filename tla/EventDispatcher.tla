-------------------------- MODULE EventDispatcher --------------------------
(***************************************************************************)
(* infra/event/EventDispatcher.cpp: a ring of (function, flag) pairs that  *)
(* many contexts push to with Schedule (threads, or interrupt handlers and *)
(* the code they interrupt) and one thread, in Run, pops from.             *)
(* EventDispatcherWithWeakPtr.cpp repeats the same code, and the           *)
(* LowPowerEventDispatcher and EventDispatcherWithNetwork override only    *)
(* RequestExecution and Idle.                                              *)
(*                                                                         *)
(* Every access to a variable that two contexts share is a step of its     *)
(* own.  An action is named by its ticket, the number of actions whose     *)
(* compare-exchange succeeded before its own.                              *)
(***************************************************************************)
EXTENDS Integers, Sequences, FiniteSets

CONSTANTS
    Procs,           \* the contexts that call Schedule
    Main,            \* the dispatcher's own context: it calls Schedule before
                     \* Run and from inside the actions it executes
    Size,            \* scheduledActions.size()
    MaxSchedules,    \* bound on the number of calls of Schedule
    MaxOutstanding,  \* how many actions the callers have outstanding at most
    Preempts,        \* <<q, p>>: q interrupts p and finishes before p goes on
    Blocking         \* Idle waits for RequestExecution, or returns at once

ASSUME ProcsAssumption == IsFiniteSet(Procs) /\ Main \in Procs
ASSUME SizeAssumption == Size \in Nat \ {0}
ASSUME BoundsAssumption == MaxSchedules \in Nat /\ MaxOutstanding \in Nat
ASSUME ContextsAssumption == Preempts \subseteq Procs \X Procs /\ Blocking \in BOOLEAN

VARIABLES
    first,         \* scheduledActions[i].first
    second,        \* scheduledActions[i].second
    pushIndex,     \* scheduledActionsPushIndex
    popIndex,      \* scheduledActionsPopIndex
    minCapacity,
    wakeUp,        \* RequestExecution was called since Idle last returned
    aborted,       \* a really_assert failed
    dpc,           \* where the dispatcher is in Run
    pc,            \* where a context is in Schedule; "out": not in Schedule
    reg,           \* Schedule's local pushIndex
    cap,           \* the value about to be stored in minCapacity
    ticket,        \* history: the name of the action a context schedules
    begun,         \* history: calls of Schedule
    claims,        \* history: compare-exchanges that succeeded
    released,      \* history: slots the dispatcher released
    executed,      \* history: actions executed
    lowWater       \* history: the fewest free slots a claim found

sharedVars == <<first, second, pushIndex, popIndex, minCapacity, wakeUp, aborted>>
localVars == <<dpc, pc, reg, cap>>
historyVars == <<ticket, begun, claims, released, executed, lowWater>>
vars == <<sharedVars, localVars, historyVars>>

Slots == 0 .. Size - 1
NoAction == -1            \* first = nullptr
Lesser(a, b) == IF a <= b THEN a ELSE b

SchedulePCs == {"out", "exchange", "store", "check", "publish",
                "loadCapacity", "storeCapacity", "request"}
DispatcherPCs == {"startup", "poll", "running", "unflag", "advance", "idle", "drain"}

(***************************************************************************)
(* The type of every variable.                                             *)
(***************************************************************************)
TypeOK ==
    /\ first \in [Slots -> Nat \cup {NoAction}]
    /\ second \in [Slots -> BOOLEAN]
    /\ pushIndex \in Slots
    /\ popIndex \in Slots
    /\ minCapacity \in 1 .. Size
    /\ wakeUp \in BOOLEAN
    /\ aborted \in BOOLEAN
    /\ dpc \in DispatcherPCs
    /\ pc \in [Procs -> SchedulePCs]
    /\ reg \in [Procs -> Slots]
    /\ cap \in [Procs -> 1 .. Size]
    /\ ticket \in [Procs -> Nat]
    /\ begun \in Nat
    /\ claims \in Nat
    /\ released \in Nat
    /\ executed \in Seq(Nat \cup {NoAction})
    /\ lowWater \in Int

Init ==
    /\ first = [i \in Slots |-> NoAction]
    /\ second = [i \in Slots |-> FALSE]
    /\ pushIndex = 0
    /\ popIndex = 0
    /\ minCapacity = Size
    /\ wakeUp = FALSE
    /\ aborted = FALSE
    /\ dpc = "startup"
    /\ pc = [p \in Procs |-> "out"]
    /\ reg = [p \in Procs |-> 0]
    /\ cap = [p \in Procs |-> Size]
    /\ ticket = [p \in Procs |-> 0]
    /\ begun = 0
    /\ claims = 0
    /\ released = 0
    /\ executed = << >>
    /\ lowWater = Size

-----------------------------------------------------------------------------
(* Schedule *)

\* p runs only while no context that preempts it is inside Schedule
Runs(p) ==
    /\ ~aborted
    /\ \A q \in Procs : <<q, p>> \in Preempts => pc[q] = "out"

Step(p, from, to) ==
    /\ Runs(p)
    /\ pc[p] = from
    /\ pc' = [pc EXCEPT ![p] = to]

\* A call of Schedule, up to the first read of scheduledActionsPushIndex.
BeginSchedule(p) ==
    /\ Step(p, "out", "exchange")
    /\ p = Main => dpc \in {"startup", "running"}
    /\ begun < MaxSchedules
    /\ begun - released < MaxOutstanding
    /\ begun' = begun + 1
    /\ reg' = [reg EXCEPT ![p] = pushIndex]
    /\ UNCHANGED <<sharedVars, dpc, cap, ticket, claims, released, executed, lowWater>>

\* how often scheduledActionsPopIndex was advanced
Popped == IF dpc = "advance" THEN released - 1 ELSE released

\* Mutant: the index is stored without comparing it.
ClaimSlotBlindly(p) ==
    /\ Step(p, "exchange", "store")
    /\ pushIndex' = (reg[p] + 1) % Size
    /\ ticket' = [ticket EXCEPT ![p] = claims]
    /\ claims' = claims + 1
    /\ lowWater' = Lesser(lowWater, Size - (claims - Popped))
    /\ UNCHANGED <<first, second, popIndex, minCapacity, wakeUp, aborted,
                   dpc, reg, cap, begun, released, executed>>

ClaimSlot(p) ==
    /\ Step(p, "exchange", "store")
    /\ pushIndex = reg[p]
    /\ pushIndex' = (reg[p] + 1) % Size
    /\ ticket' = [ticket EXCEPT ![p] = claims]
    /\ claims' = claims + 1
    /\ lowWater' = Lesser(lowWater, Size - (claims - Popped))
    /\ UNCHANGED <<first, second, popIndex, minCapacity, wakeUp, aborted,
                   dpc, reg, cap, begun, released, executed>>

\* compare_exchange_weak found another value and loaded it.
LoseRace(p) ==
    /\ Step(p, "exchange", "exchange")
    /\ pushIndex /= reg[p]
    /\ reg' = [reg EXCEPT ![p] = pushIndex]
    /\ UNCHANGED <<sharedVars, dpc, cap, historyVars>>

StoreAction(p) ==
    /\ Step(p, "store", "check")
    /\ first' = [first EXCEPT ![reg[p]] = ticket[p]]
    /\ UNCHANGED <<second, pushIndex, popIndex, minCapacity, wakeUp, aborted,
                   dpc, reg, cap, historyVars>>

\* really_assert(!scheduledActions[pushIndex].second)
CheckFree(p) ==
    /\ Step(p, "check", "publish")
    /\ aborted' = second[reg[p]]
    /\ UNCHANGED <<first, second, pushIndex, popIndex, minCapacity, wakeUp,
                   dpc, reg, cap, historyVars>>

Publish(p) ==
    /\ Step(p, "publish", "loadCapacity")
    /\ second' = [second EXCEPT ![reg[p]] = TRUE]
    /\ UNCHANGED <<first, pushIndex, popIndex, minCapacity, wakeUp, aborted,
                   dpc, reg, cap, historyVars>>

\* Mutant: off by one.
LoadCapacityAfterPush(p) ==
    /\ Step(p, "loadCapacity", "storeCapacity")
    /\ cap' = [cap EXCEPT ![p] =
                  Lesser(minCapacity, (Size + popIndex - reg[p] - 1) % Size)]
    /\ UNCHANGED <<sharedVars, dpc, reg, historyVars>>

LoadCapacity(p) ==
    /\ Step(p, "loadCapacity", "storeCapacity")
    /\ cap' = [cap EXCEPT ![p] =
                  Lesser(minCapacity, ((Size + popIndex - reg[p] - 1) % Size) + 1)]
    /\ UNCHANGED <<sharedVars, dpc, reg, historyVars>>

\* with really_assert(minCapacity >= 1)
StoreCapacity(p) ==
    /\ Step(p, "storeCapacity", "request")
    /\ minCapacity' = cap[p]
    /\ aborted' = ~(minCapacity' >= 1)
    /\ UNCHANGED <<first, second, pushIndex, popIndex, wakeUp,
                   dpc, reg, cap, historyVars>>

\* Mutant: the base class's empty RequestExecution with an Idle that waits.
RequestExecutionNotOverridden(p) ==
    /\ Step(p, "request", "out")
    /\ UNCHANGED <<sharedVars, dpc, reg, cap, historyVars>>

RequestExecution(p) ==
    /\ Step(p, "request", "out")
    /\ wakeUp' = Blocking
    /\ UNCHANGED <<first, second, pushIndex, popIndex, minCapacity, aborted,
                   dpc, reg, cap, historyVars>>

Schedule(p) ==
    \/ BeginSchedule(p)
    \/ ClaimSlot(p)
    \/ LoseRace(p)
    \/ StoreAction(p)
    \/ CheckFree(p)
    \/ Publish(p)
    \/ LoadCapacity(p)
    \/ StoreCapacity(p)
    \/ RequestExecution(p)

\* Schedule, once it was called
ContinueSchedule(p) == Schedule(p) /\ pc[p] /= "out"

-----------------------------------------------------------------------------
(* Run *)

DispatcherStep(from, to) ==
    /\ Runs(Main)
    /\ pc[Main] = "out"
    /\ dpc = from
    /\ dpc' = to

StartRun ==
    /\ DispatcherStep("startup", "poll")
    /\ UNCHANGED <<sharedVars, pc, reg, cap, historyVars>>

\* TryExecuteAction finds an action and calls it.
ExecuteFirstAction ==
    /\ DispatcherStep("poll", "running")
    /\ second[popIndex]
    /\ executed' = Append(executed, first[popIndex])
    /\ UNCHANGED <<sharedVars, pc, reg, cap, ticket, begun, claims, released, lowWater>>

\* The action returned: .first = nullptr
ClearAction ==
    /\ DispatcherStep("running", "unflag")
    /\ first' = [first EXCEPT ![popIndex] = NoAction]
    /\ UNCHANGED <<second, pushIndex, popIndex, minCapacity, wakeUp, aborted,
                   pc, reg, cap, historyVars>>

\* Mutant: the flag stays set.
ReleaseSlotKeepsFlag ==
    /\ DispatcherStep("unflag", "advance")
    /\ released' = released + 1
    /\ UNCHANGED <<sharedVars, pc, reg, cap, ticket, begun, claims, executed, lowWater>>

ReleaseSlot ==
    /\ DispatcherStep("unflag", "advance")
    /\ second' = [second EXCEPT ![popIndex] = FALSE]
    /\ released' = released + 1
    /\ UNCHANGED <<first, pushIndex, popIndex, minCapacity, wakeUp, aborted,
                   pc, reg, cap, ticket, begun, claims, executed, lowWater>>

AdvancePopIndex ==
    /\ DispatcherStep("advance", "poll")
    /\ popIndex' = (popIndex + 1) % Size
    /\ UNCHANGED <<first, second, pushIndex, minCapacity, wakeUp, aborted,
                   pc, reg, cap, historyVars>>

NothingToExecute ==
    /\ DispatcherStep("poll", "idle")
    /\ ~second[popIndex]
    /\ UNCHANGED <<sharedVars, pc, reg, cap, historyVars>>

\* select returns because RequestExecution wrote to the pipe, or Idle does
\* not wait at all.
WakeUp ==
    /\ DispatcherStep("idle", "drain")
    /\ Blocking => wakeUp
    /\ UNCHANGED <<sharedVars, pc, reg, cap, historyVars>>

\* select returns for a socket.
OtherWakeUp ==
    /\ DispatcherStep("idle", "drain")
    /\ Blocking
    /\ ~wakeUp
    /\ UNCHANGED <<sharedVars, pc, reg, cap, historyVars>>

\* Idle empties the pipe and returns.
DrainWakeUp ==
    /\ DispatcherStep("drain", "poll")
    /\ wakeUp' = FALSE
    /\ UNCHANGED <<first, second, pushIndex, popIndex, minCapacity, aborted,
                   pc, reg, cap, historyVars>>

\* What the dispatcher does by itself, without a socket becoming ready
Dispatch ==
    \/ StartRun
    \/ ExecuteFirstAction
    \/ ClearAction
    \/ ReleaseSlot
    \/ AdvancePopIndex
    \/ NothingToExecute
    \/ WakeUp
    \/ DrainWakeUp

Next ==
    \/ \E p \in Procs : Schedule(p)
    \/ Dispatch
    \/ OtherWakeUp

Spec == Init /\ [][Next]_vars

(***************************************************************************)
(* A context that entered Schedule leaves it: no step of it waits.  The    *)
(* dispatcher's thread runs, and an action it executes returns.            *)
(***************************************************************************)
Fairness ==
    /\ \A p \in Procs : WF_vars(ContinueSchedule(p))
    /\ WF_vars(Dispatch)

FairSpec == Spec /\ Fairness

-----------------------------------------------------------------------------
(* Properties *)

(***************************************************************************)
(* FIFO, exactly once: the i-th action executed is the i-th action whose   *)
(* Schedule claimed a slot, whatever order the producers publish in.       *)
(***************************************************************************)
ExecutedInOrder == \A i \in 1 .. Len(executed) : executed[i] = i - 1

Writing(p) == pc[p] \in {"store", "check", "publish"}

(***************************************************************************)
(* A slot a producer is filling belongs to it alone: it is not flagged     *)
(* (so the dispatcher does not touch it) and no other producer is in it.   *)
(***************************************************************************)
SlotsExclusive ==
    \A p \in Procs : Writing(p) =>
        /\ ~second[reg[p]]
        /\ \A q \in Procs \ {p} : Writing(q) => reg[q] /= reg[p]

(***************************************************************************)
(* The assertion in Schedule fires for one reason only: more actions were  *)
(* outstanding than the ring has slots.                                    *)
(***************************************************************************)
AbortOnlyOnOverflow == aborted => begun - released > Size

Quiet == ~aborted /\ dpc = "idle" /\ ~wakeUp /\ \A p \in Procs : pc[p] = "out"

(***************************************************************************)
(* What really_assert(!scheduledActions[pushIndex].second) in Schedule is  *)
(* there for: an action that does not fit in the ring stops the program.   *)
(* If the program goes on, then once every Schedule returned and the       *)
(* dispatcher has nothing to do, every action was executed, in order.      *)
(***************************************************************************)
OverflowCaught == Quiet => ExecutedInOrder /\ Len(executed) = claims

(***************************************************************************)
(* MinCapacity never reports fewer free slots than a claim really found.   *)
(***************************************************************************)
MinCapacitySound == minCapacity >= lowWater

-----------------------------------------------------------------------------
(* The inductive invariant of the proofs, when MaxOutstanding <= Size *)

\* The slot of the action the dispatcher executes next, and of an action with
\* a ticket between released and released + Size
NextSlot == IF dpc = "advance" THEN (popIndex + 1) % Size ELSE popIndex
Wrapped(i) == IF i < Size THEN i ELSE i - Size
SlotOf(t) == Wrapped(NextSlot + (t - released))

Executing == dpc \in {"running", "unflag"}
Exchanging == {p \in Procs : pc[p] = "exchange"}

CountersInv ==
    /\ ~aborted
    /\ released <= claims
    /\ begun = claims + Cardinality(Exchanging)
    /\ begun - released <= Size
    /\ Len(executed) = released + (IF Executing THEN 1 ELSE 0)

SlotsInv ==
    /\ pushIndex = SlotOf(claims)
    /\ \A t \in released .. claims - 1 :
          second[SlotOf(t)] => \/ first[SlotOf(t)] = t
                               \/ t = released /\ dpc = "unflag"
    /\ \A t \in claims .. released + Size - 1 : ~second[SlotOf(t)]
    /\ Executing => second[popIndex]

ProducersInv ==
    /\ \A p \in Procs : Writing(p) =>
          /\ ticket[p] \in released .. claims - 1
          /\ reg[p] = SlotOf(ticket[p])
          /\ ~second[reg[p]]
          /\ pc[p] /= "store" => first[reg[p]] = ticket[p]
    /\ \A p, q \in Procs : Writing(p) /\ Writing(q) /\ p /= q => ticket[p] /= ticket[q]

(***************************************************************************)
(* Every slot is free, or holds the action with the ticket that belongs in *)
(* it, or is being filled by the one producer that has that ticket.        *)
(***************************************************************************)
DispatcherInv ==
    /\ TypeOK
    /\ CountersInv
    /\ SlotsInv
    /\ ProducersInv
    /\ ExecutedInOrder

(***************************************************************************)
(* The bounded FIFO queue that the dispatcher implements: an action enters *)
(* it when its compare-exchange succeeds.                                  *)
(***************************************************************************)
Queue ==
    INSTANCE ActionQueue WITH
        Capacity <- Size,
        queue <- [i \in 1 .. claims - Len(executed) |-> Len(executed) + i - 1],
        executed <- executed,
        busy <- dpc \in {"running", "unflag"}

(***************************************************************************)
(* The dispatcher is an ActionQueue: bounded, first in first out, one      *)
(* action at a time, and without lost wake-ups, since every action that    *)
(* claimed a slot is executed, even when the dispatcher was about to wait  *)
(* while the action was being published.                                   *)
(***************************************************************************)
QueueFair == Queue!FairSpec
=============================================================================
