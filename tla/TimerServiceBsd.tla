-------------------------- MODULE TimerServiceBsd --------------------------
(***************************************************************************)
(* hal/bsd/TimerServiceBsd.cpp, and hal/windows/TimerServiceWin.cpp, which *)
(* is the same: a timer service on a host.  A thread of its own waits with *)
(* a condition variable until the next trigger time, or until that changes *)
(* and schedules the loop over the timers on the dispatcher.  The          *)
(* dispatcher's thread alone starts and cancels timers; nextTrigger is     *)
(* what the two threads share, under a recursive mutex.                    *)
(***************************************************************************)
EXTENDS TimerService

CONSTANTS
    Durations,
    MaxTime, MaxStarts    \* bounds on the clock and on the calls of Start

HostAssumption ==
    /\ Durations \subseteq Nat \ {0}
    /\ MaxTime \in Nat \ {0} /\ MaxStarts \in Nat

VARIABLES
    service,        \* the TimerService and its timers
    nextTrigger,    \* the member of TimerServiceBsd
    quit,
    clock,          \* the system clock
    mutex,          \* who holds it
    tpc, deadline,  \* the thread, and until when it waits
    pc, return,     \* the dispatcher's thread, and where it returns to
    starting,       \* the repeating timer that is being started
    events,         \* loops over the timers that are scheduled
    time,           \* the argument of Progressed
    starts          \* history: calls of Start

threadVars == <<tpc, deadline>>
vars == <<service, nextTrigger, quit, clock, mutex, threadVars, pc, return, starting, events,
          time, starts>>

HostResolution == 1
NoStart == [timer |-> End, duration |-> 0, caller |-> "idle"]

TypeOK ==
    /\ service \in ServiceType
    /\ nextTrigger \in Int
    /\ quit \in BOOLEAN
    /\ clock \in 0 .. MaxTime
    /\ mutex \in {"free", "thread", "dispatcher"}
    /\ tpc \in {"lock", "test", "wait", "waiting", "woken", "ended"}
    /\ deadline \in Int
    /\ pc \in {"constructing", "idle", "changed", "setDuration", "loop", "action",
               "quit", "join", "destroyed"}
    /\ return \in {"idle", "setDuration", "action"}
    /\ starting \in [timer : Timers \cup {End}, duration : Nat, caller : {"idle", "action"}]
    /\ events \in Nat
    /\ time \in Nat
    /\ starts \in 0 .. MaxStarts

\* The thread is started before the constructor gives nextTrigger a value
\* other than the epoch.
Init ==
    /\ service = NoTimers
    /\ nextTrigger = 0
    /\ quit = FALSE
    /\ clock = 1
    /\ mutex = "free"
    /\ tpc = "lock" /\ deadline = 0
    /\ pc = "constructing" /\ return = "idle"
    /\ starting = NoStart
    /\ events = 0
    /\ time = 0
    /\ starts = 0

Construct ==
    /\ pc = "constructing"
    /\ nextTrigger' = service.nextTrigger
    /\ pc' = "idle"
    /\ UNCHANGED <<service, quit, clock, mutex, threadVars, return, starting, events, time, starts>>

\* condition.notify_one()
NotifyOne == tpc' = IF tpc = "waiting" THEN "woken" ELSE tpc

-----------------------------------------------------------------------------
(* The thread: WaitForTrigger *)

Lock ==
    /\ tpc = "lock" /\ mutex = "free"
    /\ mutex' = "thread"
    /\ tpc' = "test"
    /\ UNCHANGED <<service, nextTrigger, quit, clock, deadline, pc, return, starting, events, time, starts>>

TestQuit ==
    /\ tpc = "test"
    /\ IF quit THEN tpc' = "ended" /\ mutex' = "free"
               ELSE tpc' = "wait" /\ UNCHANGED mutex
    /\ UNCHANGED <<service, nextTrigger, quit, clock, deadline, pc, return, starting, events, time, starts>>

Wait ==
    /\ tpc = "wait"
    /\ mutex' = "free"
    /\ deadline' = nextTrigger
    /\ tpc' = "waiting"
    /\ UNCHANGED <<service, nextTrigger, quit, clock, pc, return, starting, events, time, starts>>

Expires ==
    /\ tpc = "waiting" /\ deadline <= clock
    /\ tpc' = "woken"
    /\ UNCHANGED <<service, nextTrigger, quit, clock, mutex, deadline, pc, return, starting, events, time, starts>>

\* A condition variable may wake up for no reason.
WakesSpuriously ==
    /\ tpc = "waiting" /\ deadline > clock
    /\ tpc' = "woken"
    /\ UNCHANGED <<service, nextTrigger, quit, clock, mutex, deadline, pc, return, starting, events, time, starts>>

\* The wait returns with the mutex; if the time has come, the loop is scheduled.
Trigger ==
    /\ tpc = "woken" /\ mutex = "free"
    /\ mutex' = "thread"
    /\ deadline' = 0
    /\ tpc' = "test"
    /\ IF nextTrigger <= clock
       THEN nextTrigger' = Never /\ events' = events + 1
       ELSE UNCHANGED <<nextTrigger, events>>
    /\ UNCHANGED <<service, quit, clock, pc, return, starting, time, starts>>

WaitForTrigger == Lock \/ TestQuit \/ Wait \/ Expires \/ Trigger

-----------------------------------------------------------------------------
(* Clients, on the dispatcher's thread, in an event of their own or in the *)
(* action of a timer                                                       *)

\* The timers become s, and the thread goes on at next.
ServiceBecomes(s, next) ==
    /\ service' = s
    /\ IF s.nextTrigger /= service.nextTrigger
       THEN pc' = "changed" /\ return' = next
       ELSE pc' = next /\ return' = "idle"

\* NextTriggerChanged takes the mutex, unless the loop has it already.
NextTriggerChanged ==
    /\ pc = "changed" /\ mutex /= "thread"
    /\ nextTrigger' = service.nextTrigger
    /\ NotifyOne
    /\ pc' = return /\ return' = "idle"
    /\ UNCHANGED <<service, quit, clock, mutex, deadline, starting, events, time, starts>>

\* An armed timer is not started again for an earlier time: see the README.
Start(t, d) ==
    /\ pc \in {"idle", "action"} /\ starts < MaxStarts
    /\ service.armed[t] => service.triggerTime[t] <= clock + d + HostResolution
    /\ starts' = starts + 1
    /\ ServiceBecomes(SetNextTriggerTime(service, t, FirstTriggerTime(t, d, clock, HostResolution)),
                      IF t \in Repeaters THEN "setDuration" ELSE pc)
    /\ starting' = IF t \in Repeaters THEN [timer |-> t, duration |-> d, caller |-> pc] ELSE starting
    /\ UNCHANGED <<nextTrigger, quit, clock, mutex, threadVars, events, time>>

FinishStart ==
    /\ pc = "setDuration"
    /\ ServiceBecomes(SetDuration(service, starting.timer, starting.duration, clock), starting.caller)
    /\ starting' = NoStart
    /\ UNCHANGED <<nextTrigger, quit, clock, mutex, threadVars, events, time, starts>>

CancelTimer(t) ==
    /\ pc \in {"idle", "action"} /\ service.armed[t]
    /\ ServiceBecomes(Cancel(service, t), pc)
    /\ UNCHANGED <<nextTrigger, quit, clock, mutex, threadVars, starting, events, time, starts>>

-----------------------------------------------------------------------------
(* The event: Progressed and NextTriggerChanged, with the mutex *)

BeginLoop ==
    /\ pc = "idle" /\ events > 0 /\ mutex = "free"
    /\ events' = events - 1
    /\ mutex' = "dispatcher"
    /\ service' = BeginProgressed(service)
    /\ time' = clock
    /\ pc' = "loop"
    /\ UNCHANGED <<nextTrigger, quit, clock, threadVars, return, starting, starts>>

SkipTimer ==
    /\ pc = "loop" /\ service.timerIterator /= End
    /\ ~Due(service, service.timerIterator, time)
    /\ service' = Advance(service)
    /\ UNCHANGED <<nextTrigger, quit, clock, mutex, threadVars, pc, return, starting, events, time, starts>>

TriggerTimer ==
    /\ pc = "loop" /\ service.timerIterator /= End
    /\ Due(service, service.timerIterator, time)
    /\ ServiceBecomes(ComputeNextTriggerTime(Advance(service), service.timerIterator, clock), "action")
    /\ UNCHANGED <<nextTrigger, quit, clock, mutex, threadVars, starting, events, time, starts>>

ActionReturns ==
    /\ pc = "action"
    /\ pc' = "loop"
    /\ UNCHANGED <<service, nextTrigger, quit, clock, mutex, threadVars, return, starting, events, time, starts>>

\* Mutant: the event does not call NextTriggerChanged after Progressed.
FinishLoopUntold ==
    /\ pc = "loop" /\ service.timerIterator = End
    /\ service' = EndProgressed(service)
    /\ mutex' = "free"
    /\ time' = 0
    /\ pc' = "idle"
    /\ UNCHANGED <<nextTrigger, quit, clock, threadVars, return, starting, events, starts>>

FinishLoop ==
    /\ pc = "loop" /\ service.timerIterator = End
    /\ service' = EndProgressed(service)
    /\ nextTrigger' = service'.nextTrigger
    /\ NotifyOne
    /\ mutex' = "free"
    /\ time' = 0
    /\ pc' = "idle"
    /\ UNCHANGED <<quit, clock, deadline, return, starting, events, starts>>

-----------------------------------------------------------------------------
(* The destructor, when no timer is left *)

Quit ==
    /\ pc = "idle" /\ service.scheduledTimers = << >>
    /\ quit' = TRUE
    /\ pc' = "quit"
    /\ UNCHANGED <<service, nextTrigger, clock, mutex, threadVars, return, starting, events, time, starts>>

NotifyQuit ==
    /\ pc = "quit"
    /\ NotifyOne
    /\ pc' = "join"
    /\ UNCHANGED <<service, nextTrigger, quit, clock, mutex, deadline, return, starting, events, time, starts>>

Join ==
    /\ pc = "join" /\ tpc = "ended"
    /\ pc' = "destroyed"
    /\ UNCHANGED <<service, nextTrigger, quit, clock, mutex, threadVars, return, starting, events, time, starts>>

Tick ==
    /\ clock < MaxTime
    /\ clock' = clock + 1
    /\ UNCHANGED <<service, nextTrigger, quit, mutex, threadVars, pc, return, starting, events, time, starts>>

Dispatcher ==
    \/ Construct
    \/ NextTriggerChanged
    \/ FinishStart
    \/ BeginLoop
    \/ SkipTimer
    \/ TriggerTimer
    \/ ActionReturns
    \/ FinishLoop
    \/ NotifyQuit
    \/ Join

Next ==
    \/ WaitForTrigger
    \/ WakesSpuriously
    \/ Dispatcher
    \/ \E t \in Timers, d \in Durations : Start(t, d)
    \/ \E t \in Timers : CancelTimer(t)
    \/ Quit
    \/ Tick

Spec == Init /\ [][Next]_vars

\* Both threads run, and neither is kept from the mutex forever.
Fairness == SF_vars(WaitForTrigger) /\ SF_vars(Dispatcher)

FairSpec == Spec /\ Fairness

-----------------------------------------------------------------------------
(* Properties *)

(***************************************************************************)
(* No trigger is lost between the two threads: unless the dispatcher is    *)
(* about to tell the thread, or a loop that will tell it is scheduled, the *)
(* thread has the earliest trigger time of the armed timers, and if it     *)
(* waits, it waits until then.                                             *)
(***************************************************************************)
TriggerKnown ==
    /\ pc = "idle" /\ events = 0 =>
          nextTrigger = Earliest(service, {t \in Timers : service.armed[t]})
    /\ pc /= "constructing" /\ tpc = "waiting" => deadline \in {0, nextTrigger}

(***************************************************************************)
(* A timer whose time has come triggers, unless it is cancelled or started *)
(* again.                                                                  *)
(***************************************************************************)
HostTimerTriggers ==
    \A t \in Timers :
        service.armed[t] /\ service.triggerTime[t] <= clock
            ~> ~service.armed[t] \/ service.triggerTime[t] > clock

(***************************************************************************)
(* The destructor returns: the thread learns that it has to end.           *)
(***************************************************************************)
DestructorReturns == pc = "quit" ~> pc = "destroyed"

(***************************************************************************)
(* No event that refers to the service is left when it has been destroyed. *)
(***************************************************************************)
NoEventLeft == pc = "destroyed" => events = 0
=============================================================================
