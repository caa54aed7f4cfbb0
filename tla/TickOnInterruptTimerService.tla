-------------------- MODULE TickOnInterruptTimerService --------------------
(***************************************************************************)
(* infra/timer/TickOnInterruptTimerService.cpp: a timer service driven by  *)
(* a tick interrupt.  The interrupt counts ticks, and schedules            *)
(* ProcessTicks when the count reaches the next trigger time; clients and  *)
(* the actions of timers start and cancel timers.  The interrupt handler   *)
(* runs to completion between any two accesses of the interrupted code to  *)
(* the atomic variables.                                                   *)
(***************************************************************************)
EXTENDS TimerService, FiniteSets

CONSTANTS
    Resolution,      \* duration of a tick
    Durations,       \* durations of timers
    Times,           \* times of Start(TimePoint)
    TickModulus,     \* 2^32: values of a uint32_t.  The event dispatcher is
                     \* assumed to run ProcessTicks before that many ticks passed.
    MaxTicks,        \* bound on the ticks
    MaxStarts,       \* bound on the calls of Start
    RestartEarlier   \* whether an armed timer is started again for a time
                     \* before the one it was waiting for

ASSUME TickAssumption ==
    /\ Resolution \in Nat \ {0}
    /\ Durations \subseteq Nat \ {0}
    /\ Times \subseteq Nat
    /\ TickModulus \in Nat \ {0}
    /\ MaxTicks \in Nat
    /\ MaxStarts \in Nat
    /\ RestartEarlier \in BOOLEAN

VARIABLES
    service,                \* the TimerService and its timers
    systemTime,
    ticksProgressed,
    ticksNextNotification,
    notificationScheduled,
    events,                 \* ProcessTicks events in the event dispatcher
    pc,                     \* where the dispatcher's thread is
    caller,                 \* where it returns to after Start
    now,                    \* what Now() returned to Start, or exchange(0) * resolution
    starting,               \* Start's timer and duration
    reschedule,
    total,                  \* history: ticks of the interrupt since the beginning
    starts,                 \* history: calls of Start
    startedAt,              \* history: total when a timer was last started,
    duration,               \*          how long it was to wait,
    firedAfter              \*          and after how many ticks it first triggered

tickVars == <<ticksProgressed, ticksNextNotification, notificationScheduled, events, total>>
localVars == <<pc, caller, now, starting, reschedule>>
historyVars == <<starts, startedAt, duration, firedAfter>>
vars == <<service, systemTime, tickVars, localVars, historyVars>>

(***************************************************************************)
(* The type of every variable.                                             *)
(***************************************************************************)
TypeOK ==
    /\ service \in ServiceType
    /\ systemTime \in Nat
    /\ ticksProgressed \in 0 .. TickModulus - 1
    /\ ticksNextNotification \in 0 .. TickModulus - 1
    /\ notificationScheduled \in BOOLEAN
    /\ events \in Nat
    /\ pc \in {"idle", "start", "setDuration", "exchanged", "loop", "action", "changed", "compared", "processed"}
    /\ caller \in {"idle", "action"}
    /\ now \in Nat
    /\ starting \in [timer : Timers \cup {End}, duration : Nat]
    /\ reschedule \in BOOLEAN
    /\ total \in 0 .. MaxTicks
    /\ starts \in 0 .. MaxStarts
    /\ startedAt \in [Timers -> Nat]
    /\ duration \in [Timers -> Nat]
    /\ firedAfter \in [Timers -> Int]

Lesser(a, b) == IF a <= b THEN a ELSE b
MaxNotification == (TickModulus - 1) \div 2

\* Mutant: the tick after the one at which the timer is due.
NextNotificationLate(trigger, time) ==
    IF trigger = Never THEN MaxNotification
    ELSE LET wait == IF trigger > time THEN trigger - time ELSE 0
         IN Lesser(((wait + Resolution) \div Resolution) % TickModulus, MaxNotification)

\* NextTriggerChanged; the cast to uint32_t comes before the limit
NextNotification(trigger, time) ==
    IF trigger = Never THEN MaxNotification
    ELSE LET wait == IF trigger > time THEN trigger - time ELSE 0
         IN Lesser(((wait + Resolution - 1) \div Resolution) % TickModulus, MaxNotification)

NoStart == [timer |-> End, duration |-> 0]

Init ==
    /\ service = NoTimers
    /\ systemTime = 0
    /\ ticksProgressed = 0
    /\ ticksNextNotification = NextNotification(Never, 0)
    /\ notificationScheduled = FALSE
    /\ events = 0
    /\ pc = "idle"
    /\ caller = "idle"
    /\ now = 0
    /\ starting = NoStart
    /\ reschedule = FALSE
    /\ total = 0
    /\ starts = 0
    /\ startedAt = [t \in Timers |-> 0]
    /\ duration = [t \in Timers |-> 0]
    /\ firedAfter = [t \in Timers |-> -1]

\* What a change of the timers does besides: NextTriggerChanged is called
\* when the next trigger time is another one
ServiceBecomes(s) ==
    /\ service' = s
    /\ ticksNextNotification' =
          IF s.nextTrigger /= service.nextTrigger
          THEN NextNotification(s.nextTrigger, systemTime) ELSE ticksNextNotification

-----------------------------------------------------------------------------
(* The interrupt *)

\* The counter is assumed not to overflow before ProcessTicks reads it.
CanTick == total < MaxTicks /\ ticksProgressed < TickModulus - 1

SystemTickInterrupt ==
    /\ CanTick
    /\ total' = total + 1
    /\ ticksProgressed' = (ticksProgressed + 1) % TickModulus
    /\ IF ticksProgressed' >= ticksNextNotification /\ ~notificationScheduled
       THEN notificationScheduled' = TRUE /\ events' = events + 1
       ELSE UNCHANGED <<notificationScheduled, events>>
    /\ UNCHANGED <<service, systemTime, ticksNextNotification, localVars, historyVars>>

-----------------------------------------------------------------------------
(* Clients, in an event of their own or in the action of a timer *)

Now == systemTime + ticksProgressed * Resolution

\* Start(duration), the read of Now()
CallStart(t, d) ==
    /\ pc \in {"idle", "action"}
    /\ starts < MaxStarts
    /\ service.armed[t] => RestartEarlier \/ service.triggerTime[t] <= Now + d + Resolution
    /\ starts' = starts + 1
    /\ now' = Now
    /\ starting' = [timer |-> t, duration |-> d]
    /\ startedAt' = [startedAt EXCEPT ![t] = total]
    /\ duration' = [duration EXCEPT ![t] = d]
    /\ firedAfter' = [firedAfter EXCEPT ![t] = -1]
    /\ caller' = pc
    /\ pc' = "start"
    /\ UNCHANGED <<service, systemTime, tickVars, reschedule>>

\* Start(duration), SetNextTriggerTime
FinishStart ==
    /\ pc = "start"
    /\ LET t == starting.timer IN
        /\ ServiceBecomes(SetNextTriggerTime(service, t,
                              FirstTriggerTime(t, starting.duration, now, Resolution)))
        /\ now' = 0
        /\ IF t \in Repeaters
           THEN pc' = "setDuration" /\ UNCHANGED <<caller, starting>>
           ELSE pc' = caller /\ caller' = "idle" /\ starting' = NoStart
    /\ UNCHANGED <<systemTime, ticksProgressed, notificationScheduled, events, total,
                   reschedule, historyVars>>

\* Start(duration) of a repeating timer, the rest: it reads Now() again
FinishSetDuration ==
    /\ pc = "setDuration"
    /\ ServiceBecomes(SetDuration(service, starting.timer, starting.duration, Now))
    /\ pc' = caller
    /\ caller' = "idle"
    /\ starting' = NoStart
    /\ UNCHANGED <<systemTime, ticksProgressed, notificationScheduled, events, total,
                   now, reschedule, historyVars>>

\* TimerSingleShot::Start(time)
StartAt(t, time) ==
    /\ pc \in {"idle", "action"}
    /\ starts < MaxStarts
    /\ service.armed[t] => RestartEarlier \/ service.triggerTime[t] <= time + Resolution
    /\ ServiceBecomes(SetNextTriggerTime(service, t, time + Resolution))
    /\ starts' = starts + 1
    /\ startedAt' = [startedAt EXCEPT ![t] = total]
    /\ duration' = [duration EXCEPT ![t] = IF time > Now THEN time - Now ELSE 0]
    /\ firedAfter' = [firedAfter EXCEPT ![t] = -1]
    /\ UNCHANGED <<systemTime, ticksProgressed, notificationScheduled, events, total, localVars>>

CancelTimer(t) ==
    /\ pc \in {"idle", "action"}
    /\ service.armed[t]
    /\ ServiceBecomes(Cancel(service, t))
    /\ UNCHANGED <<systemTime, ticksProgressed, notificationScheduled, events, total,
                   localVars, historyVars>>

-----------------------------------------------------------------------------
(* ProcessTicks *)

\* ticksProgressed.exchange(0)
ExchangeTicks ==
    /\ pc = "idle"
    /\ events > 0
    /\ events' = events - 1
    /\ now' = ticksProgressed * Resolution
    /\ ticksProgressed' = 0
    /\ pc' = "exchanged"
    /\ UNCHANGED <<service, systemTime, ticksNextNotification, notificationScheduled, total,
                   caller, starting, reschedule, historyVars>>

TimeProgressed ==
    /\ pc = "exchanged"
    /\ systemTime' = systemTime + now
    /\ now' = 0
    /\ service' = BeginProgressed(service)
    /\ pc' = "loop"
    /\ UNCHANGED <<tickVars, caller, starting, reschedule, historyVars>>

SkipTimer ==
    /\ pc = "loop"
    /\ service.timerIterator /= End
    /\ ~Due(service, service.timerIterator, systemTime)
    /\ service' = Advance(service)
    /\ UNCHANGED <<systemTime, tickVars, localVars, historyVars>>

TriggerTimer ==
    /\ pc = "loop"
    /\ service.timerIterator /= End
    /\ Due(service, service.timerIterator, systemTime)
    /\ LET t == service.timerIterator IN
        /\ ServiceBecomes(ComputeNextTriggerTime(Advance(service), t, Now))
        /\ firedAfter' = [firedAfter EXCEPT ![t] = IF @ = -1 THEN total - startedAt[t] ELSE @]
    /\ pc' = "action"
    /\ UNCHANGED <<systemTime, ticksProgressed, notificationScheduled, events, total,
                   caller, now, starting, reschedule, starts, startedAt, duration>>

ActionReturns ==
    /\ pc = "action"
    /\ pc' = "loop"
    /\ UNCHANGED <<service, systemTime, tickVars, caller, now, starting, reschedule, historyVars>>

\* The loop ends; NextTriggerChanged is called by ProcessTicks in any case.
FinishProgressed ==
    /\ pc = "loop"
    /\ service.timerIterator = End
    /\ service' = EndProgressed(service)
    /\ ticksNextNotification' = NextNotification(service'.nextTrigger, systemTime)
    /\ pc' = "changed"
    /\ UNCHANGED <<systemTime, ticksProgressed, notificationScheduled, events, total,
                   caller, now, starting, reschedule, historyVars>>

CompareTicks ==
    /\ pc = "changed"
    /\ reschedule' = (ticksProgressed >= ticksNextNotification)
    /\ pc' = "compared"
    /\ UNCHANGED <<service, systemTime, tickVars, caller, now, starting, historyVars>>

AssignNotificationScheduled ==
    /\ pc = "compared"
    /\ notificationScheduled' = reschedule
    /\ events' = IF reschedule THEN events + 1 ELSE events
    /\ pc' = "processed"
    /\ UNCHANGED <<service, systemTime, ticksProgressed, ticksNextNotification, total,
                   caller, now, starting, reschedule, historyVars>>

ProcessTicksReturns ==
    /\ pc = "processed"
    /\ pc' = "idle"
    /\ reschedule' = FALSE
    /\ UNCHANGED <<service, systemTime, tickVars, caller, now, starting, historyVars>>

ProcessTicks ==
    \/ ExchangeTicks
    \/ TimeProgressed
    \/ SkipTimer
    \/ TriggerTimer
    \/ ActionReturns
    \/ FinishProgressed
    \/ CompareTicks
    \/ AssignNotificationScheduled
    \/ ProcessTicksReturns

Client ==
    \/ \E t \in Timers, d \in Durations : CallStart(t, d)
    \/ FinishStart
    \/ FinishSetDuration
    \/ \E t \in SingleShots, time \in Times : StartAt(t, time)
    \/ \E t \in Timers : CancelTimer(t)

Next == SystemTickInterrupt \/ Client \/ ProcessTicks

Spec == Init /\ [][Next]_vars

\* The hardware timer ticks, the event dispatcher runs its events, and a call
\* of Start and an action come to an end.
FairSpec ==
    /\ Spec
    /\ WF_vars(SystemTickInterrupt)
    /\ WF_vars(ProcessTicks)
    /\ WF_vars(FinishStart)
    /\ WF_vars(FinishSetDuration)

-----------------------------------------------------------------------------
(* Properties *)

(***************************************************************************)
(* A timer never triggers early, wherever in a tick it was started: n      *)
(* ticks between Start and the trigger guarantee n - 1 full ticks of       *)
(* elapsed time, which Timer.cpp makes up for by adding Resolution().      *)
(***************************************************************************)
NeverEarly ==
    \A t \in Timers :
        firedAfter[t] >= 0 /\ duration[t] > 0 => (firedAfter[t] - 1) * Resolution >= duration[t]

(***************************************************************************)
(* Outside the loop over the timers, and unless a repeating timer's Start  *)
(* is half done, the service's next trigger time is the earliest trigger   *)
(* time of the timers that are armed: no sequence of Start, Cancel and     *)
(* triggers with the updates held loses one.                               *)
(***************************************************************************)
NextTriggerIsEarliest ==
    ~service.holdUpdate /\ pc /= "setDuration" =>
        service.nextTrigger = Earliest(service, {t \in Timers : service.armed[t]})

(***************************************************************************)
(* The list holds the armed timers, each once, and the iteration, which    *)
(* actions disturb by starting and cancelling timers, never stands on a    *)
(* timer that left the list.                                               *)
(***************************************************************************)
ListConsistent ==
    /\ Scheduled(service) = {t \in Timers : service.armed[t]}
    /\ Len(service.scheduledTimers) = Cardinality(Scheduled(service))
    /\ service.timerIterator \in Scheduled(service) \cup {End}

(***************************************************************************)
(* When the loop over the timers is done, a timer that is due by now was   *)
(* started during it: none was skipped because the action of another one   *)
(* changed the list under the iteration.                                   *)
(***************************************************************************)
NoDueTimerSkipped ==
    pc = "loop" /\ service.timerIterator = End =>
        \A t \in Timers : service.armed[t] /\ Due(service, t, systemTime) => firedAfter[t] = -1

\* Whether ProcessTicks is under way and has not yet assigned notificationScheduled
Processing ==
    \/ pc \in {"exchanged", "loop", "action", "changed", "compared"}
    \/ pc \in {"start", "setDuration"} /\ caller = "action"

(***************************************************************************)
(* notificationScheduled says exactly whether a ProcessTicks is scheduled  *)
(* or under way: were it set with none, no tick would ever be processed    *)
(* again, and were two scheduled, the dispatcher's queue would fill up.    *)
(***************************************************************************)
FlagMatchesEvent ==
    events + (IF Processing THEN 1 ELSE 0) = (IF notificationScheduled THEN 1 ELSE 0)

(***************************************************************************)
(* The bookkeeping of the service survives timers that are started and     *)
(* cancelled from actions, in the middle of the iteration, with ticks in   *)
(* between any two accesses.                                               *)
(***************************************************************************)
TimersConsistent ==
    /\ TypeOK
    /\ NextTriggerIsEarliest
    /\ ListConsistent
    /\ NoDueTimerSkipped
    /\ FlagMatchesEvent

\* A timer that is armed, and not in the middle of a repeating timer's Start
Waiting(t) == service.armed[t] /\ ~(pc = "setDuration" /\ starting.timer = t)

(***************************************************************************)
(* A tick at which the time of some timer has come never passes unnoticed: *)
(* it leaves a notification scheduled (SystemTickInterrupt compares with   *)
(* what NextTriggerChanged computed at an earlier time).                   *)
(***************************************************************************)
DueTickNoticed ==
    [][total' > total /\ (\E t \in Timers : Waiting(t) /\ service.triggerTime[t] <= Now')
         => notificationScheduled']_vars

(***************************************************************************)
(* A timer whose time has come triggers, unless it is cancelled or started *)
(* again.  One more tick may be needed, when the last ones fell in the     *)
(* moment where ProcessTicks has compared and not yet stored: the next one *)
(* is noticed.                                                             *)
(***************************************************************************)
DueTimerTriggers ==
    \A t \in Timers :
        (service.armed[t] /\ service.triggerTime[t] <= Now /\ pc /= "compared" /\ CanTick)
            ~> (~service.armed[t] \/ starting.timer = t \/ service.triggerTime[t] > Now)

(***************************************************************************)
(* What the comment in ProcessTicks says it avoids: when it is done, ticks *)
(* that arrived in the meantime and make a timer due are notified.         *)
(***************************************************************************)
NotificationNotMissed ==
    pc = "processed" /\ ticksProgressed >= ticksNextNotification => notificationScheduled
=============================================================================
