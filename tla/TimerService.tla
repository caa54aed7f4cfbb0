---------------------------- MODULE TimerService ----------------------------
(***************************************************************************)
(* infra/timer/Timer.cpp and TimerService.cpp: the timers of a timer       *)
(* service, and what starting, cancelling and triggering one does to them. *)
(* The state is a record that the operators below take and return, so that *)
(* nested calls (a repeating timer's Start sets its trigger time twice, a  *)
(* trigger recomputes it) compose as they do in the code.  Time is counted *)
(* in the units of infra::Duration.                                        *)
(***************************************************************************)
EXTENDS Integers, SequencesExt

CONSTANTS
    SingleShots,  \* timers that are a TimerSingleShot
    Repeaters,    \* timers that are a TimerRepeating
    End,          \* scheduledTimers.end()
    Never         \* TimePoint::max()

Timers == SingleShots \cup Repeaters

ASSUME TimersAssumption == End \notin Timers /\ SingleShots \cap Repeaters = {}
ASSUME NeverAssumption == Never \in Nat

ServiceType ==
    [scheduledTimers : Seq(Timers),
     timerIterator : Timers \cup {End},
     nextTrigger : Int,
     holdUpdate : BOOLEAN,
     updateNeeded : BOOLEAN,
     armed : [Timers -> BOOLEAN],
     triggerTime : [Timers -> Int],
     triggerPeriod : [Timers -> Nat]]

NoTimers ==
    [scheduledTimers |-> << >>,
     timerIterator |-> End,
     nextTrigger |-> Never,
     holdUpdate |-> FALSE,
     updateNeeded |-> FALSE,
     armed |-> [t \in Timers |-> FALSE],
     triggerTime |-> [t \in Timers |-> 0],
     triggerPeriod |-> [t \in Timers |-> 0]]

Scheduled(s) == {s.scheduledTimers[i] : i \in 1 .. Len(s.scheduledTimers)}

Index(s, t) == CHOOSE i \in 1 .. Len(s.scheduledTimers) : s.scheduledTimers[i] = t

\* The timer after t in the list
After(s, t) ==
    IF Index(s, t) = Len(s.scheduledTimers) THEN End ELSE s.scheduledTimers[Index(s, t) + 1]

\* The earliest of the trigger times of a set of timers
Earliest(s, ts) ==
    CHOOSE m \in {s.triggerTime[t] : t \in ts} \cup {Never} :
        m <= Never /\ \A t \in ts : m <= s.triggerTime[t]

ComputeNextTrigger(s) ==
    IF s.holdUpdate THEN [s EXCEPT !.updateNeeded = TRUE]
    ELSE [s EXCEPT !.updateNeeded = FALSE,
                   !.nextTrigger = Earliest(s, Scheduled(s))]

RegisterTimer(s, t) ==
    [s EXCEPT !.scheduledTimers = <<t>> \o s.scheduledTimers,
              !.nextTrigger = IF s.triggerTime[t] < s.nextTrigger
                              THEN s.triggerTime[t] ELSE s.nextTrigger]

UnregisterTimer(s, t, oldTriggerTime) ==
    LET r == [s EXCEPT !.timerIterator = IF s.timerIterator = t THEN After(s, t)
                                         ELSE s.timerIterator,
                       !.scheduledTimers = RemoveAt(s.scheduledTimers, Index(s, t))]
    IN IF oldTriggerTime = r.nextTrigger THEN ComputeNextTrigger(r) ELSE r

UpdateTriggerTime(s, oldTriggerTime) ==
    IF s.nextTrigger = oldTriggerTime THEN ComputeNextTrigger(s) ELSE s

Cancel(s, t) ==
    LET r == IF s.armed[t] THEN UnregisterTimer(s, t, s.triggerTime[t]) ELSE s
    IN [r EXCEPT !.triggerTime[t] = 0, !.armed[t] = FALSE]

SetNextTriggerTime(s, t, time) ==
    LET r == [s EXCEPT !.triggerTime[t] = time]
        u == IF s.armed[t] THEN UpdateTriggerTime(r, s.triggerTime[t]) ELSE RegisterTimer(r, t)
    IN [u EXCEPT !.armed[t] = TRUE]

\* TimerRepeating::ComputeNextTriggerTime: the first multiple of the period
\* after now, counted from the last trigger time
RepeatTriggerTime(s, t, now) ==
    LET latest == IF now >= s.triggerTime[t] THEN now ELSE s.triggerTime[t]
    IN latest - ((latest - s.triggerTime[t]) % s.triggerPeriod[t]) + s.triggerPeriod[t]

ComputeNextTriggerTime(s, t, now) ==
    IF t \in SingleShots THEN Cancel(s, t)
    ELSE SetNextTriggerTime(s, t, RepeatTriggerTime(s, t, now))

\* Mutant: the tick in progress is counted as a full one.
FirstTriggerTimeUnrounded(t, duration, now, resolution) ==
    IF t \in SingleShots THEN now + duration ELSE now

\* What Start(duration) passes to SetNextTriggerTime: a single shot's trigger
\* time, and where a repeating timer's ComputeNextTriggerTime counts from
FirstTriggerTime(t, duration, now, resolution) ==
    IF t \in SingleShots THEN now + duration + resolution ELSE now + resolution

\* TimerRepeating::SetDuration
SetDuration(s, t, duration, now) ==
    ComputeNextTriggerTime([s EXCEPT !.triggerPeriod[t] = duration], t, now)

\* The parts of Progressed: the loop's initialisation, one iteration up to
\* the call of the action, and what follows the loop
BeginProgressed(s) ==
    [s EXCEPT !.holdUpdate = TRUE,
              !.timerIterator = IF s.scheduledTimers = << >> THEN End ELSE s.scheduledTimers[1]]

Due(s, t, time) == s.triggerTime[t] <= time

Advance(s) == [s EXCEPT !.timerIterator = After(s, s.timerIterator)]

EndProgressed(s) ==
    LET r == [s EXCEPT !.holdUpdate = FALSE]
    IN IF r.updateNeeded THEN ComputeNextTrigger(r) ELSE r
=============================================================================
