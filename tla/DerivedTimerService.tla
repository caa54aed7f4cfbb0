------------------------ MODULE DerivedTimerService ------------------------
(***************************************************************************)
(* infra/timer/DerivedTimerService.cpp and ScalableDerivedTimerService.cpp *)
(* (the first is the second with factor 1): a timer service whose time is  *)
(* the shifted and scaled time of another one, its base, and which waits   *)
(* with one timer of the base.  That timer's action is the loop over the   *)
(* derived timers, so that the two services iterate nested in each other.  *)
(* Everything runs on the thread of the dispatcher.  The base calls        *)
(* Progressed when the time that it has for its next trigger comes, as     *)
(* test_helper/PerfectTimerService does; other clients have timers of the  *)
(* base too.                                                               *)
(***************************************************************************)
EXTENDS Integers, Sequences

CONSTANTS
    Own,            \* the timer of the base that the derived service waits with
    BaseTimers,     \* other timers of the base
    SingleShots, Repeaters,     \* timers of the derived service
    End, Never,
    Resolution,     \* of the base
    Durations,
    Shifts,         \* arguments of Shift
    Factors,        \* arguments of Scale
    RestartEarlier, \* whether an armed timer that is not the next one is started
                    \* again for an earlier time
    Fractions,      \* whether trigger times are no whole times of the base
    ActionsShift,   \* whether the action of a derived timer calls Shift and Scale
    MaxTime, MaxStarts, MaxShifts    \* bounds

Base == INSTANCE TimerService WITH SingleShots <- {Own} \cup BaseTimers, Repeaters <- {}
Derived == INSTANCE TimerService

Timers == SingleShots \cup Repeaters

DerivedAssumption ==
    /\ Own \notin BaseTimers /\ End \notin {Own} \cup BaseTimers \cup Timers
    /\ SingleShots \cap Repeaters = {}
    /\ Resolution \in Nat /\ Never \in Nat
    /\ Durations \subseteq Nat \ {0} /\ Shifts \subseteq Int /\ Factors \subseteq Nat \ {0}
    /\ {RestartEarlier, Fractions, ActionsShift} \subseteq BOOLEAN
    /\ MaxTime \in Nat /\ MaxStarts \in Nat /\ MaxShifts \in Nat

VARIABLES
    base,           \* the base service and its timers
    derived,        \* the derived service and its timers
    scaling,        \* its shift, factor and startPointForFactor
    nextTrigger,    \* its member, a time of the base
    clock,          \* what Now() of the base returns
    pc,             \* where the dispatcher's thread is
    time,           \* the argument of Progressed
    starts, shifts  \* history: calls of Start, and of Shift and Scale

vars == <<base, derived, scaling, nextTrigger, clock, pc, time, starts, shifts>>

TypeOK ==
    /\ base \in Base!ServiceType
    /\ derived \in Derived!ServiceType
    /\ scaling \in [shift : Int, factor : Nat, start : Int]
    /\ nextTrigger \in Int
    /\ clock \in 0 .. MaxTime
    /\ pc \in {"idle", "base", "derived", "action"}
    /\ time \in [base : Int, derived : Int]
    /\ starts \in 0 .. MaxStarts
    /\ shifts \in 0 .. MaxShifts

-----------------------------------------------------------------------------
(* Time *)

ScaleTime(s, t) == s.start + (t - s.start + s.shift) * s.factor

\* Division of durations truncates.
Quotient(a, b) == IF a >= 0 THEN a \div b ELSE -((-a) \div b)
UnscaleTime(s, t) == Quotient(t - s.start, s.factor) - s.shift + s.start

Now == ScaleTime(scaling, clock)

Init ==
    /\ base = Base!NoTimers
    /\ derived = Derived!NoTimers
    /\ scaling = [shift |-> 0, factor |-> 1, start |-> 0]
    /\ nextTrigger = 0
    /\ clock = 0
    /\ pc = "idle"
    /\ time = [base |-> 0, derived |-> 0]
    /\ starts = 0 /\ shifts = 0

\* NextTriggerChanged: the timer of the base waits for the next derived one.
NextTriggerChanged(b, d, s) ==
    IF d.nextTrigger /= Never
    THEN Base!SetNextTriggerTime(b, Own, UnscaleTime(s, d.nextTrigger) + Resolution)
    ELSE Base!Cancel(b, Own)

WaitsFor(d, s, old) == IF d.nextTrigger /= Never THEN UnscaleTime(s, d.nextTrigger) ELSE old

\* The derived timers become d, and then e: a change of the next trigger
\* time calls NextTriggerChanged.
DerivedBecomes(b, d, e) ==
    LET c == IF d.nextTrigger /= derived.nextTrigger THEN NextTriggerChanged(b, d, scaling) ELSE b
    IN /\ derived' = e
       /\ base' = IF e.nextTrigger /= d.nextTrigger THEN NextTriggerChanged(c, e, scaling) ELSE c
       /\ nextTrigger' = IF e.nextTrigger /= derived.nextTrigger \/ d.nextTrigger /= derived.nextTrigger
                         THEN WaitsFor(e, scaling, WaitsFor(d, scaling, nextTrigger))
                         ELSE nextTrigger

-----------------------------------------------------------------------------
(* Clients, in an event of their own or in the action of a derived timer *)

Client == pc \in {"idle", "action"}

\* What clients do to timers when RestartEarlier and Fractions are FALSE
Earlier(s, r, t) ==
    /\ s.armed[t] /\ s.triggerTime[t] /= s.nextTrigger
    /\ r.armed[t] /\ r.triggerTime[t] < s.triggerTime[t]

Whole(s, d) == \A t \in Timers : d.armed[t] => (d.triggerTime[t] - s.start) % s.factor = 0

Tame ==
    /\ RestartEarlier \/ ~(Earlier(base, base', Own) \/ \E t \in Timers : Earlier(derived, derived', t))
    /\ Fractions \/ Whole(scaling', derived')

Start(t, d) ==
    /\ Client /\ starts < MaxStarts
    /\ LET first == Derived!SetNextTriggerTime(derived, t,
                        Derived!FirstTriggerTime(t, d, Now, Resolution * scaling.factor))
       IN DerivedBecomes(base, first,
              IF t \in Repeaters THEN Derived!SetDuration(first, t, d, Now) ELSE first)
    /\ starts' = starts + 1
    /\ UNCHANGED <<scaling, clock, pc, time, shifts>>
    /\ Tame

CancelTimer(t) ==
    /\ Client /\ derived.armed[t]
    /\ LET d == Derived!Cancel(derived, t) IN DerivedBecomes(base, d, d)
    /\ UNCHANGED <<scaling, clock, pc, time, starts, shifts>>

StartOfBase(t, d) ==
    /\ Client /\ starts < MaxStarts
    /\ ~base.armed[t]
    /\ base' = Base!SetNextTriggerTime(base, t, Base!FirstTriggerTime(t, d, clock, Resolution))
    /\ starts' = starts + 1
    /\ UNCHANGED <<derived, scaling, nextTrigger, clock, pc, time, shifts>>

Rescale(s) ==
    /\ pc = "idle" \/ (pc = "action" /\ ActionsShift)
    /\ shifts < MaxShifts
    /\ scaling' = s
    /\ base' = NextTriggerChanged(base, derived, s)
    /\ nextTrigger' = WaitsFor(derived, s, nextTrigger)
    /\ shifts' = shifts + 1
    /\ UNCHANGED <<derived, clock, pc, time, starts>>
    /\ Tame

Shift(shift) == Rescale([scaling EXCEPT !.shift = shift])

\* The start point is the present time, and the shift makes up for what the
\* new factor would make of it.
Scale(factor) ==
    LET s == [scaling EXCEPT !.start = Now, !.factor = factor]
    IN Rescale([s EXCEPT !.shift = s.shift + s.start - ScaleTime(s, clock)])

-----------------------------------------------------------------------------
(* The base.  Time passes when it has nothing to do. *)

Tick ==
    /\ pc = "idle" /\ clock < MaxTime
    /\ base.nextTrigger > clock
    /\ clock' = clock + 1
    /\ UNCHANGED <<base, derived, scaling, nextTrigger, pc, time, starts, shifts>>

ProgressBase ==
    /\ pc = "idle" /\ base.nextTrigger <= clock
    /\ base' = Base!BeginProgressed(base)
    /\ time' = [time EXCEPT !.base = clock]
    /\ pc' = "base"
    /\ UNCHANGED <<derived, scaling, nextTrigger, clock, starts, shifts>>

\* One iteration; the actions of the other timers of the base do not matter.
StepBase ==
    LET t == base.timerIterator IN
    /\ pc = "base" /\ t /= End
    /\ t = Own => ~Base!Due(base, t, time.base)
    /\ base' = IF Base!Due(base, t, time.base)
               THEN Base!ComputeNextTriggerTime(Base!Advance(base), t, clock)
               ELSE Base!Advance(base)
    /\ UNCHANGED <<derived, scaling, nextTrigger, clock, pc, time, starts, shifts>>

\* The action of the timer: Progressed of the derived service begins.
ProgressDerived ==
    /\ pc = "base" /\ base.timerIterator = Own
    /\ Base!Due(base, Own, time.base)
    /\ base' = Base!ComputeNextTriggerTime(Base!Advance(base), Own, clock)
    /\ derived' = Derived!BeginProgressed(derived)
    /\ time' = [time EXCEPT !.derived = ScaleTime(scaling, nextTrigger)]
    /\ pc' = "derived"
    /\ UNCHANGED <<scaling, nextTrigger, clock, starts, shifts>>

SkipDerived ==
    /\ pc = "derived" /\ derived.timerIterator /= End
    /\ ~Derived!Due(derived, derived.timerIterator, time.derived)
    /\ derived' = Derived!Advance(derived)
    /\ UNCHANGED <<base, scaling, nextTrigger, clock, pc, time, starts, shifts>>

TriggerDerived ==
    /\ pc = "derived" /\ derived.timerIterator /= End
    /\ Derived!Due(derived, derived.timerIterator, time.derived)
    /\ LET d == Derived!ComputeNextTriggerTime(Derived!Advance(derived), derived.timerIterator, Now)
       IN DerivedBecomes(base, d, d)
    /\ pc' = "action"
    /\ UNCHANGED <<scaling, clock, time, starts, shifts>>

ActionReturns ==
    /\ pc = "action"
    /\ pc' = "derived"
    /\ UNCHANGED <<base, derived, scaling, nextTrigger, clock, time, starts, shifts>>

FinishDerived ==
    /\ pc = "derived" /\ derived.timerIterator = End
    /\ LET d == Derived!EndProgressed(derived) IN DerivedBecomes(base, d, d)
    /\ time' = [time EXCEPT !.derived = 0]
    /\ pc' = "base"
    /\ UNCHANGED <<scaling, clock, starts, shifts>>

FinishBase ==
    /\ pc = "base" /\ base.timerIterator = End
    /\ base' = Base!EndProgressed(base)
    /\ time' = [time EXCEPT !.base = 0]
    /\ pc' = "idle"
    /\ UNCHANGED <<derived, scaling, nextTrigger, clock, starts, shifts>>

Next ==
    \/ \E t \in Timers, d \in Durations : Start(t, d)
    \/ \E t \in Timers : CancelTimer(t)
    \/ \E t \in BaseTimers, d \in Durations : StartOfBase(t, d)
    \/ \E s \in Shifts : Shift(s)
    \/ \E f \in Factors : Scale(f)
    \/ Tick
    \/ ProgressBase
    \/ StepBase
    \/ ProgressDerived
    \/ SkipDerived
    \/ TriggerDerived
    \/ ActionReturns
    \/ FinishDerived
    \/ FinishBase

Spec == Init /\ [][Next]_vars

-----------------------------------------------------------------------------
(* Properties *)

(***************************************************************************)
(* A derived timer triggers when the derived time has come to its trigger  *)
(* time, not before, although the loop compares with what nextTrigger says *)
(* and not with Now().                                                     *)
(***************************************************************************)
DerivedNeverEarly ==
    pc = "derived" /\ derived.timerIterator /= End
        /\ Derived!Due(derived, derived.timerIterator, time.derived)
            => derived.triggerTime[derived.timerIterator] <= Now

(***************************************************************************)
(* A derived timer whose time has come triggers, at most a resolution      *)
(* late: time does not go on while one is overdue.                         *)
(***************************************************************************)
DerivedNeverLate ==
    pc = "idle" /\ base.nextTrigger > clock =>
        \A t \in Timers : derived.armed[t] =>
            Now < derived.triggerTime[t] + (Resolution + 1) * scaling.factor

(***************************************************************************)
(* While a derived timer waits, the derived service waits for it: its      *)
(* timer of the base is armed for the earliest of them, with one           *)
(* resolution added, and the base has it in mind.                          *)
(***************************************************************************)
NeverAbandoned ==
    pc = "idle" /\ (\E t \in Timers : derived.armed[t]) =>
        /\ base.armed[Own]
        /\ base.triggerTime[Own] =
              UnscaleTime(scaling, Derived!Earliest(derived, {t \in Timers : derived.armed[t]}))
                  + Resolution
        /\ base.nextTrigger <= base.triggerTime[Own]

(***************************************************************************)
(* Scale changes how fast time goes, not what time it is.                  *)
(***************************************************************************)
ScaleKeepsTime ==
    [][scaling' /= scaling /\ scaling'.shift \notin Shifts => Now' = Now]_vars
=============================================================================
