------------------------------ MODULE MCTimers ------------------------------
(***************************************************************************)
(* The timer services, side by side for TLC.  A behaviour is about one     *)
(* subject, and the others stay where they begin:                          *)
(*   "ticks"    TickOnInterruptTimerService;                               *)
(*   "host"     TimerServiceBsd;                                           *)
(*   "derived"  a derived service on a base that somebody else uses too.   *)
(***************************************************************************)
EXTENDS TickOnInterruptTimerService

\* Of the host's service, and of the derived one and its base
CONSTANTS
    HostDurations, HostMaxTime, HostMaxStarts,
    Own, BaseTimers, BaseResolution, DerivedDurations, Shifts, Factors, Fractions,
    DerivedMaxTime, DerivedMaxStarts, MaxShifts

VARIABLES
    subject,
    hostService, nextTrigger, quit, hostClock, mutex, tpc, deadline, hostPc, return,
    hostStarting, hostEvents, hostTime, hostStarts,
    base, derived, scaling, derivedTrigger, clock, derivedPc, time, derivedStarts, shifts

Host == INSTANCE TimerServiceBsd
    WITH service <- hostService, clock <- hostClock, pc <- hostPc, starting <- hostStarting,
         events <- hostEvents, time <- hostTime, starts <- hostStarts,
         Durations <- HostDurations, MaxTime <- HostMaxTime, MaxStarts <- HostMaxStarts

Derived == INSTANCE DerivedTimerService
    WITH nextTrigger <- derivedTrigger, pc <- derivedPc, starts <- derivedStarts,
         Resolution <- BaseResolution, Durations <- DerivedDurations, ActionsShift <- FALSE,
         MaxTime <- DerivedMaxTime, MaxStarts <- DerivedMaxStarts

ASSUME HostAssumption == Host!HostAssumption
ASSUME DerivedAssumption == Derived!DerivedAssumption

hostVars == <<hostService, nextTrigger, quit, hostClock, mutex, tpc, deadline, hostPc, return,
              hostStarting, hostEvents, hostTime, hostStarts>>
derivedVars == <<base, derived, scaling, derivedTrigger, clock, derivedPc, time,
                 derivedStarts, shifts>>

TimersInit ==
    /\ subject \in {"ticks", "host", "derived"}
    /\ Init /\ Host!Init /\ Derived!Init

TimersNext ==
    \/ subject = "ticks" /\ Next /\ UNCHANGED <<subject, hostVars, derivedVars>>
    \/ subject = "host" /\ Host!Next /\ UNCHANGED <<subject, vars, derivedVars>>
    \/ subject = "derived" /\ Derived!Next /\ UNCHANGED <<subject, vars, hostVars>>

\* The fairness that each component states, where it is the subject
TimersSpec ==
    /\ TimersInit /\ [][TimersNext]_<<subject, vars, hostVars, derivedVars>>
    /\ WF_vars(subject = "ticks" /\ SystemTickInterrupt)
    /\ WF_vars(subject = "ticks" /\ ProcessTicks)
    /\ WF_vars(subject = "ticks" /\ FinishStart)
    /\ WF_vars(subject = "ticks" /\ FinishSetDuration)
    /\ SF_hostVars(subject = "host" /\ Host!WaitForTrigger)
    /\ SF_hostVars(subject = "host" /\ Host!Dispatcher)

-----------------------------------------------------------------------------
\* No timer triggers early: wherever in a tick it is started, and whatever
\* the derived service compares with when its time is shifted and scaled.
TimersNeverEarly == NeverEarly /\ Derived!DerivedNeverEarly

\* A timer that waits is not forgotten, whatever is started, cancelled or
\* triggered meanwhile and on whatever thread: list, next trigger time and
\* notification agree (TickOnInterruptTimerService), the thread waits for
\* the earliest timer (TimerServiceBsd), and so does the derived service
\* with its timer of the base, which triggers in time (DerivedTimerService).
NoTimerForgotten ==
    /\ TimersConsistent
    /\ Host!TypeOK /\ Host!TriggerKnown
    /\ Derived!TypeOK /\ Derived!NeverAbandoned /\ Derived!DerivedNeverLate

\* A tick at which the time of a timer has come is noticed when it happens,
\* and the timer triggers, unless it is cancelled or started again; so does
\* a timer of a host.
DueTimersTrigger == DueTickNoticed /\ DueTimerTriggers /\ Host!HostTimerTriggers
=============================================================================
