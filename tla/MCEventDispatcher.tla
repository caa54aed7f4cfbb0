------------------------- MODULE MCEventDispatcher -------------------------
(* Instances of EventDispatcher for TLC. *)
EXTENDS EventDispatcher

CONSTANTS Timer, Resolver    \* two contexts besides the dispatcher's own

\* The thread of TimerServiceBsd and of NameLookupBsd, on several cores
ThreadProcs == {Main, Timer, Resolver}
NoPreemption == {}

\* Two interrupt handlers; Timer has the higher priority
InterruptPriorities == {<<Timer, Resolver>>, <<Timer, Main>>, <<Resolver, Main>>}
=============================================================================
