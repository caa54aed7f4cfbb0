CONSTANTS
    Main = Main
    Timer = Timer
    Resolver = Resolver
    Procs <- ThreadProcs
    Size = 2
    MaxSchedules = 4
    MaxOutstanding = 3
    Preempts <- InterruptPriorities
    Blocking = TRUE
CHECK_DEADLOCK FALSE
SPECIFICATION Spec
INVARIANTS
    OverflowCaught
