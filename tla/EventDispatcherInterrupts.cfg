CONSTANTS
    Main = Main
    Timer = Timer
    Resolver = Resolver
    Procs <- ThreadProcs
    Size = 2
    MaxSchedules = 5
    MaxOutstanding = 4
    Preempts <- InterruptPriorities
    Blocking = FALSE
\* a failed assertion stops the program
CHECK_DEADLOCK FALSE
SPECIFICATION Spec
INVARIANTS
    AbortOnlyOnOverflow
    MinCapacitySound
