CONSTANTS
    Main = Main
    Timer = Timer
    Resolver = Resolver
    Procs <- ThreadProcs
    Size = 2
    MaxSchedules = 3
    MaxOutstanding = 2
    Preempts <- NoPreemption
    Blocking = TRUE
SPECIFICATION FairSpec
INVARIANTS
    ExecutedInOrder
    DispatcherInv
PROPERTIES
    QueueFair
