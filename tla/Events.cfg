SPECIFICATION EventsSpec
CONSTANTS
    Claimers = {c1, c2, c3}
    None = None
    MaxEvents = 4
    N = 4
    MaxElements = 7
    Participants = {p1, p2, p3}
    Leavers = {p3}
    NumStates = 3
    RunsAgain = FALSE
CHECK_DEADLOCK FALSE
INVARIANTS
    QueueSafe
    ResourceInv
    AccessSafe
    StatesSafe
PROPERTIES
    EveryoneGranted
    EveryEventHandled

