CONSTANTS
    End = End
    SingleShots = {s1}
    Repeaters = {r1}
    Never = 1000
    Resolution = 2
    Durations = {1, 3}
    Times = {3}
    TickModulus = 16
    MaxTicks = 4
    MaxStarts = 3
    RestartEarlier = FALSE
    HostDurations = {1, 3}
    HostMaxTime = 4
    HostMaxStarts = 2
    Own = Own
    BaseTimers = {b1}
    BaseResolution = 1
    DerivedDurations = {2}
    Shifts = {1}
    Factors = {2}
    Fractions = FALSE
    DerivedMaxTime = 4
    DerivedMaxStarts = 3
    MaxShifts = 1
CHECK_DEADLOCK FALSE
SPECIFICATION TimersSpec
INVARIANTS
    TimersNeverEarly
    NoTimerForgotten
PROPERTIES
    DueTimersTrigger
