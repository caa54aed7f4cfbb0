CONSTANTS
    Own = Own
    BaseTimers = {}
    SingleShots = {s1}
    Repeaters = {r1}
    End = End
    Never = 1000
    Resolution = 1
    Durations = {1}
    Shifts = {}
    Factors = {3}
    RestartEarlier = FALSE
    Fractions = TRUE
    ActionsShift = FALSE
    MaxTime = 8
    MaxStarts = 2
    MaxShifts = 1
CHECK_DEADLOCK FALSE
SPECIFICATION Spec
INVARIANT DerivedNeverLate
