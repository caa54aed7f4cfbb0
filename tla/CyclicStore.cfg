CONSTANTS
    Reader = Reader
    Iterators <- NoReader
    NumberOfSectors = 3
    SectorSize = 9
    Lengths = {1, 2}
    AddressSpace = 108
    PartialAdds = TRUE
    CrashAfterMark = FALSE
    ReadAgain = FALSE
    MaxItems = 6
    MaxCrashes = 1
    MaxClears = 1
    MaxBegins = 0
SPECIFICATION StoreSpec
CHECK_DEADLOCK FALSE
INVARIANTS
    StoreSafe
    ScanComplete
PROPERTIES
    RecoveryKeepsItems
    EverythingEnds
