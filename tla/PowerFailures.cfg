SPECIFICATION FlashSpec
CONSTANTS
    WithFactoryDefault = TRUE
    MaxVersion = 3
    MaxLocks = 2
    MaxCrashes = 2
    Packs <- MCPacks
    NumChunks = 2
    Overrides = FALSE
    PackSizes = {1, 6, 7}
    FromSize = 6
    ToSize = 6
    MaxFailures = 3
CHECK_DEADLOCK FALSE
INVARIANTS
    StoreInv
    UpgradeSafe
PROPERTIES
    RecoversWhatIsStored
    StoreIsDurable
    EveryWriteStored
    InvalidIsFinal
    EveryUpgradeEnds
