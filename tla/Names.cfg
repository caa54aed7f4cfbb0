SPECIFICATION NamesSpec
CONSTANTS
    Device = Device
    Update = Update
    Server1 = Server1
    Server2 = Server2
    NameServer = NameServer
    Nowhere = Nowhere
    None = None
    Failed = Failed
    Results <- TwoResults
    Names <- ThreeNames
    Hostname <- AskForAliases
    AliasOf <- Aliases
    Partial <- cut
    DnsServers <- TwoServers
    Referrals <- Additional
    maxAttempts = 2
    maxRecursions = 3
    MaxRequests = 3
    MaxPromptRequests = 2
    MaxLookups = 2
    MaxAhead = 1
    Clients = {A, B, C}
    NumParallelActions = 2
    NumConnectors = 1
    MaxConnects = 5
CHECK_DEADLOCK FALSE
INVARIANTS
    LookupSafe
    DnsSafe
    FactorySafe
PROPERTIES
    IsNameResolver
    EveryLookupEnds
