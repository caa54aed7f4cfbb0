SPECIFICATION ProtocolsSpec
CONSTANTS
    Connections = {c1, c2}
    ThirdConnection = c3
    None = None
    Requests = {"get", "bad", "expect", "long"}
    BufferSize = 2
    MaxRequests = 2
    Polite = TRUE
    Patient = FALSE
    TakesOver = TRUE
    LateAnswers = TRUE
    Stops = TRUE
    Lingers = FALSE
    Retries = TRUE
    MaxConnects = 3
    MaxPublishes = 4
CHECK_DEADLOCK FALSE
INVARIANTS
    HttpSafe
    MqttSafe
PROPERTIES
    NotClosedWhenBusy
    EveryoneServed
