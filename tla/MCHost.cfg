CONSTANTS
    Jobs = {j1, j2}
    NoJob = NoJob
    Kinds = {live, extract, torrent}
    LiveSportsFetch = live
    EngineJsExtract = extract
    Hosts = {h1}
    MAX_ROWS = 1
    MaxEmits = 2
    MaxCancels = 1
    Devices = {d1, d2}
    NoDevice = NoDevice
    Workers = {w1, w2}
    Host = host
    MaxTokens = 2
    MaxTickets = 1
    MaxCodes = 3
    WritesFail = TRUE
SYMMETRY HostSymmetry
SPECIFICATION HostSpec
INVARIANTS
    TypeOK
    StoreConsistent
    CancelAllReachesMinted
    AnsweredQueueGone
    LanTypeOK
    IndexInvertsDevices
    TicketsOfCurrentTokens
    CodePairsOnce
    DurableUnlessOverlapped
PROPERTIES
    OutcomeFinal
    AbortSparesOtherKinds
CHECK_DEADLOCK FALSE
