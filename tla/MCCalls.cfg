CONSTANTS
    Threads = {t1, t2}
    MaxCalls = 3
    MAX_HOP_DEPTH = 2
    MaxHostCalls = 2
    Urls = {u1, u2}
    Clients = {c1}
    Sizes = {1, 3}
    AHEAD_MAX_SEGS = 2
    AHEAD_MAX_BYTES = 3
    MaxSets = 3
    Faults = {"io", "kill"}
SPECIFICATION CallsSpec
INVARIANTS
    TypeOK
    FreshTokensLive
    NoLostShutdown
    AheadAccounting
    OneFetchPerUrl
PROPERTIES
    PlaybackCancelSparesCatalog
    ShutdownUnblocks
    PluginEnds
    WaitersEnd
    ImplementsDurableMap
CHECK_DEADLOCK FALSE
