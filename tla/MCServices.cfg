CONSTANTS
    MaxSets = 3
    Faults = {"io", "kill", "power", "dirsync", "damage"}
    Titles = {"a", "b"}
    Providers = {"p"}
    provider_from_memory_key <- OneProvider
    Scopes = {"s1", "s2"}
    DefaultScope = "s1"
    MaxVerdicts = 3
    Identities = {"i1"}
    Shelves = {k1}
    CatalogAnswers <- Answers
    PageSizes = {1, 2}
    Packs = {p1}
    Channels = {ch}
    MaxKills = 2
    LastPage = 3
    WALK_CONCURRENCY = 2
    TRANSIENT_MAX_ATTEMPTS = 2
    CandidatePaths = 2
    Workers = {w1, w2}
    MaxTrouble = 2
    OneToken = FALSE
    Subs <- Reddits
    ClientIds = 2
    OauthLimit = 2
    RssLimit = 3
    RssMore = 2
    MAX_RESULTS = 3
    MaxPages = 6
    Outages = 3
    Lexicon <- Words
    PartOf <- Inside
    Teams <- League
    Games <- Games2
    SHORT_EPG_LIMIT = 2
    MAX_PROVIDER_DISPLACEMENT = 2
    RELIABILITY_ORDER_CLAMP = 20
    TeamGames = {"match"}
    EventGames = {"race"}
    ChannelLists <- LiveLists3
    Foldless <- Foldless3
    MAX_EPG_FETCHES = 4
    EPG_BATCH_SIZE = 2
    MaxEvents = 2
    Origins = {"a", "b"}
    MAX_REDIRECTS = 2
    MAX_RESPONSE_BYTES = 3
    ChunkBytes = {1, 2}
    MaxStarts = 3
    MaxExt = 3
    MaxClock = 3
    MAX_SESSIONS = 2
    SESSION_TTL = 2
    SeekSessions = {1, 2}
    Length = 3
    CHUNK_SIZE = 2
    MAX_RECONNECTS = 1
    NetSizes = {1, 2}
    WrongLengths = {1, 5}
    SeekFaults = {"shared", "full", "straddle", "leftover", "purged", "misprobed", "unwritten", "reordered"}
SPECIFICATION ServicesSpec
INVARIANTS
    NoTruncatedWrite
    AckedSurvives
    OrdersKept
    NoPhantomTotal
    ScopesApart
    ShelfWhole
    PagesCover
    CatalogWhole
    ScrapeCovers
    BatchesAddUp
    FetchConfined
    UrlsServed
    SeekServesUpstream
    PlaylistServed
CHECK_DEADLOCK FALSE
