CONSTANTS
    LastPage = 3
    WALK_CONCURRENCY = 2
    TRANSIENT_MAX_ATTEMPTS = 2
    CandidatePaths = 2
    Workers = {w1, w2}
    MaxTrouble = 3
    OneToken = FALSE
SPECIFICATION StalkerSpec
INVARIANT CancelResetsForNewJobs
CHECK_DEADLOCK FALSE
