CONSTANTS
    Jobs = {j1, j2}
    NoJob = NoJob
    Kinds = {live, extract}
    LiveSportsFetch = live
    EngineJsExtract = extract
    Hosts = {h1}
    MAX_ROWS = 1
    MaxEmits = 1
    MaxCancels = 1
SPECIFICATION LivenessSpec
PROPERTIES
    AbortedJobAnswered
    ShutdownAnswersAll
CHECK_DEADLOCK FALSE
