CONSTANTS
    Jobs = {j1}
    NoJob = NoJob
    Kinds = {live, extract}
    LiveSportsFetch = live
    EngineJsExtract = extract
    Hosts = {h1}
    MAX_ROWS = 48
    MaxEmits = 2
    MaxCancels = 0
SPECIFICATION Spec
INVARIANT EveryRowShown
CHECK_DEADLOCK FALSE
