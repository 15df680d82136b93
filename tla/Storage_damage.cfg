CONSTANTS
    MaxSets = 2
    Faults = {"kill", "damage"}
SPECIFICATION Spec
INVARIANT FallsBackOnBackup
CHECK_DEADLOCK FALSE
