CONSTANTS
    MAX_PROVIDER_DISPLACEMENT = 2
    RELIABILITY_ORDER_CLAMP = 20
SPECIFICATION RankSpec
INVARIANT MovesWithinCap
CHECK_DEADLOCK FALSE
