CONSTANTS
    Devices = {d1, d2}
    NoDevice = NoDevice
    Workers = {w1}
    Host = host
    MaxTokens = 2
    MaxTickets = 1
    MaxCodes = 3
    WritesFail = FALSE
SYMMETRY LanSymmetry
SPECIFICATION LanSpec
INVARIANT LanOffRevokesAll
CHECK_DEADLOCK FALSE
