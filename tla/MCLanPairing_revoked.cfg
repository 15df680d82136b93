CONSTANTS
    Devices = {d1, d2}
    NoDevice = NoDevice
    Workers = {w1}
    Host = host
    MaxTokens = 3
    MaxTickets = 1
    MaxCodes = 4
    WritesFail = FALSE
SYMMETRY LanSymmetry
SPECIFICATION LanSpec
INVARIANT RevokedStaysOut
CHECK_DEADLOCK FALSE
