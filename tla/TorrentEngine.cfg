CONSTANTS
    Hashes = {hA, hB}
    Forms = {"hex"}
    Openers = {o1, o2}
    TVs = {tv}
    Host = Host
    NoLease = NoLease
    MaxIds = 2
    MaxOpens = 2
SPECIFICATION TorrentSpec
INVARIANT OnlyActiveDownloads
PROPERTIES
    SwitchSparesPlayed
    AbandonedLeaseEnds
CHECK_DEADLOCK FALSE
