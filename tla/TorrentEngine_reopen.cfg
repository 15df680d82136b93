CONSTANTS
    Hashes = {hA, hB}
    Forms = {"hex"}
    Openers = {o1}
    TVs = {}
    Host = Host
    NoLease = NoLease
    MaxIds = 2
    MaxOpens = 2
SPECIFICATION TorrentSpec
PROPERTY PlayedUntilHead
CHECK_DEADLOCK FALSE
