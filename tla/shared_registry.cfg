SPECIFICATION FairSpec
CONSTANTS
    a = a  b = b  p = p
    Node = {a, b}
    PeerId = {p}
    Addr = {a, b, p}
    NoAddr = NoAddr  NoRecord = NoRecord
    MaxNetworkPeers = 1  InactiveAfter = 0  StaleTimeout = 0
    OwnEndpoint <- ApartOwn
    MayServeAt <- ApartServe
    LeaveCalls = {p}
    MaxCalls = 2
INVARIANTS TypeOK LastSeenTrue
PROPERTIES LastSeenForward NoRevival SilentPeerInactive
