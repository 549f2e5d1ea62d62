SPECIFICATION FairSpec
CONSTANTS
    self = self  p = p  q = q
    PeerId = {self, p}
    Addr = {self, p, q}
    NoAddr = NoAddr  NoRecord = NoRecord  Nobody = Nobody
    MaxNetworkPeers = 2  InactiveAfter = 0  StaleTimeout = 1
    Self = self
    SelfEndpoint <- MCSelfEndpoint
    MaxListed = 2
    MayServeAt <- ApartServe
    LeaveCalls = {p}  Announcers = {p}
PROPERTIES NoReturn GonePeerRetired RetiredPeerPurged
