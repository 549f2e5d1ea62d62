SPECIFICATION RetrySpec
CONSTANTS
    self = self  p = p  q = q
    PeerId = {self, p, q}
    Addr = {self, p, q}
    NoAddr = NoAddr  NoRecord = NoRecord  Nobody = Nobody
    MaxNetworkPeers = 2  InactiveAfter = 0  StaleTimeout = 0
    Self = self
    SelfEndpoint <- MCSelfEndpoint
    MaxListed = 2
    MayServeAt <- ApartServe
    LeaveCalls = {}  Announcers = {}
PROPERTIES SlotReclaimed
