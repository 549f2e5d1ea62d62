SPECIFICATION Spec
CONSTANTS
    self = self  p = p  q = q  r = r
    g0 = g0  g1 = g1  g2 = g2  g3 = g3  h0 = h0  h1 = h1  h2 = h2  h3 = h3  g4 = g4  h4 = h4
    PeerId = {self, p, q, r}
    Addr = {g0, g1, g2, g3, h0, h1, h2, h3, g4, h4}
    NoAddr = NoAddr  NoRecord = NoRecord  Nobody = Nobody
    MaxNetworkPeers = 3  InactiveAfter = 0  StaleTimeout = 0
    Self = self
    SelfEndpoint <- MCSelfEndpoint
    MaxListed = 1
    MayServeAt <- MovingServe
    LeaveCalls = {p}  Announcers = {}
INVARIANTS TypeOK Capacity SelfIntact NoSharedAddress
PROPERTIES DropsJustified
