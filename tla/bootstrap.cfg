SPECIFICATION FairSpec
CONSTANTS
    p = p  q = q  r = r  s = s
    g1 = g1  g2 = g2  g3 = g3  h1 = h1  h2 = h2  h3 = h3
    PeerId = {p, q, r, s}
    Addr = {g1, g2, g3, h1, h2, h3}
    NoAddr = NoAddr  Down = Down
    MaxNetworkPeers = 2
    MayServeAt <- RestartServe
INVARIANTS TypeOK ListBounded NoGhosts
PROPERTIES ListingSpec RunningListed
