SPECIFICATION FairSpec
CONSTANTS
    x = x  y = y  p = p
    Node = {x, y, p}
    PeerId = {p}
    Addr = {x, y, p}
    NoAddr = NoAddr  NoRecord = NoRecord  Nobody = Nobody
    MaxNetworkPeers = 3  InactiveAfter = 0  StaleTimeout = 0
    EndpointOf <- MCEndpointOf
    Looping = {x, y}
    Mortal = {p}
PROPERTIES DelistedPeerDetected
