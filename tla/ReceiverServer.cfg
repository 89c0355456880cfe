SPECIFICATION Spec
CONSTANTS
    c1 = c1
    c2 = c2
    c3 = c3
    p1 = p1
    p2 = p2
    p3 = p3
    Conns = {c1, c2, c3}
    Peers <- MCPeers
    Accounts = {friend, stranger}
    friend = friend
    stranger = stranger
    Certs <- MCCerts
    Known = {friend}
    NoAccount = NoAccount
    MaxConnections = 2
    MaxPerPeer = 1
    MaxUploads = 1
    MaxRequests <- MCRequests
    MaxLinks = 1
    MaxSwitches = 1
    Kinds <- MCKinds
INVARIANTS CapsHold ProvenIsKnown
PROPERTIES EvictsOnlyUnmarked DeliveryRefined
CHECK_DEADLOCK FALSE
