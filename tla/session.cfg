\* Sessions over a reliable link, and over links with each kind of fault.
SPECIFICATION Spec
CONSTANTS
    mac = mac
    peer_mac = peer_mac
    bcast = bcast
    zero_mac = zero_mac
    ip = ip
    peer_ip = peer_ip
    zero_ip = zero_ip
    p_listen = p_listen
    p_peer = p_peer
    p_zero = p_zero
    p_closed = p_closed
    d1 = d1
    d2 = d2
    d3 = d3
    no_data = no_data
    Macs <- MCMacs
    Broadcast = bcast
    Ips <- MCIps
    ZeroIp = zero_ip
    Ports <- MCPorts
    ZeroPort = p_zero
    Data <- MCData
    NoData = no_data
    SeqSpace = 16
    IdMod = 2
    CLIENT_MAC = peer_mac
    STACK_MAC = mac
    ZERO_MAC = zero_mac
    CLIENT_IP = peer_ip
    STACK_IP = ip
    ListenPort = p_listen
    Iss = 12
    BytesMod = 32
    PeerPort = p_peer
    PeerIsses <- MCPeerIsses
    Chunks <- MCChunks
    LenOf <- MCLenOf
    DialledPorts = {p_listen, p_closed}
    Links <- MCLinks
INVARIANTS
    InStep
    AckedWasReceived
    EchoedOnce
    ClosedMeansFinAcked
    ClosedAfterAll
PROPERTIES
    ImplementsEcho
    Completes
    RefusedForGood
