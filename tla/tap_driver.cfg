\* The sample session, with signals at any moment, handlers of both kinds, and a start that may fail.
SPECIFICATION Spec
CONSTANTS
    mac = mac
    peer_mac = peer_mac
    bcast = bcast
    zero_mac = zero_mac
    ip = ip
    peer_ip = peer_ip
    zero_ip = zero_ip
    p_listen = p_listen
    p_peer = p_peer
    p_zero = p_zero
    p_closed = p_closed
    d_ping = d_ping
    d1 = d1
    no_data = no_data
    Macs <- MCMacs
    Broadcast = bcast
    Ips <- MCIps
    ZeroIp = zero_ip
    Ports <- MCPorts
    ZeroPort = p_zero
    Data <- MCData
    NoData = no_data
    SeqSpace = 8
    IdMod = 16
    Mac = mac
    Ip = ip
    ListenPort = p_listen
    Iss = 5
    BytesMod = 16
    CLIENT_MAC = peer_mac
    STACK_MAC = mac
    ZERO_MAC = zero_mac
    CLIENT_IP = peer_ip
    STACK_IP = ip
    LenOf <- MCLenOf
    Traffic <- MCTraffic
    MaxFailedWrites = 2
    BsdSignal = {TRUE, FALSE}
    Errnos = {"ENOENT", "EPERM", "EBUSY"}
INVARIANTS
    FailureReported
    KilledOnlyAtStart
    OneFrameLate
    IdsDelivered
PROPERTIES
    AnswersOnce
    StopsOnceWoken
CHECK_DEADLOCK FALSE
