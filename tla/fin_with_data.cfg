\* What the answer to a FIN that carries data acknowledges.
SPECIFICATION Spec
CONSTANTS
    mac = mac
    peer_mac = peer_mac
    bcast = bcast
    ip = ip
    peer_ip = peer_ip
    other_ip = other_ip
    zero_ip = zero_ip
    p_listen = p_listen
    p_peer = p_peer
    p_closed = p_closed
    p_zero = p_zero
    d1 = d1
    d2 = d2
    no_data = no_data
    Macs <- MCMacs
    Broadcast = bcast
    Ips <- MCIps
    ZeroIp = zero_ip
    Ports <- MCPorts
    ZeroPort = p_zero
    Data <- MCData
    NoData = no_data
    SeqSpace = 4
    IdMod = 2
    Mac = mac
    Ip = ip
    ListenPort = p_listen
    Iss = 2
    BytesMod = 8
    Frames <- MCFrames
    OutCaps = {1514}
PROPERTIES
    FinAckCoversData
