------------------------------ MODULE MCGcsStack ------------------------------
(***************************************************************************)
(* GcsStack on a small set of frames: every segment kind from two peers on *)
(* two ports with sequence numbers on both sides of the wrap-around, one   *)
(* well-formed frame of each other protocol, and for each guard of a       *)
(* parser a frame that only that guard refuses.                            *)
(***************************************************************************)
EXTENDS GcsStack, FiniteSets

CONSTANTS mac, peer_mac, bcast, ip, peer_ip, other_ip, zero_ip,
          p_listen, p_peer, p_closed, p_zero, d1, d2, no_data

MCMacs == {mac, peer_mac, bcast}
MCIps == {ip, peer_ip, other_ip, zero_ip}
MCPorts == {p_listen, p_peer, p_closed, p_zero}
MCData == {d1, d2, no_data}

\* Ethernet pads a frame to 60 bytes.
Padded(n) == IF n < 60 THEN 60 ELSE n

IpIn(src, protocol, ihl, n) ==
    [version |-> 4, ihl |-> ihl, total_len |-> ihl + n, id |-> 0, sum_ok |-> TRUE,
     protocol |-> protocol, src |-> src, dst |-> ip]

TcpIn(src, dport, seq, flags, n) ==
    [len |-> Padded(54 + n), dst |-> mac, src |-> peer_mac, ethertype |-> "IPv4",
     ip |-> IpIn(src, "TCP", 20, 20 + n),
     tcp |-> [src_port |-> p_peer, dst_port |-> dport, seq |-> seq, ack |-> 0,
              data_offset |-> 20, flags |-> flags, sum_ok |-> TRUE,
              data |-> IF n = 0 THEN no_data ELSE d1]]

IcmpIn(type, n) ==
    [len |-> 42 + n, dst |-> bcast, src |-> peer_mac, ethertype |-> "IPv4",
     ip |-> IpIn(peer_ip, "ICMP", 24, 8 + n),
     icmp |-> [type |-> type, code |-> 0, sum_ok |-> TRUE, data |-> d2]]

ArpIn(hw_type, opcode, target_ip) ==
    [len |-> 60, dst |-> bcast, src |-> peer_mac, ethertype |-> "ARP",
     arp |-> [hw_type |-> hw_type, proto_type |-> "IPv4", hw_len |-> 6,
              proto_len |-> 4, opcode |-> opcode, sender_mac |-> peer_mac,
              sender_ip |-> peer_ip, target_mac |-> bcast,
              target_ip |-> target_ip]]

FlagSets == {{"SYN"}, {"ACK"}, {"PSH"}, {"FIN", "ACK"}, {"RST", "ACK"}}

ConnFrames ==
    {TcpIn(peer_ip, p_listen, seq, flags, n) :
        seq \in {0, SeqSpace - 1}, flags \in FlagSets, n \in {0, 7}}
    \cup {TcpIn(other_ip, p_listen, 1, flags, 0) : flags \in {{"SYN"}, {"ACK"}}}

ArpEthernet == ArpIn("ethernet", "request", ip)
Ping == [IcmpIn("echo_request", 30) EXCEPT !.len = 90]
Syn == TcpIn(peer_ip, p_listen, 0, {"SYN"}, 0)

OtherFrames ==
    {ArpEthernet, ArpIn("other", "request", ip), ArpIn("ethernet", "reply", ip),
     ArpIn("ethernet", "request", other_ip),
     Ping, [Ping EXCEPT !.icmp.type = "echo_reply"], [Ping EXCEPT !.ip.dst = other_ip],
     TcpIn(peer_ip, p_closed, 1, {"SYN"}, 0),
     [len |-> 60, dst |-> mac, src |-> peer_mac, ethertype |-> "other"],
     [len |-> 60, dst |-> mac, src |-> peer_mac, ethertype |-> "IPv4",
      ip |-> IpIn(peer_ip, "other", 20, 8)]}

\* Each is a frame above that one guard of one parser refuses.
BrokenFrames ==
    {[Syn EXCEPT !.len = 13], [Syn EXCEPT !.dst = peer_mac],
     [Syn EXCEPT !.ip.version = 6], [Syn EXCEPT !.ip.ihl = 16],
     [Syn EXCEPT !.ip.total_len = 47], [Syn EXCEPT !.ip.total_len = 16],
     [Syn EXCEPT !.ip.sum_ok = FALSE], [Syn EXCEPT !.ip.total_len = 39],
     [Syn EXCEPT !.tcp.data_offset = 16], [Syn EXCEPT !.tcp.data_offset = 24],
     [Syn EXCEPT !.tcp.sum_ok = FALSE],
     [Ping EXCEPT !.icmp.sum_ok = FALSE], [Ping EXCEPT !.ip.total_len = 31],
     [ArpEthernet EXCEPT !.len = 41], [ArpEthernet EXCEPT !.arp.hw_len = 8],
     [ArpEthernet EXCEPT !.arp.proto_len = 16]}

MCFrames == ConnFrames \cup OtherFrames \cup BrokenFrames
================================================================================
