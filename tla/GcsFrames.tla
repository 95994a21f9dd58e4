------------------------------- MODULE GcsFrames -------------------------------
(***************************************************************************)
(* The frames the stack reads and writes: Ethernet II around ARP, or IPv4  *)
(* around ICMP echo or TCP.  A frame is a record of the fields the code    *)
(* looks at.  Lengths are the real byte counts, because every parser and   *)
(* every writer is guarded by them; addresses, ports and payloads are      *)
(* members of small sets.  A checksum is the outcome of verifying it       *)
(* (sum_ok): a frame on the wire may carry a wrong one.                    *)
(***************************************************************************)
EXTENDS Integers

CONSTANTS
    Macs, Broadcast,        \* gcs_mac_t; Broadcast is ff:ff:ff:ff:ff:ff
    Ips, ZeroIp,            \* gcs_ipv4_t; ZeroIp is what memset leaves
    Ports, ZeroPort,        \* uint16_t ports; ZeroPort is what memset leaves
    Data, NoData,           \* payloads; NoData is the empty one
    SeqSpace,               \* 2^32 in the code: TCP sequence numbers wrap here
    IdMod                   \* 2^16 in the code: IPv4 identifications wrap here

ASSUME FramesAssumption ==
    /\ Broadcast \in Macs
    /\ ZeroIp \in Ips
    /\ ZeroPort \in Ports
    /\ NoData \in Data
    /\ SeqSpace \in Nat /\ SeqSpace > 1
    /\ IdMod \in Nat /\ IdMod > 1

GCS_ETH_HDR_LEN == 14
GCS_ARP_HDR_LEN == 28
GCS_IPV4_MIN_HDR_LEN == 20
GCS_ICMP_HDR_LEN == 8
GCS_TCP_MIN_HDR_LEN == 20
GCS_STACK_FRAME_CAP == 1500 + GCS_ETH_HDR_LEN

U16 == {n \in Nat : n < 65536}
ToU16(n) == n % 65536
SeqNo == 0..(SeqSpace - 1)
ToSeq(n) == n % SeqSpace
Flags == {"FIN", "SYN", "RST", "PSH", "ACK", "URG"}

\* Header lengths are 4-bit counts of 32-bit words, kept in bytes (0..60).
HdrLen == {4 * n : n \in 0..15}
-----------------------------------------------------------------------------
ArpPacket ==
    [hw_type: {"ethernet", "other"}, proto_type: {"IPv4", "other"},
     hw_len: 0..255, proto_len: 0..255,
     opcode: {"request", "reply", "other"},
     sender_mac: Macs, sender_ip: Ips, target_mac: Macs, target_ip: Ips]

IpHeader(protocol) ==
    [version: 0..15, ihl: HdrLen, total_len: U16, id: 0..(IdMod - 1),
     sum_ok: BOOLEAN, protocol: {protocol}, src: Ips, dst: Ips]

\* An ICMP message; "data" stands for identifier, sequence number and payload.
IcmpMessage ==
    [type: {"echo_request", "echo_reply", "other"}, code: 0..255,
     sum_ok: BOOLEAN, data: Data]

TcpSegment ==
    [src_port: Ports, dst_port: Ports, seq: SeqNo, ack: SeqNo,
     data_offset: HdrLen, flags: SUBSET Flags, sum_ok: BOOLEAN, data: Data]

ArpFrame ==
    [len: Nat, dst: Macs, src: Macs, ethertype: {"ARP"}, arp: ArpPacket]
IcmpFrame ==
    [len: Nat, dst: Macs, src: Macs, ethertype: {"IPv4"},
     ip: IpHeader("ICMP"), icmp: IcmpMessage]
TcpFrame ==
    [len: Nat, dst: Macs, src: Macs, ethertype: {"IPv4"},
     ip: IpHeader("TCP"), tcp: TcpSegment]
OtherIpFrame ==
    [len: Nat, dst: Macs, src: Macs, ethertype: {"IPv4"}, ip: IpHeader("other")]
OtherFrame ==
    [len: Nat, dst: Macs, src: Macs, ethertype: {"other"}]

Frame == ArpFrame \cup IcmpFrame \cup TcpFrame \cup OtherIpFrame \cup OtherFrame

\* gcs_stack_handle_frame returns the length of its answer, 0 when there is none.
NoReply == [len |-> 0]
Answered(reply) == reply.len > 0
-----------------------------------------------------------------------------
(***************************************************************************)
(* The parsers: what each accepts.  A parser that refuses leaves the frame *)
(* unanswered and the stack as it was.                                     *)
(***************************************************************************)
EthParse(f) == f.len >= GCS_ETH_HDR_LEN

EthPayloadLen(f) == f.len - GCS_ETH_HDR_LEN

ArpParse(f) ==
    /\ EthPayloadLen(f) >= GCS_ARP_HDR_LEN
    /\ f.arp.hw_len = 6
    /\ f.arp.proto_len = 4

\* Mutant of IpParse: total_len is not checked against the bytes the frame holds.
IpParseTrusting(f) ==
    /\ EthPayloadLen(f) >= GCS_IPV4_MIN_HDR_LEN
    /\ f.ip.version = 4
    /\ f.ip.ihl >= GCS_IPV4_MIN_HDR_LEN
    /\ f.ip.ihl <= EthPayloadLen(f)
    /\ f.ip.total_len >= f.ip.ihl

\* The frame may be padded to 60 bytes, so total_len may be less than it holds.
IpParse(f) ==
    /\ EthPayloadLen(f) >= GCS_IPV4_MIN_HDR_LEN
    /\ f.ip.version = 4
    /\ f.ip.ihl >= GCS_IPV4_MIN_HDR_LEN
    /\ f.ip.ihl <= EthPayloadLen(f)
    /\ f.ip.total_len >= f.ip.ihl
    /\ f.ip.total_len <= EthPayloadLen(f)

IpPayloadLen(f) == f.ip.total_len - f.ip.ihl

IcmpParse(f) == IpPayloadLen(f) >= GCS_ICMP_HDR_LEN /\ f.icmp.sum_ok
IcmpPayloadLen(f) == IpPayloadLen(f) - GCS_ICMP_HDR_LEN

TcpParse(f) ==
    /\ IpPayloadLen(f) >= GCS_TCP_MIN_HDR_LEN
    /\ f.tcp.data_offset >= GCS_TCP_MIN_HDR_LEN
    /\ f.tcp.data_offset <= IpPayloadLen(f)
TcpPayloadLen(f) == IpPayloadLen(f) - f.tcp.data_offset
================================================================================
