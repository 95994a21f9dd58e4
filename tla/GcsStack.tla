------------------------------- MODULE GcsStack -------------------------------
(***************************************************************************)
(* The stack proper (src/gcs_stack.c): its one TCP connection, its IPv4    *)
(* identification counter, and gcs_stack_handle_frame, which takes one     *)
(* frame and a buffer of some capacity and leaves an answer or nothing.    *)
(* One action per way the handler can go; the environment hands over any   *)
(* of Frames with a buffer of any of OutCaps bytes, in any order.          *)
(***************************************************************************)
EXTENDS GcsFrames

CONSTANTS
    Mac, Ip, ListenPort,    \* gcs_stack_t.mac and .ip, conn.local_port
    Iss,                    \* conn.iss, 0x00C0FFEE
    BytesMod,               \* 2^64 in the code: conn.bytes_received
    Frames,                 \* the frames the environment may hand over
    OutCaps                 \* the buffer capacities callers use

ASSUME StackAssumption ==
    /\ Mac \in Macs /\ Mac # Broadcast
    /\ Ip \in Ips
    /\ ListenPort \in Ports
    /\ Iss \in SeqNo
    /\ BytesMod \in Nat /\ BytesMod > 0 /\ BytesMod % SeqSpace = 0
    /\ Frames \subseteq Frame
    /\ OutCaps \subseteq Nat

VARIABLES
    conn,                   \* gcs_tcp_connection_t, less its three constants
    ip_id,                  \* gcs_stack_t.ip_id
    rx,                     \* the frame handed over last
    tx                      \* the answer to it

vars == <<conn, ip_id, rx, tx>>

States ==
    {"CLOSED", "LISTEN", "SYN_RECEIVED", "ESTABLISHED", "CLOSE_WAIT", "LAST_ACK"}

Connection ==
    [state: States, remote_ip: Ips, remote_port: Ports,
     snd_nxt: SeqNo, rcv_nxt: SeqNo, bytes_received: 0..(BytesMod - 1)]

Init ==
    /\ conn = [state |-> "LISTEN", remote_ip |-> ZeroIp, remote_port |-> ZeroPort,
               snd_nxt |-> 0, rcv_nxt |-> 0, bytes_received |-> 0]
    /\ ip_id = 1
    /\ rx = NoReply
    /\ tx = NoReply
-----------------------------------------------------------------------------
(***************************************************************************)
(* The layers a frame gets through.                                        *)
(***************************************************************************)
ForUs(f) == EthParse(f) /\ f.dst \in {Mac, Broadcast}

IpValid(f) ==
    /\ ForUs(f) /\ f.ethertype = "IPv4"
    /\ IpParse(f) /\ f.ip.sum_ok

TcpValid(f) ==
    /\ IpValid(f) /\ f.ip.protocol = "TCP"
    /\ TcpParse(f) /\ f.tcp.sum_ok

Silent == tx' = NoReply /\ UNCHANGED ip_id

\* Mutant of IpWrite: total_len without the header, as in a payload length.
IpWritePayloadLen(dst, protocol, n) ==
    [version |-> 4, ihl |-> GCS_IPV4_MIN_HDR_LEN, total_len |-> ToU16(n), id |-> ip_id,
     sum_ok |-> TRUE, protocol |-> protocol, src |-> Ip, dst |-> dst]

\* gcs_ipv4_write_header, with the casts of its 16-bit length.
IpWrite(dst, protocol, n) ==
    [version |-> 4, ihl |-> GCS_IPV4_MIN_HDR_LEN,
     total_len |-> ToU16(GCS_IPV4_MIN_HDR_LEN + ToU16(n)), id |-> ip_id,
     sum_ok |-> TRUE, protocol |-> protocol, src |-> Ip, dst |-> dst]

\* Mutants of NextId: a counter wider than the field, and one nobody advances.
NextIdStuck == UNCHANGED ip_id

NextIdWide == ip_id' = ip_id + 1

NextId == ip_id' = (ip_id + 1) % IdMod
-----------------------------------------------------------------------------
(***************************************************************************)
(* Frames that reach no handler, and ARP and ICMP.                         *)
(***************************************************************************)
DropFrame(f) ==
    /\ \/ ~ForUs(f)
       \/ f.ethertype = "other"
       \/ f.ethertype = "IPv4" /\ (~IpValid(f) \/ f.ip.protocol = "other")
    /\ Silent /\ UNCHANGED conn

ArpReply(f) ==
    [len |-> GCS_ETH_HDR_LEN + GCS_ARP_HDR_LEN,
     dst |-> f.arp.sender_mac, src |-> Mac, ethertype |-> "ARP",
     arp |-> [hw_type |-> "ethernet", proto_type |-> "IPv4",
              hw_len |-> 6, proto_len |-> 4, opcode |-> "reply",
              sender_mac |-> Mac, sender_ip |-> Ip,
              target_mac |-> f.arp.sender_mac, target_ip |-> f.arp.sender_ip]]

HandleArp(f, cap) ==
    /\ ForUs(f) /\ f.ethertype = "ARP"
    /\ IF /\ ArpParse(f) /\ f.arp.opcode = "request" /\ f.arp.target_ip = Ip
          /\ cap >= GCS_ETH_HDR_LEN + GCS_ARP_HDR_LEN
       THEN tx' = ArpReply(f) /\ UNCHANGED ip_id
       ELSE Silent
    /\ UNCHANGED conn

EchoReply(f) ==
    LET icmp_len == GCS_ICMP_HDR_LEN + IcmpPayloadLen(f)
    IN  [len |-> GCS_ETH_HDR_LEN + GCS_IPV4_MIN_HDR_LEN + icmp_len,
         dst |-> f.src, src |-> Mac, ethertype |-> "IPv4",
         ip |-> IpWrite(f.ip.src, "ICMP", icmp_len),
         icmp |-> [type |-> "echo_reply", code |-> 0, sum_ok |-> TRUE,
                   data |-> f.icmp.data]]

HandleIcmp(f, cap) ==
    /\ IpValid(f) /\ f.ip.protocol = "ICMP"
    /\ IF /\ IcmpParse(f) /\ f.icmp.type = "echo_request" /\ f.ip.dst = Ip
          /\ cap >= EchoReply(f).len
       THEN tx' = EchoReply(f) /\ NextId
       ELSE Silent
    /\ UNCHANGED conn
-----------------------------------------------------------------------------
(***************************************************************************)
(* TCP.  EmitTcp is gcs_stack_emit_tcp: it may find the caller's buffer    *)
(* too short and send nothing, and its caller has changed the connection   *)
(* by then.                                                                *)
(***************************************************************************)
Segment(f, seq, ack, flags, data, n) ==
    [len |-> GCS_ETH_HDR_LEN + GCS_IPV4_MIN_HDR_LEN + GCS_TCP_MIN_HDR_LEN + n,
     dst |-> f.src, src |-> Mac, ethertype |-> "IPv4",
     ip |-> IpWrite(f.ip.src, "TCP", GCS_TCP_MIN_HDR_LEN + n),
     tcp |-> [src_port |-> f.tcp.dst_port, dst_port |-> f.tcp.src_port,
              seq |-> seq, ack |-> ack, data_offset |-> GCS_TCP_MIN_HDR_LEN,
              flags |-> flags, sum_ok |-> TRUE, data |-> data]]

EmitTcp(f, cap, seq, ack, flags, data, n) ==
    IF cap >= Segment(f, seq, ack, flags, data, n).len
    THEN tx' = Segment(f, seq, ack, flags, data, n) /\ NextId
    ELSE Silent

\* Mutant of ClosedPort: the SYN it refuses is not acknowledged.
ClosedPortAcksNothing(f, cap) ==
    /\ TcpValid(f) /\ f.tcp.dst_port # ListenPort
    /\ EmitTcp(f, cap, f.tcp.ack, f.tcp.seq, {"RST", "ACK"}, NoData, 0)
    /\ UNCHANGED conn

ClosedPort(f, cap) ==
    /\ TcpValid(f) /\ f.tcp.dst_port # ListenPort
    /\ EmitTcp(f, cap, f.tcp.ack, ToSeq(f.tcp.seq + 1), {"RST", "ACK"}, NoData, 0)
    /\ UNCHANGED conn

\* A segment for the connection's port that finds it in the given state.
ForConn(f, state) ==
    /\ TcpValid(f) /\ f.tcp.dst_port = ListenPort
    /\ conn.state = state

\* Mutant of Listen: the SYN is not counted in snd_nxt.
ListenAtIss(f, cap) ==
    /\ ForConn(f, "LISTEN") /\ "SYN" \in f.tcp.flags
    /\ conn' = [conn EXCEPT !.state = "SYN_RECEIVED",
                            !.remote_ip = f.ip.src,
                            !.remote_port = f.tcp.src_port,
                            !.rcv_nxt = ToSeq(f.tcp.seq + 1),
                            !.snd_nxt = Iss]
    /\ EmitTcp(f, cap, Iss, conn'.rcv_nxt, {"SYN", "ACK"}, NoData, 0)

Listen(f, cap) ==
    /\ ForConn(f, "LISTEN") /\ "SYN" \in f.tcp.flags
    /\ conn' = [conn EXCEPT !.state = "SYN_RECEIVED",
                            !.remote_ip = f.ip.src,
                            !.remote_port = f.tcp.src_port,
                            !.rcv_nxt = ToSeq(f.tcp.seq + 1),
                            !.snd_nxt = ToSeq(Iss + 1)]
    /\ EmitTcp(f, cap, Iss, conn'.rcv_nxt, {"SYN", "ACK"}, NoData, 0)

\* Mutant of SynReceived: data that comes with the ACK is acknowledged and dropped.
SynReceivedAcks(f) ==
    /\ ForConn(f, "SYN_RECEIVED") /\ "ACK" \in f.tcp.flags
    /\ conn' = [conn EXCEPT !.state = "ESTABLISHED",
                            !.rcv_nxt = ToSeq(f.tcp.seq + TcpPayloadLen(f))]
    /\ IF TcpPayloadLen(f) = 0 THEN Silent
       ELSE EmitTcp(f, f.len, conn.snd_nxt, conn'.rcv_nxt, {"ACK"}, NoData, 0)

SynReceived(f) ==
    /\ ForConn(f, "SYN_RECEIVED") /\ "ACK" \in f.tcp.flags
    /\ conn' = [conn EXCEPT !.state = "ESTABLISHED"]
    /\ Silent

\* Mutant of ReceiveFin: the stack closes without waiting for the peer's ACK.
ReceiveFinCloses(f, cap) ==
    /\ ForConn(f, "ESTABLISHED") /\ "FIN" \in f.tcp.flags
    /\ conn' = [conn EXCEPT !.state = "CLOSED",
                            !.rcv_nxt = ToSeq(f.tcp.seq + 1)]
    /\ EmitTcp(f, cap, conn.snd_nxt, conn'.rcv_nxt, {"FIN", "ACK"}, NoData, 0)

ReceiveFin(f, cap) ==
    /\ ForConn(f, "ESTABLISHED") /\ "FIN" \in f.tcp.flags
    /\ conn' = [conn EXCEPT !.state = "LAST_ACK",
                            !.rcv_nxt = ToSeq(f.tcp.seq + 1)]
    /\ EmitTcp(f, cap, conn.snd_nxt, conn'.rcv_nxt, {"FIN", "ACK"}, NoData, 0)

\* Mutants of ReceiveData: the bytes are echoed and not acknowledged; and an echo
\* that did not fit is not counted in snd_nxt.
ReceiveDataAckShort(f, cap) ==
    LET n == TcpPayloadLen(f)
    IN  /\ ForConn(f, "ESTABLISHED") /\ "FIN" \notin f.tcp.flags /\ n > 0
        /\ conn' = [conn EXCEPT !.rcv_nxt = f.tcp.seq,
                                !.bytes_received = (@ + n) % BytesMod,
                                !.snd_nxt = ToSeq(@ + n)]
        /\ EmitTcp(f, cap, conn.snd_nxt, conn'.rcv_nxt, {"ACK", "PSH"},
                   f.tcp.data, n)

ReceiveDataUnlessShort(f, cap) ==
    LET n == TcpPayloadLen(f)
    IN  /\ ForConn(f, "ESTABLISHED") /\ "FIN" \notin f.tcp.flags /\ n > 0
        /\ EmitTcp(f, cap, conn.snd_nxt, ToSeq(f.tcp.seq + n), {"ACK", "PSH"},
                   f.tcp.data, n)
        /\ conn' = [conn EXCEPT !.rcv_nxt = ToSeq(f.tcp.seq + n),
                                !.bytes_received = (@ + n) % BytesMod,
                                !.snd_nxt = IF Answered(tx') THEN ToSeq(@ + n) ELSE @]

ReceiveData(f, cap) ==
    LET n == TcpPayloadLen(f)
    IN  /\ ForConn(f, "ESTABLISHED") /\ "FIN" \notin f.tcp.flags /\ n > 0
        /\ conn' = [conn EXCEPT !.rcv_nxt = ToSeq(f.tcp.seq + n),
                                !.bytes_received = (@ + n) % BytesMod,
                                !.snd_nxt = ToSeq(@ + n)]
        /\ EmitTcp(f, cap, conn.snd_nxt, conn'.rcv_nxt, {"ACK", "PSH"},
                   f.tcp.data, n)

\* Mutant of LastAck: a closed connection listens again.
LastAckListens(f) ==
    /\ ForConn(f, "LAST_ACK") /\ "ACK" \in f.tcp.flags
    /\ conn' = [conn EXCEPT !.state = "LISTEN"]
    /\ Silent

LastAck(f) ==
    /\ ForConn(f, "LAST_ACK") /\ "ACK" \in f.tcp.flags
    /\ conn' = [conn EXCEPT !.state = "CLOSED"]
    /\ Silent

\* Segments that no state of the switch has a use for, and broken ones.
IgnoreSegment(f) ==
    /\ IpValid(f) /\ f.ip.protocol = "TCP"
    /\ \/ ~TcpValid(f)
       \/ ForConn(f, "LISTEN") /\ "SYN" \notin f.tcp.flags
       \/ ForConn(f, "SYN_RECEIVED") /\ "ACK" \notin f.tcp.flags
       \/ ForConn(f, "ESTABLISHED") /\ "FIN" \notin f.tcp.flags
          /\ TcpPayloadLen(f) = 0
       \/ ForConn(f, "LAST_ACK") /\ "ACK" \notin f.tcp.flags
       \/ ForConn(f, "CLOSED")
       \/ ForConn(f, "CLOSE_WAIT")
    /\ Silent /\ UNCHANGED conn

HandleTcp(f, cap) ==
    \/ ClosedPort(f, cap)
    \/ Listen(f, cap)
    \/ SynReceived(f)
    \/ ReceiveFin(f, cap)
    \/ ReceiveData(f, cap)
    \/ LastAck(f)
    \/ IgnoreSegment(f)

HandleFrame(f, cap) ==
    /\ rx' = f
    /\ \/ DropFrame(f)
       \/ HandleArp(f, cap)
       \/ HandleIcmp(f, cap)
       \/ HandleTcp(f, cap)

Next == \E f \in Frames, cap \in OutCaps : HandleFrame(f, cap)

Spec == Init /\ [][Next]_vars
-----------------------------------------------------------------------------
(***************************************************************************)
(* What the connection says: the answers that leave from its own port.     *)
(***************************************************************************)
FromConn(reply) ==
    /\ Answered(reply) /\ reply.ethertype = "IPv4" /\ reply.ip.protocol = "TCP"
    /\ reply.tcp.src_port = ListenPort

\* The first sequence number no segment has carried yet: SYN and FIN take one.
NextSeq ==
    CASE conn.state = "LISTEN" -> Iss
      [] conn.state \in {"LAST_ACK", "CLOSED"} -> ToSeq(conn.snd_nxt + 1)
      [] OTHER -> conn.snd_nxt

Offset(seq) == ToSeq(seq - Iss)

Said ==
    IF ~FromConn(tx) THEN [kind |-> "nothing", at |-> 0, len |-> 0]
    ELSE CASE "SYN" \in tx.tcp.flags ->
                [kind |-> "SYN", at |-> Offset(tx.tcp.seq), len |-> 1]
           [] "FIN" \in tx.tcp.flags ->
                [kind |-> "FIN", at |-> Offset(tx.tcp.seq), len |-> 1]
           [] OTHER ->
                [kind |-> "DATA", at |-> Offset(tx.tcp.seq),
                 len |-> TcpPayloadLen(tx)]

Server == INSTANCE TcpServer
            WITH Mod <- SeqSpace, phase <- conn.state,
                 next <- Offset(NextSeq), said <- Said
-----------------------------------------------------------------------------
(***************************************************************************)
(* Properties.                                                             *)
(***************************************************************************)
\* Every variable stays within its C type, and an answer is again a frame.
TypeOK ==
    /\ conn \in Connection
    /\ ip_id \in 0..(IdMod - 1)
    /\ rx \in Frame \cup {NoReply}
    /\ tx \in Frame \cup {NoReply}

\* The two counters that gcs_stack_handle_tcp advances in different places, the
\* 32-bit snd_nxt and the 64-bit bytes_received, never drift apart, whatever
\* mix of peers, states, wrap-arounds and short buffers the frames run into.
SeqAccounting ==
    conn.snd_nxt = IF conn.state = "LISTEN" THEN 0
                   ELSE ToSeq(Iss + 1 + conn.bytes_received)

\* An answer is never longer than the frame it answers, so a caller whose two
\* buffers have one size (both programs) never meets the "buffer too short"
\* exits of the handlers, behind which the connection has already moved on.
ReplyFits == Answered(tx) => tx.len <= rx.len

\* The stack's own parsers accept what its writers produce, and find in it the
\* payload length that was put in: no cast of a 16-bit length loses anything.
ReplyParses ==
    Answered(tx) =>
      /\ tx.ethertype = "ARP" => ArpParse(tx)
      /\ tx.ethertype = "IPv4" =>
           IpParse(tx) /\ tx.len = GCS_ETH_HDR_LEN + tx.ip.total_len
      /\ tx.ethertype = "IPv4" /\ tx.ip.protocol = "ICMP" =>
           IcmpParse(tx) /\ IcmpPayloadLen(tx) = IcmpPayloadLen(rx)
      /\ tx.ethertype = "IPv4" /\ tx.ip.protocol = "TCP" =>
           /\ TcpParse(tx)
           /\ tx.tcp.data # NoData => TcpPayloadLen(tx) = TcpPayloadLen(rx)

\* Whatever buffers callers bring, a segment of the connection starts where the
\* sequence space spoken for ends and takes exactly what it carries of it, though
\* SYN and FIN are counted by the state and data by snd_nxt, after the emission.
SegLen(reply) ==
    TcpPayloadLen(reply) + (IF reply.tcp.flags \cap {"SYN", "FIN"} # {} THEN 1 ELSE 0)

NothingSaidTwice ==
    [][FromConn(tx') => /\ tx'.tcp.seq = NextSeq
                        /\ NextSeq' = ToSeq(tx'.tcp.seq + SegLen(tx'))]_vars

\* Whether r can be the answer to f: it goes back where f came from and carries what f
\* carried, if it carries anything.
AnswerTo(f, r) ==
    /\ r.ethertype = f.ethertype
    /\ r.ethertype = "ARP" =>
         r.dst = f.arp.sender_mac /\ r.arp.target_ip = f.arp.sender_ip
    /\ r.ethertype = "IPv4" =>
         /\ r.dst = f.src /\ r.ip.dst = f.ip.src /\ r.ip.protocol = f.ip.protocol
         /\ r.ip.protocol = "ICMP" => r.icmp.data = f.icmp.data
         /\ r.ip.protocol = "TCP" =>
              /\ r.tcp.dst_port = f.tcp.src_port /\ r.tcp.src_port = f.tcp.dst_port
              /\ r.tcp.data \in {NoData, f.tcp.data}

\* With buffers that fit, the stack implements the server of TcpServer: each
\* edge of the automaton is taken together with the segment it owes the peer.
ImplementsServer == Server!Spec
-----------------------------------------------------------------------------
(***************************************************************************)
(* What the comments and the guide say of the stack, and the code does not *)
(* do.                                                                     *)
(***************************************************************************)
\* docs/guide.md, section 6: FIN takes one number and a data segment is
\* acknowledged up to seq + its length.  A FIN that carries data has both.
FinAckCoversData ==
    [][conn.state = "ESTABLISHED" /\ FromConn(tx') /\ "FIN" \in rx'.tcp.flags
         => tx'.tcp.ack = ToSeq(rx'.tcp.seq + TcpPayloadLen(rx') + 1)]_vars

\* gcs_arp.c: only Ethernet/IPv4 is supported, so only such a request is answered.
ArpOnlyEthernetIPv4 ==
    Answered(tx) /\ tx.ethertype = "ARP" =>
        rx.arp.hw_type = "ethernet" /\ rx.arp.proto_type = "IPv4"
================================================================================
