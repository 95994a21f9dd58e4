---------------------------- MODULE GcsStackProofs ----------------------------
(***************************************************************************)
(* Theorems about GcsStack for every set of frames, every set of buffer    *)
(* capacities and every size of the counters.                              *)
(***************************************************************************)
EXTENDS GcsStack, NumberFacts

-----------------------------------------------------------------------------
(***************************************************************************)
(* The frames: what kind a frame is, and what its parser has established.  *)
(***************************************************************************)
\* Lengths of headers are byte counts of at most 60.
LEMMA HdrLenNat == /\ \A n : n \in HdrLen => n \in Nat
                   /\ 20 \in HdrLen
  BY DEF HdrLen

\* A 16-bit field is a number below 2^16.
LEMMA U16Bound == \A n : n \in U16 <=> n \in Nat /\ n < 65536
  BY DEF U16

\* The fields of an IPv4 header are in range.
LEMMA IpHeaderFields ==
    ASSUME NEW protocol, NEW h \in IpHeader(protocol)
    PROVE  h.src \in Ips /\ h.ihl \in Nat /\ h.total_len \in Nat /\ h.total_len < 65536
  <1>1. h.src \in Ips /\ h.ihl \in HdrLen /\ h.total_len \in U16 BY DEF IpHeader
  <1>2. h.total_len \in Nat /\ h.total_len < 65536 BY <1>1, U16Bound
  <1>3. h.ihl \in Nat BY <1>1 DEF HdrLen
  <1> QED BY <1>1, <1>2, <1>3

\* The ethertype and the protocol field say which record a frame is.
LEMMA FrameKinds ==
    ASSUME NEW f \in Frame
    PROVE  /\ f.len \in Nat /\ f.dst \in Macs /\ f.src \in Macs
           /\ f.ethertype \in {"ARP", "IPv4", "other"}
           /\ f.ethertype = "ARP" => f \in ArpFrame
           /\ f.ethertype = "IPv4" => f.ip.protocol \in {"ICMP", "TCP", "other"}
           /\ f.ethertype = "IPv4" /\ f.ip.protocol = "ICMP" => f \in IcmpFrame
           /\ f.ethertype = "IPv4" /\ f.ip.protocol = "TCP" => f \in TcpFrame
  BY DEF Frame, ArpFrame, IcmpFrame, TcpFrame, OtherIpFrame, OtherFrame, IpHeader

\* A segment the TCP parser accepts has its fields in range, and its payload ends
\* inside the frame: 54 bytes of headers at least come before it.
LEMMA SegmentParsed ==
    ASSUME NEW f \in Frame, TcpValid(f)
    PROVE  /\ f \in TcpFrame
           /\ f.ip.src \in Ips
           /\ f.tcp \in TcpSegment
           /\ TcpPayloadLen(f) \in Nat
           /\ TcpPayloadLen(f) + 54 <= f.len
           /\ TcpPayloadLen(f) + 40 <= 65535
  <1>1. f \in TcpFrame /\ f.len \in Nat BY FrameKinds DEF TcpValid, IpValid
  <1>2. f.ip \in IpHeader("TCP") /\ f.tcp \in TcpSegment BY <1>1 DEF TcpFrame
  <1>3. f.ip.src \in Ips /\ f.ip.ihl \in Nat /\ f.ip.total_len \in Nat
        /\ f.ip.total_len < 65536
    BY <1>2, IpHeaderFields
  <1>4. f.tcp.data_offset \in Nat BY <1>2, HdrLenNat DEF TcpSegment
  <1>5. IpParse(f) /\ TcpParse(f) BY DEF TcpValid, IpValid
  <1> QED
    BY <1>1, <1>2, <1>3, <1>4, <1>5
    DEF IpParse, TcpParse, TcpPayloadLen, IpPayloadLen, EthPayloadLen,
        GCS_ETH_HDR_LEN, GCS_IPV4_MIN_HDR_LEN, GCS_TCP_MIN_HDR_LEN

\* The same of an ICMP message.
LEMMA EchoParsed ==
    ASSUME NEW f \in Frame, IpValid(f), f.ip.protocol = "ICMP", IcmpParse(f)
    PROVE  /\ f \in IcmpFrame
           /\ f.ip.src \in Ips
           /\ f.icmp \in IcmpMessage
           /\ IcmpPayloadLen(f) \in Nat
           /\ IcmpPayloadLen(f) + 42 <= f.len
           /\ IcmpPayloadLen(f) + 28 <= 65535
  <1>1. f \in IcmpFrame /\ f.len \in Nat BY FrameKinds DEF IpValid
  <1>2. f.ip \in IpHeader("ICMP") /\ f.icmp \in IcmpMessage BY <1>1 DEF IcmpFrame
  <1>3. f.ip.src \in Ips /\ f.ip.ihl \in Nat /\ f.ip.total_len \in Nat
        /\ f.ip.total_len < 65536
    BY <1>2, IpHeaderFields
  <1>4. IpParse(f) /\ IcmpParse(f) BY DEF IpValid
  <1> QED
    BY <1>1, <1>2, <1>3, <1>4
    DEF IpParse, IcmpParse, IcmpPayloadLen, IpPayloadLen, EthPayloadLen,
        GCS_ETH_HDR_LEN, GCS_IPV4_MIN_HDR_LEN, GCS_ICMP_HDR_LEN
-----------------------------------------------------------------------------
(***************************************************************************)
(* The writers: an answer is a frame.                                      *)
(***************************************************************************)
\* The 16-bit casts of gcs_ipv4_write_header lose nothing of a payload that fits
\* an IPv4 datagram.
LEMMA IpWriteExact ==
    ASSUME NEW dst \in Ips, NEW protocol, NEW n \in Nat, n + 20 <= 65535,
           ip_id \in 0..(IdMod - 1)
    PROVE  /\ IpWrite(dst, protocol, n) \in IpHeader(protocol)
           /\ IpWrite(dst, protocol, n).total_len = n + 20
           /\ IpWrite(dst, protocol, n).ihl = 20
           /\ IpWrite(dst, protocol, n).version = 4
           /\ IpWrite(dst, protocol, n).protocol = protocol
  <1>1. ToU16(n) = n BY SMT DEF ToU16
  <1>2. ToU16(20 + n) = n + 20 BY SMT DEF ToU16
  <1>3. n + 20 \in U16 BY U16Bound
  <1> QED
    BY <1>1, <1>2, <1>3, HdrLenNat, StackAssumption
    DEF IpWrite, IpHeader, GCS_IPV4_MIN_HDR_LEN

\* An ARP reply is a frame.
LEMMA ArpReplyFrame ==
    ASSUME NEW f \in Frame, f.ethertype = "ARP"
    PROVE  ArpReply(f) \in ArpFrame
  <1>1. f.arp \in ArpPacket BY FrameKinds DEF ArpFrame
  <1>2. f.arp.sender_mac \in Macs /\ f.arp.sender_ip \in Ips BY <1>1 DEF ArpPacket
  <1> QED
    BY <1>2, StackAssumption
    DEF ArpReply, ArpFrame, ArpPacket, GCS_ETH_HDR_LEN, GCS_ARP_HDR_LEN

\* An echo reply is a frame.
LEMMA EchoReplyFrame ==
    ASSUME NEW f \in Frame, IpValid(f), f.ip.protocol = "ICMP", IcmpParse(f),
           ip_id \in 0..(IdMod - 1)
    PROVE  /\ EchoReply(f) \in IcmpFrame
           /\ EchoReply(f).len = IcmpPayloadLen(f) + 42
           /\ EchoReply(f).ip.total_len = IcmpPayloadLen(f) + 28
           /\ EchoReply(f).ip.ihl = 20
           /\ EchoReply(f).ip.version = 4
  <1> DEFINE n == GCS_ICMP_HDR_LEN + IcmpPayloadLen(f)
             h == IpWrite(f.ip.src, "ICMP", n)
  <1>1. n \in Nat /\ n + 20 <= 65535 BY EchoParsed DEF GCS_ICMP_HDR_LEN
  <1>2. /\ h \in IpHeader("ICMP") /\ h.total_len = n + 20
        /\ h.ihl = 20 /\ h.version = 4
    <2> HIDE DEF n
    <2> QED BY <1>1, EchoParsed, IpWriteExact
  <1>3. f.icmp.data \in Data /\ f.src \in Macs /\ IcmpPayloadLen(f) \in Nat
    BY EchoParsed, FrameKinds DEF IcmpMessage
  <1>4. EchoReply(f) =
          [len |-> GCS_ETH_HDR_LEN + GCS_IPV4_MIN_HDR_LEN + n,
           dst |-> f.src, src |-> Mac, ethertype |-> "IPv4", ip |-> h,
           icmp |-> [type |-> "echo_reply", code |-> 0, sum_ok |-> TRUE,
                     data |-> f.icmp.data]]
    BY DEF EchoReply
  <1> HIDE DEF h
  <1> QED
    BY <1>2, <1>3, <1>4, StackAssumption
    DEF IcmpFrame, IcmpMessage, GCS_ETH_HDR_LEN, GCS_IPV4_MIN_HDR_LEN,
        GCS_ICMP_HDR_LEN

\* A segment of the stack is a frame, and the TCP parser finds in it the payload
\* length that was put in.
LEMMA SegmentFrame ==
    ASSUME NEW f \in Frame, TcpValid(f), ip_id \in 0..(IdMod - 1),
           NEW seq \in SeqNo, NEW ack \in SeqNo, NEW flags \in SUBSET Flags,
           NEW data \in Data, NEW n \in Nat, n <= TcpPayloadLen(f)
    PROVE  LET s == Segment(f, seq, ack, flags, data, n)
           IN  /\ s \in TcpFrame
               /\ s.len = n + 54
               /\ s.ip.total_len = n + 40
               /\ s.ip.ihl = 20
               /\ s.ip.version = 4
               /\ s.ip.protocol = "TCP"
               /\ s.tcp.data_offset = 20
               /\ TcpPayloadLen(s) = n
  <1> DEFINE m == GCS_TCP_MIN_HDR_LEN + n
             h == IpWrite(f.ip.src, "TCP", m)
             t == [src_port |-> f.tcp.dst_port, dst_port |-> f.tcp.src_port,
                   seq |-> seq, ack |-> ack, data_offset |-> GCS_TCP_MIN_HDR_LEN,
                   flags |-> flags, sum_ok |-> TRUE, data |-> data]
             s == Segment(f, seq, ack, flags, data, n)
  <1>1. TcpPayloadLen(f) \in Nat /\ TcpPayloadLen(f) + 40 <= 65535 /\ f.ip.src \in Ips
    BY SegmentParsed
  <1>2. m = n + 20 /\ m \in Nat /\ m + 20 <= 65535 BY <1>1 DEF GCS_TCP_MIN_HDR_LEN
  <1>3. /\ h \in IpHeader("TCP") /\ h.total_len = m + 20
        /\ h.ihl = 20 /\ h.version = 4 /\ h.protocol = "TCP"
    <2> HIDE DEF m
    <2> QED BY <1>1, <1>2, IpWriteExact
  <1>4. f.tcp.dst_port \in Ports /\ f.tcp.src_port \in Ports /\ f.src \in Macs
    BY SegmentParsed, FrameKinds DEF TcpSegment
  <1>5. t \in TcpSegment /\ t.data_offset = 20
    BY <1>4, HdrLenNat DEF TcpSegment, GCS_TCP_MIN_HDR_LEN
  <1>6. s = [len |-> GCS_ETH_HDR_LEN + GCS_IPV4_MIN_HDR_LEN + GCS_TCP_MIN_HDR_LEN + n,
             dst |-> f.src, src |-> Mac, ethertype |-> "IPv4", ip |-> h, tcp |-> t]
    BY DEF Segment
  <1> HIDE DEF h, t, s, m
  <1>7. s.ip = h /\ s.tcp = t /\ s.len = n + 54
    BY <1>6 DEF GCS_ETH_HDR_LEN, GCS_IPV4_MIN_HDR_LEN, GCS_TCP_MIN_HDR_LEN
  <1>8. s \in TcpFrame
    BY <1>3, <1>4, <1>5, <1>6, <1>7, StackAssumption DEF TcpFrame
  <1>9. TcpPayloadLen(s) = n
    BY <1>2, <1>3, <1>5, <1>7 DEF TcpPayloadLen, IpPayloadLen
  <1> QED BY <1>2, <1>3, <1>5, <1>7, <1>8, <1>9 DEF s
-----------------------------------------------------------------------------
(***************************************************************************)
(* The answer of one step.                                                 *)
(***************************************************************************)
IdOK == ip_id \in 0..(IdMod - 1)

\* The part of the properties that the last step alone decides.
AnswerOK ==
    /\ tx \in Frame \cup {NoReply}
    /\ ReplyFits
    /\ ReplyParses

\* No answer is a good answer.
LEMMA SilentAnswer ==
    ASSUME IdOK, Silent
    PROVE  IdOK' /\ AnswerOK'
  BY DEF IdOK, Silent, AnswerOK, ReplyFits, ReplyParses, Answered, NoReply

\* The identification wraps within its type.
LEMMA NextIdOK ==
    ASSUME IdOK, NextId
    PROVE  IdOK'
  <1>1. ip_id + 1 \in Int BY DEF IdOK
  <1> QED BY <1>1, ModRange, FramesAssumption DEF IdOK, NextId

\* What gcs_stack_handle_arp leaves in the buffer.
LEMMA ArpAnswer ==
    ASSUME NEW f \in Frame, NEW cap, IdOK, rx' = f, HandleArp(f, cap)
    PROVE  IdOK' /\ AnswerOK'
  <1>1. CASE Silent BY <1>1, SilentAnswer
  <1>2. CASE tx' = ArpReply(f) /\ UNCHANGED ip_id /\ ArpParse(f)
    <2>1. ArpReply(f) \in ArpFrame BY ArpReplyFrame DEF HandleArp
    <2>2. /\ ArpReply(f).len = 42 /\ ArpReply(f).ethertype = "ARP"
          /\ ArpReply(f).arp.hw_len = 6 /\ ArpReply(f).arp.proto_len = 4
      BY DEF ArpReply, GCS_ETH_HDR_LEN, GCS_ARP_HDR_LEN
    <2>3. f.len \in Nat /\ f.len >= 42
      BY <1>2, FrameKinds DEF ArpParse, EthPayloadLen, GCS_ETH_HDR_LEN, GCS_ARP_HDR_LEN
    <2>4. ReplyFits' BY <1>2, <2>2, <2>3 DEF ReplyFits
    <2>5. ReplyParses'
      BY <1>2, <2>2
      DEF ReplyParses, ArpParse, EthPayloadLen, GCS_ETH_HDR_LEN, GCS_ARP_HDR_LEN
    <2> QED BY <1>2, <2>1, <2>4, <2>5 DEF AnswerOK, Frame, IdOK
  <1> QED BY <1>1, <1>2 DEF HandleArp

\* What gcs_stack_handle_icmp leaves in the buffer.
LEMMA EchoAnswer ==
    ASSUME NEW f \in Frame, NEW cap, IdOK, rx' = f, HandleIcmp(f, cap)
    PROVE  IdOK' /\ AnswerOK'
  <1>1. CASE Silent BY <1>1, SilentAnswer
  <1>2. CASE tx' = EchoReply(f) /\ NextId /\ IcmpParse(f)
    <2> DEFINE r == EchoReply(f)
               n == IcmpPayloadLen(f)
    <2>1. IpValid(f) /\ f.ip.protocol = "ICMP" BY DEF HandleIcmp
    <2>2. /\ r \in IcmpFrame /\ r.len = n + 42
          /\ r.ip.total_len = n + 28 /\ r.ip.ihl = 20 /\ r.ip.version = 4
      BY <1>2, <2>1, EchoReplyFrame DEF IdOK
    <2>3. n \in Nat /\ n + 42 <= f.len /\ f.len \in Nat
      BY <1>2, <2>1, EchoParsed, FrameKinds
    <2>4. r.ethertype = "IPv4" /\ r.ip.protocol = "ICMP" /\ r.icmp.sum_ok = TRUE
      BY DEF EchoReply, IpWrite
    <2> HIDE DEF r, n
    <2>5. ReplyFits' BY <1>2, <2>2, <2>3 DEF ReplyFits, r
    <2>6. IpParse(r) /\ r.len = GCS_ETH_HDR_LEN + r.ip.total_len
      BY <2>2, <2>3 DEF IpParse, EthPayloadLen, GCS_ETH_HDR_LEN, GCS_IPV4_MIN_HDR_LEN
    <2>7. IcmpParse(r) /\ IcmpPayloadLen(r) = n
      BY <2>2, <2>3, <2>4
      DEF IcmpParse, IcmpPayloadLen, IpPayloadLen, GCS_ICMP_HDR_LEN
    <2>8. ReplyParses'
      BY <1>2, <2>4, <2>6, <2>7 DEF ReplyParses, r, n
    <2>9. IdOK' BY <1>2, NextIdOK
    <2> QED BY <1>2, <2>2, <2>5, <2>8, <2>9 DEF AnswerOK, Frame, r
  <1> QED BY <1>1, <1>2 DEF HandleIcmp

\* What gcs_stack_emit_tcp leaves in the buffer: nothing, or the segment.
LEMMA EmitAnswer ==
    ASSUME NEW f \in Frame, NEW cap, IdOK, rx' = f, TcpValid(f),
           NEW seq \in SeqNo, NEW ack \in SeqNo, NEW flags \in SUBSET Flags,
           NEW data \in Data, NEW n \in Nat, n <= TcpPayloadLen(f),
           data # NoData => n = TcpPayloadLen(f),
           EmitTcp(f, cap, seq, ack, flags, data, n)
    PROVE  IdOK' /\ AnswerOK'
  <1> DEFINE s == Segment(f, seq, ack, flags, data, n)
  <1>1. CASE Silent BY <1>1, SilentAnswer
  <1>2. CASE tx' = s /\ NextId
    <2>1. /\ s \in TcpFrame /\ s.len = n + 54 /\ s.ip.total_len = n + 40
          /\ s.ip.ihl = 20 /\ s.ip.version = 4 /\ s.ip.protocol = "TCP"
          /\ s.tcp.data_offset = 20 /\ TcpPayloadLen(s) = n
      BY SegmentFrame DEF IdOK
    <2>2. /\ s.ethertype = "IPv4" /\ s.tcp.data = data
      BY DEF Segment
    <2>3. TcpPayloadLen(f) \in Nat /\ TcpPayloadLen(f) + 54 <= f.len /\ f.len \in Nat
      BY SegmentParsed, FrameKinds
    <2> HIDE DEF s
    <2>4. ReplyFits' BY <1>2, <2>1, <2>3 DEF ReplyFits
    <2>5. IpParse(s) /\ s.len = GCS_ETH_HDR_LEN + s.ip.total_len
      BY <2>1 DEF IpParse, EthPayloadLen, GCS_ETH_HDR_LEN, GCS_IPV4_MIN_HDR_LEN
    <2>6. TcpParse(s) BY <2>1 DEF TcpParse, IpPayloadLen, GCS_TCP_MIN_HDR_LEN
    <2>7. ReplyParses' BY <1>2, <2>1, <2>2, <2>5, <2>6 DEF ReplyParses
    <2>8. IdOK' BY <1>2, NextIdOK
    <2> QED BY <1>2, <2>1, <2>4, <2>7, <2>8 DEF AnswerOK, Frame
  <1> QED BY <1>1, <1>2 DEF EmitTcp
-----------------------------------------------------------------------------
(***************************************************************************)
(* The inductive invariant.  Type correctness is inductive because every   *)
(* counter is reduced where it is advanced.  SeqAccounting is not: that    *)
(* the SYN starts it at iss + 1 needs that no byte was received before,    *)
(* and that the echo advances both counters alike needs their types.       *)
(***************************************************************************)
ConnOK ==
    /\ conn \in Connection
    /\ SeqAccounting
    /\ conn.state = "LISTEN" => conn.bytes_received = 0

IInv ==
    /\ ConnOK
    /\ IdOK
    /\ rx \in Frame \cup {NoReply}
    /\ AnswerOK

\* A sequence number stays one (ToSeq is the conversion to uint32_t).
LEMMA ToSeqType ==
    ASSUME NEW n \in Int
    PROVE  ToSeq(n) \in SeqNo
  BY ModRange, FramesAssumption DEF ToSeq, SeqNo

\* snd_nxt += n on a number already reduced.
LEMMA ToSeqAdd ==
    ASSUME NEW a \in Int, NEW b \in Int
    PROVE  ToSeq(ToSeq(a) + b) = ToSeq(a + b)
  <1>1. SeqSpace \in Nat /\ SeqSpace > 0 BY FramesAssumption
  <1>2. ((a % SeqSpace) + b) % SeqSpace = (a + b) % SeqSpace BY <1>1, ModAdd
  <1> QED BY <1>2 DEF ToSeq

\* The wrap-around of the 64-bit bytes_received is invisible in 32 bits.
LEMMA ToSeqBytes ==
    ASSUME NEW a \in Int, NEW b \in Int
    PROVE  ToSeq(a + (b % BytesMod)) = ToSeq(a + b)
  <1>1. SeqSpace \in Nat /\ SeqSpace > 0 BY FramesAssumption
  <1>2. BytesMod \in Nat /\ BytesMod > 0 /\ BytesMod % SeqSpace = 0 BY StackAssumption
  <1>3. (a + (b % BytesMod)) % SeqSpace = (a + b) % SeqSpace BY <1>1, <1>2, ModMultiple
  <1> QED BY <1>3 DEF ToSeq

\* The initial state satisfies the invariant.
LEMMA IInvInit == Init => IInv
  <1> SUFFICES ASSUME Init PROVE IInv OBVIOUS
  <1>1. conn \in Connection
    BY FramesAssumption, StackAssumption DEF Init, Connection, States, SeqNo
  <1>2. SeqAccounting /\ conn.bytes_received = 0 BY DEF Init, SeqAccounting
  <1>3. IdOK BY FramesAssumption DEF Init, IdOK
  <1>4. AnswerOK
    BY DEF Init, AnswerOK, ReplyFits, ReplyParses, Answered, NoReply
  <1> QED BY <1>1, <1>2, <1>3, <1>4 DEF Init, IInv, ConnOK

\* The SYN starts the accounts: snd_nxt at iss + 1, no byte received yet.
LEMMA ListenStep ==
    ASSUME IInv, NEW f \in Frame, NEW cap, rx' = f, Listen(f, cap)
    PROVE  IInv'
  <1>1. TcpValid(f) /\ conn.state = "LISTEN" BY DEF Listen, ForConn
  <1>2. f.tcp.seq \in SeqNo /\ f.tcp.src_port \in Ports /\ f.ip.src \in Ips
        /\ TcpPayloadLen(f) \in Nat
    BY <1>1, SegmentParsed DEF TcpSegment
  <1>3. Iss \in SeqNo /\ ToSeq(f.tcp.seq + 1) \in SeqNo /\ ToSeq(Iss + 1) \in SeqNo
    BY <1>2, ToSeqType, StackAssumption DEF SeqNo
  <1>4. /\ conn' = [conn EXCEPT !.state = "SYN_RECEIVED",
                                !.remote_ip = f.ip.src,
                                !.remote_port = f.tcp.src_port,
                                !.rcv_nxt = ToSeq(f.tcp.seq + 1),
                                !.snd_nxt = ToSeq(Iss + 1)]
        /\ conn'.rcv_nxt = ToSeq(f.tcp.seq + 1)
    BY DEF Listen, IInv, ConnOK, Connection
  <1>5. conn' \in Connection BY <1>2, <1>3, <1>4 DEF IInv, ConnOK, Connection, States
  <1>6. /\ conn'.state = "SYN_RECEIVED" /\ conn'.snd_nxt = ToSeq(Iss + 1)
        /\ conn'.bytes_received = 0
    BY <1>1, <1>4 DEF IInv, ConnOK, Connection
  <1>7. Iss + 1 + 0 = Iss + 1 BY <1>3 DEF SeqNo
  <1>8. ConnOK' BY <1>5, <1>6, <1>7 DEF ConnOK, SeqAccounting
  <1>9. EmitTcp(f, cap, Iss, ToSeq(f.tcp.seq + 1), {"SYN", "ACK"}, NoData, 0)
    BY <1>4 DEF Listen
  <1>10. IdOK' /\ AnswerOK'
    BY <1>1, <1>2, <1>3, <1>9, EmitAnswer, FramesAssumption DEF IInv, Flags
  <1> QED BY <1>8, <1>10 DEF IInv

\* The edges that send nothing change the state only.
LEMMA QuietStep ==
    ASSUME IInv, NEW f \in Frame, rx' = f, SynReceived(f) \/ LastAck(f)
    PROVE  IInv'
  <1>1. PICK state \in {"ESTABLISHED", "CLOSED"} :
          conn' = [conn EXCEPT !.state = state] /\ conn.state # "LISTEN"
    BY DEF SynReceived, LastAck, ForConn
  <1>2. conn' \in Connection BY <1>1 DEF IInv, ConnOK, Connection, States
  <1>3. /\ conn'.state = state /\ conn'.snd_nxt = conn.snd_nxt
        /\ conn'.bytes_received = conn.bytes_received
    BY <1>1 DEF IInv, ConnOK, Connection
  <1>4. ConnOK' BY <1>1, <1>2, <1>3 DEF IInv, ConnOK, SeqAccounting
  <1>5. Silent BY DEF SynReceived, LastAck
  <1> QED BY <1>4, <1>5, SilentAnswer DEF IInv

\* The FIN moves rcv_nxt and the state, not the accounts of what was sent.
LEMMA ReceiveFinStep ==
    ASSUME IInv, NEW f \in Frame, NEW cap, rx' = f, ReceiveFin(f, cap)
    PROVE  IInv'
  <1>1. TcpValid(f) /\ conn.state = "ESTABLISHED" BY DEF ReceiveFin, ForConn
  <1>2. f.tcp.seq \in SeqNo /\ TcpPayloadLen(f) \in Nat
    BY <1>1, SegmentParsed DEF TcpSegment
  <1>3. ToSeq(f.tcp.seq + 1) \in SeqNo BY <1>2, ToSeqType DEF SeqNo
  <1>4. /\ conn' = [conn EXCEPT !.state = "LAST_ACK",
                                !.rcv_nxt = ToSeq(f.tcp.seq + 1)]
        /\ conn'.rcv_nxt = ToSeq(f.tcp.seq + 1)
    BY DEF ReceiveFin, IInv, ConnOK, Connection
  <1>5. conn' \in Connection BY <1>3, <1>4 DEF IInv, ConnOK, Connection, States
  <1>6. /\ conn'.state = "LAST_ACK" /\ conn'.snd_nxt = conn.snd_nxt
        /\ conn'.bytes_received = conn.bytes_received
    BY <1>4 DEF IInv, ConnOK, Connection
  <1>7. ConnOK' BY <1>1, <1>5, <1>6 DEF IInv, ConnOK, SeqAccounting
  <1>8. EmitTcp(f, cap, conn.snd_nxt, ToSeq(f.tcp.seq + 1), {"FIN", "ACK"}, NoData, 0)
    BY <1>4 DEF ReceiveFin
  <1>9. conn.snd_nxt \in SeqNo BY DEF IInv, ConnOK, Connection
  <1>10. IdOK' /\ AnswerOK'
    BY <1>1, <1>2, <1>3, <1>8, <1>9, EmitAnswer, FramesAssumption DEF IInv, Flags
  <1> QED BY <1>7, <1>10 DEF IInv

\* The echo advances snd_nxt modulo 2^32 and bytes_received modulo 2^64 by one
\* payload length, also when the answer did not fit the caller's buffer.
LEMMA ReceiveDataStep ==
    ASSUME IInv, NEW f \in Frame, NEW cap, rx' = f, ReceiveData(f, cap)
    PROVE  IInv'
  <1> DEFINE n == TcpPayloadLen(f)
  <1>1. TcpValid(f) /\ conn.state = "ESTABLISHED" BY DEF ReceiveData, ForConn
  <1>2. f.tcp.seq \in SeqNo /\ f.tcp.data \in Data /\ n \in Nat
    BY <1>1, SegmentParsed DEF TcpSegment
  <1>3. /\ conn.snd_nxt \in SeqNo /\ conn.bytes_received \in 0..(BytesMod - 1)
        /\ conn.snd_nxt = ToSeq(Iss + 1 + conn.bytes_received)
    BY <1>1 DEF IInv, ConnOK, Connection, SeqAccounting
  <1>4. ToSeq(f.tcp.seq + n) \in SeqNo /\ ToSeq(conn.snd_nxt + n) \in SeqNo
    BY <1>2, <1>3, ToSeqType DEF SeqNo
  <1>5. /\ conn' = [conn EXCEPT !.rcv_nxt = ToSeq(f.tcp.seq + n),
                                !.bytes_received = (conn.bytes_received + n) % BytesMod,
                                !.snd_nxt = ToSeq(conn.snd_nxt + n)]
        /\ conn'.rcv_nxt = ToSeq(f.tcp.seq + n)
    BY DEF ReceiveData, IInv, ConnOK, Connection
  <1>6. (conn.bytes_received + n) % BytesMod \in 0..(BytesMod - 1)
    <2>1. conn.bytes_received + n \in Int BY <1>2, <1>3
    <2> QED BY <2>1, ModRange, StackAssumption
  <1> HIDE DEF n
  <1>7. conn' \in Connection
    BY <1>4, <1>5, <1>6 DEF IInv, ConnOK, Connection
  <1>8. /\ conn'.state = "ESTABLISHED" /\ conn'.snd_nxt = ToSeq(conn.snd_nxt + n)
        /\ conn'.bytes_received = (conn.bytes_received + n) % BytesMod
    BY <1>1, <1>5 DEF IInv, ConnOK, Connection
  <1>9. ToSeq(conn.snd_nxt + n) = ToSeq(Iss + 1 + conn'.bytes_received)
    <2> DEFINE a == Iss + 1
               b == conn.bytes_received
    <2>1. a \in Int /\ b \in Int /\ n \in Int
      BY <1>2, <1>3, StackAssumption DEF SeqNo
    <2>2. conn.snd_nxt = ToSeq(a + b) BY <1>3
    <2>3. conn'.bytes_received = (b + n) % BytesMod BY <1>8
    <2> HIDE DEF a, b
    <2>4. ToSeq(conn.snd_nxt + n) = ToSeq((a + b) + n)
      BY <2>1, <2>2, ToSeqAdd
    <2>5. (a + b) + n = a + (b + n) BY <2>1
    <2>6. ToSeq(a + ((b + n) % BytesMod)) = ToSeq(a + (b + n))
      <3>1. b + n \in Int BY <2>1
      <3> QED BY <2>1, <3>1, ToSeqBytes
    <2> QED BY <2>3, <2>4, <2>5, <2>6 DEF a
  <1>10. ConnOK' BY <1>7, <1>8, <1>9 DEF ConnOK, SeqAccounting
  <1>11. EmitTcp(f, cap, conn.snd_nxt, ToSeq(f.tcp.seq + n), {"ACK", "PSH"},
                 f.tcp.data, n)
    BY <1>5 DEF ReceiveData, n
  <1>12. IdOK' /\ AnswerOK'
    BY <1>1, <1>2, <1>3, <1>4, <1>11, EmitAnswer DEF IInv, Flags, n
  <1> QED BY <1>10, <1>12 DEF IInv

\* A reset for a closed port changes nothing but the identification.
LEMMA ClosedPortStep ==
    ASSUME IInv, NEW f \in Frame, NEW cap, rx' = f, ClosedPort(f, cap)
    PROVE  IInv'
  <1>1. TcpValid(f) /\ UNCHANGED conn BY DEF ClosedPort
  <1>2. f.tcp.seq \in SeqNo /\ f.tcp.ack \in SeqNo /\ TcpPayloadLen(f) \in Nat
    BY <1>1, SegmentParsed DEF TcpSegment
  <1>3. ToSeq(f.tcp.seq + 1) \in SeqNo BY <1>2, ToSeqType DEF SeqNo
  <1>4. EmitTcp(f, cap, f.tcp.ack, ToSeq(f.tcp.seq + 1), {"RST", "ACK"}, NoData, 0)
    BY DEF ClosedPort
  <1>5. IdOK' /\ AnswerOK'
    BY <1>1, <1>2, <1>3, <1>4, EmitAnswer, FramesAssumption DEF IInv, Flags
  <1> QED BY <1>1, <1>5 DEF IInv, ConnOK, SeqAccounting

\* gcs_stack_handle_frame preserves the invariant, on any frame and any buffer.
LEMMA HandleStep ==
    ASSUME IInv, NEW f \in Frame, NEW cap, HandleFrame(f, cap)
    PROVE  IInv'
  <1>1. rx' = f BY DEF HandleFrame
  <1>2. CASE /\ UNCHANGED conn
             /\ Silent \/ HandleArp(f, cap) \/ HandleIcmp(f, cap)
    <2>1. IdOK' /\ AnswerOK'
      BY <1>1, <1>2, SilentAnswer, ArpAnswer, EchoAnswer DEF IInv
    <2> QED BY <1>1, <1>2, <2>1 DEF IInv, ConnOK, SeqAccounting
  <1>3. CASE DropFrame(f) BY <1>2, <1>3 DEF DropFrame
  <1>4. CASE HandleArp(f, cap) BY <1>2, <1>4 DEF HandleArp
  <1>5. CASE HandleIcmp(f, cap) BY <1>2, <1>5 DEF HandleIcmp
  <1>6. CASE HandleTcp(f, cap)
    <2>1. CASE ClosedPort(f, cap) BY <1>1, <2>1, ClosedPortStep
    <2>2. CASE Listen(f, cap) BY <1>1, <2>2, ListenStep
    <2>3. CASE SynReceived(f) BY <1>1, <2>3, QuietStep
    <2>4. CASE ReceiveFin(f, cap) BY <1>1, <2>4, ReceiveFinStep
    <2>5. CASE ReceiveData(f, cap) BY <1>1, <2>5, ReceiveDataStep
    <2>6. CASE LastAck(f) BY <1>1, <2>6, QuietStep
    <2>7. CASE IgnoreSegment(f) BY <1>2, <2>7 DEF IgnoreSegment
    <2> QED BY <1>6, <2>1, <2>2, <2>3, <2>4, <2>5, <2>6, <2>7 DEF HandleTcp
  <1> QED BY <1>3, <1>4, <1>5, <1>6 DEF HandleFrame

\* Every step preserves the invariant.
LEMMA IInvNext == IInv /\ [Next]_vars => IInv'
  <1>1. ASSUME IInv, UNCHANGED vars PROVE IInv'
    BY <1>1
    DEF IInv, ConnOK, IdOK, AnswerOK, SeqAccounting, ReplyFits, ReplyParses, vars
  <1>2. ASSUME IInv, Next PROVE IInv'
    <2>1. PICK f \in Frames, cap \in OutCaps : HandleFrame(f, cap) BY <1>2 DEF Next
    <2> QED BY <1>2, <2>1, HandleStep, StackAssumption
  <1> QED BY <1>1, <1>2

\* The invariant holds in every reachable state.
THEOREM Invariance == Spec => []IInv
  BY IInvInit, IInvNext, PTL DEF Spec

\* Every counter, address and flag set stays within its C type and every answer is
\* a well-formed frame, whatever frames arrive and whatever buffers callers bring.
THEOREM TypeCorrect == Spec => []TypeOK
  <1>1. IInv => TypeOK BY DEF IInv, ConnOK, IdOK, AnswerOK, TypeOK
  <1> QED BY <1>1, Invariance, PTL

\* snd_nxt (32 bits) and bytes_received (64 bits) never drift apart.
THEOREM AccountsAgree == Spec => []SeqAccounting
  <1>1. IInv => SeqAccounting BY DEF IInv, ConnOK
  <1> QED BY <1>1, Invariance, PTL

\* No answer is longer than the frame it answers: the programs, whose two buffers
\* have one size, cannot meet the "buffer too short" exits.
THEOREM AnswersFit == Spec => []ReplyFits
  <1>1. IInv => ReplyFits BY DEF IInv, AnswerOK
  <1> QED BY <1>1, Invariance, PTL

\* The stack's parsers accept what its writers produce: no 16-bit length cast of
\* gcs_stack.c or gcs_ipv4.c ever truncates.
THEOREM AnswersParse == Spec => []ReplyParses
  <1>1. IInv => ReplyParses BY DEF IInv, AnswerOK
  <1> QED BY <1>1, Invariance, PTL
-----------------------------------------------------------------------------
(***************************************************************************)
(* What callers of gcs_stack_handle_frame may rely on, whatever the state. *)
(***************************************************************************)
\* A segment goes back where the segment it answers came from.
LEMMA EmitAnswers ==
    ASSUME NEW f, NEW cap, NEW seq, NEW ack, NEW flags, NEW data, NEW n \in Nat,
           TcpValid(f), data \in {NoData, f.tcp.data},
           EmitTcp(f, cap, seq, ack, flags, data, n)
    PROVE  \/ tx' = NoReply /\ UNCHANGED ip_id
           \/ /\ Answered(tx') /\ AnswerTo(f, tx')
              /\ tx'.ethertype = "IPv4" /\ tx'.ip.id = ip_id /\ NextId
  <1> DEFINE s == Segment(f, seq, ack, flags, data, n)
  <1>1. f.ethertype = "IPv4" /\ f.ip.protocol = "TCP" BY DEF TcpValid, IpValid
  <1>2. /\ s.ethertype = "IPv4" /\ s.dst = f.src
        /\ s.ip.id = ip_id /\ s.ip.dst = f.ip.src /\ s.ip.protocol = "TCP"
        /\ s.tcp.dst_port = f.tcp.src_port /\ s.tcp.src_port = f.tcp.dst_port
        /\ s.tcp.data = data
    BY DEF Segment, IpWrite
  <1>3. Answered(s)
    BY DEF Segment, Answered, GCS_ETH_HDR_LEN, GCS_IPV4_MIN_HDR_LEN,
           GCS_TCP_MIN_HDR_LEN
  <1> HIDE DEF s
  <1>4. AnswerTo(f, s) BY <1>1, <1>2 DEF AnswerTo
  <1>5. IF cap >= s.len THEN tx' = s /\ NextId ELSE Silent BY DEF EmitTcp, s
  <1> QED BY <1>2, <1>3, <1>4, <1>5 DEF Silent

\* The answer left in the buffer, if any, is one to the frame handed over, and an IPv4
\* answer bears the identification that this call, and no other, has used up.
LEMMA AnswersTheFrame ==
    ASSUME NEW f \in Frame, NEW cap, HandleFrame(f, cap)
    PROVE  \/ tx' = NoReply /\ UNCHANGED ip_id
           \/ /\ Answered(tx') /\ AnswerTo(f, tx')
              /\ \/ tx'.ethertype = "ARP" /\ UNCHANGED ip_id
                 \/ tx'.ethertype = "IPv4" /\ tx'.ip.id = ip_id /\ NextId
  <1>1. CASE Silent BY <1>1 DEF Silent
  <1>2. CASE HandleArp(f, cap) /\ ~Silent
    <2>1. f.ethertype = "ARP" /\ tx' = ArpReply(f) /\ UNCHANGED ip_id
      BY <1>2 DEF HandleArp
    <2>2. Answered(ArpReply(f))
      BY DEF ArpReply, Answered, GCS_ETH_HDR_LEN, GCS_ARP_HDR_LEN
    <2> QED BY <2>1, <2>2 DEF ArpReply, AnswerTo
  <1>3. CASE HandleIcmp(f, cap) /\ ~Silent
    <2>1. /\ IpValid(f) /\ f.ip.protocol = "ICMP" /\ IcmpParse(f)
          /\ tx' = EchoReply(f) /\ NextId
      BY <1>3 DEF HandleIcmp
    <2>2. IcmpPayloadLen(f) \in Nat BY <2>1, EchoParsed
    <2>3. Answered(EchoReply(f))
      BY <2>2 DEF EchoReply, Answered, GCS_ETH_HDR_LEN, GCS_IPV4_MIN_HDR_LEN,
                  GCS_ICMP_HDR_LEN
    <2> QED BY <2>1, <2>3 DEF EchoReply, IpWrite, IpValid, AnswerTo
  <1>4. CASE HandleTcp(f, cap) /\ ~Silent
    <2>1. TcpValid(f) => TcpPayloadLen(f) \in Nat BY SegmentParsed
    <2>2. PICK seq, ack, flags, data, n :
            /\ TcpValid(f) /\ data \in {NoData, f.tcp.data} /\ n \in Nat
            /\ EmitTcp(f, cap, seq, ack, flags, data, n)
      BY <1>4, <2>1
      DEF HandleTcp, ClosedPort, Listen, SynReceived, ReceiveFin, ReceiveData, LastAck,
          IgnoreSegment, ForConn
    <2> QED BY <2>2, EmitAnswers
  <1> QED BY <1>1, <1>2, <1>3, <1>4 DEF HandleFrame, DropFrame
================================================================================
