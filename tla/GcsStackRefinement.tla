-------------------------- MODULE GcsStackRefinement --------------------------
(***************************************************************************)
(* What the connection says, step by step: for any buffers, nothing is     *)
(* said twice; with buffers as long as the frames, the stack implements    *)
(* the abstract server.                                                    *)
(***************************************************************************)
EXTENDS GcsStackProofs

-----------------------------------------------------------------------------
(***************************************************************************)
(* One step, seen from the peer: a segment that starts at NextSeq and      *)
(* moves it by n, or silence.                                              *)
(***************************************************************************)
\* The last step sent a segment of the connection carrying these flags and n
\* bytes, from NextSeq on.
Speaks(flags, n) ==
    /\ FromConn(tx')
    /\ tx'.tcp.seq = NextSeq
    /\ tx'.tcp.flags = flags
    /\ TcpPayloadLen(tx') = n

Mute == ~FromConn(tx')

\* gcs_stack_emit_tcp says what it was asked to say, or nothing; and it says it if
\* the caller's buffer is as long as the frame being answered.
LEMMA EmitSpeaks ==
    ASSUME IInv, NEW f \in Frame, NEW cap \in Nat, TcpValid(f),
           f.tcp.dst_port = ListenPort, NextSeq \in SeqNo,
           NEW ack \in SeqNo, NEW flags \in SUBSET Flags,
           NEW data \in Data, NEW n \in Nat, n <= TcpPayloadLen(f),
           EmitTcp(f, cap, NextSeq, ack, flags, data, n)
    PROVE  /\ Mute \/ Speaks(flags, n)
           /\ f.len <= cap => Speaks(flags, n)
  <1> DEFINE s == Segment(f, NextSeq, ack, flags, data, n)
  <1>1. s.len = n + 54 /\ s.ip.protocol = "TCP" /\ TcpPayloadLen(s) = n
    BY SegmentFrame DEF IInv, IdOK
  <1>2. /\ s.ethertype = "IPv4" /\ s.tcp.seq = NextSeq /\ s.tcp.flags = flags
        /\ s.tcp.src_port = ListenPort
    BY DEF Segment
  <1>3. f.len \in Nat /\ TcpPayloadLen(f) \in Nat /\ TcpPayloadLen(f) + 54 <= f.len
    BY SegmentParsed, FrameKinds
  <1> HIDE DEF s
  <1>4. tx' = s => Speaks(flags, n) BY <1>1, <1>2 DEF Speaks, FromConn, Answered
  <1>5. tx' = NoReply => Mute BY DEF Mute, FromConn, Answered, NoReply
  <1>6. IF cap >= s.len THEN tx' = s ELSE tx' = NoReply BY DEF EmitTcp, Silent, s
  <1>7. f.len <= cap => cap >= s.len BY <1>1, <1>3
  <1> QED BY <1>4, <1>5, <1>6, <1>7

\* An answer of another protocol, or from another port, is not the connection's.
LEMMA OthersMute ==
    ASSUME NEW f, NEW cap,
           \/ Silent
           \/ HandleArp(f, cap)
           \/ HandleIcmp(f, cap)
           \/ ClosedPort(f, cap)
    PROVE  Mute
  <1>1. Silent => Mute BY DEF Silent, Mute, FromConn, Answered, NoReply
  <1>2. tx' = ArpReply(f) => Mute BY DEF ArpReply, Mute, FromConn
  <1>3. tx' = EchoReply(f) => Mute BY DEF EchoReply, IpWrite, Mute, FromConn
  <1>4. ASSUME NEW seq, NEW ack, NEW flags, NEW data, NEW n,
               f.tcp.dst_port # ListenPort,
               tx' = Segment(f, seq, ack, flags, data, n)
        PROVE  Mute
    BY <1>4 DEF Segment, Mute, FromConn
  <1>5. ClosedPort(f, cap) => Mute BY <1>1, <1>4 DEF ClosedPort, EmitTcp
  <1> QED BY <1>1, <1>2, <1>3, <1>5 DEF HandleArp, HandleIcmp

\* NextSeq is a sequence number.
LEMMA NextSeqType == IInv => NextSeq \in SeqNo
  <1> SUFFICES ASSUME IInv PROVE NextSeq \in SeqNo OBVIOUS
  <1>1. conn.snd_nxt \in SeqNo /\ conn.state \in States
    BY DEF IInv, ConnOK, Connection
  <1>2. Iss \in SeqNo BY StackAssumption
  <1>3. ToSeq(conn.snd_nxt + 1) \in SeqNo BY <1>1, ToSeqType DEF SeqNo
  <1> QED BY <1>1, <1>2, <1>3 DEF NextSeq, States
-----------------------------------------------------------------------------
(***************************************************************************)
(* The steps of the stack as the peer can tell them apart.                 *)
(***************************************************************************)
\* An edge of the automaton that owes the peer a segment with these flags and n
\* bytes, and takes "width" sequence numbers.
Edge(from, to, flags, n, width, fits) ==
    /\ conn.state = from /\ conn'.state = to
    /\ NextSeq' = ToSeq(NextSeq + width)
    /\ Mute \/ Speaks(flags, n)
    /\ fits => Speaks(flags, n)

SynEdge(fits) == Edge("LISTEN", "SYN_RECEIVED", {"SYN", "ACK"}, 0, 1, fits)
FinEdge(fits) == Edge("ESTABLISHED", "LAST_ACK", {"FIN", "ACK"}, 0, 1, fits)
EchoEdge(n, fits) == Edge("ESTABLISHED", "ESTABLISHED", {"ACK", "PSH"}, n, n, fits)

MuteEdge ==
    /\ Mute
    /\ NextSeq' = NextSeq
    /\ \/ conn'.state = conn.state
       \/ conn.state = "SYN_RECEIVED" /\ conn'.state = "ESTABLISHED"
       \/ conn.state = "LAST_ACK" /\ conn'.state = "CLOSED"

\* gcs_stack.c, case GCS_TCP_LISTEN: the SYN is said from iss and counted at once.
LEMMA ListenEdge ==
    ASSUME IInv, NEW f \in Frame, NEW cap \in Nat, Listen(f, cap)
    PROVE  SynEdge(f.len <= cap)
  <1>1. TcpValid(f) /\ f.tcp.dst_port = ListenPort /\ conn.state = "LISTEN"
    BY DEF Listen, ForConn
  <1>2. NextSeq = Iss /\ NextSeq \in SeqNo
    BY <1>1, NextSeqType DEF NextSeq
  <1>3. /\ conn'.state = "SYN_RECEIVED" /\ conn'.snd_nxt = ToSeq(Iss + 1)
        /\ conn'.rcv_nxt = ToSeq(f.tcp.seq + 1)
    BY DEF Listen, IInv, ConnOK, Connection
  <1>4. NextSeq' = ToSeq(NextSeq + 1) BY <1>2, <1>3 DEF NextSeq
  <1>5. f.tcp.seq \in SeqNo /\ TcpPayloadLen(f) \in Nat
    BY <1>1, SegmentParsed DEF TcpSegment
  <1>6. ToSeq(f.tcp.seq + 1) \in SeqNo BY <1>5, ToSeqType DEF SeqNo
  <1>7. EmitTcp(f, cap, NextSeq, ToSeq(f.tcp.seq + 1), {"SYN", "ACK"}, NoData, 0)
    BY <1>2, <1>3 DEF Listen
  <1>8. /\ Mute \/ Speaks({"SYN", "ACK"}, 0)
        /\ f.len <= cap => Speaks({"SYN", "ACK"}, 0)
    BY <1>1, <1>2, <1>5, <1>6, <1>7, EmitSpeaks, FramesAssumption DEF Flags
  <1> QED BY <1>1, <1>3, <1>4, <1>8 DEF SynEdge, Edge

\* Case GCS_TCP_ESTABLISHED with FIN: the FIN is counted by the state.
LEMMA ReceiveFinEdge ==
    ASSUME IInv, NEW f \in Frame, NEW cap \in Nat, ReceiveFin(f, cap)
    PROVE  FinEdge(f.len <= cap)
  <1>1. TcpValid(f) /\ f.tcp.dst_port = ListenPort /\ conn.state = "ESTABLISHED"
    BY DEF ReceiveFin, ForConn
  <1>2. NextSeq = conn.snd_nxt /\ NextSeq \in SeqNo
    BY <1>1, NextSeqType DEF NextSeq
  <1>3. /\ conn'.state = "LAST_ACK" /\ conn'.snd_nxt = conn.snd_nxt
        /\ conn'.rcv_nxt = ToSeq(f.tcp.seq + 1)
    BY DEF ReceiveFin, IInv, ConnOK, Connection
  <1>4. NextSeq' = ToSeq(NextSeq + 1) BY <1>2, <1>3 DEF NextSeq
  <1>5. f.tcp.seq \in SeqNo /\ TcpPayloadLen(f) \in Nat
    BY <1>1, SegmentParsed DEF TcpSegment
  <1>6. ToSeq(f.tcp.seq + 1) \in SeqNo BY <1>5, ToSeqType DEF SeqNo
  <1>7. EmitTcp(f, cap, NextSeq, ToSeq(f.tcp.seq + 1), {"FIN", "ACK"}, NoData, 0)
    BY <1>2, <1>3 DEF ReceiveFin
  <1>8. /\ Mute \/ Speaks({"FIN", "ACK"}, 0)
        /\ f.len <= cap => Speaks({"FIN", "ACK"}, 0)
    BY <1>1, <1>2, <1>5, <1>6, <1>7, EmitSpeaks, FramesAssumption DEF Flags
  <1> QED BY <1>1, <1>3, <1>4, <1>8 DEF FinEdge, Edge

\* Case GCS_TCP_ESTABLISHED with data: counted after the emission, in snd_nxt.
LEMMA ReceiveDataEdge ==
    ASSUME IInv, NEW f \in Frame, NEW cap \in Nat, ReceiveData(f, cap)
    PROVE  /\ TcpPayloadLen(f) \in Nat /\ TcpPayloadLen(f) > 0
           /\ EchoEdge(TcpPayloadLen(f), f.len <= cap)
  <1> DEFINE n == TcpPayloadLen(f)
  <1>1. TcpValid(f) /\ f.tcp.dst_port = ListenPort /\ conn.state = "ESTABLISHED"
    BY DEF ReceiveData, ForConn
  <1>2. NextSeq = conn.snd_nxt /\ NextSeq \in SeqNo
    BY <1>1, NextSeqType DEF NextSeq
  <1>3. /\ conn'.state = "ESTABLISHED" /\ conn'.snd_nxt = ToSeq(conn.snd_nxt + n)
        /\ conn'.rcv_nxt = ToSeq(f.tcp.seq + n)
    BY <1>1 DEF ReceiveData, IInv, ConnOK, Connection
  <1>4. NextSeq' = ToSeq(NextSeq + n) BY <1>2, <1>3 DEF NextSeq
  <1>5. f.tcp.seq \in SeqNo /\ f.tcp.data \in Data /\ n \in Nat
    BY <1>1, SegmentParsed DEF TcpSegment
  <1>6. ToSeq(f.tcp.seq + n) \in SeqNo BY <1>5, ToSeqType DEF SeqNo
  <1>7. EmitTcp(f, cap, NextSeq, ToSeq(f.tcp.seq + n), {"ACK", "PSH"}, f.tcp.data, n)
    BY <1>2, <1>3 DEF ReceiveData
  <1>8. /\ Mute \/ Speaks({"ACK", "PSH"}, n)
        /\ f.len <= cap => Speaks({"ACK", "PSH"}, n)
    <2> HIDE DEF n
    <2>1. n <= TcpPayloadLen(f) BY <1>5 DEF n
    <2> QED BY <1>1, <1>2, <1>5, <1>6, <1>7, <2>1, EmitSpeaks DEF Flags
  <1>9. n > 0 BY DEF ReceiveData
  <1> HIDE DEF n
  <1>10. EchoEdge(n, f.len <= cap) BY <1>1, <1>3, <1>4, <1>8 DEF EchoEdge, Edge
  <1> QED BY <1>5, <1>9, <1>10 DEF n

\* Every step is one of the four kinds.
LEMMA StepEdge ==
    ASSUME IInv, NEW f \in Frame, NEW cap \in Nat, HandleFrame(f, cap)
    PROVE  \/ MuteEdge
           \/ SynEdge(f.len <= cap)
           \/ FinEdge(f.len <= cap)
           \/ \E n \in Nat : n > 0 /\ EchoEdge(n, f.len <= cap)
  <1>1. CASE /\ UNCHANGED conn
             /\ \/ Silent
                \/ HandleArp(f, cap) \/ HandleIcmp(f, cap) \/ ClosedPort(f, cap)
    BY <1>1, OthersMute DEF MuteEdge, NextSeq
  <1>2. CASE DropFrame(f) BY <1>1, <1>2 DEF DropFrame
  <1>3. CASE HandleArp(f, cap) BY <1>1, <1>3 DEF HandleArp
  <1>4. CASE HandleIcmp(f, cap) BY <1>1, <1>4 DEF HandleIcmp
  <1>5. CASE HandleTcp(f, cap)
    <2>1. CASE ClosedPort(f, cap) BY <1>1, <2>1 DEF ClosedPort
    <2>2. CASE Listen(f, cap) BY <2>2, ListenEdge
    <2>3. CASE SynReceived(f) \/ LastAck(f)
      <3>1. Mute BY <2>3, OthersMute DEF SynReceived, LastAck
      <3>2. /\ conn'.snd_nxt = conn.snd_nxt
            /\ \/ conn.state = "SYN_RECEIVED" /\ conn'.state = "ESTABLISHED"
               \/ conn.state = "LAST_ACK" /\ conn'.state = "CLOSED"
        BY <2>3 DEF SynReceived, LastAck, ForConn, IInv, ConnOK, Connection
      <3>3. NextSeq' = NextSeq BY <3>2 DEF NextSeq
      <3> QED BY <3>1, <3>2, <3>3 DEF MuteEdge
    <2>4. CASE ReceiveFin(f, cap) BY <2>4, ReceiveFinEdge
    <2>5. CASE ReceiveData(f, cap) BY <2>5, ReceiveDataEdge
    <2>6. CASE IgnoreSegment(f) BY <1>1, <2>6 DEF IgnoreSegment
    <2> QED BY <1>5, <2>1, <2>2, <2>3, <2>4, <2>5, <2>6 DEF HandleTcp
  <1> QED BY <1>2, <1>3, <1>4, <1>5 DEF HandleFrame

\* What a caller whose buffer is as long as the frame may rely on: the sequence space
\* moves with the segments it is given, and with nothing else.
LEMMA NothingLost ==
    ASSUME IInv, NEW f \in Frame, NEW cap \in Nat, f.len <= cap, HandleFrame(f, cap)
    PROVE  IF FromConn(tx')
           THEN tx'.tcp.seq = NextSeq /\ NextSeq' = ToSeq(tx'.tcp.seq + SegLen(tx'))
           ELSE NextSeq' = NextSeq
  <1> DEFINE Moves ==
        IF FromConn(tx')
        THEN tx'.tcp.seq = NextSeq /\ NextSeq' = ToSeq(tx'.tcp.seq + SegLen(tx'))
        ELSE NextSeq' = NextSeq
  <1>1. CASE MuteEdge BY <1>1 DEF MuteEdge, Mute
  <1>2. CASE SynEdge(TRUE)
    <2>1. Speaks({"SYN", "ACK"}, 0) => SegLen(tx') = 1 BY DEF Speaks, SegLen
    <2> QED BY <1>2, <2>1 DEF SynEdge, Edge, Speaks
  <1>3. CASE FinEdge(TRUE)
    <2>1. Speaks({"FIN", "ACK"}, 0) => SegLen(tx') = 1 BY DEF Speaks, SegLen
    <2> QED BY <1>3, <2>1 DEF FinEdge, Edge, Speaks
  <1>4. ASSUME NEW n \in Nat, EchoEdge(n, TRUE) PROVE Moves
    <2>1. Speaks({"ACK", "PSH"}, n) => SegLen(tx') = n BY DEF Speaks, SegLen
    <2> QED BY <1>4, <2>1 DEF EchoEdge, Edge, Speaks
  <1> QED BY <1>1, <1>2, <1>3, <1>4, StepEdge
-----------------------------------------------------------------------------
\* Whatever the buffers, a segment starts where the sequence space spoken for ends
\* and takes exactly what it carries of it.
THEOREM NeverTwice == Spec => NothingSaidTwice
  <1> DEFINE Once == FromConn(tx') => /\ tx'.tcp.seq = NextSeq
                                      /\ NextSeq' = ToSeq(tx'.tcp.seq + SegLen(tx'))
  <1>1. ASSUME IInv, Next PROVE Once
    <2>1. PICK f \in Frames, cap \in OutCaps : HandleFrame(f, cap) /\ f \in Frame /\ cap \in Nat
      BY <1>1, StackAssumption DEF Next
    <2>2. CASE MuteEdge BY <2>2 DEF MuteEdge, Mute
    <2>3. CASE SynEdge(f.len <= cap)
      <3>1. Speaks({"SYN", "ACK"}, 0) => SegLen(tx') = 1 BY DEF Speaks, SegLen
      <3> QED BY <2>3, <3>1 DEF SynEdge, Edge, Mute, Speaks
    <2>4. CASE FinEdge(f.len <= cap)
      <3>1. Speaks({"FIN", "ACK"}, 0) => SegLen(tx') = 1 BY DEF Speaks, SegLen
      <3> QED BY <2>4, <3>1 DEF FinEdge, Edge, Mute, Speaks
    <2>5. ASSUME NEW n \in Nat, EchoEdge(n, f.len <= cap) PROVE Once
      <3>1. Speaks({"ACK", "PSH"}, n) => SegLen(tx') = n BY DEF Speaks, SegLen
      <3> QED BY <2>5, <3>1 DEF EchoEdge, Edge, Mute, Speaks
    <2> QED BY <1>1, <2>1, <2>2, <2>3, <2>4, <2>5, StepEdge
  <1>2. IInv /\ [Next]_vars => [Once]_vars BY <1>1
  <1> QED BY <1>2, Invariance, PTL DEF Spec, NothingSaidTwice
-----------------------------------------------------------------------------
(***************************************************************************)
(* The refinement.  Offsets count from iss, so a step from one sequence    *)
(* number to another is the same step from one offset to the other.        *)
(***************************************************************************)
\* Subtracting iss commutes with advancing by n, around the wrap as well.
LEMMA OffsetStep ==
    ASSUME NEW seq \in SeqNo, NEW n \in Nat
    PROVE  Offset(ToSeq(seq + n)) = (Offset(seq) + n) % SeqSpace
  <1>1. Iss \in Int /\ seq \in Int BY StackAssumption DEF SeqNo
  <1>2. ToSeq(ToSeq(seq + n) + (-Iss)) = ToSeq((seq + n) + (-Iss))
    BY <1>1, ToSeqAdd
  <1>3. ToSeq(ToSeq(seq + (-Iss)) + n) = ToSeq((seq + (-Iss)) + n)
    BY <1>1, ToSeqAdd
  <1>4. (seq + n) + (-Iss) = (seq + (-Iss)) + n /\ seq + (-Iss) = seq - Iss
    BY <1>1
  <1>5. ToSeq(seq + n) \in Int BY <1>1, ToSeqType DEF SeqNo
  <1>6. ToSeq(seq + n) + (-Iss) = ToSeq(seq + n) - Iss BY <1>1, <1>5
  <1> QED BY <1>2, <1>3, <1>4, <1>6 DEF Offset, ToSeq

\* When no buffer is shorter than the frame it is brought for, as in the two
\* programs, the stack implements the server: each edge of the automaton of the
\* guide is taken together with the one segment it owes the peer, and the offsets
\* of the segments leave no gap and no overlap.
THEOREM Refinement ==
    ASSUME \A f \in Frames, cap \in OutCaps : f.len <= cap
    PROVE  Spec => ImplementsServer
  <1>1. Init => Server!Init
    <2> SUFFICES ASSUME Init PROVE Server!Init OBVIOUS
    <2>1. Said = Server!Nothing
      BY DEF Init, Said, FromConn, Answered, NoReply, Server!Nothing
    <2>2. Offset(NextSeq) = 0
      <3>1. NextSeq = Iss BY DEF Init, NextSeq
      <3>2. Iss - Iss = 0 BY StackAssumption DEF SeqNo
      <3>3. 0 % SeqSpace = 0 BY FramesAssumption
      <3> QED BY <3>1, <3>2, <3>3 DEF Offset, ToSeq
    <2> QED BY <2>1, <2>2 DEF Init, Server!Init
  <1>2. ASSUME IInv, Next PROVE Server!Next
    <2>1. PICK f \in Frames, cap \in OutCaps : HandleFrame(f, cap) /\ f \in Frame /\ cap \in Nat
      BY <1>2, StackAssumption DEF Next
    <2>2. f.len <= cap OBVIOUS
    <2>3. NextSeq \in SeqNo BY <1>2, NextSeqType
    <2>4. CASE MuteEdge
      <3>1. Server!Quiet
        BY <2>4 DEF MuteEdge, Mute, Said, Server!Quiet, Server!Nothing
      <3> QED
        BY <2>4, <3>1
        DEF MuteEdge, Server!Next, Server!Ignore, Server!Confirm, Server!Finish
    <2>5. CASE SynEdge(TRUE)
      <3>1. Said' = [kind |-> "SYN", at |-> Offset(NextSeq), len |-> 1]
        BY <2>5 DEF SynEdge, Edge, Speaks, Said
      <3>2. Offset(NextSeq)' = (Offset(NextSeq) + 1) % SeqSpace
        BY <2>3, <2>5, OffsetStep DEF SynEdge, Edge, Offset
      <3> QED
        BY <2>5, <3>1, <3>2
        DEF SynEdge, Edge, Server!Next, Server!Accept, Server!Say
    <2>6. CASE FinEdge(TRUE)
      <3>1. Said' = [kind |-> "FIN", at |-> Offset(NextSeq), len |-> 1]
        BY <2>6 DEF FinEdge, Edge, Speaks, Said
      <3>2. Offset(NextSeq)' = (Offset(NextSeq) + 1) % SeqSpace
        BY <2>3, <2>6, OffsetStep DEF FinEdge, Edge, Offset
      <3> QED
        BY <2>6, <3>1, <3>2
        DEF FinEdge, Edge, Server!Next, Server!Close, Server!Say
    <2>7. ASSUME NEW n \in Nat, n > 0, EchoEdge(n, TRUE) PROVE Server!Next
      <3>1. Said' = [kind |-> "DATA", at |-> Offset(NextSeq), len |-> n]
        BY <2>7 DEF EchoEdge, Edge, Speaks, Said
      <3>2. Offset(NextSeq)' = (Offset(NextSeq) + n) % SeqSpace
        BY <2>3, <2>7, OffsetStep DEF EchoEdge, Edge, Offset
      <3> QED
        BY <2>7, <3>1, <3>2
        DEF EchoEdge, Edge, Server!Next, Server!Echo, Server!Say
    <2> QED BY <1>2, <2>1, <2>2, <2>4, <2>5, <2>6, <2>7, StepEdge
  <1>3. UNCHANGED vars => UNCHANGED Server!vars
    BY DEF vars, Server!vars, NextSeq, Offset, Said, FromConn, Answered
  <1>4. IInv /\ [Next]_vars => [Server!Next]_Server!vars BY <1>2, <1>3
  <1> QED BY <1>1, <1>4, Invariance, PTL DEF Spec, ImplementsServer, Server!Spec
================================================================================
