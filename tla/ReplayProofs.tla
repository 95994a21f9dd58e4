----------------------------- MODULE ReplayProofs -----------------------------
(***************************************************************************)
(* GCS.Replay on any capture and any disk: what it reports at the end, the *)
(* order and the stamps of the records it writes, their identifications    *)
(* and sequence numbers.  The stack inside it is that of GcsStackProofs.   *)
(***************************************************************************)
EXTENDS Replay, NumberFacts, SequenceTheorems, FiniteSetTheorems

Core == INSTANCE GcsStackRefinement WITH Frames <- {}, OutCaps <- {GCS_STACK_FRAME_CAP}

-----------------------------------------------------------------------------
(***************************************************************************)
(* How far the program is in the capture, and which files are open.        *)
(***************************************************************************)
Record == [incl: Nat, whole: BOOLEAN, frame: Frame, ts_sec: Stamp, ts_usec: Stamp]

FileInv ==
    /\ file \in Captures /\ disk \in DiskCaps
    /\ pos \in 0..Len(file.records) /\ index = pos
    /\ \A j \in 1..pos : Usable(file.records[j])
    /\ pc = "done" => NextLen = 0
    /\ pc = "handle" =>
         /\ pos > 0 /\ frame = file.records[pos].frame
         /\ ts_sec = file.records[pos].ts_sec /\ ts_usec = file.records[pos].ts_usec

ExitInv ==
    /\ have_writer \in BOOLEAN
    /\ pc \in {"open_read", "open_write", "read", "handle", "done", "failed"}
    /\ pc \in {"open_read", "done", "failed"} => ~reader_fp
    /\ pc \in {"open_read", "open_write", "done", "failed"} => ~writer_fp
    /\ pc \in {"read", "handle"} => writer_fp = have_writer

\* The capture is a sequence of records.
LEMMA FileRecords ==
    ASSUME FileInv
    PROVE  /\ file.records \in Seq(Record) /\ Len(file.records) \in Nat
           /\ \A i \in 1..Len(file.records) :
                /\ file.records[i] \in Record
                /\ FrameRead(file.records[i], GCS_STACK_FRAME_CAP)
                     \in {0, file.records[i].frame.len}
  <1>1. file.records \in Seq(Record) BY ReplayAssumption DEF FileInv, Record
  <1>2. /\ Len(file.records) \in Nat
        /\ \A i \in 1..Len(file.records) : file.records[i] \in Record
    BY <1>1, LenProperties, ElementOfSeq
  <1> QED BY <1>1, <1>2, ReplayAssumption DEF FileInv

\* gcs_pcap_read_frame returns a length for the records that can be used, 0 for others.
LEMMA FrameReadUsable ==
    ASSUME NEW r \in Record
    PROVE  /\ FrameRead(r, GCS_STACK_FRAME_CAP) > 0 <=> Usable(r)
           /\ FrameRead(r, GCS_STACK_FRAME_CAP) \in 0..GCS_STACK_FRAME_CAP
  <1>1. r.incl \in Nat BY DEF Record
  <1>2. PICK n \in Nat : n = r.incl BY <1>1
  <1>3. /\ FrameRead(r, GCS_STACK_FRAME_CAP) =
              IF n > GCS_PCAP_MAX_FRAME \/ n > GCS_STACK_FRAME_CAP \/ ~r.whole THEN 0 ELSE n
        /\ Usable(r) <=> r.whole /\ n \in 1..GCS_STACK_FRAME_CAP
    BY <1>2, Zenon DEF FrameRead, Usable
  <1>4. GCS_STACK_FRAME_CAP = 1514 /\ GCS_PCAP_MAX_FRAME = 65535
    BY DEF GCS_STACK_FRAME_CAP, GCS_PCAP_MAX_FRAME, GCS_ETH_HDR_LEN
  <1> DEFINE read == FrameRead(r, GCS_STACK_FRAME_CAP)
             usable == Usable(r)
             whole == r.whole
  <1>5. /\ read = IF n > 65535 \/ n > 1514 \/ ~whole THEN 0 ELSE n
        /\ usable <=> whole /\ n \in 1..1514
    BY <1>3, <1>4
  <1> HIDE DEF read, usable, whole
  <1>6. (read > 0 <=> usable) /\ read \in 0..1514 BY <1>5
  <1> QED BY <1>4, <1>6 DEF read, usable

\* The frame in hand is a frame, and not longer than the buffer of the answer.
LEMMA FrameInHand ==
    ASSUME FileInv, pc = "handle"
    PROVE  /\ pos \in 1..Len(file.records)
           /\ frame \in Frame /\ frame.len \in Nat /\ frame.len <= GCS_STACK_FRAME_CAP
           /\ ts_sec \in Stamp /\ ts_usec \in Stamp
  <1> DEFINE r == file.records[pos]
  <1>1. /\ pos \in 1..Len(file.records) /\ frame = r.frame
        /\ ts_sec = r.ts_sec /\ ts_usec = r.ts_usec
    BY FileRecords DEF FileInv
  <1>2. /\ r \in Record /\ Usable(r)
        /\ FrameRead(r, GCS_STACK_FRAME_CAP) \in {0, r.frame.len}
    BY <1>1, FileRecords DEF FileInv
  <1>3. r.frame \in Frame /\ r.ts_sec \in Stamp /\ r.ts_usec \in Stamp BY <1>2 DEF Record
  <1> HIDE DEF r
  <1>4. r.frame.len \in 0..GCS_STACK_FRAME_CAP
    BY <1>2, FrameReadUsable
  <1>5. GCS_STACK_FRAME_CAP \in Nat BY DEF GCS_STACK_FRAME_CAP, GCS_ETH_HDR_LEN
  <1> QED BY <1>1, <1>3, <1>4, <1>5

\* The initial state satisfies both.
LEMMA FileInit == Init => FileInv /\ ExitInv
  <1> SUFFICES ASSUME Init PROVE FileInv /\ ExitInv OBVIOUS
  <1>1. Len(file.records) \in Nat BY ReplayAssumption, LenProperties DEF Init
  <1>2. FileInv
    <2>1. pos = 0 /\ index = 0 /\ pc = "open_read" BY DEF Init
    <2> QED BY <1>1, <2>1 DEF Init, FileInv
  <1>3. ExitInv BY DEF Init, ExitInv
  <1> QED BY <1>2, <1>3

\* Every step preserves both.
LEMMA FileNext ==
    ASSUME FileInv, ExitInv, [Next]_vars
    PROVE  FileInv' /\ ExitInv'
  <1> USE DEF stack_vars, given, files, buffers, counters
  <1>1. CASE OpenRead
    BY <1>1 DEF OpenRead, FileInv, ExitInv
  <1>2. CASE OpenWrite
    BY <1>2 DEF OpenWrite, gcs_pcap_close_read, FileInv, ExitInv
  <1>3. CASE ReadFrame
    <2>1. /\ pos + 1 \in 1..Len(file.records) /\ pos \in Nat
          /\ FrameRead(file.records[pos + 1], GCS_STACK_FRAME_CAP) > 0
      BY <1>3, FileRecords DEF ReadFrame, NextLen, AtEnd, FileInv
    <2>2. Usable(file.records[pos + 1]) BY <2>1, FileRecords, FrameReadUsable
    <2>3. /\ pos' = pos + 1 /\ file' = file /\ disk' = disk /\ index' = index + 1
          /\ pc' = "handle"
          /\ frame' = file.records[pos'].frame
          /\ ts_sec' = file.records[pos'].ts_sec
          /\ ts_usec' = file.records[pos'].ts_usec
      BY <1>3 DEF ReadFrame
    <2>4. \A j \in 1..pos' : j \in 1..pos \/ j = pos + 1 BY <2>1, <2>3
    <2>5. FileInv' BY <2>1, <2>2, <2>3, <2>4 DEF FileInv
    <2> QED BY <1>3, <2>5 DEF ReadFrame, ExitInv
  <1>4. CASE StopReading
    BY <1>4
    DEF StopReading, gcs_pcap_close_read, gcs_pcap_close_write, FileInv, ExitInv,
        NextLen, AtEnd
  <1>5. CASE Handle
    BY <1>5 DEF Handle, FileInv, ExitInv
  <1>6. CASE UNCHANGED vars
    BY <1>6 DEF vars, FileInv, ExitInv, NextLen, AtEnd
  <1> QED BY <1>1, <1>2, <1>3, <1>4, <1>5, <1>6 DEF Next, Terminated

\* Both hold in every reachable state.
LEMMA FileInvariance == Spec => [](FileInv /\ ExitInv)
  BY FileInit, FileNext, PTL DEF Spec

\* main closes what it has opened on each of its ways out.
THEOREM LeavesNothingOpen == Spec => []ExitsClean
  <1>1. ExitInv => ExitsClean BY DEF ExitInv, ExitsClean
  <1> QED BY <1>1, FileInvariance, PTL
-----------------------------------------------------------------------------
(***************************************************************************)
(* The stack inside the program is the stack of GcsStackProofs: the lemmas  *)
(* about one call of it hold for the call of the loop.                     *)
(***************************************************************************)
\* The constants the program gives the stack are what it assumes of them.
LEMMA CoreAssumptions == Core!FramesAssumption /\ Core!StackAssumption
  BY FramesAssumption, ReplayAssumption
  DEF Core!FramesAssumption, Stack!StackAssumption, Core!StackAssumption,
      Stack!SeqNo, Core!SeqNo

\* The frames are the same.
LEMMA CoreFrames == Core!Frame = Frame /\ Core!NoReply = NoReply
  BY DEF
      Frame, Core!Frame, ArpFrame, Core!ArpFrame, IcmpFrame, Core!IcmpFrame,
      TcpFrame, Core!TcpFrame, OtherIpFrame, Core!OtherIpFrame, OtherFrame,
      Core!OtherFrame, ArpPacket, Core!ArpPacket, IpHeader, Core!IpHeader,
      IcmpMessage, Core!IcmpMessage, TcpSegment, Core!TcpSegment, U16, Core!U16,
      SeqNo, Core!SeqNo, HdrLen, Core!HdrLen, Flags, Core!Flags, NoReply,
      Core!NoReply

\* Where the stack starts.
LEMMA CoreInit == Stack!Init => Core!Init
  BY DEF Stack!Init, Core!Init, Stack!NoReply, Core!NoReply

\* What it does with a frame.
LEMMA CoreStep ==
    ASSUME NEW f, NEW cap
    PROVE  Stack!HandleFrame(f, cap) <=> Core!HandleFrame(f, cap)
  BY DEF
      Stack!HandleFrame, Core!HandleFrame, Stack!HandleTcp, Core!HandleTcp,
      Stack!IgnoreSegment, Core!IgnoreSegment, Stack!LastAck, Core!LastAck,
      Stack!ReceiveData, Core!ReceiveData, Stack!ReceiveFin, Core!ReceiveFin,
      Stack!SynReceived, Core!SynReceived, Stack!Listen, Core!Listen, Stack!ForConn,
      Core!ForConn, Stack!ClosedPort, Core!ClosedPort, Stack!EmitTcp, Core!EmitTcp,
      Stack!Segment, Core!Segment, Stack!HandleIcmp, Core!HandleIcmp,
      Stack!EchoReply, Core!EchoReply, Stack!HandleArp, Core!HandleArp,
      Stack!ArpReply, Core!ArpReply, Stack!DropFrame, Core!DropFrame, Stack!NextId,
      Core!NextId, Stack!IpWrite, Core!IpWrite, Stack!Silent, Core!Silent,
      Stack!TcpValid, Core!TcpValid, Stack!IpValid, Core!IpValid, Stack!ForUs,
      Core!ForUs, Stack!GCS_ETH_HDR_LEN, Core!GCS_ETH_HDR_LEN,
      Stack!GCS_ARP_HDR_LEN, Core!GCS_ARP_HDR_LEN, Stack!GCS_IPV4_MIN_HDR_LEN,
      Core!GCS_IPV4_MIN_HDR_LEN, Stack!GCS_ICMP_HDR_LEN, Core!GCS_ICMP_HDR_LEN,
      Stack!GCS_TCP_MIN_HDR_LEN, Core!GCS_TCP_MIN_HDR_LEN, Stack!ToU16, Core!ToU16,
      Stack!ToSeq, Core!ToSeq, Stack!NoReply, Core!NoReply, Stack!EthParse,
      Core!EthParse, Stack!EthPayloadLen, Core!EthPayloadLen, Stack!ArpParse,
      Core!ArpParse, Stack!IpParse, Core!IpParse, Stack!IpPayloadLen,
      Core!IpPayloadLen, Stack!IcmpParse, Core!IcmpParse, Stack!IcmpPayloadLen,
      Core!IcmpPayloadLen, Stack!TcpParse, Core!TcpParse, Stack!TcpPayloadLen,
      Core!TcpPayloadLen

\* What an answer is.
LEMMA CoreAnswer ==
    ASSUME NEW f, NEW r
    PROVE  /\ Stack!AnswerTo(f, r) <=> Core!AnswerTo(f, r)
           /\ Answered(r) <=> Core!Answered(r)
  BY DEF Stack!AnswerTo, Core!AnswerTo, Answered, Core!Answered

\* What the connection says, and how much of the sequence space it takes.
LEMMA CoreSays ==
    ASSUME NEW r
    PROVE  /\ Stack!FromConn(r) <=> Core!FromConn(r)
           /\ Stack!SegLen(r) = Core!SegLen(r)
           /\ ToSeq(r.tcp.seq + Stack!SegLen(r)) = Core!ToSeq(r.tcp.seq + Core!SegLen(r))
  BY DEF Stack!FromConn, Core!FromConn, Stack!Answered, Core!Answered, Stack!SegLen,
         Core!SegLen, Stack!TcpPayloadLen, Core!TcpPayloadLen, Stack!IpPayloadLen,
         Core!IpPayloadLen, ToSeq, Core!ToSeq
-----------------------------------------------------------------------------
(***************************************************************************)
(* What one turn of the loop does to the output: nothing, no room for one  *)
(* more answer, or one more record, of which the disk takes all or a part. *)
(***************************************************************************)
Unanswered == ~Answered(tx') /\ UNCHANGED <<replies, out>>

Refused ==
    /\ Answered(tx') /\ replies' = replies + 1
    /\ out' = out /\ (have_writer => Len(out) >= disk)

Appended(r) ==
    /\ Answered(tx') /\ replies' = replies + 1
    /\ have_writer /\ Len(out) <= disk
    /\ r.frame = tx' /\ (r.whole <=> Len(out) < disk)
    /\ r.ts_sec = ts_sec /\ r.ts_usec = (ts_usec + 1) % StampMod
    /\ out' = Append(out, r)

OutInv ==
    /\ Core!IInv
    /\ out \in Seq(Record) /\ replies \in Nat
    /\ \A k \in 1..Len(out) : out[k].whole <=> k <= disk
    /\ IF have_writer
       THEN IF replies <= disk THEN Len(out) = replies ELSE Len(out) \in {disk, disk + 1}
       ELSE out = <<>>
    /\ pc \in {"open_read", "open_write"} => out = <<>> /\ replies = 0

\* The call of gcs_stack_handle_frame, as its own proofs know it.
LEMMA StackCall ==
    ASSUME FileInv, Core!IInv, Handle
    PROVE  /\ frame \in Frame /\ frame.len <= GCS_STACK_FRAME_CAP
           /\ Core!HandleFrame(frame, GCS_STACK_FRAME_CAP)
           /\ Core!IInv'
           /\ tx' \in Frame \cup {NoReply}
           /\ Answered(tx') => tx' \in Frame /\ tx'.len \in Nat
           /\ Answered(tx') => Stack!AnswerTo(frame, tx')
           /\ \/ UNCHANGED ip_id /\ (~Answered(tx') \/ tx'.ethertype = "ARP")
              \/ /\ Answered(tx') /\ tx'.ethertype = "IPv4"
                 /\ tx'.ip.id = ip_id /\ ip_id' = (ip_id + 1) % IdMod
  <1>1. frame \in Frame /\ frame.len <= GCS_STACK_FRAME_CAP
    BY FrameInHand DEF Handle
  <1>2. Core!HandleFrame(frame, GCS_STACK_FRAME_CAP) BY CoreStep DEF Handle
  <1>3. Core!IInv' BY <1>1, <1>2, CoreAssumptions, CoreFrames, Core!HandleStep
  <1>4. tx' \in Frame \cup {NoReply}
    BY <1>3, CoreFrames DEF Core!IInv, Core!AnswerOK
  <1>5. Answered(tx') => tx' \in Frame BY <1>4 DEF Answered, NoReply
  <1>6. tx' \in Frame => tx'.len \in Nat
    BY DEF Frame, ArpFrame, IcmpFrame, TcpFrame, OtherIpFrame, OtherFrame
  <1>7. \/ tx' = NoReply /\ UNCHANGED ip_id
        \/ /\ Answered(tx') /\ Stack!AnswerTo(frame, tx')
           /\ \/ tx'.ethertype = "ARP" /\ UNCHANGED ip_id
              \/ /\ tx'.ethertype = "IPv4" /\ tx'.ip.id = ip_id
                 /\ ip_id' = (ip_id + 1) % IdMod
    BY <1>1, <1>2, CoreAssumptions, CoreFrames, CoreAnswer, Core!AnswersTheFrame
    DEF Core!NextId
  <1>8. ~Answered(NoReply) BY DEF Answered, NoReply
  <1> QED BY <1>1, <1>2, <1>3, <1>4, <1>5, <1>6, <1>7, <1>8

\* The three ways a turn of the loop can go.
LEMMA HandleCases ==
    ASSUME FileInv, OutInv, Handle
    PROVE  Unanswered \/ Refused \/ \E r \in Record : Appended(r)
  <1>1. Answered(tx') => tx' \in Frame /\ tx'.len \in Nat BY StackCall DEF OutInv
  <1>2. ts_sec \in Stamp /\ (ts_usec + 1) % StampMod \in Stamp
    <2>1. ts_sec \in Stamp /\ ts_usec \in Stamp BY FrameInHand DEF Handle
    <2>2. ts_usec \in Nat /\ StampMod \in Nat /\ StampMod > 0
      BY <2>1, ReplayAssumption DEF Stamp
    <2> QED BY <2>1, <2>2 DEF Stamp
  <1>3. Len(out) \in Nat /\ disk \in Nat
    BY LenProperties, ReplayAssumption DEF OutInv, FileInv
  <1>4. CASE ~Answered(tx') BY <1>4 DEF Handle, Unanswered
  <1>5. CASE Answered(tx') /\ out' = out
    <2>1. have_writer => Len(out) >= disk
      <3>1. \A r : Append(out, r) # out
        <4> SUFFICES ASSUME NEW r PROVE Append(out, r) # out OBVIOUS
        <4>1. out \in Seq(Record \cup {r}) BY DEF OutInv
        <4>2. Len(Append(out, r)) = Len(out) + 1 BY <4>1, AppendProperties
        <4> QED BY <1>3, <4>2
      <3> QED BY <1>3, <1>5, <3>1 DEF Handle, WriteFrame
    <2> QED BY <1>5, <2>1 DEF Handle, Refused
  <1>6. CASE Answered(tx') /\ out' # out
    <2> DEFINE r(whole) == [incl |-> tx'.len, whole |-> whole, frame |-> tx',
                            ts_sec |-> ReplyStamp.sec, ts_usec |-> ReplyStamp.usec]
    <2>1. /\ have_writer /\ replies' = replies + 1
          /\ \/ Len(out) < disk /\ out' = Append(out, r(TRUE))
             \/ Len(out) = disk /\ out' = Append(out, r(FALSE))
      BY <1>6 DEF Handle, WriteFrame
    <2>2. \A whole \in BOOLEAN :
            /\ r(whole) \in Record /\ r(whole).frame = tx' /\ (r(whole).whole <=> whole)
            /\ r(whole).ts_sec = ts_sec /\ r(whole).ts_usec = (ts_usec + 1) % StampMod
      BY <1>1, <1>2, <1>6 DEF Record, ReplyStamp
    <2> HIDE DEF r
    <2>3. /\ r(TRUE) \in Record /\ r(TRUE).whole
          /\ r(FALSE) \in Record /\ ~r(FALSE).whole
      BY <2>2
    <2>4. ASSUME Len(out) < disk, out' = Append(out, r(TRUE)) PROVE Appended(r(TRUE))
      <3>1. Len(out) <= disk BY <1>3, <2>4
      <3>2. /\ r(TRUE).frame = tx'
            /\ r(TRUE).ts_sec = ts_sec /\ r(TRUE).ts_usec = (ts_usec + 1) % StampMod
        BY <2>2
      <3> QED BY <1>6, <2>1, <2>3, <2>4, <3>1, <3>2, Zenon DEF Appended
    <2>5. ASSUME Len(out) = disk, out' = Append(out, r(FALSE)) PROVE Appended(r(FALSE))
      <3>1. Len(out) <= disk /\ ~(Len(out) < disk) BY <1>3, <2>5
      <3>2. /\ r(FALSE).frame = tx'
            /\ r(FALSE).ts_sec = ts_sec /\ r(FALSE).ts_usec = (ts_usec + 1) % StampMod
        BY <2>2
      <3> QED BY <1>6, <2>1, <2>3, <2>5, <3>1, <3>2, Zenon DEF Appended
    <2> QED BY <2>1, <2>3, <2>4, <2>5
  <1> QED BY <1>4, <1>5, <1>6

\* Handling a frame moves neither the capture nor the files.
LEMMA HandleAside ==
    Handle => UNCHANGED <<file, disk, have_writer, pos, index, ts_sec, ts_usec>>
              /\ pc = "handle" /\ pc' = "read"
  BY DEF Handle, given, files, buffers

\* All else leaves the stack and the output alone, and opens the output only when it
\* is empty.
LEMMA OthersAside ==
    ASSUME ExitInv, [Next]_vars, ~Handle
    PROVE  /\ UNCHANGED <<stack_vars, out, replies, file, disk>>
           /\ UNCHANGED have_writer \/ pc = "open_write"
           /\ have_writer' \in BOOLEAN
           /\ pc' \in {"open_read", "open_write"} => pc \in {"open_read", "open_write"}
           /\ pc' = "handle" <=> ReadFrame \/ (UNCHANGED vars /\ pc = "handle")
  <1> USE DEF given, files, buffers, counters
  <1>1. CASE OpenRead BY <1>1 DEF OpenRead, ReadFrame, vars, ExitInv
  <1>2. CASE OpenWrite BY <1>2 DEF OpenWrite, ReadFrame, vars, ExitInv
  <1>3. CASE ReadFrame BY <1>3 DEF ReadFrame, ExitInv
  <1>4. CASE StopReading BY <1>4 DEF StopReading, ReadFrame, vars, ExitInv
  <1>5. CASE UNCHANGED vars BY <1>5 DEF vars, ReadFrame, ExitInv
  <1> QED BY <1>1, <1>2, <1>3, <1>4, <1>5 DEF Next, Terminated

\* What an appended record does to the sequence of records.
LEMMA AppendedOut ==
    ASSUME OutInv, NEW r \in Record, Appended(r)
    PROVE  /\ out' \in Seq(Record) /\ Len(out) \in Nat /\ Len(out') = Len(out) + 1
           /\ \A k \in 1..Len(out) : out'[k] = out[k]
           /\ out'[Len(out) + 1] = r /\ out' # <<>>
           /\ \A k \in 1..Len(out') : k \in 1..Len(out) \/ k = Len(out) + 1
  <1>1. out \in Seq(Record) /\ Len(out) \in Nat BY LenProperties DEF OutInv
  <1>2. /\ out' \in Seq(Record) /\ Len(out') = Len(out) + 1
        /\ \A k \in 1..Len(out) : out'[k] = out[k]
        /\ out'[Len(out) + 1] = r /\ out' # <<>>
    BY <1>1, AppendProperties DEF Appended
  <1>3. \A k \in 1..Len(out') : k \in 1..Len(out) \/ k = Len(out) + 1
    BY <1>1, <1>2
  <1> QED BY <1>1, <1>2, <1>3

\* The output is empty to begin with.
LEMMA OutInit == Init => OutInv
  <1> SUFFICES ASSUME Init PROVE OutInv OBVIOUS
  <1>1. Core!IInv BY CoreAssumptions, CoreInit, Core!IInvInit DEF Init
  <1>2. out = <<>> /\ replies = 0 /\ have_writer = FALSE BY DEF Init
  <1>3. out \in Seq(Record) /\ Len(out) = 0 BY <1>2, EmptySeq
  <1> QED BY <1>1, <1>2, <1>3 DEF OutInv

\* Every step keeps the count of answers and that of records together.
LEMMA OutNext ==
    ASSUME FileInv, ExitInv, OutInv, [Next]_vars
    PROVE  OutInv'
  <1>1. CASE Handle
    <2>1. Core!IInv' BY <1>1, StackCall DEF OutInv
    <2>2. UNCHANGED <<have_writer, disk>> /\ pc' = "read" BY <1>1, HandleAside
    <2>3. disk \in Nat /\ Len(out) \in Nat /\ replies \in Nat
      BY ReplayAssumption, LenProperties DEF FileInv, OutInv
    <2>4. CASE Unanswered
      BY <2>1, <2>2, <2>4 DEF OutInv, Unanswered
    <2>5. CASE Refused
      <3>1. /\ out' = out /\ replies' = replies + 1
            /\ have_writer => Len(out) >= disk
        BY <2>5 DEF Refused
      <3>2. have_writer => replies' > disk /\ Len(out) \in {disk, disk + 1}
        BY <2>3, <3>1 DEF OutInv
      <3> QED BY <2>1, <2>2, <2>3, <3>1, <3>2 DEF OutInv
    <2>6. ASSUME NEW r \in Record, Appended(r) PROVE OutInv'
      <3>1. /\ out' \in Seq(Record) /\ Len(out') = Len(out) + 1
            /\ \A k \in 1..Len(out) : out'[k] = out[k]
            /\ out'[Len(out) + 1] = r
            /\ \A k \in 1..Len(out') : k \in 1..Len(out) \/ k = Len(out) + 1
        BY <2>6, AppendedOut
      <3>2. /\ have_writer /\ replies' = replies + 1 /\ Len(out) <= disk
            /\ r.whole <=> Len(out) + 1 <= disk
        BY <2>3, <2>6 DEF Appended
      <3>3. \A k \in 1..Len(out') : out'[k].whole <=> k <= disk
        BY <3>1, <3>2 DEF OutInv
      <3>4. IF replies' <= disk THEN Len(out') = replies' ELSE Len(out') \in {disk, disk + 1}
        BY <2>3, <3>1, <3>2 DEF OutInv
      <3>5. replies' \in Nat BY <2>3, <3>2
      <3> QED BY <2>1, <2>2, <3>1, <3>2, <3>3, <3>4, <3>5 DEF OutInv
    <2> QED BY <1>1, <2>4, <2>5, <2>6, HandleCases
  <1>2. CASE ~Handle
    <2>1. UNCHANGED <<stack_vars, out, replies, disk>> BY <1>2, OthersAside
    <2>2. UNCHANGED Core!vars BY <2>1 DEF stack_vars, Core!vars
    <2>3. Core!IInv' BY <2>2, CoreAssumptions, Core!IInvNext DEF OutInv
    <2>4. CASE UNCHANGED have_writer
      <3>1. pc' \in {"open_read", "open_write"} => pc \in {"open_read", "open_write"}
        BY <1>2, OthersAside
      <3> QED BY <2>1, <2>3, <2>4, <3>1 DEF OutInv
    <2>5. CASE pc = "open_write"
      <3>1. out = <<>> /\ replies = 0 /\ Len(out) = 0 /\ disk \in Nat
        BY <2>5, EmptySeq, ReplayAssumption DEF OutInv, FileInv
      <3> QED BY <2>1, <2>3, <3>1 DEF OutInv
    <2> QED BY <1>2, <2>4, <2>5, OthersAside
  <1> QED BY <1>1, <1>2

\* It holds in every reachable state, with the two of the capture.
LEMMA OutInvariance == Spec => [](FileInv /\ ExitInv /\ OutInv)
  <1>1. Init => FileInv /\ ExitInv /\ OutInv BY FileInit, OutInit
  <1>2. FileInv /\ ExitInv /\ OutInv /\ [Next]_vars => (FileInv /\ ExitInv /\ OutInv)'
    BY FileNext, OutNext
  <1> QED BY <1>1, <1>2, PTL DEF Spec

\* What a reader finds in a file.
WholeOf(records) ==
    SubSeq(records, 1,
           Cardinality({i \in 1..Len(records) : \A j \in 1..i : records[j].whole}))

\* It is those records of which the file has all, when they come first.
LEMMA WholeOfPrefix ==
    ASSUME NEW records \in Seq(Record), NEW d \in Nat,
           \A k \in 1..Len(records) : records[k].whole <=> k <= d,
           NEW n, n = IF Len(records) <= d THEN Len(records) ELSE d
    PROVE  /\ n \in Nat /\ n <= Len(records) /\ WholeOf(records) = SubSeq(records, 1, n)
           /\ WholeOf(records) \in Seq(Record) /\ Len(WholeOf(records)) = n
           /\ \A k \in 1..n : WholeOf(records)[k] = records[k]
  <1>1. Len(records) \in Nat BY LenProperties
  <1>2. n \in Nat /\ n <= Len(records) BY <1>1
  <1>3. {i \in 1..Len(records) : \A j \in 1..i : records[j].whole} = 1..n
    <2>1. \A i \in 1..Len(records) : (\A j \in 1..i : records[j].whole) <=> i <= d
      <3> SUFFICES ASSUME NEW i \in 1..Len(records)
                   PROVE  (\A j \in 1..i : records[j].whole) <=> i <= d
        OBVIOUS
      <3>1. i \in 1..i /\ \A j \in 1..i : j \in 1..Len(records) /\ j <= i BY <1>1
      <3>2. \A j \in 1..i : records[j].whole <=> j <= d BY <3>1
      <3>3. i <= d => \A j \in 1..i : j <= d BY <1>1
      <3> QED BY <3>1, <3>2, <3>3
    <2> QED BY <1>1, <2>1
  <1>4. Cardinality(1..n) = n BY <1>2, FS_Interval
  <1>5. WholeOf(records) = SubSeq(records, 1, n) BY <1>3, <1>4 DEF WholeOf
  <1>6. \A k \in 1..n : records[k] \in Record BY <1>1, <1>2, ElementOfSeq
  <1>7. /\ SubSeq(records, 1, n) \in Seq(Record) /\ Len(SubSeq(records, 1, n)) = n
        /\ \A k \in 1..n : SubSeq(records, 1, n)[k] = records[k]
    BY <1>2, <1>6, SubSeqProperties
  <1> QED BY <1>2, <1>5, <1>7

\* What a reader finds in the output is what the disk had room for.
LEMMA WholeIsPrefix ==
    ASSUME FileInv, OutInv, NEW n, n = IF Len(out) <= disk THEN Len(out) ELSE disk
    PROVE  /\ n \in Nat /\ n <= Len(out) /\ Whole = SubSeq(out, 1, n)
           /\ Whole \in Seq(Record) /\ Len(Whole) = n
           /\ \A k \in 1..n : Whole[k] = out[k]
  <1>1. disk \in Nat BY ReplayAssumption DEF FileInv
  <1>2. Whole = WholeOf(out) BY DEF Whole, WholeOf
  <1>3. out \in Seq(Record) /\ \A k \in 1..Len(out) : out[k].whole <=> k <= disk
    BY DEF OutInv
  <1> QED BY <1>1, <1>2, <1>3, WholeOfPrefix

\* What main reports at the end is true: it has seen the frames up to the first record
\* it cannot use, and counts no answer that the file lacks for another reason than a
\* full disk.
THEOREM ReportIsTrue == Spec => []ReportTrue
  <1>1. ASSUME FileInv, OutInv PROVE ReportTrue
    <2> SUFFICES ASSUME pc = "done" PROVE ReportTrue BY DEF ReportTrue
    <2>1. index = Cardinality(Prefix)
      <3>1. pos \in Nat /\ pos <= Len(file.records) /\ Len(file.records) \in Nat
        BY <1>1, FileRecords DEF FileInv
      <3>2. pos < Len(file.records) => ~Usable(file.records[pos + 1])
        <4> SUFFICES ASSUME pos < Len(file.records)
                     PROVE  ~Usable(file.records[pos + 1])
          OBVIOUS
        <4>1. pos + 1 \in 1..Len(file.records) /\ pos # Len(file.records) BY <3>1
        <4>2. FrameRead(file.records[pos + 1], GCS_STACK_FRAME_CAP) = 0
          BY <1>1, <4>1 DEF FileInv, NextLen, AtEnd
        <4> QED BY <1>1, <4>1, <4>2, FileRecords, FrameReadUsable
      <3>3. Prefix = 1..pos
        <4>1. ASSUME NEW i \in 1..Len(file.records)
              PROVE  (\A j \in 1..i : Usable(file.records[j])) <=> i <= pos
          <5>1. i <= pos => \A j \in 1..i : j \in 1..pos BY <3>1
          <5>2. i > pos => pos + 1 \in 1..i /\ pos < Len(file.records) BY <3>1
          <5>3. i <= pos \/ i > pos BY <3>1
          <5> QED BY <1>1, <3>1, <3>2, <5>1, <5>2, <5>3 DEF FileInv
        <4> QED BY <3>1, <4>1 DEF Prefix
      <3>4. Cardinality(1..pos) = pos BY <3>1, FS_Interval
      <3> QED BY <1>1, <3>3, <3>4 DEF FileInv
    <2>2. replies = Len(Whole) \/ ~have_writer \/ (Len(Whole) = disk /\ replies > disk)
      <3>1. Len(Whole) = IF Len(out) <= disk THEN Len(out) ELSE disk
        BY <1>1, WholeIsPrefix
      <3>2. disk \in Nat /\ replies \in Nat
        BY <1>1, ReplayAssumption DEF FileInv, OutInv
      <3> QED BY <1>1, <3>1, <3>2 DEF OutInv
    <2> QED BY <2>1, <2>2 DEF ReportTrue
  <1> QED BY <1>1, OutInvariance, PTL
-----------------------------------------------------------------------------
(***************************************************************************)
(* The stamps.  The last record written is at most a microsecond later     *)
(* than the last frame dealt with, and two frames in order are in order    *)
(* with that microsecond as well: a stamp that is due is never early.      *)
(***************************************************************************)
DealtWith == IF pc = "handle" THEN pos - 1 ELSE pos

StampInv ==
    Ordered(file.records) /\ Room(file.records) =>
      /\ Ordered(out)
      /\ out # <<>> => /\ DealtWith > 0
                       /\ Time(out[Len(out)]) <= Time(file.records[DealtWith]) + 1

\* A point in time is a number.
LEMMA TimeType == ASSUME NEW r \in Record PROVE Time(r) \in Nat
  <1>1. r.ts_sec \in Nat /\ r.ts_usec \in Nat /\ UsecPerSec \in Nat
    <2>1. r.ts_sec \in Stamp /\ r.ts_usec \in Stamp BY DEF Record
    <2> QED BY <2>1, ReplayAssumption DEF Stamp
  <1>2. r.ts_sec * UsecPerSec \in Nat BY <1>1
  <1> QED BY <1>1, <1>2 DEF Time

\* The stamp of an answer is a microsecond after that of its frame, carry or not, where
\* there is room for it.
LEMMA ReplyTime ==
    ASSUME FileInv, pc = "handle", NEW r \in Record, Appended(r), Room(file.records)
    PROVE  Time(r) = Time(file.records[pos]) + 1
  <1>1. /\ ts_sec \in Nat /\ ts_usec \in Nat /\ StampMod \in Nat /\ UsecPerSec \in Nat
        /\ pos \in 1..Len(file.records)
    BY FrameInHand, ReplayAssumption DEF Stamp
  <1>2. /\ ts_sec = file.records[pos].ts_sec /\ ts_usec = file.records[pos].ts_usec
        /\ r.ts_sec = ts_sec /\ r.ts_usec = ts_usec + 1
    <2>1. /\ ts_sec = file.records[pos].ts_sec /\ ts_usec = file.records[pos].ts_usec
          /\ r.ts_sec = ts_sec /\ r.ts_usec = (ts_usec + 1) % StampMod
      BY DEF FileInv, Appended
    <2>2. ts_usec < StampMod - 1 BY <1>1, <2>1 DEF Room
    <2>4. ts_usec + 1 \in Nat /\ ts_usec + 1 < StampMod BY <1>1, <2>2
    <2>3. (ts_usec + 1) % StampMod = ts_usec + 1 BY <1>1, <2>4, ModSmall
    <2> QED BY <2>1, <2>3
  <1>3. ts_sec * UsecPerSec \in Nat BY <1>1
  <1> QED BY <1>1, <1>2, <1>3 DEF Time

\* Handling the frame in hand keeps the stamps in order.
LEMMA StampHandle ==
    ASSUME FileInv, OutInv, StampInv, Handle, Ordered(file.records), Room(file.records)
    PROVE  StampInv'
  <1>1. /\ UNCHANGED <<file, disk, pos>> /\ pc = "handle" /\ pc' = "read"
        /\ pos \in 1..Len(file.records) /\ Len(file.records) \in Nat
    BY HandleAside, FrameInHand, FileRecords
  <1>2. DealtWith = pos - 1 /\ DealtWith' = pos /\ pos \in Nat BY <1>1 DEF DealtWith
  <1>3. out # <<>> =>
          /\ Time(out[Len(out)]) \in Nat
          /\ Time(out[Len(out)]) <= Time(file.records[pos]) + 1
    <2> SUFFICES ASSUME out # <<>>
                 PROVE  /\ Time(out[Len(out)]) \in Nat
                        /\ Time(out[Len(out)]) <= Time(file.records[pos]) + 1
      OBVIOUS
    <2> DEFINE a == Time(out[Len(out)])
               b == Time(file.records[pos - 1])
               c == Time(file.records[pos])
    <2>1. out[Len(out)] \in Record /\ Len(out) \in Nat
      BY EmptySeq, LenProperties, ElementOfSeq DEF OutInv
    <2>2. pos - 1 > 0 /\ a <= b + 1 BY <1>1, <1>2 DEF StampInv
    <2>3. pos - 1 \in 1..(Len(file.records) - 1) /\ (pos - 1) + 1 = pos BY <1>1, <2>2
    <2>4. file.records[pos - 1] \in Record /\ file.records[pos] \in Record
      BY <1>1, <2>3, FileRecords
    <2>5. a \in Nat /\ b \in Nat /\ c \in Nat BY <2>1, <2>4, TimeType
    <2>6. b <= c BY <2>3 DEF Ordered
    <2> HIDE DEF a, b, c
    <2>7. a <= c + 1 BY <2>2, <2>5, <2>6
    <2> QED BY <2>5, <2>7 DEF a, c
  <1>4. CASE out' = out BY <1>1, <1>2, <1>3, <1>4 DEF StampInv, Ordered, Room, Time
  <1>5. ASSUME NEW r \in Record, Appended(r) PROVE StampInv'
    <2>1. /\ Len(out) \in Nat /\ Len(out') = Len(out) + 1
          /\ \A k \in 1..Len(out) : out'[k] = out[k]
          /\ out'[Len(out) + 1] = r
      BY <1>5, AppendedOut
    <2>2. Time(r) = Time(file.records[pos]) + 1 BY <1>1, <1>5, ReplyTime
    <2>3. Len(out) > 0 => Time(out[Len(out)]) <= Time(r)
      BY <1>3, <2>2, EmptySeq DEF OutInv
    <2>4. Ordered(out')
      <3> SUFFICES ASSUME NEW k \in 1..(Len(out') - 1)
                   PROVE  Time(out'[k]) <= Time(out'[k + 1])
        BY DEF Ordered
      <3>1. CASE k = Len(out) BY <2>1, <2>3, <3>1
      <3>2. CASE k # Len(out)
        <4>1. k \in 1..(Len(out) - 1) /\ k \in 1..Len(out) /\ k + 1 \in 1..Len(out)
          BY <2>1, <3>2
        <4>2. Time(out[k]) <= Time(out[k + 1]) BY <4>1 DEF StampInv, Ordered
        <4> QED BY <2>1, <4>1, <4>2
      <3> QED BY <3>1, <3>2
    <2>5. DealtWith' > 0 /\ Time(out'[Len(out')]) <= Time(file.records[DealtWith']) + 1
      <3>1. Time(r) \in Nat BY TimeType
      <3> QED BY <1>1, <1>2, <2>1, <2>2, <3>1
    <2> QED BY <1>1, <2>4, <2>5 DEF StampInv, Ordered, Room, Time
  <1> QED BY <1>4, <1>5, HandleCases DEF Unanswered, Refused

\* Every step keeps them so.
LEMMA StampNext ==
    ASSUME FileInv, FileInv', ExitInv, OutInv, StampInv, [Next]_vars
    PROVE  StampInv'
  <1>1. CASE Handle
    <2>1. file' = file BY <1>1, HandleAside
    <2>2. CASE Ordered(file.records) /\ Room(file.records) BY <1>1, <2>2, StampHandle
    <2>3. CASE ~(Ordered(file.records) /\ Room(file.records))
      BY <2>1, <2>3 DEF StampInv, Ordered, Room, Time
    <2> QED BY <2>2, <2>3
  <1>2. CASE ~Handle
    <2>1. UNCHANGED <<out, file>> BY <1>2, OthersAside
    <2>2. DealtWith' = DealtWith
      <3>1. CASE ReadFrame
        BY <3>1 DEF ReadFrame, DealtWith, FileInv
      <3>2. CASE UNCHANGED vars
        BY <3>2 DEF vars, buffers, DealtWith
      <3>3. CASE OpenRead \/ OpenWrite \/ StopReading
        BY <1>2, <3>3 DEF OpenRead, OpenWrite, StopReading, buffers, DealtWith
      <3> QED BY <1>2, <3>1, <3>2, <3>3 DEF Next, Terminated
    <2> QED BY <2>1, <2>2 DEF StampInv, Ordered, Room, Time
  <1> QED BY <1>1, <1>2

\* From a capture in which time does not run backwards, and no stamp is the last that a
\* 32-bit field holds, comes an output in which it does not, though no microsecond is
\* carried into its second.
THEOREM StampsStayOrdered == Spec => []StampsOrdered
  <1>1. Init => StampInv
    <2> SUFFICES ASSUME Init PROVE StampInv OBVIOUS
    <2>1. out = <<>> /\ Len(out) = 0 BY EmptySeq DEF Init
    <2> QED BY <2>1 DEF StampInv, Ordered
  <1>2. StampInv => StampsOrdered BY DEF StampInv, StampsOrdered
  <1> QED BY <1>1, <1>2, StampNext, OutInvariance, PTL DEF Spec
-----------------------------------------------------------------------------
(***************************************************************************)
(* The identifications.  As long as the disk has had room, the stack's     *)
(* counter is one ahead of the IPv4 answers in the file.                   *)
(***************************************************************************)
IpFrames(s, k) == {j \in 1..k : s[j].frame.ethertype = "IPv4"}

Opening == pc \in {"open_read", "open_write"}

NumberInv ==
    /\ Opening => ip_id = 1
    /\ \A k \in IpFrames(out, Len(out)) : k <= disk =>
         out[k].frame.ip.id = Cardinality(IpFrames(out, k)) % IdMod
    /\ have_writer /\ replies <= disk =>
         ip_id = (1 + Cardinality(IpFrames(out, Len(out)))) % IdMod

\* The IPv4 answers among the first k records can be counted.
LEMMA IpCount ==
    ASSUME NEW s, NEW k \in Nat
    PROVE  IsFiniteSet(IpFrames(s, k)) /\ Cardinality(IpFrames(s, k)) \in Nat
  <1>1. IsFiniteSet(1..k) BY FS_Interval
  <1>2. IpFrames(s, k) \in SUBSET (1..k) BY DEF IpFrames
  <1>3. IsFiniteSet(IpFrames(s, k)) BY <1>1, <1>2, FS_Subset
  <1> QED BY <1>3, FS_CardinalityType

\* The counts of the records that are there do not change when one is added.
LEMMA IpCountKept ==
    ASSUME NEW s, NEW t, NEW n \in Nat, \A j \in 1..n : s[j] = t[j]
    PROVE  \A k \in 0..n : IpFrames(s, k) = IpFrames(t, k)
  <1>1. \A k \in 0..n : \A j \in 1..k : j \in 1..n OBVIOUS
  <1> QED BY <1>1 DEF IpFrames

\* The record added counts if it is an IPv4 answer.
LEMMA IpCountNext ==
    ASSUME NEW s, NEW n \in Nat
    PROVE  Cardinality(IpFrames(s, n + 1)) =
             IF s[n + 1].frame.ethertype = "IPv4" THEN Cardinality(IpFrames(s, n)) + 1
             ELSE Cardinality(IpFrames(s, n))
  <1>1. 1..(n + 1) = 1..n \cup {n + 1} /\ n + 1 \notin 1..n OBVIOUS
  <1>2. CASE s[n + 1].frame.ethertype = "IPv4"
    <2>1. IpFrames(s, n + 1) = IpFrames(s, n) \cup {n + 1}
      BY <1>1, <1>2 DEF IpFrames
    <2>2. n + 1 \notin IpFrames(s, n) BY <1>1 DEF IpFrames
    <2> QED BY <1>2, <2>1, <2>2, IpCount, FS_AddElement
  <1>3. CASE s[n + 1].frame.ethertype # "IPv4"
    <2>1. IpFrames(s, n + 1) = IpFrames(s, n) BY <1>1, <1>3 DEF IpFrames
    <2> QED BY <1>3, <2>1
  <1> QED BY <1>2, <1>3

\* A record added to the output bears the number the counter had.
LEMMA NumberAppended ==
    ASSUME FileInv, OutInv, NumberInv, Handle, NEW r \in Record, Appended(r)
    PROVE  NumberInv'
  <1> DEFINE n == Len(out)
             c == Cardinality(IpFrames(out, n))
  <1>1. /\ n \in Nat /\ Len(out') = n + 1 /\ out'[n + 1] = r
        /\ \A k \in 1..n : out'[k] = out[k]
        /\ \A k \in 1..Len(out') : k \in 1..n \/ k = n + 1
    BY AppendedOut
  <1>2. /\ have_writer /\ have_writer' = have_writer /\ disk' = disk /\ disk \in Nat
        /\ replies' = replies + 1 /\ replies \in Nat /\ ~Opening'
        /\ r.frame = tx' /\ Answered(tx')
    BY HandleAside, ReplayAssumption DEF Appended, FileInv, OutInv, Opening
  <1>3. \A k \in 0..n : IpFrames(out', k) = IpFrames(out, k) BY <1>1, IpCountKept
  <1>4. Cardinality(IpFrames(out', n + 1)) =
          IF tx'.ethertype = "IPv4" THEN c + 1 ELSE c
    <2> DEFINE t == out'
    <2>1. Cardinality(IpFrames(t, n + 1)) =
            IF t[n + 1].frame.ethertype = "IPv4" THEN Cardinality(IpFrames(t, n)) + 1
            ELSE Cardinality(IpFrames(t, n))
      <3>1. n \in Nat BY <1>1
      <3> HIDE DEF t, n
      <3> QED BY <3>1, IpCountNext
    <2>2. t[n + 1].frame = tx' BY <1>1, <1>2
    <2>3. Cardinality(IpFrames(t, n)) = c
      <3>1. n \in 0..n BY <1>1
      <3> QED BY <1>3, <3>1
    <2> HIDE DEF c
    <2> QED BY <2>1, <2>2, <2>3
  <1>5. n < disk => replies <= disk BY <1>1, <1>2 DEF OutInv
  <1>6. replies <= disk => ip_id = (1 + c) % IdMod BY <1>2 DEF NumberInv
  <1>7. \/ ip_id' = ip_id /\ tx'.ethertype # "IPv4"
        \/ tx'.ethertype = "IPv4" /\ tx'.ip.id = ip_id /\ ip_id' = (ip_id + 1) % IdMod
    BY <1>2, StackCall DEF OutInv
  <1>8. c \in Nat BY <1>1, IpCount
  <1> HIDE DEF n, c
  <1>9. replies' <= disk =>
          ip_id' = (1 + Cardinality(IpFrames(out', n + 1))) % IdMod
    <2> SUFFICES ASSUME replies' <= disk
                 PROVE  ip_id' = (1 + Cardinality(IpFrames(out', n + 1))) % IdMod
      OBVIOUS
    <2>1. ip_id = (1 + c) % IdMod BY <1>2, <1>6
    <2>2. (((1 + c) % IdMod) + 1) % IdMod = (1 + c + 1) % IdMod
      <3> DEFINE a == 1 + c
      <3>1. a \in Int /\ 1 \in Int /\ IdMod \in Nat /\ IdMod > 0
        BY <1>8, FramesAssumption
      <3> HIDE DEF a
      <3>2. ((a % IdMod) + 1) % IdMod = (a + 1) % IdMod BY <3>1, ModAdd, Zenon
      <3> QED BY <3>2 DEF a
    <2>3. 1 + (c + 1) = 1 + c + 1 BY <1>8
    <2> QED BY <1>4, <1>7, <2>1, <2>2, <2>3
  <1>10. ASSUME NEW k \in IpFrames(out', n + 1), k <= disk
         PROVE  out'[k].frame.ip.id = Cardinality(IpFrames(out', k)) % IdMod
    <2>1. k \in 1..(n + 1) /\ out'[k].frame.ethertype = "IPv4"
      BY <1>10 DEF IpFrames
    <2>2. CASE k \in 1..n
      <3>1. k \in IpFrames(out, n) /\ k \in 0..n
        BY <1>1, <2>1, <2>2 DEF IpFrames
      <3> QED BY <1>1, <1>3, <1>10, <2>2, <3>1 DEF NumberInv, n
    <2>3. CASE k = n + 1
      <3>1. n < disk BY <1>1, <1>2, <1>10, <2>3
      <3>2. tx'.ip.id = (1 + c) % IdMod BY <1>1, <1>2, <1>5, <1>6, <1>7, <2>1, <2>3, <3>1
      <3>3. Cardinality(IpFrames(out', k)) = 1 + c
        BY <1>1, <1>2, <1>4, <1>8, <2>1, <2>3
      <3> QED BY <1>1, <1>2, <2>3, <3>2, <3>3
    <2> QED BY <1>1, <2>1, <2>2, <2>3
  <1> QED BY <1>1, <1>2, <1>9, <1>10 DEF NumberInv

\* Every step keeps the counter and the file together.
LEMMA NumberNext ==
    ASSUME FileInv, ExitInv, OutInv, NumberInv, [Next]_vars
    PROVE  NumberInv'
  <1>1. CASE Handle
    <2>1. UNCHANGED <<have_writer, disk>> /\ ~Opening' BY <1>1, HandleAside DEF Opening
    <2>2. disk \in Nat /\ replies \in Nat BY ReplayAssumption DEF FileInv, OutInv
    <2>3. CASE Unanswered
      <3>1. ip_id' = ip_id BY <1>1, <2>3, StackCall DEF OutInv, Unanswered
      <3> QED BY <2>1, <2>3, <3>1 DEF NumberInv, Unanswered
    <2>4. CASE Refused
      <3>1. have_writer => ~(replies' <= disk)
        <4>1. replies' = replies + 1 /\ (have_writer => Len(out) >= disk)
          BY <2>4 DEF Refused
        <4> QED BY <2>2, <4>1 DEF OutInv
      <3> QED BY <2>1, <2>4, <3>1 DEF NumberInv, Refused
    <2> QED BY <1>1, <2>3, <2>4, HandleCases, NumberAppended
  <1>2. CASE ~Handle
    <2>1. UNCHANGED <<stack_vars, out, replies, disk>> /\ (Opening' => Opening)
      BY <1>2, OthersAside DEF Opening
    <2>2. CASE UNCHANGED have_writer BY <2>1, <2>2 DEF NumberInv, stack_vars
    <2>3. CASE pc = "open_write"
      <3>1. out = <<>> /\ Len(out) = 0 /\ ip_id = 1
        BY <2>3, EmptySeq DEF OutInv, NumberInv, Opening
      <3>2. IpFrames(out, 0) = {} BY DEF IpFrames
      <3>3. (1 + 0) % IdMod = 1 BY FramesAssumption
      <3> QED BY <2>1, <3>1, <3>2, <3>3, FS_EmptySet DEF NumberInv, stack_vars
    <2> QED BY <1>2, <2>2, <2>3, OthersAside
  <1> QED BY <1>1, <1>2

\* The identifications of the IPv4 answers in the file run on from 1, around the wrap of
\* the 16-bit counter too, up to where the disk was full.
THEOREM NumbersRunOn == Spec => []IdsGapless
  <1>1. Init => NumberInv
    <2> SUFFICES ASSUME Init PROVE NumberInv OBVIOUS
    <2>1. out = <<>> /\ Len(out) = 0 /\ ip_id = 1 /\ have_writer = FALSE
      BY EmptySeq DEF Init, Stack!Init
    <2>2. IpFrames(out, 0) = {} BY DEF IpFrames
    <2> QED BY <2>1, <2>2 DEF NumberInv
  <1>2. ASSUME FileInv, OutInv, NumberInv PROVE IdsGapless
    <2> DEFINE n == IF Len(out) <= disk THEN Len(out) ELSE disk
    <2>1. /\ n \in Nat /\ n <= Len(out) /\ n <= disk /\ Len(Whole) = n
          /\ Len(out) \in Nat /\ disk \in Nat
          /\ \A k \in 1..n : Whole[k] = out[k]
      <3>1. Len(out) \in Nat /\ disk \in Nat
        BY <1>2, LenProperties, ReplayAssumption DEF FileInv, OutInv
      <3> QED BY <1>2, <3>1, WholeIsPrefix
    <2>2. \A k \in 0..n : IpFrames(Whole, k) = IpFrames(out, k) BY <2>1, IpCountKept
    <2> HIDE DEF n
    <2>3. ASSUME NEW k \in IpFrames(Whole, n)
          PROVE  Whole[k].frame.ip.id = Cardinality(IpFrames(Whole, k)) % IdMod
      <3>1. k \in 1..n BY DEF IpFrames
      <3>2. k \in IpFrames(out, Len(out)) /\ k <= disk /\ k \in 0..n
        BY <2>1, <2>3, <3>1 DEF IpFrames
      <3> QED BY <1>2, <2>1, <2>2, <3>1, <3>2 DEF NumberInv
    <2> QED BY <2>1, <2>3 DEF IdsGapless, IpFrames
  <1> QED BY <1>1, <1>2, NumberNext, OutInvariance, PTL DEF Spec
-----------------------------------------------------------------------------
(***************************************************************************)
(* The stream.  As long as the disk has had room, the last segment in the  *)
(* file ends where the sequence space spoken for ends.                     *)
(***************************************************************************)
SaidFrames(s, n) == {k \in 1..n : Stack!FromConn(s[k].frame)}

SeqAfter(record) == ToSeq(record.frame.tcp.seq + Stack!SegLen(record.frame))

\* No segment between the j-th record and the k-th.
Adjacent(s, j, k) == SaidFrames(s, k - 1) \cap (j + 1)..(k - 1) = {}

StreamInv ==
    /\ \A j, k \in SaidFrames(out, Len(out)) :
         k <= disk /\ j < k /\ Adjacent(out, j, k) =>
           out[k].frame.tcp.seq = SeqAfter(out[j])
    /\ have_writer /\ replies <= disk =>
         \A j \in SaidFrames(out, Len(out)) :
            Adjacent(out, j, Len(out) + 1) => Core!NextSeq = SeqAfter(out[j])

\* The call says a segment from NextSeq on, or leaves NextSeq where it is: no buffer of
\* the program is shorter than a frame.
LEMMA StackSays ==
    ASSUME FileInv, Core!IInv, Handle
    PROVE  IF Stack!FromConn(tx')
           THEN /\ tx'.tcp.seq = Core!NextSeq
                /\ Core!NextSeq' = ToSeq(tx'.tcp.seq + Stack!SegLen(tx'))
           ELSE Core!NextSeq' = Core!NextSeq
  <1>1. /\ frame \in Core!Frame /\ frame.len <= GCS_STACK_FRAME_CAP
        /\ Core!HandleFrame(frame, GCS_STACK_FRAME_CAP)
    BY StackCall, CoreFrames
  <1>2. GCS_STACK_FRAME_CAP \in Nat BY DEF GCS_STACK_FRAME_CAP, GCS_ETH_HDR_LEN
  <1>3. IF Core!FromConn(tx')
        THEN /\ tx'.tcp.seq = Core!NextSeq
             /\ Core!NextSeq' = Core!ToSeq(tx'.tcp.seq + Core!SegLen(tx'))
        ELSE Core!NextSeq' = Core!NextSeq
    BY <1>1, <1>2, CoreAssumptions, Core!NothingLost
  <1> QED BY <1>3, CoreSays

\* Whether two of the first n records follow each other does not depend on the others.
LEMMA AdjacentKept ==
    ASSUME NEW s, NEW t, NEW n \in Nat, \A i \in 1..n : s[i] = t[i],
           NEW j \in 1..n, NEW k \in 1..(n + 1)
    PROVE  /\ Adjacent(s, j, k) <=> Adjacent(t, j, k)
           /\ k <= n => (k \in SaidFrames(s, n) <=> k \in SaidFrames(t, n))
  <1>1. \A i \in 1..(k - 1) : i \in 1..n OBVIOUS
  <1>2. SaidFrames(s, k - 1) = SaidFrames(t, k - 1) BY <1>1 DEF SaidFrames
  <1>3. k <= n => (k \in SaidFrames(s, n) <=> k \in SaidFrames(t, n))
    BY DEF SaidFrames
  <1> QED BY <1>2, <1>3 DEF Adjacent

\* A record added to the output goes on where the stream was.
LEMMA StreamAppended ==
    ASSUME FileInv, OutInv, StreamInv, Handle, NEW r \in Record, Appended(r)
    PROVE  StreamInv'
  <1> DEFINE n == Len(out)
  <1>1. /\ n \in Nat /\ Len(out') = n + 1 /\ out'[n + 1] = r
        /\ \A k \in 1..n : out'[k] = out[k]
    BY AppendedOut
  <1>2. /\ have_writer /\ have_writer' = have_writer /\ disk' = disk /\ disk \in Nat
        /\ replies' = replies + 1 /\ replies \in Nat
        /\ r.frame = tx'
    BY HandleAside, ReplayAssumption DEF Appended, FileInv, OutInv
  <1>3. n < disk => replies <= disk BY <1>1, <1>2 DEF OutInv
  <1>4. IF Stack!FromConn(tx')
        THEN tx'.tcp.seq = Core!NextSeq /\ Core!NextSeq' = SeqAfter(r)
        ELSE Core!NextSeq' = Core!NextSeq
    BY <1>2, StackSays DEF OutInv, SeqAfter
  <1>5. replies <= disk =>
          \A j \in SaidFrames(out, n) :
             Adjacent(out, j, n + 1) => Core!NextSeq = SeqAfter(out[j])
    BY <1>2 DEF StreamInv
  <1> HIDE DEF n
  <1>6. ASSUME NEW j \in SaidFrames(out', n + 1)
        PROVE  /\ j \in 1..(n + 1)
               /\ j \in 1..n => j \in SaidFrames(out, n) /\ out'[j] = out[j]
               /\ j \notin 1..n => j = n + 1 /\ Stack!FromConn(tx')
    <2>1. j \in 1..(n + 1) /\ Stack!FromConn(out'[j].frame) BY DEF SaidFrames
    <2>2. j \notin 1..n => j = n + 1 BY <1>1, <2>1
    <2> QED BY <1>1, <1>2, <2>1, <2>2 DEF SaidFrames
  <1>7. ASSUME NEW j \in SaidFrames(out', n + 1), NEW k \in SaidFrames(out', n + 1),
               k <= disk, j < k, Adjacent(out', j, k)
        PROVE  out'[k].frame.tcp.seq = SeqAfter(out'[j])
    <2>1. /\ j \in 1..n /\ j \in SaidFrames(out, n) /\ out'[j] = out[j]
          /\ k \in 1..(n + 1)
      <3>1. j \in 1..(n + 1) /\ k \in 1..(n + 1) BY <1>6
      <3>2. j \in 1..n BY <1>1, <1>7, <3>1
      <3> QED BY <1>6, <3>1, <3>2
    <2>2. Adjacent(out, j, k) BY <1>1, <1>7, <2>1, AdjacentKept
    <2>3. CASE k \in 1..n
      <3>1. k \in SaidFrames(out, n) /\ out'[k] = out[k] BY <1>6, <2>3
      <3> QED BY <1>7, <2>1, <2>2, <3>1 DEF StreamInv, n
    <2>4. CASE k = n + 1
      <3>1. n < disk BY <1>1, <1>2, <1>7, <2>4
      <3>2. Stack!FromConn(tx') BY <1>1, <1>6, <2>4
      <3> QED BY <1>1, <1>2, <1>3, <1>4, <1>5, <2>1, <2>2, <2>4, <3>1, <3>2
    <2> QED BY <1>1, <2>1, <2>3, <2>4
  <1>8. ASSUME replies' <= disk, NEW j \in SaidFrames(out', n + 1),
               Adjacent(out', j, (n + 1) + 1)
        PROVE  Core!NextSeq' = SeqAfter(out'[j])
    <2>1. CASE j \in 1..n
      <3>1. j \in SaidFrames(out, n) /\ out'[j] = out[j] BY <1>6, <2>1
      <3>2. /\ (n + 1) + 1 - 1 = n + 1 /\ (n + 1) - 1 = n
            /\ n + 1 \in (j + 1)..(n + 1) /\ n + 1 \in 1..(n + 1)
            /\ n + 1 \in 1..(n + 1) /\ (j + 1)..n \subseteq (j + 1)..(n + 1)
            /\ 1..n \subseteq 1..(n + 1)
        BY <1>1, <2>1
      <3>3. SaidFrames(out', n + 1) \cap (j + 1)..(n + 1) = {}
        BY <1>8, <3>2 DEF Adjacent
      <3>4. ~Stack!FromConn(tx')
        BY <1>1, <1>2, <3>2, <3>3 DEF SaidFrames
      <3>5. Adjacent(out', j, n + 1)
        BY <3>2, <3>3 DEF Adjacent, SaidFrames
      <3>6. Adjacent(out, j, n + 1) BY <1>1, <2>1, <3>2, <3>5, AdjacentKept
      <3>7. replies <= disk BY <1>2, <1>8
      <3> QED BY <1>4, <1>5, <3>1, <3>4, <3>6, <3>7
    <2>2. CASE j \notin 1..n
      BY <1>1, <1>4, <1>6, <2>2
    <2> QED BY <2>1, <2>2
  <1> QED BY <1>1, <1>2, <1>7, <1>8 DEF StreamInv

\* Every step keeps the stream and the connection together.
LEMMA StreamNext ==
    ASSUME FileInv, ExitInv, OutInv, StreamInv, [Next]_vars
    PROVE  StreamInv'
  <1>1. CASE Handle
    <2>1. UNCHANGED <<have_writer, disk>> BY <1>1, HandleAside
    <2>2. disk \in Nat /\ replies \in Nat BY ReplayAssumption DEF FileInv, OutInv
    <2>3. CASE Unanswered
      <3>1. ~Stack!FromConn(tx')
        BY <2>3 DEF Unanswered, Stack!FromConn, Stack!Answered, Answered
      <3>2. Core!NextSeq' = Core!NextSeq BY <1>1, <3>1, StackSays DEF OutInv
      <3> QED BY <2>1, <2>3, <3>2 DEF StreamInv, Unanswered
    <2>4. CASE Refused
      <3>1. have_writer => ~(replies' <= disk)
        <4>1. replies' = replies + 1 /\ (have_writer => Len(out) >= disk)
          BY <2>4 DEF Refused
        <4> QED BY <2>2, <4>1 DEF OutInv
      <3> QED BY <2>1, <2>4, <3>1 DEF StreamInv, Refused
    <2> QED BY <1>1, <2>3, <2>4, HandleCases, StreamAppended
  <1>2. CASE ~Handle
    <2>1. UNCHANGED <<stack_vars, out, replies, disk>> BY <1>2, OthersAside
    <2>2. Core!NextSeq' = Core!NextSeq BY <2>1 DEF stack_vars, Core!NextSeq
    <2>3. CASE UNCHANGED have_writer BY <2>1, <2>2, <2>3 DEF StreamInv
    <2>4. CASE pc = "open_write"
      <3>1. out = <<>> /\ Len(out) = 0 BY <2>4, EmptySeq DEF OutInv
      <3>2. SaidFrames(out, 0) = {} BY DEF SaidFrames
      <3> QED BY <2>1, <3>1, <3>2 DEF StreamInv
    <2> QED BY <1>2, <2>3, <2>4, OthersAside
  <1> QED BY <1>1, <1>2

\* The segments of the connection in the file are one stretch of sequence space, with no
\* gap and no overlap, wrap-around included, up to where the disk was full.
THEOREM StreamHasNoGap == Spec => []GaplessStream
  <1>1. Init => StreamInv
    <2> SUFFICES ASSUME Init PROVE StreamInv OBVIOUS
    <2>1. out = <<>> /\ Len(out) = 0 BY EmptySeq DEF Init
    <2>2. SaidFrames(out, 0) = {} BY DEF SaidFrames
    <2> QED BY <2>1, <2>2 DEF StreamInv
  <1>2. ASSUME FileInv, OutInv, StreamInv PROVE GaplessStream
    <2> DEFINE n == IF Len(out) <= disk THEN Len(out) ELSE disk
    <2>1. /\ n \in Nat /\ n <= Len(out) /\ n <= disk /\ Len(Whole) = n
          /\ Len(out) \in Nat /\ disk \in Nat
          /\ \A k \in 1..n : Whole[k] = out[k]
      <3>1. Len(out) \in Nat /\ disk \in Nat
        BY <1>2, LenProperties, ReplayAssumption DEF FileInv, OutInv
      <3> QED BY <1>2, <3>1, WholeIsPrefix
    <2> HIDE DEF n
    <2>2. ASSUME NEW j \in SaidFrames(Whole, n), NEW k \in SaidFrames(Whole, n), j < k,
                 SaidFrames(Whole, n) \cap (j + 1)..(k - 1) = {}
          PROVE  Whole[k].frame.tcp.seq = SeqAfter(Whole[j])
      <3>1. j \in 1..n /\ k \in 1..n /\ k \in 1..(n + 1) BY <2>1 DEF SaidFrames
      <3>2. /\ j \in SaidFrames(out, Len(out)) /\ k \in SaidFrames(out, Len(out))
            /\ k <= disk
        <4>1. Whole[j] = out[j] /\ Whole[k] = out[k] BY <2>1, <3>1
        <4>2. j \in 1..Len(out) /\ k \in 1..Len(out) /\ k <= disk BY <2>1, <3>1
        <4> QED BY <2>2, <4>1, <4>2 DEF SaidFrames
      <3>3. Adjacent(Whole, j, k)
        <4>1. \A i \in 1..(k - 1) : i \in 1..n BY <2>1, <3>1
        <4> QED BY <2>2, <4>1 DEF Adjacent, SaidFrames
      <3>4. Adjacent(out, j, k) BY <2>1, <3>1, <3>3, AdjacentKept
      <3> QED BY <1>2, <2>1, <2>2, <3>1, <3>2, <3>4 DEF StreamInv
    <2> QED BY <2>1, <2>2 DEF GaplessStream, SaidFrames, SeqAfter
  <1> QED BY <1>1, <1>2, StreamNext, OutInvariance, PTL DEF Spec
-----------------------------------------------------------------------------
(***************************************************************************)
(* The refinement of Responder.                                            *)
(***************************************************************************)
\* The frames of a sequence of records.
LEMMA FramesOfRecords ==
    ASSUME NEW s \in Seq(Record)
    PROVE  /\ FramesOf(s) \in Seq(Frame) /\ Len(FramesOf(s)) = Len(s)
           /\ Len(s) \in Nat /\ \A i \in 1..Len(s) : FramesOf(s)[i] = s[i].frame
  <1>1. Len(s) \in Nat /\ \A i \in 1..Len(s) : s[i] \in Record
    BY LenProperties, ElementOfSeq
  <1>2. FramesOf(s) \in [1..Len(s) -> Frame] BY <1>1 DEF FramesOf, Record
  <1>3. FramesOf(s) \in Seq(Frame) BY <1>1, <1>2, SeqDef
  <1>4. Len(FramesOf(s)) \in Nat /\ 1..Len(FramesOf(s)) = 1..Len(s)
    BY <1>2, <1>3, LenProperties
  <1>5. Len(FramesOf(s)) = Len(s) BY <1>1, <1>4
  <1> QED BY <1>1, <1>3, <1>5 DEF FramesOf

\* A record more is a frame more.
LEMMA FramesOfLonger ==
    ASSUME NEW s \in Seq(Record), NEW t \in Seq(Record), Len(t) = Len(s) + 1,
           \A i \in 1..Len(s) : t[i] = s[i]
    PROVE  /\ FramesOf(t) # <<>> /\ FramesOf(t)[Len(FramesOf(t))] = t[Len(s) + 1].frame
           /\ FramesOf(t) = Append(FramesOf(s), FramesOf(t)[Len(FramesOf(t))])
  <1> DEFINE n == Len(s)
             a == FramesOf(s)
             b == FramesOf(t)
             e == t[n + 1].frame
  <1>1. n \in Nat /\ a \in Seq(Frame) /\ b \in Seq(Frame) /\ Len(a) = n /\ Len(b) = n + 1
    BY FramesOfRecords
  <1>2. /\ \A i \in 1..n : a[i] = s[i].frame
        /\ \A i \in 1..(n + 1) : b[i] = t[i].frame
    BY FramesOfRecords
  <1>3. e = b[n + 1] BY <1>1, <1>2
  <1>4. e \in Frame BY <1>1, <1>3, ElementOfSeq
  <1>5. \A i \in 1..n : b[i] = a[i] BY <1>1, <1>2
  <1> HIDE DEF n, a, b, e
  <1>6. /\ Append(a, e) \in Seq(Frame) /\ Len(Append(a, e)) = n + 1
        /\ \A i \in 1..n : Append(a, e)[i] = a[i]
        /\ Append(a, e)[n + 1] = e
    BY <1>1, <1>4, AppendProperties
  <1>7. \A i \in 1..(n + 1) : b[i] = Append(a, e)[i]
    <2>1. \A i \in 1..(n + 1) : i \in 1..n \/ i = n + 1 BY <1>1
    <2> QED BY <1>3, <1>5, <1>6, <2>1
  <1>8. b = Append(a, e) BY <1>1, <1>6, <1>7, SeqEqual
  <1>9. b # <<>> BY <1>1, EmptySeq
  <1> QED BY <1>1, <1>3, <1>8, <1>9 DEF n, a, b, e

\* The records read.
LEMMA RecordsRead ==
    ASSUME NEW s \in Seq(Record), NEW n \in 0..Len(s)
    PROVE  /\ SubSeq(s, 1, n) \in Seq(Record) /\ Len(SubSeq(s, 1, n)) = n
           /\ \A k \in 1..n : SubSeq(s, 1, n)[k] = s[k]
  <1>1. n \in Nat /\ n <= Len(s) /\ Len(s) \in Nat BY LenProperties
  <1>2. \A k \in 1..n : s[k] \in Record BY <1>1, ElementOfSeq
  <1> QED BY <1>1, <1>2, SubSeqProperties

Taken == FramesOf(SubSeq(file.records, 1, pos))

\* A read takes the next frame.
LEMMA ReadTakes ==
    ASSUME FileInv, FileInv', ExitInv, ReadFrame
    PROVE  Loop!Take
  <1> DEFINE s == SubSeq(file.records, 1, pos)
             t == SubSeq(file.records, 1, pos + 1)
  <1>1. /\ pos' = pos + 1 /\ file' = file /\ out' = out /\ pc = "read" /\ pc' = "handle"
    BY DEF ReadFrame, given
  <1>2. file.records \in Seq(Record) /\ pos \in 0..Len(file.records)
        /\ pos + 1 \in 0..Len(file.records) /\ Len(file.records) \in Nat
    BY <1>1, FileRecords DEF FileInv
  <1>3. /\ s \in Seq(Record) /\ Len(s) = pos /\ \A k \in 1..pos : s[k] = file.records[k]
        /\ t \in Seq(Record) /\ Len(t) = pos + 1
        /\ \A k \in 1..(pos + 1) : t[k] = file.records[k]
    BY <1>2, RecordsRead
  <1>4. Taken = FramesOf(s) /\ Taken' = FramesOf(t) BY <1>1 DEF Taken, FramesOf
  <1> HIDE DEF s, t
  <1>5. \A k \in 1..Len(s) : t[k] = s[k] BY <1>2, <1>3
  <1>6. Taken' # <<>> /\ Taken' = Append(Taken, Taken'[Len(Taken')])
    BY <1>3, <1>4, <1>5, FramesOfLonger
  <1> QED BY <1>1, <1>6 DEF Loop!Take, Taken, Whole, FramesOf

\* Handling delivers an answer to the frame in hand, or gives it up.
LEMMA HandleDelivers ==
    ASSUME FileInv, FileInv', OutInv, OutInv', Handle
    PROVE  Loop!Deliver \/ Loop!GiveUp
  <1>1. /\ UNCHANGED <<file, disk, pos>> /\ pc = "handle" /\ pc' = "read"
        /\ disk \in Nat
    BY HandleAside, ReplayAssumption DEF FileInv
  <1>2. Taken' = Taken BY <1>1 DEF Taken, FramesOf
  <1>3. ASSUME Whole' = Whole PROVE Loop!GiveUp
    BY <1>1, <1>2, <1>3 DEF Loop!GiveUp, Taken, FramesOf
  <1>4. CASE out' = out BY <1>3, <1>4 DEF Whole
  <1>5. ASSUME NEW r \in Record, Appended(r) PROVE Loop!Deliver \/ Loop!GiveUp
    <2> DEFINE n == Len(out)
    <2>1. /\ out \in Seq(Record) /\ out' \in Seq(Record) /\ n \in Nat
          /\ Len(out') = n + 1 /\ \A k \in 1..n : out'[k] = out[k]
          /\ out'[n + 1] = r
      BY <1>5, AppendedOut DEF OutInv
    <2>2. Answered(tx') /\ r.frame = tx' /\ n <= disk BY <1>5 DEF Appended
    <2>3. Whole = WholeOf(out) /\ Whole' = WholeOf(out') BY DEF Whole, WholeOf
    <2>4. /\ \A k \in 1..Len(out) : out[k].whole <=> k <= disk
          /\ \A k \in 1..Len(out') : out'[k].whole <=> k <= disk
      BY <1>1 DEF OutInv
    <2>5. /\ Whole \in Seq(Record) /\ Len(Whole) = n
          /\ \A k \in 1..n : Whole[k] = out[k]
      BY <2>1, <2>2, <2>3, <2>4, <1>1, WholeOfPrefix
    <2> DEFINE m == IF n + 1 <= disk THEN n + 1 ELSE disk
    <2>6. /\ Whole' \in Seq(Record) /\ Len(Whole') = m
          /\ \A k \in 1..m : Whole'[k] = out'[k]
      <3>1. m = IF Len(out') <= disk THEN Len(out') ELSE disk BY <2>1
      <3> DEFINE o == out'
                 d == disk
      <3>2. o \in Seq(Record) /\ d \in Nat BY <1>1, <2>1
      <3>3. \A k \in 1..Len(o) : o[k].whole <=> k <= d BY <2>4
      <3>4. m = IF Len(o) <= d THEN Len(o) ELSE d BY <3>1
      <3> HIDE DEF m, o, d
      <3>5. /\ WholeOf(o) \in Seq(Record) /\ Len(WholeOf(o)) = m
            /\ \A k \in 1..m : WholeOf(o)[k] = o[k]
        BY <3>2, <3>3, <3>4, WholeOfPrefix
      <3> QED BY <2>3, <3>5 DEF o
    <2>7. CASE n = disk
      <3>1. m = n BY <1>1, <2>1, <2>7
      <3>2. Len(Whole') = Len(Whole) /\ \A k \in 1..Len(Whole) : Whole'[k] = Whole[k]
        BY <2>1, <2>5, <2>6, <3>1
      <3>3. Whole' = Whole BY <2>5, <2>6, <3>2, SeqEqual
      <3> QED BY <1>3, <3>3
    <2>8. CASE n < disk
      <3>1. m = n + 1 BY <1>1, <2>1, <2>8
      <3>2. /\ Len(Whole') = Len(Whole) + 1
            /\ \A k \in 1..Len(Whole) : Whole'[k] = Whole[k]
            /\ Whole'[Len(Whole) + 1] = r
        BY <2>1, <2>5, <2>6, <3>1
      <3> DEFINE d == FramesOf(Whole)
                 e == FramesOf(Whole')
      <3>3. e # <<>> /\ e[Len(e)] = tx' /\ e = Append(d, e[Len(e)])
        BY <2>2, <2>5, <2>6, <3>2, FramesOfLonger
      <3>4. Stack!AnswerTo(frame, tx') BY <2>2, StackCall DEF OutInv
      <3>5. Taken[Len(Taken)] = frame
        <4>1. /\ file.records \in Seq(Record) /\ pos \in 1..Len(file.records)
              /\ pos \in 0..Len(file.records) /\ frame = file.records[pos].frame
          BY <1>1, FileRecords, FrameInHand DEF FileInv
        <4> DEFINE t == SubSeq(file.records, 1, pos)
        <4>2. t \in Seq(Record) /\ Len(t) = pos /\ t[pos] = file.records[pos]
          BY <4>1, RecordsRead
        <4>3. Taken = FramesOf(t) BY DEF Taken
        <4>4. pos \in 1..Len(t) BY <4>1, <4>2
        <4> HIDE DEF t
        <4>5. Len(Taken) = pos /\ Taken[pos] = t[pos].frame
          BY <4>2, <4>3, <4>4, FramesOfRecords
        <4> QED BY <4>1, <4>2, <4>5
      <3>6. FramesOf(Whole)' = e BY DEF FramesOf
      <3> QED BY <1>1, <1>2, <3>3, <3>4, <3>5, <3>6 DEF Loop!Deliver, Taken
    <2> QED BY <1>1, <2>1, <2>2, <2>7, <2>8
  <1> QED BY <1>4, <1>5, HandleCases DEF Unanswered, Refused

\* gcs_replay.c writes at most one answer to each frame, to that frame and in the order
\* of the frames, whatever the disk has no room for.
THEOREM WritesInOrder == Spec => AnswersInOrder
  <1>1. Init => Loop!Init
    <2> SUFFICES ASSUME Init PROVE Loop!Init OBVIOUS
    <2>1. \A s : FramesOf(SubSeq(s, 1, 0)) = <<>>
      <3>1. \A s : SubSeq(s, 1, 0) = <<>> BY SubSeqEmpty
      <3>2. FramesOf(<<>>) \in Seq(Frame) /\ Len(FramesOf(<<>>)) = 0
        BY FramesOfRecords, EmptySeq
      <3>3. FramesOf(<<>>) = <<>> BY <3>2, EmptySeq
      <3> QED BY <3>1, <3>3
    <2>2. FramesOf(SubSeq(file.records, 1, pos)) = <<>> BY <2>1 DEF Init
    <2>3. FramesOf(Whole) = <<>>
      <3>1. out = <<>> /\ Len(out) = 0 BY EmptySeq DEF Init
      <3>2. {i \in 1..0 : \A j \in 1..i : out[j].whole} = {} OBVIOUS
      <3>3. Whole = SubSeq(out, 1, 0) BY <3>1, <3>2, FS_EmptySet DEF Whole
      <3> QED BY <2>1, <3>3
    <2> QED BY <2>2, <2>3 DEF Init, Loop!Init
  <1>2. ASSUME FileInv, FileInv', ExitInv, OutInv, OutInv', [Next]_vars
        PROVE  [Loop!Next]_Loop!vars
    <2>1. CASE ReadFrame BY <1>2, <2>1, ReadTakes DEF Loop!Next
    <2>2. CASE Handle BY <1>2, <2>2, HandleDelivers DEF Loop!Next
    <2>3. CASE OpenRead \/ OpenWrite \/ StopReading \/ UNCHANGED vars
      <3>1. UNCHANGED <<file, pos, out>> /\ (pc' = "handle" <=> pc = "handle")
        BY <1>2, <2>3
        DEF OpenRead, OpenWrite, StopReading, vars, given, buffers
      <3> QED BY <3>1 DEF Loop!vars, Whole, FramesOf
    <2> QED BY <1>2, <2>1, <2>2, <2>3 DEF Next, Terminated
  <1> QED BY <1>1, <1>2, OutInvariance, PTL DEF Spec, AnswersInOrder, Loop!Spec
===============================================================================
