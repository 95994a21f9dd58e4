---------------------------- MODULE TapDriverProofs ----------------------------
(***************************************************************************)
(* Theorems about TapDriver, for any traffic, any number of signals and of *)
(* failed writes, any errors and both meanings of signal().                *)
(***************************************************************************)
EXTENDS TapDriver, SequenceTheorems, FiniteSetTheorems, TLAPS

Core == INSTANCE GcsStackProofs WITH Frames <- {}, OutCaps <- {GCS_STACK_FRAME_CAP}

-----------------------------------------------------------------------------
(***************************************************************************)
(* The inductive invariants.  ControlInv is about the start, the handlers  *)
(* and the loop, and needs nothing of the frames.                          *)
(***************************************************************************)
Starting == pc \in {"open", "attach", "report", "sigint", "sigterm", "failed"}

\* A handler can be gone again only where it serves once, and has served.
Served == ~bsd /\ ~g_running

StartInv ==
    /\ Starting => rx = NoReply
    /\ pc = "open" => fd = "none"
    /\ pc = "report" => errno = failed_with /\ fd = "none"
    /\ FailureReported

HandlerInv ==
    /\ handlers \subseteq Signals
    /\ pc = "sigterm" => "SIGINT" \in handlers \/ Served
    /\ Starting \/ pc = "killed" \/ handlers = Signals \/ Served
    /\ KilledOnlyAtStart

\* The frame that was handled late is the last: the loop is on its way to its test
\* of g_running, or past it.
LateInv ==
    /\ handled_late \in {0, 1}
    /\ g_running => handled_late = 0
    /\ handled_late = 1 => pc \in {"write", "check", "close", "closed", "killed"}

ControlInv ==
    /\ g_running \in BOOLEAN /\ bsd \in BOOLEAN
    /\ StartInv /\ HandlerInv /\ LateInv

\* The initial state satisfies it.
LEMMA ControlInit == Init => ControlInv
  BY DriverAssumption
  DEF Init, Stack!Init, ControlInv, StartInv, HandlerInv, LateInv, Starting, Served,
      FailureReported, KilledOnlyAtStart, NoReply, Stack!NoReply

\* What the kernel and the signals do to it.
LEMMA EnvironmentControl ==
    ASSUME ControlInv, KernelSends \/ OnSignal \/ Killed
    PROVE  ControlInv'
  <1> USE DEF ControlInv, StartInv, HandlerInv, LateInv, Starting, Served,
              FailureReported, KilledOnlyAtStart
  <1>1. CASE KernelSends
    BY <1>1 DEF KernelSends, stack_vars, start_vars
  <1>2. CASE OnSignal
    BY <1>2 DEF OnSignal, Over, Signals, stack_vars, kernel_vars, start_vars
  <1>3. CASE Killed
    BY <1>3 DEF Killed, Over, Signals, stack_vars, kernel_vars, start_vars
  <1> QED BY <1>1, <1>2, <1>3

\* What the start of main does to it.
LEMMA StartControl ==
    ASSUME ControlInv, Start
    PROVE  ControlInv'
  <1> USE DEF ControlInv, StartInv, HandlerInv, LateInv, Starting, Served,
              FailureReported, KilledOnlyAtStart,
              stack_vars, kernel_vars, start_vars, started_vars
  <1>1. CASE OpenDevice BY <1>1 DEF OpenDevice
  <1>2. CASE Attach BY <1>2 DEF Attach
  <1>3. CASE ReportFailure BY <1>3 DEF ReportFailure
  <1>4. CASE InstallHandlers BY <1>4 DEF InstallHandlers, Signals
  <1> QED BY <1>1, <1>2, <1>3, <1>4 DEF Start

\* What the loop of main does to it.
LEMMA LoopControl ==
    ASSUME ControlInv, Loop \/ ReadFails
    PROVE  ControlInv'
  <1> USE DEF ControlInv, StartInv, HandlerInv, LateInv, Starting, Served,
              FailureReported, KilledOnlyAtStart, Goto, stack_vars, start_vars
  <1>1. CASE CheckRunning BY <1>1 DEF CheckRunning
  <1>2. CASE FallAsleep BY <1>2 DEF FallAsleep
  <1>3. CASE ReadFrame BY <1>3 DEF ReadFrame
  <1>4. CASE ReadInterrupted BY <1>4 DEF ReadInterrupted
  <1>5. CASE ReadFails BY <1>5 DEF ReadFails
  <1>6. CASE Handle BY <1>6 DEF Handle
  <1>7. CASE WriteReply BY <1>7 DEF WriteReply
  <1>8. CASE Close BY <1>8 DEF Close
  <1> QED BY <1>1, <1>2, <1>3, <1>4, <1>5, <1>6, <1>7, <1>8 DEF Loop

\* The invariant holds in every reachable state.
LEMMA ControlInvariance == Spec => []ControlInv
  <1>1. ControlInv /\ [Next]_vars => ControlInv'
    <2>1. ASSUME ControlInv, UNCHANGED vars PROVE ControlInv'
      BY <2>1
      DEF ControlInv, StartInv, HandlerInv, LateInv, Starting, Served,
          FailureReported, KilledOnlyAtStart, vars, stack_vars, kernel_vars, start_vars
    <2> QED BY <2>1, EnvironmentControl, StartControl, LoopControl DEF Next
  <1> QED BY <1>1, ControlInit, PTL DEF Spec

\* gcs_tap_open saves errno over its close: whatever fails, main reports the error of
\* the call that failed, advises on privileges for EPERM only, and holds no device.
THEOREM FailureIsReported == Spec => []FailureReported
  <1>1. ControlInv => FailureReported BY DEF ControlInv, StartInv
  <1> QED BY <1>1, ControlInvariance, PTL

\* Once the stack has seen a frame, only a second signal kills the driver, and only
\* where handlers serve once.
THEOREM HandlersProtect == Spec => []KilledOnlyAtStart
  <1>1. ControlInv => KilledOnlyAtStart BY DEF ControlInv, HandlerInv
  <1> QED BY <1>1, ControlInvariance, PTL

\* However many frames wait, at most one is handled after the signal.
THEOREM StopsAfterOneFrame == Spec => []OneFrameLate
  <1>1. ControlInv => OneFrameLate BY DEF ControlInv, LateInv, OneFrameLate
  <1> QED BY <1>1, ControlInvariance, PTL
-----------------------------------------------------------------------------
(***************************************************************************)
(* The stack inside the driver is the stack of GcsStackProofs: the lemmas  *)
(* about one call of it hold for the call of the loop.                     *)
(***************************************************************************)
\* The constants the driver gives the stack are what it assumes of them.
LEMMA CoreAssumptions == Core!FramesAssumption /\ Core!StackAssumption
  BY FramesAssumption, DriverAssumption
  DEF Core!FramesAssumption, Stack!StackAssumption, Core!StackAssumption,
      Stack!SeqNo, Core!SeqNo

\* The frames are the same.
LEMMA CoreFrames == Core!Frame = Frame /\ Core!NoReply = NoReply
  BY DEF
      Frame, Core!Frame, ArpFrame, Core!ArpFrame, IcmpFrame, Core!IcmpFrame,
      TcpFrame, Core!TcpFrame, OtherIpFrame, Core!OtherIpFrame, OtherFrame,
      Core!OtherFrame, ArpPacket, Core!ArpPacket, IpHeader, Core!IpHeader,
      IcmpMessage, Core!IcmpMessage, TcpSegment, Core!TcpSegment, U16, Core!U16,
      SeqNo, Core!SeqNo, HdrLen, Core!HdrLen, Flags, Core!Flags, NoReply,
      Core!NoReply

\* Where the stack starts.
LEMMA CoreInit == Stack!Init => Core!Init
  BY DEF Stack!Init, Core!Init, Stack!NoReply, Core!NoReply

\* What it does with a frame.
LEMMA CoreStep ==
    ASSUME NEW f, NEW cap
    PROVE  Stack!HandleFrame(f, cap) <=> Core!HandleFrame(f, cap)
  BY DEF
      Stack!HandleFrame, Core!HandleFrame, Stack!HandleTcp, Core!HandleTcp,
      Stack!IgnoreSegment, Core!IgnoreSegment, Stack!LastAck, Core!LastAck,
      Stack!ReceiveData, Core!ReceiveData, Stack!ReceiveFin, Core!ReceiveFin,
      Stack!SynReceived, Core!SynReceived, Stack!Listen, Core!Listen, Stack!ForConn,
      Core!ForConn, Stack!ClosedPort, Core!ClosedPort, Stack!EmitTcp, Core!EmitTcp,
      Stack!Segment, Core!Segment, Stack!HandleIcmp, Core!HandleIcmp,
      Stack!EchoReply, Core!EchoReply, Stack!HandleArp, Core!HandleArp,
      Stack!ArpReply, Core!ArpReply, Stack!DropFrame, Core!DropFrame, Stack!NextId,
      Core!NextId, Stack!IpWrite, Core!IpWrite, Stack!Silent, Core!Silent,
      Stack!TcpValid, Core!TcpValid, Stack!IpValid, Core!IpValid, Stack!ForUs,
      Core!ForUs, Stack!GCS_ETH_HDR_LEN, Core!GCS_ETH_HDR_LEN,
      Stack!GCS_ARP_HDR_LEN, Core!GCS_ARP_HDR_LEN, Stack!GCS_IPV4_MIN_HDR_LEN,
      Core!GCS_IPV4_MIN_HDR_LEN, Stack!GCS_ICMP_HDR_LEN, Core!GCS_ICMP_HDR_LEN,
      Stack!GCS_TCP_MIN_HDR_LEN, Core!GCS_TCP_MIN_HDR_LEN, Stack!ToU16, Core!ToU16,
      Stack!ToSeq, Core!ToSeq, Stack!NoReply, Core!NoReply, Stack!EthParse,
      Core!EthParse, Stack!EthPayloadLen, Core!EthPayloadLen, Stack!ArpParse,
      Core!ArpParse, Stack!IpParse, Core!IpParse, Stack!IpPayloadLen,
      Core!IpPayloadLen, Stack!IcmpParse, Core!IcmpParse, Stack!IcmpPayloadLen,
      Core!IcmpPayloadLen, Stack!TcpParse, Core!TcpParse, Stack!TcpPayloadLen,
      Core!TcpPayloadLen

\* What an answer is.
LEMMA CoreAnswer ==
    ASSUME NEW f, NEW r
    PROVE  /\ Stack!AnswerTo(f, r) <=> Core!AnswerTo(f, r)
           /\ Answered(r) <=> Core!Answered(r)
  BY DEF Stack!AnswerTo, Core!AnswerTo, Answered, Core!Answered
-----------------------------------------------------------------------------
(***************************************************************************)
(* Every frame of the traffic is in one of three places, in order: read,   *)
(* queued, or still to be sent.  The frame in hand is the last one read,   *)
(* and a reply that waits to be written answers it.                        *)
(***************************************************************************)
Read == Len(Traffic) - Len(traffic) - Len(inbox)

TrafficInv ==
    /\ traffic \in Seq(Frame) /\ inbox \in Seq(Frame)
    /\ Read \in Nat
    /\ \A k \in 1..Len(inbox) : inbox[k] = Traffic[Read + k]
    /\ \A k \in 1..Len(traffic) : traffic[k] = Traffic[Read + Len(inbox) + k]

InHand == pc \in {"handle", "write"}

ReplyInv ==
    /\ Core!IInv
    /\ written \in Seq(Frame)
    /\ InHand => Read > 0 /\ frame = Traffic[Read]
    /\ pc = "write" => reply \in Frame /\ Stack!AnswerTo(frame, reply)

\* The frame in hand is a frame.
LEMMA InHandIsFrame ==
    ASSUME TrafficInv, ReplyInv, InHand
    PROVE  frame \in Frame
  <1>1. Read \in 1..Len(Traffic) /\ frame = Traffic[Read]
    BY DriverAssumption DEF TrafficInv, ReplyInv, Read
  <1> QED BY <1>1, DriverAssumption

\* The initial state satisfies both.
LEMMA DeliveryInit == Init => TrafficInv /\ ReplyInv
  <1> SUFFICES ASSUME Init PROVE TrafficInv /\ ReplyInv OBVIOUS
  <1>1. TrafficInv
    BY DriverAssumption DEF Init, TrafficInv, Read
  <1>2. Core!IInv
    BY CoreAssumptions, CoreInit, Core!IInvInit DEF Init
  <1> QED BY <1>1, <1>2 DEF Init, ReplyInv, InHand

\* The kernel moves a frame from the traffic to the queue.
LEMMA KernelSendsTraffic ==
    ASSUME TrafficInv, KernelSends
    PROVE  TrafficInv' /\ Read' = Read
  <1>1. /\ traffic \in Seq(Frame) /\ inbox \in Seq(Frame) /\ traffic # <<>>
        /\ traffic' = Tail(traffic) /\ inbox' = Append(inbox, Head(traffic))
    BY DEF TrafficInv, KernelSends
  <1>2. /\ traffic' \in Seq(Frame) /\ Len(traffic') = Len(traffic) - 1
        /\ \A k \in 1..Len(traffic') : traffic'[k] = traffic[k + 1]
        /\ Head(traffic) = traffic[1] /\ Head(traffic) \in Frame
    BY <1>1, HeadTailProperties
  <1>3. /\ inbox' \in Seq(Frame) /\ Len(inbox') = Len(inbox) + 1
        /\ \A k \in 1..Len(inbox) : inbox'[k] = inbox[k]
        /\ inbox'[Len(inbox) + 1] = Head(traffic)
    BY <1>1, <1>2, AppendProperties
  <1>4. /\ Len(Traffic) \in Nat /\ Len(traffic) \in Nat /\ Len(inbox) \in Nat
        /\ Len(traffic) > 0
    BY <1>1, DriverAssumption, EmptySeq, LenProperties
  <1>5. Read' = Read BY <1>2, <1>3, <1>4 DEF Read
  <1>6. \A k \in 1..Len(inbox') : inbox'[k] = Traffic[Read + k]
    <2>1. \A k \in 1..Len(inbox) : inbox'[k] = Traffic[Read + k]
      BY <1>3 DEF TrafficInv
    <2>2. inbox'[Len(inbox) + 1] = Traffic[Read + Len(inbox) + 1]
      BY <1>2, <1>3, <1>4 DEF TrafficInv
    <2>3. Read + Len(inbox) + 1 = Read + (Len(inbox) + 1) BY <1>4 DEF TrafficInv
    <2>4. 1..Len(inbox') = 1..Len(inbox) \cup {Len(inbox) + 1} BY <1>3, <1>4
    <2> QED BY <2>1, <2>2, <2>3, <2>4
  <1>7. \A k \in 1..Len(traffic') : traffic'[k] = Traffic[Read + Len(inbox') + k]
    <2> SUFFICES ASSUME NEW k \in 1..Len(traffic')
                 PROVE  traffic'[k] = Traffic[Read + Len(inbox') + k]
      OBVIOUS
    <2>1. traffic'[k] = traffic[k + 1] /\ k + 1 \in 1..Len(traffic) BY <1>2, <1>4
    <2>2. traffic[k + 1] = Traffic[Read + Len(inbox) + (k + 1)] BY <2>1 DEF TrafficInv
    <2>3. Read + Len(inbox) + (k + 1) = Read + Len(inbox') + k
      BY <1>3, <1>4 DEF TrafficInv
    <2> QED BY <2>1, <2>2, <2>3
  <1> QED BY <1>2, <1>3, <1>5, <1>6, <1>7 DEF TrafficInv

\* A read takes the next frame of the traffic from the queue.
LEMMA ReadFrameTraffic ==
    ASSUME TrafficInv, ReadFrame
    PROVE  TrafficInv' /\ Read' = Read + 1 /\ frame' = Traffic[Read']
  <1>1. /\ traffic \in Seq(Frame) /\ inbox \in Seq(Frame) /\ inbox # <<>>
        /\ traffic' = traffic /\ inbox' = Tail(inbox) /\ frame' = Head(inbox)
    BY DEF TrafficInv, ReadFrame, Goto
  <1>2. /\ inbox' \in Seq(Frame) /\ Len(inbox') = Len(inbox) - 1
        /\ \A k \in 1..Len(inbox') : inbox'[k] = inbox[k + 1]
        /\ Head(inbox) = inbox[1]
    BY <1>1, HeadTailProperties
  <1>3. /\ Len(Traffic) \in Nat /\ Len(traffic) \in Nat /\ Len(inbox) \in Nat
        /\ Len(inbox) > 0
    BY <1>1, DriverAssumption, EmptySeq, LenProperties
  <1>4. Read' = Read + 1 BY <1>1, <1>2, <1>3 DEF Read
  <1>5. frame' = Traffic[Read'] BY <1>1, <1>2, <1>3, <1>4 DEF TrafficInv
  <1>6. \A k \in 1..Len(inbox') : inbox'[k] = Traffic[Read' + k]
    <2> SUFFICES ASSUME NEW k \in 1..Len(inbox')
                 PROVE  inbox'[k] = Traffic[Read' + k]
      OBVIOUS
    <2>1. inbox'[k] = inbox[k + 1] /\ k + 1 \in 1..Len(inbox) BY <1>2, <1>3
    <2>2. inbox[k + 1] = Traffic[Read + (k + 1)] BY <2>1 DEF TrafficInv
    <2>3. Read + (k + 1) = Read' + k BY <1>4 DEF TrafficInv
    <2> QED BY <2>1, <2>2, <2>3
  <1>7. \A k \in 1..Len(traffic') : traffic'[k] = Traffic[Read' + Len(inbox') + k]
    <2>1. Read' + Len(inbox') = Read + Len(inbox) BY <1>2, <1>3, <1>4 DEF TrafficInv
    <2> QED BY <1>1, <2>1 DEF TrafficInv
  <1> QED BY <1>1, <1>2, <1>4, <1>5, <1>6, <1>7 DEF TrafficInv

\* Everything else leaves the traffic where it is.
LEMMA OthersTraffic ==
    ASSUME TrafficInv, traffic' = traffic, inbox' = inbox
    PROVE  TrafficInv' /\ Read' = Read
  BY DEF TrafficInv, Read

\* Steps that touch neither the stack nor what is in hand.
LEMMA AsideReply ==
    ASSUME ReplyInv, Read' = Read, UNCHANGED <<stack_vars, frame, reply, written>>,
           InHand' => pc' = pc
    PROVE  ReplyInv'
  <1>1. UNCHANGED Core!vars BY DEF stack_vars, Core!vars
  <1>2. Core!IInv' BY <1>1, CoreAssumptions, Core!IInvNext DEF ReplyInv
  <1> QED BY <1>2 DEF ReplyInv, InHand, stack_vars

\* The answer the stack leaves in the buffer is one to the frame in hand.
LEMMA HandleReply ==
    ASSUME TrafficInv, ReplyInv, Handle
    PROVE  ReplyInv'
  <1>1. frame \in Frame BY InHandIsFrame DEF Handle, InHand
  <1>2. Core!HandleFrame(frame, GCS_STACK_FRAME_CAP) BY CoreStep DEF Handle
  <1>3. Core!IInv'
    BY <1>1, <1>2, CoreAssumptions, CoreFrames, Core!HandleStep DEF ReplyInv
  <1>4. tx' = NoReply \/ Stack!AnswerTo(frame, tx')
    BY <1>1, <1>2, CoreAssumptions, CoreFrames, CoreAnswer, Core!AnswersTheFrame
  <1>5. tx' \in Frame \cup {NoReply}
    BY <1>3, CoreFrames DEF Core!IInv, Core!AnswerOK
  <1>6. pc' = "write" => tx' # NoReply
    BY DEF Handle, Goto, Answered, NoReply
  <1>7. Read' = Read BY DEF Handle, Goto, Read
  <1>8. written' = written /\ frame' = frame /\ reply' = tx' /\ InHand
    BY DEF Handle, InHand
  <1> QED BY <1>3, <1>4, <1>5, <1>6, <1>7, <1>8 DEF ReplyInv

\* What is written is a frame, and nothing is in hand afterwards.
LEMMA WriteReplyReply ==
    ASSUME ReplyInv, WriteReply
    PROVE  ReplyInv'
  <1>1. UNCHANGED Core!vars BY DEF WriteReply, stack_vars, Core!vars
  <1>2. Core!IInv' BY <1>1, CoreAssumptions, Core!IInvNext DEF ReplyInv
  <1>3. written' \in Seq(Frame) BY AppendProperties DEF ReplyInv, WriteReply
  <1> QED BY <1>2, <1>3 DEF ReplyInv, InHand, WriteReply, Goto

\* Every step preserves the two.
LEMMA DeliveryNext ==
    ASSUME TrafficInv, ReplyInv, [Next]_vars
    PROVE  TrafficInv' /\ ReplyInv'
  <1> USE DEF stack_vars, kernel_vars, start_vars, started_vars, Goto
  <1>1. CASE KernelSends
    BY <1>1, KernelSendsTraffic, AsideReply DEF KernelSends
  <1>2. CASE OnSignal
    BY <1>2, OthersTraffic, AsideReply DEF OnSignal, InHand
  <1>3. CASE Killed
    BY <1>3, OthersTraffic, AsideReply DEF Killed, InHand
  <1>4. CASE Start
    BY <1>4, OthersTraffic, AsideReply
    DEF Start, OpenDevice, Attach, ReportFailure, InstallHandlers, InHand
  <1>5. CASE CheckRunning \/ FallAsleep \/ ReadInterrupted \/ ReadFails \/ Close
    BY <1>5, OthersTraffic, AsideReply
    DEF CheckRunning, FallAsleep, ReadInterrupted, ReadFails, Close, InHand
  <1>6. CASE ReadFrame
    <2>1. TrafficInv' /\ Read' = Read + 1 /\ frame' = Traffic[Read']
      BY <1>6, ReadFrameTraffic
    <2>2. Core!IInv'
      BY <1>6, CoreAssumptions, Core!IInvNext DEF ReplyInv, ReadFrame, Core!vars
    <2>3. Read' > 0 BY <2>1 DEF TrafficInv
    <2>4. written' = written /\ pc' = "handle" BY <1>6 DEF ReadFrame
    <2>5. ReplyInv' BY <2>1, <2>2, <2>3, <2>4 DEF ReplyInv, InHand
    <2> QED BY <2>1, <2>5
  <1>7. CASE Handle
    BY <1>7, OthersTraffic, HandleReply DEF Handle
  <1>8. CASE WriteReply
    BY <1>8, OthersTraffic, WriteReplyReply DEF WriteReply
  <1>9. CASE UNCHANGED vars
    BY <1>9, OthersTraffic, AsideReply DEF vars
  <1> QED BY <1>1, <1>2, <1>3, <1>4, <1>5, <1>6, <1>7, <1>8, <1>9 DEF Next, Loop

\* The two invariants hold in every reachable state.
LEMMA DeliveryInvariance == Spec => [](TrafficInv /\ ReplyInv)
  BY DeliveryInit, DeliveryNext, PTL DEF Spec
-----------------------------------------------------------------------------
(***************************************************************************)
(* The refinement of Responder.                                            *)
(***************************************************************************)
\* A prefix of the traffic consists of frames and ends with the frame at its end.
LEMMA TrafficPrefix ==
    ASSUME NEW n \in 0..Len(Traffic)
    PROVE  /\ SubSeq(Traffic, 1, n) \in Seq(Frame) /\ Len(SubSeq(Traffic, 1, n)) = n
           /\ n > 0 => SubSeq(Traffic, 1, n)[n] = Traffic[n]
  <1>1. n \in Nat /\ n <= Len(Traffic) /\ Len(Traffic) \in Nat
    BY DriverAssumption, LenProperties
  <1>2. \A k \in 1..n : Traffic[k] \in Frame BY <1>1, DriverAssumption
  <1> QED BY <1>1, <1>2, SubSeqProperties

\* What has been read is such a prefix, and ends with the frame in hand.
LEMMA FramesReadPrefix ==
    ASSUME TrafficInv
    PROVE  /\ FramesRead = SubSeq(Traffic, 1, Read) /\ FramesRead \in Seq(Frame)
           /\ Len(FramesRead) = Read
           /\ Read > 0 => FramesRead[Read] = Traffic[Read]
  <1>1. Read \in 0..Len(Traffic) BY DriverAssumption DEF TrafficInv, Read
  <1>2. FramesRead = SubSeq(Traffic, 1, Read) BY DEF FramesRead, Read
  <1> QED BY <1>1, <1>2, TrafficPrefix

\* A read appends to it.
LEMMA FramesReadGrows ==
    ASSUME TrafficInv, TrafficInv', Read' = Read + 1
    PROVE  /\ FramesRead' # <<>>
           /\ FramesRead' = Append(FramesRead, FramesRead'[Len(FramesRead')])
  <1>1. /\ Read \in Nat /\ Read' \in 1..Len(Traffic) /\ Len(Traffic) \in Nat
        /\ Read' - 1 = Read
    BY DriverAssumption DEF TrafficInv, Read
  <1>2. /\ FramesRead = SubSeq(Traffic, 1, Read) /\ FramesRead \in Seq(Frame)
        /\ FramesRead' = SubSeq(Traffic, 1, Read') /\ Len(FramesRead') = Read'
        /\ FramesRead'[Read'] = Traffic[Read']
    <2>1. FramesRead' = SubSeq(Traffic, 1, Read') BY DEF FramesRead, Read
    <2>2. Read' \in 0..Len(Traffic) /\ Read' > 0 BY <1>1
    <2> QED BY <2>1, <2>2, FramesReadPrefix, TrafficPrefix
  <1>3. Traffic[Read'] \in Frame BY <1>1, DriverAssumption
  <1> DEFINE r == Read
             q == Read'
  <1> HIDE DEF r, q
  <1>4. SubSeq(Traffic, 1, q) = SubSeq(Traffic, 1, r) \o <<Traffic[q]>>
    BY <1>1, DriverAssumption, SubSeqRecursiveSecond DEF r, q
  <1>5. FramesRead' = Append(FramesRead, Traffic[Read'])
    BY <1>2, <1>3, <1>4, AppendIsConcat DEF r, q
  <1> QED BY <1>1, <1>2, <1>5

\* A write delivers an answer to the frame read last.
LEMMA WriteDelivers ==
    ASSUME TrafficInv, ReplyInv, WriteReply
    PROVE  Responses!Deliver \/ Responses!GiveUp
  <1>1. InHand /\ ~InHand' /\ FramesRead' = FramesRead
    BY DEF WriteReply, Goto, InHand, FramesRead
  <1>2. CASE written' = written
    BY <1>1, <1>2 DEF Responses!GiveUp, InHand
  <1>3. CASE written' = Append(written, reply)
    <2>1. written \in Seq(Frame) /\ reply \in Frame /\ Stack!AnswerTo(frame, reply)
      BY DEF ReplyInv, WriteReply
    <2>2. /\ written' # <<>> /\ Len(written') = Len(written) + 1
          /\ written'[Len(written')] = reply
      BY <1>3, <2>1, AppendProperties
    <2>3. FramesRead[Len(FramesRead)] = frame
      BY <1>1, FramesReadPrefix DEF ReplyInv
    <2> QED BY <1>1, <1>3, <2>1, <2>2, <2>3 DEF Responses!Deliver, InHand
  <1> QED BY <1>2, <1>3 DEF WriteReply

\* gcs_tapd.c hands the kernel at most one answer to each frame, to the frame it read
\* last, in any interleaving with the kernel and the signals.
THEOREM Responds == Spec => AnswersOnce
  <1>1. Init => Responses!Init
    <2> SUFFICES ASSUME Init PROVE Responses!Init OBVIOUS
    <2>1. Read = 0
      <3>1. traffic = Traffic /\ inbox = <<>> BY DEF Init
      <3>2. Len(Traffic) \in Nat /\ Len(inbox) = 0 /\ Len(traffic) = Len(Traffic)
        BY <3>1, DriverAssumption, LenProperties
      <3> QED BY <3>2 DEF Read
    <2>2. TrafficInv BY DeliveryInit
    <2>3. FramesRead = <<>> BY <2>1, <2>2, FramesReadPrefix, EmptySeq
    <2> QED BY <2>3 DEF Init, Responses!Init
  <1>2. ASSUME TrafficInv, ReplyInv, TrafficInv', [Next]_vars
        PROVE  [Responses!Next]_Responses!vars
    <2> USE DEF Responses!Next, Responses!vars, InHand
    <2>1. CASE ReadFrame
      <3>1. Read' = Read + 1 BY <1>2, <2>1, ReadFrameTraffic
      <3>2. /\ FramesRead' # <<>>
            /\ FramesRead' = Append(FramesRead, FramesRead'[Len(FramesRead')])
        BY <1>2, <3>1, FramesReadGrows
      <3> QED BY <2>1, <3>2 DEF ReadFrame, Goto, Responses!Take
    <2>2. CASE WriteReply BY <1>2, <2>2, WriteDelivers
    <2>3. ASSUME FramesRead' = FramesRead, written' = written,
                 ~InHand' \/ InHand
          PROVE  [Responses!Next]_Responses!vars
      BY <2>3 DEF Responses!GiveUp
    <2>4. CASE KernelSends
      <3>1. Read' = Read BY <1>2, <2>4, KernelSendsTraffic
      <3>2. FramesRead' = FramesRead BY <3>1 DEF FramesRead, Read
      <3> QED BY <2>3, <2>4, <3>2 DEF KernelSends, kernel_vars
    <2>5. CASE OnSignal \/ Killed \/ Start \/ UNCHANGED vars
      BY <2>3, <2>5
      DEF OnSignal, Killed, Start, OpenDevice, Attach, ReportFailure, InstallHandlers,
          FramesRead, vars, kernel_vars
    <2>6. CASE CheckRunning \/ FallAsleep \/ ReadInterrupted \/ ReadFails \/ Close
               \/ Handle
      BY <2>3, <2>6
      DEF CheckRunning, FallAsleep, ReadInterrupted, ReadFails, Close, Handle, Goto,
          FramesRead
    <2> QED BY <1>2, <2>1, <2>2, <2>4, <2>5, <2>6 DEF Next, Loop
  <1> QED BY <1>1, <1>2, DeliveryInvariance, PTL DEF Spec, AnswersOnce, Responses!Spec
-----------------------------------------------------------------------------
(***************************************************************************)
(* The identifications, as long as the 16-bit counter has not come round.  *)
(* The answers in the kernel bear numbers below the counter; one that      *)
(* waits to be written bears a number above theirs.                        *)
(***************************************************************************)
IpSent(s) == {k \in 1..Len(s) : s[k].ethertype = "IPv4"}

IpWaits == pc = "write" /\ reply.ethertype = "IPv4"

NumberInv ==
    /\ ip_id \in 1..(Read + 1) /\ (pc = "handle" => ip_id <= Read)
    /\ failed_writes \in Nat
    /\ \A k \in IpSent(written) : written[k].ip.id \in 0..(ip_id - 1)
    /\ \A j, k \in IpSent(written) : j < k => written[j].ip.id < written[k].ip.id
    /\ IpWaits => /\ reply.ip.id \in 0..(ip_id - 1)
                  /\ \A k \in IpSent(written) : written[k].ip.id < reply.ip.id
    /\ failed_writes = 0 /\ pc # "killed" =>
         Cardinality(IpSent(written)) = IF IpWaits THEN ip_id - 2 ELSE ip_id - 1

\* The IPv4 answers of t, which are those of s and f if it is one.
IpGrows(s, f, t) ==
    /\ Len(s) \in Nat /\ t[Len(s) + 1] = f
    /\ \A k \in IpSent(s) : k \in 1..Len(s) /\ t[k] = s[k]
    /\ IpSent(t) = IF f.ethertype = "IPv4" THEN IpSent(s) \cup {Len(s) + 1}
                   ELSE IpSent(s)
    /\ Cardinality(IpSent(s)) \in Nat
    /\ Cardinality(IpSent(t)) = IF f.ethertype = "IPv4"
                                THEN Cardinality(IpSent(s)) + 1
                                ELSE Cardinality(IpSent(s))

\* Writing an answer adds it to the IPv4 answers sent, if it is one.
LEMMA IpSentNext ==
    ASSUME NEW s \in Seq(Frame), NEW f \in Frame, NEW t, t = Append(s, f)
    PROVE  IpGrows(s, f, t)
  <1> DEFINE n == Len(s)
  <1>1. /\ n \in Nat /\ Len(t) = n + 1 /\ t[n + 1] = f
        /\ \A k \in 1..n : t[k] = s[k]
    BY LenProperties, AppendProperties
  <1>2. 1..(n + 1) = 1..n \cup {n + 1} /\ n + 1 \notin 1..n BY <1>1
  <1>3. IpSent(s) \in SUBSET (1..n) BY DEF IpSent
  <1>4. IsFiniteSet(1..n) BY <1>1, FS_Interval
  <1>5. IsFiniteSet(IpSent(s)) /\ Cardinality(IpSent(s)) \in Nat
    BY <1>3, <1>4, FS_Subset, FS_CardinalityType
  <1>6. IpSent(t) = IF f.ethertype = "IPv4" THEN IpSent(s) \cup {n + 1} ELSE IpSent(s)
    BY <1>1, <1>2 DEF IpSent
  <1>7. n + 1 \notin IpSent(s) BY <1>2, <1>3
  <1>8. Cardinality(IpSent(s) \cup {n + 1}) = Cardinality(IpSent(s)) + 1
    BY <1>5, <1>7, FS_AddElement
  <1> QED BY <1>1, <1>3, <1>5, <1>6, <1>8 DEF IpGrows

\* Handling gives an IPv4 answer the number of the counter, and advances it.
LEMMA NumberHandle ==
    ASSUME Len(Traffic) + 1 < IdMod, TrafficInv, ReplyInv, NumberInv, Handle
    PROVE  NumberInv'
  <1>1. frame \in Frame /\ Core!HandleFrame(frame, GCS_STACK_FRAME_CAP)
    BY InHandIsFrame, CoreStep DEF Handle, InHand
  <1>2. \/ tx' = NoReply /\ ip_id' = ip_id
        \/ /\ Answered(tx')
           /\ \/ tx'.ethertype = "ARP" /\ ip_id' = ip_id
              \/ /\ tx'.ethertype = "IPv4" /\ tx'.ip.id = ip_id
                 /\ ip_id' = (ip_id + 1) % IdMod
    BY <1>1, CoreAssumptions, CoreFrames, CoreAnswer, Core!AnswersTheFrame DEF Core!NextId
  <1>3. /\ pc = "handle" /\ reply' = tx' /\ Read' = Read
        /\ UNCHANGED <<written, failed_writes>>
        /\ pc' = (IF Answered(tx') THEN "write" ELSE "check")
    BY DEF Handle, Goto, Read
  <1>4. ~Answered(NoReply) BY DEF Answered, NoReply
  <1>5. ip_id \in 1..Read /\ Read \in Nat /\ Read <= Len(Traffic) /\ Len(Traffic) \in Nat
    BY <1>3, DriverAssumption, LenProperties DEF NumberInv, TrafficInv, Read
  <1>6. (ip_id + 1) % IdMod = ip_id + 1 BY <1>5, FramesAssumption
  <1>7. ~IpWaits BY <1>3 DEF IpWaits
  <1>8. CASE ip_id' = ip_id /\ ~IpWaits'
    BY <1>3, <1>5, <1>7, <1>8 DEF NumberInv
  <1>9. CASE /\ IpWaits' /\ tx'.ethertype = "IPv4"
             /\ tx'.ip.id = ip_id /\ ip_id' = (ip_id + 1) % IdMod
    <2>1. ip_id' = ip_id + 1 /\ reply'.ip.id = ip_id BY <1>3, <1>6, <1>9
    <2>2. \A k \in IpSent(written) :
            /\ written[k].ip.id \in 0..(ip_id - 1) /\ written[k].ip.id \in 0..(ip_id' - 1)
            /\ written[k].ip.id < ip_id
      BY <1>5, <2>1 DEF NumberInv
    <2>3. failed_writes = 0 => Cardinality(IpSent(written)) = ip_id' - 2
      BY <1>3, <1>5, <1>7, <2>1 DEF NumberInv
    <2> QED BY <1>3, <1>5, <1>9, <2>1, <2>2, <2>3 DEF NumberInv
  <1> QED BY <1>2, <1>3, <1>4, <1>8, <1>9 DEF IpWaits

\* Writing it, or losing it, leaves the numbers in order.
LEMMA NumberWrite ==
    ASSUME TrafficInv, ReplyInv, NumberInv, WriteReply
    PROVE  NumberInv'
  <1>1. /\ written \in Seq(Frame) /\ reply \in Frame /\ pc = "write" /\ pc' = "check"
        /\ ip_id' = ip_id /\ Read' = Read /\ ~IpWaits' /\ Read \in Nat
        /\ ip_id \in 1..(Read + 1) /\ failed_writes \in Nat
    BY DEF ReplyInv, NumberInv, TrafficInv, WriteReply, Goto, stack_vars, Read, IpWaits
  <1>2. IpWaits <=> reply.ethertype = "IPv4" BY <1>1 DEF IpWaits
  <1>3. CASE written' = written /\ failed_writes' = failed_writes + 1
    BY <1>1, <1>3 DEF NumberInv
  <1>4. CASE written' = Append(written, reply) /\ failed_writes' = failed_writes
    <2> DEFINE n == Len(written)
    <2>1. /\ n \in Nat /\ written'[n + 1] = reply
          /\ \A k \in IpSent(written) : k \in 1..n /\ written'[k] = written[k]
          /\ IpSent(written') = IF IpWaits THEN IpSent(written) \cup {n + 1}
                                ELSE IpSent(written)
          /\ Cardinality(IpSent(written)) \in Nat
          /\ Cardinality(IpSent(written')) = IF IpWaits THEN Cardinality(IpSent(written)) + 1
                                             ELSE Cardinality(IpSent(written))
      <3>1. IpGrows(written, reply, written') BY <1>1, <1>4, IpSentNext, Zenon
      <3> QED BY <1>2, <3>1 DEF IpGrows
    <2> HIDE DEF n
    <2>2. \A k \in IpSent(written') : written'[k].ip.id \in 0..(ip_id' - 1)
      BY <1>1, <2>1 DEF NumberInv
    <2>3. ASSUME NEW j \in IpSent(written'), NEW k \in IpSent(written'), j < k
          PROVE  written'[j].ip.id < written'[k].ip.id
      <3>1. j \in IpSent(written) /\ k \in IpSent(written) => written[j].ip.id < written[k].ip.id
        BY <2>3 DEF NumberInv
      <3>2. j \in IpSent(written) /\ k = n + 1 /\ IpWaits => written[j].ip.id < reply.ip.id
        BY DEF NumberInv
      <3>3. ~(j = n + 1 /\ (k = n + 1 \/ k \in IpSent(written))) BY <2>1, <2>3
      <3> QED BY <2>1, <3>1, <3>2, <3>3
    <2>4. failed_writes' = 0 => Cardinality(IpSent(written')) = ip_id' - 1
      BY <1>1, <1>4, <2>1 DEF NumberInv
    <2> QED BY <1>1, <1>4, <2>2, <2>3, <2>4 DEF NumberInv
  <1> QED BY <1>1, <1>3, <1>4 DEF WriteReply

\* Steps that leave stack, answers and writes alone.
LEMMA NumberAside ==
    ASSUME TrafficInv, NumberInv, Read' \in {Read, Read + 1},
           UNCHANGED <<ip_id, reply, written, failed_writes>>,
           pc' # "write" \/ pc = "write", pc = "write" => pc' \in {"write", "killed"},
           pc = "killed" => pc' = "killed",
           pc' = "handle" => pc = "handle" \/ Read' = Read + 1
    PROVE  NumberInv'
  <1>1. Read \in Nat BY DEF TrafficInv
  <1>2. IpWaits' => IpWaits BY DEF IpWaits
  <1>3. IpWaits /\ pc' # "killed" => IpWaits' BY DEF IpWaits
  <1>4. ip_id' \in 1..(Read' + 1) /\ (pc' = "handle" => ip_id' <= Read')
    BY <1>1 DEF NumberInv
  <1>5. /\ failed_writes' \in Nat
        /\ \A k \in IpSent(written') : written'[k].ip.id \in 0..(ip_id' - 1)
        /\ \A j, k \in IpSent(written') : j < k => written'[j].ip.id < written'[k].ip.id
        /\ IpWaits' => /\ reply'.ip.id \in 0..(ip_id' - 1)
                       /\ \A k \in IpSent(written') : written'[k].ip.id < reply'.ip.id
    BY <1>2 DEF NumberInv
  <1>6. failed_writes' = 0 /\ pc' # "killed" =>
          Cardinality(IpSent(written')) = IF IpWaits' THEN ip_id' - 2 ELSE ip_id' - 1
    BY <1>2, <1>3 DEF NumberInv
  <1> QED BY <1>4, <1>5, <1>6 DEF NumberInv

\* Every step keeps the numbers in order.
LEMMA NumberNext ==
    ASSUME Len(Traffic) + 1 < IdMod, TrafficInv, ReplyInv, NumberInv, [Next]_vars
    PROVE  NumberInv'
  <1> USE DEF stack_vars, kernel_vars, start_vars, started_vars, Goto
  <1>1. CASE KernelSends
    BY <1>1, KernelSendsTraffic, NumberAside DEF KernelSends
  <1>2. CASE OnSignal
    BY <1>2, OthersTraffic, NumberAside DEF OnSignal, Over
  <1>3. CASE Killed
    BY <1>3, OthersTraffic, NumberAside DEF Killed
  <1>4. CASE Start
    BY <1>4, OthersTraffic, NumberAside
    DEF Start, OpenDevice, Attach, ReportFailure, InstallHandlers
  <1>5. CASE CheckRunning \/ FallAsleep \/ ReadInterrupted \/ ReadFails \/ Close
    BY <1>5, OthersTraffic, NumberAside
    DEF CheckRunning, FallAsleep, ReadInterrupted, ReadFails, Close
  <1>6. CASE ReadFrame
    BY <1>6, ReadFrameTraffic, NumberAside DEF ReadFrame
  <1>7. CASE Handle BY <1>7, NumberHandle
  <1>8. CASE WriteReply BY <1>8, NumberWrite
  <1>9. CASE UNCHANGED vars
    BY <1>9, OthersTraffic, NumberAside DEF vars
  <1> QED BY <1>1, <1>2, <1>3, <1>4, <1>5, <1>6, <1>7, <1>8, <1>9 DEF Next, Loop

\* On traffic shorter than the range of the 16-bit counter, the IPv4 answers reach the
\* kernel in the order of their numbers, and without a gap if no write has failed.
THEOREM NumbersDelivered ==
    ASSUME Len(Traffic) + 1 < IdMod
    PROVE  Spec => []IdsDelivered
  <1>1. Init => NumberInv
    <2> SUFFICES ASSUME Init PROVE NumberInv OBVIOUS
    <2>1. /\ written = <<>> /\ Len(written) = 0 /\ pc = "open" /\ ip_id = 1
          /\ failed_writes = 0
      BY EmptySeq DEF Init, Stack!Init
    <2>2. IpSent(written) = {} BY <2>1 DEF IpSent
    <2>3. Read \in Nat BY DeliveryInit DEF TrafficInv
    <2> QED BY <2>1, <2>2, <2>3, FS_EmptySet DEF NumberInv, IpWaits
  <1>2. ASSUME NumberInv PROVE IdsDelivered
    <2>1. ~(pc \in {"write"}) => ~IpWaits BY DEF IpWaits
    <2> QED BY <1>2, <2>1 DEF NumberInv, IdsDelivered, IpSent
  <1>3. TrafficInv /\ ReplyInv /\ NumberInv /\ [Next]_vars => NumberInv' BY NumberNext
  <1> QED BY <1>1, <1>2, <1>3, DeliveryInvariance, PTL DEF Spec
================================================================================
