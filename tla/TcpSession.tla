------------------------------ MODULE TcpSession ------------------------------
(***************************************************************************)
(* One session over the stack: a client that opens, sends its chunks,      *)
(* collects the echo and closes, as tools/gcs_make_sample.py records one   *)
(* and a kernel on the other side of the TAP interface conducts one; the   *)
(* link in between, which may lose, double and swap frames; and GcsStack,  *)
(* which handles what arrives.  The client is a TCP of RFC 793: it takes   *)
(* segments in order only, acknowledges what it takes, sends again what    *)
(* nobody acknowledged and refuses what it cannot place with a RST.  It    *)
(* may crash and start anew, with its old frames still on their way, and   *)
(* it may dial a port nobody listens on.                                   *)
(***************************************************************************)
EXTENDS GcsSample, SequencesExt

CONSTANTS
    ListenPort, Iss, BytesMod,      \* the stack's, see GcsStack
    PeerPort, PeerIsses,    \* the client's port and initial sequence numbers
    DialledPorts,           \* the ports it may dial
    Chunks,                 \* the payloads it sends
    Links                   \* what the link and the client may do, see Link

\* The segments a client leaves unacknowledged, and how often a frame is lost, one that
\* carries no data to the stack doubled, data sent again though it is not lost, a frame
\* overtaken by the next one and the client restarted: bounds of the model.
Link == [window: Nat \ {0}, lost_requests: Nat, lost_replies: Nat, doubled: Nat,
         repeated: Nat, swapped: Nat, restarts: Nat]

VARIABLES conn, ip_id, rx, tx       \* the stack
VARIABLES
    client,                 \* the client's state and sequence numbers
    requests, replies,      \* frames on their way to the stack and back
    link, faults            \* the link's bounds, and what has happened of them

Stack == INSTANCE GcsStack
           WITH Mac <- STACK_MAC, Ip <- STACK_IP,
                Frames <- {}, OutCaps <- {GCS_STACK_FRAME_CAP}

stack_vars == <<conn, ip_id, rx, tx>>
queues == <<requests, replies>>
vars == <<stack_vars, client, queues, link, faults>>

\* "sent" counts the chunks sent, FIN included; "got" is the echo so far.
NewClient(iss, port) ==
    [state |-> "CLOSED", iss |-> iss, port |-> port, snd_una |-> iss, snd_nxt |-> iss,
     rcv_nxt |-> 0, sent |-> 0, got |-> <<>>]

Init ==
    /\ Stack!Init
    /\ \E iss \in PeerIsses, port \in DialledPorts : client = NewClient(iss, port)
    /\ requests = <<>> /\ replies = <<>>
    /\ link \in Links
    /\ faults = [lost_requests |-> 0, lost_replies |-> 0, doubled |-> 0,
                 repeated |-> 0, swapped |-> 0, restarts |-> 0]
-----------------------------------------------------------------------------
(***************************************************************************)
(* The client's segments: the SYN, the chunks, the FIN, its ACKs and RSTs.  *)
(***************************************************************************)
ClientFrame(c, seq, ack, flags, data) == tcp(PeerPort, c.port, seq, ack, flags, data)

SynFrame(c) == ClientFrame(c, c.iss, 0, {"SYN"}, NoData)
AckFrame(c) == ClientFrame(c, c.snd_nxt, c.rcv_nxt, {"ACK"}, NoData)
ChunkFrame(c, seq, i) == ClientFrame(c, seq, c.rcv_nxt, {"PSH", "ACK"}, Chunks[i])
FinFrame(c, seq) == ClientFrame(c, seq, c.rcv_nxt, {"FIN", "ACK"}, NoData)
RstFrame(c, f) == ClientFrame(c, f.tcp.ack, 0, {"RST"}, NoData)

\* Sequence numbers the i-th thing sent takes: a chunk its bytes, the FIN one.
Width(i) == IF i <= Len(Chunks) THEN LenOf[Chunks[i]] ELSE 1

\* And those of the first n things.
Bytes(n) ==
    LET total[k \in Nat] == IF k = 0 THEN 0 ELSE total[k - 1] + Width(k) IN total[n]

\* The numbers the widest thing takes.
Widest == Max({Width(i) : i \in 1..(Len(Chunks) + 1)})

\* The number the i-th thing sent starts at, after the SYN and all before it.
StartOf(c, i) == ToSeq(c.iss + 1 + Bytes(i - 1))

\* A chunk fits a frame, and a session the sequence space, as the client tells what is
\* acknowledged by distances in it.
ASSUME SessionAssumption ==
    /\ Stack!StackAssumption
    /\ Links \subseteq Link
    /\ ListenPort \in DialledPorts
    /\ PeerIsses \subseteq SeqNo
    /\ LenOf[NoData] = 0
    /\ Chunks \in Seq(Data)
    /\ \A i \in 1..Len(Chunks) : LenOf[Chunks[i]] \in 1..(GCS_STACK_FRAME_CAP - 54)
    /\ Bytes(Len(Chunks) + 1) < SeqSpace

\* The i-th thing sent: a chunk, or the FIN after the last of them.
ItemFrame(c, i) ==
    IF i <= Len(Chunks) THEN ChunkFrame(c, StartOf(c, i), i) ELSE FinFrame(c, StartOf(c, i))

\* Whether everything before position seq has been acknowledged.
Acked(c, seq) ==
    ToSeq(c.snd_nxt - c.snd_una) <= ToSeq(c.snd_nxt - seq)

Unacked(c) == {i \in 1..c.sent : ~Acked(c, ToSeq(StartOf(c, i) + Width(i)))}
-----------------------------------------------------------------------------
(***************************************************************************)
(* The client sends.                                                       *)
(***************************************************************************)
SendSyn ==
    /\ client.state = "CLOSED"
    /\ client' = [client EXCEPT !.state = "SYN_SENT", !.snd_nxt = ToSeq(client.iss + 1)]
    /\ requests' = Append(requests, SynFrame(client))
    /\ UNCHANGED <<stack_vars, replies, link, faults>>

SendItem ==
    LET i == client.sent + 1
    IN  /\ client.state = "ESTABLISHED" /\ i <= Len(Chunks) + 1
        /\ \A j \in Unacked(client) : i - j < link.window
        /\ client' = [client EXCEPT !.sent = i,
                                    !.snd_nxt = ToSeq(@ + Width(i)),
                                    !.state = IF i > Len(Chunks) THEN "FIN_SENT" ELSE @]
        /\ requests' = Append(requests, ItemFrame(client, i))
        /\ UNCHANGED <<stack_vars, replies, link, faults>>

\* The retransmission timer, longer than a round trip: it runs out when nothing is on
\* its way, and sends the oldest thing not acknowledged.
Retransmit ==
    /\ requests = <<>> /\ replies = <<>>
    /\ \/ /\ client.state = "SYN_SENT"
          /\ requests' = <<SynFrame(client)>>
       \/ /\ client.state \in {"ESTABLISHED", "FIN_SENT"} /\ Unacked(client) # {}
          /\ requests' = <<ItemFrame(client, Min(Unacked(client)))>>
    /\ UNCHANGED <<stack_vars, client, replies, link, faults>>
-----------------------------------------------------------------------------
(***************************************************************************)
(* The client receives.                                                    *)
(***************************************************************************)
\* The acknowledgement field, if it acknowledges something outstanding.
NewUna(c, ack) ==
    IF ToSeq(ack - c.snd_una) <= ToSeq(c.snd_nxt - c.snd_una) THEN ack ELSE c.snd_una

ReceiveSynAck(f) ==
    /\ client.state = "SYN_SENT"
    /\ {"SYN", "ACK"} \subseteq f.tcp.flags /\ f.tcp.ack = client.snd_nxt
    /\ client' = [client EXCEPT !.state = "ESTABLISHED", !.snd_una = f.tcp.ack,
                                !.rcv_nxt = ToSeq(f.tcp.seq + 1)]
    /\ requests' = Append(requests, AckFrame(client'))

\* A RST that acknowledges the SYN is the answer of a closed port.
ReceiveRefusal(f) ==
    /\ client.state = "SYN_SENT"
    /\ {"RST", "ACK"} \subseteq f.tcp.flags /\ f.tcp.ack = client.snd_nxt
    /\ client' = [client EXCEPT !.state = "REFUSED"]
    /\ UNCHANGED requests

\* A segment for no connection of the client's, meant for an earlier one: a RST
\* tells its sender, unless it is a RST itself.
ReceiveStray(f) ==
    /\ \/ client.state \in {"CLOSED", "REFUSED"}
       \/ client.state = "SYN_SENT" /\ f.tcp.ack # client.snd_nxt
    /\ requests' = IF "RST" \in f.tcp.flags THEN requests
                   ELSE Append(requests, RstFrame(client, f))
    /\ UNCHANGED client

\* A segment in order is taken; one out of order is acknowledged all the same,
\* which tells the sender what the client still waits for.
ReceiveSegment(f) ==
    LET in_order == f.tcp.seq = client.rcv_nxt
        n == TcpPayloadLen(f)
        una == NewUna(client, f.tcp.ack)
    IN  /\ client.state \in {"ESTABLISHED", "FIN_SENT", "DONE"}
        /\ client' =
             IF ~in_order THEN [client EXCEPT !.snd_una = una]
             ELSE IF "FIN" \in f.tcp.flags
             THEN [client EXCEPT !.snd_una = una, !.state = "DONE",
                                 !.rcv_nxt = ToSeq(@ + 1)]
             ELSE [client EXCEPT !.snd_una = una, !.rcv_nxt = ToSeq(@ + n),
                                 !.got = Append(@, f.tcp.data)]
        /\ requests' = Append(requests, AckFrame(client'))

ClientReceives ==
    /\ replies # <<>>
    /\ replies' = Tail(replies)
    /\ LET f == Head(replies)
       IN  ReceiveSynAck(f) \/ ReceiveRefusal(f) \/ ReceiveStray(f) \/ ReceiveSegment(f)
    /\ UNCHANGED <<stack_vars, link, faults>>
-----------------------------------------------------------------------------
(***************************************************************************)
(* The stack, and what goes wrong around it.                               *)
(***************************************************************************)
StackReceives ==
    /\ requests # <<>>
    /\ requests' = Tail(requests)
    /\ Stack!HandleFrame(Head(requests), GCS_STACK_FRAME_CAP)
    /\ replies' = IF Answered(tx') THEN Append(replies, tx') ELSE replies
    /\ UNCHANGED <<client, link, faults>>

Happens(fault) ==
    /\ faults[fault] < link[fault]
    /\ faults' = [faults EXCEPT ![fault] = @ + 1]
    /\ UNCHANGED <<stack_vars, link>>

LoseRequest ==
    /\ requests # <<>> /\ requests' = Tail(requests)
    /\ Happens("lost_requests") /\ UNCHANGED <<client, replies>>

LoseReply ==
    /\ replies # <<>> /\ replies' = Tail(replies)
    /\ Happens("lost_replies") /\ UNCHANGED <<client, requests>>

\* Data reaches the stack twice, doubled on its way or sent again by a timer that runs
\* out before the answer comes.
DoubleRequest ==
    /\ requests # <<>> /\ requests' = <<Head(requests)>> \o requests
    /\ Happens(IF TcpPayloadLen(Head(requests)) = 0 THEN "doubled" ELSE "repeated")
    /\ UNCHANGED <<client, replies>>

RetransmitEarly ==
    /\ requests # <<>> \/ replies # <<>>
    /\ client.state \in {"ESTABLISHED", "FIN_SENT"} /\ Unacked(client) # {}
    /\ requests' = Append(requests, ItemFrame(client, Min(Unacked(client))))
    /\ Happens("repeated") /\ UNCHANGED <<client, replies>>

DoubleReply ==
    /\ replies # <<>> /\ replies' = <<Head(replies)>> \o replies
    /\ Happens("doubled") /\ UNCHANGED <<client, requests>>

SwapRequests ==
    /\ Len(requests) > 1
    /\ requests' = <<requests[2], requests[1]>> \o SubSeq(requests, 3, Len(requests))
    /\ Happens("swapped") /\ UNCHANGED <<client, replies>>

\* The client's host crashes and dials again, with another initial number.
Restart ==
    /\ client.state # "CLOSED"
    /\ \E iss \in PeerIsses \ {client.iss} : client' = NewClient(iss, client.port)
    /\ Happens("restarts") /\ UNCHANGED queues

\* The client has nothing left to send, and nothing is on its way.
Finished ==
    /\ client.state \in {"FIN_SENT", "DONE", "REFUSED"} /\ Unacked(client) = {}
    /\ requests = <<>> /\ replies = <<>>
    /\ UNCHANGED vars

Next ==
    \/ SendSyn \/ SendItem \/ Retransmit
    \/ ClientReceives \/ StackReceives
    \/ LoseRequest \/ LoseReply \/ DoubleRequest \/ DoubleReply \/ SwapRequests
    \/ RetransmitEarly \/ Restart
    \/ Finished

\* The driver's loop reads every frame that waits, a kernel processes what it is
\* sent and its timers run out; faults are not owed to anybody.
Fairness ==
    /\ WF_vars(SendSyn) /\ WF_vars(SendItem) /\ WF_vars(Retransmit)
    /\ WF_vars(ClientReceives) /\ WF_vars(StackReceives)

Spec == Init /\ [][Next]_vars /\ Fairness
-----------------------------------------------------------------------------
(***************************************************************************)
(* Properties.                                                             *)
(***************************************************************************)
\* How many chunks have been sent.
DataSent == IF client.sent <= Len(Chunks) THEN client.sent ELSE Len(Chunks)

Without(some) == \A fault \in some : faults[fault] = 0

\* What the client reads back is what it wrote, in order, and nothing twice.
EchoPrefix == IsPrefix(client.got, Chunks)

\* Nothing is promised where data may reach the stack twice although no answer was lost:
\* it is echoed twice, with numbers that follow one another, and the client takes both.
Promised == link.repeated = 0

Service == INSTANCE EchoService
             WITH Payloads <- Data,
                  written <- IF Promised THEN SubSeq(Chunks, 1, DataSent) ELSE <<>>,
                  echoed <- IF Promised THEN client.got ELSE <<>>,
                  closed <- Promised /\ client.state = "DONE"

\* The stack echoes a stream: what comes back is what this client wrote, and its FIN is
\* answered by that of the stack only after all of it has come back, if no data is doubled
\* or sent too early, and the client has one segment on its way or the link loses and
\* swaps none.
ImplementsEcho == Service!Spec

\* The stack acknowledges no byte to the client that it has not taken: what is
\* acknowledged is not sent again, so it would be lost.
AckedWasReceived ==
    \A k \in 0..DataSent :
      (1..k) \cap Unacked(client) = {} => Bytes(k) <= conn.bytes_received

\* The stack looks at no sequence number and takes again what reaches it again. As long
\* as no answer is lost that is once more for each time data was doubled or sent too
\* early, and not at all for what the client repeats because it was lost.
EchoedOnce ==
    Without({"lost_replies", "restarts"}) =>
      conn.bytes_received <= Bytes(DataSent) + Widest * faults.repeated

\* Whenever nothing is on its way and the client has all its acknowledgements, both
\* ends agree on both sequence numbers, and the echo is complete: too long by as many
\* chunks as reached the stack twice at most, but never too short.
InStep ==
    /\ requests = <<>> /\ replies = <<>> /\ Without({"lost_replies", "restarts"})
    /\ client.state \in {"ESTABLISHED", "FIN_SENT", "DONE"} /\ Unacked(client) = {}
    => /\ conn.rcv_nxt = client.snd_nxt
       /\ Stack!NextSeq = client.rcv_nxt
       /\ Len(client.got) \in DataSent..(DataSent + faults.repeated)

\* LAST_ACK takes any ACK for that of the FIN.  It is one only where nothing goes wrong
\* but that requests are lost, with one segment on its way, no frame doubled, overtaken
\* or sent too early and no answer lost: then the client has the stack's FIN.
ClosedMeansFinAcked ==
    /\ conn.state = "CLOSED" /\ link.window = 1
    /\ Without({"lost_replies", "doubled", "repeated", "swapped", "restarts"})
    => client.state = "DONE"

\* However early an ACK that is doubled or overtaken closes the connection, it costs the
\* client none of its data: the stack stops listening to it only after it has sent its
\* FIN, and has taken every byte by then, also those it drops in SYN_RECEIVED at first.
ClosedAfterAll ==
    conn.state \in {"LAST_ACK", "CLOSED"} /\ Without({"restarts"}) =>
      client.sent = Len(Chunks) + 1 /\ Bytes(Len(Chunks)) <= conn.bytes_received

\* Unless an answer is lost, the session comes to its end, and unless the client's last
\* ACK is, so does the connection: CLOSED is final, and LAST_ACK waits for no timer.
Completes ==
    <>(\/ client.state = "DONE" /\ (conn.state = "CLOSED" \/ ~Without({"lost_requests"}))
       \/ client.port # ListenPort
       \/ ~Without({"lost_replies", "restarts"}))

\* A client that dials a port nobody listens on is told so in the end, whatever the link
\* does, and then there is silence: though the stack answers a RST with a RST.
RefusedForGood ==
    client.port # ListenPort
        ~> [](client.state = "REFUSED" /\ requests = <<>> /\ replies = <<>>)

\* README.md: TCP with handshake, data transfer and closing, so that a session ends
\* even when the link loses a frame.
CompletesDespiteLoss == <>(client.state = "DONE")
================================================================================
