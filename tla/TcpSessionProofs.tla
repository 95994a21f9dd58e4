--------------------------- MODULE TcpSessionProofs ---------------------------
(***************************************************************************)
(* Sessions of any chunks and initial numbers over any links: one that     *)
(* loses nothing and keeps the order, for a client with any number of      *)
(* segments on their way; and one that loses and swaps frames, for a       *)
(* client that sends one at a time.  Answers and frames without data may   *)
(* be doubled, and the client may start anew once; data reaches the stack  *)
(* twice only where its answer was lost.  The phases of a session, and     *)
(* what is in which queue and which counter in each of them.               *)
(***************************************************************************)
EXTENDS TcpSession, NumberFacts, SequenceTheorems

-----------------------------------------------------------------------------
(***************************************************************************)
(* Positions in the session: the k-th thing sent is a chunk, or the FIN.   *)
(***************************************************************************)
LastItem == Len(Chunks) + 1

\* The recursive definition of the bytes before a position defines their number.
LEMMA BytesNext ==
    Bytes(0) = 0 /\ \A k \in Nat : Bytes(k + 1) = Bytes(k) + Width(k + 1)
  <1> DEFINE w == [j \in Nat |-> Width(j + 1)]
             F(f) == f = [k \in Nat |-> IF k = 0 THEN 0 ELSE f[k - 1] + Width(k)]
             total == CHOOSE f : F(f)
  <1>1. \E f : F(f)
    <2>1. PICK f : f = [j \in Nat |-> IF j = 0 THEN 0 ELSE f[j - 1] + w[j - 1]]
      <3> HIDE DEF w
      <3> QED BY SumsExist
    <2>2. \A j \in Nat : j # 0 => w[j - 1] = Width(j) OBVIOUS
    <2> HIDE DEF w
    <2>3. F(f) BY <2>1, <2>2
    <2> QED BY <2>3, Zenon
  <1>2. F(total)
    <2> HIDE DEF F
    <2> QED BY <1>1
  <1>3. \A k : Bytes(k) = total[k] BY DEF Bytes
  <1> HIDE DEF total
  <1>4. total[0] = 0 BY <1>2
  <1>5. ASSUME NEW k \in Nat PROVE total[k + 1] = total[k] + Width(k + 1)
    <2>1. k + 1 \in Nat /\ k + 1 # 0 /\ (k + 1) - 1 = k OBVIOUS
    <2> QED BY <1>2, <2>1
  <1> QED BY <1>3, <1>4, <1>5

\* Every thing sent takes at least one number, and no more than a frame holds.
LEMMA WidthRange ==
    /\ LastItem \in Nat /\ LastItem >= 1
    /\ \A k \in 1..LastItem : Width(k) \in Nat /\ Width(k) >= 1
  <1>1. Len(Chunks) \in Nat BY SessionAssumption, LenProperties
  <1>2. \A k \in 1..Len(Chunks) : LenOf[Chunks[k]] \in 1..(GCS_STACK_FRAME_CAP - 54)
    BY SessionAssumption
  <1>3. ASSUME NEW k \in 1..LastItem PROVE Width(k) \in Nat /\ Width(k) >= 1
    <2>1. CASE k <= Len(Chunks)
      <3>1. LenOf[Chunks[k]] \in 1..(GCS_STACK_FRAME_CAP - 54) BY <1>1, <1>2, <2>1
      <3>2. GCS_STACK_FRAME_CAP - 54 = 1460 BY DEF GCS_STACK_FRAME_CAP, GCS_ETH_HDR_LEN
      <3> QED BY <2>1, <3>1, <3>2 DEF Width
    <2>2. CASE ~(k <= Len(Chunks)) BY <2>2 DEF Width
    <2> QED BY <2>1, <2>2
  <1> QED BY <1>1, <1>3 DEF LastItem

\* So positions are numbers that grow, and the last of them is in the sequence space.
LEMMA BytesRange ==
    /\ \A k \in 0..LastItem : Bytes(k) \in Nat /\ Bytes(k) < SeqSpace
    /\ \A j, k \in 0..LastItem : j < k => Bytes(j) < Bytes(k)
  <1>1. LastItem \in Nat /\ SeqSpace \in Nat /\ Bytes(LastItem) < SeqSpace
    BY WidthRange, SessionAssumption, FramesAssumption DEF LastItem
  <1> DEFINE Grows(k) == /\ Bytes(k) \in Nat
                         /\ \A j \in 0..k : /\ Bytes(j) \in Nat
                                            /\ j < k => Bytes(j) < Bytes(k)
             S == {k \in Nat : k <= LastItem => Grows(k)}
  <1>2. 0 \in S BY BytesNext
  <1>3. ASSUME NEW k \in S PROVE k + 1 \in S
    <2> SUFFICES ASSUME k + 1 <= LastItem PROVE Grows(k + 1) OBVIOUS
    <2>1. Grows(k) BY <1>1
    <2>2. k + 1 \in 1..LastItem /\ k \in Nat BY <1>1
    <2>3. Bytes(k + 1) = Bytes(k) + Width(k + 1) BY <2>2, BytesNext
    <2>4. Width(k + 1) \in Nat /\ Width(k + 1) >= 1 BY <2>2, WidthRange
    <2>5. Bytes(k + 1) \in Nat /\ Bytes(k) < Bytes(k + 1) BY <2>1, <2>3, <2>4
    <2>6. ASSUME NEW j \in 0..(k + 1)
          PROVE  Bytes(j) \in Nat /\ (j < k + 1 => Bytes(j) < Bytes(k + 1))
      <3>1. CASE j = k + 1 BY <2>5, <3>1
      <3>2. CASE j = k BY <2>1, <2>5, <3>2
      <3>3. CASE j < k
        <4>1. Bytes(j) \in Nat /\ Bytes(j) < Bytes(k) /\ Bytes(k) \in Nat
          BY <2>1, <2>2, <3>3
        <4> QED BY <2>5, <4>1
      <3> QED BY <2>2, <3>1, <3>2, <3>3
    <2> QED BY <2>5, <2>6
  <1> HIDE DEF S
  <1>4. S \in SUBSET Nat BY DEF S
  <1>5. S = Nat BY <1>2, <1>3, <1>4, Induction
  <1>6. \A k \in 0..LastItem : Grows(k)
    <2> HIDE DEF Grows
    <2> QED BY <1>1, <1>5 DEF S
  <1>7. \A k \in 0..LastItem : Bytes(k) <= Bytes(LastItem) BY <1>1, <1>6
  <1> QED BY <1>1, <1>6, <1>7

\* The chunks among the first k things.
ChunksIn(k) == IF k < LastItem THEN k ELSE LastItem - 1

\* The client's and the stack's numbers after k things and the SYN.
ClientSeq(k) == ToSeq(client.iss + 1 + Bytes(k))
StackSeq(k) == ToSeq(Iss + 1 + Bytes(k))

\* How many things have come back to the client.
Back == Len(client.got) + (IF client.state = "DONE" THEN 1 ELSE 0)

-----------------------------------------------------------------------------
(***************************************************************************)
(* Sequence numbers.                                                       *)
(***************************************************************************)
\* Numbers may be reduced before they are added to or subtracted.
LEMMA SeqSum ==
    ASSUME NEW a \in Int, NEW b \in Int
    PROVE  ToSeq(ToSeq(a) + b) = ToSeq(a + b) /\ ToSeq(a) \in SeqNo
  <1>1. SeqSpace \in Nat /\ SeqSpace > 0 BY FramesAssumption
  <1>2. ((a % SeqSpace) + b) % SeqSpace = (a + b) % SeqSpace BY <1>1, ModAdd
  <1>3. a % SeqSpace \in 0..(SeqSpace - 1) BY <1>1, ModRange
  <1> QED BY <1>2, <1>3 DEF ToSeq, SeqNo

\* The distance of two numbers is that of what they number.
LEMMA SeqDistance ==
    ASSUME NEW a \in Int, NEW j \in Nat, NEW k \in Nat, j <= k, k < SeqSpace
    PROVE  ToSeq(ToSeq(a + k) - ToSeq(a + j)) = k - j
  <1>1. SeqSpace \in Nat /\ SeqSpace > 0 BY FramesAssumption
  <1> DEFINE m == SeqSpace
             x == a + k
             y == a + j
             p == x \div m
             q == y \div m
             d == (x % m) - (y % m)
  <1>2. x \in Int /\ y \in Int /\ x - y = k - j /\ k - j \in 0..(m - 1) BY <1>1
  <1> HIDE DEF x, y
  <1>3. /\ p \in Int /\ x = m * p + (x % m) /\ x % m \in Int
        /\ q \in Int /\ y = m * q + (y % m) /\ y % m \in Int
    BY <1>1, <1>2, ModSplit, ModRange
  <1> HIDE DEF p, q
  <1>4. d = m * (q - p) + (k - j) /\ q - p \in Int /\ d \in Int
    <2>1. m * (q - p) = m * q - m * p BY <1>1, <1>3
    <2> DEFINE mp == m * p
               mq == m * q
    <2>2. mp \in Int /\ mq \in Int /\ x = mp + (x % m) /\ y = mq + (y % m) BY <1>1, <1>3
    <2>3. m * (q - p) = mq - mp BY <2>1
    <2> HIDE DEF mp, mq
    <2>4. d = mq - mp + (k - j) BY <1>2, <1>3, <2>2
    <2> QED BY <1>3, <2>3, <2>4
  <1> HIDE DEF d
  <1>5. d % m = k - j
    <2> DEFINE i == q - p
               r == k - j
    <2>1. d = m * i + r /\ i \in Int /\ r \in 0..(m - 1) BY <1>2, <1>4
    <2> HIDE DEF i, r, m
    <2>2. d % m = r BY <1>1, <1>4, <2>1, ModUnique DEF m
    <2> QED BY <2>2 DEF r
  <1> QED BY <1>5 DEF ToSeq, d, x, y

\* What the client has sent and nobody acknowledged, if the numbers are in place.
LEMMA UnackedIs ==
    ASSUME client.iss \in Int, NEW a \in 0..LastItem, client.sent \in a..LastItem,
           client.snd_una = ClientSeq(a), client.snd_nxt = ClientSeq(client.sent)
    PROVE  Unacked(client) = (a + 1)..client.sent
  <1> DEFINE s == client.sent
             base == client.iss + 1
  <1>1. LastItem \in Nat /\ SeqSpace \in Nat BY WidthRange, FramesAssumption
  <1>2. s \in 0..LastItem /\ a <= s /\ base \in Int BY <1>1
  <1>3. ASSUME NEW i \in 1..s
        PROVE  Acked(client, ToSeq(StartOf(client, i) + Width(i))) <=> i <= a
    <2>1. i \in 0..LastItem /\ i - 1 \in 0..LastItem /\ i - 1 \in Nat /\ i <= s
      BY <1>1, <1>2
    <2>2. /\ Bytes(i) \in Nat /\ Bytes(i - 1) \in Nat /\ Bytes(a) \in Nat /\ Bytes(s) \in Nat
          /\ Bytes(s) < SeqSpace
      BY <1>2, <2>1, BytesRange
    <2>3. Bytes(i) <= Bytes(s) /\ Bytes(a) <= Bytes(s) /\ (Bytes(i) <= Bytes(a) <=> i <= a)
      BY <1>1, <1>2, <2>1, <2>2, BytesRange
    <2>4. Bytes(i) = Bytes(i - 1) + Width(i) /\ Width(i) \in Nat
      <3>1. (i - 1) + 1 = i /\ i \in 1..LastItem BY <2>1
      <3> QED BY <2>1, <3>1, BytesNext, WidthRange
    <2>5. ToSeq(StartOf(client, i) + Width(i)) = ToSeq(base + Bytes(i))
      <3> DEFINE x == base + Bytes(i - 1)
                 y == Width(i)
      <3>1. x \in Int /\ y \in Int /\ x + y = base + Bytes(i) BY <1>2, <2>2, <2>4
      <3>2. StartOf(client, i) = ToSeq(x) BY DEF StartOf
      <3> HIDE DEF x, y
      <3>3. ToSeq(ToSeq(x) + y) = ToSeq(x + y) BY <3>1, SeqSum
      <3> QED BY <3>1, <3>2, <3>3 DEF y
    <2>6. client.snd_una = ToSeq(base + Bytes(a)) /\ client.snd_nxt = ToSeq(base + Bytes(s))
      BY DEF ClientSeq
    <2> DEFINE bi == Bytes(i)
               ba == Bytes(a)
               bs == Bytes(s)
    <2>7. ToSeq(ToSeq(base + bs) - ToSeq(base + ba)) = bs - ba
      <3>1. bs \in Nat /\ ba \in Nat /\ ba <= bs /\ bs < SeqSpace BY <2>2, <2>3
      <3> HIDE DEF base, bi, ba, bs
      <3> QED BY <1>2, <3>1, SeqDistance
    <2>8. ToSeq(ToSeq(base + bs) - ToSeq(base + bi)) = bs - bi
      <3>1. bs \in Nat /\ bi \in Nat /\ bi <= bs /\ bs < SeqSpace BY <2>2, <2>3
      <3> HIDE DEF base, bi, ba, bs
      <3> QED BY <1>2, <3>1, SeqDistance
    <2>9. Acked(client, ToSeq(StartOf(client, i) + Width(i))) <=> bs - ba <= bs - bi
      <3> HIDE DEF base, bi, ba, bs
      <3> QED BY <2>5, <2>6, <2>7, <2>8 DEF Acked, bi, ba, bs
    <2> QED BY <2>2, <2>3, <2>9
  <1>4. Unacked(client) = {i \in 1..s : ~(i <= a)} BY <1>3 DEF Unacked
  <1> QED BY <1>1, <1>2, <1>4

-----------------------------------------------------------------------------
(***************************************************************************)
(* What may happen to a session, and what is promised all the same.        *)
(***************************************************************************)
\* A client with any number of segments on their way meets no loss and no disorder.
Orderly == Without({"lost_requests", "lost_replies", "swapped"})

\* One with a single segment on its way repeats itself less than it takes to carry the
\* stack's numbers once around.
Patient == link.window = 1 /\ Bytes(LastItem) + Widest * faults.lost_replies < SeqSpace

\* The client starts anew once at most, and no data reaches the stack again but for an
\* answer that was lost.
Calm == (Orderly \/ Patient) /\ faults.restarts <= 1 /\ faults.repeated = 0

\* Faults happen as often as the link allows.
FaultKinds == {"lost_requests", "lost_replies", "doubled", "repeated", "swapped",
               "restarts"}

FaultsInv ==
    /\ link \in Links /\ faults \in [FaultKinds -> Nat]
    /\ \A fault \in FaultKinds : faults[fault] <= link[fault]

-----------------------------------------------------------------------------
(***************************************************************************)
(* The frames of a session.                                                *)
(***************************************************************************)
\* A payload that fits a frame.
Fits(data) == LenOf[data] \in 0..1460

ChunkLen(len) == len \in 1..1460

\* Any segment of the client's host, whichever of its connections it is for.
FromPort(f) ==
    \E seq, ack, flags, data : Fits(data) /\ f = ClientFrame(client, seq, ack, flags, data)

\* One that carries nothing, and the i-th thing sent.
Bare(f, flags) == \E seq, ack : f = ClientFrame(client, seq, ack, flags, NoData)

Harmless(f) == Bare(f, {"SYN"}) \/ Bare(f, {"RST"}) \/ Bare(f, {"ACK"})

Thing(f, i) ==
    \E ack : f = IF i < LastItem
                 THEN ClientFrame(client, ClientSeq(i - 1), ack, {"PSH", "ACK"}, Chunks[i])
                 ELSE ClientFrame(client, ClientSeq(i - 1), ack, {"FIN", "ACK"}, NoData)

\* The answer to the i-th thing, or to the SYN.
Answer(r, i) ==
    /\ r.tcp.ack = ClientSeq(i) /\ "RST" \notin r.tcp.flags
    /\ IF i = 0 THEN {"SYN", "ACK"} \subseteq r.tcp.flags /\ r.tcp.seq = Iss
       ELSE /\ r.tcp.seq = StackSeq(i - 1) /\ "SYN" \notin r.tcp.flags
            /\ IF i = LastItem THEN "FIN" \in r.tcp.flags
               ELSE /\ "FIN" \notin r.tcp.flags /\ r.tcp.data = Chunks[i]
                    /\ TcpPayloadLen(r) = LenOf[Chunks[i]]

-----------------------------------------------------------------------------
(***************************************************************************)
(* Before the connection is open.                                          *)
(***************************************************************************)
Dialling ==
    /\ client.sent = 0 /\ client.got = <<>>
    /\ client.state \in {"CLOSED", "SYN_SENT", "REFUSED"}
    /\ client.state = "SYN_SENT" => client.snd_nxt = ClientSeq(0)

\* Nobody listens where the client dials.
PortClosed ==
    /\ client.port # ListenPort /\ conn.state = "LISTEN" /\ conn.bytes_received = 0
    /\ \A f \in ToSet(requests) : FromPort(f)
    /\ \A r \in ToSet(replies) : r.tcp.flags = {"RST", "ACK"}

\* SYNs are on their way, those of the client before its restart among them.
Listening ==
    /\ conn.state = "LISTEN" /\ conn.bytes_received = 0 /\ replies = <<>>
    /\ \A f \in ToSet(requests) :
         \E iss \in PeerIsses : /\ f = ClientFrame(client, iss, 0, {"SYN"}, NoData)
                                /\ faults.restarts = 0 => iss = client.iss

\* The client's SYN came first, and nothing acknowledges the answer yet.
Greeted ==
    /\ conn.state = "SYN_RECEIVED" /\ conn.bytes_received = 0
    /\ conn.rcv_nxt = ClientSeq(0) /\ conn.snd_nxt = StackSeq(0)
    /\ \A f \in ToSet(requests) : Bare(f, {"SYN"}) \/ Bare(f, {"RST"})
    /\ \A r \in ToSet(replies) : Answer(r, 0)

\* The connection is that of the client before its restart, and no other will be.
Foreign ==
    /\ conn.state # "LISTEN" /\ conn.bytes_received \in Nat /\ faults.restarts # 0
    /\ \A f \in ToSet(requests) : FromPort(f)
    /\ \A r \in ToSet(replies) :
         "RST" \notin r.tcp.flags /\ ("SYN" \in r.tcp.flags => r.tcp.ack # ClientSeq(0))

Dial ==
    /\ Dialling
    /\ \/ PortClosed
       \/ /\ client.port = ListenPort /\ client.state # "REFUSED"
          /\ Listening \/ Greeted \/ Foreign

-----------------------------------------------------------------------------
(***************************************************************************)
(* The open connection.                                                    *)
(***************************************************************************)
\* The client has sent, has had acknowledged and has back so many things.
ClientInv(a) ==
    /\ client.port = ListenPort
    /\ client.got = SubSeq(Chunks, 1, Len(client.got)) /\ Len(client.got) \in 0..(LastItem - 1)
    /\ client.sent \in 0..LastItem /\ Back <= a /\ a <= client.sent
    /\ link.window = 1 => client.sent <= a + 1
    /\ client.state = IF Back = LastItem THEN "DONE"
                      ELSE IF client.sent = LastItem THEN "FIN_SENT" ELSE "ESTABLISHED"
    /\ client.snd_una = ClientSeq(a) /\ client.snd_nxt = ClientSeq(client.sent)
    /\ client.rcv_nxt = StackSeq(Back)

\* The stack has taken t of them, each once.
StackInv(t) ==
    /\ conn.state \in IF t = LastItem THEN {"LAST_ACK", "CLOSED"}
                      ELSE IF t = 0 THEN {"SYN_RECEIVED", "ESTABLISHED"}
                      ELSE {"ESTABLISHED"}
    /\ conn.rcv_nxt = ClientSeq(t) /\ conn.snd_nxt = StackSeq(ChunksIn(t))
    /\ conn.bytes_received = Bytes(ChunksIn(t))

\* Numbers that go up from one to the other, by one or not at all.
Rows(n, from, to) ==
    {at \in [0..n -> from..to] :
        /\ at[0] = from /\ at[n] = to
        /\ \A k \in 1..n : at[k] = at[k - 1] \/ at[k] = at[k - 1] + 1}

\* The answers on their way are those to what the stack took since, in order, and copies.
AnswersTo(q, at) == \A k \in 1..Len(q) : Answer(q[k], at[k])

RepliesInv(t) == \E at \in Rows(Len(replies), Back, t) : AnswersTo(replies, at)

\* So are the requests on a link that keeps the order; what opens the connection comes
\* before the things, the first of which would else be left.
ThingsRow(q, at) ==
    \A k \in 1..Len(q) :
      IF at[k] = at[k - 1] THEN Harmless(q[k]) \/ (at[k] = LastItem /\ Thing(q[k], LastItem))
      ELSE Thing(q[k], at[k])

OpenedFirst(q, at) == \E k \in 1..Len(q) : at[k] = 0 /\ Bare(q[k], {"ACK"})

InOrder(t) ==
    \E at \in Rows(Len(requests), t, client.sent) :
      /\ ThingsRow(requests, at)
      /\ conn.state = "SYN_RECEIVED" => OpenedFirst(requests, at)

\* On a link that does not, there is one chunk at most, the thing sent last.
Loose(q, sent, may) ==
    /\ \A f \in ToSet(q) : Harmless(f) \/ (Thing(f, sent) /\ (sent = LastItem \/ may))
    /\ \A j, k \in 1..Len(q) : TcpPayloadLen(q[j]) # 0 /\ TcpPayloadLen(q[k]) # 0 => j = k

\* Both ends agree on what was taken.
StepAt(t) ==
    /\ Back <= t /\ t <= client.sent
    /\ ClientInv(Back) /\ StackInv(t) /\ RepliesInv(t)
    /\ IF link.window = 1 THEN Loose(requests, client.sent, t < client.sent) ELSE InOrder(t)

Step == \E t \in Nat : StepAt(t)

\* An answer to the i-th thing is on its way.
Pending(q, i) == \E r \in ToSet(q) : r.tcp.ack = ClientSeq(i)

\* The client has none to what it sent last, and none is on its way.
Missed(a) == a < client.sent /\ ~Pending(replies, client.sent)

\* An answer was lost, and the stack takes things again: its numbers are ahead of the
\* client's for good, which takes nothing any more, and acknowledges all the same.
StackAhead(g) ==
    /\ conn.state \in IF g = LastItem THEN {"LAST_ACK", "CLOSED"} ELSE {"ESTABLISHED"}
    /\ conn.bytes_received \in Nat /\ Bytes(ChunksIn(g)) <= conn.bytes_received
    /\ conn.snd_nxt = ToSeq(Iss + 1 + conn.bytes_received)

\* What it took too often was answered in vain.
Repeated(g, missed) ==
    LET most == Bytes(ChunksIn(g)) + Widest * faults.lost_replies
    IN  /\ conn.bytes_received <= most
        /\ g = client.sent /\ missed => conn.bytes_received + Widest <= most

LateAnswers(q, rcv, g) ==
    \A r \in ToSet(q) :
      /\ r.tcp.seq # rcv /\ "RST" \notin r.tcp.flags
      /\ \E j \in 0..g : r.tcp.ack = ClientSeq(j) /\ ("SYN" \in r.tcp.flags => j = 0)

AstrayAt(a, g) ==
    /\ link.window = 1 /\ faults.lost_replies > 0
    /\ ClientInv(a) /\ a <= g /\ Back < g /\ g <= client.sent
    /\ StackAhead(g) /\ Repeated(g, Missed(a)) /\ LateAnswers(replies, client.rcv_nxt, g)
    /\ Loose(requests, client.sent, Missed(a))

Astray == \E a, g \in Nat : AstrayAt(a, g)

-----------------------------------------------------------------------------
(***************************************************************************)
(* The invariant.                                                          *)
(***************************************************************************)
\* The records of the two ends keep their fields, and the queues are sequences.
ConnFields ==
    {"state", "remote_ip", "remote_port", "snd_nxt", "rcv_nxt", "bytes_received"}

ConnShape == conn = [field \in ConnFields |-> conn[field]]

ClientFields ==
    {"state", "iss", "port", "snd_una", "snd_nxt", "rcv_nxt", "sent", "got"}

ClientShape ==
    client = [field \in ClientFields |-> client[field]] /\ client.iss \in PeerIsses

Queued(q) == \E S : q \in Seq(S)

Shapes == ConnShape /\ ClientShape /\ Queued(requests) /\ Queued(replies)

SessionInv == Shapes /\ (Dial \/ Step \/ Astray)

\* With one segment on its way and nothing but requests lost, there is one answer at most,
\* and the stack closes when that to the FIN has arrived.
OneAtATime ==
    IF client.state \in {"CLOSED", "SYN_SENT", "REFUSED"}
    THEN Len(requests) + Len(replies) <= IF client.state = "CLOSED" THEN 0 ELSE 1
    ELSE /\ replies # <<>> => /\ requests = <<>> /\ Len(replies) = 1
                              /\ client.sent = Back + 1
         /\ \A k \in 1..(Len(requests) - 1) : Harmless(requests[k])
         /\ conn.state = "CLOSED" => client.state = "DONE"

OnlyLosesRequests ==
    /\ link.window = 1
    /\ Without({"lost_replies", "doubled", "repeated", "swapped", "restarts"})

IInv ==
    /\ FaultsInv /\ (Calm => SessionInv)
    /\ OnlyLosesRequests => OneAtATime

-----------------------------------------------------------------------------
(***************************************************************************)
(* Queues.                                                                 *)
(***************************************************************************)
\* A queue is a function on an initial part of the numbers.
LEMMA QueueIs ==
    ASSUME NEW q, Queued(q)
    PROVE  /\ Len(q) \in Nat /\ q = [k \in 1..Len(q) |-> q[k]] /\ (q = <<>> <=> Len(q) = 0)
           /\ \A k \in 1..Len(q) : q[k] \in ToSet(q)
           /\ \A x \in ToSet(q) : \E k \in 1..Len(q) : x = q[k]
  <1>1. PICK S : q \in Seq(S) BY DEF Queued
  <1>2. Len(q) \in Nat /\ q = [k \in 1..Len(q) |-> q[k]] /\ DOMAIN q = 1..Len(q)
    BY <1>1
  <1>3. q = <<>> <=> Len(q) = 0 BY <1>1
  <1> QED BY <1>2, <1>3 DEF ToSet

\* The first frame of a queue leaves it.
LEMMA TailOf ==
    ASSUME NEW q, Queued(q), q # <<>>
    PROVE  /\ Queued(Tail(q)) /\ Len(q) \in Nat /\ Len(q) > 0 /\ Len(Tail(q)) = Len(q) - 1
           /\ Head(q) = q[1] /\ Head(q) \in ToSet(q)
           /\ \A k \in 1..(Len(q) - 1) : Tail(q)[k] = q[k + 1]
           /\ ToSet(Tail(q)) \subseteq ToSet(q)
  <1>1. PICK S : q \in Seq(S) BY DEF Queued
  <1>2. /\ Tail(q) \in Seq(S) /\ Len(q) \in Nat /\ Len(q) > 0 /\ Len(Tail(q)) = Len(q) - 1
        /\ Head(q) = q[1]
        /\ \A k \in 1..(Len(q) - 1) : Tail(q)[k] = q[k + 1]
    BY <1>1
  <1>3. Queued(Tail(q)) BY <1>2 DEF Queued
  <1>4. q[1] \in ToSet(q)
    <2>1. 1 \in 1..Len(q) BY <1>2
    <2> QED BY <2>1, QueueIs
  <1>5. ASSUME NEW x \in ToSet(Tail(q)) PROVE x \in ToSet(q)
    <2>1. PICK k \in 1..Len(Tail(q)) : x = Tail(q)[k] BY <1>3, QueueIs
    <2>2. k + 1 \in 1..Len(q) /\ x = q[k + 1] BY <1>2, <2>1
    <2> QED BY <2>2, QueueIs
  <1> QED BY <1>2, <1>3, <1>4, <1>5

\* A frame joins a queue.
LEMMA AppendOf ==
    ASSUME NEW q, Queued(q), NEW x
    PROVE  /\ Queued(Append(q, x)) /\ Len(q) \in Nat /\ Len(Append(q, x)) = Len(q) + 1
           /\ \A k \in 1..Len(q) : Append(q, x)[k] = q[k]
           /\ Append(q, x)[Len(q) + 1] = x
           /\ \A y \in ToSet(Append(q, x)) : y \in ToSet(q) \/ y = x
  <1>1. PICK S : q \in Seq(S) BY DEF Queued
  <1> DEFINE T == S \cup {x}
             r == Append(q, x)
  <1>2. /\ r \in Seq(T) /\ Len(q) \in Nat /\ Len(r) = Len(q) + 1
        /\ \A k \in 1..Len(q) : r[k] = q[k]
        /\ r[Len(q) + 1] = x
    <2>1. q \in Seq(T) /\ x \in T
      <3>1. S \subseteq T /\ x \in T OBVIOUS
      <3> HIDE DEF T
      <3>2. Seq(S) \subseteq Seq(T) BY <3>1, SeqMonotonic
      <3> QED BY <1>1, <3>1, <3>2
    <2> HIDE DEF T
    <2> QED BY <2>1
  <1>3. Queued(r) BY <1>2 DEF Queued
  <1>4. ASSUME NEW y \in ToSet(r) PROVE y \in ToSet(q) \/ y = x
    <2>1. PICK k \in 1..Len(r) : y = r[k] BY <1>3, QueueIs
    <2>2. k \in 1..Len(q) \/ k = Len(q) + 1 BY <1>2, <2>1
    <2> QED BY <1>2, <2>1, <2>2, QueueIs
  <1> QED BY <1>2, <1>3, <1>4

\* A queue whose first frame is doubled, and one whose first two are swapped.
Doubled(q) == <<Head(q)>> \o q
Swapped(q) == <<q[2], q[1]>> \o SubSeq(q, 3, Len(q))

\* The first frame is doubled.
LEMMA DoubleOf ==
    ASSUME NEW q, Queued(q), q # <<>>, NEW r, r = Doubled(q)
    PROVE  /\ Queued(r) /\ Len(q) \in Nat /\ Len(q) > 0 /\ Len(r) = Len(q) + 1
           /\ r[1] = q[1] /\ \A k \in 1..Len(q) : r[k + 1] = q[k]
           /\ ToSet(r) = ToSet(q)
  <1>1. PICK S : q \in Seq(S) BY DEF Queued
  <1>2. /\ Len(q) \in Nat /\ Len(q) > 0 /\ Head(q) = q[1] /\ q[1] \in S BY <1>1
  <1>3. <<q[1]>> \in Seq(S) /\ Len(<<q[1]>>) = 1 /\ <<q[1]>>[1] = q[1] BY <1>2
  <1>4. /\ r \in Seq(S) /\ Len(r) = Len(q) + 1
        /\ r[1] = q[1] /\ \A k \in 1..Len(q) : r[k + 1] = q[k]
    BY <1>1, <1>2, <1>3 DEF Doubled
  <1>5. Queued(r) BY <1>4 DEF Queued
  <1>6. ASSUME NEW y \in ToSet(r) PROVE y \in ToSet(q)
    <2>1. PICK k \in 1..Len(r) : y = r[k] BY <1>5, QueueIs
    <2>2. CASE k = 1
      <3>1. 1 \in 1..Len(q) BY <1>2
      <3> QED BY <1>4, <2>1, <2>2, <3>1, QueueIs
    <2>3. CASE k # 1
      <3>1. k - 1 \in 1..Len(q) /\ (k - 1) + 1 = k BY <1>2, <1>4, <2>1, <2>3
      <3>2. y = q[k - 1] BY <1>4, <2>1, <3>1
      <3> QED BY <3>1, <3>2, QueueIs
    <2> QED BY <2>2, <2>3
  <1>7. ASSUME NEW y \in ToSet(q) PROVE y \in ToSet(r)
    <2>1. PICK k \in 1..Len(q) : y = q[k] BY QueueIs
    <2>2. k + 1 \in 1..Len(r) /\ y = r[k + 1] BY <1>2, <1>4, <2>1
    <2> QED BY <1>5, <2>2, QueueIs
  <1> QED BY <1>2, <1>4, <1>5, <1>6, <1>7

\* The first two change places.
LEMMA SwapOf ==
    ASSUME NEW q, Queued(q), Len(q) > 1,
           NEW r, r = Swapped(q)
    PROVE  /\ Queued(r) /\ Len(q) \in Nat /\ Len(r) = Len(q) /\ r[1] = q[2] /\ r[2] = q[1]
           /\ \A k \in 3..Len(q) : r[k] = q[k]
           /\ ToSet(r) \subseteq ToSet(q)
  <1>1. PICK S : q \in Seq(S) BY DEF Queued
  <1>2. /\ Len(q) \in Nat /\ Len(q) > 1 /\ q[1] \in S /\ q[2] \in S BY <1>1
  <1> DEFINE rest == SubSeq(q, 3, Len(q))
             pair == <<q[2], q[1]>>
  <1>3. /\ rest \in Seq(S) /\ Len(rest) = Len(q) - 2
        /\ \A k \in 1..(Len(q) - 2) : rest[k] = q[k + 2]
    <2>1. 3 \in 1..(Len(q) + 1) /\ Len(q) \in (3 - 1)..Len(q) BY <1>2
    <2>2. \A k \in 3..Len(q) : q[k] \in S BY <1>1
    <2>3. 3 \in Int /\ Len(q) \in Int BY <1>2
    <2>4. /\ rest \in Seq(S) /\ Len(rest) = IF 3 <= Len(q) THEN Len(q) - 3 + 1 ELSE 0
          /\ \A k \in 1..(Len(q) - 3 + 1) : rest[k] = q[3 + k - 1]
      BY <1>1, <2>2, <2>3, SubSeqProperties
    <2> DEFINE n == Len(q)
    <2>5. n \in Nat /\ n > 1 BY <1>2
    <2>6. ASSUME NEW k \in 1..(n - 2) PROVE rest[k] = q[k + 2]
      <3>1. k \in 1..(n - 3 + 1) /\ 3 + k - 1 = k + 2 BY <2>5
      <3> QED BY <2>4, <3>1
    <2>7. Len(rest) = n - 2
      <3> DEFINE m == Len(rest)
      <3>1. m = IF 3 <= n THEN n - 3 + 1 ELSE 0 BY <2>4
      <3> HIDE DEF m, n
      <3>2. m = n - 2 BY <2>5, <3>1
      <3> QED BY <3>2 DEF m
    <2> HIDE DEF rest
    <2> QED BY <2>4, <2>6, <2>7
  <1>4. pair \in Seq(S) /\ Len(pair) = 2 /\ pair[1] = q[2] /\ pair[2] = q[1] BY <1>2
  <1>5. r = pair \o rest BY DEF Swapped
  <1> HIDE DEF pair, rest
  <1>6. /\ r \in Seq(S) /\ Len(r) = Len(q) /\ r[1] = q[2] /\ r[2] = q[1]
        /\ \A k \in 3..Len(q) : r[k] = rest[k - 2]
    <2>1. /\ r \in Seq(S) /\ Len(r) = 2 + Len(rest)
          /\ \A k \in 1..(2 + Len(rest)) : r[k] = IF k <= 2 THEN pair[k] ELSE rest[k - 2]
      <3>1. /\ pair \o rest \in Seq(S) /\ Len(pair \o rest) = Len(pair) + Len(rest)
            /\ \A k \in 1..(Len(pair) + Len(rest)) :
                 (pair \o rest)[k] = IF k <= Len(pair) THEN pair[k] ELSE rest[k - Len(pair)]
        <4>1. pair \in Seq(S) /\ rest \in Seq(S) BY <1>3, <1>4
        <4> QED BY <4>1, ConcatProperties
      <3>2. Len(pair) = 2 BY <1>4
      <3> QED BY <1>5, <3>1, <3>2
    <2> DEFINE n == Len(q)
               m == Len(rest)
    <2>2. n \in Nat /\ n > 1 /\ m = n - 2 BY <1>2, <1>3
    <2> HIDE DEF n, m
    <2>3. 2 + m = n /\ 1 \in 1..(2 + m) /\ 2 \in 1..(2 + m) BY <2>2
    <2>4. ASSUME NEW k \in 3..n PROVE r[k] = rest[k - 2]
      <3>1. k \in 1..(2 + m) /\ ~(k <= 2) BY <2>2
      <3> QED BY <2>1, <3>1 DEF m
    <2> QED BY <1>4, <2>1, <2>3, <2>4 DEF n, m
  <1>7. \A k \in 3..Len(q) : r[k] = q[k]
    <2> TAKE k \in 3..Len(q)
    <2>1. k - 2 \in 1..(Len(q) - 2) /\ (k - 2) + 2 = k BY <1>2
    <2> QED BY <1>3, <1>6, <2>1
  <1>8. Queued(r) BY <1>6 DEF Queued
  <1>9. ASSUME NEW y \in ToSet(r) PROVE y \in ToSet(q)
    <2>1. PICK k \in 1..Len(r) : y = r[k] BY <1>8, QueueIs
    <2>2. k = 1 \/ k = 2 \/ k \in 3..Len(q) BY <1>2, <1>6, <2>1
    <2>3. 1 \in 1..Len(q) /\ 2 \in 1..Len(q) BY <1>2
    <2>4. k \in 3..Len(q) => k \in 1..Len(q) BY <1>2
    <2> QED BY <1>6, <1>7, <2>1, <2>2, <2>3, <2>4, QueueIs
  <1> QED BY <1>2, <1>6, <1>7, <1>8, <1>9

\* Queues of one and of two frames.
LEMMA Queue ==
    ASSUME NEW f, NEW g
    PROVE  /\ Append(<<>>, g) = <<g>> /\ Head(<<g>>) = g /\ Tail(<<g>>) = <<>>
           /\ Append(<<f>>, g) = <<f, g>> /\ Head(<<f, g>>) = f /\ Tail(<<f, g>>) = <<g>>
  <1> DEFINE s == Append(<<f>>, g)
             t == <<f, g>>
             S == {f, g}
  <1>1. /\ s \in Seq(S) /\ Len(s) = 2 /\ s[1] = f /\ s[2] = g
        /\ t \in Seq(S) /\ Len(t) = 2 /\ t[1] = f /\ t[2] = g
    <2>1. <<f>> \in Seq(S) OBVIOUS
    <2> QED BY <2>1
  <1>2. s = t
    <2>1. \A i \in 1..2 : s[i] = t[i] BY <1>1
    <2> HIDE DEF s, t, S
    <2> QED BY <1>1, <2>1, SeqEqual
  <1> QED BY <1>2

-----------------------------------------------------------------------------
(***************************************************************************)
(* One call of the stack with a frame of the client's.                     *)
(***************************************************************************)
\* The stack's operators are those of the frames.
LEMMA SameFrames ==
    /\ \A f : Stack!TcpPayloadLen(f) = TcpPayloadLen(f)
    /\ \A n : Stack!ToSeq(n) = ToSeq(n)
  BY DEF Stack!TcpPayloadLen, TcpPayloadLen, Stack!IpPayloadLen, IpPayloadLen,
         Stack!ToSeq, ToSeq

\* What the stack reads in a frame of the client's.
FromClient(f, seq, flags, data) ==
    /\ f.ethertype = "IPv4" /\ f.ip.protocol = "TCP" /\ Stack!TcpValid(f)
    /\ f.tcp.seq = seq /\ f.tcp.flags = flags /\ f.tcp.data = data
    /\ f.tcp.dst_port = client.port
    /\ Stack!TcpPayloadLen(f) = LenOf[data]

\* The stack reads a frame of the client's as it was written.
LEMMA ClientFrameRead ==
    ASSUME NEW seq, NEW ack, NEW flags, NEW data, Fits(data)
    PROVE  FromClient(ClientFrame(client, seq, ack, flags, data), seq, flags, data)
  <1>0. PICK len \in 0..1460 : len = LenOf[data] BY DEF Fits
  <1> DEFINE f == ClientFrame(client, seq, ack, flags, data)
             n == LenOf[data]
  <1>1. n \in 0..1460 /\ n \in Nat
    <2> HIDE DEF f, n
    <2>1. len \in 0..1460 /\ len \in Nat OBVIOUS
    <2> QED BY <1>0, <2>1 DEF n
  <1>2. /\ f.len = Padded(54 + n) /\ f.dst = STACK_MAC /\ f.ethertype = "IPv4"
        /\ f.ip.version = 4 /\ f.ip.ihl = 20 /\ f.ip.total_len = 20 + (20 + n)
        /\ f.ip.sum_ok = TRUE /\ f.ip.protocol = "TCP"
        /\ f.tcp.data_offset = 20 /\ f.tcp.sum_ok = TRUE
        /\ f.tcp.seq = seq /\ f.tcp.flags = flags /\ f.tcp.data = data
        /\ f.tcp.dst_port = client.port
    BY DEF ClientFrame, tcp, ipv4
  <1> HIDE DEF f, n
  <1>3. f.len >= 54 + n /\ f.len \in Int /\ f.len >= 60
    <2> PICK size : size = Padded(54 + n) OBVIOUS
    <2>1. size >= 54 + n /\ size \in Int /\ size >= 60 BY <1>1 DEF Padded
    <2> QED BY <1>2, <2>1
  <1>4. Stack!ForUs(f)
    BY <1>2, <1>3 DEF Stack!ForUs, Stack!EthParse, Stack!GCS_ETH_HDR_LEN
  <1>5. Stack!IpParse(f)
    BY <1>1, <1>2, <1>3 DEF Stack!IpParse, Stack!EthPayloadLen, Stack!GCS_ETH_HDR_LEN,
                           Stack!GCS_IPV4_MIN_HDR_LEN
  <1>6. Stack!IpPayloadLen(f) = 20 + n BY <1>1, <1>2 DEF Stack!IpPayloadLen
  <1>7. Stack!TcpParse(f) /\ Stack!TcpPayloadLen(f) = n
    BY <1>1, <1>2, <1>6 DEF Stack!TcpParse, Stack!TcpPayloadLen, Stack!GCS_TCP_MIN_HDR_LEN
  <1>8. Stack!TcpValid(f) BY <1>2, <1>4, <1>5, <1>7 DEF Stack!TcpValid, Stack!IpValid
  <1> QED BY <1>2, <1>7, <1>8 DEF FromClient, f, n

\* It is a segment, and goes to the handler of segments.
LEMMA Dispatched ==
    ASSUME NEW f, NEW seq, NEW flags, NEW data, FromClient(f, seq, flags, data),
           Stack!HandleFrame(f, GCS_STACK_FRAME_CAP)
    PROVE  Stack!HandleTcp(f, GCS_STACK_FRAME_CAP)
  BY DEF FromClient, Stack!HandleFrame, Stack!DropFrame, Stack!HandleArp, Stack!HandleIcmp,
         Stack!TcpValid, Stack!IpValid

\* The answer that leaves: a segment with what the stack put into it.
Says(r, seq, ack, flags, data, n) ==
    /\ Answered(r)
    /\ r.tcp.seq = seq /\ r.tcp.ack = ack /\ r.tcp.flags = flags /\ r.tcp.data = data
    /\ TcpPayloadLen(r) = n

\* The buffer of the programs holds the answer to any frame of the client's.
LEMMA Emitted ==
    ASSUME NEW f, NEW seq, NEW ack, NEW flags, NEW data, NEW n, n \in 0..1460,
           Stack!EmitTcp(f, GCS_STACK_FRAME_CAP, seq, ack, flags, data, n)
    PROVE  Says(tx', seq, ack, flags, data, n)
  <1> DEFINE r == Stack!Segment(f, seq, ack, flags, data, n)
  <1>1. /\ r.len = 14 + 20 + 20 + n
        /\ r.ip.total_len = Stack!ToU16(20 + Stack!ToU16(20 + n)) /\ r.ip.ihl = 20
        /\ r.tcp.data_offset = 20
        /\ r.tcp.seq = seq /\ r.tcp.ack = ack /\ r.tcp.flags = flags /\ r.tcp.data = data
    BY DEF Stack!Segment, Stack!IpWrite, Stack!GCS_ETH_HDR_LEN, Stack!GCS_IPV4_MIN_HDR_LEN,
           Stack!GCS_TCP_MIN_HDR_LEN
  <1> HIDE DEF r
  <1>2. r.ip.total_len = 40 + n BY <1>1 DEF Stack!ToU16
  <1>3. TcpPayloadLen(r) = n BY <1>1, <1>2 DEF TcpPayloadLen, IpPayloadLen
  <1>4. GCS_STACK_FRAME_CAP >= r.len BY <1>1 DEF GCS_STACK_FRAME_CAP, GCS_ETH_HDR_LEN
  <1>5. tx' = r BY <1>4 DEF Stack!EmitTcp, r
  <1>6. Answered(r) BY <1>1 DEF Answered
  <1> QED BY <1>1, <1>3, <1>5, <1>6 DEF Says

\* A SYN opens a connection from its number on.
LEMMA SynAtListen ==
    ASSUME NEW f, NEW seq, FromClient(f, seq, {"SYN"}, NoData), client.port = ListenPort,
           ConnShape, conn.state = "LISTEN", Stack!HandleFrame(f, GCS_STACK_FRAME_CAP)
    PROVE  /\ ConnShape' /\ conn'.state = "SYN_RECEIVED"
           /\ conn'.bytes_received = conn.bytes_received
           /\ conn'.rcv_nxt = ToSeq(seq + 1) /\ conn'.snd_nxt = ToSeq(Iss + 1)
           /\ Says(tx', Iss, ToSeq(seq + 1), {"SYN", "ACK"}, NoData, 0)
  <1>1. /\ f.tcp.seq = seq /\ f.tcp.dst_port = ListenPort /\ Stack!TcpValid(f)
        /\ f.tcp.flags = {"SYN"}
    BY DEF FromClient
  <1>2. Stack!Listen(f, GCS_STACK_FRAME_CAP)
    BY <1>1, Dispatched DEF Stack!HandleTcp, Stack!ForConn, Stack!ClosedPort,
         Stack!SynReceived, Stack!ReceiveFin, Stack!ReceiveData, Stack!LastAck,
         Stack!IgnoreSegment
  <1>3. /\ conn' = [conn EXCEPT !.state = "SYN_RECEIVED", !.remote_ip = f.ip.src,
                                !.remote_port = f.tcp.src_port,
                                !.rcv_nxt = ToSeq(seq + 1), !.snd_nxt = ToSeq(Iss + 1)]
        /\ Stack!EmitTcp(f, GCS_STACK_FRAME_CAP, Iss, conn'.rcv_nxt, {"SYN", "ACK"},
                         NoData, 0)
    BY <1>1, <1>2, SameFrames DEF Stack!Listen
  <1>4. Says(tx', Iss, conn'.rcv_nxt, {"SYN", "ACK"}, NoData, 0) BY <1>3, Emitted
  <1> QED BY <1>3, <1>4 DEF ConnShape, ConnFields

\* Silence, and the numbers as they were.
Unheard ==
    /\ ConnShape' /\ ~Answered(tx')
    /\ conn'.snd_nxt = conn.snd_nxt /\ conn'.rcv_nxt = conn.rcv_nxt
    /\ conn'.bytes_received = conn.bytes_received

\* Whatever acknowledges opens the connection, and its payload is left.
LEMMA OpenedBy ==
    ASSUME NEW f, NEW seq, NEW flags, NEW data, FromClient(f, seq, flags, data),
           "ACK" \in flags, client.port = ListenPort, ConnShape,
           conn.state = "SYN_RECEIVED", Stack!HandleFrame(f, GCS_STACK_FRAME_CAP)
    PROVE  Unheard /\ conn'.state = "ESTABLISHED"
  <1>1. f.tcp.dst_port = ListenPort /\ Stack!TcpValid(f) /\ "ACK" \in f.tcp.flags
    BY DEF FromClient
  <1>2. Stack!SynReceived(f)
    BY <1>1, Dispatched DEF Stack!HandleTcp, Stack!ForConn, Stack!ClosedPort,
         Stack!Listen, Stack!ReceiveFin, Stack!ReceiveData, Stack!LastAck,
         Stack!IgnoreSegment
  <1>3. conn' = [conn EXCEPT !.state = "ESTABLISHED"] /\ tx' = Stack!NoReply
    BY <1>2 DEF Stack!SynReceived, Stack!Silent
  <1> QED BY <1>3 DEF ConnShape, ConnFields, Unheard, Answered, Stack!NoReply

\* An ACK that carries nothing ends LAST_ACK, and is ignored in the other states.
LEMMA AckHeard ==
    ASSUME NEW f, NEW seq, FromClient(f, seq, {"ACK"}, NoData),
           client.port = ListenPort, ConnShape,
           conn.state \in {"ESTABLISHED", "LAST_ACK", "CLOSED"},
           Stack!HandleFrame(f, GCS_STACK_FRAME_CAP)
    PROVE  Unheard /\ conn'.state = IF conn.state = "LAST_ACK" THEN "CLOSED" ELSE conn.state
  <1>1. /\ f.tcp.dst_port = ListenPort /\ Stack!TcpValid(f)
        /\ "ACK" \in f.tcp.flags /\ "SYN" \notin f.tcp.flags /\ "FIN" \notin f.tcp.flags
        /\ Stack!TcpPayloadLen(f) = 0
    BY SessionAssumption DEF FromClient
  <1>2. Stack!HandleTcp(f, GCS_STACK_FRAME_CAP) BY Dispatched
  <1>3. CASE conn.state = "LAST_ACK"
    <2>1. Stack!LastAck(f)
      BY <1>1, <1>2, <1>3 DEF Stack!HandleTcp, Stack!ForConn, Stack!ClosedPort,
           Stack!Listen, Stack!SynReceived, Stack!ReceiveFin, Stack!ReceiveData,
           Stack!IgnoreSegment
    <2>2. conn' = [conn EXCEPT !.state = "CLOSED"] /\ tx' = Stack!NoReply
      BY <2>1 DEF Stack!LastAck, Stack!Silent
    <2> QED BY <1>3, <2>2 DEF ConnShape, ConnFields, Unheard, Answered, Stack!NoReply
  <1>4. CASE conn.state \in {"ESTABLISHED", "CLOSED"}
    <2>1. Stack!IgnoreSegment(f)
      BY <1>1, <1>2, <1>4 DEF Stack!HandleTcp, Stack!ForConn, Stack!ClosedPort,
           Stack!Listen, Stack!SynReceived, Stack!ReceiveFin, Stack!ReceiveData,
           Stack!LastAck
    <2>2. conn' = conn /\ tx' = Stack!NoReply
      BY <2>1 DEF Stack!IgnoreSegment, Stack!Silent
    <2> QED BY <1>4, <2>2 DEF ConnShape, ConnFields, Unheard, Answered, Stack!NoReply
  <1> QED BY <1>3, <1>4

\* The three numbers after a chunk, and the other fields as they were.
LEMMA Counted ==
    ASSUME ConnShape, NEW rcv, NEW bytes, NEW snd,
           conn' = [conn EXCEPT !.rcv_nxt = rcv, !.bytes_received = bytes, !.snd_nxt = snd]
    PROVE  /\ ConnShape' /\ conn'.state = conn.state
           /\ conn'.bytes_received = bytes /\ conn'.rcv_nxt = rcv /\ conn'.snd_nxt = snd
  BY DEF ConnShape, ConnFields

\* A chunk is echoed, and counted in all three numbers.
LEMMA ChunkTaken ==
    ASSUME NEW f, NEW seq, NEW data, FromClient(f, seq, {"PSH", "ACK"}, data),
           NEW len, ChunkLen(len), LenOf[data] = len, client.port = ListenPort, ConnShape,
           conn.state = "ESTABLISHED", Stack!HandleFrame(f, GCS_STACK_FRAME_CAP)
    PROVE  /\ ConnShape' /\ conn'.state = "ESTABLISHED"
           /\ conn'.bytes_received = (conn.bytes_received + len) % BytesMod
           /\ conn'.rcv_nxt = ToSeq(seq + len) /\ conn'.snd_nxt = ToSeq(conn.snd_nxt + len)
           /\ Says(tx', conn.snd_nxt, conn'.rcv_nxt, {"ACK", "PSH"}, data, len)
  <1>1. /\ f.tcp.dst_port = ListenPort /\ Stack!TcpValid(f) /\ f.tcp.seq = seq
        /\ "ACK" \in f.tcp.flags /\ "SYN" \notin f.tcp.flags /\ "FIN" \notin f.tcp.flags
        /\ f.tcp.data = data
    BY DEF FromClient
  <1>2. Stack!TcpPayloadLen(f) = len BY DEF FromClient
  <1>3. Stack!HandleTcp(f, GCS_STACK_FRAME_CAP) BY Dispatched
  <1>4. Stack!ReceiveData(f, GCS_STACK_FRAME_CAP)
    <2>1. Stack!TcpPayloadLen(f) # 0 BY <1>2 DEF ChunkLen
    <2> QED BY <1>1, <1>3, <2>1 DEF Stack!HandleTcp, Stack!ForConn, Stack!ClosedPort,
         Stack!Listen, Stack!SynReceived, Stack!ReceiveFin, Stack!LastAck,
         Stack!IgnoreSegment
  <1>5. conn' = [conn EXCEPT !.rcv_nxt = Stack!ToSeq(f.tcp.seq + Stack!TcpPayloadLen(f)),
                             !.bytes_received = (@ + Stack!TcpPayloadLen(f)) % BytesMod,
                             !.snd_nxt = Stack!ToSeq(@ + Stack!TcpPayloadLen(f))]
    BY <1>4 DEF Stack!ReceiveData
  <1>6. Stack!EmitTcp(f, GCS_STACK_FRAME_CAP, conn.snd_nxt, conn'.rcv_nxt, {"ACK", "PSH"},
                      f.tcp.data, Stack!TcpPayloadLen(f))
    BY <1>4 DEF Stack!ReceiveData
  <1>7. Says(tx', conn.snd_nxt, conn'.rcv_nxt, {"ACK", "PSH"}, data, len)
    <2>1. Stack!EmitTcp(f, GCS_STACK_FRAME_CAP, conn.snd_nxt, conn'.rcv_nxt,
                        {"ACK", "PSH"}, data, len)
      BY <1>1, <1>2, <1>6
    <2>2. len \in 0..1460 BY DEF ChunkLen
    <2> QED BY <2>1, <2>2, Emitted
  <1> DEFINE rcv == Stack!ToSeq(f.tcp.seq + Stack!TcpPayloadLen(f))
             bytes == (conn.bytes_received + Stack!TcpPayloadLen(f)) % BytesMod
             snd == Stack!ToSeq(conn.snd_nxt + Stack!TcpPayloadLen(f))
  <1>8. /\ rcv = ToSeq(seq + len) /\ snd = ToSeq(conn.snd_nxt + len)
        /\ bytes = (conn.bytes_received + len) % BytesMod
    BY <1>1, <1>2, SameFrames
  <1>9. conn' = [conn EXCEPT !.rcv_nxt = rcv, !.bytes_received = bytes, !.snd_nxt = snd]
    BY <1>5
  <1> HIDE DEF rcv, bytes, snd
  <1>10. /\ ConnShape' /\ conn'.state = "ESTABLISHED"
         /\ conn'.bytes_received = bytes /\ conn'.rcv_nxt = rcv /\ conn'.snd_nxt = snd
    BY <1>9, Counted
  <1> QED BY <1>7, <1>8, <1>10

\* A FIN is answered by that of the stack.
LEMMA FinTaken ==
    ASSUME NEW f, NEW seq, FromClient(f, seq, {"FIN", "ACK"}, NoData),
           client.port = ListenPort, ConnShape,
           conn.state = "ESTABLISHED", Stack!HandleFrame(f, GCS_STACK_FRAME_CAP)
    PROVE  /\ ConnShape' /\ conn'.state = "LAST_ACK"
           /\ conn'.bytes_received = conn.bytes_received
           /\ conn'.rcv_nxt = ToSeq(seq + 1) /\ conn'.snd_nxt = conn.snd_nxt
           /\ Says(tx', conn.snd_nxt, conn'.rcv_nxt, {"FIN", "ACK"}, NoData, 0)
  <1>1. /\ f.tcp.dst_port = ListenPort /\ Stack!TcpValid(f) /\ f.tcp.seq = seq
        /\ f.tcp.flags = {"FIN", "ACK"}
    BY DEF FromClient
  <1>2. Stack!ReceiveFin(f, GCS_STACK_FRAME_CAP)
    BY <1>1, Dispatched DEF Stack!HandleTcp, Stack!ForConn, Stack!ClosedPort,
         Stack!Listen, Stack!SynReceived, Stack!ReceiveData, Stack!LastAck,
         Stack!IgnoreSegment
  <1>3. /\ conn' = [conn EXCEPT !.state = "LAST_ACK", !.rcv_nxt = ToSeq(seq + 1)]
        /\ Stack!EmitTcp(f, GCS_STACK_FRAME_CAP, conn.snd_nxt, conn'.rcv_nxt,
                         {"FIN", "ACK"}, NoData, 0)
    BY <1>1, <1>2, SameFrames DEF Stack!ReceiveFin
  <1>4. Says(tx', conn.snd_nxt, conn'.rcv_nxt, {"FIN", "ACK"}, NoData, 0)
    BY <1>3, Emitted
  <1> QED BY <1>3, <1>4 DEF ConnShape, ConnFields

-----------------------------------------------------------------------------
(***************************************************************************)
(* Positions and their numbers.                                            *)
(***************************************************************************)
\* What the assumptions say of the constants, in the form the proofs use it.
LEMMA Sizes ==
    /\ SeqSpace \in Nat /\ SeqSpace > 0 /\ BytesMod \in Nat /\ SeqSpace <= BytesMod
    /\ LastItem \in Nat /\ LastItem >= 1 /\ LastItem = Len(Chunks) + 1 /\ Len(Chunks) \in Nat
    /\ Iss \in Nat /\ Iss < SeqSpace
    /\ \A iss \in PeerIsses : iss \in Nat /\ iss < SeqSpace
  <1>1. /\ SeqSpace \in Nat /\ SeqSpace > 0
        /\ BytesMod \in Nat /\ BytesMod > 0 /\ BytesMod % SeqSpace = 0
    BY FramesAssumption, SessionAssumption DEF Stack!StackAssumption
  <1>2. BytesMod >= SeqSpace
    <2>1. ASSUME BytesMod < SeqSpace PROVE FALSE
      <3>1. BytesMod \in 0..(SeqSpace - 1) BY <1>1, <2>1
      <3>2. BytesMod % SeqSpace = BytesMod BY <1>1, <3>1, SMT
      <3> QED BY <1>1, <3>2
    <2> QED BY <1>1, <2>1
  <1>3. Len(Chunks) \in Nat BY SessionAssumption, LenProperties
  <1>4. /\ Iss \in 0..(SeqSpace - 1)
        /\ \A iss \in PeerIsses : iss \in 0..(SeqSpace - 1)
    BY SessionAssumption DEF SeqNo, Stack!StackAssumption, Stack!SeqNo
  <1> QED BY <1>1, <1>2, <1>3, <1>4, WidthRange DEF LastItem

\* The bytes before a position grow with it, by what the next thing takes.
LEMMA BytesGrow ==
    /\ Bytes(0) = 0
    /\ \A k \in Nat : k <= LastItem => /\ Bytes(k) \in Nat /\ Bytes(k) < SeqSpace
                                       /\ Bytes(k) <= Bytes(LastItem)
    /\ \A k \in Nat : k < LastItem => /\ Bytes(k + 1) = Bytes(k) + Width(k + 1)
                                      /\ Width(k + 1) \in Nat /\ Width(k + 1) > 0
    /\ \A j, k \in Nat : j <= k /\ k <= LastItem => Bytes(j) <= Bytes(k)
    /\ \A j, k \in Nat : j < k /\ k <= LastItem => Bytes(j) < Bytes(k)
  <1>1. ASSUME NEW k \in Nat, k <= LastItem
        PROVE  /\ Bytes(k) \in Nat /\ Bytes(k) < SeqSpace
               /\ Bytes(k) <= Bytes(LastItem)
    <2>1. k \in 0..LastItem /\ LastItem \in 0..LastItem BY <1>1, Sizes
    <2>2. /\ Bytes(k) \in Nat /\ Bytes(k) < SeqSpace /\ Bytes(LastItem) \in Nat
          /\ k < LastItem => Bytes(k) < Bytes(LastItem)
      BY <2>1, BytesRange
    <2>3. CASE k = LastItem BY <2>2, <2>3
    <2>4. CASE k # LastItem
      <3>1. k < LastItem BY <1>1, <2>4, Sizes
      <3> DEFINE x == Bytes(k)
                 y == Bytes(LastItem)
      <3>2. x \in Nat /\ y \in Nat /\ x < y BY <2>2, <3>1
      <3> HIDE DEF x, y
      <3>3. x <= y BY <3>2
      <3> QED BY <2>2, <3>3 DEF x, y
    <2> QED BY <2>3, <2>4
  <1>2. ASSUME NEW k \in Nat, k < LastItem
        PROVE  /\ Bytes(k + 1) = Bytes(k) + Width(k + 1)
               /\ Width(k + 1) \in Nat /\ Width(k + 1) > 0
    <2>1. k + 1 \in 1..LastItem BY <1>2, Sizes
    <2>2. Width(k + 1) \in Nat /\ Width(k + 1) >= 1 BY <2>1, WidthRange
    <2> DEFINE w == Width(k + 1)
    <2>3. w \in Nat /\ w >= 1 BY <2>2
    <2> HIDE DEF w
    <2>4. w > 0 BY <2>3
    <2> QED BY <2>2, <2>4, BytesNext DEF w
  <1>3. ASSUME NEW j \in Nat, NEW k \in Nat, j < k, k <= LastItem
        PROVE  Bytes(j) < Bytes(k)
    <2>1. j \in 0..LastItem /\ k \in 0..LastItem BY <1>3, Sizes
    <2> QED BY <1>3, <2>1, BytesRange
  <1>4. ASSUME NEW j \in Nat, NEW k \in Nat, j <= k, k <= LastItem
        PROVE  Bytes(j) <= Bytes(k)
    <2> DEFINE x == Bytes(j)
               y == Bytes(k)
    <2>1. j <= LastItem BY <1>4, Sizes
    <2>2. x \in Nat /\ y \in Nat /\ (j < k => x < y) /\ (j = k => x = y)
      BY <1>1, <1>3, <1>4, <2>1
    <2> HIDE DEF x, y
    <2>3. x <= y BY <1>4, <2>2
    <2> QED BY <2>3 DEF x, y
  <1> QED BY <1>1, <1>2, <1>3, <1>4, BytesNext

\* There is a widest thing.
LEMMA WidestIs ==
    /\ Widest \in Nat /\ \A k \in 1..LastItem : Width(k) <= Widest
    /\ \A n \in Nat : /\ Widest * n \in Nat /\ Widest * (n + 1) = Widest * n + Widest
                      /\ n > 0 => Widest <= Widest * n
  <1> DEFINE Bound(n, w) == /\ \A k \in 1..n : Width(k) <= w
                            /\ \E k \in 1..n : Width(k) = w
             S == {n \in Nat : n < LastItem => \E w \in Nat : Bound(n + 1, w)}
  <1>1. \A k \in 1..LastItem : Width(k) \in Nat BY WidthRange
  <1>2. 0 \in S
    <2>1. 1 \in 1..LastItem BY Sizes
    <2>2. Width(1) \in Nat BY <1>1, <2>1
    <2>3. \A k \in 1..(0 + 1) : k = 1 OBVIOUS
    <2>4. 1 \in 1..(0 + 1) OBVIOUS
    <2>5. Width(1) <= Width(1) BY <2>2
    <2>6. Bound(0 + 1, Width(1)) BY <2>3, <2>4, <2>5
    <2> QED BY <2>2, <2>6
  <1>3. ASSUME NEW n \in S PROVE n + 1 \in S
    <2> SUFFICES ASSUME n + 1 < LastItem PROVE \E w \in Nat : Bound((n + 1) + 1, w) OBVIOUS
    <2>1. n \in Nat /\ n < LastItem BY Sizes
    <2> DEFINE m == n + 1
    <2>2. PICK w \in Nat : Bound(m, w) BY <2>1
    <2>3. m \in Nat /\ m >= 1 /\ m + 1 \in 1..LastItem BY <2>1, Sizes
    <2> DEFINE v == Width(m + 1)
    <2>4. v \in Nat BY <1>1, <2>3
    <2> HIDE DEF m, v
    <2>5. \A k \in 1..(m + 1) : k \in 1..m \/ k = m + 1 BY <2>3
    <2>6. 1..m \subseteq 1..(m + 1) /\ m + 1 \in 1..(m + 1) BY <2>3
    <2>7. \A k \in 1..m : k \in 1..LastItem
      BY <2>3, Sizes
    <2>8. CASE v <= w
      <3>1. Bound(m + 1, w) BY <2>2, <2>5, <2>6, <2>8 DEF v
      <3> QED BY <3>1 DEF m
    <2>9. CASE w <= v
      <3>1. \A k \in 1..m : Width(k) <= v BY <1>1, <2>2, <2>4, <2>7, <2>9
      <3>2. v <= v BY <2>4
      <3>3. Bound(m + 1, v) BY <2>5, <2>6, <3>1, <3>2 DEF v
      <3> QED BY <2>4, <3>3 DEF m
    <2> QED BY <2>4, <2>8, <2>9
  <1> HIDE DEF S
  <1>4. S \in SUBSET Nat BY DEF S
  <1>5. S = Nat BY <1>2, <1>3, <1>4, Induction
  <1>6. \E w \in Nat : Bound(LastItem, w)
    <2>1. LastItem - 1 \in Nat /\ (LastItem - 1) + 1 = LastItem /\ LastItem - 1 < LastItem
      BY Sizes
    <2> HIDE DEF Bound
    <2>2. \E w \in Nat : Bound((LastItem - 1) + 1, w) BY <1>5, <2>1 DEF S
    <2> QED BY <2>1, <2>2
  <1> DEFINE T == {Width(i) : i \in 1..(Len(Chunks) + 1)}
  <1>7. Widest \in Nat /\ Bound(LastItem, Widest)
    <2>1. Widest = CHOOSE x \in T : \A y \in T : x >= y BY DEF Widest, Max
    <2>2. LastItem = Len(Chunks) + 1 BY DEF LastItem
    <2>3. PICK w \in Nat : Bound(LastItem, w) BY <1>6
    <2>4. w \in T /\ \A y \in T : w >= y BY <1>1, <2>2, <2>3
    <2>5. Widest \in T /\ \A y \in T : Widest >= y BY <2>1, <2>4
    <2> QED BY <1>1, <2>2, <2>5
  <1>8. ASSUME NEW n \in Nat, NEW w \in Nat
        PROVE  w * n \in Nat /\ w * (n + 1) = w * n + w /\ (n > 0 => w <= w * n)
    <2>1. w * n \in Nat /\ w * (n + 1) = w * n + w OBVIOUS
    <2>2. ASSUME n > 0 PROVE w <= w * n
      <3> DEFINE m == n - 1
                 p == w * m
      <3>1. m \in Nat /\ n = m + 1 BY <2>2
      <3> HIDE DEF m
      <3>2. p \in Nat /\ w * n = p + w BY <3>1
      <3> HIDE DEF p
      <3> QED BY <3>2
    <2> QED BY <2>1, <2>2
  <1> HIDE DEF Bound
  <1>9. \A k \in 1..LastItem : Width(k) <= Widest BY <1>7 DEF Bound
  <1> QED BY <1>7, <1>8, <1>9

\* Less than once around apart, and what the reduced numbers tell of it.
Near(j, k) == j < k /\ k - j < SeqSpace

Apart(base, j, k) ==
    /\ ToSeq(base + j) # ToSeq(base + k)
    /\ ToSeq(ToSeq(base + j) - ToSeq(base + k)) = SeqSpace - (k - j)

\* Two numbers less than once around apart differ, and the distance tells by how much.
LEMMA SeqApart ==
    ASSUME NEW base \in Int, NEW j \in Nat, NEW k \in Nat, Near(j, k)
    PROVE  Apart(base, j, k)
  <1> DEFINE m == SeqSpace
             x == base + j
             y == base + k
             d == (x % m) - (y % m)
  <1>1. m \in Nat /\ m > 0 BY FramesAssumption
  <1> HIDE DEF m
  <1>2. x \in Int /\ y \in Int /\ x - y = j - k BY DEF x, y
  <1> HIDE DEF x, y
  <1> DEFINE p == x \div m
             q == y \div m
             u == x % m
             v == y % m
  <1>3. /\ p \in Int /\ x = m * p + u /\ u \in Int
        /\ q \in Int /\ y = m * q + v /\ v \in Int
    BY <1>1, <1>2, ModSplit, ModRange
  <1> HIDE DEF p, q, u, v
  <1> DEFINE i == q - p - 1
             r == m - (k - j)
  <1>4. d = m * i + r /\ i \in Int /\ r \in 0..(m - 1) /\ d \in Int
    <2> DEFINE mp == m * p
               mq == m * q
    <2>1. mp \in Int /\ mq \in Int /\ x = mp + u /\ y = mq + v BY <1>1, <1>3
    <2>2. m * i = mq - mp - m BY <1>1, <1>3
    <2> HIDE DEF mp, mq
    <2>3. d = u - v /\ u - v = mq - mp + (j - k) BY <1>2, <1>3, <2>1 DEF u, v
    <2>4. i \in Int BY <1>3
    <2>5. j < k /\ k - j < m BY DEF m, Near
    <2>6. r \in 0..(m - 1) BY <1>1, <2>5
    <2>7. m * i + r = mq - mp + (j - k)
      <3> DEFINE mi == m * i
      <3>1. mi = mq - mp - m BY <2>2
      <3> HIDE DEF mi, i
      <3>2. mi + r = mq - mp + (j - k) BY <1>1, <2>1, <3>1
      <3> QED BY <3>2 DEF mi
    <2>8. d \in Int BY <1>3, <2>3
    <2> HIDE DEF d, i, r
    <2> QED BY <2>3, <2>4, <2>6, <2>7, <2>8
  <1> HIDE DEF d, i, r
  <1>5. d % m = r BY <1>1, <1>4, ModUnique
  <1>6. r > 0 /\ r \in Int
    <2>1. j < k /\ k - j < m BY DEF m, Near
    <2> QED BY <1>1, <2>1 DEF r
  <1>7. d # 0
    <2>1. ASSUME d = 0 PROVE FALSE
      <3>1. 0 = m * 0 + 0 /\ 0 \in 0..(m - 1) BY <1>1
      <3>2. 0 % m = 0
        <4> DEFINE z == 0
        <4>1. z = m * z + z /\ z \in 0..(m - 1) /\ z \in Int BY <1>1
        <4> HIDE DEF z
        <4>2. z % m = z BY <1>1, <4>1, ModUnique
        <4> QED BY <4>2 DEF z
      <3> QED BY <1>5, <1>6, <2>1, <3>2
    <2> QED BY <2>1
  <1>8. x % m # y % m
    <2>1. ASSUME x % m = y % m PROVE FALSE
      <3>1. v - v = 0 BY <1>3
      <3>2. d = 0 BY <2>1, <3>1 DEF d, v
      <3> QED BY <1>7, <3>2
    <2> QED BY <2>1
  <1> QED BY <1>5, <1>8 DEF Apart, ToSeq, d, m, x, y, r
\* The client's and the stack's number after each thing, all of them different.
LEMMA Numbers ==
    ASSUME ClientShape
    PROVE  /\ client.iss \in Nat /\ ToSeq(client.iss) = client.iss
           /\ ClientSeq(0) = ToSeq(client.iss + 1) /\ StackSeq(0) = ToSeq(Iss + 1)
           /\ Iss # StackSeq(0)
           /\ \A k \in Nat : k < LastItem =>
                /\ ToSeq(ClientSeq(k) + Width(k + 1)) = ClientSeq(k + 1)
                /\ ToSeq(StackSeq(k) + Width(k + 1)) = StackSeq(k + 1)
                /\ StartOf(client, k + 1) = ClientSeq(k)
           /\ \A j, k \in Nat : j < k /\ k <= LastItem =>
                ClientSeq(j) # ClientSeq(k) /\ StackSeq(j) # StackSeq(k)
  <1>1. /\ client.iss \in Nat /\ client.iss < SeqSpace
        /\ Iss \in Nat /\ Iss < SeqSpace /\ LastItem \in Nat
        /\ SeqSpace \in Nat /\ SeqSpace > 1
    BY Sizes, FramesAssumption DEF ClientShape
  <1>2. ASSUME NEW base \in Nat, NEW k \in Nat, k < LastItem
        PROVE  ToSeq(ToSeq(base + 1 + Bytes(k)) + Width(k + 1)) = ToSeq(base + 1 + Bytes(k + 1))
    <2> DEFINE a == base + 1 + Bytes(k)
               b == Width(k + 1)
    <2>1. /\ Bytes(k) \in Nat /\ Width(k + 1) \in Nat
          /\ Bytes(k + 1) = Bytes(k) + Width(k + 1)
      BY <1>1, <1>2, BytesGrow
    <2>2. a \in Int /\ b \in Int /\ a + b = base + 1 + Bytes(k + 1) BY <2>1
    <2> HIDE DEF a, b
    <2>3. ToSeq(ToSeq(a) + b) = ToSeq(a + b) BY <2>2, SeqSum
    <2> QED BY <2>2, <2>3 DEF a, b
  <1>3. ASSUME NEW base \in Nat, NEW j \in Nat, NEW k \in Nat, j < k, k <= LastItem
        PROVE  ToSeq(base + 1 + Bytes(j)) # ToSeq(base + 1 + Bytes(k))
    <2> DEFINE a == base + 1
               x == Bytes(j)
               y == Bytes(k)
    <2>1. j <= LastItem BY <1>1, <1>3
    <2>2. x \in Nat /\ y \in Nat /\ x < y /\ y < SeqSpace BY <1>3, <2>1, BytesGrow
    <2>3. a \in Int OBVIOUS
    <2> HIDE DEF a, x, y
    <2>4. y - x < SeqSpace BY <1>1, <2>2
    <2>5. Near(x, y) BY <2>2, <2>4 DEF Near
    <2>6. Apart(a, x, y) BY <2>2, <2>3, <2>5, SeqApart
    <2> QED BY <2>6 DEF Apart, a, x, y
  <1>4. Iss # ToSeq(Iss + 1)
    <2>1. Iss \in 0..(SeqSpace - 1) BY <1>1
    <2>2. ToSeq(Iss) = Iss BY <1>1, <2>1, SMT DEF ToSeq
    <2>3. Iss \in Int /\ 0 \in Nat /\ 1 \in Nat /\ Near(0, 1) BY <1>1 DEF Near
    <2>4. Apart(Iss, 0, 1) BY <2>3, SeqApart
    <2>5. ToSeq(Iss + 0) # ToSeq(Iss + 1) BY <2>4 DEF Apart
    <2>6. Iss + 0 = Iss BY <1>1
    <2> QED BY <2>2, <2>5, <2>6
  <1>5. ToSeq(client.iss) = client.iss
    <2> DEFINE i == client.iss
    <2>1. i \in 0..(SeqSpace - 1) /\ SeqSpace \in Nat BY <1>1
    <2> HIDE DEF i
    <2>2. ToSeq(i) = i BY <2>1, SMT DEF ToSeq
    <2> QED BY <2>2 DEF i
  <1>6. /\ ClientSeq(0) = ToSeq(client.iss + 1) /\ StackSeq(0) = ToSeq(Iss + 1)
    <2>1. client.iss + 1 + 0 = client.iss + 1 /\ Iss + 1 + 0 = Iss + 1 BY <1>1
    <2> QED BY <2>1, BytesGrow DEF ClientSeq, StackSeq
  <1>7. \A k \in Nat : (k + 1) - 1 = k OBVIOUS
  <1> QED BY <1>1, <1>2, <1>3, <1>4, <1>5, <1>6, <1>7 DEF ClientSeq, StackSeq, StartOf

\* Another client's number after its SYN is not this one's.
LEMMA OtherIss ==
    ASSUME NEW i \in Nat, NEW j \in Nat, i < SeqSpace, j < SeqSpace, i # j
    PROVE  ToSeq(i + 1) # ToSeq(j + 1)
  <1>1. SeqSpace \in Nat /\ SeqSpace > 0 BY FramesAssumption
  <1>2. ASSUME NEW x \in Nat, NEW y \in Nat, x < y, y < SeqSpace
        PROVE  ToSeq(x + 1) # ToSeq(y + 1)
    <2>1. Near(x, y) /\ 1 \in Int BY <1>1, <1>2 DEF Near
    <2>2. Apart(1, x, y) BY <2>1, SeqApart
    <2>3. ToSeq(1 + x) # ToSeq(1 + y) BY <1>2, <2>2 DEF Apart
    <2>4. 1 + x = x + 1 /\ 1 + y = y + 1 OBVIOUS
    <2> QED BY <2>3, <2>4
  <1>3. i < j \/ j < i OBVIOUS
  <1> QED BY <1>2, <1>3

\* What the client makes of an acknowledgement of anything it has sent: it never goes back.
LEMMA NewUnaIs ==
    ASSUME ClientShape, NEW a \in Nat, NEW j \in Nat, NEW s \in Nat, a <= s, j <= s,
           s <= LastItem, client.snd_una = ClientSeq(a), client.snd_nxt = ClientSeq(s)
    PROVE  NewUna(client, ClientSeq(j)) = ClientSeq(IF a <= j THEN j ELSE a)
  <1> DEFINE base == client.iss + 1
             ba == Bytes(a)
             bj == Bytes(j)
             bs == Bytes(s)
  <1>1. client.iss \in Nat /\ LastItem \in Nat /\ SeqSpace \in Nat BY Numbers, Sizes
  <1>2. a <= LastItem /\ j <= LastItem BY <1>1
  <1>3. /\ ba \in Nat /\ bj \in Nat /\ bs \in Nat /\ bs < SeqSpace /\ base \in Int
        /\ ba <= bs /\ bj <= bs /\ (a <= j => ba <= bj) /\ (j < a => bj < ba)
    BY <1>1, <1>2, BytesGrow
  <1>4. /\ ClientSeq(a) = ToSeq(base + ba) /\ ClientSeq(j) = ToSeq(base + bj)
        /\ ClientSeq(s) = ToSeq(base + bs)
    BY DEF ClientSeq
  <1> HIDE DEF base, ba, bj, bs
  <1>5. ToSeq(ToSeq(base + bs) - ToSeq(base + ba)) = bs - ba BY <1>3, SeqDistance
  <1>6. CASE a <= j
    <2>1. bj < SeqSpace BY <1>1, <1>3
    <2>2. ToSeq(ToSeq(base + bj) - ToSeq(base + ba)) = bj - ba
      BY <1>3, <1>6, <2>1, SeqDistance
    <2>3. bj - ba <= bs - ba BY <1>3
    <2> QED BY <1>4, <1>5, <1>6, <2>2, <2>3 DEF NewUna
  <1>7. CASE j < a
    <2>1. Near(bj, ba) BY <1>1, <1>3, <1>7 DEF Near
    <2>2. Apart(base, bj, ba) BY <1>3, <2>1, SeqApart
    <2>3. ~(SeqSpace - (ba - bj) <= bs - ba) BY <1>1, <1>3
    <2>4. ~(a <= j) BY <1>7
    <2>5. ToSeq(ToSeq(base + bj) - ToSeq(base + ba)) = SeqSpace - (ba - bj)
      BY <2>2 DEF Apart
    <2> QED BY <1>4, <1>5, <2>3, <2>4, <2>5 DEF NewUna
  <1> QED BY <1>6, <1>7

-----------------------------------------------------------------------------
(***************************************************************************)
(* Rows of numbers, one for each frame of a queue.                         *)
(***************************************************************************)
\* They never go down.
LEMMA RowsGrow ==
    ASSUME NEW n \in Nat, NEW from \in Nat, NEW to \in Nat, NEW at \in Rows(n, from, to)
    PROVE  /\ at[0] = from /\ at[n] = to /\ from <= to
           /\ \A k \in 0..n : at[k] \in Nat /\ from <= at[k] /\ at[k] <= to
           /\ \A k \in 1..n : at[k] = at[k - 1] \/ at[k] = at[k - 1] + 1
           /\ \A j, k \in 0..n : j <= k => at[j] <= at[k]
  <1>1. /\ at \in [0..n -> from..to] /\ at[0] = from /\ at[n] = to
        /\ \A k \in 1..n : at[k] = at[k - 1] \/ at[k] = at[k - 1] + 1
    BY DEF Rows
  <1>2. \A k \in 0..n : at[k] \in Nat /\ from <= at[k] /\ at[k] <= to BY <1>1
  <1> DEFINE S == {k \in Nat : k <= n => \A j \in 0..k : at[j] <= at[k]}
  <1>3. 0 \in S
    <2>1. \A j \in 0..0 : j = 0 OBVIOUS
    <2>2. at[0] <= at[0] BY <1>1
    <2> QED BY <2>1, <2>2
  <1>4. ASSUME NEW k \in S PROVE k + 1 \in S
    <2> SUFFICES ASSUME k + 1 <= n, NEW j \in 0..(k + 1) PROVE at[j] <= at[k + 1] OBVIOUS
    <2>1. k \in Nat /\ k <= n /\ k + 1 \in 1..n /\ (k + 1) - 1 = k OBVIOUS
    <2>2. at[k + 1] = at[k] \/ at[k + 1] = at[k] + 1 BY <1>1, <2>1
    <2>3. k \in 0..n /\ k + 1 \in 0..n /\ j \in 0..n BY <2>1
    <2>4. at[k] \in Nat /\ at[j] \in Nat /\ at[k + 1] \in Nat BY <1>2, <2>3
    <2>5. CASE j = k + 1 BY <2>4, <2>5
    <2>6. CASE j # k + 1
      <3>1. j \in 0..k BY <2>1, <2>6
      <3>2. at[j] <= at[k] BY <2>1, <3>1
      <3> QED BY <2>2, <2>4, <3>2
    <2> QED BY <2>5, <2>6
  <1> HIDE DEF S
  <1>5. S \in SUBSET Nat BY DEF S
  <1>6. S = Nat BY <1>3, <1>4, <1>5, Induction
  <1>7. \A j, k \in 0..n : j <= k => at[j] <= at[k]
    <2> TAKE j \in 0..n
    <2> TAKE k \in 0..n
    <2> HAVE j <= k
    <2>1. k \in S /\ k <= n /\ j \in 0..k BY <1>6
    <2> QED BY <2>1 DEF S
  <1>8. from <= to
    <2>1. 0 \in 0..n BY <1>1
    <2> QED BY <1>1, <1>2, <2>1
  <1> QED BY <1>1, <1>2, <1>7, <1>8

\* The row of a queue of which nothing has moved on.
LEMMA RowsFlat ==
    ASSUME NEW n \in Nat, NEW c \in Nat
    PROVE  [k \in 0..n |-> c] \in Rows(n, c, c)
  <1> DEFINE at == [k \in 0..n |-> c]
  <1>1. 0 \in 0..n /\ n \in 0..n /\ c \in c..c OBVIOUS
  <1>2. \A k \in 1..n : k \in 0..n /\ k - 1 \in 0..n OBVIOUS
  <1>3. at \in [0..n -> c..c] BY <1>1
  <1>4. \A k \in 0..n : at[k] = c OBVIOUS
  <1> HIDE DEF at
  <1>5. \A k \in 1..n : at[k] = at[k - 1] BY <1>2, <1>4
  <1>6. at[0] = c /\ at[n] = c BY <1>1, <1>4
  <1>7. at \in Rows(n, c, c) BY <1>3, <1>5, <1>6 DEF Rows
  <1> QED BY <1>7 DEF at

\* The first step of a row is gone, and x comes before the others.
Shifted(n, at, x) == [k \in 0..(n - 1) |-> IF k = 0 THEN x ELSE at[k + 1]]

\* The row of a queue the first frame has left, or whose first frame is doubled, and that
\* of a queue another frame has joined.
LEMMA RowsTail ==
    ASSUME NEW n \in Nat, n > 0, NEW from \in Nat, NEW to \in Nat,
           NEW at \in Rows(n, from, to),
           NEW x \in Nat, x <= to, NEW next, next = Shifted(n, at, x),
           n = 1 => x = to,
           n > 1 => at[2] = x \/ at[2] = x + 1
    PROVE  /\ next \in Rows(n - 1, x, to)
           /\ next[0] = x /\ \A k \in 1..(n - 1) : next[k] = at[k + 1]
  <1>1. /\ at[n] = to
        /\ \A k \in 0..n : at[k] \in Nat /\ at[k] <= to
        /\ \A k \in 1..n : at[k] = at[k - 1] \/ at[k] = at[k - 1] + 1
        /\ \A j, k \in 0..n : j <= k => at[j] <= at[k]
    BY RowsGrow
  <1>2. next[0] = x /\ \A k \in 1..(n - 1) : next[k] = at[k + 1] BY DEF Shifted
  <1>3. ASSUME NEW k \in 0..(n - 1) PROVE next[k] \in x..to
    <2>1. CASE k = 0 BY <1>2, <2>1
    <2>2. CASE k # 0
      <3>1. k \in 1..(n - 1) /\ k + 1 \in 0..n /\ 2 \in 0..n /\ 2 <= k + 1 /\ n > 1 BY <2>2
      <3>2. next[k] = at[k + 1] /\ at[k + 1] \in Nat /\ at[k + 1] <= to BY <1>1, <1>2, <3>1
      <3>3. at[2] <= at[k + 1] /\ at[2] \in Nat /\ x <= at[2] BY <1>1, <3>1
      <3>4. x <= at[k + 1] BY <3>2, <3>3
      <3> QED BY <3>2, <3>4
    <2> QED BY <2>1, <2>2
  <1>4. next \in [0..(n - 1) -> x..to] BY <1>3 DEF Shifted
  <1>5. next[n - 1] = to
    <2>1. CASE n = 1 BY <1>2, <2>1
    <2>2. CASE n # 1
      <3>1. n - 1 \in 1..(n - 1) /\ (n - 1) + 1 = n BY <2>2
      <3> QED BY <1>1, <1>2, <3>1
    <2> QED BY <2>1, <2>2
  <1>6. ASSUME NEW k \in 1..(n - 1) PROVE next[k] = next[k - 1] \/ next[k] = next[k - 1] + 1
    <2>1. CASE k = 1
      <3>1. k - 1 = 0 /\ k + 1 = 2 /\ n > 1 BY <2>1
      <3> QED BY <1>2, <2>1, <3>1
    <2>2. CASE k # 1
      <3>1. k - 1 \in 1..(n - 1) /\ (k - 1) + 1 = k /\ k + 1 \in 1..n /\ (k + 1) - 1 = k
        BY <2>2
      <3>2. next[k] = at[k + 1] /\ next[k - 1] = at[k] BY <1>2, <3>1
      <3> QED BY <1>1, <3>1, <3>2
    <2> QED BY <2>1, <2>2
  <1> QED BY <1>2, <1>4, <1>5, <1>6 DEF Rows

\* The first step of a row may be taken twice, the second time without going up.
LEMMA RowsDouble ==
    ASSUME NEW n \in Nat, n > 0, NEW from \in Nat, NEW to \in Nat,
           NEW at \in Rows(n, from, to)
    PROVE  \E next \in Rows(n + 1, from, to) :
             /\ next[0] = from /\ next[1] = at[1]
             /\ \A k \in 1..n : next[k + 1] = at[k]
  <1> PICK next : next = [k \in 0..(n + 1) |-> IF k = 0 THEN from ELSE
                                               IF k = 1 THEN at[1] ELSE at[k - 1]]
    OBVIOUS
  <1>1. /\ at[n] = to /\ at[0] = from /\ from <= to
        /\ \A k \in 0..n : at[k] \in Nat /\ from <= at[k] /\ at[k] <= to
        /\ \A k \in 1..n : at[k] = at[k - 1] \/ at[k] = at[k - 1] + 1
    BY RowsGrow
  <1>2. next[0] = from /\ next[1] = at[1] /\ 1 \in 1..n OBVIOUS
  <1>3. ASSUME NEW k \in 1..n PROVE next[k + 1] = at[k]
    <2>1. k + 1 \in 0..(n + 1) /\ k + 1 # 0 /\ k + 1 # 1 /\ (k + 1) - 1 = k OBVIOUS
    <2> QED BY <2>1
  <1>4. ASSUME NEW k \in 0..(n + 1) PROVE next[k] \in from..to
    <2>1. CASE k = 0 BY <1>1, <1>2, <2>1
    <2>2. CASE k = 1
      <3>1. 1 \in 0..n OBVIOUS
      <3> QED BY <1>1, <1>2, <2>2, <3>1
    <2>3. CASE k \notin {0, 1}
      <3>1. k - 1 \in 1..n /\ (k - 1) + 1 = k /\ k - 1 \in 0..n BY <2>3
      <3>2. next[k] = at[k - 1] BY <1>3, <3>1
      <3>3. at[k - 1] \in Nat /\ from <= at[k - 1] /\ at[k - 1] <= to BY <1>1, <3>1
      <3> QED BY <3>2, <3>3
    <2> QED BY <2>1, <2>2, <2>3
  <1>5. next \in [0..(n + 1) -> from..to] BY <1>4
  <1>6. next[n + 1] = to
    <2>1. n \in 1..n OBVIOUS
    <2> QED BY <1>1, <1>3, <2>1
  <1>7. ASSUME NEW k \in 1..(n + 1) PROVE next[k] = next[k - 1] \/ next[k] = next[k - 1] + 1
    <2>1. CASE k = 1
      <3>1. k - 1 = 0 /\ 1 - 1 = 0 BY <2>1
      <3>2. at[1] = at[0] \/ at[1] = at[0] + 1 BY <1>1, <1>2, <3>1
      <3> QED BY <1>1, <1>2, <2>1, <3>1, <3>2
    <2>2. CASE k = 2
      <3>1. k - 1 = 1 /\ 1 + 1 = 2 BY <2>2
      <3>2. next[2] = at[1] BY <1>2, <1>3, <3>1
      <3> QED BY <1>2, <2>2, <3>1, <3>2
    <2>3. CASE k \notin {1, 2}
      <3>1. k - 1 \in 1..n /\ (k - 1) + 1 = k /\ k - 2 \in 1..n /\ (k - 2) + 1 = k - 1
            /\ (k - 1) - 1 = k - 2
        BY <2>3
      <3>2. next[k] = at[k - 1] /\ next[k - 1] = at[k - 2] BY <1>3, <3>1
      <3>3. at[k - 1] = at[(k - 1) - 1] \/ at[k - 1] = at[(k - 1) - 1] + 1 BY <1>1, <3>1
      <3> QED BY <3>1, <3>2, <3>3
    <2> QED BY <2>1, <2>2, <2>3
  <1>8. next \in Rows(n + 1, from, to) BY <1>2, <1>5, <1>6, <1>7 DEF Rows
  <1>9. next[0] = from /\ next[1] = at[1] /\ \A k \in 1..n : next[k + 1] = at[k]
    BY <1>2, <1>3
  <1> QED BY <1>8, <1>9, Zenon

\* A row goes on where it ends, by one or not at all.
LEMMA RowsAppend ==
    ASSUME NEW n \in Nat, NEW from \in Nat, NEW to \in Nat, NEW at \in Rows(n, from, to),
           NEW last \in Nat, last = to \/ last = to + 1,
           NEW next, next = [k \in 0..(n + 1) |-> IF k <= n THEN at[k] ELSE last]
    PROVE  /\ next \in Rows(n + 1, from, last)
           /\ next[n + 1] = last /\ \A k \in 0..n : next[k] = at[k]
  <1>1. /\ at[n] = to /\ at[0] = from /\ from <= to
        /\ \A k \in 0..n : at[k] \in Nat /\ from <= at[k] /\ at[k] <= to
        /\ \A k \in 1..n : at[k] = at[k - 1] \/ at[k] = at[k - 1] + 1
    BY RowsGrow
  <1>2. next[n + 1] = last
    <2>1. n + 1 \in 0..(n + 1) /\ ~(n + 1 <= n) OBVIOUS
    <2> QED BY <2>1
  <1>3. ASSUME NEW k \in 0..n PROVE next[k] = at[k]
    <2>1. k \in 0..(n + 1) /\ k <= n OBVIOUS
    <2> QED BY <2>1
  <1>4. ASSUME NEW k \in 0..(n + 1) PROVE next[k] \in from..last
    <2>1. CASE k = n + 1
      <3>1. from <= last BY <1>1
      <3> QED BY <1>2, <2>1, <3>1
    <2>2. CASE k # n + 1
      <3>1. k \in 0..n BY <2>2
      <3>2. next[k] = at[k] /\ at[k] \in Nat /\ from <= at[k] /\ at[k] <= to
        BY <1>1, <1>3, <3>1
      <3> QED BY <3>2
    <2> QED BY <2>1, <2>2
  <1>5. next \in [0..(n + 1) -> from..last] BY <1>4
  <1>6. next[0] = from
    <2>1. 0 \in 0..n OBVIOUS
    <2> QED BY <1>1, <1>3, <2>1
  <1>7. ASSUME NEW k \in 1..(n + 1) PROVE next[k] = next[k - 1] \/ next[k] = next[k - 1] + 1
    <2>1. CASE k = n + 1
      <3>1. k - 1 = n /\ n \in 0..n BY <2>1
      <3>2. next[k - 1] = to BY <1>1, <1>3, <3>1
      <3> QED BY <1>2, <2>1, <3>2
    <2>2. CASE k # n + 1
      <3>1. k \in 1..n /\ k \in 0..n /\ k - 1 \in 0..n BY <2>2
      <3> QED BY <1>1, <1>3, <3>1
    <2> QED BY <2>1, <2>2
  <1> QED BY <1>2, <1>3, <1>5, <1>6, <1>7 DEF Rows
-----------------------------------------------------------------------------
(***************************************************************************)
(* The stack and the frames of a session.                                  *)
(***************************************************************************)
\* Frames are told by the port and the initial number of the client, which it keeps.
LEMMA SameSession ==
    ASSUME client'.iss = client.iss, client'.port = client.port
    PROVE  /\ \A k : ClientSeq(k)' = ClientSeq(k) /\ StackSeq(k)' = StackSeq(k)
           /\ \A f : FromPort(f)' = FromPort(f) /\ Harmless(f)' = Harmless(f)
           /\ \A f, flags : Bare(f, flags)' = Bare(f, flags)
           /\ \A f, i : Thing(f, i)' = Thing(f, i)
           /\ \A r, i : Answer(r, i)' = Answer(r, i)
  <1>1. \A k : ClientSeq(k)' = ClientSeq(k) /\ StackSeq(k)' = StackSeq(k)
    BY DEF ClientSeq, StackSeq
  <1>2. \A seq, ack, flags, data :
          ClientFrame(client, seq, ack, flags, data)' = ClientFrame(client, seq, ack, flags, data)
    BY DEF ClientFrame
  <1>3. \A f, flags : Bare(f, flags)' = Bare(f, flags) BY <1>2 DEF Bare
  <1>4. \A f : FromPort(f)' = FromPort(f) /\ Harmless(f)' = Harmless(f)
    BY <1>2, <1>3 DEF FromPort, Harmless
  <1>5. \A f, i : Thing(f, i)' = Thing(f, i) BY <1>1, <1>2 DEF Thing
  <1>6. \A r, i : Answer(r, i)' = Answer(r, i) BY <1>1 DEF Answer
  <1> QED BY <1>1, <1>3, <1>4, <1>5, <1>6

\* Nothing fits any frame.
LEMMA NoDataFits == Fits(NoData) /\ LenOf[NoData] = 0
  BY SessionAssumption DEF Fits

\* What the stack reads in a segment that carries nothing.
LEMMA BareRead ==
    ASSUME NEW f, NEW flags, Bare(f, flags)
    PROVE  /\ \E seq : FromClient(f, seq, flags, NoData)
           /\ TcpPayloadLen(f) = 0 /\ FromPort(f)
  <1>1. PICK seq, ack : f = ClientFrame(client, seq, ack, flags, NoData) BY DEF Bare
  <1>2. FromClient(f, seq, flags, NoData)
    <2>1. FromClient(ClientFrame(client, seq, ack, flags, NoData), seq, flags, NoData)
      BY NoDataFits, ClientFrameRead
    <2> QED BY <1>1, <2>1
  <1>3. TcpPayloadLen(f) = 0
    <2>1. Stack!TcpPayloadLen(f) = LenOf[NoData] BY <1>2 DEF FromClient
    <2> QED BY <2>1, NoDataFits, SameFrames
  <1> QED BY <1>1, <1>2, <1>3, NoDataFits DEF FromPort

\* A chunk fits a frame.
LEMMA ChunkSizes ==
    ASSUME NEW i \in Nat, 1 <= i, i < LastItem
    PROVE  /\ ChunkLen(Width(i)) /\ LenOf[Chunks[i]] = Width(i) /\ Fits(Chunks[i])
           /\ Width(i) \in Nat /\ Width(i) > 0
  <1>1. i \in 1..Len(Chunks) /\ i <= Len(Chunks) BY Sizes
  <1>2. Width(i) = LenOf[Chunks[i]] BY <1>1 DEF Width
  <1> DEFINE cap == GCS_STACK_FRAME_CAP - 54
             len == LenOf[Chunks[i]]
  <1>3. cap = 1460 BY DEF GCS_STACK_FRAME_CAP, GCS_ETH_HDR_LEN
  <1>4. \A k \in 1..Len(Chunks) : LenOf[Chunks[k]] \in 1..cap BY SessionAssumption
  <1> HIDE DEF cap
  <1>5. len \in 1..cap BY <1>1, <1>4
  <1> HIDE DEF len
  <1>6. ChunkLen(len) /\ len \in 0..1460 /\ len \in Nat /\ len > 0
    <2>1. len \in 1..1460 BY <1>3, <1>5
    <2>2. PICK m \in 1..1460 : m = len BY <2>1
    <2>3. m \in 0..1460 /\ m \in Nat /\ m > 0 OBVIOUS
    <2> QED BY <2>1, <2>2, <2>3 DEF ChunkLen
  <1>7. Fits(Chunks[i]) BY <1>6 DEF Fits, len
  <1> QED BY <1>2, <1>6, <1>7 DEF len

\* What a chunk, or the FIN, is to the stack.
LEMMA ThingRead ==
    ASSUME NEW f, NEW i \in Nat, 1 <= i, i <= LastItem, Thing(f, i)
    PROVE  /\ FromPort(f)
           /\ i < LastItem => /\ FromClient(f, ClientSeq(i - 1), {"PSH", "ACK"}, Chunks[i])
                              /\ TcpPayloadLen(f) # 0
           /\ i = LastItem => /\ FromClient(f, ClientSeq(i - 1), {"FIN", "ACK"}, NoData)
                              /\ TcpPayloadLen(f) = 0
  <1>1. CASE i < LastItem
    <2>1. PICK ack : f = ClientFrame(client, ClientSeq(i - 1), ack, {"PSH", "ACK"}, Chunks[i])
      BY <1>1 DEF Thing
    <2>2. Fits(Chunks[i]) /\ LenOf[Chunks[i]] \in Nat /\ LenOf[Chunks[i]] > 0
      BY <1>1, ChunkSizes
    <2>3. FromClient(f, ClientSeq(i - 1), {"PSH", "ACK"}, Chunks[i])
      BY <2>1, <2>2, ClientFrameRead
    <2>4. TcpPayloadLen(f) = LenOf[Chunks[i]] BY <2>3, SameFrames DEF FromClient
    <2>5. TcpPayloadLen(f) # 0
      <3> DEFINE len == LenOf[Chunks[i]]
      <3>1. len \in Nat /\ len > 0 BY <2>2
      <3> HIDE DEF len
      <3>2. len # 0 BY <3>1
      <3> QED BY <2>4, <3>2 DEF len
    <2>6. FromPort(f) BY <2>1, <2>2 DEF FromPort
    <2>7. i # LastItem BY <1>1
    <2> QED BY <2>3, <2>5, <2>6, <2>7
  <1>2. CASE i = LastItem
    <2>1. ~(i < LastItem) BY <1>2
    <2>2. PICK ack : f = ClientFrame(client, ClientSeq(i - 1), ack, {"FIN", "ACK"}, NoData)
      BY <2>1 DEF Thing
    <2>3. FromClient(f, ClientSeq(i - 1), {"FIN", "ACK"}, NoData)
      BY <2>2, NoDataFits, ClientFrameRead
    <2>4. TcpPayloadLen(f) = 0 BY <2>3, NoDataFits, SameFrames DEF FromClient
    <2> QED BY <2>1, <2>2, <2>3, <2>4, NoDataFits DEF FromPort
  <1> QED BY <1>1, <1>2, Sizes

\* And the client sends it so.
LEMMA ItemIs ==
    ASSUME ClientShape, NEW i \in Nat, 1 <= i, i <= LastItem
    PROVE  Thing(ItemFrame(client, i), i)
  <1>1. i - 1 \in Nat /\ i - 1 < LastItem /\ (i - 1) + 1 = i /\ (i < LastItem <=> i <= Len(Chunks))
    BY Sizes
  <1>2. StartOf(client, i) = ClientSeq(i - 1) BY <1>1, Numbers
  <1> QED BY <1>1, <1>2 DEF Thing, ItemFrame, ChunkFrame, FinFrame

\* Such segments come from the client and carry nothing.
LEMMA HarmlessRead ==
    ASSUME NEW f, Harmless(f)
    PROVE  TcpPayloadLen(f) = 0 /\ FromPort(f)
  BY BareRead DEF Harmless

\* The answers of a closed port.
LEMMA ClosedPortHeard ==
    ASSUME NEW f, FromPort(f), client.port # ListenPort,
           Stack!HandleFrame(f, GCS_STACK_FRAME_CAP)
    PROVE  conn' = conn /\ tx'.tcp.flags = {"RST", "ACK"}
  <1>1. PICK seq, ack, flags, data :
          Fits(data) /\ f = ClientFrame(client, seq, ack, flags, data)
    BY DEF FromPort
  <1>2. FromClient(f, seq, flags, data) BY <1>1, ClientFrameRead
  <1>3. f.tcp.dst_port # ListenPort /\ Stack!TcpValid(f) BY <1>2 DEF FromClient
  <1>4. Stack!HandleTcp(f, GCS_STACK_FRAME_CAP) BY <1>2, Dispatched
  <1>5. Stack!ClosedPort(f, GCS_STACK_FRAME_CAP)
    BY <1>3, <1>4 DEF Stack!HandleTcp, Stack!ForConn, Stack!Listen,
         Stack!SynReceived, Stack!ReceiveFin, Stack!ReceiveData, Stack!LastAck,
         Stack!IgnoreSegment
  <1>6. Stack!EmitTcp(f, GCS_STACK_FRAME_CAP, f.tcp.ack, Stack!ToSeq(f.tcp.seq + 1),
                      {"RST", "ACK"}, NoData, 0)
    BY <1>5 DEF Stack!ClosedPort
  <1>7. Says(tx', f.tcp.ack, Stack!ToSeq(f.tcp.seq + 1), {"RST", "ACK"}, NoData, 0)
    BY <1>6, Emitted
  <1> QED BY <1>5, <1>7 DEF Stack!ClosedPort, Says

Engaged == {"SYN_RECEIVED", "ESTABLISHED", "LAST_ACK", "CLOSED"}

\* Nothing that neither acknowledges, ends nor carries anything is heard.
LEMMA IgnoredBy ==
    ASSUME NEW f, NEW seq, NEW flags, FromClient(f, seq, flags, NoData),
           "ACK" \notin flags, "FIN" \notin flags,
           client.port = ListenPort, ConnShape, conn.state \in Engaged,
           Stack!HandleFrame(f, GCS_STACK_FRAME_CAP)
    PROVE  Unheard /\ conn'.state = conn.state
  <1>1. /\ f.tcp.dst_port = ListenPort /\ Stack!TcpValid(f)
        /\ "ACK" \notin f.tcp.flags /\ "FIN" \notin f.tcp.flags
        /\ Stack!TcpPayloadLen(f) = 0
    BY NoDataFits DEF FromClient
  <1>2. Stack!HandleTcp(f, GCS_STACK_FRAME_CAP) BY Dispatched
  <1>3. Stack!IgnoreSegment(f)
    BY <1>1, <1>2 DEF Stack!HandleTcp, Stack!ForConn, Stack!ClosedPort,
         Stack!Listen, Stack!SynReceived, Stack!ReceiveFin, Stack!ReceiveData,
         Stack!LastAck, Engaged
  <1>4. conn' = conn /\ tx' = Stack!NoReply
    BY <1>3 DEF Stack!IgnoreSegment, Stack!Silent
  <1> QED BY <1>4 DEF ConnShape, ConnFields, Unheard, Answered, Stack!NoReply

\* Whatever acknowledges closes the connection in LAST_ACK, and nothing opens it again.
LEMMA ClosedBy ==
    ASSUME NEW f, NEW seq, NEW flags, NEW data, FromClient(f, seq, flags, data),
           "ACK" \in flags, client.port = ListenPort, ConnShape,
           conn.state \in {"LAST_ACK", "CLOSED"},
           Stack!HandleFrame(f, GCS_STACK_FRAME_CAP)
    PROVE  Unheard /\ conn'.state = "CLOSED"
  <1>1. /\ f.tcp.dst_port = ListenPort /\ Stack!TcpValid(f) /\ "ACK" \in f.tcp.flags
    BY DEF FromClient
  <1>2. Stack!HandleTcp(f, GCS_STACK_FRAME_CAP) BY Dispatched
  <1>3. CASE conn.state = "LAST_ACK"
    <2>1. Stack!LastAck(f)
      BY <1>1, <1>2, <1>3 DEF Stack!HandleTcp, Stack!ForConn, Stack!ClosedPort,
           Stack!Listen, Stack!SynReceived, Stack!ReceiveFin, Stack!ReceiveData,
           Stack!IgnoreSegment
    <2>2. conn' = [conn EXCEPT !.state = "CLOSED"] /\ tx' = Stack!NoReply
      BY <2>1 DEF Stack!LastAck, Stack!Silent
    <2> QED BY <2>2 DEF ConnShape, ConnFields, Unheard, Answered, Stack!NoReply
  <1>4. CASE conn.state = "CLOSED"
    <2>1. Stack!IgnoreSegment(f)
      BY <1>1, <1>2, <1>4 DEF Stack!HandleTcp, Stack!ForConn, Stack!ClosedPort,
           Stack!Listen, Stack!SynReceived, Stack!ReceiveFin, Stack!ReceiveData,
           Stack!LastAck
    <2>2. conn' = conn /\ tx' = Stack!NoReply
      BY <2>1 DEF Stack!IgnoreSegment, Stack!Silent
    <2> QED BY <1>4, <2>2 DEF ConnShape, ConnFields, Unheard, Answered, Stack!NoReply
  <1> QED BY <1>3, <1>4

\* What carries nothing and does not end the stream changes the state at most.
LEMMA HarmlessHeard ==
    ASSUME NEW f, Harmless(f), client.port = ListenPort, ConnShape, conn.state \in Engaged,
           Stack!HandleFrame(f, GCS_STACK_FRAME_CAP)
    PROVE  /\ Unheard
           /\ \/ conn'.state = conn.state
              \/ conn.state = "SYN_RECEIVED" /\ conn'.state = "ESTABLISHED"
              \/ conn.state = "LAST_ACK" /\ conn'.state = "CLOSED"
           /\ Bare(f, {"ACK"}) /\ conn.state = "SYN_RECEIVED" => conn'.state = "ESTABLISHED"
           /\ conn'.state = "SYN_RECEIVED" => ~Bare(f, {"ACK"})
  <1>1. ASSUME NEW flags \in {{"SYN"}, {"RST"}}, Bare(f, flags)
        PROVE  Unheard /\ conn'.state = conn.state /\ ~Bare(f, {"ACK"})
    <2>1. PICK seq : FromClient(f, seq, flags, NoData) BY <1>1, BareRead
    <2>2. "ACK" \notin flags /\ "FIN" \notin flags OBVIOUS
    <2>3. ~Bare(f, {"ACK"})
      <3>1. ASSUME Bare(f, {"ACK"}) PROVE FALSE
        <4>1. f.tcp.flags = {"ACK"} BY <3>1, BareRead DEF FromClient
        <4>2. f.tcp.flags = flags BY <2>1 DEF FromClient
        <4> QED BY <2>2, <4>1, <4>2
      <3> QED BY <3>1
    <2> QED BY <2>1, <2>2, <2>3, IgnoredBy
  <1>2. ASSUME Bare(f, {"ACK"})
        PROVE  /\ Unheard
               /\ conn'.state = CASE conn.state = "SYN_RECEIVED" -> "ESTABLISHED"
                                  [] conn.state = "LAST_ACK" -> "CLOSED"
                                  [] OTHER -> conn.state
    <2>1. PICK seq : FromClient(f, seq, {"ACK"}, NoData) BY <1>2, BareRead
    <2>2. CASE conn.state = "SYN_RECEIVED" BY <2>1, <2>2, OpenedBy
    <2>3. CASE conn.state # "SYN_RECEIVED"
      <3>1. conn.state \in {"ESTABLISHED", "LAST_ACK", "CLOSED"} BY <2>3 DEF Engaged
      <3> QED BY <2>1, <2>3, <3>1, AckHeard
    <2> QED BY <2>2, <2>3
  <1>3. CASE Bare(f, {"ACK"})
    BY <1>2, <1>3 DEF Engaged
  <1>4. CASE ~Bare(f, {"ACK"}) BY <1>1, <1>4 DEF Harmless
  <1> QED BY <1>3, <1>4

\* The connection of another client answers with neither a RST nor a SYN.
LEMMA ForeignHeard ==
    ASSUME NEW f, FromPort(f), client.port = ListenPort, ConnShape,
           conn.state # "LISTEN", conn.bytes_received \in Nat,
           Stack!HandleFrame(f, GCS_STACK_FRAME_CAP)
    PROVE  /\ ConnShape' /\ conn'.state # "LISTEN" /\ conn'.bytes_received \in Nat
           /\ Answered(tx') => tx'.tcp.flags \cap {"SYN", "RST"} = {}
  <1>1. PICK seq, ack, flags, data :
          Fits(data) /\ f = ClientFrame(client, seq, ack, flags, data)
    BY DEF FromPort
  <1>2. FromClient(f, seq, flags, data) BY <1>1, ClientFrameRead
  <1>3. /\ f.tcp.dst_port = ListenPort /\ Stack!TcpValid(f)
        /\ Stack!TcpPayloadLen(f) = LenOf[data]
    BY <1>2 DEF FromClient
  <1> DEFINE n == LenOf[data]
  <1>4. n \in 0..1460 /\ n \in Nat
    <2>1. n \in 0..1460 BY <1>1 DEF Fits
    <2> HIDE DEF n
    <2> QED BY <2>1
  <1>5. Stack!HandleTcp(f, GCS_STACK_FRAME_CAP) BY <1>2, Dispatched
  <1>6. \/ Stack!SynReceived(f) \/ Stack!ReceiveFin(f, GCS_STACK_FRAME_CAP)
        \/ Stack!ReceiveData(f, GCS_STACK_FRAME_CAP) \/ Stack!LastAck(f)
        \/ Stack!IgnoreSegment(f)
    BY <1>3, <1>5 DEF Stack!HandleTcp, Stack!ForConn, Stack!ClosedPort, Stack!Listen
  <1>7. CASE Stack!SynReceived(f) \/ Stack!LastAck(f) \/ Stack!IgnoreSegment(f)
    <2>1. tx' = Stack!NoReply
      BY <1>7 DEF Stack!SynReceived, Stack!LastAck, Stack!IgnoreSegment, Stack!Silent
    <2>2. \/ conn' = conn \/ conn' = [conn EXCEPT !.state = "ESTABLISHED"]
          \/ conn' = [conn EXCEPT !.state = "CLOSED"]
      BY <1>7 DEF Stack!SynReceived, Stack!LastAck, Stack!IgnoreSegment
    <2>3. ConnShape' /\ conn'.state # "LISTEN" /\ conn'.bytes_received \in Nat
      BY <2>2 DEF ConnShape, ConnFields
    <2> QED BY <2>1, <2>3 DEF Answered, Stack!NoReply
  <1>8. CASE Stack!ReceiveFin(f, GCS_STACK_FRAME_CAP)
    <2> DEFINE rcv == Stack!ToSeq(f.tcp.seq + 1)
    <2>1. /\ conn' = [conn EXCEPT !.state = "LAST_ACK", !.rcv_nxt = rcv]
          /\ Stack!EmitTcp(f, GCS_STACK_FRAME_CAP, conn.snd_nxt, conn'.rcv_nxt,
                           {"FIN", "ACK"}, NoData, 0)
      BY <1>8 DEF Stack!ReceiveFin
    <2>2. Says(tx', conn.snd_nxt, conn'.rcv_nxt, {"FIN", "ACK"}, NoData, 0)
      BY <2>1, Emitted
    <2> HIDE DEF rcv
    <2>3. ConnShape' /\ conn'.state # "LISTEN" /\ conn'.bytes_received \in Nat
      BY <2>1 DEF ConnShape, ConnFields
    <2> QED BY <2>2, <2>3 DEF Says
  <1>9. CASE Stack!ReceiveData(f, GCS_STACK_FRAME_CAP)
    <2> DEFINE rcv == Stack!ToSeq(f.tcp.seq + Stack!TcpPayloadLen(f))
               bytes == (conn.bytes_received + Stack!TcpPayloadLen(f)) % BytesMod
               snd == Stack!ToSeq(conn.snd_nxt + Stack!TcpPayloadLen(f))
    <2>1. conn' = [conn EXCEPT !.rcv_nxt = rcv, !.bytes_received = bytes, !.snd_nxt = snd]
      BY <1>9 DEF Stack!ReceiveData
    <2>2. Stack!EmitTcp(f, GCS_STACK_FRAME_CAP, conn.snd_nxt, conn'.rcv_nxt,
                        {"ACK", "PSH"}, f.tcp.data, n)
      BY <1>3, <1>9 DEF Stack!ReceiveData
    <2>3. Says(tx', conn.snd_nxt, conn'.rcv_nxt, {"ACK", "PSH"}, f.tcp.data, n)
      BY <1>4, <2>2, Emitted
    <2>4. bytes \in Nat
      <3> DEFINE x == conn.bytes_received + n
      <3>1. x \in Int /\ BytesMod \in Nat /\ BytesMod > 0
        BY <1>4, Sizes, SessionAssumption DEF Stack!StackAssumption
      <3> HIDE DEF x
      <3>2. x % BytesMod \in 0..(BytesMod - 1) BY <3>1, ModRange
      <3>3. x % BytesMod \in Nat BY <3>1, <3>2
      <3> QED BY <1>3, <3>3 DEF x
    <2> HIDE DEF rcv, bytes, snd
    <2>5. ConnShape' /\ conn'.state = conn.state /\ conn'.bytes_received = bytes
      BY <2>1, Counted
    <2> QED BY <2>3, <2>4, <2>5 DEF Says
  <1> QED BY <1>6, <1>7, <1>8, <1>9
-----------------------------------------------------------------------------
(***************************************************************************)
(* What a fault changes, and which faults can happen at all.               *)
(***************************************************************************)
\* A step that is no fault leaves the session as calm as it was.
LEMMA NoFault ==
    ASSUME FaultsInv, UNCHANGED <<link, faults>>
    PROVE  FaultsInv' /\ (Calm' <=> Calm)
  BY DEF FaultsInv, Calm, Orderly, Patient, Without

\* A fault is counted once, and of those that make a difference it tells which link this is.
LEMMA FaultIs ==
    ASSUME FaultsInv, NEW fault \in FaultKinds, Happens(fault)
    PROVE  /\ FaultsInv' /\ link' = link /\ conn' = conn
           /\ faults'[fault] = faults[fault] + 1 /\ faults[fault] \in Nat
           /\ \A other \in FaultKinds : other # fault => faults'[other] = faults[other]
           /\ Calm' => /\ Calm
                       /\ fault # "repeated"
                       /\ fault \in {"lost_requests", "lost_replies", "swapped"} => Patient'
                       /\ fault = "restarts" => faults.restarts = 0
  <1>1. \A other \in FaultKinds : faults[other] \in Nat /\ link[other] \in Nat
    BY SessionAssumption DEF FaultsInv, FaultKinds, Link
  <1>2. /\ link' = link /\ conn' = conn /\ faults[fault] < link[fault]
        /\ faults' = [faults EXCEPT ![fault] = faults[fault] + 1]
    BY DEF Happens, stack_vars
  <1>3. /\ faults' \in [FaultKinds -> Nat]
        /\ faults'[fault] = faults[fault] + 1
        /\ \A other \in FaultKinds : other # fault => faults'[other] = faults[other]
    BY <1>1, <1>2 DEF FaultsInv
  <1>4. \A other \in FaultKinds : faults'[other] <= link[other]
    BY <1>1, <1>2, <1>3 DEF FaultsInv
  <1>5. FaultsInv' BY <1>2, <1>3, <1>4 DEF FaultsInv
  <1>6. \A other \in FaultKinds : faults'[other] \in Nat /\ faults[other] <= faults'[other]
    BY <1>1, <1>3
  <1>7. Orderly' => Orderly
    <2>1. \A other \in FaultKinds : faults'[other] = 0 => faults[other] = 0
      BY <1>1, <1>6
    <2> QED BY <2>1 DEF Orderly, Without, FaultKinds
  <1>8. Patient' => Patient
    <2> DEFINE n == faults.lost_replies
               p == faults'.lost_replies
    <2>1. n \in Nat /\ p \in Nat /\ p \in {n, n + 1}
      <3>1. "lost_replies" \in FaultKinds BY DEF FaultKinds
      <3>2. CASE fault = "lost_replies" BY <1>1, <1>3, <3>1, <3>2
      <3>3. CASE fault # "lost_replies" BY <1>1, <1>3, <3>1, <3>3
      <3> QED BY <3>2, <3>3
    <2> HIDE DEF n, p
    <2> DEFINE x == Widest * n
               y == Widest * p
               b == Bytes(LastItem)
    <2>2. x \in Nat /\ y \in Nat /\ x <= y
      <3>1. x \in Nat /\ Widest * (n + 1) = x + Widest /\ Widest \in Nat
        BY <2>1, WidestIs
      <3> HIDE DEF x
      <3>2. x <= x + Widest /\ x + Widest \in Nat /\ x <= x BY <3>1
      <3>3. CASE p = n BY <3>1, <3>2, <3>3 DEF x
      <3>4. CASE p = n + 1 BY <3>1, <3>2, <3>4
      <3> QED BY <2>1, <3>3, <3>4
    <2>3. b \in Nat /\ SeqSpace \in Nat BY BytesGrow, Sizes
    <2> HIDE DEF x, y, b
    <2>4. b + y < SeqSpace => b + x < SeqSpace BY <2>2, <2>3
    <2> QED BY <1>2, <2>4 DEF Patient, x, y, b, n, p
  <1>9. ASSUME Calm'
        PROVE  /\ Calm /\ fault # "repeated"
               /\ fault \in {"lost_requests", "lost_replies", "swapped"} => Patient'
               /\ fault = "restarts" => faults.restarts = 0
    <2>1. "restarts" \in FaultKinds BY DEF FaultKinds
    <2>2. faults'["restarts"] \in Nat /\ faults["restarts"] \in Nat
          /\ faults["restarts"] <= faults'["restarts"] /\ faults'["restarts"] <= 1
      BY <1>1, <1>6, <1>9, <2>1 DEF Calm
    <2>3. faults.restarts <= 1
      <3> DEFINE x == faults["restarts"]
                 y == faults'["restarts"]
      <3>1. x \in Nat /\ y \in Nat /\ x <= y /\ y <= 1 BY <2>2
      <3> HIDE DEF x, y
      <3>2. x <= 1 BY <3>1
      <3> QED BY <3>2 DEF x
    <2>4. faults.repeated = 0 /\ fault # "repeated"
      <3>1. "repeated" \in FaultKinds BY DEF FaultKinds
      <3>2. faults'["repeated"] = 0 BY <1>9 DEF Calm
      <3>3. CASE fault = "repeated"
        <4>1. faults["repeated"] + 1 = 0 /\ faults["repeated"] \in Nat
          BY <1>1, <1>3, <3>1, <3>2, <3>3
        <4> QED BY <4>1
      <3>4. CASE fault # "repeated" BY <1>3, <3>1, <3>2, <3>4
      <3> QED BY <3>3, <3>4
    <2>7. Calm BY <1>7, <1>8, <1>9, <2>3, <2>4 DEF Calm
    <2>5. fault \in {"lost_requests", "lost_replies", "swapped"} => Patient'
      <3> SUFFICES ASSUME fault \in {"lost_requests", "lost_replies", "swapped"}, Orderly'
                   PROVE  FALSE
        BY <1>9 DEF Calm
      <3>1. faults'[fault] = 0 BY DEF Orderly, Without
      <3>2. faults[fault] + 1 # 0 BY <1>1
      <3> QED BY <1>3, <3>1, <3>2
    <2>6. fault = "restarts" => faults.restarts = 0 BY <1>1, <1>3, <2>1, <2>2
    <2> QED BY <2>4, <2>5, <2>6, <2>7
  <1> QED BY <1>1, <1>2, <1>3, <1>5, <1>9

\* A calm session sees no frame doubled that carries data to the stack.
LEMMA NoDataDoubled ==
    ASSUME FaultsInv, Calm', DoubleRequest
    PROVE  TcpPayloadLen(Head(requests)) = 0 /\ Happens("doubled")
  <1>1. ~Happens("repeated") BY FaultIs DEF FaultKinds
  <1> QED BY <1>1 DEF DoubleRequest

-----------------------------------------------------------------------------
(***************************************************************************)
(* Before the connection is open, one action at a time.                    *)
(***************************************************************************)
\* The SYN is a segment that carries nothing.
LEMMA SynIs == FromPort(SynFrame(client)) /\ Bare(SynFrame(client), {"SYN"})
  BY NoDataFits DEF SynFrame, Bare, FromPort

\* The phase stays what it is while the stack's connection does.
LEMMA DialKept ==
    ASSUME Shapes, Dial, conn' = conn, faults'.restarts = faults.restarts,
           ClientShape', client'.iss = client.iss, client'.port = client.port,
           client'.sent = client.sent, client'.got = client.got,
           \/ client'.state = client.state /\ client'.snd_nxt = client.snd_nxt
           \/ client'.state = "SYN_SENT" /\ client'.snd_nxt = ClientSeq(0)
              /\ client.state = "CLOSED"
           \/ client'.state = "REFUSED" /\ client.port # ListenPort,
           Queued(requests'), Queued(replies'),
           \A f \in ToSet(requests') : \/ f \in ToSet(requests) \/ f = SynFrame(client)
                                       \/ replies # <<>> /\ Bare(f, {"RST"}),
           ToSet(replies') \subseteq ToSet(replies)
    PROVE  Shapes' /\ Dial'
  <1>1. Shapes' BY DEF Shapes, ConnShape
  <1>2. /\ \A k : ClientSeq(k)' = ClientSeq(k) /\ StackSeq(k)' = StackSeq(k)
        /\ \A f : FromPort(f)' = FromPort(f) /\ \A flags : Bare(f, flags)' = Bare(f, flags)
        /\ \A r, i : Answer(r, i)' = Answer(r, i)
    BY SameSession
  <1>3. Dialling' BY <1>2 DEF Dial, Dialling
  <1>4. CASE PortClosed
    <2>1. \A f \in ToSet(requests') : FromPort(f)'
      <3> TAKE f \in ToSet(requests')
      <3>1. CASE f \in ToSet(requests) BY <1>2, <1>4, <3>1 DEF PortClosed
      <3>2. CASE f = SynFrame(client) BY <1>2, <3>2, SynIs
      <3>3. CASE Bare(f, {"RST"}) BY <1>2, <3>3, BareRead
      <3> QED BY <3>1, <3>2, <3>3
    <2>2. PortClosed' BY <1>4, <2>1 DEF PortClosed
    <2> QED BY <1>1, <1>3, <2>2 DEF Dial
  <1>5. CASE client.port = ListenPort
    <2>1. client.state # "REFUSED" /\ client'.state # "REFUSED"
          /\ (Listening \/ Greeted \/ Foreign)
      BY <1>5 DEF Dial, PortClosed
    <2>2. CASE Listening
      <3>1. replies = <<>> BY <2>2 DEF Listening
      <3>2. replies' = <<>>
        <4>1. ToSet(<<>>) = {} BY DEF ToSet
        <4>2. ASSUME replies' # <<>> PROVE FALSE
          <5>1. Head(replies') \in ToSet(replies') BY <4>2, TailOf
          <5> QED BY <3>1, <4>1, <5>1
        <4> QED BY <4>2
      <3>3. ASSUME NEW f \in ToSet(requests')
            PROVE  \E iss \in PeerIsses :
                     /\ f = ClientFrame(client, iss, 0, {"SYN"}, NoData)'
                     /\ faults'.restarts = 0 => iss = client'.iss
        <4>1. \A iss : ClientFrame(client, iss, 0, {"SYN"}, NoData)'
                       = ClientFrame(client, iss, 0, {"SYN"}, NoData)
          BY DEF ClientFrame
        <4>2. CASE f \in ToSet(requests) BY <2>2, <4>1, <4>2 DEF Listening
        <4>3. CASE f = SynFrame(client)
          <5>1. client.iss \in PeerIsses BY DEF Shapes, ClientShape
          <5> QED BY <4>1, <4>3, <5>1 DEF SynFrame
        <4> QED BY <3>1, <4>2, <4>3
      <3>4. Listening' BY <2>2, <3>2, <3>3 DEF Listening
      <3> QED BY <1>1, <1>3, <1>5, <2>1, <3>4 DEF Dial
    <2>3. CASE Greeted
      <3>1. ASSUME NEW f \in ToSet(requests') PROVE Bare(f, {"SYN"})' \/ Bare(f, {"RST"})'
        BY <1>2, <2>3, SynIs DEF Greeted
      <3>2. Greeted' BY <1>2, <2>3, <3>1 DEF Greeted
      <3> QED BY <1>1, <1>3, <1>5, <2>1, <3>2 DEF Dial
    <2>4. CASE Foreign
      <3>1. ASSUME NEW f \in ToSet(requests') PROVE FromPort(f)'
        <4>1. CASE f \in ToSet(requests) BY <1>2, <2>4, <4>1 DEF Foreign
        <4>2. CASE f = SynFrame(client) BY <1>2, <4>2, SynIs
        <4>3. CASE Bare(f, {"RST"}) BY <1>2, <4>3, BareRead
        <4> QED BY <4>1, <4>2, <4>3
      <3>2. Foreign' BY <1>2, <2>4, <3>1 DEF Foreign
      <3> QED BY <1>1, <1>3, <1>5, <2>1, <3>2 DEF Dial
    <2> QED BY <2>1, <2>2, <2>3, <2>4
  <1> QED BY <1>4, <1>5 DEF Dial

\* So it does when only the queues change.
LEMMA DialQueues ==
    ASSUME Shapes, Dial, conn' = conn, client' = client, faults'.restarts = faults.restarts,
           Queued(requests'), Queued(replies'),
           \A f \in ToSet(requests') : \/ f \in ToSet(requests) \/ f = SynFrame(client)
                                       \/ replies # <<>> /\ Bare(f, {"RST"}),
           ToSet(replies') \subseteq ToSet(replies)
    PROVE  Shapes' /\ Dial'
  <1>1. ClientShape' BY DEF Shapes, ClientShape
  <1> QED BY <1>1, DialKept

\* Dialling.
LEMMA SynSent ==
    ASSUME Shapes, Dial, SendSyn
    PROVE  Shapes' /\ Dial'
  <1>1. /\ client.state = "CLOSED"
        /\ client' = [client EXCEPT !.state = "SYN_SENT", !.snd_nxt = ToSeq(client.iss + 1)]
        /\ conn' = conn /\ replies' = replies /\ faults' = faults
        /\ requests' = Append(requests, SynFrame(client))
    BY DEF SendSyn, stack_vars
  <1>2. /\ ClientShape' /\ client'.state = "SYN_SENT" /\ client'.iss = client.iss
        /\ client'.port = client.port /\ client'.snd_nxt = ToSeq(client.iss + 1)
        /\ client'.sent = client.sent /\ client'.got = client.got
    BY <1>1 DEF Shapes, ClientShape, ClientFields
  <1>3. client'.snd_nxt = ClientSeq(0) BY <1>2, Numbers DEF Shapes
  <1>4. Queued(requests') /\ \A f \in ToSet(requests') : f \in ToSet(requests) \/ f = SynFrame(client)
    BY <1>1, AppendOf DEF Shapes
  <1>5. Queued(replies') BY <1>1 DEF Shapes
  <1> QED BY <1>1, <1>2, <1>3, <1>4, <1>5, DialKept

\* Dialling again when nothing is on its way.
LEMMA SynSentAgain ==
    ASSUME Shapes, Dial, Retransmit
    PROVE  Shapes' /\ Dial'
  <1>1. /\ conn' = conn /\ replies' = replies /\ faults' = faults /\ client' = client
        /\ requests = <<>> /\ replies = <<>>
        /\ requests' = <<SynFrame(client)>>
    BY DEF Retransmit, stack_vars, Dial, Dialling
  <1>2. requests' = Append(requests, SynFrame(client)) BY <1>1, Queue
  <1>3. Queued(requests') /\ \A f \in ToSet(requests') : f \in ToSet(requests) \/ f = SynFrame(client)
    BY <1>2, AppendOf DEF Shapes
  <1> QED BY <1>1, <1>3, DialQueues DEF Shapes

\* Frames are lost, doubled and swapped on their way.
Disturbance ==
    \/ LoseRequest \/ LoseReply \/ DoubleRequest \/ DoubleReply \/ SwapRequests

\* No queue gets a frame it did not hold.
LEMMA Disturbed ==
    ASSUME Shapes, FaultsInv, Disturbance
    PROVE  /\ Shapes' /\ FaultsInv' /\ (Calm' => Calm)
           /\ conn' = conn /\ client' = client /\ link' = link
           /\ faults'.restarts = faults.restarts
           /\ ToSet(requests') \subseteq ToSet(requests)
           /\ ToSet(replies') \subseteq ToSet(replies)
  <1>1. Queued(requests) /\ Queued(replies) BY DEF Shapes
  <1>2. PICK fault \in FaultKinds \ {"restarts"} : Happens(fault)
    BY DEF Disturbance, LoseRequest, LoseReply, DoubleRequest, DoubleReply, SwapRequests,
           FaultKinds
  <1>3. /\ FaultsInv' /\ (Calm' => Calm) /\ conn' = conn /\ link' = link
        /\ faults'.restarts = faults.restarts
    BY <1>2, FaultIs DEF FaultKinds
  <1>4. client' = client
    BY DEF Disturbance, LoseRequest, LoseReply, DoubleRequest, DoubleReply, SwapRequests
  <1>5. Queued(requests') /\ ToSet(requests') \subseteq ToSet(requests)
    <2>1. CASE LoseRequest BY <1>1, <2>1, TailOf DEF LoseRequest
    <2>2. CASE DoubleRequest BY <1>1, <2>2, DoubleOf DEF DoubleRequest, Doubled
    <2>3. CASE SwapRequests BY <1>1, <2>3, SwapOf DEF SwapRequests, Swapped
    <2>4. CASE requests' = requests BY <1>1, <2>4
    <2> QED BY <2>1, <2>2, <2>3, <2>4 DEF Disturbance, LoseReply, DoubleReply
  <1>6. Queued(replies') /\ ToSet(replies') \subseteq ToSet(replies)
    <2>1. CASE LoseReply BY <1>1, <2>1, TailOf DEF LoseReply
    <2>2. CASE DoubleReply BY <1>1, <2>2, DoubleOf DEF DoubleReply, Doubled
    <2>3. CASE replies' = replies BY <1>1, <2>3
    <2> QED BY <2>1, <2>2, <2>3 DEF Disturbance, LoseRequest, DoubleRequest, SwapRequests
  <1>7. Shapes' BY <1>3, <1>4, <1>5, <1>6 DEF Shapes, ConnShape, ClientShape
  <1> QED BY <1>3, <1>4, <1>5, <1>6, <1>7

\* Before the connection is open, faults change nothing but the queues.
LEMMA DialDisturbed ==
    ASSUME Shapes, FaultsInv, Dial, Disturbance
    PROVE  Dial'
  <1>1. Queued(requests') /\ Queued(replies') BY Disturbed DEF Shapes
  <1> QED BY <1>1, Disturbed, DialQueues
-----------------------------------------------------------------------------
(***************************************************************************)
(* The queues of the open connection.                                      *)
(***************************************************************************)
\* Answers: the first leaves, or is doubled, or another joins.
LEMMA AnswersTail ==
    ASSUME NEW q, Queued(q), q # <<>>, NEW from \in Nat, NEW to \in Nat,
           NEW at \in Rows(Len(q), from, to), AnswersTo(q, at), NEW x \in Nat, x <= to,
           Len(q) = 1 => x = to, Len(q) > 1 => at[2] = x \/ at[2] = x + 1
    PROVE  \E row \in Rows(Len(Tail(q)), x, to) : AnswersTo(Tail(q), row)
  <1> DEFINE n == Len(q)
  <1> PICK row : row = Shifted(n, at, x) OBVIOUS
  <1>1. /\ n \in Nat /\ n > 0 /\ Len(Tail(q)) = n - 1
        /\ \A k \in 1..(n - 1) : Tail(q)[k] = q[k + 1]
    BY TailOf
  <1>2. row \in Rows(n - 1, x, to) /\ row[0] = x /\ \A k \in 1..(n - 1) : row[k] = at[k + 1]
    <2>1. /\ n \in Nat /\ n > 0 /\ at \in Rows(n, from, to)
          /\ row = Shifted(n, at, x)
          /\ n = 1 => x = to
          /\ n > 1 => at[2] = x \/ at[2] = x + 1
      BY <1>1
    <2> HIDE DEF n
    <2> QED BY <2>1, RowsTail
  <1>3. \A k \in 1..(n - 1) : k + 1 \in 1..n BY <1>1
  <1>4. AnswersTo(Tail(q), row) BY <1>1, <1>2, <1>3 DEF AnswersTo
  <1> QED BY <1>1, <1>2, <1>4

\* A doubled answer is one more of the first kind.
LEMMA AnswersDouble ==
    ASSUME NEW q, Queued(q), q # <<>>, NEW from \in Nat, NEW to \in Nat,
           NEW at \in Rows(Len(q), from, to), AnswersTo(q, at),
           NEW r, r = Doubled(q)
    PROVE  \E row \in Rows(Len(r), from, to) : AnswersTo(r, row)
  <1> DEFINE n == Len(q)
  <1>1. /\ n \in Nat /\ n > 0 /\ Len(r) = n + 1
        /\ r[1] = q[1] /\ \A k \in 1..n : r[k + 1] = q[k]
    BY DoubleOf
  <1>2. PICK row \in Rows(n + 1, from, to) :
               /\ row[0] = from /\ row[1] = at[1]
               /\ \A k \in 1..n : row[k + 1] = at[k]
    <2>1. n \in Nat /\ n > 0 /\ at \in Rows(n, from, to) BY <1>1
    <2> HIDE DEF n
    <2> QED BY <2>1, RowsDouble
  <1>3. ASSUME NEW k \in 1..(n + 1) PROVE Answer(r[k], row[k])
    <2>1. CASE k = 1
      <3>1. 1 \in 1..n BY <1>1
      <3> QED BY <1>1, <1>2, <2>1, <3>1 DEF AnswersTo
    <2>2. CASE k # 1
      <3>1. k - 1 \in 1..n /\ (k - 1) + 1 = k BY <1>1, <2>2
      <3>2. r[k] = q[k - 1] /\ row[k] = at[k - 1] BY <1>1, <1>2, <3>1
      <3> QED BY <3>1, <3>2 DEF AnswersTo
    <2> QED BY <2>1, <2>2
  <1>4. AnswersTo(r, row) BY <1>1, <1>3 DEF AnswersTo
  <1> QED BY <1>1, <1>2, <1>4

\* An answer to the next thing follows the others.
LEMMA AnswersAppend ==
    ASSUME NEW q, Queued(q), NEW from \in Nat, NEW to \in Nat,
           NEW at \in Rows(Len(q), from, to), AnswersTo(q, at), NEW x, Answer(x, to + 1)
    PROVE  \E row \in Rows(Len(Append(q, x)), from, to + 1) : AnswersTo(Append(q, x), row)
  <1> DEFINE n == Len(q)
             row == [k \in 0..(n + 1) |-> IF k <= n THEN at[k] ELSE to + 1]
             r == Append(q, x)
  <1>1. n \in Nat /\ Len(r) = n + 1 /\ r[n + 1] = x /\ \A k \in 1..n : r[k] = q[k]
    BY AppendOf
  <1>2. row \in Rows(n + 1, from, to + 1) /\ row[n + 1] = to + 1 /\ \A k \in 0..n : row[k] = at[k]
    <2>1. to + 1 \in Nat OBVIOUS
    <2> QED BY <1>1, <2>1, RowsAppend
  <1> HIDE DEF row, r
  <1>3. ASSUME NEW k \in 1..(n + 1) PROVE Answer(r[k], row[k])
    <2>1. CASE k = n + 1 BY <1>1, <1>2, <2>1
    <2>2. CASE k # n + 1
      <3>1. k \in 1..n /\ k \in 0..n BY <1>1, <2>2
      <3> QED BY <1>1, <1>2, <3>1 DEF AnswersTo
    <2> QED BY <2>1, <2>2
  <1>4. AnswersTo(r, row) BY <1>1, <1>3 DEF AnswersTo
  <1> QED BY <1>1, <1>2, <1>4 DEF r

\* Requests on a link that keeps the order: so do they.
LEMMA ThingsTail ==
    ASSUME NEW q, Queued(q), q # <<>>, NEW from \in Nat, NEW to \in Nat,
           NEW at \in Rows(Len(q), from, to), ThingsRow(q, at), NEW row,
           row = Shifted(Len(q), at, at[1])
    PROVE  /\ row \in Rows(Len(Tail(q)), at[1], to) /\ ThingsRow(Tail(q), row)
           /\ OpenedFirst(q, at) /\ ~(at[1] = 0 /\ Bare(Head(q), {"ACK"}))
                => OpenedFirst(Tail(q), row)
  <1> DEFINE n == Len(q)
  <1>1. /\ n \in Nat /\ n > 0 /\ Len(Tail(q)) = n - 1 /\ Head(q) = q[1]
        /\ \A k \in 1..(n - 1) : Tail(q)[k] = q[k + 1]
    BY TailOf
  <1>2. /\ at[n] = to
        /\ \A k \in 0..n : at[k] \in Nat /\ from <= at[k] /\ at[k] <= to
        /\ \A k \in 1..n : at[k] = at[k - 1] \/ at[k] = at[k - 1] + 1
    BY <1>1, RowsGrow
  <1> DEFINE x == at[1]
  <1>3. /\ x \in Nat /\ x <= to /\ (n = 1 => x = to)
        /\ n > 1 => at[2] = x \/ at[2] = x + 1
    <2>1. 1 \in 0..n BY <1>1
    <2>2. n > 1 => 2 \in 1..n /\ 2 - 1 = 1 BY <1>1
    <2> QED BY <1>2, <2>1, <2>2
  <1>4. row = Shifted(n, at, x) OBVIOUS
  <1> HIDE DEF x
  <1>5. /\ row \in Rows(n - 1, x, to) /\ row[0] = x
        /\ \A k \in 1..(n - 1) : row[k] = at[k + 1]
    BY <1>1, <1>3, <1>4, RowsTail
  <1>6. ASSUME NEW k \in 1..(n - 1) PROVE k + 1 \in 1..n /\ row[k - 1] = at[(k + 1) - 1]
    <2>1. k + 1 \in 1..n /\ (k + 1) - 1 = k BY <1>1
    <2>2. CASE k = 1 BY <1>5, <2>1, <2>2 DEF x
    <2>3. CASE k # 1
      <3>1. k - 1 \in 1..(n - 1) /\ (k - 1) + 1 = k BY <1>1, <2>3
      <3> QED BY <1>5, <2>1, <3>1
    <2> QED BY <2>2, <2>3
  <1>7. ThingsRow(Tail(q), row) BY <1>1, <1>5, <1>6 DEF ThingsRow
  <1>8. ASSUME OpenedFirst(q, at), ~(at[1] = 0 /\ Bare(Head(q), {"ACK"}))
        PROVE  OpenedFirst(Tail(q), row)
    <2>1. PICK k \in 1..n : at[k] = 0 /\ Bare(q[k], {"ACK"}) BY <1>8 DEF OpenedFirst
    <2>2. k # 1 BY <1>1, <1>8, <2>1
    <2>3. k - 1 \in 1..(n - 1) /\ (k - 1) + 1 = k BY <1>1, <2>2
    <2>4. row[k - 1] = at[k] /\ Tail(q)[k - 1] = q[k] BY <1>1, <1>5, <2>3
    <2> QED BY <1>1, <2>1, <2>3, <2>4 DEF OpenedFirst
  <1> QED BY <1>1, <1>5, <1>7, <1>8 DEF x

\* A doubled request that carries nothing leaves the things in order,
LEMMA ThingsDouble ==
    ASSUME NEW q, Queued(q), q # <<>>, NEW from \in Nat, NEW to \in Nat, to <= LastItem,
           NEW at \in Rows(Len(q), from, to), ThingsRow(q, at), TcpPayloadLen(Head(q)) = 0,
           NEW r, r = Doubled(q)
    PROVE  \E row \in Rows(Len(r), from, to) :
             ThingsRow(r, row) /\ (OpenedFirst(q, at) => OpenedFirst(r, row))
  <1> DEFINE n == Len(q)
  <1>1. /\ n \in Nat /\ n > 0 /\ Len(r) = n + 1
        /\ r[1] = q[1] /\ \A k \in 1..n : r[k + 1] = q[k]
    BY DoubleOf
  <1>2. PICK row \in Rows(n + 1, from, to) :
               /\ row[0] = from /\ row[1] = at[1]
               /\ \A k \in 1..n : row[k + 1] = at[k]
    <2>1. n \in Nat /\ n > 0 /\ at \in Rows(n, from, to) BY <1>1
    <2> HIDE DEF n
    <2> QED BY <2>1, RowsDouble
  <1>3. /\ at[0] = from /\ LastItem \in Nat
        /\ \A k \in 0..n : at[k] \in Nat /\ from <= at[k] /\ at[k] <= to
        /\ \A k \in 1..n : at[k] = at[k - 1] \/ at[k] = at[k - 1] + 1
    BY <1>1, RowsGrow, Sizes
  <1>4. 1 \in 1..n /\ 1 - 1 = 0 /\ 1 \in 0..n BY <1>1
  <1>5. /\ at[1] = at[0] => Harmless(q[1]) \/ (at[1] = LastItem /\ Thing(q[1], LastItem))
        /\ at[1] # at[0] => Thing(q[1], at[1]) /\ at[1] = LastItem
    <2>1. IF at[1] = at[0] THEN Harmless(q[1]) \/ (at[1] = LastItem /\ Thing(q[1], LastItem))
          ELSE Thing(q[1], at[1])
      BY <1>4 DEF ThingsRow
    <2>2. ASSUME at[1] # at[0] PROVE at[1] = LastItem
      <3>1. at[1] = at[0] + 1 /\ at[0] \in Nat /\ at[1] \in Nat /\ at[1] <= LastItem
        <4>1. 0 \in 0..n BY <1>1
        <4>2. at[1] = at[0] + 1 BY <1>3, <1>4, <2>2
        <4> DEFINE x == at[1]
        <4>3. x \in Nat /\ x <= to BY <1>3, <1>4
        <4> HIDE DEF x
        <4>4. x <= LastItem BY <1>3, <4>3
        <4> QED BY <1>3, <4>1, <4>2, <4>3, <4>4 DEF x
      <3> DEFINE i == at[1]
      <3>2. i \in Nat /\ 1 <= i /\ i <= LastItem BY <3>1
      <3>3. Thing(q[1], i) /\ TcpPayloadLen(q[1]) = 0
        <4>1. Head(q) = q[1] BY TailOf
        <4> QED BY <2>1, <2>2, <4>1
      <3> HIDE DEF i
      <3>4. ~(i < LastItem) BY <3>2, <3>3, ThingRead
      <3>5. i = LastItem BY <1>3, <3>2, <3>4
      <3> QED BY <3>5 DEF i
    <2> QED BY <2>1, <2>2
  <1>6. ASSUME NEW k \in 1..(n + 1)
        PROVE  IF row[k] = row[k - 1]
               THEN Harmless(r[k]) \/ (row[k] = LastItem /\ Thing(r[k], LastItem))
               ELSE Thing(r[k], row[k])
    <2>1. CASE k = 1
      <3>1. k - 1 = 0 BY <2>1
      <3> QED BY <1>1, <1>2, <1>3, <1>5, <2>1, <3>1
    <2>2. CASE k = 2
      <3>1. k - 1 = 1 /\ 1 + 1 = 2 BY <2>2
      <3>2. row[2] = at[1] /\ r[2] = q[1] BY <1>1, <1>2, <1>4, <3>1
      <3> QED BY <1>2, <1>5, <2>2, <3>1, <3>2
    <2>3. CASE k \notin {1, 2}
      <3>1. /\ k - 1 \in 1..n /\ (k - 1) + 1 = k /\ k - 2 \in 1..n /\ (k - 2) + 1 = k - 1
            /\ (k - 1) - 1 = k - 2
        BY <1>1, <2>3
      <3>2. row[k] = at[k - 1] /\ row[k - 1] = at[k - 2] /\ r[k] = q[k - 1]
        BY <1>1, <1>2, <3>1
      <3> DEFINE j == k - 1
      <3>3. j \in 1..n /\ row[k] = at[j] /\ row[k - 1] = at[j - 1] /\ r[k] = q[j]
        BY <3>1, <3>2
      <3> HIDE DEF j
      <3> QED BY <3>3 DEF ThingsRow
    <2> QED BY <2>1, <2>2, <2>3
  <1>7. ThingsRow(r, row) BY <1>1, <1>6 DEF ThingsRow
  <1>8. ASSUME OpenedFirst(q, at) PROVE OpenedFirst(r, row)
    <2>1. PICK k \in 1..n : at[k] = 0 /\ Bare(q[k], {"ACK"}) BY <1>8 DEF OpenedFirst
    <2>2. k + 1 \in 1..(n + 1) /\ row[k + 1] = 0 /\ r[k + 1] = q[k] BY <1>1, <1>2, <2>1
    <2> QED BY <1>1, <2>1, <2>2 DEF OpenedFirst
  <1> QED BY <1>1, <1>2, <1>7, <1>8

\* and so does what the client sends next.
LEMMA ThingsAppend ==
    ASSUME NEW q, Queued(q), NEW from \in Nat, NEW to \in Nat,
           NEW at \in Rows(Len(q), from, to), ThingsRow(q, at), NEW x,
           NEW last \in Nat, (last = to /\ Harmless(x)) \/ (last = to + 1 /\ Thing(x, last))
    PROVE  \E row \in Rows(Len(Append(q, x)), from, last) :
             /\ ThingsRow(Append(q, x), row)
             /\ OpenedFirst(q, at) => OpenedFirst(Append(q, x), row)
  <1> DEFINE n == Len(q)
             row == [k \in 0..(n + 1) |-> IF k <= n THEN at[k] ELSE last]
             r == Append(q, x)
  <1>1. n \in Nat /\ Len(r) = n + 1 /\ r[n + 1] = x /\ \A k \in 1..n : r[k] = q[k]
    BY AppendOf
  <1>2. row \in Rows(n + 1, from, last) /\ row[n + 1] = last /\ \A k \in 0..n : row[k] = at[k]
    BY <1>1, RowsAppend
  <1>3. at[n] = to BY <1>1, RowsGrow
  <1> HIDE DEF row, r
  <1>4. ASSUME NEW k \in 1..(n + 1)
        PROVE  IF row[k] = row[k - 1]
               THEN Harmless(r[k]) \/ (row[k] = LastItem /\ Thing(r[k], LastItem))
               ELSE Thing(r[k], row[k])
    <2>1. CASE k = n + 1
      <3>1. k - 1 = n /\ n \in 0..n BY <1>1, <2>1
      <3>2. row[k - 1] = to /\ row[k] = last /\ r[k] = x BY <1>1, <1>2, <1>3, <2>1, <3>1
      <3>3. to # to + 1 OBVIOUS
      <3> QED BY <3>2, <3>3
    <2>2. CASE k # n + 1
      <3>1. k \in 1..n /\ k \in 0..n /\ k - 1 \in 0..n BY <1>1, <2>2
      <3>2. row[k] = at[k] /\ row[k - 1] = at[k - 1] /\ r[k] = q[k] BY <1>1, <1>2, <3>1
      <3> QED BY <3>1, <3>2 DEF ThingsRow
    <2> QED BY <2>1, <2>2
  <1>5. ThingsRow(r, row) BY <1>1, <1>4 DEF ThingsRow
  <1>6. ASSUME OpenedFirst(q, at) PROVE OpenedFirst(r, row)
    <2>1. PICK k \in 1..n : at[k] = 0 /\ Bare(q[k], {"ACK"}) BY <1>6 DEF OpenedFirst
    <2>2. k \in 1..(n + 1) /\ k \in 0..n BY <1>1, <2>1
    <2> QED BY <1>1, <1>2, <2>1, <2>2 DEF OpenedFirst
  <1> QED BY <1>1, <1>2, <1>5, <1>6 DEF r

\* And on a link that does not.
LEMMA LooseTail ==
    ASSUME NEW q, Queued(q), q # <<>>, NEW s \in Nat, s <= LastItem,
           NEW may \in BOOLEAN, Loose(q, s, may)
    PROVE  /\ Loose(Tail(q), s, may)
           /\ 1 <= s /\ Thing(Head(q), s) => Loose(Tail(q), s, FALSE)
  <1> DEFINE n == Len(q)
  <1>1. /\ n \in Nat /\ n > 0 /\ Len(Tail(q)) = n - 1 /\ Head(q) = q[1] /\ Queued(Tail(q))
        /\ \A k \in 1..(n - 1) : Tail(q)[k] = q[k + 1]
        /\ ToSet(Tail(q)) \subseteq ToSet(q)
    BY TailOf
  <1>2. ASSUME NEW j \in 1..(n - 1), NEW k \in 1..(n - 1),
               TcpPayloadLen(Tail(q)[j]) # 0, TcpPayloadLen(Tail(q)[k]) # 0
        PROVE  j = k
    <2>1. j + 1 \in 1..n /\ k + 1 \in 1..n BY <1>1
    <2>2. j + 1 = k + 1 BY <1>1, <1>2, <2>1 DEF Loose
    <2> QED BY <2>2
  <1>3. Loose(Tail(q), s, may) BY <1>1, <1>2 DEF Loose
  <1>4. ASSUME 1 <= s, Thing(Head(q), s), NEW f \in ToSet(Tail(q)), s # LastItem
        PROVE  Harmless(f)
    <2> SUFFICES ASSUME Thing(f, s) PROVE FALSE BY <1>1, <1>4 DEF Loose
    <2>1. s < LastItem BY <1>4, Sizes
    <2>2. TcpPayloadLen(q[1]) # 0 /\ TcpPayloadLen(f) # 0 BY <1>1, <1>4, <2>1, ThingRead
    <2>3. PICK k \in 1..(n - 1) : f = Tail(q)[k]
      <3>1. Queued(Tail(q)) BY <1>1
      <3>2. PICK k \in 1..Len(Tail(q)) : f = Tail(q)[k] BY <3>1, QueueIs
      <3> QED BY <1>1, <3>2
    <2>4. k + 1 \in 1..n /\ 1 \in 1..n /\ k + 1 # 1 /\ f = q[k + 1] BY <1>1, <2>3
    <2> QED BY <2>2, <2>4 DEF Loose
  <1>5. 1 <= s /\ Thing(Head(q), s) => Loose(Tail(q), s, FALSE) BY <1>3, <1>4 DEF Loose
  <1> QED BY <1>3, <1>5

\* On a link that keeps no order, a request that carries nothing may be doubled,
LEMMA LooseDouble ==
    ASSUME NEW q, Queued(q), q # <<>>, TcpPayloadLen(Head(q)) = 0, NEW s, NEW may,
           Loose(q, s, may), NEW r, r = Doubled(q)
    PROVE  Loose(r, s, may)
  <1> DEFINE n == Len(q)
  <1>1. /\ n \in Nat /\ n > 0 /\ Len(r) = n + 1 /\ ToSet(r) = ToSet(q) /\ q[1] = Head(q)
        /\ r[1] = q[1] /\ \A k \in 1..n : r[k + 1] = q[k]
    <2>1. q[1] = Head(q) BY TailOf
    <2> QED BY <2>1, DoubleOf
  <1>2. ASSUME NEW j \in 1..(n + 1), NEW k \in 1..(n + 1),
               TcpPayloadLen(r[j]) # 0, TcpPayloadLen(r[k]) # 0
        PROVE  j = k
    <2>1. j # 1 /\ k # 1 BY <1>1, <1>2
    <2>2. j - 1 \in 1..n /\ (j - 1) + 1 = j /\ k - 1 \in 1..n /\ (k - 1) + 1 = k
      BY <1>1, <2>1
    <2>3. r[j] = q[j - 1] /\ r[k] = q[k - 1] BY <1>1, <2>2
    <2>4. j - 1 = k - 1 BY <1>2, <2>2, <2>3 DEF Loose
    <2> QED BY <2>4
  <1> QED BY <1>1, <1>2 DEF Loose

\* requests may be swapped,
LEMMA LooseSwap ==
    ASSUME NEW q, Queued(q), Len(q) > 1, NEW s, NEW may, Loose(q, s, may),
           NEW r, r = Swapped(q)
    PROVE  Loose(r, s, may)
  <1> DEFINE n == Len(q)
             old(k) == IF k = 1 THEN 2 ELSE IF k = 2 THEN 1 ELSE k
  <1>1. /\ n \in Nat /\ n > 1 /\ Len(r) = n /\ ToSet(r) \subseteq ToSet(q)
        /\ r[1] = q[2] /\ r[2] = q[1] /\ \A k \in 3..n : r[k] = q[k]
    BY SwapOf
  <1>2. ASSUME NEW k \in 1..n PROVE old(k) \in 1..n /\ r[k] = q[old(k)]
    <2>1. k \notin {1, 2} => k \in 3..n BY <1>1
    <2> QED BY <1>1, <2>1
  <1>3. \A j, k \in 1..n : old(j) = old(k) => j = k OBVIOUS
  <1>4. ASSUME NEW j \in 1..n, NEW k \in 1..n,
               TcpPayloadLen(r[j]) # 0, TcpPayloadLen(r[k]) # 0
        PROVE  j = k
    <2> HIDE DEF old
    <2>1. old(j) = old(k) BY <1>2, <1>4 DEF Loose
    <2> QED BY <1>3, <2>1
  <1> QED BY <1>1, <1>4 DEF Loose

\* and one may be added.
LEMMA LooseAppend ==
    ASSUME NEW q, Queued(q), NEW s, NEW may, Loose(q, s, may), NEW x, Harmless(x)
    PROVE  Loose(Append(q, x), s, may)
  <1> DEFINE n == Len(q)
             r == Append(q, x)
  <1>1. /\ n \in Nat /\ Len(r) = n + 1 /\ r[n + 1] = x /\ \A k \in 1..n : r[k] = q[k]
        /\ \A y \in ToSet(r) : y \in ToSet(q) \/ y = x
    BY AppendOf
  <1>2. TcpPayloadLen(x) = 0 BY HarmlessRead
  <1> HIDE DEF r
  <1>3. ASSUME NEW j \in 1..(n + 1), NEW k \in 1..(n + 1),
               TcpPayloadLen(r[j]) # 0, TcpPayloadLen(r[k]) # 0
        PROVE  j = k
    <2>1. j # n + 1 /\ k # n + 1 BY <1>1, <1>2, <1>3
    <2>2. j \in 1..n /\ k \in 1..n BY <1>1, <2>1
    <2> QED BY <1>1, <1>3, <2>2 DEF Loose
  <1>4. Loose(r, s, may) BY <1>1, <1>3 DEF Loose
  <1> QED BY <1>4 DEF r

\* A thing joins a queue of what is harmless.
LEMMA LooseItem ==
    ASSUME NEW q, Queued(q), \A f \in ToSet(q) : Harmless(f), NEW s, NEW x, Thing(x, s)
    PROVE  Loose(Append(q, x), s, TRUE)
  <1> DEFINE n == Len(q)
             r == Append(q, x)
  <1>1. /\ n \in Nat /\ Len(r) = n + 1 /\ r[n + 1] = x /\ \A k \in 1..n : r[k] = q[k]
        /\ \A y \in ToSet(r) : y \in ToSet(q) \/ y = x
        /\ \A k \in 1..n : q[k] \in ToSet(q)
    BY AppendOf, QueueIs
  <1> HIDE DEF r
  <1>2. ASSUME NEW j \in 1..(n + 1), TcpPayloadLen(r[j]) # 0 PROVE j = n + 1
    <2>1. j \in 1..n \/ j = n + 1 BY <1>1
    <2> QED BY <1>1, <1>2, <2>1, HarmlessRead
  <1>3. Loose(r, s, TRUE) BY <1>1, <1>2 DEF Loose
  <1> QED BY <1>3 DEF r

-----------------------------------------------------------------------------
(***************************************************************************)
(* The next state, told in the numbers and frames of this one.             *)
(***************************************************************************)
\* What makes both ends agree after a step.
LEMMA StepNext ==
    ASSUME client'.iss = client.iss, client'.port = client.port,
           NEW t \in Nat, Back' <= t, t <= client'.sent, ClientInv(Back)', StackInv(t)',
           \E at \in Rows(Len(replies'), Back', t) : AnswersTo(replies', at),
           link'.window = 1 => Loose(requests', client'.sent, t < client'.sent),
           link'.window # 1 =>
             \E at \in Rows(Len(requests'), t, client'.sent) :
               /\ ThingsRow(requests', at)
               /\ conn'.state = "SYN_RECEIVED" => OpenedFirst(requests', at)
    PROVE  StepAt(t)'
  <1> PICK q : q = replies' OBVIOUS
  <1> PICK p : p = requests' OBVIOUS
  <1>1. /\ \A f : Harmless(f)' = Harmless(f) /\ \A flags : Bare(f, flags)' = Bare(f, flags)
        /\ \A f, i : Thing(f, i)' = Thing(f, i)
        /\ \A r, i : Answer(r, i)' = Answer(r, i)
    BY SameSession
  <1>2. \A r, at : AnswersTo(r, at) = AnswersTo(r, at)' BY <1>1 DEF AnswersTo
  <1>3. \A r, at : ThingsRow(r, at) = ThingsRow(r, at)' BY <1>1 DEF ThingsRow
  <1>4. \A r, at : OpenedFirst(r, at) = OpenedFirst(r, at)' BY <1>1 DEF OpenedFirst
  <1>5. \A r, s, may : Loose(r, s, may) = Loose(r, s, may)' BY <1>1 DEF Loose
  <1>6. RepliesInv(t)'
    <2>1. PICK at \in Rows(Len(replies'), Back', t) : AnswersTo(q, at) OBVIOUS
    <2>2. AnswersTo(q, at)' BY <1>2, <2>1
    <2> QED BY <2>1, <2>2 DEF RepliesInv, AnswersTo
  <1>7. CASE link'.window = 1
    <2>1. PICK s : s = client'.sent OBVIOUS
    <2>2. Loose(p, s, t < s)' BY <1>5, <1>7, <2>1
    <2>3. Loose(requests, client.sent, t < client.sent)' BY <2>1, <2>2 DEF Loose
    <2> QED BY <1>6, <1>7, <2>3 DEF StepAt
  <1>8. CASE link'.window # 1
    <2>1. PICK at \in Rows(Len(requests'), t, client'.sent) :
            ThingsRow(p, at) /\ (conn'.state = "SYN_RECEIVED" => OpenedFirst(p, at))
      BY <1>8
    <2>2. ThingsRow(p, at)' /\ (conn'.state = "SYN_RECEIVED" => OpenedFirst(p, at)')
      BY <1>3, <1>4, <2>1
    <2>3. ThingsRow(requests, at)' BY <2>2 DEF ThingsRow
    <2>4. conn'.state = "SYN_RECEIVED" => OpenedFirst(requests, at)' BY <2>2 DEF OpenedFirst
    <2>5. InOrder(t)' BY <2>1, <2>3, <2>4 DEF InOrder
    <2> QED BY <1>6, <1>8, <2>5 DEF StepAt
  <1> QED BY <1>7, <1>8
\* A frame reaches the stack, and its answer the client's queue.
LEMMA Delivered ==
    ASSUME Shapes, FaultsInv, StackReceives, ConnShape'
    PROVE  /\ requests # <<>> /\ requests' = Tail(requests)
           /\ Head(requests) \in ToSet(requests)
           /\ Stack!HandleFrame(Head(requests), GCS_STACK_FRAME_CAP)
           /\ client' = client /\ link' = link /\ faults' = faults
           /\ Shapes' /\ FaultsInv' /\ (Calm' <=> Calm)
           /\ ToSet(requests') \subseteq ToSet(requests)
           /\ ~Answered(tx') => replies' = replies
           /\ Answered(tx') => replies' = Append(replies, tx')
           /\ \A r \in ToSet(replies') : r \in ToSet(replies) \/ (Answered(tx') /\ r = tx')
  <1>1. /\ requests # <<>> /\ requests' = Tail(requests)
        /\ Stack!HandleFrame(Head(requests), GCS_STACK_FRAME_CAP)
        /\ client' = client /\ link' = link /\ faults' = faults
        /\ replies' = IF Answered(tx') THEN Append(replies, tx') ELSE replies
    BY DEF StackReceives
  <1>2. Queued(requests) /\ Queued(replies) BY DEF Shapes
  <1>3. /\ Queued(requests') /\ ToSet(requests') \subseteq ToSet(requests)
        /\ Head(requests) \in ToSet(requests)
    BY <1>1, <1>2, TailOf
  <1>4. /\ Queued(replies')
        /\ \A r \in ToSet(replies') : r \in ToSet(replies) \/ (Answered(tx') /\ r = tx')
    <2>1. CASE Answered(tx') BY <1>1, <1>2, <2>1, AppendOf
    <2>2. CASE ~Answered(tx') BY <1>1, <1>2, <2>2
    <2> QED BY <2>1, <2>2
  <1>5. Shapes' BY <1>1, <1>3, <1>4 DEF Shapes, ClientShape
  <1> QED BY <1>1, <1>3, <1>4, <1>5, NoFault

\* What the stack makes of any frame before the session is open.
LEMMA DialHeard ==
    ASSUME Shapes, FaultsInv, Dial, StackReceives
    PROVE  Shapes' /\ Dial'
  <1>1. /\ requests # <<>> /\ client' = client /\ faults' = faults
        /\ Stack!HandleFrame(Head(requests), GCS_STACK_FRAME_CAP)
    BY DEF StackReceives
  <1>2. PICK f : f = Head(requests) OBVIOUS
  <1>3. f \in ToSet(requests) BY <1>1, <1>2, TailOf DEF Shapes
  <1>4. Stack!HandleFrame(f, GCS_STACK_FRAME_CAP) /\ ConnShape BY <1>1, <1>2 DEF Shapes
  <1>5. Dialling' BY <1>1 DEF Dial, Dialling, ClientSeq
  <1>6. /\ \A k : ClientSeq(k)' = ClientSeq(k) /\ StackSeq(k)' = StackSeq(k)
        /\ \A g : FromPort(g)' = FromPort(g) /\ \A flags : Bare(g, flags)' = Bare(g, flags)
        /\ \A r, i : Answer(r, i)' = Answer(r, i)
    BY <1>1, SameSession
  <1>7. CASE PortClosed
    <2>1. conn' = conn /\ tx'.tcp.flags = {"RST", "ACK"}
      BY <1>3, <1>4, <1>7, ClosedPortHeard DEF PortClosed
    <2>2. ConnShape' BY <1>4, <2>1 DEF ConnShape
    <2>3. PortClosed' BY <1>1, <1>6, <1>7, <2>1, <2>2, Delivered DEF PortClosed
    <2> QED BY <1>5, <2>2, <2>3, Delivered DEF Dial
  <1>8. CASE client.port = ListenPort /\ Listening
    <2>1. PICK iss \in PeerIsses : /\ f = ClientFrame(client, iss, 0, {"SYN"}, NoData)
                                   /\ faults.restarts = 0 => iss = client.iss
      BY <1>3, <1>8 DEF Listening
    <2>2. FromClient(f, iss, {"SYN"}, NoData) BY <2>1, NoDataFits, ClientFrameRead
    <2>3. /\ ConnShape' /\ conn'.state = "SYN_RECEIVED"
          /\ conn'.bytes_received = conn.bytes_received
          /\ conn'.rcv_nxt = ToSeq(iss + 1) /\ conn'.snd_nxt = ToSeq(Iss + 1)
          /\ Says(tx', Iss, ToSeq(iss + 1), {"SYN", "ACK"}, NoData, 0)
      BY <1>4, <1>8, <2>2, SynAtListen DEF Listening
    <2>4. /\ ToSet(requests') \subseteq ToSet(requests) /\ Shapes'
          /\ \A r \in ToSet(replies') : r = tx'
      <3>1. ToSet(replies) = {} BY <1>8 DEF Listening, ToSet
      <3> QED BY <2>3, <3>1, Delivered
    <2>5. \A g \in ToSet(requests') : Bare(g, {"SYN"}) /\ FromPort(g)
      BY <1>8, <2>4, NoDataFits DEF Listening, Bare, FromPort
    <2>6. /\ ClientSeq(0) = ToSeq(client.iss + 1) /\ StackSeq(0) = ToSeq(Iss + 1)
      BY Numbers DEF Shapes
    <2>7. client.state # "REFUSED" BY <1>8 DEF Dial, PortClosed
    <2>8. CASE iss = client.iss
      <3>1. \A r \in ToSet(replies') : Answer(r, 0)
        BY <2>3, <2>4, <2>6, <2>8 DEF Says, Answer
      <3>2. Greeted' BY <1>6, <1>8, <2>3, <2>5, <2>6, <2>8, <3>1 DEF Greeted, Listening
      <3> QED BY <1>1, <1>5, <1>8, <2>4, <2>7, <3>2 DEF Dial
    <2>9. CASE iss # client.iss
      <3>1. ToSeq(iss + 1) # ClientSeq(0)
        <4>1. client.iss \in PeerIsses BY DEF Shapes, ClientShape
        <4> QED BY <2>6, <2>9, <4>1, OtherIss, Sizes
      <3>2. \A r \in ToSet(replies') :
              "RST" \notin r.tcp.flags /\ ("SYN" \in r.tcp.flags => r.tcp.ack # ClientSeq(0))
        BY <2>3, <2>4, <3>1 DEF Says
      <3>3. Foreign' BY <1>1, <1>6, <1>8, <2>1, <2>3, <2>5, <2>9, <3>2 DEF Foreign, Listening
      <3> QED BY <1>1, <1>5, <1>8, <2>4, <2>7, <3>3 DEF Dial
    <2> QED BY <2>8, <2>9
  <1>9. CASE client.port = ListenPort /\ Greeted
    <2>1. Unheard /\ conn'.state = conn.state
      <3>1. PICK flags \in {{"SYN"}, {"RST"}} : Bare(f, flags) BY <1>3, <1>9 DEF Greeted
      <3>2. PICK seq : FromClient(f, seq, flags, NoData) BY <3>1, BareRead
      <3>3. conn.state \in Engaged BY <1>9 DEF Greeted, Engaged
      <3>4. "ACK" \notin flags /\ "FIN" \notin flags OBVIOUS
      <3> QED BY <1>4, <1>9, <3>2, <3>3, <3>4, IgnoredBy
    <2>2. /\ ToSet(requests') \subseteq ToSet(requests) /\ Shapes' /\ replies' = replies
      BY <2>1, Delivered DEF Unheard
    <2>3. Greeted' BY <1>6, <1>9, <2>1, <2>2 DEF Greeted, Unheard
    <2>4. client.state # "REFUSED" BY <1>9 DEF Dial, PortClosed
    <2> QED BY <1>1, <1>5, <1>9, <2>2, <2>3, <2>4 DEF Dial
  <1>10. CASE client.port = ListenPort /\ Foreign
    <2>1. /\ ConnShape' /\ conn'.state # "LISTEN" /\ conn'.bytes_received \in Nat
          /\ Answered(tx') => tx'.tcp.flags \cap {"SYN", "RST"} = {}
      BY <1>3, <1>4, <1>10, ForeignHeard DEF Foreign
    <2>2. /\ ToSet(requests') \subseteq ToSet(requests) /\ Shapes'
          /\ \A r \in ToSet(replies') : r \in ToSet(replies) \/ (Answered(tx') /\ r = tx')
      BY <2>1, Delivered
    <2>3. \A r \in ToSet(replies') :
            "RST" \notin r.tcp.flags /\ ("SYN" \in r.tcp.flags => r.tcp.ack # ClientSeq(0))
      BY <1>10, <2>1, <2>2 DEF Foreign
    <2>4. Foreign' BY <1>1, <1>6, <1>10, <2>1, <2>2, <2>3 DEF Foreign
    <2>5. client.state # "REFUSED" BY <1>10 DEF Dial, PortClosed
    <2> QED BY <1>1, <1>5, <1>10, <2>2, <2>4, <2>5 DEF Dial
  <1> QED BY <1>7, <1>8, <1>9, <1>10 DEF Dial

\* The SYN|ACK opens the client's connection, its ACK that of the stack.
LEMMA Opened ==
    ASSUME Shapes, FaultsInv, Dialling, Greeted, client.port = ListenPort,
           NEW r, Answer(r, 0), ReceiveSynAck(r),
           replies # <<>>, replies' = Tail(replies), conn' = conn, link' = link
    PROVE  Shapes' /\ StepAt(0)'
  <1> DEFINE rcv == ToSeq(r.tcp.seq + 1)
             una == r.tcp.ack
             n == Len(requests)
  <1>1. /\ client' = [client EXCEPT !.state = "ESTABLISHED", !.snd_una = una,
                                    !.rcv_nxt = rcv]
        /\ requests' = Append(requests, AckFrame(client'))
        /\ client.state = "SYN_SENT"
    BY DEF ReceiveSynAck
  <1>2. una = ClientSeq(0) /\ rcv = StackSeq(0) BY Numbers DEF Answer, Shapes
  <1> HIDE DEF rcv, una
  <1>3. /\ ClientShape' /\ client'.state = "ESTABLISHED" /\ client'.snd_una = una
        /\ client'.rcv_nxt = rcv /\ client'.snd_nxt = client.snd_nxt
        /\ client'.iss = client.iss /\ client'.port = client.port
        /\ client'.sent = client.sent /\ client'.got = client.got
    BY <1>1 DEF Shapes, ClientShape, ClientFields
  <1>4. /\ client.sent = 0 /\ client.got = <<>> /\ client.snd_nxt = ClientSeq(0)
        /\ conn.state = "SYN_RECEIVED" /\ conn.bytes_received = 0
        /\ conn.rcv_nxt = ClientSeq(0) /\ conn.snd_nxt = StackSeq(0)
    BY <1>1 DEF Dialling, Greeted
  <1>5. /\ \A k : ClientSeq(k)' = ClientSeq(k) /\ StackSeq(k)' = StackSeq(k)
        /\ \A f : Harmless(f)' = Harmless(f) /\ \A flags : Bare(f, flags)' = Bare(f, flags)
        /\ \A q, i : Answer(q, i)' = Answer(q, i)
    BY <1>3, SameSession
  <1>6. Back' = 0 BY <1>3, <1>4 DEF Back
  <1>7. PICK g : g = AckFrame(client') OBVIOUS
  <1>8. Bare(g, {"ACK"})' /\ Bare(g, {"ACK"}) /\ Harmless(g)
    <2>1. Bare(g, {"ACK"})' BY <1>7 DEF Bare, AckFrame
    <2> QED BY <1>5, <2>1 DEF Harmless
  <1>9. /\ Queued(requests') /\ n \in Nat /\ Len(requests') = n + 1 /\ requests'[n + 1] = g
        /\ \A k \in 1..n : requests'[k] = requests[k] /\ requests[k] \in ToSet(requests)
        /\ \A y \in ToSet(requests') : y \in ToSet(requests) \/ y = g
    <2>1. Queued(requests) BY DEF Shapes
    <2> QED BY <1>1, <1>7, <2>1, AppendOf, QueueIs
  <1>10. Queued(replies') /\ ToSet(replies') \subseteq ToSet(replies)
    <2>1. Queued(replies) BY DEF Shapes
    <2> QED BY <2>1, TailOf
  <1>11. \A f \in ToSet(requests') : Harmless(f)
    BY <1>8, <1>9 DEF Greeted, Harmless
  <1>12. Shapes' BY <1>3, <1>9, <1>10 DEF Shapes, ConnShape
  <1>13. LastItem \in Nat /\ LastItem >= 1 /\ LastItem # 0 /\ 0 < LastItem BY Sizes
  <1>14. ClientInv(Back)'
    <2>1. client'.got = SubSeq(Chunks, 1, Len(client'.got)) /\ Len(client'.got) = 0
      BY <1>3, <1>4, SubSeqEmpty
    <2>2. 0 \in 0..LastItem /\ 0 \in 0..(LastItem - 1) BY <1>13
    <2>3. /\ client'.port = ListenPort /\ client'.sent = 0 /\ client'.state = "ESTABLISHED"
          /\ client'.snd_una = ClientSeq(0)' /\ client'.snd_nxt = ClientSeq(0)'
          /\ client'.rcv_nxt = StackSeq(0)'
      BY <1>2, <1>3, <1>4, <1>5
    <2> QED BY <1>6, <1>13, <2>1, <2>2, <2>3 DEF ClientInv
  <1>15. StackInv(0)'
    <2>1. ChunksIn(0) = 0 /\ Bytes(0) = 0 BY <1>13, BytesGrow DEF ChunksIn
    <2> QED BY <1>4, <1>5, <1>13, <2>1 DEF StackInv
  <1>16. \E at \in Rows(Len(replies'), Back', 0) : AnswersTo(replies', at)
    <2> PICK q : q = replies' OBVIOUS
    <2> DEFINE m == Len(q)
    <2>1. m \in Nat /\ \A k \in 1..m : q[k] \in ToSet(q) BY <1>10, QueueIs
    <2>2. PICK at : at = [k \in 0..m |-> 0] OBVIOUS
    <2>3. \A k \in 0..m : at[k] = 0 BY <2>2
    <2>4. at \in Rows(m, 0, 0)
      <3> HIDE DEF m
      <3> QED BY <2>1, <2>2, RowsFlat
    <2>5. ASSUME NEW k \in 1..m PROVE Answer(q[k], at[k])
      <3>1. at[k] = 0 BY <2>3
      <3>2. Answer(q[k], 0) BY <1>10, <2>1 DEF Greeted
      <3> QED BY <3>1, <3>2
    <2>6. AnswersTo(q, at) BY <2>5 DEF AnswersTo
    <2> QED BY <1>6, <2>4, <2>6
  <1>17. Loose(requests', client'.sent, 0 < client'.sent)
    <2>1. \A f \in ToSet(requests') : Harmless(f) /\ TcpPayloadLen(f) = 0
      BY <1>11, HarmlessRead
    <2>2. \A k \in 1..Len(requests') : TcpPayloadLen(requests'[k]) = 0 BY <1>9, <2>1, QueueIs
    <2> QED BY <2>1, <2>2 DEF Loose
  <1>18. \E at \in Rows(Len(requests'), 0, client'.sent) :
           ThingsRow(requests', at) /\ OpenedFirst(requests', at)
    <2> PICK q : q = requests' OBVIOUS
    <2> DEFINE m == Len(q)
    <2>1. m \in Nat /\ \A k \in 1..m : q[k] \in ToSet(q) BY <1>9, QueueIs
    <2>2. PICK at : at = [k \in 0..m |-> 0] OBVIOUS
    <2>3. \A k \in 0..m : at[k] = 0 BY <2>2
    <2>4. at \in Rows(m, 0, 0)
      <3> HIDE DEF m
      <3> QED BY <2>1, <2>2, RowsFlat
    <2>5. ASSUME NEW k \in 1..m PROVE at[k] = at[k - 1] /\ at[k] = 0 /\ Harmless(q[k])
      <3>1. at[k] = 0 /\ at[k - 1] = 0
        <4>1. k \in 0..m /\ k - 1 \in 0..m BY <2>1
        <4> QED BY <2>3, <4>1
      <3>2. Harmless(q[k]) BY <1>11, <2>1
      <3> QED BY <3>1, <3>2
    <2>6. ThingsRow(q, at) BY <2>5 DEF ThingsRow
    <2>7. m \in 1..m /\ q[m] = g BY <1>9
    <2>8. OpenedFirst(q, at) BY <1>8, <2>5, <2>7 DEF OpenedFirst
    <2>9. client'.sent = 0 BY <1>3, <1>4
    <2> QED BY <2>4, <2>6, <2>8, <2>9
  <1>19. Back' <= 0 /\ 0 <= client'.sent BY <1>3, <1>4, <1>6
  <1>20. 0 \in Nat OBVIOUS
  <1>21. StepAt(0)'
    BY <1>3, <1>14, <1>15, <1>16, <1>17, <1>18, <1>19, <1>20, StepNext
  <1> QED BY <1>12, <1>21

\* The client's connection opens, or is refused, or the segment is for another.
LEMMA DialAnswered ==
    ASSUME Shapes, FaultsInv, Dial, ClientReceives
    PROVE  /\ Shapes' /\ (Dial' \/ Step')
           /\ client'.got = client.got /\ client'.sent = client.sent
           /\ client'.state # "DONE" /\ client.state # "DONE"
  <1>1. /\ replies # <<>> /\ replies' = Tail(replies) /\ conn' = conn /\ link' = link
        /\ faults' = faults
        /\ \/ ReceiveSynAck(Head(replies)) \/ ReceiveRefusal(Head(replies))
           \/ ReceiveStray(Head(replies)) \/ ReceiveSegment(Head(replies))
    BY DEF ClientReceives, stack_vars
  <1>2. PICK r : r = Head(replies) OBVIOUS
  <1>3. Queued(requests) /\ Queued(replies) BY DEF Shapes
  <1>4. r \in ToSet(replies) /\ Queued(replies') /\ ToSet(replies') \subseteq ToSet(replies)
    BY <1>1, <1>2, <1>3, TailOf
  <1>5. client.state \in {"CLOSED", "SYN_SENT", "REFUSED"} /\ Dialling BY DEF Dial, Dialling
  <1>6. CASE ReceiveSynAck(r)
    <2>1. /\ "SYN" \in r.tcp.flags /\ r.tcp.ack = ClientSeq(0)
      BY <1>5, <1>6 DEF ReceiveSynAck, Dialling
    <2>2. ~PortClosed /\ ~Listening /\ ~Foreign
      <3>1. "SYN" \notin {"RST", "ACK"} OBVIOUS
      <3> QED BY <1>1, <1>4, <2>1, <3>1 DEF PortClosed, Listening, Foreign
    <2>3. client.port = ListenPort /\ Greeted BY <2>2 DEF Dial
    <2>4. Answer(r, 0) BY <1>4, <2>3 DEF Greeted
    <2>5. Shapes' /\ StepAt(0)' BY <1>1, <1>5, <1>6, <2>3, <2>4, Opened
    <2>6. 0 \in Nat OBVIOUS
    <2>7. /\ client'.got = client.got /\ client'.sent = client.sent
          /\ client'.state = "ESTABLISHED"
      BY <1>6 DEF ReceiveSynAck, Shapes, ClientShape, ClientFields
    <2> QED BY <1>5, <2>5, <2>6, <2>7 DEF Step
  <1>7. CASE ReceiveRefusal(r)
    <2>1. /\ "RST" \in r.tcp.flags /\ requests' = requests
          /\ client' = [client EXCEPT !.state = "REFUSED"]
      BY <1>7 DEF ReceiveRefusal
    <2>2. ~Listening /\ ~Greeted /\ ~Foreign
      BY <1>1, <1>4, <2>1 DEF Listening, Greeted, Foreign, Answer
    <2>3. PortClosed BY <2>2 DEF Dial
    <2>4. /\ ClientShape' /\ client'.state = "REFUSED" /\ client'.iss = client.iss
          /\ client'.port = client.port /\ client'.snd_nxt = client.snd_nxt
          /\ client'.sent = client.sent /\ client'.got = client.got
      BY <2>1 DEF Shapes, ClientShape, ClientFields
    <2>5. Shapes' /\ Dial'
      BY <1>1, <1>3, <1>4, <2>1, <2>3, <2>4, DialKept DEF PortClosed
    <2> QED BY <1>5, <2>4, <2>5
  <1>8. CASE ReceiveStray(r)
    <2>1. client' = client
          /\ requests' = IF "RST" \in r.tcp.flags THEN requests
                         ELSE Append(requests, RstFrame(client, r))
      BY <1>8 DEF ReceiveStray
    <2>2. Bare(RstFrame(client, r), {"RST"}) BY DEF Bare, RstFrame
    <2>3. /\ Queued(requests')
          /\ \A f \in ToSet(requests') : f \in ToSet(requests) \/ Bare(f, {"RST"})
      <3>1. CASE "RST" \in r.tcp.flags BY <1>3, <2>1, <3>1
      <3>2. CASE "RST" \notin r.tcp.flags BY <1>3, <2>1, <2>2, <3>2, AppendOf
      <3> QED BY <3>1, <3>2
    <2>4. Shapes' /\ Dial' BY <1>1, <1>4, <2>1, <2>3, DialQueues
    <2> QED BY <1>5, <2>1, <2>4
  <1>9. ~ReceiveSegment(r) BY <1>5 DEF ReceiveSegment
  <1> QED BY <1>1, <1>2, <1>6, <1>7, <1>8, <1>9
-----------------------------------------------------------------------------
(***************************************************************************)
(* The open connection.                                                    *)
(***************************************************************************)
\* What the client's numbers make of its state.
LEMMA ClientIs ==
    ASSUME Shapes, NEW a \in Nat, ClientInv(a)
    PROVE  /\ Back \in Nat /\ Back <= a /\ a <= client.sent /\ client.sent \in Nat
           /\ client.sent <= LastItem /\ LastItem \in Nat /\ Back <= LastItem
           /\ client.port = ListenPort /\ client.state \in {"ESTABLISHED", "FIN_SENT", "DONE"}
           /\ client.state = "DONE" <=> Back = LastItem
           /\ client.state = "ESTABLISHED" <=> client.sent < LastItem
           /\ Len(client.got) \in Nat
           /\ Back = LastItem => Len(client.got) = LastItem - 1
           /\ Back < LastItem => Back = Len(client.got)
           /\ Unacked(client) = (a + 1)..client.sent
  <1> DEFINE n == Len(client.got)
  <1>1. /\ n \in 0..(LastItem - 1) /\ client.sent \in 0..LastItem
        /\ Back <= a /\ a <= client.sent /\ client.port = ListenPort
        /\ client.state = IF Back = LastItem THEN "DONE"
                          ELSE IF client.sent = LastItem THEN "FIN_SENT" ELSE "ESTABLISHED"
        /\ client.snd_una = ClientSeq(a) /\ client.snd_nxt = ClientSeq(client.sent)
    BY DEF ClientInv
  <1>2. LastItem \in Nat /\ LastItem >= 1 BY Sizes
  <1>3. Back = n + (IF client.state = "DONE" THEN 1 ELSE 0) BY DEF Back
  <1> HIDE DEF n
  <1>4. n \in Nat /\ n <= LastItem - 1 /\ client.sent \in Nat /\ client.sent <= LastItem
    BY <1>1, <1>2
  <1>5. client.state = "DONE" <=> Back = LastItem BY <1>1
  <1>6. (Back = LastItem => n = LastItem - 1) /\ (Back < LastItem => Back = n) /\ Back \in Nat
    <2>1. CASE client.state = "DONE" BY <1>2, <1>3, <1>4, <1>5, <2>1
    <2>2. CASE client.state # "DONE" BY <1>2, <1>3, <1>4, <1>5, <2>2
    <2> QED BY <2>1, <2>2
  <1>7. a \in 0..LastItem /\ client.sent \in a..LastItem BY <1>1, <1>2, <1>4
  <1>8. client.iss \in Int BY Numbers DEF Shapes
  <1>9. Unacked(client) = (a + 1)..client.sent BY <1>1, <1>7, <1>8, UnackedIs
  <1>10. client.state = "ESTABLISHED" <=> client.sent < LastItem
    BY <1>1, <1>2, <1>4, <1>6
  <1>11. Back <= LastItem BY <1>1, <1>2, <1>4, <1>6
  <1> QED BY <1>1, <1>2, <1>4, <1>5, <1>6, <1>9, <1>10, <1>11 DEF n

\* What is on its way is of the client's host, and its answers greet no other client.
LEMMA LooseRead ==
    ASSUME NEW q, NEW s \in Nat, s <= LastItem, NEW may \in BOOLEAN, may => s > 0,
           Loose(q, s, may)
    PROVE  \A f \in ToSet(q) : FromPort(f)
  <1> SUFFICES ASSUME NEW f \in ToSet(q) PROVE FromPort(f) OBVIOUS
  <1>1. Harmless(f) \/ (Thing(f, s) /\ (s = LastItem \/ may)) BY DEF Loose
  <1>2. CASE Harmless(f) BY <1>2, HarmlessRead
  <1>3. CASE Thing(f, s) /\ (s = LastItem \/ may)
    <2>1. 1 <= s BY <1>3, Sizes
    <2> QED BY <1>3, <2>1, ThingRead
  <1> QED BY <1>1, <1>2, <1>3

\* The frames of a session that a restart makes one of another client.
Estranged ==
    /\ client.port = ListenPort /\ conn.state # "LISTEN" /\ conn.bytes_received \in Nat
    /\ \A f \in ToSet(requests) : FromPort(f)
    /\ \A r \in ToSet(replies) :
         "RST" \notin r.tcp.flags /\ ("SYN" \in r.tcp.flags => r.tcp.ack = ClientSeq(0))

\* The bytes the stack counts after t things.
LEMMA BytesCounted ==
    ASSUME NEW t \in Nat, t <= LastItem
    PROVE  /\ ChunksIn(t) \in Nat /\ ChunksIn(t) <= t /\ ChunksIn(t) <= LastItem - 1
           /\ Bytes(ChunksIn(t)) \in Nat /\ Bytes(ChunksIn(t)) < SeqSpace
           /\ t < LastItem => ChunksIn(t) = t
           /\ t = LastItem => ChunksIn(t) = LastItem - 1
  <1>1. LastItem \in Nat /\ LastItem >= 1 BY Sizes
  <1>2. /\ ChunksIn(t) \in Nat /\ ChunksIn(t) <= t /\ ChunksIn(t) <= LastItem - 1
        /\ t < LastItem => ChunksIn(t) = t
        /\ t = LastItem => ChunksIn(t) = LastItem - 1
    BY <1>1 DEF ChunksIn
  <1> QED BY <1>1, <1>2, BytesGrow

\* For a client that starts anew, all that is on its way is strange: while both ends agree,
LEMMA StepRead ==
    ASSUME Shapes, NEW t \in Nat, StepAt(t)
    PROVE  Estranged
  <1>1. ClientInv(Back) /\ StackInv(t) /\ RepliesInv(t) /\ Back <= t /\ t <= client.sent
    BY DEF StepAt
  <1>2. client.port = ListenPort /\ client.sent \in Nat /\ client.sent <= LastItem
        /\ Back \in Nat /\ LastItem \in Nat
    <2>1. Back \in Nat
      <3>1. Len(client.got) \in Nat BY <1>1, Sizes DEF ClientInv
      <3> DEFINE n == Len(client.got)
      <3>2. Back = n + (IF client.state = "DONE" THEN 1 ELSE 0) BY DEF Back
      <3> HIDE DEF n
      <3>3. n \in Nat BY <3>1 DEF n
      <3> QED BY <3>2, <3>3
    <2> QED BY <1>1, <2>1, ClientIs
  <1>3. t <= LastItem BY <1>1, <1>2
  <1>4. conn.state # "LISTEN" /\ conn.bytes_received \in Nat
    BY <1>1, <1>3, BytesCounted DEF StackInv
  <1>5. Queued(requests) /\ Queued(replies) BY DEF Shapes
  <1>6. \A f \in ToSet(requests) : FromPort(f)
    <2>1. CASE link.window = 1
      <3> DEFINE may == t < client.sent
                 s == client.sent
      <3>1. Loose(requests, s, may) BY <2>1 DEF StepAt
      <3>2. may \in BOOLEAN /\ (may => s > 0) /\ s \in Nat /\ s <= LastItem
        BY <1>2
      <3> HIDE DEF may, s
      <3> QED BY <3>1, <3>2, LooseRead
    <2>2. CASE link.window # 1
      <3> SUFFICES ASSUME NEW f \in ToSet(requests) PROVE FromPort(f) OBVIOUS
      <3> DEFINE n == Len(requests)
      <3>1. PICK at \in Rows(n, t, client.sent) : ThingsRow(requests, at)
        BY <2>2 DEF StepAt, InOrder
      <3>2. PICK k \in 1..n : f = requests[k] BY <1>5, QueueIs
      <3>3. n \in Nat BY <1>5, QueueIs
      <3>4. \/ Harmless(f) \/ (at[k] = LastItem /\ Thing(f, LastItem))
            \/ at[k] # at[k - 1] /\ Thing(f, at[k])
        BY <3>1, <3>2 DEF ThingsRow
      <3> HIDE DEF n
      <3>5. /\ at[k] \in Nat /\ at[k - 1] \in Nat /\ at[k] <= client.sent
            /\ at[k] = at[k - 1] \/ at[k] = at[k - 1] + 1
        <4>1. k \in 0..n /\ k - 1 \in 0..n /\ k \in 1..n BY <3>3
        <4> QED BY <1>2, <3>1, <3>3, <4>1, RowsGrow
      <3>6. CASE Harmless(f) BY <3>6, HarmlessRead
      <3>7. CASE Thing(f, LastItem)
        <4>1. 1 <= LastItem /\ LastItem <= LastItem BY Sizes
        <4> QED BY <1>2, <3>7, <4>1, ThingRead
      <3>8. CASE at[k] # at[k - 1] /\ Thing(f, at[k])
        <4>1. 1 <= at[k] /\ at[k] <= LastItem BY <1>2, <3>5, <3>8
        <4> QED BY <3>5, <3>8, <4>1, ThingRead
      <3> QED BY <3>4, <3>6, <3>7, <3>8
    <2> QED BY <2>1, <2>2
  <1>7. \A r \in ToSet(replies) :
          "RST" \notin r.tcp.flags /\ ("SYN" \in r.tcp.flags => r.tcp.ack = ClientSeq(0))
    <2> SUFFICES ASSUME NEW r \in ToSet(replies)
                 PROVE  /\ "RST" \notin r.tcp.flags
                        /\ "SYN" \in r.tcp.flags => r.tcp.ack = ClientSeq(0)
      OBVIOUS
    <2>1. PICK at \in Rows(Len(replies), Back, t) : AnswersTo(replies, at)
      BY <1>1 DEF RepliesInv
    <2>2. PICK k \in 1..Len(replies) : r = replies[k] BY <1>5, QueueIs
    <2>3. Answer(r, at[k]) BY <2>1, <2>2 DEF AnswersTo
    <2> QED BY <2>3 DEF Answer
  <1> QED BY <1>2, <1>4, <1>6, <1>7 DEF Estranged

\* and after an answer was lost.
LEMMA AstrayRead ==
    ASSUME Shapes, NEW a \in Nat, NEW g \in Nat, AstrayAt(a, g)
    PROVE  Estranged
  <1>1. /\ ClientInv(a) /\ StackAhead(g) /\ LateAnswers(replies, client.rcv_nxt, g)
        /\ Loose(requests, client.sent, Missed(a))
    BY DEF AstrayAt
  <1>2. client.port = ListenPort /\ client.sent \in Nat /\ client.sent <= LastItem
    BY <1>1, ClientIs
  <1>3. conn.state # "LISTEN" /\ conn.bytes_received \in Nat BY <1>1 DEF StackAhead
  <1>4. Missed(a) \in BOOLEAN /\ (Missed(a) => client.sent > 0) BY <1>2 DEF Missed
  <1>5. \A f \in ToSet(requests) : FromPort(f) BY <1>1, <1>2, <1>4, LooseRead
  <1>6. \A r \in ToSet(replies) :
          "RST" \notin r.tcp.flags /\ ("SYN" \in r.tcp.flags => r.tcp.ack = ClientSeq(0))
    BY <1>1 DEF LateAnswers
  <1> QED BY <1>2, <1>3, <1>5, <1>6 DEF Estranged

\* Another client dials: what was begun with the first one is foreign to it.
LEMMA Restarted ==
    ASSUME Shapes, FaultsInv, Dial \/ Step \/ Astray, Restart, Calm'
    PROVE  Shapes' /\ FaultsInv' /\ Dial'
  <1>1. PICK iss \in PeerIsses : iss # client.iss /\ client' = NewClient(iss, client.port)
    BY DEF Restart
  <1>2. requests' = requests /\ replies' = replies /\ Happens("restarts")
    BY DEF Restart, queues
  <1>3. /\ FaultsInv' /\ link' = link /\ conn' = conn
        /\ faults.restarts = 0 /\ faults'.restarts = 1
    <2>1. "restarts" \in FaultKinds BY DEF FaultKinds
    <2>2. /\ FaultsInv' /\ link' = link /\ conn' = conn /\ faults.restarts = 0
          /\ faults'["restarts"] = faults["restarts"] + 1
      BY <1>2, <2>1, FaultIs
    <2> QED BY <2>2
  <1>4. /\ ClientShape' /\ client'.iss = iss /\ client'.port = client.port
        /\ client'.state = "CLOSED" /\ client'.sent = 0 /\ client'.got = <<>>
    BY <1>1 DEF NewClient, ClientShape, ClientFields
  <1>5. Shapes' BY <1>2, <1>3, <1>4 DEF Shapes, ConnShape
  <1>6. Dialling' BY <1>4 DEF Dialling
  <1>7. \A f : FromPort(f)' = FromPort(f)
    BY <1>4 DEF FromPort, ClientFrame
  <1>8. ClientSeq(0)' # ClientSeq(0)
    <2>1. ClientSeq(0) = ToSeq(client.iss + 1) BY Numbers DEF Shapes
    <2>2. ClientSeq(0)' = ToSeq(iss + 1)
      <3>1. iss \in Nat /\ Bytes(0) = 0 BY Sizes, BytesNext
      <3>2. iss + 1 + 0 = iss + 1 BY <3>1
      <3> QED BY <1>4, <3>1, <3>2 DEF ClientSeq
    <2>3. client.iss \in PeerIsses BY DEF Shapes, ClientShape
    <2> QED BY <1>1, <2>1, <2>2, <2>3, OtherIss, Sizes
  <1>9. ASSUME Estranged PROVE Dial'
    <2>1. Foreign' BY <1>2, <1>3, <1>7, <1>8, <1>9 DEF Estranged, Foreign
    <2> QED BY <1>4, <1>6, <1>9, <2>1 DEF Dial, Estranged
  <1>10. CASE Step
    <2>1. PICK t \in Nat : StepAt(t) BY <1>10 DEF Step
    <2> QED BY <1>3, <1>5, <1>9, <2>1, StepRead
  <1>11. CASE Astray
    <2>1. PICK a \in Nat, g \in Nat : AstrayAt(a, g) BY <1>11 DEF Astray
    <2> QED BY <1>3, <1>5, <1>9, <2>1, AstrayRead
  <1>12. CASE Dial
    <2>1. CASE PortClosed
      <3>1. PortClosed' BY <1>2, <1>3, <1>4, <1>7, <2>1 DEF PortClosed
      <3> QED BY <1>3, <1>5, <1>6, <3>1 DEF Dial
    <2>2. CASE client.port = ListenPort /\ Listening
      <3>1. \A i : ClientFrame(client', i, 0, {"SYN"}, NoData)
                     = ClientFrame(client, i, 0, {"SYN"}, NoData)
        BY <1>4 DEF ClientFrame
      <3>2. Listening' BY <1>2, <1>3, <2>2, <3>1 DEF Listening
      <3> QED BY <1>3, <1>4, <1>5, <1>6, <2>2, <3>2 DEF Dial
    <2>3. CASE client.port = ListenPort /\ Greeted
      <3>1. \A f \in ToSet(requests) : FromPort(f) BY <2>3, BareRead DEF Greeted
      <3>2. Estranged BY <2>3, <3>1 DEF Greeted, Estranged, Answer
      <3> QED BY <1>3, <1>5, <1>9, <3>2
    <2>4. CASE Foreign BY <1>3, <2>4 DEF Foreign
    <2> QED BY <1>12, <2>1, <2>2, <2>3, <2>4 DEF Dial
  <1> QED BY <1>10, <1>11, <1>12

\* The client after a step, in the numbers of before.
LEMMA ClientNext ==
    ASSUME client'.iss = client.iss, client.port = ListenPort, client'.port = client.port,
           NEW a \in Nat, NEW b \in Nat, Back' = b, b <= a,
           NEW s \in Nat, client'.sent = s, s <= LastItem, a <= s,
           link'.window = 1 => s <= a + 1,
           client'.state = IF b = LastItem THEN "DONE"
                           ELSE IF s = LastItem THEN "FIN_SENT" ELSE "ESTABLISHED",
           client'.snd_una = ClientSeq(a), client'.snd_nxt = ClientSeq(s),
           client'.rcv_nxt = StackSeq(b),
           client'.got = SubSeq(Chunks, 1, Len(client'.got)),
           Len(client'.got) \in 0..(LastItem - 1)
    PROVE  ClientInv(a)' /\ (b = a => ClientInv(Back)')
  <1>1. \A k : ClientSeq(k)' = ClientSeq(k) /\ StackSeq(k)' = StackSeq(k) BY SameSession
  <1>2. s \in 0..LastItem BY Sizes
  <1>3. /\ client'.snd_una = ClientSeq(a)' /\ client'.snd_nxt = ClientSeq(s)'
        /\ client'.rcv_nxt = StackSeq(b)'
    BY <1>1
  <1>4. ClientInv(a)' BY <1>2, <1>3 DEF ClientInv
  <1>5. b = a => ClientInv(Back)' BY <1>4 DEF ClientInv
  <1> QED BY <1>4, <1>5

\* The stack after a step that is not its own.
LEMMA StackKept ==
    ASSUME client'.iss = client.iss, client'.port = client.port, conn' = conn, NEW t,
           StackInv(t)
    PROVE  StackInv(t)'
  BY SameSession DEF StackInv

\* What it means that both ends agree, in one place.
LEMMA StepIs ==
    ASSUME Shapes, NEW t \in Nat, StepAt(t)
    PROVE  /\ ClientInv(Back) /\ StackInv(t) /\ RepliesInv(t)
           /\ Back \in Nat /\ Back <= t /\ t <= client.sent /\ client.sent \in Nat
           /\ client.sent <= LastItem /\ LastItem \in Nat /\ LastItem >= 1 /\ t <= LastItem
           /\ client.port = ListenPort /\ client.state \in {"ESTABLISHED", "FIN_SENT", "DONE"}
           /\ link.window = 1 => /\ Loose(requests, client.sent, t < client.sent)
                                 /\ client.sent <= Back + 1
           /\ link.window # 1 => InOrder(t)
           /\ Queued(requests) /\ Queued(replies) /\ ClientShape /\ ConnShape
  <1>1. /\ ClientInv(Back) /\ StackInv(t) /\ RepliesInv(t) /\ Back <= t /\ t <= client.sent
        /\ link.window = 1 => Loose(requests, client.sent, t < client.sent)
        /\ link.window # 1 => InOrder(t)
    BY DEF StepAt
  <1>2. Back \in Nat
    <2> DEFINE n == Len(client.got)
    <2>1. Back = n + (IF client.state = "DONE" THEN 1 ELSE 0) BY DEF Back
    <2>2. n \in Nat BY <1>1, Sizes DEF ClientInv
    <2> HIDE DEF n
    <2> QED BY <2>1, <2>2
  <1>3. /\ client.sent \in Nat /\ client.sent <= LastItem /\ LastItem \in Nat
        /\ client.port = ListenPort /\ client.state \in {"ESTABLISHED", "FIN_SENT", "DONE"}
    BY <1>1, <1>2, ClientIs
  <1>4. link.window = 1 => client.sent <= Back + 1 BY <1>1 DEF ClientInv
  <1>5. t <= LastItem /\ LastItem >= 1 BY <1>1, <1>3, Sizes
  <1> QED BY <1>1, <1>2, <1>3, <1>4, <1>5 DEF Shapes

\* What the client sends next.
LEMMA ItemSent ==
    ASSUME Shapes, NEW a \in Nat, ClientInv(a), SendItem
    PROVE  /\ client.sent \in Nat /\ client.sent < LastItem /\ Back < LastItem
           /\ link.window = 1 => client.sent = a
           /\ ClientShape' /\ client'.iss = client.iss /\ client'.port = client.port
           /\ client'.sent = client.sent + 1 /\ Back' = Back /\ ClientInv(a)'
           /\ a = Back => ClientInv(Back)'
           /\ requests' = Append(requests, ItemFrame(client, client.sent + 1))
           /\ Thing(ItemFrame(client, client.sent + 1), client.sent + 1)
           /\ client'.rcv_nxt = client.rcv_nxt
           /\ conn' = conn /\ replies' = replies /\ link' = link /\ faults' = faults
  <1> DEFINE s == client.sent
             nxt == ToSeq(client.snd_nxt + Width(s + 1))
             n == Len(client.got)
  <1>1. /\ client.state = "ESTABLISHED" /\ s + 1 <= Len(Chunks) + 1
        /\ \A j \in Unacked(client) : (s + 1) - j < link.window
        /\ client' = [client EXCEPT !.sent = s + 1, !.snd_nxt = nxt,
                                    !.state = IF s + 1 > Len(Chunks) THEN "FIN_SENT" ELSE @]
        /\ requests' = Append(requests, ItemFrame(client, s + 1))
        /\ conn' = conn /\ replies' = replies /\ link' = link /\ faults' = faults
    BY DEF SendItem, stack_vars
  <1>2. /\ Back \in Nat /\ Back <= a /\ a <= s /\ s \in Nat /\ s < LastItem /\ n \in Nat
        /\ client.port = ListenPort /\ Back < LastItem /\ Back = n
        /\ LastItem \in Nat /\ LastItem = Len(Chunks) + 1
        /\ Unacked(client) = (a + 1)..s
    <2>1. /\ Back \in Nat /\ Back <= a /\ a <= s /\ s \in Nat /\ LastItem \in Nat
          /\ Back <= LastItem /\ client.port = ListenPort
          /\ client.state = "DONE" <=> Back = LastItem
          /\ client.state = "ESTABLISHED" <=> s < LastItem
          /\ n \in Nat /\ (Back < LastItem => Back = n)
          /\ Unacked(client) = (a + 1)..s
      BY ClientIs
    <2> HIDE DEF s, n
    <2> QED BY <1>1, <2>1, Sizes
  <1>3. link.window = 1 => s = a
    <2> SUFFICES ASSUME link.window = 1, s # a PROVE FALSE OBVIOUS
    <2>1. s \in (a + 1)..s
      <3> HIDE DEF s
      <3> QED BY <1>2
    <2>2. (s + 1) - s < 1 BY <1>1, <1>2, <2>1
    <2> HIDE DEF s
    <2> QED BY <1>2, <2>2
  <1>4. nxt = ClientSeq(s + 1)
    <2>1. client.snd_nxt = ClientSeq(s) BY DEF ClientInv
    <2>2. ToSeq(ClientSeq(s) + Width(s + 1)) = ClientSeq(s + 1)
      <3> HIDE DEF s
      <3> QED BY <1>2, Numbers DEF Shapes
    <2> QED BY <2>1, <2>2
  <1>5. s + 1 > Len(Chunks) <=> s + 1 = LastItem
    <2> HIDE DEF s
    <2> QED BY <1>2
  <1> HIDE DEF nxt
  <1>6. /\ ClientShape' /\ client'.sent = s + 1 /\ client'.snd_nxt = nxt
        /\ client'.state = IF s + 1 = LastItem THEN "FIN_SENT" ELSE "ESTABLISHED"
        /\ client'.iss = client.iss /\ client'.port = client.port
        /\ client'.snd_una = client.snd_una /\ client'.rcv_nxt = client.rcv_nxt
        /\ client'.got = client.got
    BY <1>1, <1>5 DEF Shapes, ClientShape, ClientFields
  <1>7. Back' = Back BY <1>1, <1>6 DEF Back
  <1>8. ClientInv(a)' /\ (Back = a => ClientInv(Back)')
    <2>1. /\ client.snd_una = ClientSeq(a) /\ client.rcv_nxt = StackSeq(Back)
          /\ client.got = SubSeq(Chunks, 1, n) /\ n \in 0..(LastItem - 1)
      BY DEF ClientInv
    <2> DEFINE b == Back
               s1 == s + 1
    <2>2. s1 \in Nat /\ s1 <= LastItem /\ a <= s1 /\ (link'.window = 1 => s1 <= a + 1)
      <3>1. link'.window = 1 => s = a BY <1>1, <1>3
      <3> HIDE DEF s
      <3> QED BY <1>2, <3>1
    <2>3. b \in Nat /\ b <= a /\ Back' = b /\ b # LastItem BY <1>2, <1>7
    <2>4. /\ client'.sent = s1 /\ client'.snd_nxt = ClientSeq(s1) /\ client'.snd_una = ClientSeq(a)
          /\ client'.rcv_nxt = StackSeq(b) /\ client'.got = SubSeq(Chunks, 1, Len(client'.got))
          /\ Len(client'.got) \in 0..(LastItem - 1)
          /\ client'.state = IF b = LastItem THEN "DONE"
                             ELSE IF s1 = LastItem THEN "FIN_SENT" ELSE "ESTABLISHED"
      BY <1>4, <1>6, <2>1, <2>3
    <2> HIDE DEF b, s1
    <2>5. ClientInv(a)' /\ (b = a => ClientInv(Back)')
      BY <1>2, <1>6, <2>2, <2>3, <2>4, ClientNext
    <2> QED BY <2>5 DEF b
  <1>9. Thing(ItemFrame(client, s + 1), s + 1)
    <2>1. s + 1 \in Nat /\ 1 <= s + 1 /\ s + 1 <= LastItem
      <3> HIDE DEF s
      <3> QED BY <1>2
    <2> QED BY <2>1, ItemIs DEF Shapes
  <1> QED BY <1>1, <1>2, <1>3, <1>6, <1>7, <1>8, <1>9

\* Sending the next thing.
LEMMA StepItem ==
    ASSUME Shapes, NEW t \in Nat, StepAt(t), SendItem
    PROVE  Shapes' /\ StepAt(t)'
  <1> DEFINE s == client.sent
             b == Back
  <1>1. /\ ClientInv(b) /\ StackInv(t) /\ RepliesInv(t) /\ b \in Nat /\ b <= t /\ t <= s
        /\ s \in Nat /\ LastItem \in Nat
        /\ link.window = 1 => Loose(requests, s, t < s)
        /\ link.window # 1 => InOrder(t)
        /\ Queued(requests) /\ Queued(replies) /\ ConnShape
    BY StepIs
  <1>2. PICK x : x = ItemFrame(client, s + 1) OBVIOUS
  <1>3. /\ s < LastItem /\ (link.window = 1 => s = b)
        /\ ClientShape' /\ client'.iss = client.iss /\ client'.port = client.port
        /\ client'.sent = s + 1 /\ Back' = b /\ ClientInv(Back)'
        /\ requests' = Append(requests, x) /\ Thing(x, s + 1)
        /\ conn' = conn /\ replies' = replies /\ link' = link
    BY <1>1, <1>2, ItemSent
  <1>4. Shapes'
    <2>1. Queued(requests') BY <1>1, <1>3, AppendOf
    <2> QED BY <1>1, <1>3, <2>1 DEF Shapes, ConnShape
  <1>5. StackInv(t)' BY <1>1, <1>3, StackKept
  <1>6. \E at \in Rows(Len(replies'), Back', t) : AnswersTo(replies', at)
    BY <1>1, <1>3 DEF RepliesInv
  <1>7. link'.window = 1 => Loose(requests', client'.sent, t < client'.sent)
    <2> SUFFICES ASSUME link.window = 1 PROVE Loose(requests', s + 1, t < s + 1)
      BY <1>3
    <2>1. ~(t < s) /\ s # LastItem /\ (t < s + 1) = TRUE
      <3>1. s = b /\ s < LastItem BY <1>3
      <3> HIDE DEF s, b
      <3> QED BY <1>1, <3>1
    <2>2. \A f \in ToSet(requests) : Harmless(f) BY <1>1, <2>1 DEF Loose
    <2>3. Loose(requests', s + 1, TRUE) BY <1>1, <1>3, <2>2, LooseItem
    <2> QED BY <2>1, <2>3
  <1>8. link'.window # 1 =>
          \E at \in Rows(Len(requests'), t, client'.sent) :
            /\ ThingsRow(requests', at)
            /\ conn'.state = "SYN_RECEIVED" => OpenedFirst(requests', at)
    <2> SUFFICES ASSUME link.window # 1
                 PROVE  \E at \in Rows(Len(requests'), t, s + 1) :
                          /\ ThingsRow(requests', at)
                          /\ conn.state = "SYN_RECEIVED" => OpenedFirst(requests', at)
      BY <1>3
    <2>1. PICK at \in Rows(Len(requests), t, s) :
            /\ ThingsRow(requests, at)
            /\ conn.state = "SYN_RECEIVED" => OpenedFirst(requests, at)
      BY <1>1 DEF InOrder
    <2> DEFINE s1 == s + 1
    <2>2. s1 \in Nat /\ s1 = s + 1 /\ Thing(x, s1) BY <1>1, <1>3
    <2> HIDE DEF s1, s
    <2>3. \E row \in Rows(Len(Append(requests, x)), t, s1) :
            /\ ThingsRow(Append(requests, x), row)
            /\ OpenedFirst(requests, at) => OpenedFirst(Append(requests, x), row)
      BY <1>1, <2>1, <2>2, ThingsAppend
    <2> QED BY <1>3, <2>1, <2>2, <2>3
  <1>9. Back' <= t /\ t <= client'.sent
    <2> HIDE DEF s, b
    <2> QED BY <1>1, <1>3
  <1> QED BY <1>3, <1>4, <1>5, <1>6, <1>7, <1>8, <1>9, StepNext

\* What the client sends again, when one thing is on its way at most.
LEMMA ItemAgain ==
    ASSUME Shapes, NEW a \in Nat, ClientInv(a), link.window = 1, Retransmit
    PROVE  /\ client.sent = a + 1 /\ requests = <<>> /\ replies = <<>>
           /\ Queued(requests') /\ Loose(requests', client.sent, TRUE)
           /\ client' = client /\ conn' = conn /\ replies' = replies /\ link' = link
           /\ faults' = faults
  <1> DEFINE s == client.sent
             S == (a + 1)..s
  <1>1. /\ a <= s /\ s \in Nat /\ s <= LastItem /\ LastItem \in Nat
        /\ client.state \in {"ESTABLISHED", "FIN_SENT", "DONE"}
        /\ Unacked(client) = S /\ s <= a + 1
    BY ClientIs DEF ClientInv
  <1>2. /\ requests = <<>> /\ replies = <<>> /\ S # {}
        /\ requests' = <<ItemFrame(client, Min(S))>>
        /\ client' = client /\ conn' = conn /\ replies' = replies /\ link' = link
        /\ faults' = faults
    BY <1>1 DEF Retransmit, stack_vars
  <1> HIDE DEF s
  <1>3. s = a + 1 /\ S = {s} BY <1>1, <1>2
  <1>4. Min(S) = s BY <1>1, <1>3 DEF Min
  <1>5. PICK x : x = ItemFrame(client, s) OBVIOUS
  <1>6. Thing(x, s) /\ requests' = <<x>>
    <2>1. s \in Nat /\ 1 <= s /\ s <= LastItem BY <1>1, <1>3
    <2> QED BY <1>2, <1>4, <1>5, <2>1, ItemIs DEF Shapes
  <1>7. Append(requests, x) = requests' BY <1>2, <1>6, Queue
  <1>8. Queued(requests) /\ \A f \in ToSet(requests) : Harmless(f)
    <2>1. ToSet(requests) = {} BY <1>2 DEF ToSet
    <2> QED BY <2>1 DEF Shapes
  <1>9. Queued(requests') /\ Loose(requests', s, TRUE)
    <2>1. Queued(Append(requests, x)) BY <1>8, AppendOf
    <2>2. Loose(Append(requests, x), s, TRUE) BY <1>6, <1>8, LooseItem
    <2> QED BY <1>7, <2>1, <2>2
  <1> QED BY <1>2, <1>3, <1>9 DEF s

\* Sending the last thing again, which the stack may have dropped or never seen.
LEMMA StepAgain ==
    ASSUME Shapes, NEW t \in Nat, StepAt(t), Retransmit
    PROVE  Shapes' /\ StepAt(t)'
  <1> DEFINE s == client.sent
             b == Back
  <1>1. /\ ClientInv(b) /\ StackInv(t) /\ RepliesInv(t) /\ b \in Nat /\ b <= t /\ t <= s
        /\ s \in Nat /\ LastItem \in Nat /\ ClientShape /\ ConnShape
        /\ link.window # 1 => InOrder(t)
        /\ client.state \in {"ESTABLISHED", "FIN_SENT", "DONE"}
    BY StepIs
  <1>2. requests = <<>> /\ replies = <<>> /\ Unacked(client) # {}
    BY <1>1 DEF Retransmit
  <1>3. t = b
    <2>1. PICK at \in Rows(0, b, t) : TRUE BY <1>1, <1>2 DEF RepliesInv
    <2> HIDE DEF b
    <2> QED BY <1>1, <2>1 DEF Rows
  <1>4. link.window = 1
    <2> SUFFICES ASSUME link.window # 1 PROVE FALSE OBVIOUS
    <2>1. PICK at \in Rows(0, t, s) : TRUE BY <1>1, <1>2 DEF InOrder
    <2>2. Unacked(client) = (b + 1)..s BY <1>1, ClientIs
    <2> HIDE DEF b, s
    <2>3. t = s BY <1>1, <2>1 DEF Rows
    <2> QED BY <1>1, <1>2, <1>3, <2>2, <2>3
  <1>5. /\ s = b + 1 /\ Queued(requests') /\ Loose(requests', s, TRUE)
        /\ client' = client /\ conn' = conn /\ replies' = replies /\ link' = link
    BY <1>1, <1>4, ItemAgain
  <1>6. Shapes' BY <1>1, <1>2, <1>5 DEF Shapes, ConnShape, ClientShape
  <1>7. Back' = b BY <1>5 DEF Back
  <1>8. ClientInv(Back)' /\ StackInv(t)'
    <2>1. ClientInv(Back)' BY <1>1, <1>5, <1>7 DEF ClientInv, ClientSeq, StackSeq
    <2> QED BY <1>1, <1>5, <2>1, StackKept
  <1>9. \E at \in Rows(Len(replies'), Back', t) : AnswersTo(replies', at)
    BY <1>1, <1>5, <1>7 DEF RepliesInv
  <1>10. Loose(requests', client'.sent, t < client'.sent)
    <2>1. (t < s) = TRUE
      <3> HIDE DEF b, s
      <3> QED BY <1>1, <1>3, <1>5
    <2> QED BY <1>5, <2>1
  <1>11. Back' <= t /\ t <= client'.sent
    <2>1. client'.sent = s BY <1>5
    <2> HIDE DEF s, b
    <2> QED BY <1>1, <1>7, <2>1
  <1>12. client'.iss = client.iss /\ client'.port = client.port BY <1>5
  <1> QED BY <1>4, <1>5, <1>6, <1>8, <1>9, <1>10, <1>11, <1>12, StepNext

-----------------------------------------------------------------------------
(***************************************************************************)
(* What reaches the stack while both ends agree.                           *)
(***************************************************************************)
\* What it does not count leaves the numbers where they are.
LEMMA NotCounted ==
    ASSUME client' = client, Unheard, NEW t, StackInv(t),
           \/ conn'.state = conn.state
           \/ conn.state = "SYN_RECEIVED" /\ conn'.state = "ESTABLISHED"
           \/ conn.state \in {"LAST_ACK", "CLOSED"} /\ conn'.state = "CLOSED"
    PROVE  StackInv(t)'
  <1>1. \A k : ClientSeq(k)' = ClientSeq(k) /\ StackSeq(k)' = StackSeq(k)
    BY SameSession
  <1>2. conn'.state \in IF t = LastItem THEN {"LAST_ACK", "CLOSED"}
                        ELSE IF t = 0 THEN {"SYN_RECEIVED", "ESTABLISHED"}
                        ELSE {"ESTABLISHED"}
    BY DEF StackInv
  <1> QED BY <1>1, <1>2 DEF StackInv, Unheard

\* The state of the automaton tells how far the stack is.
LEMMA StackIs ==
    ASSUME NEW t, StackInv(t)
    PROVE  /\ conn.state \in Engaged
           /\ t = LastItem => conn.state \in {"LAST_ACK", "CLOSED"}
           /\ t # LastItem => conn.state \in {"SYN_RECEIVED", "ESTABLISHED"}
           /\ conn.state = "SYN_RECEIVED" => t = 0
  BY DEF StackInv, Engaged

\* A segment that carries nothing leaves its numbers where they are.
LEMMA HarmlessTaken ==
    ASSUME Shapes, client' = client, NEW t, StackInv(t), client.port = ListenPort,
           NEW f, Harmless(f), Stack!HandleFrame(f, GCS_STACK_FRAME_CAP)
    PROVE  /\ Unheard /\ StackInv(t)'
           /\ conn'.state = "SYN_RECEIVED" => conn.state = "SYN_RECEIVED" /\ ~Bare(f, {"ACK"})
  <1>1. conn.state \in Engaged /\ ConnShape BY StackIs DEF Shapes
  <1>2. /\ Unheard
        /\ \/ conn'.state = conn.state
           \/ conn.state = "SYN_RECEIVED" /\ conn'.state = "ESTABLISHED"
           \/ conn.state = "LAST_ACK" /\ conn'.state = "CLOSED"
        /\ conn'.state = "SYN_RECEIVED" => ~Bare(f, {"ACK"})
    BY <1>1, HarmlessHeard
  <1>3. StackInv(t)' BY <1>2, NotCounted
  <1> QED BY <1>2, <1>3

\* The next thing, while the connection is not open yet, is left.
LEMMA ThingEarly ==
    ASSUME Shapes, client' = client, NEW t, StackInv(t), client.port = ListenPort,
           NEW f, NEW i \in Nat, 1 <= i, i <= LastItem, Thing(f, i),
           conn.state = "SYN_RECEIVED", Stack!HandleFrame(f, GCS_STACK_FRAME_CAP)
    PROVE  Unheard /\ StackInv(t)' /\ conn'.state = "ESTABLISHED"
  <1>1. PICK seq, flags, data : FromClient(f, seq, flags, data) /\ "ACK" \in flags
    <2>1. CASE i < LastItem
      <3>1. FromClient(f, ClientSeq(i - 1), {"PSH", "ACK"}, Chunks[i]) BY <2>1, ThingRead
      <3>2. "ACK" \in {"PSH", "ACK"} OBVIOUS
      <3> QED BY <3>1, <3>2
    <2>2. CASE i = LastItem
      <3>1. FromClient(f, ClientSeq(i - 1), {"FIN", "ACK"}, NoData) BY <2>2, ThingRead
      <3>2. "ACK" \in {"FIN", "ACK"} OBVIOUS
      <3> QED BY <3>1, <3>2
    <2> QED BY <2>1, <2>2, Sizes
  <1>2. Unheard /\ conn'.state = "ESTABLISHED" BY <1>1, OpenedBy DEF Shapes
  <1> QED BY <1>2, NotCounted

\* A FIN that comes again closes the connection at most.
LEMMA ThingLate ==
    ASSUME Shapes, client.port = ListenPort, NEW f, Thing(f, LastItem),
           conn.state \in {"LAST_ACK", "CLOSED"}, Stack!HandleFrame(f, GCS_STACK_FRAME_CAP)
    PROVE  Unheard /\ conn'.state = "CLOSED"
  <1>1. LastItem \in Nat /\ 1 <= LastItem /\ LastItem <= LastItem BY Sizes
  <1>2. FromClient(f, ClientSeq(LastItem - 1), {"FIN", "ACK"}, NoData) BY <1>1, ThingRead
  <1>3. "ACK" \in {"FIN", "ACK"} OBVIOUS
  <1> QED BY <1>2, <1>3, ClosedBy DEF Shapes

\* The next thing is counted and answered.
LEMMA ThingTaken ==
    ASSUME Shapes, client' = client, NEW t \in Nat, t < LastItem, StackInv(t),
           client.port = ListenPort, NEW f, Thing(f, t + 1), conn.state = "ESTABLISHED",
           Stack!HandleFrame(f, GCS_STACK_FRAME_CAP)
    PROVE  /\ ConnShape' /\ StackInv(t + 1)' /\ conn'.state \notin {"SYN_RECEIVED", "CLOSED"}
           /\ Answered(tx') /\ Answer(tx', t + 1)
  <1> DEFINE i == t + 1
             w == Width(i)
  <1>1. /\ i \in Nat /\ 1 <= i /\ i <= LastItem /\ i - 1 = t /\ LastItem \in Nat /\ i # 0
        /\ t # LastItem
    BY Sizes
  <1>2. \A k : ClientSeq(k)' = ClientSeq(k) /\ StackSeq(k)' = StackSeq(k) BY SameSession
  <1>3. /\ conn.rcv_nxt = ClientSeq(t) /\ conn.snd_nxt = StackSeq(t)
        /\ conn.bytes_received = Bytes(t) /\ ChunksIn(t) = t
    <2>1. ChunksIn(t) = t BY DEF ChunksIn
    <2> QED BY <2>1 DEF StackInv
  <1>4. /\ ToSeq(ClientSeq(t) + w) = ClientSeq(i) /\ ToSeq(StackSeq(t) + w) = StackSeq(i)
    BY Numbers DEF Shapes
  <1>5. CASE i < LastItem
    <2>1. /\ FromClient(f, ClientSeq(t), {"PSH", "ACK"}, Chunks[i])
          /\ ChunkLen(w) /\ LenOf[Chunks[i]] = w /\ w \in Nat
      <3> HIDE DEF w
      <3>1. FromClient(f, ClientSeq(i - 1), {"PSH", "ACK"}, Chunks[i]) BY <1>1, <1>5, ThingRead
      <3>2. ChunkLen(Width(i)) /\ LenOf[Chunks[i]] = Width(i) /\ Width(i) \in Nat
        BY <1>1, <1>5, ChunkSizes
      <3> QED BY <1>1, <3>1, <3>2 DEF w
    <2>2. /\ ConnShape' /\ conn'.state = "ESTABLISHED"
          /\ conn'.bytes_received = (conn.bytes_received + w) % BytesMod
          /\ conn'.rcv_nxt = ToSeq(ClientSeq(t) + w)
          /\ conn'.snd_nxt = ToSeq(conn.snd_nxt + w)
          /\ Says(tx', conn.snd_nxt, conn'.rcv_nxt, {"ACK", "PSH"}, Chunks[i], w)
      <3> HIDE DEF i, w
      <3> QED BY <2>1, ChunkTaken DEF Shapes
    <2>3. (Bytes(t) + w) % BytesMod = Bytes(i)
      <3>1. Bytes(i) = Bytes(t) + w BY BytesGrow
      <3>2. Bytes(i) \in Nat /\ Bytes(i) < SeqSpace BY <1>1, BytesGrow
      <3>3. SeqSpace \in Nat /\ BytesMod \in Nat /\ SeqSpace <= BytesMod BY Sizes
      <3> DEFINE x == Bytes(i)
      <3>4. x \in 0..(BytesMod - 1) BY <3>2, <3>3
      <3> HIDE DEF x
      <3>5. x % BytesMod = x BY <3>3, <3>4
      <3> QED BY <3>1, <3>5 DEF x
    <2>4. ChunksIn(i) = i BY <1>5 DEF ChunksIn
    <2>5. StackInv(i)'
      <3>1. /\ conn'.rcv_nxt = ClientSeq(i)' /\ conn'.snd_nxt = StackSeq(i)'
            /\ conn'.bytes_received = Bytes(i)
        BY <1>2, <1>3, <1>4, <2>2, <2>3
      <3>2. i # LastItem
        <4> HIDE DEF i
        <4> QED BY <1>1, <1>5
      <3> HIDE DEF i
      <3> QED BY <1>1, <2>2, <2>4, <3>1, <3>2 DEF StackInv
    <2>6. Answer(tx', i)
      <3>1. /\ tx'.tcp.ack = ClientSeq(i) /\ tx'.tcp.flags = {"ACK", "PSH"}
            /\ tx'.tcp.seq = StackSeq(i - 1) /\ tx'.tcp.data = Chunks[i]
            /\ TcpPayloadLen(tx') = LenOf[Chunks[i]]
        BY <1>1, <1>3, <1>4, <2>1, <2>2 DEF Says
      <3>2. "RST" \notin {"ACK", "PSH"} /\ "SYN" \notin {"ACK", "PSH"} /\ "FIN" \notin {"ACK", "PSH"}
        OBVIOUS
      <3>3. i # LastItem
        <4> HIDE DEF i
        <4> QED BY <1>1, <1>5
      <3> HIDE DEF i
      <3> QED BY <1>1, <3>1, <3>2, <3>3 DEF Answer
    <2> QED BY <2>2, <2>5, <2>6 DEF Says
  <1>6. CASE i = LastItem
    <2>1. FromClient(f, ClientSeq(t), {"FIN", "ACK"}, NoData)
      <3>1. FromClient(f, ClientSeq(i - 1), {"FIN", "ACK"}, NoData) BY <1>1, <1>6, ThingRead
      <3> QED BY <1>1, <3>1
    <2>2. /\ ConnShape' /\ conn'.state = "LAST_ACK"
          /\ conn'.bytes_received = conn.bytes_received
          /\ conn'.rcv_nxt = ToSeq(ClientSeq(t) + 1) /\ conn'.snd_nxt = conn.snd_nxt
          /\ Says(tx', conn.snd_nxt, conn'.rcv_nxt, {"FIN", "ACK"}, NoData, 0)
      BY <2>1, FinTaken DEF Shapes
    <2>3. w = 1
      <3>1. ~(i <= Len(Chunks)) BY <1>6, Sizes
      <3> QED BY <3>1 DEF Width
    <2>4. ChunksIn(i) = t BY <1>1, <1>6 DEF ChunksIn
    <2>5. StackInv(i)'
      <3>1. /\ conn'.rcv_nxt = ClientSeq(i)' /\ conn'.snd_nxt = StackSeq(t)'
            /\ conn'.bytes_received = Bytes(t)
        BY <1>2, <1>3, <1>4, <2>2, <2>3
      <3> HIDE DEF i
      <3> QED BY <1>6, <2>2, <2>4, <3>1 DEF StackInv
    <2>6. Answer(tx', i)
      <3>1. /\ tx'.tcp.ack = ClientSeq(i) /\ tx'.tcp.flags = {"FIN", "ACK"}
            /\ tx'.tcp.seq = StackSeq(i - 1)
        BY <1>1, <1>3, <1>4, <2>2, <2>3 DEF Says
      <3>2. "RST" \notin {"FIN", "ACK"} /\ "SYN" \notin {"FIN", "ACK"} /\ "FIN" \in {"FIN", "ACK"}
        OBVIOUS
      <3> HIDE DEF i
      <3> QED BY <1>1, <1>6, <3>1, <3>2 DEF Answer
    <2> QED BY <2>2, <2>5, <2>6 DEF Says
  <1>7. i < LastItem \/ i = LastItem
    <2> HIDE DEF i
    <2> QED BY <1>1
  <1> QED BY <1>5, <1>6, <1>7

\* The requests left for a stack that has taken u things.
RequestsFrom(u) ==
    /\ link.window = 1 => Loose(requests', client.sent, u < client.sent)
    /\ link.window # 1 =>
         \E at \in Rows(Len(requests'), u, client.sent) :
           /\ ThingsRow(requests', at)
           /\ conn'.state = "SYN_RECEIVED" => OpenedFirst(requests', at)

\* It takes the first of them, or leaves its numbers where they are.
Taking(t) ==
    /\ t < client.sent /\ ConnShape' /\ StackInv(t + 1)' /\ conn'.state # "CLOSED"
    /\ Answered(tx') /\ Answer(tx', t + 1) /\ RequestsFrom(t + 1)

Leaving(t) == Unheard /\ StackInv(t)' /\ RequestsFrom(t)

\* With one thing on its way, the stack takes it or leaves its numbers where they are.
LEMMA LooseHeard ==
    ASSUME Shapes, NEW t \in Nat, StepAt(t), StackReceives, link.window = 1
    PROVE  Taking(t) \/ Leaving(t)
  <1> DEFINE s == client.sent
  <1>1. /\ StackInv(t) /\ Back \in Nat /\ Back <= t /\ t <= s /\ s \in Nat /\ s <= LastItem
        /\ LastItem \in Nat /\ LastItem >= 1 /\ client.port = ListenPort
        /\ Loose(requests, s, t < s) /\ s <= Back + 1 /\ Queued(requests)
    BY StepIs
  <1>2. /\ requests # <<>> /\ requests' = Tail(requests) /\ client' = client
        /\ Stack!HandleFrame(Head(requests), GCS_STACK_FRAME_CAP)
    BY DEF StackReceives
  <1>3. PICK f : f = Head(requests) OBVIOUS
  <1>4. f \in ToSet(requests) /\ Stack!HandleFrame(f, GCS_STACK_FRAME_CAP)
    BY <1>1, <1>2, <1>3, TailOf
  <1>5. PICK may \in BOOLEAN : may = (t < s)
    <2> DEFINE m == t < s
    <2>1. m \in BOOLEAN OBVIOUS
    <2> HIDE DEF m
    <2> QED BY <2>1 DEF m
  <1> HIDE DEF s
  <1>6. may <=> t < s BY <1>5
  <1>7. t <= s /\ s \in Nat /\ s <= LastItem /\ LastItem \in Nat /\ LastItem >= 1 /\ s <= t + 1
    <2> PICK b : b = Back OBVIOUS
    <2>1. b \in Nat /\ b <= t /\ t <= s /\ s <= b + 1 /\ s \in Nat /\ s <= LastItem
          /\ LastItem \in Nat /\ LastItem >= 1
      BY <1>1
    <2> QED BY <2>1
  <1>8. Loose(requests, s, may) BY <1>1, <1>5
  <1>9. Harmless(f) \/ (Thing(f, s) /\ (s = LastItem \/ may)) BY <1>4, <1>8 DEF Loose
  <1>10. /\ Loose(requests', s, may)
         /\ 1 <= s /\ Thing(f, s) => Loose(requests', s, FALSE)
    BY <1>1, <1>2, <1>3, <1>8, LooseTail
  <1>11. RequestsFrom(t) BY <1>5, <1>10 DEF RequestsFrom, s
  <1>12. CASE Harmless(f)
    <2>1. Unheard /\ StackInv(t)' BY <1>1, <1>2, <1>4, <1>12, HarmlessTaken
    <2> QED BY <1>11, <2>1 DEF Leaving
  <1>13. CASE Thing(f, s) /\ may
    <2>1. s = t + 1 /\ t < LastItem /\ t < s /\ 1 <= s
      <3>1. t < s BY <1>6, <1>13
      <3> QED BY <1>7, <3>1
    <2>2. CASE conn.state = "SYN_RECEIVED"
      <3>1. Unheard /\ StackInv(t)'
        BY <1>1, <1>2, <1>4, <1>13, <2>1, <2>2, ThingEarly
      <3> QED BY <1>11, <3>1 DEF Leaving
    <2>3. CASE conn.state # "SYN_RECEIVED"
      <3>1. conn.state = "ESTABLISHED"
        <4>1. t # LastItem BY <1>1, <2>1
        <4> QED BY <1>1, <2>3, <4>1, StackIs
      <3>2. /\ ConnShape' /\ StackInv(t + 1)' /\ conn'.state # "CLOSED"
            /\ Answered(tx') /\ Answer(tx', t + 1)
        BY <1>1, <1>2, <1>4, <1>13, <2>1, <3>1, ThingTaken
      <3>3. RequestsFrom(t + 1)
        <4>1. Loose(requests', s, FALSE) BY <1>10, <1>13, <2>1
        <4>2. (t + 1 < s) = FALSE BY <1>7, <2>1
        <4> QED BY <4>1, <4>2 DEF RequestsFrom, s
      <3> QED BY <2>1, <3>2, <3>3 DEF Taking, s
    <2> QED BY <2>2, <2>3
  <1>14. CASE Thing(f, s) /\ ~may /\ s = LastItem
    <2>1. t = LastItem
      <3>1. s <= t BY <1>6, <1>7, <1>14
      <3> QED BY <1>7, <1>14, <3>1
    <2>2. conn.state \in {"LAST_ACK", "CLOSED"} BY <1>1, <2>1, StackIs
    <2>3. Unheard /\ conn'.state = "CLOSED" BY <1>1, <1>4, <1>14, <2>2, ThingLate
    <2>4. StackInv(t)' BY <1>1, <1>2, <2>2, <2>3, NotCounted
    <2> QED BY <1>11, <2>3, <2>4 DEF Leaving
  <1> QED BY <1>9, <1>12, <1>13, <1>14

\* So it does with the first of many in order.
LEMMA InOrderHeard ==
    ASSUME Shapes, NEW t \in Nat, StepAt(t), StackReceives, link.window # 1
    PROVE  Taking(t) \/ Leaving(t)
  <1> DEFINE s == client.sent
             n == Len(requests)
  <1>1. /\ StackInv(t) /\ t <= s /\ s \in Nat /\ s <= LastItem
        /\ LastItem \in Nat /\ LastItem >= 1 /\ client.port = ListenPort
        /\ InOrder(t) /\ Queued(requests)
    BY StepIs
  <1>2. /\ requests # <<>> /\ requests' = Tail(requests) /\ client' = client
        /\ Stack!HandleFrame(Head(requests), GCS_STACK_FRAME_CAP)
    BY DEF StackReceives
  <1>3. PICK f : f = Head(requests) OBVIOUS
  <1>4. /\ Stack!HandleFrame(f, GCS_STACK_FRAME_CAP) /\ n \in Nat /\ n > 0
        /\ f = requests[1]
    BY <1>1, <1>2, <1>3, TailOf
  <1>5. PICK at \in Rows(n, t, s) :
          /\ ThingsRow(requests, at)
          /\ conn.state = "SYN_RECEIVED" => OpenedFirst(requests, at)
    BY <1>1 DEF InOrder
  <1>6. PICK row : row = Shifted(n, at, at[1]) OBVIOUS
  <1>7. /\ row \in Rows(Len(requests'), at[1], s) /\ ThingsRow(requests', row)
        /\ OpenedFirst(requests, at) /\ ~(at[1] = 0 /\ Bare(f, {"ACK"}))
             => OpenedFirst(requests', row)
    <2> HIDE DEF s
    <2> QED BY <1>1, <1>2, <1>3, <1>5, <1>6, ThingsTail
  <1>8. /\ at[0] = t /\ at[1] \in Nat /\ at[1] <= s
        /\ at[1] = t \/ at[1] = t + 1
        /\ \A k \in 1..n : at[1] <= at[k]
    <2> HIDE DEF n, s
    <2>1. 1 \in 0..n /\ 1 \in 1..n /\ 1 - 1 = 0 BY <1>4
    <2>2. \A k \in 1..n : k \in 0..n /\ 1 <= k BY <1>4
    <2>3. /\ at[0] = t /\ at[1] \in Nat /\ at[1] <= s
          /\ at[1] = at[1 - 1] \/ at[1] = at[1 - 1] + 1
          /\ \A j, k \in 0..n : j <= k => at[j] <= at[k]
      BY <1>1, <1>4, <1>5, <2>1, RowsGrow
    <2> QED BY <2>1, <2>2, <2>3
  <1>9. 1 \in 1..n /\ 1 - 1 = 0
    <2> HIDE DEF n
    <2> QED BY <1>4
  <1>10. IF at[1] = t THEN Harmless(f) \/ (t = LastItem /\ Thing(f, LastItem))
         ELSE Thing(f, at[1])
    <2>1. IF at[1] = at[0] THEN Harmless(f) \/ (at[1] = LastItem /\ Thing(f, LastItem))
          ELSE Thing(f, at[1])
      BY <1>4, <1>5, <1>9 DEF ThingsRow
    <2> QED BY <1>8, <2>1
  <1> HIDE DEF n, s
  <1>11. CASE at[1] = t /\ Harmless(f)
    <2>1. /\ Unheard /\ StackInv(t)'
          /\ conn'.state = "SYN_RECEIVED"
               => conn.state = "SYN_RECEIVED" /\ ~Bare(f, {"ACK"})
      BY <1>1, <1>2, <1>4, <1>11, HarmlessTaken
    <2>2. row \in Rows(Len(requests'), t, s) BY <1>7, <1>11
    <2>3. conn'.state = "SYN_RECEIVED" => OpenedFirst(requests', row) BY <1>5, <1>7, <2>1
    <2>4. RequestsFrom(t) BY <1>7, <2>2, <2>3 DEF RequestsFrom, s
    <2> QED BY <2>1, <2>4 DEF Leaving
  <1>12. CASE at[1] = t /\ t = LastItem /\ Thing(f, LastItem)
    <2>1. conn.state \in {"LAST_ACK", "CLOSED"} BY <1>1, <1>12, StackIs
    <2>2. Unheard /\ conn'.state = "CLOSED" BY <1>1, <1>4, <1>12, <2>1, ThingLate
    <2>3. StackInv(t)' BY <1>1, <1>2, <2>1, <2>2, NotCounted
    <2>4. row \in Rows(Len(requests'), t, s) BY <1>7, <1>12
    <2>5. conn'.state # "SYN_RECEIVED" BY <2>2
    <2>6. RequestsFrom(t) BY <1>7, <2>4, <2>5 DEF RequestsFrom, s
    <2> QED BY <2>2, <2>3, <2>6 DEF Leaving
  <1>13. CASE at[1] # t
    <2>1. at[1] = t + 1 /\ t + 1 <= s /\ t < s /\ t < LastItem BY <1>1, <1>8, <1>13
    <2>2. Thing(f, t + 1) BY <1>10, <1>13, <2>1
    <2>3. conn.state # "SYN_RECEIVED"
      <3> SUFFICES ASSUME conn.state = "SYN_RECEIVED" PROVE FALSE OBVIOUS
      <3>1. t = 0 BY <1>1, StackIs
      <3>2. PICK k \in 1..n : at[k] = 0 BY <1>5 DEF OpenedFirst, n
      <3>3. at[1] <= at[k] BY <1>8, <3>2
      <3> QED BY <2>1, <3>1, <3>2, <3>3
    <2>4. conn.state = "ESTABLISHED"
      <3>1. t # LastItem BY <1>1, <2>1
      <3> QED BY <1>1, <2>3, <3>1, StackIs
    <2>5. /\ ConnShape' /\ StackInv(t + 1)'
          /\ conn'.state \notin {"SYN_RECEIVED", "CLOSED"}
          /\ Answered(tx') /\ Answer(tx', t + 1)
      BY <1>1, <1>2, <1>4, <2>1, <2>2, <2>4, ThingTaken
    <2>6. row \in Rows(Len(requests'), t + 1, s) BY <1>7, <2>1
    <2>7. RequestsFrom(t + 1) BY <1>7, <2>5, <2>6 DEF RequestsFrom, s
    <2> QED BY <2>1, <2>5, <2>7 DEF Taking, s
  <1> QED BY <1>10, <1>11, <1>12, <1>13

\* Both ends agree after the stack has heard a frame, on one thing more or on as many.
LEMMA StepHeard ==
    ASSUME Shapes, FaultsInv, NEW t \in Nat, StepAt(t), StackReceives
    PROVE  Shapes' /\ (StepAt(t)' \/ StepAt(t + 1)')
  <1>1. /\ ClientInv(Back) /\ RepliesInv(t) /\ Back \in Nat /\ Back <= t
        /\ t <= client.sent /\ client.sent \in Nat /\ Queued(replies)
    BY StepIs
  <1>2. Taking(t) \/ Leaving(t) BY LooseHeard, InOrderHeard
  <1>3. ConnShape' BY <1>2 DEF Taking, Leaving, Unheard
  <1>4. /\ client' = client /\ link' = link /\ Shapes'
        /\ ~Answered(tx') => replies' = replies
        /\ Answered(tx') => replies' = Append(replies, tx')
    BY <1>3, Delivered
  <1>5. Back' = Back BY <1>4 DEF Back
  <1>6. ClientInv(Back)' BY <1>1, <1>4, <1>5 DEF ClientInv, ClientSeq, StackSeq
  <1>7. PICK at \in Rows(Len(replies), Back, t) : AnswersTo(replies, at)
    BY <1>1 DEF RepliesInv
  <1>8. CASE Leaving(t)
    <2>1. replies' = replies /\ StackInv(t)' /\ RequestsFrom(t)
      BY <1>4, <1>8 DEF Leaving, Unheard
    <2>2. \E row \in Rows(Len(replies'), Back', t) : AnswersTo(replies', row)
      BY <1>5, <1>7, <2>1
    <2>3. StepAt(t)'
      BY <1>1, <1>4, <1>5, <1>6, <2>1, <2>2, StepNext DEF RequestsFrom
    <2> QED BY <1>4, <2>3
  <1>9. CASE Taking(t)
    <2> DEFINE u == t + 1
    <2>1. /\ t < client.sent /\ StackInv(u)' /\ Answered(tx') /\ Answer(tx', u)
          /\ RequestsFrom(u)
      BY <1>9 DEF Taking
    <2>2. u \in Nat /\ Back' <= u /\ u <= client'.sent
      <3>1. client'.sent = client.sent BY <1>4
      <3> DEFINE b == Back
                 s == client.sent
      <3>2. Back' = b /\ b \in Nat /\ b <= t /\ s \in Nat /\ t < s BY <1>1, <1>5, <2>1
      <3> HIDE DEF b, s
      <3>3. u \in Nat /\ b <= u /\ u <= s BY <3>2
      <3> QED BY <3>1, <3>2, <3>3 DEF s
    <2>3. \E row \in Rows(Len(replies'), Back', u) : AnswersTo(replies', row)
      <3>1. PICK x : x = tx' OBVIOUS
      <3>2. Answer(x, t + 1) BY <2>1, <3>1
      <3>3. \E row \in Rows(Len(Append(replies, x)), Back, t + 1) :
              AnswersTo(Append(replies, x), row)
        BY <1>1, <1>7, <3>2, AnswersAppend
      <3> QED BY <1>4, <1>5, <2>1, <3>1, <3>3
    <2>4. client'.iss = client.iss /\ client'.port = client.port BY <1>4
    <2>5. /\ link'.window = 1 => Loose(requests', client'.sent, u < client'.sent)
          /\ link'.window # 1 =>
               \E row \in Rows(Len(requests'), u, client'.sent) :
                 /\ ThingsRow(requests', row)
                 /\ conn'.state = "SYN_RECEIVED" => OpenedFirst(requests', row)
      BY <1>4, <2>1 DEF RequestsFrom
    <2> HIDE DEF u
    <2>6. StepAt(u)' BY <1>6, <2>1, <2>2, <2>3, <2>4, <2>5, StepNext
    <2> QED BY <1>4, <2>6 DEF u
  <1> QED BY <1>2, <1>8, <1>9

-----------------------------------------------------------------------------
(***************************************************************************)
(* What reaches the client.                                                *)
(***************************************************************************)
\* The chunks before a position, and one more.
LEMMA ChunksGrow ==
    /\ \A n \in 0..Len(Chunks) : Len(SubSeq(Chunks, 1, n)) = n
    /\ \A n \in 0..(Len(Chunks) - 1) :
         SubSeq(Chunks, 1, n + 1) = Append(SubSeq(Chunks, 1, n), Chunks[n + 1])
  <1>1. /\ Chunks \in Seq(Data) /\ Len(Chunks) \in Nat
        /\ \A k \in 1..Len(Chunks) : Chunks[k] \in Data
    BY SessionAssumption, LenProperties, ElementOfSeq
  <1>2. ASSUME NEW n \in 0..Len(Chunks)
        PROVE  /\ SubSeq(Chunks, 1, n) \in Seq(Data) /\ Len(SubSeq(Chunks, 1, n)) = n
               /\ \A k \in 1..n : SubSeq(Chunks, 1, n)[k] = Chunks[k]
    <2>1. n \in Nat /\ \A k \in 1..n : Chunks[k] \in Data BY <1>1
    <2> DEFINE s == SubSeq(Chunks, 1, n)
    <2>2. /\ s \in Seq(Data) /\ Len(s) = IF 1 <= n THEN n - 1 + 1 ELSE 0
          /\ \A k \in 1..(n - 1 + 1) : s[k] = Chunks[1 + k - 1]
      BY <2>1, SubSeqProperties
    <2> HIDE DEF s
    <2>3. n - 1 + 1 = n /\ \A k \in 1..n : 1 + k - 1 = k BY <2>1
    <2> QED BY <2>1, <2>2, <2>3 DEF s
  <1>3. ASSUME NEW n \in 0..(Len(Chunks) - 1)
        PROVE  SubSeq(Chunks, 1, n + 1) = Append(SubSeq(Chunks, 1, n), Chunks[n + 1])
    <2> DEFINE s == SubSeq(Chunks, 1, n + 1)
               t == SubSeq(Chunks, 1, n)
               x == Chunks[n + 1]
    <2>1. n \in 0..Len(Chunks) /\ n + 1 \in 1..Len(Chunks) /\ n + 1 \in 0..Len(Chunks)
      BY <1>1
    <2>2. /\ s \in Seq(Data) /\ Len(s) = n + 1 /\ t \in Seq(Data) /\ Len(t) = n /\ x \in Data
          /\ \A k \in 1..(n + 1) : s[k] = Chunks[k]
          /\ \A k \in 1..n : t[k] = Chunks[k]
          /\ s[n + 1] = x
      BY <1>1, <1>2, <2>1
    <2> HIDE DEF s, t, x
    <2>3. /\ Append(t, x) \in Seq(Data) /\ Len(Append(t, x)) = n + 1
          /\ \A k \in 1..n : Append(t, x)[k] = t[k]
          /\ Append(t, x)[n + 1] = x
      BY <2>2
    <2>4. \A k \in 1..(n + 1) : s[k] = Append(t, x)[k]
      <3> TAKE k \in 1..(n + 1)
      <3>1. k \in 1..n \/ k = n + 1 OBVIOUS
      <3> QED BY <2>2, <2>3, <3>1
    <2>5. s = Append(t, x) BY <2>2, <2>3, <2>4, SeqEqual
    <2> QED BY <2>5 DEF s, t, x
  <1> QED BY <1>2, <1>3

\* What no answer to a client changes.
SameClient ==
    /\ ClientShape' /\ client'.iss = client.iss /\ client'.port = client.port
    /\ client'.sent = client.sent /\ client'.snd_nxt = client.snd_nxt
    /\ \E g : Harmless(g) /\ requests' = Append(requests, g)

\* The ACK the client answers with carries nothing.
LEMMA AckIs ==
    ASSUME client'.iss = client.iss, client'.port = client.port
    PROVE  Harmless(AckFrame(client'))
  <1> PICK g : g = AckFrame(client') OBVIOUS
  <1>1. Bare(g, {"ACK"})' BY DEF Bare, AckFrame
  <1>2. Bare(g, {"ACK"}) BY <1>1, SameSession
  <1> QED BY <1>2 DEF Harmless

\* A segment out of order acknowledges what it does, and is acknowledged.
LEMMA OutOfOrder ==
    ASSUME Shapes, NEW a \in Nat, ClientInv(a), NEW r, r.tcp.seq # client.rcv_nxt,
           NEW j \in Nat, j <= client.sent, r.tcp.ack = ClientSeq(j), ReceiveSegment(r),
           link' = link, NEW u \in Nat, u = IF a <= j THEN j ELSE a
    PROVE  /\ SameClient /\ Back' = Back /\ ClientInv(u)'
           /\ Back = u => ClientInv(Back)'
           /\ client'.got = client.got /\ client'.state = client.state
           /\ client'.rcv_nxt = client.rcv_nxt
  <1> DEFINE una == NewUna(client, r.tcp.ack)
             s == client.sent
             b == Back
  <1>1. /\ client' = [client EXCEPT !.snd_una = una]
        /\ requests' = Append(requests, AckFrame(client'))
    BY DEF ReceiveSegment
  <1> HIDE DEF una
  <1>2. /\ ClientShape' /\ client'.iss = client.iss /\ client'.port = client.port
        /\ client'.sent = s /\ client'.snd_nxt = client.snd_nxt
        /\ client'.got = client.got /\ client'.state = client.state
        /\ client'.rcv_nxt = client.rcv_nxt /\ client'.snd_una = una
    BY <1>1 DEF Shapes, ClientShape, ClientFields
  <1>3. SameClient BY <1>1, <1>2, AckIs DEF SameClient
  <1>4. Back' = b BY <1>2 DEF Back
  <1>5. /\ b \in Nat /\ b <= a /\ a <= s /\ s \in Nat /\ s <= LastItem /\ LastItem \in Nat
        /\ client.port = ListenPort
    BY ClientIs
  <1>6. /\ client.snd_una = ClientSeq(a) /\ client.snd_nxt = ClientSeq(s)
        /\ client.rcv_nxt = StackSeq(b)
        /\ client.got = SubSeq(Chunks, 1, Len(client.got))
        /\ Len(client.got) \in 0..(LastItem - 1)
        /\ (link.window = 1 => s <= a + 1)
        /\ client.state = IF b = LastItem THEN "DONE"
                          ELSE IF s = LastItem THEN "FIN_SENT" ELSE "ESTABLISHED"
    BY DEF ClientInv
  <1>7. una = ClientSeq(u)
    <2>1. NewUna(client, ClientSeq(j)) = ClientSeq(IF a <= j THEN j ELSE a)
      <3>1. j <= s OBVIOUS
      <3> HIDE DEF s
      <3> QED BY <1>5, <1>6, <3>1, NewUnaIs DEF Shapes
    <2> QED BY <2>1 DEF una
  <1>8. a <= u /\ u <= s
    <2>1. j <= s OBVIOUS
    <2> HIDE DEF s, b
    <2> QED BY <1>5, <2>1
  <1>9. b <= u /\ (link'.window = 1 => s <= u + 1)
    <2> HIDE DEF s, b
    <2> QED BY <1>5, <1>6, <1>8
  <1>10. /\ client'.snd_una = ClientSeq(u) /\ client'.snd_nxt = ClientSeq(s)
         /\ client'.rcv_nxt = StackSeq(b)
         /\ client'.got = SubSeq(Chunks, 1, Len(client'.got))
         /\ Len(client'.got) \in 0..(LastItem - 1)
         /\ client'.state = IF b = LastItem THEN "DONE"
                            ELSE IF s = LastItem THEN "FIN_SENT" ELSE "ESTABLISHED"
    BY <1>2, <1>6, <1>7
  <1>11. ClientInv(u)' /\ (b = u => ClientInv(Back)')
    <2> HIDE DEF s, b
    <2> QED BY <1>2, <1>4, <1>5, <1>8, <1>9, <1>10, ClientNext
  <1> QED BY <1>2, <1>3, <1>4, <1>11

\* What the client waits for, next: its chunk comes back, or its FIN is answered.
BackOne ==
    /\ Back \in Nat /\ Back < LastItem /\ Back = Len(client.got)
    /\ client.state # "DONE" /\ Back < client.sent
    /\ IF Back + 1 = LastItem THEN client'.got = client.got /\ client'.state = "DONE"
       ELSE client'.got = Append(client.got, Chunks[Back + 1]) /\ client'.state = client.state

\* One in order brings the next thing back.
LEMMA BroughtBack ==
    ASSUME Shapes, ClientInv(Back), Back \in Nat, Back < client.sent, NEW r,
           Answer(r, Back + 1), ReceiveSegment(r), link' = link
    PROVE  SameClient /\ Back' = Back + 1 /\ ClientInv(Back)' /\ BackOne
  <1> DEFINE una == NewUna(client, r.tcp.ack)
             s == client.sent
             b == Back
             i == b + 1
             n == Len(client.got)
             rcv == IF i = LastItem THEN ToSeq(client.rcv_nxt + 1)
                    ELSE ToSeq(client.rcv_nxt + TcpPayloadLen(r))
  <1>1. /\ b \in Nat /\ b < s /\ s \in Nat /\ s <= LastItem /\ LastItem \in Nat
        /\ client.port = ListenPort /\ n \in Nat
        /\ client.state = "DONE" <=> b = LastItem
        /\ b < LastItem => b = n
    BY ClientIs
  <1>2. b < LastItem /\ b = n /\ client.state # "DONE" /\ i \in Nat /\ i <= s /\ i <= LastItem
        /\ i # 0 /\ i - 1 = b
    <2> HIDE DEF s, b, n
    <2> QED BY <1>1
  <1>3. /\ client.snd_una = ClientSeq(b) /\ client.snd_nxt = ClientSeq(s)
        /\ client.rcv_nxt = StackSeq(b)
        /\ client.got = SubSeq(Chunks, 1, n) /\ n \in 0..(LastItem - 1)
        /\ (link.window = 1 => s <= b + 1)
        /\ client.state = IF b = LastItem THEN "DONE"
                          ELSE IF s = LastItem THEN "FIN_SENT" ELSE "ESTABLISHED"
    BY DEF ClientInv
  <1>4. /\ r.tcp.ack = ClientSeq(i) /\ r.tcp.seq = client.rcv_nxt
        /\ IF i = LastItem THEN "FIN" \in r.tcp.flags
           ELSE /\ "FIN" \notin r.tcp.flags /\ r.tcp.data = Chunks[i]
                /\ TcpPayloadLen(r) = LenOf[Chunks[i]]
    <2> HIDE DEF b
    <2> QED BY <1>2, <1>3 DEF Answer, b
  <1>5. una = ClientSeq(i)
    <2>1. NewUna(client, ClientSeq(i)) = ClientSeq(IF b <= i THEN i ELSE b)
      <3>1. b <= s
        <4> HIDE DEF s, b
        <4> QED BY <1>1
      <3> HIDE DEF s, b, i
      <3> QED BY <1>1, <1>2, <1>3, <3>1, NewUnaIs DEF Shapes
    <2>2. b <= i
      <3> HIDE DEF b
      <3> QED BY <1>1
    <2> QED BY <1>4, <2>1, <2>2
  <1>6. rcv = StackSeq(i)
    <2>1. ToSeq(StackSeq(b) + Width(i)) = StackSeq(i)
      <3> HIDE DEF b
      <3> QED BY <1>1, <1>2, Numbers DEF Shapes
    <2>2. CASE i = LastItem
      <3>1. ~(i <= Len(Chunks))
        <4> HIDE DEF i
        <4> QED BY <2>2, Sizes
      <3>2. Width(i) = 1 BY <3>1 DEF Width
      <3> QED BY <1>3, <2>1, <2>2, <3>2
    <2>3. CASE i # LastItem
      <3>1. LenOf[Chunks[i]] = Width(i)
        <4> HIDE DEF i
        <4>1. 1 <= i /\ i < LastItem BY <1>1, <1>2, <2>3
        <4> QED BY <1>2, <4>1, ChunkSizes
      <3> QED BY <1>3, <1>4, <2>1, <2>3, <3>1
    <2> QED BY <2>2, <2>3
  <1>7. /\ requests' = Append(requests, AckFrame(client'))
        /\ client' = IF i = LastItem
                     THEN [client EXCEPT !.snd_una = una, !.state = "DONE", !.rcv_nxt = rcv]
                     ELSE [client EXCEPT !.snd_una = una, !.rcv_nxt = rcv,
                                         !.got = Append(@, r.tcp.data)]
    <2>1. CASE i = LastItem BY <1>4, <2>1 DEF ReceiveSegment
    <2>2. CASE i # LastItem BY <1>4, <2>2 DEF ReceiveSegment
    <2> QED BY <2>1, <2>2
  <1> HIDE DEF una, rcv
  <1>8. /\ ClientShape' /\ client'.iss = client.iss /\ client'.port = client.port
        /\ client'.sent = s /\ client'.snd_nxt = client.snd_nxt
        /\ client'.rcv_nxt = rcv /\ client'.snd_una = una
        /\ IF i = LastItem THEN client'.got = client.got /\ client'.state = "DONE"
           ELSE client'.got = Append(client.got, r.tcp.data) /\ client'.state = client.state
    BY <1>7 DEF Shapes, ClientShape, ClientFields
  <1>9. SameClient BY <1>7, <1>8, AckIs DEF SameClient
  <1>10. /\ IF i = LastItem THEN client'.got = client.got /\ client'.state = "DONE"
            ELSE /\ client'.got = Append(client.got, Chunks[i])
                 /\ client'.state = client.state
         /\ BackOne
    <2>1. IF i = LastItem THEN client'.got = client.got /\ client'.state = "DONE"
          ELSE client'.got = Append(client.got, Chunks[i]) /\ client'.state = client.state
      BY <1>4, <1>8
    <2> QED BY <1>1, <1>2, <2>1 DEF BackOne
  <1> DEFINE k == Len(client'.got)
  <1>11. /\ Back' = i /\ client'.got = SubSeq(Chunks, 1, k) /\ k \in 0..(LastItem - 1)
         /\ client'.state = IF i = LastItem THEN "DONE"
                            ELSE IF s = LastItem THEN "FIN_SENT" ELSE "ESTABLISHED"
    <2>1. CASE i = LastItem
      <3>1. Back' = n + 1 BY <1>10, <2>1 DEF Back
      <3> QED BY <1>2, <1>3, <1>10, <2>1, <3>1
    <2>2. CASE i # LastItem
      <3>1. i \in 1..Len(Chunks) /\ b \in 0..(Len(Chunks) - 1) /\ i \in 0..Len(Chunks)
            /\ i \in 0..(LastItem - 1)
        <4> HIDE DEF b
        <4> QED BY <1>1, <1>2, <2>2, Sizes
      <3>2. SubSeq(Chunks, 1, b + 1) = Append(SubSeq(Chunks, 1, b), Chunks[b + 1])
        BY <3>1, ChunksGrow
      <3>3. client'.got = SubSeq(Chunks, 1, i) BY <1>2, <1>3, <1>10, <2>2, <3>2
      <3>4. k = i BY <3>1, <3>3, ChunksGrow
      <3>5. client'.state = client.state /\ client'.state # "DONE" BY <1>2, <1>10, <2>2
      <3>6. Back' = i
        <4>1. Back' = k + (IF client'.state = "DONE" THEN 1 ELSE 0) BY DEF Back
        <4>2. Back' = i + 0 BY <3>4, <3>5, <4>1
        <4> QED BY <1>2, <4>2
      <3> QED BY <1>2, <1>3, <2>2, <3>1, <3>3, <3>4, <3>5, <3>6
    <2> QED BY <2>1, <2>2
  <1>12. link'.window = 1 => s <= i + 1
    <2> HIDE DEF s, b
    <2> QED BY <1>1, <1>3
  <1>13. client'.snd_una = ClientSeq(i) /\ client'.snd_nxt = ClientSeq(s)
         /\ client'.rcv_nxt = StackSeq(i)
    BY <1>3, <1>5, <1>6, <1>8
  <1>14. ClientInv(Back)'
    <2>1. i <= i BY <1>2
    <2> HIDE DEF s, b, i, k
    <2> QED BY <1>1, <1>2, <1>8, <1>11, <1>12, <1>13, <2>1, ClientNext DEF k
  <1> QED BY <1>9, <1>10, <1>11, <1>14

\* The client's ACK joins the requests.
LEMMA AckSent ==
    ASSUME Shapes, NEW t \in Nat, StepAt(t), SameClient, conn' = conn
    PROVE  Queued(requests') /\ RequestsFrom(t)
  <1> DEFINE s == client.sent
  <1>1. /\ t <= s /\ s \in Nat /\ s <= LastItem /\ Queued(requests)
        /\ link.window = 1 => Loose(requests, s, t < s)
        /\ link.window # 1 => InOrder(t)
    BY StepIs
  <1>2. PICK g : Harmless(g) /\ requests' = Append(requests, g) BY DEF SameClient
  <1>3. Queued(requests') BY <1>1, <1>2, AppendOf
  <1>4. link.window = 1 => Loose(requests', s, t < s)
    <2> DEFINE may == t < s
    <2> HIDE DEF may
    <2>1. link.window = 1 => Loose(requests, s, may) BY <1>1 DEF may
    <2>2. link.window = 1 => Loose(requests', s, may) BY <1>1, <1>2, <2>1, LooseAppend
    <2> QED BY <2>2 DEF may
  <1>5. link.window # 1 =>
          \E at \in Rows(Len(requests'), t, s) :
            /\ ThingsRow(requests', at)
            /\ conn'.state = "SYN_RECEIVED" => OpenedFirst(requests', at)
    <2> SUFFICES ASSUME link.window # 1
                 PROVE  \E at \in Rows(Len(requests'), t, s) :
                          /\ ThingsRow(requests', at)
                          /\ conn'.state = "SYN_RECEIVED" => OpenedFirst(requests', at)
      OBVIOUS
    <2>1. PICK at \in Rows(Len(requests), t, s) :
            /\ ThingsRow(requests, at)
            /\ conn.state = "SYN_RECEIVED" => OpenedFirst(requests, at)
      BY <1>1 DEF InOrder
    <2> HIDE DEF s
    <2>2. \E row \in Rows(Len(Append(requests, g)), t, s) :
            /\ ThingsRow(Append(requests, g), row)
            /\ OpenedFirst(requests, at) => OpenedFirst(Append(requests, g), row)
      BY <1>1, <1>2, <2>1, ThingsAppend
    <2> QED BY <1>2, <2>1, <2>2
  <1> QED BY <1>3, <1>4, <1>5 DEF RequestsFrom

\* An answer to what the client has already is acknowledged again.
LEMMA OldAnswer ==
    ASSUME Shapes, ClientInv(Back), Back \in Nat, NEW r, Answer(r, Back)
    PROVE  r.tcp.ack = ClientSeq(Back) /\ r.tcp.seq # client.rcv_nxt
  <1> DEFINE b == Back
  <1>1. /\ b \in Nat /\ b <= LastItem /\ client.rcv_nxt = StackSeq(b)
        /\ r.tcp.ack = ClientSeq(b) /\ LastItem \in Nat
    BY ClientIs DEF ClientInv, Answer
  <1>2. CASE b = 0
    <2>1. r.tcp.seq = Iss BY <1>2 DEF Answer
    <2> QED BY <1>1, <1>2, <2>1, Numbers DEF Shapes
  <1>3. CASE b # 0
    <2>1. r.tcp.seq = StackSeq(b - 1) BY <1>3 DEF Answer
    <2> HIDE DEF b
    <2>2. b - 1 \in Nat /\ b - 1 < b BY <1>1, <1>3
    <2>3. StackSeq(b - 1) # StackSeq(b) BY <1>1, <2>2, Numbers DEF Shapes
    <2>4. r.tcp.seq # client.rcv_nxt BY <1>1, <2>1, <2>3
    <2> QED BY <1>1, <2>4 DEF b
  <1> QED BY <1>1, <1>2, <1>3

\* What the client makes of an answer while both ends agree.
LEMMA StepAnswered ==
    ASSUME Shapes, NEW t \in Nat, StepAt(t), ClientReceives
    PROVE  /\ Shapes' /\ StepAt(t)' /\ client'.sent = client.sent
           /\ BackOne \/ (client'.got = client.got /\ client'.state = client.state)
  <1> DEFINE b == Back
             s == client.sent
             n == Len(replies)
  <1>1. /\ ClientInv(Back) /\ StackInv(t) /\ RepliesInv(t) /\ b \in Nat /\ b <= t /\ t <= s
        /\ s \in Nat /\ Queued(replies) /\ ConnShape
        /\ client.state \in {"ESTABLISHED", "FIN_SENT", "DONE"}
    BY StepIs
  <1>2. /\ replies # <<>> /\ replies' = Tail(replies) /\ conn' = conn /\ link' = link
    BY DEF ClientReceives, stack_vars
  <1>3. PICK r : r = Head(replies) OBVIOUS
  <1>4. ReceiveSegment(r)
    BY <1>1, <1>3
    DEF ClientReceives, ReceiveSynAck, ReceiveRefusal, ReceiveStray
  <1>5. PICK at \in Rows(n, b, t) : AnswersTo(replies, at) BY <1>1 DEF RepliesInv
  <1>6. n \in Nat /\ n > 0 /\ r = replies[1] BY <1>1, <1>2, <1>3, TailOf
  <1>7. 1 \in 1..n /\ 1 - 1 = 0 /\ 1 \in 0..n
    <2> HIDE DEF n
    <2> QED BY <1>6
  <1> DEFINE x == at[1]
  <1>8. Answer(r, x) BY <1>5, <1>6, <1>7 DEF AnswersTo
  <1>9. /\ x \in Nat /\ x <= t /\ (x = b \/ x = b + 1)
        /\ n = 1 => x = t
        /\ n > 1 => at[2] = x \/ at[2] = x + 1
    <2> HIDE DEF n, b
    <2>1. /\ at[0] = b /\ at[n] = t
          /\ \A k \in 0..n : at[k] \in Nat /\ b <= at[k] /\ at[k] <= t
          /\ \A k \in 1..n : at[k] = at[k - 1] \/ at[k] = at[k - 1] + 1
      BY <1>1, <1>5, <1>6, RowsGrow
    <2>2. n > 1 => 2 \in 1..n /\ 2 - 1 = 1 BY <1>6
    <2> QED BY <1>7, <2>1, <2>2
  <1>10. Queued(replies') /\ \E row \in Rows(Len(replies'), x, t) : AnswersTo(replies', row)
    <2>1. Queued(replies') BY <1>1, <1>2, TailOf
    <2> HIDE DEF x, b
    <2>2. \E row \in Rows(Len(Tail(replies)), x, t) : AnswersTo(Tail(replies), row)
      BY <1>1, <1>2, <1>5, <1>9, AnswersTail DEF x
    <2> QED BY <1>2, <2>1, <2>2
  <1>11. /\ SameClient /\ Back' = x /\ ClientInv(Back)'
         /\ BackOne \/ (client'.got = client.got /\ client'.state = client.state)
    <2>1. CASE x = b
      <3>1. r.tcp.ack = ClientSeq(b) /\ r.tcp.seq # client.rcv_nxt
        BY <1>1, <1>8, <2>1, OldAnswer
      <3>2. b <= s /\ b <= b
        <4> HIDE DEF b, s
        <4> QED BY <1>1
      <3>3. b = IF b <= b THEN b ELSE b OBVIOUS
      <3>4. /\ SameClient /\ Back' = Back /\ (Back = b => ClientInv(Back)')
            /\ client'.got = client.got /\ client'.state = client.state
        BY <1>1, <1>2, <1>4, <3>1, <3>2, <3>3, OutOfOrder
      <3> QED BY <2>1, <3>4
    <2>2. CASE x = b + 1
      <3>1. b < s
        <4> HIDE DEF b, s, x
        <4> QED BY <1>1, <1>9, <2>2
      <3> QED BY <1>1, <1>2, <1>4, <1>8, <2>2, <3>1, BroughtBack
    <2> QED BY <1>9, <2>1, <2>2
  <1>12. Queued(requests') /\ RequestsFrom(t) BY <1>2, <1>11, AckSent
  <1>13. /\ ClientShape' /\ client'.iss = client.iss /\ client'.port = client.port
         /\ client'.sent = s
    BY <1>11 DEF SameClient
  <1>14. Shapes' BY <1>1, <1>2, <1>10, <1>12, <1>13 DEF Shapes, ConnShape
  <1>15. StackInv(t)' BY <1>1, <1>2, <1>13, StackKept
  <1>16. Back' <= t /\ t <= client'.sent BY <1>1, <1>9, <1>11, <1>13
  <1>17. /\ link'.window = 1 => Loose(requests', client'.sent, t < client'.sent)
         /\ link'.window # 1 =>
              \E row \in Rows(Len(requests'), t, client'.sent) :
                /\ ThingsRow(requests', row)
                /\ conn'.state = "SYN_RECEIVED" => OpenedFirst(requests', row)
    BY <1>2, <1>12, <1>13 DEF RequestsFrom
  <1>18. \E row \in Rows(Len(replies'), Back', t) : AnswersTo(replies', row)
    BY <1>10, <1>11
  <1>19. StepAt(t)'
    BY <1>11, <1>13, <1>15, <1>16, <1>17, <1>18, StepNext
  <1> QED BY <1>11, <1>13, <1>14, <1>19

-----------------------------------------------------------------------------
(***************************************************************************)
(* What the link does while both ends agree.                               *)
(***************************************************************************)
\* What may be on its way if nothing more is allowed may be if it is.
LEMMA LooseMore ==
    ASSUME NEW q, NEW s, NEW may, Loose(q, s, may)
    PROVE  Loose(q, s, TRUE)
  BY DEF Loose

\* What makes the stack ahead of the client after a step.
LEMMA AstrayNext ==
    ASSUME client'.iss = client.iss, client'.port = client.port,
           NEW a \in Nat, NEW g \in Nat, link'.window = 1, faults'.lost_replies > 0,
           ClientInv(a)', a <= g, Back' < g, g <= client'.sent, StackAhead(g)',
           NEW missed \in BOOLEAN,
           missed <=> a < client'.sent /\ ~Pending(replies', client'.sent),
           Repeated(g, missed)', LateAnswers(replies', client'.rcv_nxt, g),
           Loose(requests', client'.sent, missed)
    PROVE  AstrayAt(a, g)'
  <1>1. /\ \A f : Harmless(f)' = Harmless(f)
        /\ \A f, i : Thing(f, i)' = Thing(f, i)
        /\ \A k : ClientSeq(k)' = ClientSeq(k)
    BY SameSession
  <1>2. Missed(a)' = missed BY <1>1 DEF Missed, Pending
  <1>3. Loose(requests, client.sent, Missed(a))'
    <2>1. Loose(requests, client.sent, missed)' BY <1>1 DEF Loose
    <2> QED BY <1>2, <2>1 DEF Loose
  <1>4. LateAnswers(replies, client.rcv_nxt, g)' BY <1>1 DEF LateAnswers
  <1>5. Repeated(g, Missed(a))' BY <1>2 DEF Repeated
  <1> QED BY <1>3, <1>4, <1>5 DEF AstrayAt

\* The only answer to the thing sent last is lost.
LEMMA AnswerLost ==
    ASSUME Shapes, FaultsInv, NEW t \in Nat, StepAt(t), LoseReply, link.window = 1,
           Len(replies) = 1, t # Back
    PROVE  \E a \in Nat : AstrayAt(a, t)'
  <1> PICK b : b = Back OBVIOUS
  <1> DEFINE s == client.sent
             lost == faults.lost_replies
  <1>1. /\ ClientInv(b) /\ StackInv(t) /\ b \in Nat /\ b <= t /\ t <= s
        /\ s \in Nat /\ s <= LastItem /\ LastItem \in Nat /\ s <= b + 1
        /\ Loose(requests, s, t < s) /\ Queued(replies) /\ t # b
    BY StepIs
  <1>2. t = b + 1 /\ t = s /\ t # 0 /\ b < s /\ ~(t < s) /\ b # s
    <2> HIDE DEF s
    <2> QED BY <1>1
  <1>3. /\ replies' = Tail(replies) /\ replies # <<>> /\ requests' = requests
        /\ client' = client /\ Happens("lost_replies")
    BY DEF LoseReply
  <1>4. link' = link /\ conn' = conn /\ faults'.lost_replies = lost + 1 /\ lost \in Nat
    <2>1. "lost_replies" \in FaultKinds BY DEF FaultKinds
    <2>2. /\ link' = link /\ conn' = conn
          /\ faults'["lost_replies"] = faults["lost_replies"] + 1
          /\ faults["lost_replies"] \in Nat
      BY <1>3, <2>1, FaultIs
    <2> QED BY <2>2
  <1>5. ToSet(replies') = {}
    <2>1. Queued(replies') /\ Len(replies') = 0 BY <1>1, <1>3, TailOf
    <2>2. replies' = <<>> BY <2>1, QueueIs
    <2> QED BY <2>2 DEF ToSet
  <1>6. Back' = b BY <1>3 DEF Back
  <1>7. ClientInv(b)' BY <1>1, <1>3, <1>6 DEF ClientInv, ClientSeq, StackSeq
  <1>8. /\ ChunksIn(t) \in Nat /\ Bytes(ChunksIn(t)) \in Nat
    BY <1>1, <1>2, BytesCounted
  <1>9. /\ conn.bytes_received = Bytes(ChunksIn(t)) /\ conn.snd_nxt = StackSeq(ChunksIn(t))
        /\ conn.state \in IF t = LastItem THEN {"LAST_ACK", "CLOSED"} ELSE {"ESTABLISHED"}
    BY <1>1, <1>2 DEF StackInv
  <1>10. StackAhead(t)'
    BY <1>4, <1>8, <1>9 DEF StackAhead, StackSeq
  <1>11. Repeated(t, TRUE)'
    <2> DEFINE bytes == Bytes(ChunksIn(t))
               most == bytes + Widest * faults'.lost_replies
    <2>1. /\ Widest \in Nat /\ Widest * (lost + 1) \in Nat
          /\ Widest <= Widest * (lost + 1)
      <3>1. lost + 1 \in Nat /\ lost + 1 > 0 BY <1>4
      <3> QED BY <3>1, WidestIs
    <2>2. conn'.bytes_received = bytes BY <1>4, <1>9
    <2>3. bytes <= most /\ bytes + Widest <= most
      <3>1. most = bytes + Widest * (lost + 1) BY <1>4
      <3> DEFINE w == Widest * (lost + 1)
      <3> HIDE DEF w, bytes, most, lost
      <3>2. bytes \in Nat BY <1>8 DEF bytes
      <3>3. most = bytes + w /\ w \in Nat /\ Widest <= w /\ Widest \in Nat
        BY <2>1, <3>1 DEF w
      <3> QED BY <3>2, <3>3
    <2> QED BY <2>2, <2>3 DEF Repeated
  <1>12. LateAnswers(replies', client'.rcv_nxt, t) /\ ~Pending(replies', client'.sent)
    BY <1>5 DEF LateAnswers, Pending
  <1>13. Loose(requests', client'.sent, TRUE) BY <1>1, <1>3, LooseMore
  <1>14. b <= t /\ Back' < t /\ t <= client'.sent /\ b < client'.sent
    BY <1>1, <1>2, <1>3, <1>6
  <1>15. link'.window = 1 /\ faults'.lost_replies > 0 BY <1>4
  <1>16. TRUE \in BOOLEAN /\ (TRUE <=> b < client'.sent /\ ~Pending(replies', client'.sent))
    BY <1>12, <1>14
  <1>17. AstrayAt(b, t)'
    BY <1>1, <1>3, <1>7, <1>10, <1>11, <1>12, <1>13, <1>14, <1>15, <1>16, AstrayNext
  <1> QED BY <1>1, <1>17

\* While both ends agree, faults leave them so, unless the only answer is lost.
LEMMA StepDisturbed ==
    ASSUME Shapes, FaultsInv, Calm', NEW t \in Nat, StepAt(t), Disturbance
    PROVE  Step' \/ Astray'
  <1> DEFINE s == client.sent
  <1> PICK b : b = Back OBVIOUS
  <1>1. /\ ClientInv(Back) /\ StackInv(t) /\ RepliesInv(t) /\ b \in Nat /\ b <= t /\ t <= s
        /\ s \in Nat /\ s <= LastItem /\ Queued(requests) /\ Queued(replies)
        /\ link.window = 1 => Loose(requests, s, t < s) /\ s <= b + 1
        /\ link.window # 1 => InOrder(t)
    BY StepIs
  <1>2. conn' = conn /\ client' = client /\ link' = link BY Disturbed
  <1>3. Back' = b BY <1>2 DEF Back
  <1>4. ClientInv(Back)' BY <1>1, <1>2, <1>3 DEF ClientInv, ClientSeq, StackSeq
  <1>5. StackInv(t)' BY <1>1, <1>2, StackKept
  <1>6. ASSUME RequestsFrom(t),
               \E row \in Rows(Len(replies'), b, t) : AnswersTo(replies', row)
        PROVE  Step' \/ Astray'
    <2>1. StepAt(t)'
      BY <1>1, <1>2, <1>3, <1>4, <1>5, <1>6, StepNext DEF RequestsFrom
    <2> QED BY <2>1 DEF Step
  <1>7. PICK may \in BOOLEAN : may = (t < s)
    <2> DEFINE m == t < s
    <2>1. m \in BOOLEAN OBVIOUS
    <2> HIDE DEF m
    <2> QED BY <2>1 DEF m
  <1>8. link.window = 1 => Loose(requests, s, may) BY <1>1, <1>7
  <1>9. ASSUME link.window = 1, Loose(requests', s, may) PROVE RequestsFrom(t)
    BY <1>7, <1>9 DEF RequestsFrom
  <1>10. PICK at \in Rows(Len(replies), b, t) : AnswersTo(replies, at)
    BY <1>1 DEF RepliesInv
  <1>11. ASSUME Patient' PROVE link.window = 1 BY <1>2, <1>11 DEF Patient
  <1>12. FaultKinds = {"lost_requests", "lost_replies", "doubled", "repeated", "swapped",
                       "restarts"}
    BY DEF FaultKinds
  <1>13. CASE LoseRequest
    <2>1. /\ requests # <<>> /\ requests' = Tail(requests) /\ replies' = replies
          /\ Happens("lost_requests")
      BY <1>13 DEF LoseRequest
    <2>2. link.window = 1 BY <1>11, <1>12, <2>1, FaultIs
    <2>3. Loose(requests', s, may)
      <3> HIDE DEF s
      <3> QED BY <1>1, <1>8, <2>1, <2>2, LooseTail
    <2> QED BY <1>6, <1>9, <1>10, <2>1, <2>2, <2>3
  <1>14. CASE SwapRequests
    <2>1. /\ Len(requests) > 1 /\ replies' = replies /\ Happens("swapped")
          /\ requests' = Swapped(requests)
      BY <1>14 DEF SwapRequests, Swapped
    <2>2. link.window = 1 BY <1>11, <1>12, <2>1, FaultIs
    <2>3. Loose(requests', s, may) BY <1>1, <1>8, <2>1, <2>2, LooseSwap
    <2> QED BY <1>6, <1>9, <1>10, <2>1, <2>2, <2>3
  <1>15. CASE DoubleRequest
    <2>1. /\ requests # <<>> /\ TcpPayloadLen(Head(requests)) = 0 /\ replies' = replies
          /\ requests' = Doubled(requests)
      BY <1>15, NoDataDoubled DEF DoubleRequest, Doubled
    <2>2. CASE link.window = 1
      <3>1. Loose(requests', s, may) BY <1>1, <1>8, <2>1, <2>2, LooseDouble
      <3> QED BY <1>6, <1>9, <1>10, <2>1, <2>2, <3>1
    <2>3. CASE link.window # 1
      <3>1. PICK old \in Rows(Len(requests), t, s) :
              /\ ThingsRow(requests, old)
              /\ conn.state = "SYN_RECEIVED" => OpenedFirst(requests, old)
        BY <1>1, <2>3 DEF InOrder
      <3>2. \E row \in Rows(Len(requests'), t, s) :
              ThingsRow(requests', row)
                /\ (OpenedFirst(requests, old) => OpenedFirst(requests', row))
        <4> HIDE DEF s
        <4> QED BY <1>1, <2>1, <3>1, ThingsDouble
      <3>3. RequestsFrom(t) BY <1>2, <2>3, <3>1, <3>2 DEF RequestsFrom
      <3> QED BY <1>6, <1>10, <2>1, <3>3
    <2> QED BY <2>2, <2>3
  <1>16. ASSUME requests' = requests PROVE RequestsFrom(t)
    <2>1. CASE link.window = 1 BY <1>8, <1>9, <1>16, <2>1
    <2>2. CASE link.window # 1 BY <1>1, <1>2, <1>16, <2>2 DEF RequestsFrom, InOrder
    <2> QED BY <2>1, <2>2
  <1>17. CASE DoubleReply
    <2>1. /\ replies # <<>> /\ requests' = requests
          /\ replies' = Doubled(replies)
      BY <1>17 DEF DoubleReply, Doubled
    <2>2. \E row \in Rows(Len(replies'), b, t) : AnswersTo(replies', row)
      BY <1>1, <1>10, <2>1, AnswersDouble
    <2> QED BY <1>6, <1>16, <2>1, <2>2
  <1>18. CASE LoseReply
    <2>1. /\ replies # <<>> /\ requests' = requests /\ replies' = Tail(replies)
          /\ Happens("lost_replies")
      BY <1>18 DEF LoseReply
    <2>2. link.window = 1 BY <1>11, <1>12, <2>1, FaultIs
    <2>3. CASE Len(replies) = 1 /\ t # b
      <3>1. \E a \in Nat : AstrayAt(a, t)' BY <1>18, <2>2, <2>3, AnswerLost
      <3> QED BY <3>1 DEF Astray
    <2>4. CASE ~(Len(replies) = 1 /\ t # b)
      <3> DEFINE n == Len(replies)
      <3>1. n \in Nat /\ n > 0 BY <1>1, <2>1, TailOf
      <3>2. b <= t /\ (n = 1 => b = t) /\ (n > 1 => at[2] = b \/ at[2] = b + 1)
        <4>1. n = 1 => b = t BY <2>4
        <4> HIDE DEF n, s
        <4>2. \A k \in 0..n : at[k] \in Nat /\ b <= at[k] /\ at[k] <= t
          BY <1>1, <1>10, <3>1, RowsGrow DEF n
        <4>3. n > 1 => 2 \in 0..n BY <3>1
        <4>4. t <= b + 1 BY <1>1, <2>2
        <4> QED BY <1>1, <4>1, <4>2, <4>3, <4>4
      <3>3. \E row \in Rows(Len(Tail(replies)), b, t) : AnswersTo(Tail(replies), row)
        BY <1>1, <1>10, <2>1, <3>2, AnswersTail
      <3> QED BY <1>6, <1>16, <2>1, <3>3
    <2> QED BY <2>3, <2>4
  <1> QED BY <1>13, <1>14, <1>15, <1>17, <1>18 DEF Disturbance

-----------------------------------------------------------------------------
(***************************************************************************)
(* After an answer was lost.                                               *)
(***************************************************************************)
\* What it means that the stack is ahead, in one place.
LEMMA AstrayIs ==
    ASSUME Shapes, NEW a \in Nat, NEW g \in Nat, AstrayAt(a, g)
    PROVE  /\ ClientInv(a) /\ StackAhead(g) /\ Repeated(g, Missed(a))
           /\ LateAnswers(replies, client.rcv_nxt, g)
           /\ Loose(requests, client.sent, Missed(a)) /\ Missed(a) \in BOOLEAN
           /\ Missed(a) <=> a < client.sent /\ ~Pending(replies, client.sent)
           /\ link.window = 1 /\ faults.lost_replies > 0
           /\ Back \in Nat /\ Back <= a /\ a <= g /\ Back < g /\ g <= client.sent
           /\ client.sent \in Nat /\ client.sent <= LastItem /\ client.sent <= a + 1
           /\ LastItem \in Nat /\ LastItem >= 1 /\ client.rcv_nxt = StackSeq(Back)
           /\ client.port = ListenPort /\ client.state \in {"ESTABLISHED", "FIN_SENT", "DONE"}
           /\ Queued(requests) /\ Queued(replies) /\ ClientShape /\ ConnShape
  <1>1. /\ ClientInv(a) /\ StackAhead(g) /\ Repeated(g, Missed(a))
        /\ LateAnswers(replies, client.rcv_nxt, g)
        /\ Loose(requests, client.sent, Missed(a))
        /\ link.window = 1 /\ faults.lost_replies > 0
        /\ a <= g /\ Back < g /\ g <= client.sent
    BY DEF AstrayAt
  <1>2. /\ Back \in Nat /\ Back <= a /\ client.sent \in Nat /\ client.sent <= LastItem
        /\ LastItem \in Nat /\ client.port = ListenPort
        /\ client.state \in {"ESTABLISHED", "FIN_SENT", "DONE"}
    BY <1>1, ClientIs
  <1>3. client.sent <= a + 1 /\ client.rcv_nxt = StackSeq(Back) BY <1>1 DEF ClientInv
  <1>4. Missed(a) \in BOOLEAN /\ (Missed(a) <=> a < client.sent /\ ~Pending(replies, client.sent))
    BY DEF Missed
  <1> QED BY <1>1, <1>2, <1>3, <1>4, Sizes DEF Shapes

\* The bytes taken while nothing reaches the stack.
LEMMA AheadKept ==
    ASSUME conn' = conn, NEW g, StackAhead(g)
    PROVE  StackAhead(g)'
  BY DEF StackAhead

\* What was acknowledged is not what comes later.
LEMMA NotPending ==
    ASSUME Shapes, NEW q, NEW rcv, NEW g \in Nat, NEW s \in Nat, g < s, s <= LastItem,
           LateAnswers(q, rcv, g)
    PROVE  ~Pending(q, s)
  <1> SUFFICES ASSUME NEW r \in ToSet(q), r.tcp.ack = ClientSeq(s) PROVE FALSE
    BY DEF Pending
  <1>1. PICK j \in 0..g : r.tcp.ack = ClientSeq(j) BY DEF LateAnswers
  <1>2. j \in Nat /\ j < s OBVIOUS
  <1>3. ClientSeq(j) # ClientSeq(s) BY <1>2, Numbers DEF Shapes
  <1> QED BY <1>1, <1>3

\* Sending the next thing to a stack that is ahead.
LEMMA AstrayItem ==
    ASSUME Shapes, NEW a \in Nat, NEW g \in Nat, AstrayAt(a, g), SendItem
    PROVE  Shapes' /\ AstrayAt(a, g)'
  <1> DEFINE s == client.sent
  <1> PICK b : b = Back OBVIOUS
  <1>1. /\ ClientInv(a) /\ StackAhead(g) /\ Repeated(g, Missed(a))
        /\ LateAnswers(replies, client.rcv_nxt, g) /\ Loose(requests, s, Missed(a))
        /\ Missed(a) <=> a < s /\ ~Pending(replies, s)
        /\ link.window = 1 /\ faults.lost_replies > 0 /\ b < g /\ a <= g /\ g <= s
        /\ b \in Nat /\ s \in Nat /\ LastItem \in Nat /\ Queued(requests) /\ Queued(replies)
        /\ ConnShape
    BY AstrayIs
  <1>2. PICK x : x = ItemFrame(client, s + 1) OBVIOUS
  <1>3. /\ s < LastItem /\ (link.window = 1 => s = a)
        /\ ClientShape' /\ client'.iss = client.iss /\ client'.port = client.port
        /\ client'.sent = s + 1 /\ Back' = Back /\ ClientInv(a)'
        /\ requests' = Append(requests, x) /\ Thing(x, s + 1)
        /\ client'.rcv_nxt = client.rcv_nxt
        /\ conn' = conn /\ replies' = replies /\ link' = link /\ faults' = faults
    BY <1>1, <1>2, ItemSent
  <1>4. s = a /\ g = s /\ g < s + 1 /\ s + 1 \in Nat /\ s + 1 <= LastItem /\ g # s + 1
        /\ ~(a < s) /\ s # LastItem /\ a < s + 1 /\ g <= s + 1
    <2>1. s = a BY <1>1, <1>3
    <2> HIDE DEF s
    <2> QED BY <1>1, <1>3, <2>1
  <1>5. Shapes'
    <2>1. Queued(requests') BY <1>1, <1>3, AppendOf
    <2> QED BY <1>1, <1>3, <2>1 DEF Shapes, ConnShape
  <1>6. ~Pending(replies', client'.sent)
    <2> DEFINE s1 == s + 1
    <2>1. s1 \in Nat /\ g < s1 /\ s1 <= LastItem BY <1>4
    <2> HIDE DEF s1
    <2>2. ~Pending(replies, s1) BY <1>1, <2>1, NotPending
    <2> QED BY <1>3, <2>2 DEF s1
  <1>7. Loose(requests', client'.sent, TRUE)
    <2>1. \A f \in ToSet(requests) : Harmless(f)
      <3>1. ~Missed(a) BY <1>1, <1>4
      <3> QED BY <1>1, <1>4, <3>1 DEF Loose
    <2>2. Loose(Append(requests, x), s + 1, TRUE) BY <1>1, <1>3, <2>1, LooseItem
    <2> QED BY <1>3, <2>2
  <1>8. Repeated(g, TRUE)'
    <2>1. g # client'.sent BY <1>3, <1>4
    <2> QED BY <1>1, <1>3, <2>1 DEF Repeated
  <1>9. StackAhead(g)' BY <1>1, <1>3, AheadKept
  <1>10. LateAnswers(replies', client'.rcv_nxt, g) BY <1>1, <1>3
  <1>11. /\ TRUE \in BOOLEAN /\ (TRUE <=> a < client'.sent /\ ~Pending(replies', client'.sent))
         /\ Back' < g /\ g <= client'.sent
         /\ link'.window = 1 /\ faults'.lost_replies > 0
    BY <1>1, <1>3, <1>4, <1>6
  <1>12. AstrayAt(a, g)'
    BY <1>1, <1>3, <1>7, <1>8, <1>9, <1>10, <1>11, AstrayNext
  <1> QED BY <1>5, <1>12

\* Sending the last one again.
LEMMA AstrayAgain ==
    ASSUME Shapes, NEW a \in Nat, NEW g \in Nat, AstrayAt(a, g), Retransmit
    PROVE  Shapes' /\ AstrayAt(a, g)'
  <1> DEFINE s == client.sent
  <1>1. /\ ClientInv(a) /\ StackAhead(g) /\ Repeated(g, Missed(a))
        /\ LateAnswers(replies, client.rcv_nxt, g)
        /\ Missed(a) <=> a < s /\ ~Pending(replies, s)
        /\ link.window = 1 /\ faults.lost_replies > 0 /\ Back < g /\ a <= g /\ g <= s
        /\ Queued(replies) /\ ConnShape /\ ClientShape
    BY AstrayIs
  <1>2. /\ s = a + 1 /\ replies = <<>> /\ Queued(requests') /\ Loose(requests', s, TRUE)
        /\ client' = client /\ conn' = conn /\ replies' = replies /\ link' = link
        /\ faults' = faults
    BY <1>1, ItemAgain
  <1>3. Shapes' BY <1>1, <1>2 DEF Shapes, ConnShape, ClientShape
  <1>4. Back' = Back BY <1>2 DEF Back
  <1>5. ClientInv(a)' BY <1>1, <1>2, <1>4 DEF ClientInv, ClientSeq, StackSeq
  <1>6. ~Pending(replies, s)
    <2>1. ToSet(replies) = {} BY <1>2 DEF ToSet
    <2> QED BY <2>1 DEF Pending
  <1>7. Missed(a) = TRUE
    <2>1. a < s
      <3> HIDE DEF s
      <3> QED BY <1>2
    <2> QED BY <1>1, <1>6, <2>1 DEF Missed
  <1>8. Repeated(g, TRUE)' BY <1>1, <1>2, <1>7 DEF Repeated
  <1>9. StackAhead(g)' BY <1>1, <1>2, AheadKept
  <1>10. /\ client'.iss = client.iss /\ client'.port = client.port
         /\ link'.window = 1 /\ faults'.lost_replies > 0
         /\ Back' < g /\ g <= client'.sent /\ LateAnswers(replies', client'.rcv_nxt, g)
         /\ Loose(requests', client'.sent, TRUE)
    BY <1>1, <1>2, <1>4
  <1>11. TRUE \in BOOLEAN /\ (TRUE <=> a < client'.sent /\ ~Pending(replies', client'.sent))
    <2>1. a < s /\ client'.sent = s BY <1>1, <1>2, <1>7
    <2> QED BY <1>2, <1>6, <2>1
  <1>12. AstrayAt(a, g)'
    BY <1>1, <1>5, <1>8, <1>9, <1>10, <1>11, AstrayNext
  <1> QED BY <1>3, <1>12

\* A member of a queue is its head or in its tail.
LEMMA HeadOrTail ==
    ASSUME NEW q, Queued(q), q # <<>>, NEW x \in ToSet(q)
    PROVE  x = Head(q) \/ x \in ToSet(Tail(q))
  <1> DEFINE n == Len(q)
  <1>1. /\ n \in Nat /\ n > 0 /\ Head(q) = q[1] /\ Len(Tail(q)) = n - 1 /\ Queued(Tail(q))
        /\ \A k \in 1..(n - 1) : Tail(q)[k] = q[k + 1]
    BY TailOf
  <1>2. PICK k \in 1..n : x = q[k] BY QueueIs
  <1>3. CASE k = 1 BY <1>1, <1>2, <1>3
  <1>4. CASE k # 1
    <2>1. k - 1 \in 1..(n - 1) /\ (k - 1) + 1 = k
      <3> HIDE DEF n
      <3> QED BY <1>1, <1>4
    <2>2. Tail(q)[k - 1] = x BY <1>1, <1>2, <2>1
    <2>3. Tail(q)[k - 1] \in ToSet(Tail(q)) BY <1>1, <2>1, QueueIs
    <2> QED BY <2>2, <2>3
  <1> QED BY <1>3, <1>4

\* The client takes nothing any more, and acknowledges all the same.
LEMMA AstrayAnswered ==
    ASSUME Shapes, NEW a \in Nat, NEW g \in Nat, AstrayAt(a, g), ClientReceives
    PROVE  /\ Shapes' /\ \E u \in Nat : AstrayAt(u, g)'
           /\ client'.sent = client.sent
           /\ client'.got = client.got /\ client'.state = client.state
  <1> PICK s : s = client.sent OBVIOUS
  <1> PICK b : b = Back OBVIOUS
  <1>1. /\ ClientInv(a) /\ StackAhead(g) /\ Repeated(g, Missed(a))
        /\ LateAnswers(replies, client.rcv_nxt, g) /\ Loose(requests, s, Missed(a))
        /\ Missed(a) \in BOOLEAN /\ (Missed(a) <=> a < s /\ ~Pending(replies, s))
        /\ link.window = 1 /\ faults.lost_replies > 0 /\ b < g /\ a <= g /\ g <= s
        /\ b \in Nat /\ s \in Nat /\ s <= LastItem /\ Queued(requests) /\ Queued(replies)
        /\ ConnShape /\ client.state \in {"ESTABLISHED", "FIN_SENT", "DONE"}
    BY AstrayIs
  <1>2. /\ replies # <<>> /\ replies' = Tail(replies) /\ conn' = conn /\ link' = link
        /\ faults' = faults
    BY DEF ClientReceives, stack_vars
  <1>3. PICK r : r = Head(replies) OBVIOUS
  <1>4. ReceiveSegment(r)
    BY <1>1, <1>3
    DEF ClientReceives, ReceiveSynAck, ReceiveRefusal, ReceiveStray
  <1>5. r \in ToSet(replies) /\ Queued(replies') /\ ToSet(replies') \subseteq ToSet(replies)
    BY <1>1, <1>2, <1>3, TailOf
  <1>6. PICK j \in 0..g : r.tcp.ack = ClientSeq(j)
    BY <1>1, <1>5 DEF LateAnswers
  <1>7. r.tcp.seq # client.rcv_nxt BY <1>1, <1>5 DEF LateAnswers
  <1>8. PICK u : u = IF a <= j THEN j ELSE a OBVIOUS
  <1>9. j \in Nat /\ j <= s /\ u \in Nat /\ a <= u /\ j <= u /\ u <= g /\ (u < s <=> a < s /\ j < s)
    BY <1>1, <1>8
  <1>10. /\ SameClient /\ Back' = b /\ ClientInv(u)'
         /\ client'.got = client.got /\ client'.state = client.state
         /\ client'.rcv_nxt = client.rcv_nxt
    BY <1>1, <1>2, <1>4, <1>6, <1>7, <1>8, <1>9, OutOfOrder
  <1>11. /\ ClientShape' /\ client'.iss = client.iss /\ client'.port = client.port
         /\ client'.sent = s
    BY <1>10 DEF SameClient
  <1>12. PICK x : Harmless(x) /\ requests' = Append(requests, x)
    BY <1>10 DEF SameClient
  <1>13. PICK missed \in BOOLEAN : missed = Missed(a) BY <1>1
  <1>14. Queued(requests') /\ Loose(requests', s, missed)
    <2>1. Loose(requests, s, missed) BY <1>1, <1>13
    <2> QED BY <1>1, <1>12, <2>1, AppendOf, LooseAppend
  <1>15. missed <=> u < s /\ ~Pending(replies', s)
    <2>1. j < s => ClientSeq(j) # ClientSeq(s) BY <1>1, <1>9, Numbers DEF Shapes
    <2>2. ASSUME missed PROVE u < s /\ ~Pending(replies', s)
      <3>1. a < s /\ ~Pending(replies, s) BY <1>1, <1>13, <2>2
      <3>2. ClientSeq(j) # ClientSeq(s) BY <1>5, <1>6, <3>1 DEF Pending
      <3>3. j < s BY <1>1, <1>9, <3>2
      <3> QED BY <1>5, <1>9, <3>1, <3>3 DEF Pending
    <2>3. ASSUME u < s, ~Pending(replies', s) PROVE missed
      <3>1. a < s /\ j < s BY <1>9, <2>3
      <3>2. \A y \in ToSet(replies) : y = r \/ y \in ToSet(replies')
        BY <1>1, <1>2, <1>3, HeadOrTail
      <3>3. ~Pending(replies, s) BY <1>6, <2>1, <2>3, <3>1, <3>2 DEF Pending
      <3> QED BY <1>1, <1>13, <3>1, <3>3
    <2> QED BY <2>2, <2>3
  <1>16. Shapes' BY <1>1, <1>2, <1>5, <1>11, <1>14 DEF Shapes, ConnShape
  <1>17. Repeated(g, missed)'
    <2>1. client'.sent = client.sent BY <1>11
    <2> QED BY <1>1, <1>2, <1>13, <2>1 DEF Repeated
  <1>18. StackAhead(g)' BY <1>1, <1>2, AheadKept
  <1>19. LateAnswers(replies', client'.rcv_nxt, g)
    BY <1>1, <1>5, <1>10 DEF LateAnswers
  <1>20. /\ Loose(requests', client'.sent, missed)
         /\ missed <=> u < client'.sent /\ ~Pending(replies', client'.sent)
         /\ link'.window = 1 /\ faults'.lost_replies > 0
         /\ u <= g /\ Back' < g /\ g <= client'.sent
    BY <1>1, <1>2, <1>9, <1>10, <1>11, <1>14, <1>15
  <1>21. AstrayAt(u, g)'
    BY <1>9, <1>10, <1>11, <1>17, <1>18, <1>19, <1>20, AstrayNext
  <1> QED BY <1>9, <1>10, <1>11, <1>16, <1>21

\* The stack takes a thing it may have taken before, and its numbers get further ahead.
AheadTaking(b, s) ==
    /\ ConnShape' /\ StackAhead(s)' /\ Repeated(s, FALSE)' /\ Answered(tx')
    /\ tx'.tcp.seq # StackSeq(b) /\ tx'.tcp.ack = ClientSeq(s)
    /\ "RST" \notin tx'.tcp.flags /\ "SYN" \notin tx'.tcp.flags

\* A stack that counts more than came back is at no number the client waits for.
LEMMA StackApart ==
    ASSUME NEW b, Bytes(b) \in Nat, NEW n \in Nat, Bytes(b) < n, n < SeqSpace
    PROVE  ToSeq(Iss + 1 + n) # StackSeq(b)
  <1>1. PICK base \in Int : base = Iss + 1 BY Sizes
  <1>2. PICK j \in Nat : j = Bytes(b) OBVIOUS
  <1>3. Near(j, n) BY <1>2, Sizes DEF Near
  <1>4. Apart(base, j, n) BY <1>3, SeqApart
  <1>5. ToSeq(base + j) # ToSeq(base + n) BY <1>2, <1>4 DEF Apart
  <1> QED BY <1>1, <1>2, <1>5 DEF StackSeq

\* The bytes are above what came back and below the sequence space.
\* Before it takes the s-th thing, and after.
AheadBy(b, g, s, bytes, e) ==
    /\ b < g /\ g <= s /\ s <= g + 1 /\ g < LastItem /\ s <= LastItem
    /\ Bytes(LastItem) + e < SeqSpace
    /\ Bytes(g) <= bytes /\ bytes <= Bytes(g) + e
    /\ g = s => bytes + Widest <= Bytes(g) + e

AheadStill(b, s, bytes, e) ==
    /\ ToSeq(Iss + 1 + bytes) # StackSeq(b)
    /\ s < LastItem =>
         /\ bytes + Width(s) \in Nat /\ (bytes + Width(s)) % BytesMod = bytes + Width(s)
         /\ Bytes(s) <= bytes + Width(s) /\ bytes + Width(s) <= Bytes(s) + e

\* Taking a thing again keeps the count between what was sent and what that adds.
LEMMA AheadCounts ==
    ASSUME NEW g \in Nat, NEW s \in Nat, NEW b \in Nat, NEW e \in Nat, NEW bytes \in Nat,
           AheadBy(b, g, s, bytes, e)
    PROVE  AheadStill(b, s, bytes, e)
  <1> DEFINE w == Width(s)
             bg == Bytes(g)
             bs == Bytes(s)
             bb == Bytes(b)
             all == Bytes(LastItem)
  <1>1. /\ LastItem \in Nat /\ SeqSpace \in Nat /\ BytesMod \in Nat /\ SeqSpace <= BytesMod
        /\ Iss \in Nat /\ b < g /\ g <= s /\ s <= g + 1 /\ g < LastItem /\ s <= LastItem
    BY Sizes DEF AheadBy
  <1>2. bg \in Nat /\ bs \in Nat /\ bb \in Nat /\ all \in Nat /\ bb < bg /\ bg <= all /\ bs <= all
    BY <1>1, BytesGrow
  <1>3. Widest \in Nat BY WidestIs
  <1>4. w \in Nat /\ w <= Widest
    <2>1. s \in 1..LastItem /\ s - 1 \in Nat /\ s - 1 < LastItem /\ (s - 1) + 1 = s BY <1>1
    <2>2. w \in Nat BY <2>1, BytesGrow
    <2>3. w <= Widest BY <2>1, WidestIs
    <2> QED BY <2>2, <2>3
  <1>5. s = g + 1 => bs = bg + w BY <1>1, BytesGrow
  <1>6. s = g => bs = bg OBVIOUS
  <1>7. /\ all + e < SeqSpace /\ bg <= bytes /\ bytes <= bg + e
        /\ g = s => bytes + Widest <= bg + e
    BY DEF AheadBy
  <1> HIDE DEF w, bg, bs, bb, all
  <1>8. s = g \/ s = g + 1 BY <1>1
  <1>9. bb < bytes /\ bytes < SeqSpace BY <1>1, <1>2, <1>3, <1>7
  <1>10. ToSeq(Iss + 1 + bytes) # StackSeq(b) BY <1>2, <1>9, StackApart DEF bb
  <1>11. bytes + w \in Nat /\ bs <= bytes + w /\ bytes + w <= bs + e
    <2>1. CASE s = g BY <1>2, <1>3, <1>4, <1>6, <1>7, <2>1
    <2>2. CASE s = g + 1 BY <1>2, <1>3, <1>4, <1>5, <1>7, <2>2
    <2> QED BY <1>8, <2>1, <2>2
  <1>12. (bytes + w) % BytesMod = bytes + w
    <2> DEFINE x == bytes + w
    <2>1. x \in Nat /\ x < BytesMod BY <1>1, <1>2, <1>3, <1>7, <1>11
    <2> HIDE DEF x
    <2>2. x % BytesMod = x BY <1>1, <2>1
    <2> QED BY <2>2 DEF x
  <1> QED BY <1>10, <1>11, <1>12 DEF w, bs, AheadStill

\* What a stack that is ahead makes of the last thing sent.
LEMMA AheadTaken ==
    ASSUME Shapes, NEW b \in Nat, NEW g \in Nat, NEW s \in Nat, s = client.sent,
           b < g, g <= s, s <= g + 1, g < LastItem, s <= LastItem, Patient,
           faults.lost_replies \in Nat,
           StackAhead(g), Repeated(g, TRUE), client.port = ListenPort,
           NEW f, Thing(f, s), Stack!HandleFrame(f, GCS_STACK_FRAME_CAP),
           client' = client, faults' = faults
    PROVE  AheadTaking(b, s)
  <1> DEFINE bytes == conn.bytes_received
             w == Width(s)
             snd == conn.snd_nxt
  <1> PICK e \in Nat : e = Widest * faults.lost_replies BY WidestIs
  <1>1. LastItem \in Nat /\ LastItem >= 1 BY Sizes
  <1>2. ChunksIn(g) = g BY DEF ChunksIn
  <1>3. /\ conn.state = "ESTABLISHED" /\ bytes \in Nat /\ Bytes(g) <= bytes
        /\ snd = ToSeq(Iss + 1 + bytes)
    <2>1. g # LastItem BY <1>1
    <2> QED BY <1>2, <2>1 DEF StackAhead
  <1>4. /\ bytes <= Bytes(g) + e
        /\ g = s => bytes + Widest <= Bytes(g) + e
    BY <1>2 DEF Repeated
  <1>5. Bytes(LastItem) + e < SeqSpace BY DEF Patient
  <1>6. /\ snd # StackSeq(b)
        /\ s < LastItem =>
             /\ bytes + w \in Nat /\ (bytes + w) % BytesMod = bytes + w
             /\ Bytes(s) <= bytes + w /\ bytes + w <= Bytes(s) + e
    <2> PICK n \in Nat : n = bytes BY <1>3
    <2>1. AheadBy(b, g, s, n, e) BY <1>3, <1>4, <1>5 DEF AheadBy
    <2>2. AheadStill(b, s, n, e) BY <2>1, AheadCounts
    <2> QED BY <1>3, <2>2 DEF AheadStill
  <1>7. s # 0 /\ 1 <= s /\ s - 1 \in Nat /\ s - 1 < LastItem /\ (s - 1) + 1 = s BY <1>1
  <1>8. ToSeq(ClientSeq(s - 1) + w) = ClientSeq(s)
    <2> PICK k \in Nat : k = s - 1 BY <1>7
    <2>1. k < LastItem /\ k + 1 = s BY <1>7
    <2>2. ToSeq(ClientSeq(k) + Width(k + 1)) = ClientSeq(k + 1) BY <2>1, Numbers DEF Shapes
    <2> QED BY <2>1, <2>2
  <1>9. Iss \in Nat BY Sizes
  <1>10. CASE s < LastItem
    <2>1. /\ FromClient(f, ClientSeq(s - 1), {"PSH", "ACK"}, Chunks[s])
          /\ ChunkLen(w) /\ LenOf[Chunks[s]] = w /\ w \in Nat
      BY <1>7, <1>10, ThingRead, ChunkSizes
    <2>2. /\ ConnShape' /\ conn'.state = "ESTABLISHED"
          /\ conn'.bytes_received = (bytes + w) % BytesMod
          /\ conn'.rcv_nxt = ToSeq(ClientSeq(s - 1) + w)
          /\ conn'.snd_nxt = ToSeq(snd + w)
          /\ Says(tx', snd, conn'.rcv_nxt, {"ACK", "PSH"}, Chunks[s], w)
      <3> HIDE DEF w
      <3> QED BY <1>3, <2>1, ChunkTaken DEF Shapes
    <2>3. conn'.bytes_received = bytes + w BY <1>6, <1>10, <2>2
    <2>4. conn'.snd_nxt = ToSeq(Iss + 1 + (bytes + w))
      <3> DEFINE x == Iss + 1 + bytes
      <3>1. x \in Int /\ x + w = Iss + 1 + (bytes + w)
        <4> HIDE DEF bytes, w
        <4> QED BY <1>3, <1>9, <2>1
      <3>2. conn'.snd_nxt = ToSeq(ToSeq(x) + w) BY <1>3, <2>2
      <3> HIDE DEF x, w, bytes
      <3>3. ToSeq(ToSeq(x) + w) = ToSeq(x + w) BY <2>1, <3>1, SeqSum
      <3> QED BY <3>1, <3>2, <3>3
    <2>5. ChunksIn(s) = s BY <1>10 DEF ChunksIn
    <2>6. StackAhead(s)'
      <3>1. s # LastItem BY <1>1, <1>10
      <3>2. conn'.bytes_received \in Nat /\ Bytes(s) <= conn'.bytes_received
        BY <1>6, <1>10, <2>3
      <3>3. conn'.snd_nxt = ToSeq(Iss + 1 + conn'.bytes_received) BY <2>3, <2>4
      <3> QED BY <2>2, <2>5, <3>1, <3>2, <3>3 DEF StackAhead
    <2>7. Repeated(s, FALSE)' BY <1>6, <1>10, <2>3, <2>5 DEF Repeated
    <2>8. /\ tx'.tcp.ack = ClientSeq(s) /\ tx'.tcp.flags = {"ACK", "PSH"}
          /\ tx'.tcp.seq = snd /\ Answered(tx')
      BY <1>8, <2>2 DEF Says
    <2>9. "RST" \notin {"ACK", "PSH"} /\ "SYN" \notin {"ACK", "PSH"} OBVIOUS
    <2> QED BY <1>6, <2>2, <2>6, <2>7, <2>8, <2>9 DEF AheadTaking
  <1>11. CASE s = LastItem
    <2>1. FromClient(f, ClientSeq(s - 1), {"FIN", "ACK"}, NoData) BY <1>7, <1>11, ThingRead
    <2>2. /\ ConnShape' /\ conn'.state = "LAST_ACK" /\ conn'.bytes_received = bytes
          /\ conn'.rcv_nxt = ToSeq(ClientSeq(s - 1) + 1) /\ conn'.snd_nxt = snd
          /\ Says(tx', snd, conn'.rcv_nxt, {"FIN", "ACK"}, NoData, 0)
      BY <1>3, <2>1, FinTaken DEF Shapes
    <2>3. w = 1
      <3>1. ~(s <= Len(Chunks)) BY <1>11, Sizes
      <3> QED BY <3>1 DEF Width
    <2>4. ChunksIn(s) = g
      <3>1. ~(s < LastItem) /\ LastItem - 1 = g BY <1>1, <1>11
      <3> QED BY <3>1 DEF ChunksIn
    <2>5. StackAhead(s)' BY <1>3, <1>11, <2>2, <2>4 DEF StackAhead
    <2>6. Repeated(s, FALSE)' BY <1>4, <2>2, <2>4 DEF Repeated
    <2>7. /\ tx'.tcp.ack = ClientSeq(s) /\ tx'.tcp.flags = {"FIN", "ACK"}
          /\ tx'.tcp.seq = snd /\ Answered(tx')
      BY <1>8, <2>2, <2>3 DEF Says
    <2>8. "RST" \notin {"FIN", "ACK"} /\ "SYN" \notin {"FIN", "ACK"} OBVIOUS
    <2> QED BY <1>6, <2>2, <2>5, <2>6, <2>7, <2>8 DEF AheadTaking
  <1> QED BY <1>1, <1>10, <1>11

\* And what it makes of any request.
LEMMA AstrayHeard ==
    ASSUME Shapes, FaultsInv, Calm, NEW a \in Nat, NEW g \in Nat, AstrayAt(a, g),
           StackReceives
    PROVE  Shapes' /\ \E h \in Nat : AstrayAt(a, h)'
  <1> PICK s : s = client.sent OBVIOUS
  <1> PICK b : b = Back OBVIOUS
  <1>1. /\ ClientInv(a) /\ StackAhead(g) /\ Repeated(g, Missed(a))
        /\ LateAnswers(replies, client.rcv_nxt, g) /\ Loose(requests, s, Missed(a))
        /\ Missed(a) \in BOOLEAN /\ (Missed(a) <=> a < s /\ ~Pending(replies, s))
        /\ link.window = 1 /\ faults.lost_replies > 0 /\ b <= a /\ b < g /\ a <= g /\ g <= s
        /\ b \in Nat /\ s \in Nat /\ s <= LastItem /\ s <= a + 1
        /\ LastItem \in Nat /\ LastItem >= 1 /\ client.rcv_nxt = StackSeq(b)
        /\ client.port = ListenPort /\ Queued(requests) /\ Queued(replies)
        /\ ConnShape
    BY AstrayIs
  <1>2. /\ requests # <<>> /\ requests' = Tail(requests) /\ client' = client
        /\ Stack!HandleFrame(Head(requests), GCS_STACK_FRAME_CAP) /\ faults' = faults
    BY DEF StackReceives
  <1>3. PICK f : f = Head(requests) OBVIOUS
  <1>4. f \in ToSet(requests) /\ Stack!HandleFrame(f, GCS_STACK_FRAME_CAP)
    BY <1>1, <1>2, <1>3, TailOf
  <1>5. PICK may \in BOOLEAN : may = Missed(a) BY <1>1
  <1>6. /\ Loose(requests', s, may)
        /\ 1 <= s /\ Thing(f, s) => Loose(requests', s, FALSE)
    <2>1. Loose(requests, s, may) BY <1>1, <1>5
    <2> QED BY <1>1, <1>2, <1>3, <2>1, LooseTail
  <1>7. Harmless(f) \/ (Thing(f, s) /\ (s = LastItem \/ may))
    BY <1>1, <1>4, <1>5 DEF Loose
  <1>8. 1 <= s BY <1>1
  <1>9. Back' = b BY <1>2 DEF Back
  <1>10. ClientInv(a)'
    <2>1. link' = link BY DEF StackReceives
    <2> QED BY <1>1, <1>2, <1>9, <2>1 DEF ClientInv, ClientSeq, StackSeq
  <1>11. ASSUME Unheard, \/ conn'.state = conn.state
                         \/ conn.state \in {"LAST_ACK", "CLOSED"} /\ conn'.state = "CLOSED"
         PROVE  Shapes' /\ AstrayAt(a, g)'
    <2>1. /\ Shapes' /\ link' = link /\ replies' = replies
      BY <1>11, Delivered DEF Unheard
    <2>2. StackAhead(g)'
      <3>1. conn'.state \in IF g = LastItem THEN {"LAST_ACK", "CLOSED"} ELSE {"ESTABLISHED"}
        BY <1>1, <1>11 DEF StackAhead
      <3> QED BY <1>1, <1>11, <3>1 DEF StackAhead, Unheard
    <2>3. Repeated(g, may)' BY <1>1, <1>2, <1>5, <1>11 DEF Repeated, Unheard
    <2>4. /\ client'.iss = client.iss /\ client'.port = client.port
          /\ link'.window = 1 /\ faults'.lost_replies > 0
          /\ Back' < g /\ g <= client'.sent
          /\ LateAnswers(replies', client'.rcv_nxt, g)
          /\ may <=> a < client'.sent /\ ~Pending(replies', client'.sent)
          /\ Loose(requests', client'.sent, may)
      BY <1>1, <1>2, <1>5, <1>6, <1>9, <2>1
    <2>5. AstrayAt(a, g)' BY <1>1, <1>10, <2>2, <2>3, <2>4, AstrayNext
    <2> QED BY <2>1, <2>5
  <1>12. CASE Harmless(f)
    <2>1. conn.state \in Engaged /\ conn.state # "SYN_RECEIVED"
      BY <1>1 DEF StackAhead, Engaged
    <2>2. Unheard /\ (\/ conn'.state = conn.state
                      \/ conn.state = "LAST_ACK" /\ conn'.state = "CLOSED")
      BY <1>1, <1>4, <1>12, <2>1, HarmlessHeard
    <2> QED BY <1>11, <2>2
  <1>13. CASE Thing(f, s) /\ g = LastItem
    <2>1. s = LastItem /\ Thing(f, LastItem) BY <1>1, <1>13
    <2>2. conn.state \in {"LAST_ACK", "CLOSED"} BY <1>1, <1>13 DEF StackAhead
    <2>3. Unheard /\ conn'.state = "CLOSED" BY <1>1, <1>4, <2>1, <2>2, ThingLate
    <2> QED BY <1>11, <2>2, <2>3
  <1>14. CASE Thing(f, s) /\ g # LastItem /\ ~Harmless(f)
    <2>1. may
      <3>1. CASE g < s
        <4>1. ~Pending(replies, s) BY <1>1, <3>1, NotPending
        <4> QED BY <1>1, <1>5, <3>1, <4>1
      <3>2. CASE g = s BY <1>7, <1>14, <3>2
      <3> QED BY <1>1, <3>1, <3>2
    <2>2. s <= g + 1 /\ g < LastItem /\ a <= s /\ b < s BY <1>1, <1>14
    <2>3. Patient
      <3>1. ~Orderly BY <1>1 DEF Orderly, Without
      <3> QED BY <3>1 DEF Calm
    <2>4. faults.lost_replies \in Nat BY DEF FaultsInv, FaultKinds
    <2>5. Repeated(g, TRUE) BY <1>1, <1>5, <2>1
    <2>6. AheadTaking(b, s)
      BY <1>1, <1>2, <1>4, <1>14, <2>2, <2>3, <2>4, <2>5, AheadTaken
    <2>7. PICK x : x = tx' OBVIOUS
    <2>8. Shapes' /\ link' = link /\ replies' = Append(replies, x)
      BY <2>6, <2>7, Delivered DEF AheadTaking
    <2>9. /\ x \in ToSet(replies')
          /\ \A y \in ToSet(replies') : y \in ToSet(replies) \/ y = x
      <3>1. /\ Queued(Append(replies, x)) /\ Len(replies) \in Nat
            /\ Len(Append(replies, x)) = Len(replies) + 1
            /\ Append(replies, x)[Len(replies) + 1] = x
            /\ \A y \in ToSet(Append(replies, x)) : y \in ToSet(replies) \/ y = x
        BY <1>1, AppendOf
      <3>2. Len(replies) + 1 \in 1..Len(Append(replies, x)) BY <3>1
      <3>3. x \in ToSet(Append(replies, x)) BY <3>1, <3>2, QueueIs
      <3> QED BY <2>8, <3>1, <3>3
    <2>10. LateAnswers(replies', client'.rcv_nxt, s)
      <3>1. ASSUME NEW y \in ToSet(replies)
            PROVE  /\ y.tcp.seq # client.rcv_nxt /\ "RST" \notin y.tcp.flags
                   /\ \E j \in 0..s : y.tcp.ack = ClientSeq(j) /\ ("SYN" \in y.tcp.flags => j = 0)
        <4>1. /\ y.tcp.seq # client.rcv_nxt /\ "RST" \notin y.tcp.flags
              /\ \E j \in 0..g : y.tcp.ack = ClientSeq(j) /\ ("SYN" \in y.tcp.flags => j = 0)
          BY <1>1 DEF LateAnswers
        <4>2. \A j \in 0..g : j \in 0..s BY <1>1
        <4> QED BY <4>1, <4>2
      <3>2. /\ x.tcp.seq # client.rcv_nxt /\ "RST" \notin x.tcp.flags
            /\ x.tcp.ack = ClientSeq(s) /\ "SYN" \notin x.tcp.flags
        BY <1>1, <2>6, <2>7 DEF AheadTaking
      <3>3. s \in 0..s BY <1>1
      <3>4. client'.rcv_nxt = client.rcv_nxt BY <1>2
      <3> QED BY <2>9, <3>1, <3>2, <3>3, <3>4 DEF LateAnswers
    <2>11. Pending(replies', s) BY <2>6, <2>7, <2>9 DEF AheadTaking, Pending
    <2>12. /\ client'.iss = client.iss /\ client'.port = client.port
           /\ link'.window = 1 /\ faults'.lost_replies > 0
           /\ Back' < s /\ s <= client'.sent
           /\ FALSE <=> a < client'.sent /\ ~Pending(replies', client'.sent)
           /\ Loose(requests', client'.sent, FALSE)
      <3>1. Loose(requests', s, FALSE) BY <1>6, <1>8, <1>14
      <3>2. client'.sent = s BY <1>2
      <3>3. link'.window = 1 /\ faults'.lost_replies > 0 BY <1>1, <1>2, <2>8
      <3>4. Back' < s /\ s <= client'.sent BY <1>1, <1>9, <2>2, <3>2
      <3>5. FALSE <=> a < client'.sent /\ ~Pending(replies', client'.sent) BY <2>11, <3>2
      <3> QED BY <1>2, <3>1, <3>2, <3>3, <3>4, <3>5
    <2>13. StackAhead(s)' /\ Repeated(s, FALSE)' BY <2>6 DEF AheadTaking
    <2>14. FALSE \in BOOLEAN OBVIOUS
    <2>15. AstrayAt(a, s)'
      BY <1>1, <1>10, <2>2, <2>10, <2>12, <2>13, <2>14, AstrayNext
    <2> QED BY <1>1, <2>8, <2>15
  <1> QED BY <1>7, <1>11, <1>12, <1>13, <1>14

\* Whatever the link does next.
LEMMA AstrayDisturbed ==
    ASSUME Shapes, FaultsInv, Calm', NEW a \in Nat, NEW g \in Nat, AstrayAt(a, g),
           Disturbance
    PROVE  AstrayAt(a, g)'
  <1> PICK s : s = client.sent OBVIOUS
  <1> PICK b : b = Back OBVIOUS
  <1>1. /\ ClientInv(a) /\ StackAhead(g) /\ Repeated(g, Missed(a))
        /\ LateAnswers(replies, client.rcv_nxt, g) /\ Loose(requests, s, Missed(a))
        /\ Missed(a) \in BOOLEAN /\ (Missed(a) <=> a < s /\ ~Pending(replies, s))
        /\ link.window = 1 /\ faults.lost_replies > 0 /\ b < g /\ a <= g /\ g <= s
        /\ s \in Nat /\ s <= LastItem /\ Queued(requests) /\ Queued(replies)
    BY AstrayIs
  <1>2. conn' = conn /\ client' = client /\ link' = link /\ ToSet(replies') \subseteq ToSet(replies)
    BY Disturbed
  <1>3. Back' = b /\ client'.sent = s BY <1>2 DEF Back
  <1>4. ClientInv(a)' BY <1>1, <1>2, <1>3 DEF ClientInv, ClientSeq, StackSeq
  <1>5. StackAhead(g)' BY <1>1, <1>2, AheadKept
  <1>6. LateAnswers(replies', client'.rcv_nxt, g) BY <1>1, <1>2 DEF LateAnswers
  <1>7. PICK may \in BOOLEAN : may = Missed(a) BY <1>1
  <1>8. Loose(requests, s, may) /\ (may <=> a < s /\ ~Pending(replies, s)) BY <1>1, <1>7
  <1>9. FaultKinds = {"lost_requests", "lost_replies", "doubled", "repeated", "swapped",
                       "restarts"}
    BY DEF FaultKinds
  <1>10. ASSUME NEW missed \in BOOLEAN, missed <=> a < s /\ ~Pending(replies', s),
                Repeated(g, missed)', faults'.lost_replies > 0, Loose(requests', s, missed)
         PROVE  AstrayAt(a, g)'
    <2>1. /\ client'.iss = client.iss /\ client'.port = client.port /\ link'.window = 1
          /\ Back' < g /\ g <= client'.sent
      BY <1>1, <1>2, <1>3
    <2> QED BY <1>1, <1>3, <1>4, <1>5, <1>6, <1>10, <2>1, AstrayNext
  <1>11. ASSUME ToSet(replies') = ToSet(replies), NEW kind \in FaultKinds,
                kind # "lost_replies", Happens(kind), Loose(requests', s, may)
         PROVE  AstrayAt(a, g)'
    <2>1. faults'.lost_replies = faults.lost_replies BY <1>9, <1>11, FaultIs
    <2>2. Repeated(g, may)' BY <1>1, <1>2, <1>3, <1>7, <2>1 DEF Repeated
    <2>3. may <=> a < s /\ ~Pending(replies', s) BY <1>8, <1>11 DEF Pending
    <2> QED BY <1>1, <1>10, <1>11, <2>1, <2>2, <2>3
  <1>12. CASE LoseRequest
    <2>1. /\ requests # <<>> /\ requests' = Tail(requests) /\ replies' = replies
          /\ Happens("lost_requests")
      BY <1>12 DEF LoseRequest
    <2>2. Loose(requests', s, may) BY <1>1, <1>8, <2>1, LooseTail
    <2> QED BY <1>9, <1>11, <2>1, <2>2
  <1>13. CASE DoubleRequest
    <2>1. /\ requests # <<>> /\ TcpPayloadLen(Head(requests)) = 0 /\ replies' = replies
          /\ requests' = Doubled(requests) /\ Happens("doubled")
      BY <1>13, NoDataDoubled DEF DoubleRequest, Doubled
    <2>2. Loose(requests', s, may) BY <1>1, <1>8, <2>1, LooseDouble
    <2> QED BY <1>9, <1>11, <2>1, <2>2
  <1>14. CASE SwapRequests
    <2>1. /\ Len(requests) > 1 /\ replies' = replies /\ Happens("swapped")
          /\ requests' = Swapped(requests)
      BY <1>14 DEF SwapRequests, Swapped
    <2>2. Loose(requests', s, may) BY <1>1, <1>8, <2>1, LooseSwap
    <2> QED BY <1>9, <1>11, <2>1, <2>2
  <1>15. CASE DoubleReply
    <2>1. /\ replies # <<>> /\ requests' = requests /\ Happens("doubled")
          /\ replies' = Doubled(replies)
      BY <1>15 DEF DoubleReply, Doubled
    <2>2. ToSet(replies') = ToSet(replies) BY <1>1, <2>1, DoubleOf
    <2> QED BY <1>8, <1>9, <1>11, <2>1, <2>2
  <1>16. CASE LoseReply
    <2>1. requests' = requests /\ Happens("lost_replies") BY <1>16 DEF LoseReply
    <2>2. /\ faults'["lost_replies"] = faults["lost_replies"] + 1
          /\ faults["lost_replies"] \in Nat
      BY <1>9, <2>1, FaultIs
    <2>3. PICK lost \in Nat : lost = faults.lost_replies BY <2>2
    <2>4. faults'.lost_replies = lost + 1 BY <2>2, <2>3
    <2>5. PICK missed \in BOOLEAN : missed <=> a < s /\ ~Pending(replies', s)
      <3> DEFINE m == a < s /\ ~Pending(replies', s)
      <3>1. m \in BOOLEAN OBVIOUS
      <3> HIDE DEF m
      <3>2. \E missed \in BOOLEAN : missed <=> m BY <3>1
      <3> QED BY <3>2 DEF m
    <2>6. may => missed BY <1>2, <1>8, <2>5 DEF Pending
    <2>7. Loose(requests', s, missed) BY <1>8, <2>1, <2>6 DEF Loose
    <2>8. Repeated(g, missed)'
      <3> DEFINE n == Bytes(ChunksIn(g))
                 e == Widest * lost
                 more == Widest * (lost + 1)
                 bytes == conn.bytes_received
      <3>1. bytes \in Nat /\ bytes <= n + e
        BY <1>1, <2>3 DEF Repeated, StackAhead
      <3>2. e \in Nat /\ Widest \in Nat /\ more = e + Widest BY WidestIs
      <3>3. n \in Nat
        <4>1. g \in Nat /\ g <= LastItem BY <1>1, Sizes
        <4> QED BY <4>1, BytesCounted
      <3> HIDE DEF n, e, more, bytes
      <3>4. bytes <= n + more /\ bytes + Widest <= n + more BY <3>1, <3>2, <3>3
      <3>5. conn'.bytes_received = bytes /\ n + more = n + Widest * faults'.lost_replies
        BY <1>2, <2>4 DEF bytes, more
      <3> QED BY <3>4, <3>5 DEF Repeated, n
    <2>9. faults'.lost_replies > 0 BY <2>4
    <2> QED BY <1>10, <2>5, <2>7, <2>8, <2>9
  <1> QED BY <1>12, <1>13, <1>14, <1>15, <1>16 DEF Disturbance

-----------------------------------------------------------------------------
(***************************************************************************)
(* The phases, one action at a time.                                       *)
(***************************************************************************)
\* Faults stay within the link's bounds, and a session that is calm was so all along.
LEMMA FaultsStep ==
    ASSUME FaultsInv, [Next]_vars
    PROVE  FaultsInv' /\ (Calm' => Calm)
  <1>1. ASSUME UNCHANGED <<link, faults>> PROVE FaultsInv' /\ (Calm' => Calm)
    BY <1>1, NoFault
  <1>2. ASSUME NEW fault \in FaultKinds, Happens(fault) PROVE FaultsInv' /\ (Calm' => Calm)
    BY <1>2, FaultIs
  <1>3. CASE SendSyn BY <1>1, <1>3 DEF SendSyn
  <1>4. CASE SendItem BY <1>1, <1>4 DEF SendItem
  <1>5. CASE Retransmit BY <1>1, <1>5 DEF Retransmit
  <1>6. CASE ClientReceives BY <1>1, <1>6 DEF ClientReceives
  <1>7. CASE StackReceives BY <1>1, <1>7 DEF StackReceives
  <1>8. CASE LoseRequest BY <1>2, <1>8 DEF LoseRequest, FaultKinds
  <1>9. CASE LoseReply BY <1>2, <1>9 DEF LoseReply, FaultKinds
  <1>10. CASE DoubleRequest BY <1>2, <1>10 DEF DoubleRequest, FaultKinds
  <1>11. CASE DoubleReply BY <1>2, <1>11 DEF DoubleReply, FaultKinds
  <1>12. CASE SwapRequests BY <1>2, <1>12 DEF SwapRequests, FaultKinds
  <1>13. CASE RetransmitEarly BY <1>2, <1>13 DEF RetransmitEarly, FaultKinds
  <1>14. CASE Restart BY <1>2, <1>14 DEF Restart, FaultKinds
  <1>15. CASE UNCHANGED vars \/ Finished BY <1>1, <1>15 DEF vars, Finished
  <1> QED
    BY <1>3, <1>4, <1>5, <1>6, <1>7, <1>8, <1>9, <1>10, <1>11, <1>12, <1>13, <1>14, <1>15
    DEF Next

\* The client's state tells whether the session is open.
LEMMA PhaseIs ==
    ASSUME Shapes
    PROVE  /\ Dial => client.state \in {"CLOSED", "SYN_SENT", "REFUSED"}
           /\ Step \/ Astray => client.state \in {"ESTABLISHED", "FIN_SENT", "DONE"}
  <1>1. Dial => client.state \in {"CLOSED", "SYN_SENT", "REFUSED"} BY DEF Dial, Dialling
  <1>2. ASSUME Step PROVE client.state \in {"ESTABLISHED", "FIN_SENT", "DONE"}
    <2>1. PICK t \in Nat : StepAt(t) BY <1>2 DEF Step
    <2> QED BY <2>1, StepIs
  <1>3. ASSUME Astray PROVE client.state \in {"ESTABLISHED", "FIN_SENT", "DONE"}
    <2>1. PICK a \in Nat, g \in Nat : AstrayAt(a, g) BY <1>3 DEF Astray
    <2> QED BY <2>1, AstrayIs
  <1> QED BY <1>1, <1>2, <1>3

\* A step that changes nothing.
LEMMA SessionSame ==
    ASSUME SessionInv, UNCHANGED vars
    PROVE  SessionInv'
  <1>1. /\ client' = client /\ conn' = conn /\ requests' = requests /\ replies' = replies
        /\ link' = link /\ faults' = faults
    BY DEF vars, stack_vars, queues
  <1>2. Shapes /\ Shapes' BY <1>1 DEF SessionInv, Shapes, ConnShape, ClientShape
  <1>3. Back' = Back BY <1>1 DEF Back
  <1>4. ASSUME NEW a, ClientInv(a) PROVE ClientInv(a)'
    BY <1>1, <1>3, <1>4 DEF ClientInv, ClientSeq, StackSeq
  <1>5. CASE Dial
    <2>1. Shapes' /\ Dial' BY <1>1, <1>2, <1>5, DialQueues DEF Shapes
    <2> QED BY <2>1 DEF SessionInv
  <1>6. ASSUME NEW t \in Nat, StepAt(t) PROVE StepAt(t)'
    <2>1. /\ ClientInv(Back) /\ StackInv(t) /\ RepliesInv(t) /\ Back <= t /\ t <= client.sent
          /\ link.window = 1 => Loose(requests, client.sent, t < client.sent)
          /\ link.window # 1 => InOrder(t)
      BY <1>2, <1>6, StepIs
    <2>2. ClientInv(Back)' BY <1>1, <1>3, <2>1 DEF ClientInv, ClientSeq, StackSeq
    <2>3. StackInv(t)' BY <1>1, <2>1, StackKept
    <2> QED BY <1>1, <1>3, <2>1, <2>2, <2>3, StepNext DEF RepliesInv, InOrder
  <1>7. ASSUME NEW a \in Nat, NEW g \in Nat, AstrayAt(a, g) PROVE AstrayAt(a, g)'
    <2>1. /\ ClientInv(a) /\ StackAhead(g) /\ Repeated(g, Missed(a))
          /\ LateAnswers(replies, client.rcv_nxt, g)
          /\ Loose(requests, client.sent, Missed(a)) /\ Missed(a) \in BOOLEAN
          /\ Missed(a) <=> a < client.sent /\ ~Pending(replies, client.sent)
          /\ link.window = 1 /\ faults.lost_replies > 0
          /\ a <= g /\ Back < g /\ g <= client.sent
      BY <1>2, <1>7, AstrayIs
    <2>2. PICK missed \in BOOLEAN : missed = Missed(a) BY <2>1
    <2>3. Repeated(g, missed)' BY <1>1, <2>1, <2>2 DEF Repeated
    <2>4. StackAhead(g)' BY <1>1, <2>1, AheadKept
    <2> QED BY <1>1, <1>3, <1>4, <2>1, <2>2, <2>3, <2>4, AstrayNext
  <1> QED BY <1>2, <1>5, <1>6, <1>7 DEF SessionInv, Step, Astray

\* Every step of a calm session leads from a phase to a phase.
LEMMA SessionStep ==
    ASSUME FaultsInv, Calm, SessionInv, Calm', [Next]_vars
    PROVE  SessionInv'
  <1>1. Shapes /\ (Dial \/ Step \/ Astray) BY DEF SessionInv
  <1>2. /\ Dial => client.state \in {"CLOSED", "SYN_SENT", "REFUSED"}
        /\ Step \/ Astray => client.state \in {"ESTABLISHED", "FIN_SENT", "DONE"}
    BY <1>1, PhaseIs
  <1>3. ASSUME Shapes' /\ (Dial' \/ Step' \/ Astray') PROVE SessionInv'
    BY <1>3 DEF SessionInv
  <1>4. ASSUME Step PROVE \E t \in Nat : StepAt(t) BY <1>4 DEF Step
  <1>5. ASSUME Astray PROVE \E a, g \in Nat : AstrayAt(a, g) BY <1>5 DEF Astray
  <1>6. ASSUME NEW t \in Nat, StepAt(t)' PROVE Step' BY <1>6 DEF Step
  <1>7. ASSUME NEW a \in Nat, NEW g \in Nat, AstrayAt(a, g)' PROVE Astray'
    BY <1>7 DEF Astray
  <1>8. CASE SendSyn
    <2>1. Dial BY <1>1, <1>2, <1>8 DEF SendSyn
    <2> QED BY <1>1, <1>3, <1>8, <2>1, SynSent
  <1>9. CASE SendItem
    <2>1. Step \/ Astray BY <1>1, <1>2, <1>9 DEF SendItem
    <2>2. CASE Step BY <1>1, <1>3, <1>4, <1>6, <1>9, <2>2, StepItem
    <2>3. CASE Astray BY <1>1, <1>3, <1>5, <1>7, <1>9, <2>3, AstrayItem
    <2> QED BY <2>1, <2>2, <2>3
  <1>10. CASE Retransmit
    <2>1. CASE Dial BY <1>1, <1>3, <1>10, <2>1, SynSentAgain
    <2>2. CASE Step BY <1>1, <1>3, <1>4, <1>6, <1>10, <2>2, StepAgain
    <2>3. CASE Astray BY <1>1, <1>3, <1>5, <1>7, <1>10, <2>3, AstrayAgain
    <2> QED BY <1>1, <2>1, <2>2, <2>3
  <1>11. CASE ClientReceives
    <2>1. CASE Dial BY <1>1, <1>3, <1>11, <2>1, DialAnswered
    <2>2. CASE Step BY <1>1, <1>3, <1>4, <1>6, <1>11, <2>2, StepAnswered
    <2>3. CASE Astray BY <1>1, <1>3, <1>5, <1>7, <1>11, <2>3, AstrayAnswered
    <2> QED BY <1>1, <2>1, <2>2, <2>3
  <1>12. CASE StackReceives
    <2>1. CASE Dial BY <1>1, <1>3, <1>12, <2>1, DialHeard
    <2>2. CASE Step
      <3>1. PICK t \in Nat : StepAt(t) BY <1>4, <2>2
      <3>2. t + 1 \in Nat OBVIOUS
      <3>3. Shapes' /\ (StepAt(t)' \/ StepAt(t + 1)') BY <1>1, <1>12, <3>1, StepHeard
      <3> QED BY <1>3, <1>6, <3>2, <3>3
    <2>3. CASE Astray BY <1>1, <1>3, <1>5, <1>7, <1>12, <2>3, AstrayHeard
    <2> QED BY <1>1, <2>1, <2>2, <2>3
  <1>13. CASE Disturbance
    <2>1. Shapes' BY <1>1, <1>13, Disturbed
    <2>2. CASE Dial BY <1>1, <1>3, <1>13, <2>1, <2>2, DialDisturbed
    <2>3. CASE Step BY <1>1, <1>3, <1>4, <1>13, <2>1, <2>3, StepDisturbed
    <2>4. CASE Astray BY <1>1, <1>3, <1>5, <1>7, <1>13, <2>1, <2>4, AstrayDisturbed
    <2> QED BY <1>1, <2>2, <2>3, <2>4
  <1>14. CASE Restart BY <1>1, <1>3, <1>14, Restarted
  <1>15. ~RetransmitEarly BY FaultIs DEF RetransmitEarly, FaultKinds
  <1>16. CASE UNCHANGED vars \/ Finished BY <1>16, SessionSame DEF Finished
  <1> QED
    BY <1>8, <1>9, <1>10, <1>11, <1>12, <1>13, <1>14, <1>15, <1>16 DEF Next, Disturbance

-----------------------------------------------------------------------------
(***************************************************************************)
(* One frame at a time, where only requests are lost.                      *)
(***************************************************************************)
Unopened == {"CLOSED", "SYN_SENT", "REFUSED"}

\* What makes one frame at a time after a step.
LEMMA OneNext ==
    ASSUME client'.iss = client.iss, client'.port = client.port,
           client'.state \in Unopened =>
             Len(requests') + Len(replies') <= IF client'.state = "CLOSED" THEN 0 ELSE 1,
           client'.state \notin Unopened =>
             /\ replies' # <<>> => /\ requests' = <<>> /\ Len(replies') = 1
                                   /\ client'.sent = Back' + 1
             /\ \A k \in 1..(Len(requests') - 1) : Harmless(requests'[k])
             /\ conn'.state = "CLOSED" => client'.state = "DONE"
    PROVE  OneAtATime'
  <1> PICK q : q = requests' OBVIOUS
  <1>1. \A f : Harmless(f)' = Harmless(f) BY SameSession
  <1>2. ASSUME client'.state \notin Unopened
        PROVE  \A k \in 1..(Len(requests') - 1) : Harmless(requests[k])'
    <2>1. \A k \in 1..(Len(q) - 1) : Harmless(q[k]) BY <1>2
    <2>2. \A k \in 1..(Len(q) - 1) : Harmless(q[k])' BY <1>1, <2>1
    <2> QED BY <2>2 DEF Harmless, Bare
  <1> QED BY <1>2 DEF OneAtATime, Unopened

\* Before a loss of anything else, both ends agree and no client has started anew.
LEMMA OnlyRequestsLost ==
    ASSUME IInv, OnlyLosesRequests
    PROVE  /\ Calm /\ SessionInv /\ OneAtATime /\ ~Astray /\ ~Foreign
           /\ link.window = 1 /\ faults.restarts = 0
  <1>1. /\ link.window = 1 /\ faults["lost_replies"] = 0 /\ faults["restarts"] = 0
        /\ faults["repeated"] = 0
    BY DEF OnlyLosesRequests, Without
  <1>2. Patient
    <2>1. Widest * 0 = 0 /\ Bytes(LastItem) + 0 < SeqSpace
      <3>1. Widest \in Nat /\ Bytes(LastItem) \in Nat /\ Bytes(LastItem) < SeqSpace
        BY WidestIs, BytesGrow, Sizes
      <3> QED BY <3>1
    <2> QED BY <1>1, <2>1 DEF Patient
  <1>3. Calm BY <1>1, <1>2 DEF Calm
  <1>4. ~Astray BY <1>1 DEF Astray, AstrayAt
  <1>5. ~Foreign BY <1>1 DEF Foreign
  <1> QED BY <1>1, <1>3, <1>4, <1>5 DEF IInv

\* So nothing else was lost in the step before, either.
LEMMA OnlyRequestsStep ==
    ASSUME FaultsInv, [Next]_vars, OnlyLosesRequests'
    PROVE  /\ OnlyLosesRequests
           /\ \/ SendSyn \/ SendItem \/ Retransmit \/ ClientReceives \/ StackReceives
              \/ LoseRequest \/ UNCHANGED vars
  <1> DEFINE Others == {"lost_replies", "doubled", "repeated", "swapped", "restarts"}
  <1>1. link'.window = 1 /\ \A fault \in Others : faults'[fault] = 0
    BY DEF OnlyLosesRequests, Without
  <1>2. Others \subseteq FaultKinds BY DEF FaultKinds
  <1>3. ASSUME UNCHANGED <<link, faults>> PROVE OnlyLosesRequests
    BY <1>1, <1>3 DEF OnlyLosesRequests, Without
  <1>4. ASSUME NEW fault \in FaultKinds, Happens(fault)
        PROVE  OnlyLosesRequests /\ fault \notin Others
    <2>1. /\ link' = link /\ faults'[fault] = faults[fault] + 1 /\ faults[fault] \in Nat
          /\ \A other \in FaultKinds : other # fault => faults'[other] = faults[other]
      BY <1>4, FaultIs
    <2>2. fault \notin Others BY <1>1, <2>1
    <2>3. \A other \in Others : faults[other] = 0 BY <1>1, <1>2, <2>1, <2>2
    <2> QED BY <1>1, <2>1, <2>2, <2>3 DEF OnlyLosesRequests, Without
  <1>5. CASE LoseRequest
    <2>1. "lost_requests" \in FaultKinds /\ Happens("lost_requests")
      BY <1>5 DEF LoseRequest, FaultKinds
    <2>2. OnlyLosesRequests BY <1>4, <2>1
    <2> QED BY <1>5, <2>2
  <1>6. ~LoseReply BY <1>2, <1>4 DEF LoseReply
  <1>7. ~DoubleRequest BY <1>2, <1>4 DEF DoubleRequest
  <1>8. ~DoubleReply BY <1>2, <1>4 DEF DoubleReply
  <1>9. ~SwapRequests BY <1>2, <1>4 DEF SwapRequests
  <1>10. ~Restart /\ ~RetransmitEarly BY <1>2, <1>4 DEF Restart, RetransmitEarly
  <1>11. CASE SendSyn \/ SendItem \/ Retransmit \/ ClientReceives \/ StackReceives
    <2>1. UNCHANGED <<link, faults>>
      BY <1>11 DEF SendSyn, SendItem, Retransmit, ClientReceives, StackReceives
    <2> QED BY <1>3, <1>11, <2>1
  <1>12. CASE UNCHANGED vars \/ Finished
    <2>1. UNCHANGED vars BY <1>12 DEF Finished
    <2>2. UNCHANGED <<link, faults>> BY <2>1 DEF vars
    <2> QED BY <1>3, <2>1, <2>2
  <1> QED
    BY <1>5, <1>6, <1>7, <1>8, <1>9, <1>10, <1>11, <1>12 DEF Next

\* Before the session is open.
LEMMA OneDial ==
    ASSUME Shapes, FaultsInv, Dial, OneAtATime, ~Foreign,
           SendSyn \/ Retransmit \/ ClientReceives \/ StackReceives \/ LoseRequest
    PROVE  OneAtATime'
  <1> DEFINE p == Len(requests)
             n == Len(replies)
  <1>1. /\ client.state \in Unopened /\ p \in Nat /\ n \in Nat
        /\ p + n <= IF client.state = "CLOSED" THEN 0 ELSE 1
        /\ p = 0 <=> requests = <<>>
        /\ n = 0 <=> replies = <<>>
    BY QueueIs DEF Shapes, Dial, Dialling, Unopened, OneAtATime
  <1>2. Queued(requests) /\ Queued(replies) BY DEF Shapes
  <1> HIDE DEF p, n
  <1>3. /\ requests # <<>> => /\ Len(Tail(requests)) = 0 /\ p = 1 /\ n = 0
                              /\ client.state # "CLOSED"
        /\ replies # <<>> => /\ Len(Tail(replies)) = 0 /\ p = 0 /\ n = 1
                             /\ requests = <<>> /\ client.state # "CLOSED"
    <2>1. requests # <<>> => Len(Tail(requests)) = p - 1 /\ p > 0 BY <1>2, TailOf DEF p
    <2>2. replies # <<>> => Len(Tail(replies)) = n - 1 /\ n > 0 BY <1>2, TailOf DEF n
    <2> DEFINE P == Len(Tail(requests))
               R == Len(Tail(replies))
               closed == client.state = "CLOSED"
    <2>3. /\ p \in Nat /\ n \in Nat /\ (closed => p + n <= 0) /\ (~closed => p + n <= 1)
          /\ requests # <<>> => P = p - 1 /\ p > 0
          /\ replies # <<>> => R = n - 1 /\ n > 0
      BY <1>1, <2>1, <2>2
    <2> HIDE DEF P, R, closed
    <2>4. requests # <<>> => P = 0 /\ p = 1 /\ n = 0 /\ ~closed BY <2>3
    <2>5. replies # <<>> => R = 0 /\ p = 0 /\ n = 1 /\ ~closed BY <2>3
    <2> QED BY <1>1, <2>4, <2>5 DEF P, R, closed
  <1>4. \A x : Len(Append(requests, x)) = p + 1 /\ Len(Append(replies, x)) = n + 1
    BY <1>2, AppendOf DEF p, n
  <1>5. ASSUME client'.iss = client.iss, client'.port = client.port,
               client'.state \in Unopened,
               \/ Len(requests') = 0 /\ Len(replies') = 0
               \/ /\ client'.state # "CLOSED"
                  /\ \/ Len(requests') = 1 /\ Len(replies') = 0
                     \/ Len(requests') = 0 /\ Len(replies') = 1
        PROVE  OneAtATime'
    <2>1. PICK i : i = Len(requests') OBVIOUS
    <2>2. PICK j : j = Len(replies') OBVIOUS
    <2>3. /\ (i = 0 /\ j = 0) \/ client'.state # "CLOSED"
          /\ (i = 0 /\ j = 0) \/ (i = 1 /\ j = 0) \/ (i = 0 /\ j = 1)
      BY <1>5, <2>1, <2>2
    <2>4. i + j <= IF client'.state = "CLOSED" THEN 0 ELSE 1
      BY <2>3
    <2>5. Len(requests') + Len(replies') <= IF client'.state = "CLOSED" THEN 0 ELSE 1
      BY <2>1, <2>2, <2>4
    <2> QED BY <1>5, <2>5, OneNext
  <1>6. CASE SendSyn
    <2>1. /\ client.state = "CLOSED" /\ replies' = replies
          /\ client' = [client EXCEPT !.state = "SYN_SENT", !.snd_nxt = ToSeq(client.iss + 1)]
          /\ requests' = Append(requests, SynFrame(client))
      BY <1>6 DEF SendSyn
    <2>2. /\ client'.state = "SYN_SENT" /\ client'.iss = client.iss
          /\ client'.port = client.port
      BY <2>1 DEF Shapes, ClientShape, ClientFields
    <2>3. p = 0 /\ n = 0 BY <1>1, <2>1
    <2>4. Len(requests') = 1 /\ Len(replies') = 0 BY <1>4, <2>1, <2>3 DEF n
    <2> QED BY <1>5, <2>2, <2>4 DEF Unopened
  <1>7. CASE Retransmit
    <2>1. /\ client.state = "SYN_SENT" /\ client' = client /\ replies' = replies
          /\ replies = <<>> /\ requests' = <<SynFrame(client)>>
      BY <1>1, <1>7 DEF Retransmit, Unopened
    <2>2. Len(requests') = 1 /\ Len(replies') = 0 BY <2>1
    <2> QED BY <1>1, <1>5, <2>1, <2>2
  <1>8. CASE LoseRequest
    <2>1. requests # <<>> /\ requests' = Tail(requests) /\ client' = client /\ replies' = replies
      BY <1>8 DEF LoseRequest
    <2>2. Len(requests') = 0 /\ Len(replies') = 0 BY <1>3, <2>1 DEF n
    <2> QED BY <1>1, <1>3, <1>5, <2>1, <2>2
  <1>9. CASE StackReceives
    <2>1. /\ requests # <<>> /\ requests' = Tail(requests) /\ client' = client
          /\ replies' = IF Answered(tx') THEN Append(replies, tx') ELSE replies
      BY <1>9 DEF StackReceives
    <2>2. Len(requests') = 0 BY <1>3, <2>1
    <2>3. Len(replies') = 0 \/ Len(replies') = 1
      <3>1. CASE Answered(tx')
        <4>1. PICK x : x = tx' OBVIOUS
        <4>2. replies' = Append(replies, x) BY <2>1, <3>1, <4>1
        <4>3. Len(replies') = n + 1 /\ n = 0 BY <1>3, <1>4, <2>1, <4>2
        <4> QED BY <4>3
      <3>2. CASE ~Answered(tx') BY <1>3, <2>1, <3>2 DEF n
      <3> QED BY <3>1, <3>2
    <2> QED BY <1>1, <1>3, <1>5, <2>1, <2>2, <2>3
  <1>10. CASE ClientReceives
    <2>1. /\ replies # <<>> /\ replies' = Tail(replies) /\ conn' = conn
          /\ \/ ReceiveSynAck(Head(replies)) \/ ReceiveRefusal(Head(replies))
             \/ ReceiveStray(Head(replies)) \/ ReceiveSegment(Head(replies))
      BY <1>10 DEF ClientReceives, stack_vars
    <2>2. PICK r : r = Head(replies) OBVIOUS
    <2>3. /\ Len(replies') = 0 /\ replies' = <<>> /\ requests = <<>> /\ p = 0
          /\ client.state # "CLOSED"
      <3>1. Queued(Tail(replies)) BY <1>2, <2>1, TailOf
      <3> QED BY <1>3, <2>1, <3>1, QueueIs
    <2>4. ~ReceiveSegment(r) BY <1>1 DEF ReceiveSegment, Unopened
    <2>5. CASE ReceiveSynAck(r)
      <3>1. /\ client'.state = "ESTABLISHED" /\ client'.iss = client.iss
            /\ client'.port = client.port
            /\ requests' = Append(requests, AckFrame(client'))
        BY <2>5 DEF ReceiveSynAck, Shapes, ClientShape, ClientFields
      <3>2. PICK x : x = AckFrame(client') OBVIOUS
      <3>3. Len(requests') = 1 BY <1>4, <2>3, <3>1, <3>2
      <3>4. conn'.state # "CLOSED"
        BY <2>1 DEF Dial, PortClosed, Listening, Greeted
      <3>5. \A k \in 1..(Len(requests') - 1) : Harmless(requests'[k]) BY <3>3
      <3>6. client'.state \notin Unopened BY <3>1 DEF Unopened
      <3> QED BY <2>3, <3>1, <3>4, <3>5, <3>6, OneNext
    <2>6. CASE ReceiveRefusal(r)
      <3>1. /\ client'.state = "REFUSED" /\ client'.iss = client.iss
            /\ client'.port = client.port /\ requests' = requests
        BY <2>6 DEF ReceiveRefusal, Shapes, ClientShape, ClientFields
      <3> QED BY <1>5, <2>3, <3>1 DEF Unopened, p
    <2>7. CASE ReceiveStray(r)
      <3>1. /\ client' = client
            /\ requests' = IF "RST" \in r.tcp.flags THEN requests
                           ELSE Append(requests, RstFrame(client, r))
        BY <2>7 DEF ReceiveStray
      <3>2. Len(requests') = 0 \/ Len(requests') = 1
        BY <1>4, <2>3, <3>1 DEF p
      <3> QED BY <1>1, <1>5, <2>3, <3>1, <3>2
    <2> QED BY <2>1, <2>2, <2>4, <2>5, <2>6, <2>7
  <1> QED BY <1>6, <1>7, <1>8, <1>9, <1>10

\* Once it is open.
LEMMA OneStep ==
    ASSUME Shapes, FaultsInv, NEW t \in Nat, StepAt(t), OneAtATime, link.window = 1,
           SendItem \/ Retransmit \/ ClientReceives \/ StackReceives \/ LoseRequest
    PROVE  OneAtATime'
  <1> PICK s : s = client.sent OBVIOUS
  <1> PICK b : b = Back OBVIOUS
  <1>1. /\ ClientInv(Back) /\ StackInv(t) /\ RepliesInv(t) /\ b \in Nat /\ b <= t /\ t <= s
        /\ s \in Nat /\ s <= LastItem /\ LastItem \in Nat /\ client.port = ListenPort
        /\ Loose(requests, s, t < s) /\ s <= b + 1
        /\ Queued(requests) /\ Queued(replies)
        /\ client.state \in {"ESTABLISHED", "FIN_SENT", "DONE"}
    BY StepIs
  <1>2. client.state \notin Unopened BY <1>1 DEF Unopened
  <1>3. /\ replies # <<>> => requests = <<>> /\ Len(replies) = 1 /\ s = b + 1
        /\ \A k \in 1..(Len(requests) - 1) : Harmless(requests[k])
        /\ conn.state = "CLOSED" => client.state = "DONE"
    BY <1>2 DEF OneAtATime, Unopened
  <1>4. ASSUME client'.iss = client.iss, client'.port = client.port,
               client'.state \notin Unopened,
               replies' # <<>> => requests' = <<>> /\ Len(replies') = 1 /\ client'.sent = Back' + 1,
               \A k \in 1..(Len(requests') - 1) : Harmless(requests'[k]),
               conn'.state = "CLOSED" => client'.state = "DONE"
        PROVE  OneAtATime'
    BY <1>4, OneNext
  <1>5. client.state = "DONE" <=> b = LastItem
    BY <1>1, ClientIs
  <1>6. ASSUME requests # <<>>
        PROVE  \A k \in 1..(Len(Tail(requests)) - 1) : Harmless(Tail(requests)[k])
    <2> DEFINE n == Len(requests)
    <2>1. /\ n \in Nat /\ Len(Tail(requests)) = n - 1
          /\ \A k \in 1..(n - 1) : Tail(requests)[k] = requests[k + 1]
      BY <1>1, <1>6, TailOf
    <2> HIDE DEF n
    <2>2. \A k \in 1..(n - 1 - 1) : k \in 1..(n - 1) /\ k + 1 \in 1..(n - 1) BY <2>1
    <2>3. \A k \in 1..(n - 1) : Harmless(requests[k]) BY <1>3 DEF n
    <2> QED BY <2>1, <2>2, <2>3
  <1>7. CASE SendItem
    <2>1. /\ s = b /\ s < LastItem /\ client'.iss = client.iss /\ client'.port = client.port
          /\ requests' = Append(requests, ItemFrame(client, s + 1))
          /\ conn' = conn /\ replies' = replies
      BY <1>1, <1>7, ItemSent
    <2>2. client.state = "ESTABLISHED" /\ client'.state \in {"ESTABLISHED", "FIN_SENT"}
      BY <1>7 DEF SendItem, Shapes, ClientShape, ClientFields
    <2>3. replies = <<>> BY <1>1, <1>3, <2>1
    <2>4. \A f \in ToSet(requests) : Harmless(f)
      <3>1. ~(t < s) /\ s # LastItem BY <1>1, <2>1
      <3> QED BY <1>1, <3>1 DEF Loose
    <2>5. PICK x : x = ItemFrame(client, s + 1) OBVIOUS
    <2>6. \A k \in 1..(Len(requests') - 1) : Harmless(requests'[k])
      <3> DEFINE n == Len(requests)
      <3>1. /\ n \in Nat /\ Len(requests') = n + 1
            /\ \A k \in 1..n : requests'[k] = requests[k]
        BY <1>1, <2>1, <2>5, AppendOf
      <3>2. \A k \in 1..n : requests[k] \in ToSet(requests) BY <1>1, QueueIs
      <3> HIDE DEF n
      <3>3. Len(requests') - 1 = n BY <3>1
      <3> QED BY <2>4, <3>1, <3>2, <3>3
    <2>7. client'.state \notin Unopened BY <2>2 DEF Unopened
    <2>8. conn'.state # "CLOSED" BY <1>3, <2>1, <2>2
    <2>9. replies' = <<>> BY <2>1, <2>3
    <2> QED BY <1>4, <2>1, <2>6, <2>7, <2>8, <2>9
  <1>8. CASE Retransmit
    <2>1. /\ client' = client /\ replies' = replies /\ replies = <<>> /\ conn' = conn
          /\ \E x : requests' = <<x>>
      BY <1>8 DEF Retransmit, stack_vars
    <2>2. Len(requests') = 1 BY <2>1
    <2>3. \A k \in 1..(Len(requests') - 1) : Harmless(requests'[k]) BY <2>2
    <2> QED BY <1>2, <1>3, <1>4, <2>1, <2>3
  <1>9. CASE LoseRequest
    <2>1. /\ requests # <<>> /\ requests' = Tail(requests) /\ client' = client
          /\ replies' = replies /\ conn' = conn
      BY <1>9 DEF LoseRequest, Happens, stack_vars
    <2> QED BY <1>2, <1>3, <1>4, <1>6, <2>1
  <1>10. CASE ClientReceives
    <2>1. /\ replies # <<>> /\ replies' = Tail(replies) /\ conn' = conn
      BY <1>10 DEF ClientReceives, stack_vars
    <2>2. PICK r : r = Head(replies) OBVIOUS
    <2>3. ReceiveSegment(r)
      BY <1>1, <1>10, <2>2
      DEF ClientReceives, ReceiveSynAck, ReceiveRefusal, ReceiveStray
    <2>4. requests = <<>> /\ requests' = Append(requests, AckFrame(client'))
      BY <1>3, <2>1, <2>3 DEF ReceiveSegment
    <2>5. PICK x : x = AckFrame(client') OBVIOUS
    <2>6. Len(requests') = 1 BY <1>1, <2>4, <2>5, AppendOf
    <2>7. replies' = <<>>
      <3>1. Queued(Tail(replies)) /\ Len(Tail(replies)) = Len(replies) - 1
        BY <1>1, <2>1, TailOf
      <3>2. Len(replies) = 1 BY <1>3, <2>1
      <3>3. Len(Tail(replies)) = 0 BY <3>1, <3>2
      <3> QED BY <2>1, <3>1, <3>3, QueueIs
    <2>8. /\ client'.iss = client.iss /\ client'.port = client.port
          /\ client'.state = client.state \/ client'.state = "DONE"
      BY <2>3 DEF ReceiveSegment, Shapes, ClientShape, ClientFields
    <2>9. client'.state \notin Unopened BY <1>2, <2>8 DEF Unopened
    <2>10. \A k \in 1..(Len(requests') - 1) : Harmless(requests'[k]) BY <2>6
    <2>11. conn'.state = "CLOSED" => client'.state = "DONE" BY <1>3, <2>1, <2>8
    <2> QED BY <1>4, <2>7, <2>8, <2>9, <2>10, <2>11
  <1>11. CASE StackReceives
    <2>1. /\ requests # <<>> /\ requests' = Tail(requests) /\ client' = client
          /\ Stack!HandleFrame(Head(requests), GCS_STACK_FRAME_CAP)
          /\ replies' = IF Answered(tx') THEN Append(replies, tx') ELSE replies
      BY <1>11 DEF StackReceives
    <2>2. Back' = b /\ replies = <<>> BY <1>3, <2>1 DEF Back
    <2>3. t = b
      <3>1. PICK at \in Rows(Len(replies), Back, t) : AnswersTo(replies, at)
        BY <1>1 DEF RepliesInv
      <3>2. Len(replies) = 0 BY <2>2
      <3> QED BY <3>1, <3>2 DEF Rows
    <2>4. PICK f : f = Head(requests) OBVIOUS
    <2>5. CASE Taking(t)
      <3>1. /\ t < s /\ conn'.state # "CLOSED" /\ Answered(tx') BY <2>5 DEF Taking
      <3>2. s = b + 1 BY <1>1, <2>3, <3>1
      <3>3. ~Harmless(f)
        <4> SUFFICES ASSUME Harmless(f) PROVE FALSE OBVIOUS
        <4>1. Unheard BY <1>1, <2>1, <2>4, HarmlessTaken
        <4> QED BY <3>1, <4>1 DEF Unheard
      <3>4. requests' = <<>>
        <4> DEFINE n == Len(requests)
        <4>1. /\ n \in Nat /\ n > 0 /\ f = requests[1] /\ Len(Tail(requests)) = n - 1
              /\ Queued(Tail(requests))
          BY <1>1, <2>1, <2>4, TailOf
        <4>2. 1 \notin 1..(n - 1) BY <1>3, <3>3, <4>1
        <4>3. n - 1 = 0
          <5> HIDE DEF n
          <5> QED BY <4>1, <4>2
        <4> QED BY <2>1, <4>1, <4>3, QueueIs
      <3>5. Len(replies') = 1
        <4>1. PICK x : x = tx' OBVIOUS
        <4>2. replies' = Append(<<>>, x) BY <2>1, <2>2, <3>1, <4>1
        <4> QED BY <4>2
      <3>6. \A k \in 1..(Len(requests') - 1) : Harmless(requests'[k]) BY <3>4
      <3> QED BY <1>2, <1>4, <2>1, <2>2, <3>1, <3>2, <3>4, <3>5, <3>6
    <2>6. CASE Leaving(t)
      <3>1. StackInv(t)' /\ ~Answered(tx') BY <2>6 DEF Leaving, Unheard
      <3>2. replies' = <<>> BY <2>1, <2>2, <3>1
      <3>3. conn'.state = "CLOSED" => client'.state = "DONE"
        <4>1. conn'.state = "CLOSED" => t = LastItem BY <3>1 DEF StackInv
        <4> QED BY <1>5, <2>1, <2>3, <4>1
      <3> QED BY <1>2, <1>4, <1>6, <2>1, <3>2, <3>3
    <2> QED BY <1>11, <2>5, <2>6, LooseHeard
  <1> QED BY <1>7, <1>8, <1>9, <1>10, <1>11

\* And in a step that changes nothing.
LEMMA OneSame ==
    ASSUME OneAtATime, UNCHANGED vars
    PROVE  OneAtATime'
  <1>1. /\ client' = client /\ conn' = conn /\ requests' = requests /\ replies' = replies
    BY DEF vars, stack_vars, queues
  <1>2. Back' = Back BY <1>1 DEF Back
  <1> QED BY <1>1, <1>2, OneNext DEF OneAtATime, Unopened

-----------------------------------------------------------------------------
(***************************************************************************)
(* The invariant holds.                                                    *)
(***************************************************************************)
\* The session starts with empty queues and a stack that listens.
LEMMA SessionStarts == Init => IInv
  <1> SUFFICES ASSUME Init PROVE FaultsInv /\ SessionInv /\ OneAtATime BY DEF IInv
  <1>1. conn = [state |-> "LISTEN", remote_ip |-> ZeroIp, remote_port |-> ZeroPort,
                snd_nxt |-> 0, rcv_nxt |-> 0, bytes_received |-> 0]
    BY DEF Init, Stack!Init
  <1>2. PICK iss \in PeerIsses, port \in DialledPorts : client = NewClient(iss, port)
    BY DEF Init
  <1>3. FaultsInv
    <2>1. /\ link \in Links
          /\ faults = [lost_requests |-> 0, lost_replies |-> 0, doubled |-> 0,
                       repeated |-> 0, swapped |-> 0, restarts |-> 0]
      BY DEF Init
    <2>2. \A fault \in FaultKinds : link[fault] \in Nat
      BY <2>1, SessionAssumption DEF FaultKinds, Link
    <2> QED BY <2>1, <2>2 DEF FaultsInv, FaultKinds
  <1>4. requests = <<>> /\ replies = <<>> BY DEF Init
  <1>5. Shapes
    <2>1. ConnShape BY <1>1 DEF ConnShape, ConnFields
    <2>2. ClientShape BY <1>2 DEF ClientShape, ClientFields, NewClient
    <2>3. Queued(<<>>)
      <3>1. <<>> \in Seq({}) OBVIOUS
      <3> QED BY <3>1 DEF Queued
    <2> QED BY <1>4, <2>1, <2>2, <2>3 DEF Shapes
  <1>6. client.state = "CLOSED" /\ client.sent = 0 /\ client.got = <<>> BY <1>2 DEF NewClient
  <1>7. Dial
    <2>1. Dialling BY <1>6 DEF Dialling
    <2>2. ToSet(requests) = {} /\ ToSet(replies) = {} BY <1>4 DEF ToSet
    <2>3. conn.state = "LISTEN" /\ conn.bytes_received = 0 BY <1>1
    <2> QED BY <1>4, <1>6, <2>1, <2>2, <2>3 DEF Dial, PortClosed, Listening
  <1>8. OneAtATime BY <1>4, <1>6 DEF OneAtATime
  <1> QED BY <1>3, <1>5, <1>7, <1>8 DEF SessionInv

\* One frame at a time, in every step that loses nothing but requests.
LEMMA OneAtATimeStep ==
    ASSUME IInv, [Next]_vars, OnlyLosesRequests'
    PROVE  OneAtATime'
  <1>1. /\ OnlyLosesRequests
        /\ \/ SendSyn \/ SendItem \/ Retransmit \/ ClientReceives \/ StackReceives
           \/ LoseRequest \/ UNCHANGED vars
    BY OnlyRequestsStep DEF IInv
  <1>2. SessionInv /\ OneAtATime /\ ~Astray /\ ~Foreign /\ link.window = 1 /\ FaultsInv
    BY <1>1, OnlyRequestsLost DEF IInv
  <1>3. Shapes /\ (Dial \/ Step) BY <1>2 DEF SessionInv
  <1>4. /\ Dial => client.state \in {"CLOSED", "SYN_SENT", "REFUSED"}
        /\ Step => client.state \in {"ESTABLISHED", "FIN_SENT", "DONE"}
    BY <1>3, PhaseIs
  <1>5. CASE UNCHANGED vars BY <1>2, <1>5, OneSame
  <1>6. CASE Dial /\ ~UNCHANGED vars
    <2>1. ~SendItem BY <1>4, <1>6 DEF SendItem
    <2> QED BY <1>1, <1>2, <1>3, <1>6, <2>1, OneDial
  <1>7. CASE Step /\ ~UNCHANGED vars
    <2>1. PICK t \in Nat : StepAt(t) BY <1>7 DEF Step
    <2>2. ~SendSyn BY <1>4, <1>7 DEF SendSyn
    <2> QED BY <1>1, <1>2, <1>3, <1>7, <2>1, <2>2, OneStep
  <1> QED BY <1>3, <1>5, <1>6, <1>7

\* Every step keeps the invariant.
LEMMA Inductive == IInv /\ [Next]_vars => IInv'
  <1> SUFFICES ASSUME IInv, [Next]_vars PROVE IInv' OBVIOUS
  <1>1. FaultsInv' /\ (Calm' => Calm) BY FaultsStep DEF IInv
  <1>2. ASSUME Calm' PROVE SessionInv'
    BY <1>1, <1>2, SessionStep DEF IInv
  <1>3. ASSUME OnlyLosesRequests' PROVE OneAtATime' BY <1>3, OneAtATimeStep
  <1> QED BY <1>1, <1>2, <1>3 DEF IInv

\* IInv is an invariant of sessions over any links.
LEMMA Invariant == Spec => []IInv
  BY SessionStarts, Inductive, PTL DEF Spec

-----------------------------------------------------------------------------
(***************************************************************************)
(* What both ends count.                                                   *)
(***************************************************************************)
\* The bytes of the chunks grow with the things.
LEMMA ChunksInGrow ==
    ASSUME NEW j \in Nat, NEW k \in Nat, j <= k, k <= LastItem
    PROVE  /\ ChunksIn(j) \in Nat /\ ChunksIn(j) <= j /\ ChunksIn(j) <= LastItem - 1
           /\ Bytes(ChunksIn(j)) \in Nat /\ Bytes(ChunksIn(k)) \in Nat
           /\ Bytes(ChunksIn(j)) <= Bytes(ChunksIn(k))
  <1> DEFINE p == ChunksIn(j)
             q == ChunksIn(k)
  <1>1. LastItem \in Nat /\ LastItem >= 1 /\ j <= LastItem BY Sizes
  <1>2. /\ p \in Nat /\ p <= j /\ p <= LastItem - 1 /\ Bytes(p) \in Nat
        /\ q \in Nat /\ q <= LastItem /\ Bytes(q) \in Nat
    BY <1>1, BytesCounted
  <1>3. p <= q BY <1>1 DEF ChunksIn
  <1> HIDE DEF p, q
  <1>4. Bytes(p) <= Bytes(q) BY <1>2, <1>3, BytesGrow
  <1> QED BY <1>2, <1>4 DEF p, q

\* The chunks sent are those among the things sent.
LEMMA DataSentIs ==
    ASSUME client.sent \in Nat, client.sent <= LastItem
    PROVE  DataSent = ChunksIn(client.sent)
  <1> DEFINE s == client.sent
             m == Len(Chunks)
  <1>1. /\ m \in Nat /\ LastItem = m + 1 /\ s \in Nat /\ s <= LastItem
        /\ DataSent = IF s <= m THEN s ELSE m
    BY Sizes DEF DataSent
  <1> HIDE DEF s, m
  <1> QED BY <1>1 DEF ChunksIn, s

\* Nothing is sent before the session is open.
LEMMA DialCounts ==
    ASSUME Dial
    PROVE  /\ DataSent = 0 /\ conn.bytes_received \in Nat
           /\ ~Foreign => conn.bytes_received = 0 /\ conn.state # "CLOSED"
  <1>1. client.sent = 0 BY DEF Dial, Dialling
  <1>2. DataSent = 0 BY <1>1, Sizes DEF DataSent
  <1> QED BY <1>2 DEF Dial, PortClosed, Listening, Greeted, Foreign

\* FinAckIsReal: ClosedMeansFinAcked, for any chunks and initial numbers. With one segment
\* on its way and requests lost, but no answer, no frame doubled, overtaken or sent too
\* early and no restart, LAST_ACK is left for the ACK of the stack's FIN and for no other.
THEOREM FinAckIsReal == Spec => []ClosedMeansFinAcked
  <1>1. IInv => ClosedMeansFinAcked
    <2> SUFFICES ASSUME IInv, conn.state = "CLOSED", OnlyLosesRequests
                 PROVE  client.state = "DONE"
      BY DEF ClosedMeansFinAcked, OnlyLosesRequests
    <2>1. SessionInv /\ OneAtATime /\ ~Astray /\ ~Foreign BY OnlyRequestsLost
    <2>2. Shapes /\ Step BY <2>1, DialCounts DEF SessionInv
    <2>3. client.state \in {"ESTABLISHED", "FIN_SENT", "DONE"} BY <2>2, PhaseIs
    <2> QED BY <2>1, <2>3 DEF OneAtATime
  <1> QED BY <1>1, Invariant, PTL

-----------------------------------------------------------------------------
(***************************************************************************)
(* Links over which an answer not lost is the only one.                    *)
(***************************************************************************)
\* One segment on its way, whatever else happens, or any number of them where no request
\* is lost or overtaken; and no data doubled or sent again too early.
SteadyLinks ==
    \A l \in Links :
      /\ l.repeated = 0
      /\ l.window = 1 \/ (l.lost_requests = 0 /\ l.swapped = 0)

\* Over such links both ends agree, or the session is not open yet.
LEMMA SteadyIs ==
    ASSUME IInv, SteadyLinks, Without({"lost_replies", "restarts"})
    PROVE  Shapes /\ (Dial \/ Step) /\ ~Foreign /\ faults.repeated = 0
  <1>0. faults["repeated"] = 0
    <2>1. link["repeated"] = 0 BY DEF SteadyLinks, IInv, FaultsInv
    <2>2. faults["repeated"] \in Nat /\ faults["repeated"] <= 0
      BY <2>1 DEF IInv, FaultsInv, FaultKinds
    <2> QED BY <2>2
  <1>1. faults["lost_replies"] = 0 /\ faults["restarts"] = 0 BY DEF Without
  <1>2. ~Astray BY <1>1 DEF Astray, AstrayAt
  <1>3. ~Foreign BY <1>1 DEF Foreign
  <1>4. CASE link.window = 1
    <2>1. Widest * 0 = 0 /\ Bytes(LastItem) + 0 < SeqSpace
      <3>1. Widest \in Nat /\ Bytes(LastItem) \in Nat /\ Bytes(LastItem) < SeqSpace
        BY WidestIs, BytesGrow, Sizes
      <3> QED BY <3>1
    <2>2. Patient BY <1>1, <1>4, <2>1 DEF Patient
    <2>3. SessionInv BY <1>0, <1>1, <2>2 DEF IInv, Calm
    <2> QED BY <1>0, <1>2, <1>3, <2>3 DEF SessionInv
  <1>5. CASE link.window # 1
    <2>1. link["lost_requests"] = 0 /\ link["swapped"] = 0
      BY <1>5 DEF SteadyLinks, IInv, FaultsInv
    <2>2. /\ faults["lost_requests"] \in Nat /\ faults["lost_requests"] <= 0
          /\ faults["swapped"] \in Nat /\ faults["swapped"] <= 0
      BY <2>1 DEF IInv, FaultsInv, FaultKinds
    <2>3. faults["lost_requests"] = 0 /\ faults["swapped"] = 0 BY <2>2
    <2>4. SessionInv BY <1>0, <1>1, <2>3 DEF IInv, Calm, Orderly, Without
    <2> QED BY <1>0, <1>2, <1>3, <2>4 DEF SessionInv
  <1> QED BY <1>4, <1>5

\* EchoedOnce, for any chunks and initial numbers, where no data is doubled or sent again
\* too early, and any number of requests lost, of other frames doubled and, with one segment
\* on its way, of frames swapped: what the client repeats because it was lost is what the
\* stack, which looks at no sequence number, never saw.
THEOREM NothingTakenTwice == SteadyLinks => (Spec => []EchoedOnce)
  <1> SUFFICES ASSUME SteadyLinks PROVE Spec => []EchoedOnce OBVIOUS
  <1>1. IInv => EchoedOnce
    <2> SUFFICES ASSUME IInv, Without({"lost_replies", "restarts"})
                 PROVE  /\ Bytes(DataSent) \in Nat
                        /\ conn.bytes_received <= Bytes(DataSent)
      <3>1. Widest * 0 = 0
        <4>1. Widest \in Nat BY WidestIs
        <4> QED BY <4>1
      <3>2. ASSUME NEW n \in Nat PROVE n + 0 = n OBVIOUS
      <3> QED BY <3>1, <3>2, SteadyIs DEF EchoedOnce
    <2>1. Shapes /\ (Dial \/ Step) /\ ~Foreign BY SteadyIs
    <2>2. CASE Dial
      <3>1. DataSent = 0 /\ conn.bytes_received = 0 BY <2>1, <2>2, DialCounts
      <3> QED BY <3>1, BytesNext
    <2>3. CASE Step
      <3>1. PICK t \in Nat : StepAt(t) BY <2>3 DEF Step
      <3>2. /\ t <= client.sent /\ client.sent \in Nat /\ client.sent <= LastItem
            /\ StackInv(t)
        BY <2>1, <3>1, StepIs
      <3>3. /\ Bytes(ChunksIn(client.sent)) \in Nat
            /\ Bytes(ChunksIn(t)) <= Bytes(ChunksIn(client.sent))
        BY <3>2, ChunksInGrow
      <3> QED BY <3>2, <3>3, DataSentIs DEF StackInv
    <2> QED BY <2>1, <2>2, <2>3
  <1> QED BY <1>1, Invariant, PTL

\* InStep, for any chunks and initial numbers, where no data is doubled or sent again too
\* early: when nothing is on its way and the client has all its acknowledgements, both ends
\* agree and all data is back, however many requests were lost and frames swapped before.
THEOREM BothEndsAgree == SteadyLinks => (Spec => []InStep)
  <1> SUFFICES ASSUME SteadyLinks PROVE Spec => []InStep OBVIOUS
  <1>1. IInv => InStep
    <2> SUFFICES ASSUME IInv, requests = <<>>, replies = <<>>,
                        Without({"lost_replies", "restarts"}),
                        client.state \in {"ESTABLISHED", "FIN_SENT", "DONE"},
                        Unacked(client) = {}
                 PROVE  /\ conn.rcv_nxt = client.snd_nxt /\ Stack!NextSeq = client.rcv_nxt
                        /\ Len(client.got) \in DataSent..(DataSent + faults.repeated)
      BY DEF InStep
    <2>1. Shapes /\ (Dial \/ Step) BY SteadyIs
    <2>2. PICK t \in Nat : StepAt(t) BY <2>1, PhaseIs DEF Step
    <2> PICK b : b = Back OBVIOUS
    <2> PICK s : s = client.sent OBVIOUS
    <2>3. /\ ClientInv(Back) /\ StackInv(t) /\ RepliesInv(t) /\ b \in Nat /\ b <= t /\ t <= s
          /\ s \in Nat /\ s <= LastItem /\ LastItem \in Nat /\ LastItem >= 1 /\ ClientShape
      BY <2>1, <2>2, StepIs
    <2>4. /\ Len(client.got) \in Nat /\ Unacked(client) = (b + 1)..s
          /\ b = LastItem => Len(client.got) = LastItem - 1
          /\ b < LastItem => b = Len(client.got)
      BY <2>1, <2>3, ClientIs
    <2>5. t = b
      <3>1. PICK at \in Rows(Len(replies), Back, t) : AnswersTo(replies, at)
        BY <2>3 DEF RepliesInv
      <3>2. Len(replies) = 0 OBVIOUS
      <3> QED BY <3>1, <3>2 DEF Rows
    <2>6. s = b
      <3>1. b + 1 \notin (b + 1)..s BY <2>4
      <3> QED BY <2>3, <2>5, <3>1
    <2>7. /\ conn.rcv_nxt = ClientSeq(b) /\ conn.snd_nxt = StackSeq(ChunksIn(b))
          /\ conn.state \in IF b = LastItem THEN {"LAST_ACK", "CLOSED"}
                            ELSE {"SYN_RECEIVED", "ESTABLISHED"}
          /\ client.snd_nxt = ClientSeq(b) /\ client.rcv_nxt = StackSeq(b)
      BY <2>3, <2>5, <2>6 DEF StackInv, ClientInv
    <2>8. DataSent = ChunksIn(b) BY <2>3, <2>6, DataSentIs
    <2>9. Stack!NextSeq = StackSeq(b)
      <3>1. CASE b = LastItem
        <4>1. PICK k \in Nat : k + 1 = b /\ k < LastItem
          <5>1. LastItem - 1 \in Nat /\ LastItem - 1 + 1 = b /\ LastItem - 1 < LastItem
            BY <2>3, <3>1
          <5> QED BY <5>1
        <4>2. ChunksIn(b) = k BY <2>3, <3>1, <4>1 DEF ChunksIn
        <4>3. Width(k + 1) = 1
          <5>1. ~(b <= Len(Chunks)) BY <3>1, Sizes
          <5> QED BY <4>1, <5>1 DEF Width
        <4>4. ToSeq(StackSeq(k) + Width(k + 1)) = StackSeq(k + 1) BY <2>3, <4>1, Numbers
        <4>5. Stack!NextSeq = ToSeq(conn.snd_nxt + 1)
          BY <2>7, <3>1, SameFrames DEF Stack!NextSeq
        <4> QED BY <2>7, <4>1, <4>2, <4>3, <4>4, <4>5
      <3>2. CASE b # LastItem
        <4>1. ChunksIn(b) = b BY <2>3, <2>6, <3>2 DEF ChunksIn
        <4> QED BY <2>7, <3>2, <4>1 DEF Stack!NextSeq
      <3> QED BY <3>1, <3>2
    <2>10. Len(client.got) = ChunksIn(b)
      <3>1. CASE b = LastItem BY <2>3, <2>4, <3>1 DEF ChunksIn
      <3>2. CASE b # LastItem BY <2>3, <2>4, <2>6, <3>2 DEF ChunksIn
      <3> QED BY <3>1, <3>2
    <2>11. Len(client.got) \in DataSent..(DataSent + faults.repeated)
      <3>1. Len(client.got) \in Nat /\ Len(client.got) = DataSent BY <2>4, <2>8, <2>10
      <3>2. faults.repeated = 0 BY SteadyIs
      <3> QED BY <3>1, <3>2
    <2> QED BY <2>6, <2>7, <2>9, <2>11
  <1> QED BY <1>1, Invariant, PTL

-----------------------------------------------------------------------------
(***************************************************************************)
(* Links on which the client's repetitions do not carry the stack's        *)
(* numbers once around.                                                    *)
(***************************************************************************)
\* One segment on its way and so few answers lost that the sequence space has room for
\* what is sent again; or any number of segments on a link that loses and swaps nothing.
\* The client starts anew once at most, and no data is doubled or sent again too early.
TameLinks ==
    \A l \in Links :
      /\ l.restarts <= 1 /\ l.repeated = 0
      /\ \/ l.window = 1 /\ Bytes(LastItem) + Widest * l.lost_replies < SeqSpace
         \/ l.lost_requests = 0 /\ l.lost_replies = 0 /\ l.swapped = 0

\* More repetitions take no less of the sequence space.
LEMMA WidestGrows ==
    ASSUME NEW m \in Nat, NEW n \in Nat, m <= n
    PROVE  Widest * m \in Nat /\ Widest * n \in Nat /\ Widest * m <= Widest * n
  <1>1. PICK w \in Nat : w = Widest BY WidestIs
  <1>2. PICK d \in Nat : n = m + d
    <2>1. n - m \in Nat /\ n = m + (n - m) OBVIOUS
    <2> QED BY <2>1
  <1>3. w * m \in Nat /\ w * d \in Nat OBVIOUS
  <1>4. w * (m + d) = w * m + w * d OBVIOUS
  <1> QED BY <1>1, <1>2, <1>3, <1>4

\* A session over such links is calm for good.
LEMMA TameIs ==
    ASSUME IInv, TameLinks
    PROVE  Calm
  <1>1. /\ link \in Links /\ \A fault \in FaultKinds : /\ faults[fault] \in Nat
                                                       /\ link[fault] \in Nat
                                                       /\ faults[fault] <= link[fault]
    <2>1. link \in Links BY DEF IInv, FaultsInv
    <2>2. \A fault \in FaultKinds : link[fault] \in Nat
      BY <2>1, SessionAssumption DEF FaultKinds, Link
    <2> QED BY <2>1, <2>2 DEF IInv, FaultsInv
  <1> DEFINE lost == faults["lost_replies"]
             most == link["lost_replies"]
  <1>2. /\ lost \in Nat /\ most \in Nat /\ lost <= most
        /\ faults["restarts"] \in Nat /\ faults["restarts"] <= link["restarts"]
        /\ link["restarts"] \in Nat /\ link["restarts"] <= 1
        /\ faults["repeated"] \in Nat /\ faults["repeated"] <= link["repeated"]
        /\ link["repeated"] = 0
    BY <1>1 DEF FaultKinds, TameLinks
  <1>3. faults.restarts <= 1 /\ faults.repeated = 0 BY <1>2
  <1>4. CASE link.window = 1 /\ Bytes(LastItem) + Widest * link.lost_replies < SeqSpace
    <2> HIDE DEF lost, most
    <2>1. Widest * lost \in Nat /\ Widest * most \in Nat /\ Widest * lost <= Widest * most
      BY <1>2, WidestGrows
    <2>2. Bytes(LastItem) \in Nat /\ SeqSpace \in Nat BY BytesGrow, Sizes
    <2>3. Bytes(LastItem) + Widest * most < SeqSpace BY <1>4 DEF most
    <2> DEFINE x == Widest * lost
               y == Widest * most
    <2>4. x \in Nat /\ y \in Nat /\ x <= y /\ Bytes(LastItem) + y < SeqSpace BY <2>1, <2>3
    <2> HIDE DEF x, y
    <2>5. Bytes(LastItem) + x < SeqSpace BY <2>2, <2>4
    <2>6. Patient BY <1>4, <2>5 DEF Patient, x, lost
    <2> QED BY <1>3, <2>6 DEF Calm
  <1>5. CASE link.lost_requests = 0 /\ link.lost_replies = 0 /\ link.swapped = 0
    <2>1. /\ faults["lost_requests"] = 0 /\ faults["lost_replies"] = 0
          /\ faults["swapped"] = 0
      BY <1>1, <1>5 DEF FaultKinds
    <2>2. Orderly BY <2>1 DEF Orderly, Without
    <2> QED BY <1>3, <2>2 DEF Calm
  <1> QED BY <1>1, <1>4, <1>5 DEF TameLinks

\* What the client knows to have arrived has.
LEMMA AckedCounts ==
    ASSUME NEW a \in Nat, NEW g \in Nat, a <= g, g <= client.sent, client.sent \in Nat,
           client.sent <= LastItem, Unacked(client) = (a + 1)..client.sent,
           NEW k \in 0..DataSent, (1..k) \cap Unacked(client) = {}
    PROVE  Bytes(k) <= Bytes(ChunksIn(g))
  <1> PICK s : s = client.sent OBVIOUS
  <1>1. /\ s \in Nat /\ s <= LastItem /\ a <= g /\ g <= s /\ LastItem \in Nat
        /\ DataSent = ChunksIn(s)
    BY DataSentIs, Sizes
  <1>2. ChunksIn(s) \in Nat /\ ChunksIn(s) <= s /\ ChunksIn(s) <= LastItem - 1
    BY <1>1, ChunksInGrow
  <1>3. k \in Nat /\ k <= s /\ k <= LastItem - 1 BY <1>1, <1>2
  <1>4. k <= a
    <2> SUFFICES ASSUME a < k PROVE FALSE BY <1>3
    <2>1. k \in 1..k /\ k \in (a + 1)..s BY <1>1, <1>3
    <2> QED BY <2>1
  <1>5. k <= g /\ g <= LastItem BY <1>1, <1>3, <1>4
  <1>6. ChunksIn(k) = k BY <1>1, <1>3 DEF ChunksIn
  <1>7. Bytes(ChunksIn(k)) <= Bytes(ChunksIn(g)) BY <1>3, <1>5, ChunksInGrow
  <1> QED BY <1>6, <1>7

\* AckedWasReceived, for any chunks and initial numbers, after frames lost both ways or
\* swapped, frames without data and answers doubled, and a restart: no chunk is
\* acknowledged that the stack dropped on the way to ESTABLISHED or never saw.
THEOREM AckedIsTaken == TameLinks => (Spec => []AckedWasReceived)
  <1> SUFFICES ASSUME TameLinks PROVE Spec => []AckedWasReceived OBVIOUS
  <1>1. IInv => AckedWasReceived
    <2> SUFFICES ASSUME IInv, NEW k \in 0..DataSent, (1..k) \cap Unacked(client) = {}
                 PROVE  Bytes(k) <= conn.bytes_received
      BY DEF AckedWasReceived
    <2>1. Shapes /\ (Dial \/ Step \/ Astray) BY TameIs DEF IInv, SessionInv
    <2>2. CASE Dial
      <3>1. DataSent = 0 /\ conn.bytes_received \in Nat BY <2>2, DialCounts
      <3>2. k = 0 BY <3>1
      <3> QED BY <3>1, <3>2, BytesNext
    <2>3. CASE Step
      <3>1. PICK t \in Nat : StepAt(t) BY <2>3 DEF Step
      <3>2. PICK b \in Nat : b = Back /\ b <= t /\ ClientInv(b)
        BY <2>1, <3>1, StepIs
      <3>3. /\ t <= client.sent /\ client.sent \in Nat /\ client.sent <= LastItem
            /\ StackInv(t)
        BY <2>1, <3>1, StepIs
      <3>4. Unacked(client) = (b + 1)..client.sent BY <2>1, <3>2, ClientIs
      <3>5. Bytes(k) <= Bytes(ChunksIn(t)) BY <3>2, <3>3, <3>4, AckedCounts
      <3> QED BY <3>3, <3>5 DEF StackInv
    <2>4. CASE Astray
      <3>1. PICK a \in Nat, g \in Nat : AstrayAt(a, g) BY <2>4 DEF Astray
      <3>2. /\ ClientInv(a) /\ StackAhead(g) /\ a <= g /\ g <= client.sent
            /\ client.sent \in Nat /\ client.sent <= LastItem
        BY <2>1, <3>1, AstrayIs
      <3>3. Unacked(client) = (a + 1)..client.sent BY <2>1, <3>2, ClientIs
      <3>4. Bytes(k) <= Bytes(ChunksIn(g)) BY <3>2, <3>3, AckedCounts
      <3>5. /\ k \in Nat /\ k <= LastItem - 1 /\ g <= LastItem /\ LastItem \in Nat
        <4>1. DataSent = ChunksIn(client.sent) BY <3>2, DataSentIs
        <4>2. ChunksIn(client.sent) \in Nat /\ ChunksIn(client.sent) <= LastItem - 1
          BY <3>2, ChunksInGrow
        <4> QED BY <3>2, <4>1, <4>2, Sizes
      <3>6. Bytes(k) \in Nat /\ Bytes(ChunksIn(g)) \in Nat
        BY <3>5, BytesGrow, BytesCounted
      <3>7. /\ conn.bytes_received \in Nat /\ Bytes(ChunksIn(g)) <= conn.bytes_received
        BY <3>2 DEF StackAhead
      <3> QED BY <3>4, <3>6, <3>7
    <2> QED BY <2>1, <2>2, <2>3, <2>4
  <1> QED BY <1>1, Invariant, PTL

\* ClosedAfterAll, for any chunks and initial numbers and the same links without a restart:
\* however early a doubled or overtaken ACK closes the connection, the stack has by then
\* taken all the client had to send, and the FIN after it.
THEOREM ClosesAfterAll == TameLinks => (Spec => []ClosedAfterAll)
  <1> SUFFICES ASSUME TameLinks PROVE Spec => []ClosedAfterAll OBVIOUS
  <1>1. IInv => ClosedAfterAll
    <2> SUFFICES ASSUME IInv, conn.state \in {"LAST_ACK", "CLOSED"}, faults["restarts"] = 0
                 PROVE  /\ client.sent = LastItem
                        /\ Bytes(Len(Chunks)) <= conn.bytes_received
      BY DEF ClosedAfterAll, Without, LastItem
    <2>1. Shapes /\ (Dial \/ Step \/ Astray) BY TameIs DEF IInv, SessionInv
    <2>2. ~Dial BY DEF Dial, PortClosed, Listening, Greeted, Foreign
    <2>3. LastItem \in Nat /\ LastItem >= 1 /\ Len(Chunks) = LastItem - 1 BY Sizes DEF LastItem
    <2>4. ChunksIn(LastItem) = Len(Chunks) BY <2>3 DEF ChunksIn
    <2>5. Bytes(Len(Chunks)) \in Nat BY <2>3, <2>4, BytesCounted
    <2>6. CASE Step
      <3>1. PICK t \in Nat : StepAt(t) BY <2>6 DEF Step
      <3>2. /\ t <= client.sent /\ client.sent \in Nat /\ client.sent <= LastItem
            /\ StackInv(t)
        BY <2>1, <3>1, StepIs
      <3>3. t = LastItem BY <3>2 DEF StackInv
      <3>4. conn.bytes_received = Bytes(Len(Chunks)) BY <2>4, <3>2, <3>3 DEF StackInv
      <3> QED BY <2>3, <2>5, <3>2, <3>3, <3>4
    <2>7. CASE Astray
      <3>1. PICK a \in Nat, g \in Nat : AstrayAt(a, g) BY <2>7 DEF Astray
      <3>2. /\ StackAhead(g) /\ g <= client.sent /\ client.sent \in Nat
            /\ client.sent <= LastItem
        BY <2>1, <3>1, AstrayIs
      <3>3. g = LastItem BY <3>2 DEF StackAhead
      <3> QED BY <2>3, <2>4, <3>2, <3>3 DEF StackAhead
    <2> QED BY <2>1, <2>2, <2>6, <2>7
  <1> QED BY <1>1, Invariant, PTL

-----------------------------------------------------------------------------
(***************************************************************************)
(* The echo service: what the client wrote, and what has come back.        *)
(***************************************************************************)
\* The service where it is promised.
Kept == INSTANCE EchoService
          WITH Payloads <- Data,
               written <- SubSeq(Chunks, 1, DataSent),
               echoed <- client.got, closed <- client.state = "DONE"

\* The service's variables follow from three fields of the client.
LEMMA SameService ==
    ASSUME client'.sent = client.sent, client'.got = client.got,
           (client'.state = "DONE") = (client.state = "DONE")
    PROVE  UNCHANGED Kept!vars
  BY DEF Kept!vars, DataSent

\* Sending a chunk is a Write; the FIN is the service's own business.
LEMMA ItemWrites ==
    ASSUME Shapes, NEW a \in Nat, ClientInv(a), SendItem
    PROVE  Kept!Write \/ UNCHANGED Kept!vars
  <1> DEFINE n == client.sent
             m == Len(Chunks)
  <1>1. /\ n \in Nat /\ n < LastItem /\ client'.sent = n + 1 BY ItemSent
  <1>2. /\ client'.got = client.got /\ client.state = "ESTABLISHED"
        /\ client'.state \in {"ESTABLISHED", "FIN_SENT"}
    BY DEF SendItem, Shapes, ClientShape, ClientFields
  <1>3. m \in Nat /\ LastItem = m + 1 BY Sizes
  <1>4. /\ DataSent = IF n <= m THEN n ELSE m
        /\ DataSent' = IF n + 1 <= m THEN n + 1 ELSE m
    BY <1>1 DEF DataSent
  <1> HIDE DEF n, m
  <1>5. DataSent = n BY <1>1, <1>3, <1>4
  <1>6. CASE n + 1 <= m
    <2>1. DataSent' = n + 1 BY <1>4, <1>6
    <2>2. n \in 0..(m - 1) /\ n + 1 \in 1..m BY <1>1, <1>3, <1>6
    <2>3. SubSeq(Chunks, 1, n + 1) = Append(SubSeq(Chunks, 1, n), Chunks[n + 1])
      BY <2>2, ChunksGrow DEF m
    <2>4. Chunks[n + 1] \in Data BY <2>2, SessionAssumption, ElementOfSeq DEF m
    <2> QED BY <1>2, <1>5, <2>1, <2>3, <2>4 DEF Kept!Write
  <1>7. CASE ~(n + 1 <= m)
    <2>1. DataSent' = DataSent BY <1>1, <1>3, <1>4, <1>5, <1>7
    <2> QED BY <1>2, <2>1 DEF Kept!vars
  <1> QED BY <1>6, <1>7

\* What comes back next is an Echo, and the answer to the FIN the Close.
LEMMA BackEchoes ==
    ASSUME Shapes, ClientInv(Back), BackOne, client'.sent = client.sent
    PROVE  Kept!Echo \/ Kept!Close
  <1> DEFINE n == Back
             m == Len(Chunks)
             s == client.sent
  <1>1. /\ n \in Nat /\ n < LastItem /\ n = Len(client.got) /\ client.state # "DONE"
        /\ n < s
        /\ IF n + 1 = LastItem THEN client'.got = client.got /\ client'.state = "DONE"
           ELSE client'.got = Append(client.got, Chunks[n + 1]) /\ client'.state = client.state
    BY DEF BackOne
  <1>2. m \in Nat /\ LastItem = m + 1 BY Sizes
  <1>3. s \in Nat /\ s <= LastItem BY <1>1, ClientIs
  <1>4. /\ client.got = SubSeq(Chunks, 1, n) /\ DataSent' = DataSent
        /\ DataSent = IF s <= m THEN s ELSE m
    BY <1>1 DEF ClientInv, DataSent
  <1> HIDE DEF n, m, s
  <1>5. CASE n + 1 = LastItem
    <2>1. DataSent = n BY <1>1, <1>2, <1>3, <1>4, <1>5
    <2> QED BY <1>1, <1>4, <1>5, <2>1 DEF Kept!Close
  <1>6. CASE n + 1 # LastItem
    <2> PICK d : d = DataSent OBVIOUS
    <2>1. d \in Nat /\ n + 1 <= d /\ d <= m BY <1>1, <1>2, <1>3, <1>4, <1>6
    <2> DEFINE w == SubSeq(Chunks, 1, DataSent)
    <2>2. Len(w) = d /\ w[n + 1] = Chunks[n + 1]
      <3>1. d \in 0..Len(Chunks) BY <1>2, <2>1 DEF m
      <3>2. Len(SubSeq(Chunks, 1, d)) = d BY <3>1, ChunksGrow
      <3>3. n + 1 \in 1..d BY <1>1, <2>1
      <3>4. SubSeq(Chunks, 1, d)[n + 1] = Chunks[n + 1] BY <1>1, <2>1, <3>3
      <3> QED BY <3>2, <3>4
    <2>3. Len(client.got) < Len(w) /\ w' = w
      <3>1. n < d BY <1>1, <2>1
      <3> QED BY <1>1, <1>4, <2>2, <3>1
    <2> QED BY <1>1, <1>6, <2>2, <2>3 DEF Kept!Echo
  <1> QED BY <1>5, <1>6

\* A client that crashes has written nothing and gets nothing of its predecessor's.
LEMMA RestartIsNew ==
    ASSUME Restart
    PROVE  Kept!StartAnew
  <1>1. client'.state = "CLOSED" /\ client'.sent = 0 /\ client'.got = <<>>
    BY DEF Restart, NewClient
  <1>2. DataSent' = 0 BY <1>1, Sizes DEF DataSent
  <1>3. SubSeq(Chunks, 1, DataSent') = <<>> BY <1>2, SubSeqEmpty
  <1> QED BY <1>1, <1>3 DEF Kept!StartAnew

\* What the client receives is an Echo, the Close or none of both.
LEMMA AnswerEchoes ==
    ASSUME FaultsInv, SessionInv, ClientReceives
    PROVE  Kept!Echo \/ Kept!Close \/ UNCHANGED Kept!vars
  <1>1. Shapes /\ (Dial \/ Step \/ Astray) BY DEF SessionInv
  <1>2. CASE Dial BY <1>1, <1>2, DialAnswered, SameService
  <1>3. CASE Step
    <2>1. PICK t \in Nat : StepAt(t) BY <1>3 DEF Step
    <2>2. ClientInv(Back) BY <1>1, <2>1, StepIs
    <2>3. /\ client'.sent = client.sent
          /\ BackOne \/ (client'.got = client.got /\ client'.state = client.state)
      BY <1>1, <2>1, StepAnswered
    <2> QED BY <1>1, <2>2, <2>3, BackEchoes, SameService
  <1>4. CASE Astray
    <2>1. PICK a \in Nat, g \in Nat : AstrayAt(a, g) BY <1>4 DEF Astray
    <2>2. /\ client'.sent = client.sent
          /\ client'.got = client.got /\ client'.state = client.state
      BY <1>1, <2>1, AstrayAnswered
    <2> QED BY <2>2, SameService
  <1> QED BY <1>1, <1>2, <1>3, <1>4

\* ImplementsEcho, for any chunks and initial numbers, after frames lost both ways or swapped,
\* frames without data and answers doubled, and a restart, where no data is doubled or sent
\* again too early: the session is an echo of a stream, and ends only after all has come back.
THEOREM SessionEchoes == TameLinks => (Spec => ImplementsEcho)
  <1> SUFFICES ASSUME TameLinks PROVE Spec => ImplementsEcho OBVIOUS
  <1>1. Init => Service!Init
    <2> SUFFICES ASSUME Init PROVE Service!Init OBVIOUS
    <2>1. client.state = "CLOSED" /\ client.sent = 0 /\ client.got = <<>>
      BY DEF Init, NewClient
    <2>2. DataSent = 0 BY <2>1, Sizes DEF DataSent
    <2>3. SubSeq(Chunks, 1, DataSent) = <<>> BY <2>2, SubSeqEmpty
    <2> QED BY <2>1, <2>3 DEF Service!Init
  <1>2. IInv => FaultsInv /\ SessionInv /\ Promised
    BY TameIs DEF IInv, FaultsInv, TameLinks, Promised
  <1>3. FaultsInv /\ SessionInv /\ [Next]_vars => [Kept!Next]_(Kept!vars)
    <2> SUFFICES ASSUME FaultsInv, SessionInv, [Next]_vars
                 PROVE  Kept!Next \/ UNCHANGED Kept!vars
      OBVIOUS
    <2>1. Shapes /\ (Dial \/ Step \/ Astray) BY DEF SessionInv
    <2>2. CASE SendSyn
      <3>1. /\ client.state = "CLOSED" /\ client'.state = "SYN_SENT"
            /\ client'.sent = client.sent /\ client'.got = client.got
        BY <2>1, <2>2 DEF SendSyn, Shapes, ClientShape, ClientFields
      <3> QED BY <3>1, SameService
    <2>3. CASE SendItem
      <3>1. ~Dial BY <2>1, <2>3, PhaseIs DEF SendItem
      <3>2. \E a \in Nat : ClientInv(a)
        <4>1. CASE Step BY <2>1, <4>1, StepIs DEF Step
        <4>2. CASE Astray BY <2>1, <4>2, AstrayIs DEF Astray
        <4> QED BY <2>1, <3>1, <4>1, <4>2
      <3> QED BY <2>1, <2>3, <3>2, ItemWrites DEF Kept!Next
    <2>4. CASE ClientReceives BY <2>4, AnswerEchoes DEF Kept!Next
    <2>5. CASE Restart BY <2>5, RestartIsNew DEF Kept!Next
    <2>6. CASE UNCHANGED client BY <2>6, SameService
    <2> QED
      BY <2>2, <2>3, <2>4, <2>5, <2>6
      DEF Next, Retransmit, StackReceives, LoseRequest, LoseReply, DoubleRequest,
          DoubleReply, SwapRequests, RetransmitEarly, Finished, vars
  <1>4. Promised /\ Promised' /\ [Kept!Next]_(Kept!vars) => [Service!Next]_(Service!vars)
    <2> SUFFICES ASSUME Promised, Promised', Kept!Next \/ UNCHANGED Kept!vars
                 PROVE  Service!Next \/ UNCHANGED Service!vars
      OBVIOUS
    <2> DEFINE w == SubSeq(Chunks, 1, DataSent)
    <2> HIDE DEF w
    <2> QED
      BY DEF w, Service!Next, Service!vars, Service!Write, Service!Echo, Service!Close,
             Service!StartAnew, Kept!Next, Kept!vars, Kept!Write, Kept!Echo, Kept!Close,
             Kept!StartAnew
  <1>5. Service!Init /\ [][Service!Next]_(Service!vars) => ImplementsEcho
    BY DEF ImplementsEcho, Service!Spec
  <1> QED BY <1>1, <1>2, <1>3, <1>4, <1>5, Invariant, PTL DEF Spec
===============================================================================
