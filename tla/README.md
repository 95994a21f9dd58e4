# Verification of gcs-tcpip

TLA+ models of the TCP/IP stack in this repository (`src/`, `include/`,
`app/`), TLC configurations that check them on small instances, and proofs that
TLAPS checks for every value of the constants. `PROJECT.json` maps each
definition to the lines it models, and lists the runs, findings, hazards,
mutants and theorems.

## The system

The stack is a function with memory. `gcs_stack_handle_frame` takes one Ethernet
frame and an output buffer, walks down the layers, and returns the length of the
one frame it answers with, or 0. There are no threads, timers or retransmission
queues inside; all concurrency is around it: the peer, the link, the kernel, a
signal, the files.

| Component | State | Operations | What makes it correct |
| --- | --- | --- | --- |
| Stack core, `gcs_stack.c` | `gcs_stack_t`: `ip_id`, one `gcs_tcp_connection_t` | init; handle_frame, with ARP, ICMP, closed port and six TCP states below it | counters agree with each other and with what was sent; each edge of the automaton goes out with its segment |
| Parsers and writers, `gcs_ethernet.c`, `gcs_arp.c`, `gcs_ipv4.c`, `gcs_icmp.c`, `gcs_tcp.c` | none | parse (guards), write | what is written parses again; nothing longer than the request |
| Checksum, `gcs_checksum.c` | loop counters | accumulate, odd tail, fold, pseudo-header | ones' complement arithmetic, no overflow, one changed byte is seen |
| Capture files, `gcs_pcap.c` | `FILE *` | open, read a record, write a record, close | every record is read or the reason is told; what is opened is closed |
| `GCS.Replay`, `gcs_replay.c` | `index`, `replies`, buffers, writer | open; read-handle-write loop; report | the report and the output file agree with what the stack did, answer by answer |
| `GCS.Tapd`, `gcs_tapd.c`, `gcs_tap.c` | `g_running`, `errno`, buffers, the device | attach; signal handler; read-handle-write loop; close | stops soon after a signal; delivers each answer once and in order; says why it cannot start |
| Sample generator, `gcs_make_sample.py` | none | builds eight frames of a session, writes them as a capture | the input of the replay |
| Command lines, both `main` | `i`, the settings | one step per word; parsing of the addresses | the words are grouped as the user meant them |
| Address text, `gcs_types.c` | none | parse, format | reads back what was printed; no octet reaches into the next |
| Logging, names, build | none that matters | text | not modelled |

Interaction: both programs own one stack and two buffers of `GCS_STACK_FRAME_CAP` =
1514 bytes, and call `gcs_stack_handle_frame` from a sequential loop that begins
when the command line is parsed. In `GCS.Tapd` the kernel queues frames for the loop
and a signal handler clears `g_running` at any moment. In `GCS.Replay` frames come
from one capture and answers go to another. The peer of the TCP connection is a
kernel on the other side of the TAP interface.

What is hard to test here: the order of state change and emission inside a handler
(a short buffer loses the answer only), counters of three widths that wrap, loss and
duplication of frames in a stack with no retransmission and no sequence check, a
signal around a blocking read or before its handler is in, partial failure of the
output file or of the start, and a `0` that stands for five different things.
`PROJECT.json` lists each at its line, with the properties that watch it, or why
none does.

## The modules

| Module | Models | Correspondence |
| --- | --- | --- |
| `GcsFrames` | frame formats and the guards of the parsers | A frame is a record of the fields the code looks at, with real byte lengths. A checksum is its outcome, `sum_ok`; a payload is a model value. |
| `GcsStack` | `gcs_stack.c` | `conn` is `gcs_tcp_connection_t` without its three constants, `ip_id` the counter; `rx` and `tx` are the frame and the answer of the last call. One action per way through the handler: `DropFrame`, `HandleArp`, `HandleIcmp`, `ClosedPort`, `Listen`, `SynReceived`, `ReceiveFin`, `ReceiveData`, `LastAck`, `IgnoreSegment`. `EmitTcp` is `gcs_stack_emit_tcp`, which may find the buffer too short after its caller changed the connection. |
| `TcpServer` | the promise of the TCP port | Phases of the automaton, and the stretch of the outgoing sequence space each edge sends. No frames, parsers or buffers. |
| `Checksum` | `gcs_checksum.c` and its callers | The accumulation loop, the tail and the folding loop as steps, run by a writer and then by a reader; the link changes at most one byte in between. |
| `GcsSample` | `tools/gcs_make_sample.py` | The frames of the script, with their padding. |
| `TcpSession` | client + link + `GcsStack` | The client (outside this repository: in-order receiver, go-back retransmission, RST for what it cannot place, crash and redial) sends the script's frames over two queues that may lose, double and swap frames, and its timer may run out too early; `StackReceives` is one call of the stack. |
| `EchoService` | what a client may expect | What was written and what came back, and whether the session is closed. No segments, numbers or link. |
| `Replay` | `gcs_replay.c` + `gcs_pcap.c` + `GcsStack` | `pc` is where `main` is, from opening the files to closing them; a record carries its stated length, whether it is whole, its stamp, whose two fields wrap at `StampMod`, and its frame. |
| `TapDriver` | `gcs_tapd.c` + `gcs_tap.c` + `GcsStack` | The start in steps (open, attach or report, two handlers), the loop in steps (test, read, sleep, handle, write), the kernel's queue, signals with and without a handler, and both meanings of `signal()`: a read restarted and handlers that stay, or a read interrupted with EINTR and handlers that serve once. |
| `Responder` | the promise of both loops | Frames taken, answers delivered, and whether the last frame is still in hand. |
| `Addresses` | `gcs_types.c`, the scanning and printing it asks of the C library | Texts are sequences of characters, a character the digit it is or a separator. An IPv4 address is the word its four octets are packed into (`Packed`), printed and sent by shifts and masks of it (`gcs_ipv4_format`, `gcs_wr32be`). Pure operators; recursion is a recursive function or a fold. |
| `Startup` | the option loops and address parsing of both `main` | `program` says which; `groups` is what the user meant, `argv` what the program sees; one action per branch of the loop. |
| `MC*` | instances for TLC | Model values, frame sets, captures, messages. |
| `NumberFacts` | lemmas | Remainders, induction over numbers, recursive sums. |
| `GcsStackProofs`, `GcsStackRefinement`, `TapDriverProofs`, `ReplayProofs`, `ChecksumProofs`, `StartupProofs`, `TcpSessionProofs` | theorems | One module per component; see below. |

`TcpSession`, `Replay` and `TapDriver` take the stack in with
`Stack == INSTANCE GcsStack` and call `Stack!HandleFrame` in one of their own
actions, as the programs do. `GcsStack` implements `TcpServer`, and `Replay` and
`TapDriver` both implement `Responder`, whose parameter `Answers` is `GcsStack`'s
`AnswerTo` (all three checked and proved); `TcpSession` implements `EchoService`
(checked, and proved for links that are `TameLinks`, see below).
Definitions that start with "Mutant of" are plausible bugs; no specification uses
them. Each property has one, and TLC finds the property violated when the mutant
replaces the definition.

## The runs

| Run | Shows | Bounds |
| --- | --- | --- |
| `stack_any_buffer` | `TypeOK`; `SeqAccounting` (`snd_nxt` follows `bytes_received`); `ReplyFits`; `ReplyParses`; `NothingSaidTwice`, for any order of frames and any buffer | sequence space 4, identifications modulo 2, bytes modulo 8, so that everything wraps; payloads of 0 and 7 bytes; two peers; for each guard of a parser a frame only that guard refuses; buffers of 50 bytes (ARP fits, no segment does) and 1514 |
| `stack_programs` | `ImplementsServer`: the refinement of `TcpServer` | the same frames, buffers of 1514 |
| `fin_with_data` | finding: the data of a FIN is dropped and not acknowledged | a FIN with data among the frames |
| `arp_hardware` | finding: hardware and protocol types of ARP are not checked | one such request |
| `session` | `ImplementsEcho` (`EchoService`), `InStep`, `AckedWasReceived`, `EchoedOnce`, `ClosedMeansFinAcked`, `ClosedAfterAll`, `Completes` (unless an answer is lost), `RefusedForGood` | four chunks of three payloads and a FIN, a sequence space of 16 that wraps within the session on both sides, two initial numbers, an open and a closed port, six links: three segments in flight with no fault or one doubled frame; one in flight with two lost requests and a lost answer, with a lost request, two doubled frames and a swap, with one fault of each of these kinds and a restart, and with a lost request, a doubled frame and two chunks doubled or sent again too early |
| `session_pipelined_loss` | finding: with two segments in flight one loss corrupts the echo | as above, two segments in flight, one lost request |
| `session_lost_reply` | finding: one lost answer can keep the session from ending | one lost answer |
| `replay` | `ReportTrue`, `IdsGapless`, `GaplessStream`, `StampsOrdered`, `ExitsClean`, `AnswersInOrder` (`Responder`), `Terminates` | the sample; every capture of up to four records of four kinds, the longest echo included, then nothing, an empty, a cut or an oversize record; a file that is missing, short or foreign; with and without `--out`, which may fail to open; disks with room for few and for all; three microseconds to the second, so that stamps reach its end, and 16 values in a field of a stamp, so that some pass it and wrap |
| `replay_stops_early` | finding: an unusable record ends the replay as the end of the file does | as above |
| `tap_driver` | `FailureReported`, `KilledOnlyAtStart`, `OneFrameLate`, `IdsDelivered`, `AnswersOnce` (`Responder`), `StopsOnceWoken` | the eight frames of the sample, any number of signals of two kinds anywhere, two refused writes, both meanings of `signal()`, three errors of a start that fails |
| `startup` | `SettingsAsGiven`, `UsageIfMalformed`, `AddressesAsPrinted` | both programs; up to three groups of words, among them options of the other program, values that look like options, options that lack their value; addresses with octets at both ends of their range and just beyond it; octets of seven bits, so that a word of four fits TLC's integers |
| `checksum` | `AccumExact`, `VerdictIsOnesComplement`, `OneByteDetected`, `Returns` | bytes of 2 bits, words of 4, an accumulator of 8; all messages of 4 and 5 bytes, all-ones messages of the two greatest lengths, four address pairs; every change of one byte |

Why the bounds suffice. The stack has no loop over its history: a step depends on the
connection's state, two sequence numbers and one frame, and the instance holds every state
with every kind of frame, in any order and without a limit on their number. The counters are
small so that wrapping is common, not so that it is rare; the theorems remove these bounds
altogether. In the sessions four chunks, the first and the last alike, are enough to lose,
swap or repeat one; a fault of each kind may hit any frame, and each link allows one or two
of a kind, alone and in combination with others. Data that reaches the stack again without
an answer having been lost is a kind of fault of its own, `repeated`: the link doubles it or
the client's timer runs out too early. The stack takes and echoes it twice, with numbers
that follow one another, so that the client takes both; this is what `EchoedOnce` and
`InStep` bound, once more for each time, and why `ImplementsEcho` promises nothing there
(`Promised`). With several segments in flight an old one also sets `rcv_nxt` back, so the
link that repeats data has one in flight. With two in flight a loss breaks the echo: the
finding of `session_pipelined_loss`. A client that restarts takes another initial number and
leaves its frames on their way, which is the worst a stack without a check of sequence
numbers can meet. In `Checksum` widths scale together: a word is two bytes, an accumulator
two words, and a message is shorter than a word's modulus, as in the code, so that the worst
accumulation still just fits.

Named bounds: the fields of `Link` in `TcpSession` (`window`, `lost_requests`,
`lost_replies`, `doubled`, `repeated`, `swapped`, `restarts`); `DiskCaps`, `UsecPerSec` and
`StampMod` in `Replay`; `MaxFailedWrites`, `Errnos` and `BsdSignal` in `TapDriver`;
`OctetMod` in `Addresses`. Two runs switch deadlock checking off: a driver that sleeps with
no frame left, or that has ended, really stops, and so does `startup`, where `main` has
exited or goes on in the other modules.

## Fairness

- `GcsStack` states none: nobody owes it frames.
- `TcpSession`: weak fairness of the client's actions and of `StackReceives`.
  The driver's loop takes every frame that waits; the client is a kernel that
  processes its segments and whose timers run out. Faults are never owed.
- `Replay`, `Checksum`: weak fairness of the whole next-state relation, as
  sequential code runs until it ends.
- `Startup` states none; it has no liveness property.
- `TapDriver`: weak fairness of `main`, from its start through its loop. Neither the
  kernel's frames nor signals are owed, so that "stops" may only be promised once
  something wakes the loop. That is the content of `StopsOnceWoken`: asleep in a
  restarted read, the driver does not see the signal.

## What is proved

Every theorem is about every value of the constants that the named assumptions
admit. TLC evaluates the assumptions on the instances of the runs.

| Theorem | States |
| --- | --- |
| `GcsStackProofs.Invariance` | `Spec => []IInv` |
| `GcsStackProofs.TypeCorrect` | `Spec => []TypeOK` |
| `GcsStackProofs.AccountsAgree` | `Spec => []SeqAccounting` |
| `GcsStackProofs.AnswersFit` | `Spec => []ReplyFits` |
| `GcsStackProofs.AnswersParse` | `Spec => []ReplyParses` |
| `GcsStackRefinement.NeverTwice` | `Spec => NothingSaidTwice` |
| `GcsStackRefinement.Refinement` | `Spec => ImplementsServer`, if no frame is longer than a buffer |
| `TapDriverProofs.FailureIsReported` | `Spec => []FailureReported` |
| `TapDriverProofs.HandlersProtect` | `Spec => []KilledOnlyAtStart` |
| `TapDriverProofs.StopsAfterOneFrame` | `Spec => []OneFrameLate` |
| `TapDriverProofs.Responds` | `Spec => AnswersOnce`, the refinement of `Responder` |
| `TapDriverProofs.NumbersDelivered` | `Spec => []IdsDelivered`, if the traffic is shorter than the range of the counter |
| `ReplayProofs.LeavesNothingOpen` | `Spec => []ExitsClean` |
| `ReplayProofs.ReportIsTrue` | `Spec => []ReportTrue` |
| `ReplayProofs.StampsStayOrdered` | `Spec => []StampsOrdered`: for captures that have `Room`, no `ts_usec` being the last number 32 bits hold |
| `ReplayProofs.NumbersRunOn` | `Spec => []IdsGapless` |
| `ReplayProofs.StreamHasNoGap` | `Spec => []GaplessStream` |
| `ReplayProofs.WritesInOrder` | `Spec => AnswersInOrder`, the refinement of `Responder` |
| `ChecksumProofs.Invariance` | `Spec => []IInv` |
| `ChecksumProofs.AccumulatorExact` | `Spec => []AccumExact` |
| `ChecksumProofs.VerdictRight` | `Spec => []VerdictIsOnesComplement` |
| `ChecksumProofs.ChangeDetected` | `Spec => []OneByteDetected` |
| `StartupProofs.SettingsAreMeant` | `Spec => []SettingsAsGiven` |
| `StartupProofs.UsageIsDeserved` | `Spec => []UsageIfMalformed` |
| `StartupProofs.AddressesRoundTrip` | every word is parsed from its own format into itself, and so are six octets |
| `StartupProofs.AddressesAreMeant` | `Spec => []AddressesAsPrinted`, if every address and port of the command line spells its numbers (`AllWellSpelled`) |
| `TcpSessionProofs.FinAckIsReal` | `Spec => []ClosedMeansFinAcked`: one segment on its way, and nothing goes wrong but that requests are lost |
| `TcpSessionProofs.NothingTakenTwice` | `Spec => []EchoedOnce`, if links are `SteadyLinks` |
| `TcpSessionProofs.BothEndsAgree` | `Spec => []InStep`, if links are `SteadyLinks` |
| `TcpSessionProofs.AckedIsTaken` | `Spec => []AckedWasReceived`, if links are `TameLinks` |
| `TcpSessionProofs.ClosesAfterAll` | `Spec => []ClosedAfterAll`, if links are `TameLinks` |
| `TcpSessionProofs.SessionEchoes` | `Spec => ImplementsEcho`, the refinement of `EchoService`, if links are `TameLinks` |

`NumberFacts` holds what they share: uniqueness of quotient and remainder, shifting by a
multiple, reducing before adding; the four digits of a number to any base, which division by
its powers finds again (`FourDigits`, `FourDigitsOf`); induction over the natural numbers,
stated for the set of numbers that have a property (the library's theorems take an operator,
which the provers cannot instantiate); the greatest member of a bounded set; and that a
recursive definition of partial sums defines a function.

### The stack

For every set of frames, every set of buffers, every listening port, address and
initial sequence number, and every size of the counters.

Assumptions: those of `FramesAssumption` and `StackAssumption`. The one that is
more than a type is `BytesMod % SeqSpace = 0`, which 2^64 and 2^32 satisfy: it is
what lets a 64-bit count and a 32-bit number agree after both have wrapped.
`Refinement` assumes `f.len <= cap` for all frames and buffers. Both programs
satisfy it, as they read into and answer from buffers of one size; without it the
refinement is false, because an edge may be taken and its segment lost.

The inductive invariant `IInv` has four parts. `ConnOK` is the type of the
connection with `SeqAccounting`; `IdOK` bounds `ip_id`; the last frame is a frame;
and `AnswerOK` says of the last answer that it is a frame, is no longer than the
one it answers and parses. `ReplyFits` alone is not inductive, as it speaks of two
variables a step replaces together: the argument goes through the parsers, whose
guards make the payload end inside the frame with at least 54 (TCP) or 42 (ICMP)
bytes of headers before it (`SegmentParsed`, `EchoParsed`), and from there to the
16-bit casts, which then lose nothing. There is one step per action, and the
emission is a lemma of its own. `NeverTwice` and `Refinement` describe a step as
either `Speaks` (a segment at `NextSeq` of a given width) or `Mute`, and match each
action to the server's.

### The programs around it

`TapDriverProofs` and `ReplayProofs` take the stack's theorems in with
`Core == INSTANCE GcsStackRefinement`, whose `Frames` play no part, as the frames come
from the program's own state. `CoreAssumptions` shows that its assumptions follow from
the program's, `CoreFrames` that both speak of the same frames, and `CoreStep` and
`CoreAnswer` that one call of `gcs_stack_handle_frame` keeps the stack's `IInv` and
gives an answer of the promised kind. The stack's `IInv` is a part of both programs'
invariants.

`TapDriver`, for any traffic, either meaning of `signal()`, any errors of `open` and
`ioctl` and any number of refused writes (`DriverAssumption` types the traffic):

- `ControlInv` says where signals find the program. `FailureReported` needs that
  `errno` is still that of the failed call when it is reported. `KilledOnlyAtStart`
  needs that between the two calls of `signal` the first handler is in, and that
  beyond them both are, unless one of them has served. `OneFrameLate` needs that
  `g_running` is set as long as none was handled late, and that a late one leaves the
  loop on its way to the test.
- `TrafficInv` and `ReplyInv` say that what the kernel has queued and will send are the
  rest of the traffic after `Read` frames, that the frame in hand is the last of those,
  and that the reply about to be written answers it. This makes `Responds`: reading
  is `Responder`'s step of taking a frame, a write its step of delivering an answer.
- `NumberInv` compares `ip_id` with the number of frames read and with the IPv4
  answers written. `NumbersDelivered` assumes `Len(Traffic) + 1 < IdMod`: once the
  16-bit counter has come round, order of numbers is not order in time, and the
  property is false.

`Replay`, for any captures, disks and number of microseconds in a second
(`ReplayAssumption`: a record whose lengths fit the buffer was captured whole, and
stamps are numbers):

- `FileInv` and `ExitInv` say how far the program is in the capture and which files are
  open; `OutInv` relates the records of the output to `replies` and to the room on the
  disk. `ReportTrue` follows, as the records in front of the last one read are usable.
- `StampInv`: in an ordered capture the last stamp written is at most a microsecond
  after that of the last record dealt with. The carry into the next second is the
  case that needs an argument (`ReplyTime`). `ts_usec + 1` is a sum of 32 bits of a
  number the reader takes unchecked from the file. 0xFFFFFFFF, which is no count of
  microseconds, wraps around to 0, and the answer's stamp runs backwards: so
  `StampsOrdered` speaks of captures without it (`Room`). The captures of `replay` have
  such stamps, and without `Room` TLC finds the property violated.
- `NumberInv` and `StreamInv` tie `ip_id` and the stack's `NextSeq` to what is in the
  output, as long as the disk has had room for it.

### The checksum

For bytes of any width from two bits on, any addresses and any messages shorter than
a word's modulus (`ChecksumAssumption`; 65535 bytes, the most an IPv4 datagram
holds, for words of 16 bits). `DataInv` types the message, `AccumInv` says that the
accumulator is the sum of the words before `i`, and `LinkInv` that folding keeps
the sum's remainder modulo 2^16 - 1 and whether it is zero (`Folded`) and that a
message is valid just if it was not altered. The sum over all words is a recursive
function; `WordSumNext`, `WordSumRange` and `WordSumChange` are proved by induction.
`ChangeDetected` rests on `SmallDetected`: the difference of two values of one byte,
shifted or not, is no multiple of 2^16 - 1, with 0 and 2^16 - 1 kept apart.

### The command lines

For command lines of any length. `StartupAssumption` says what a group is: an option
with a value that is there, or one word, which is an option only at the end of the line.
`StartsExist` gives each group its place in the row of words the program sees. The
invariant `LoopInv` says that the loop stands where some group starts, that the
settings are those the groups before it give, and that the replay could place each of
them. `SettingsAsGiven` alone says nothing before the loop has ended.

Addresses are texts, and the scanner a fold over their characters. `Spelled` says when a
text spells a row of numbers, without a scanner: there are places where the numbers start,
each is a run of digits of the right value, and between two of them is one separator.
`Ipv4Spelled` and `MacSpelled` show that what `gcs_ipv4_format` and `gcs_mac_format` print
spells their octets, one field after the other and for any value of an octet; `Ipv4Read`,
`MacRead` and `PortRead` that the parsers take from a spelled text the numbers it spells, of
which `gcs_ipv4_parse` makes a word, as a run of digits ends in one place only (`RunEndIs`)
and the fold goes from start to start (`ScanIs`). `PackedOctets` and `WordOctets` show that
the shifts which pack four octets and those which unpack a word are inverse to each other,
by the digits of a number to the base `OctetMod`. Together they are `AddressesRoundTrip`,
which stays inside the buffers `SIP_CAP` and `SMAC_CAP`. `AddressesAreMeant` compares an
address with what was meant as the octets `gcs_wr32be` writes into a frame. The invariant
under it, `SpelledInv`, says that every setting spells its numbers. It comes from the
hypothesis `AllWellSpelled`: an address has at most four or six numbers, of any size an
`unsigned int` holds and with any number of leading zeros, a port is one number below 65536,
and no text stands behind them. The instance of `startup` satisfies it, with its texts of
too few numbers and of numbers too great.

### The session

For any chunks, initial numbers and dialled ports, against the stack itself and not its
abstraction. `SessionAssumption` says, besides types, that a chunk fits a frame and that the
session is shorter than the sequence space: the client, as any TCP, tells what is
acknowledged by distances in it.

Positions count the things sent, the chunks and then the FIN: `ClientSeq(k)` and
`StackSeq(k)` are the numbers of both ends after `k` of them, and `Back` is how many have come
back. The inductive invariant has three parts:

- `FaultsInv`: no more faults happen than the link allows.
- `Calm => SessionInv`. A run is calm if it lost and swapped nothing (`Orderly`, any
  window), or if the client has one segment on its way and what it repeats does not carry
  the stack's numbers once around the sequence space (`Patient`); if the client started anew
  once at most; and if no data was doubled or sent too early. `SessionInv` names the phase
  the session is in.
- `OnlyLosesRequests => OneAtATime`: in such a run there is one answer at most, and the stack
  has closed only after the client had its FIN.

There are three phases:

- `Dial`: nothing has been sent. The port is closed (`PortClosed`), SYNs are on their way
  (`Listening`), the client's was taken (`Greeted`), or the connection is that of the client
  before its restart (`Foreign`) and stays so: the stack has one connection and never listens
  again, so that the new client stays in SYN_SENT. That it takes no frame of the old
  connection for its own rests on the two initial numbers being different (`OtherIss`).
- `Step`: there is a `t` such that the stack has taken `t` things, each once, and its
  `rcv_nxt`, `snd_nxt`, `bytes_received` and state say so (`StackInv`); `ClientInv` says the
  same of the client and `Back`. `RepliesInv` says that the answers on their way are, with
  copies, those to the things from `Back` to `t` in order: a row of numbers (`Rows`) goes from
  one to the other by one or not at all. With many segments in flight the requests are such a
  row too, from `t` to what was sent (`InOrder`), and the ACK that opens the connection is before
  the first chunk, which SYN_RECEIVED would drop. With one segment they may be in any order,
  but one chunk at most is among them, the thing sent last, and only if the stack lacks it
  (`Loose`). If the ACK was lost, the stack drops the first chunk; the invariant counts it as
  not taken, and the client sends it again.
- `Astray`: an answer was lost. The client repeats what the stack has taken, which looks at no
  sequence number and takes it again; from then on its numbers are ahead of the client's for
  good (`StackAhead`), the client takes nothing it hears (`LateAnswers`), and the echo
  goes no further. It still acknowledges truly, which is what `AckedWasReceived` says: the count
  of `bytes_received` is at least what is acknowledged. `Repeated` bounds how far ahead it is:
  by the widest thing sent (`Widest`) for each lost answer, as a repetition is itself answered
  and that answer must be lost before there is another. As long as `Bytes(LastItem) + Widest *
  lost_replies < SeqSpace`, the stack's numbers do not come round to one the client waits for.

The argument of `Step` is in `Loose`: whatever the client repeats, the stack has never seen,
because an answer not lost is read before the timer runs out. So a stack that looks at no
sequence number takes each thing once. Numbers that wrap are compared through `SeqSum`,
`SeqDistance` and `SeqApart`; what a frame does to the stack is stated once per kind of
frame (`SynAtListen`, `AckHeard`, `ChunkTaken`, `FinTaken`), and what losing, doubling,
swapping, taking and appending do to a row once per operation.

The hypotheses are on the constant `Links`, and the instance of `session` satisfies both with
all its links but the one that repeats data.

- `SteadyLinks`: one segment on its way, or no request lost or swapped. The properties under
  it exclude lost answers and restarts by themselves.
- `TameLinks`: one restart at most, and either one segment on its way and lost answers few enough
  for the sequence space, or nothing lost or swapped.
- Both: no data is doubled or sent again before its answer could come (`repeated` is 0).

With two segments on their way and one lost request the theorems are false, as
`session_pipelined_loss` shows; with one chunk doubled the service breaks as well, and
`ImplementsEcho` excepts those links (`Promised`). After a second restart the client may
have the first initial number again, with the frames of its first connection on their way.
`FinAckIsReal` needs no hypothesis on `Links`, as `ClosedMeansFinAcked` names the faults it
excludes: every fault but a lost request. Without the conjunct `doubled` TLC finds it
violated: LAST_ACK takes any ACK, and a doubled FIN, or ACK of an earlier echo, closes it
while the stack's FIN is on its way. What the client is owed all the same is
`ClosedAfterAll`, doubled and overtaken ACKs included: by then the stack has taken
everything it sent.

## Only model-checked

Liveness: `Completes`, `RefusedForGood`, `Terminates`, `StopsOnceWoken` and `Returns`. The
prover has no fairness or `ENABLED` reasoning. Every safety property and every refinement of
a passing run is the subject of a theorem, but `InStep` and `EchoedOnce` only on links that
repeat no data: what `session` says of them, of `AckedWasReceived` and of `ClosedAfterAll`
where data is repeated is only model-checked.

## Not modelled

- Log lines and names (`gcs_log`, `*_name`, `gcs_tcp_flags_format`, the copy of the
  interface's name): text nothing else depends on.
- Blanks, signs and the prefix `0x`, which `sscanf` and `atoi` take before a number,
  and numbers an `unsigned int` cannot hold, whose reading ISO C leaves undefined.
  Text after an address is taken, in the model as in the code.
- `--out` naming the input: opening it for writing empties the capture that is being
  read, and what the reader still sees depends on the C library's buffer.
- A frame longer than the buffer is cut by the kernel's read, so the stack sees 1514
  bytes.
- Fragmentation, TTL, window and urgent pointer: the code neither checks nor varies
  them. A fragment is handled as a whole datagram.
- The ARP table "with merge logic" of `README.md:15` and `gcs_arp_table_update` of
  `docs/guide.md:75`: there is no such code. `docs/guide.md:103` says an echo reply
  differs from its request in the type byte only; the code also sets the code to 0.
- The link type of a capture, which is stored and never read, and the fields of its
  header other than the magic number, which are never read either. A capture of the
  other byte order is one with a foreign magic number.

## Plan

Done, in this order: `GcsFrames`, `GcsStack`, `TcpServer` with the refinement, the
proofs of both, `TcpSession`, `Replay`, `TapDriver`, `Checksum`; then `EchoService`
with the faults of the link and the restart of the client, `Responder` under both
programs, the start of the driver and the ends of the replay, `Addresses` and
`Startup`; then the proofs of `TapDriver`, `Replay`, `Checksum`, `Startup` and `TcpSession`.

What is left is beyond what the runs check: sessions whose client starts anew more than
once, or repeats itself until the stack's numbers have gone once around.

A second client whose segments reach the first one's connection is in the frames of
`stack_any_buffer` and not in `TcpSession`: the code compares no peer, and no
document says what the second one should see.
