-------------------------------- MODULE Replay --------------------------------
(***************************************************************************)
(* GCS.Replay (app/gcs_replay.c over src/gcs_pcap.c): opens a capture and  *)
(* perhaps a second one to write, reads the records of the first one by    *)
(* one, hands each frame to the stack and appends the answers to the       *)
(* second.  A record is what the file holds of it: the length its header   *)
(* states, whether that many bytes follow, the time stamp and the frame.   *)
(* Files may be missing or foreign, and the disk may fill up.              *)
(***************************************************************************)
EXTENDS GcsFrames, Sequences, FiniteSets

CONSTANTS
    Mac, Ip, ListenPort, Iss, BytesMod,     \* the stack's, see GcsStack
    Captures,               \* the files the program may be given
    DiskCaps,               \* how many records the disk has room for
    UsecPerSec,             \* 1000000, the microseconds of a second
    StampMod                \* 2^32, as both fields of a stamp are uint32_t

GCS_PCAP_MAX_FRAME == 65535

VARIABLES conn, ip_id, rx, tx       \* the stack
VARIABLES
    pc,                     \* where main is
    file, disk,             \* the input capture, and the room for the output
    out_path,               \* whether --out was given
    reader_fp, writer_fp,   \* whether the two files are open
    pos,                    \* records read
    frame, ts_sec, ts_usec, \* main's buffer, and the stamp read with it
    have_writer,
    out,                    \* records of the output capture
    index, replies          \* main's counters, which it reports at the end

Stack == INSTANCE GcsStack WITH Frames <- {}, OutCaps <- {GCS_STACK_FRAME_CAP}

stack_vars == <<conn, ip_id, rx, tx>>
given == <<file, disk, out_path>>
files == <<reader_fp, writer_fp, have_writer>>
buffers == <<frame, ts_sec, ts_usec, pos>>
counters == <<index, replies>>
vars == <<stack_vars, given, files, buffers, counters, pc, out>>

Init ==
    /\ Stack!Init
    /\ pc = "open_read"
    /\ file \in Captures /\ disk \in DiskCaps /\ out_path \in BOOLEAN
    /\ reader_fp = FALSE /\ writer_fp = FALSE /\ have_writer = FALSE
    /\ pos = 0 /\ frame = NoReply /\ ts_sec = 0 /\ ts_usec = 0
    /\ out = <<>> /\ index = 0 /\ replies = 0
-----------------------------------------------------------------------------
(***************************************************************************)
(* Opening.                                                                *)
(***************************************************************************)
\* gcs_pcap_open_read takes a file whose header is whole and has the magic number of
\* this machine's byte order, and leaves no other open.
OpenRead ==
    /\ pc = "open_read"
    /\ reader_fp' = (file.header = "native")
    /\ pc' = IF reader_fp' THEN "open_write" ELSE "failed"
    /\ UNCHANGED <<stack_vars, given, writer_fp, have_writer, buffers, counters, out>>

gcs_pcap_close_read == reader_fp' = FALSE

gcs_pcap_close_write == writer_fp' = FALSE

\* Mutant of OpenWrite: the reader stays open when the writer fails.
OpenWriteLeaks ==
    /\ pc = "open_write"
    /\ have_writer' \in IF out_path THEN BOOLEAN ELSE {FALSE}
    /\ writer_fp' = have_writer'
    /\ pc' = IF out_path /\ ~have_writer' THEN "failed" ELSE "read"
    /\ UNCHANGED <<stack_vars, given, reader_fp, buffers, counters, out>>

\* gcs_pcap_open_write may fail to open the file, or to write its header.
OpenWrite ==
    /\ pc = "open_write"
    /\ have_writer' \in IF out_path THEN BOOLEAN ELSE {FALSE}
    /\ writer_fp' = have_writer'
    /\ IF out_path /\ ~have_writer'
       THEN pc' = "failed" /\ gcs_pcap_close_read
       ELSE pc' = "read" /\ UNCHANGED reader_fp
    /\ UNCHANGED <<stack_vars, given, buffers, counters, out>>
-----------------------------------------------------------------------------
(***************************************************************************)
(* The loop.                                                               *)
(***************************************************************************)
\* Mutant of FrameRead: one byte short of the buffer.
FrameReadShort(record, cap) ==
    IF record.incl >= cap \/ ~record.whole THEN 0 ELSE record.incl

\* What gcs_pcap_read_frame returns, 0 included: for the end of the file, for a
\* record cut short, longer than the buffer or empty.
FrameRead(record, cap) ==
    IF record.incl > GCS_PCAP_MAX_FRAME \/ record.incl > cap \/ ~record.whole THEN 0
    ELSE record.incl

\* What a field of a stamp holds.
Stamp == 0..(StampMod - 1)

\* The length it returns is that of the frame it has copied.
ASSUME ReplayAssumption ==
    /\ Stack!StackAssumption
    /\ DiskCaps \subseteq Nat
    /\ StampMod \in Nat /\ UsecPerSec \in 1..(StampMod - 1)
    /\ \A capture \in Captures :
         /\ capture.records \in Seq([incl: Nat, whole: BOOLEAN, frame: Frame,
                                    ts_sec: Stamp, ts_usec: Stamp])
         /\ \A i \in 1..Len(capture.records) :
              FrameRead(capture.records[i], GCS_STACK_FRAME_CAP)
                \in {0, capture.records[i].frame.len}

AtEnd == pos = Len(file.records)

\* The length the loop of main gets next.
NextLen == IF AtEnd THEN 0 ELSE FrameRead(file.records[pos + 1], GCS_STACK_FRAME_CAP)

ReadFrame ==
    /\ pc = "read" /\ NextLen > 0
    /\ pos' = pos + 1
    /\ LET record == file.records[pos']
       IN  /\ frame' = record.frame
           /\ ts_sec' = record.ts_sec /\ ts_usec' = record.ts_usec
    /\ index' = index + 1
    /\ pc' = "handle"
    /\ UNCHANGED <<stack_vars, given, files, out, replies>>

\* Mutant of StopReading: the loop tries again until the file ends.
StopReadingRetries ==
    /\ pc = "read" /\ NextLen = 0
    /\ pc' = IF AtEnd THEN "done" ELSE "read"
    /\ UNCHANGED <<stack_vars, given, files, buffers, counters, out>>

\* The loop ends on 0, whatever it stands for; main reports and closes both files.
StopReading ==
    /\ pc = "read" /\ NextLen = 0
    /\ pc' = "done"
    /\ gcs_pcap_close_read
    /\ IF have_writer THEN gcs_pcap_close_write ELSE UNCHANGED writer_fp
    /\ UNCHANGED <<stack_vars, given, have_writer, buffers, counters, out>>

\* Mutant of ReplyStamp: the microseconds wrap around and the second stays.
ReplyStampWraps == [sec |-> ts_sec, usec |-> (ts_usec + 1) % UsecPerSec]

\* No carry into the second: the last microsecond of one has a stamp out of range. Of what
\* the file holds nothing is checked, so the sum may also wrap around as a uint32_t does.
ReplyStamp == [sec |-> ts_sec, usec |-> (ts_usec + 1) % StampMod]

\* gcs_pcap_write_frame on a disk with room for so many records and perhaps a part
\* of the next; main does not look at what it returns.
WriteFrame(reply) ==
    LET record(whole) == [incl |-> reply.len, whole |-> whole, frame |-> reply,
                          ts_sec |-> ReplyStamp.sec, ts_usec |-> ReplyStamp.usec]
    IN  \/ Len(out) < disk /\ out' = Append(out, record(TRUE))
        \/ Len(out) = disk /\ out' = Append(out, record(FALSE))
        \/ Len(out) >= disk /\ UNCHANGED out

\* Mutant of Handle: reply_len is kept from frame to frame, and so is the answer.
HandleStale ==
    /\ pc = "handle"
    /\ Stack!HandleFrame(frame, GCS_STACK_FRAME_CAP)
    /\ IF Answered(tx') \/ out # <<>>
       THEN /\ replies' = replies + 1
            /\ IF have_writer
               THEN WriteFrame(IF Answered(tx') THEN tx' ELSE out[Len(out)].frame)
               ELSE UNCHANGED out
       ELSE UNCHANGED <<replies, out>>
    /\ pc' = "read"
    /\ UNCHANGED <<given, files, buffers, index>>

Handle ==
    /\ pc = "handle"
    /\ Stack!HandleFrame(frame, GCS_STACK_FRAME_CAP)
    /\ IF Answered(tx')
       THEN /\ replies' = replies + 1
            /\ IF have_writer THEN WriteFrame(tx') ELSE UNCHANGED out
       ELSE UNCHANGED <<replies, out>>
    /\ pc' = "read"
    /\ UNCHANGED <<given, files, buffers, index>>

Terminated == pc \in {"done", "failed"} /\ UNCHANGED vars

Next == OpenRead \/ OpenWrite \/ ReadFrame \/ StopReading \/ Handle \/ Terminated

\* A sequential program that the operating system runs.
Spec == Init /\ [][Next]_vars /\ WF_vars(Next)
-----------------------------------------------------------------------------
(***************************************************************************)
(* Properties.                                                             *)
(***************************************************************************)
Usable(record) == record.whole /\ record.incl \in 1..GCS_STACK_FRAME_CAP

\* The longest stretch of frames the capture starts with.
Prefix == {i \in 1..Len(file.records) : \A j \in 1..i : Usable(file.records[j])}

\* The records that a reader of the output gets: those up to the first cut short.
Whole ==
    SubSeq(out, 1, Cardinality({i \in 1..Len(out) : \A j \in 1..i : out[j].whole}))

FramesOf(records) == [i \in 1..Len(records) |-> records[i].frame]

\* What main reports is true: it has handled the frames up to the first record it
\* cannot use, and every answer it counts is in the output file, unless it writes
\* none or the disk is full.
ReportTrue ==
    pc = "done" =>
      /\ index = Cardinality(Prefix)
      /\ replies = Len(Whole) \/ ~have_writer \/ (Len(Whole) = disk /\ replies > disk)

\* However main ends, by a missing or foreign capture, by an output it cannot open or
\* by its report, it has closed what it opened: only fclose flushes the last answers.
ExitsClean == pc \in {"done", "failed"} => ~reader_fp /\ ~writer_fp

\* The identifications of the IPv4 answers in the file run on from 1: every answer
\* the stack numbered is there, in the order the stack gave it, up to where the disk
\* was full.
IdsGapless ==
    LET ip_frames(k) == {j \in 1..k : Whole[j].frame.ethertype = "IPv4"}
    IN  \A k \in ip_frames(Len(Whole)) :
            Whole[k].frame.ip.id = Cardinality(ip_frames(k)) % IdMod

\* The segments of the connection in the file are one stretch of sequence space:
\* tcpdump, which the guide checks the file with, sees no gap and no overlap.
GaplessStream ==
    LET said == {k \in 1..Len(Whole) : Stack!FromConn(Whole[k].frame)}
    IN  \A j, k \in said : j < k /\ said \cap (j + 1)..(k - 1) = {} =>
            Whole[k].frame.tcp.seq =
              ToSeq(Whole[j].frame.tcp.seq + Stack!SegLen(Whole[j].frame))

Time(record) == record.ts_sec * UsecPerSec + record.ts_usec

Ordered(records) ==
    \A k \in 1..(Len(records) - 1) : Time(records[k]) <= Time(records[k + 1])

\* No stamp is the last that ts_usec can hold, as none is whose microseconds are fewer than
\* those of a second: adding one more does not wrap around.
Room(records) == \A k \in 1..Len(records) : records[k].ts_usec < StampMod - 1

\* If time does not run backwards in the capture it does not in the output, although
\* the microsecond added to a stamp is never carried into its second, unless the capture
\* has a stamp 0xFFFFFFFF, which becomes 0.
StampsOrdered == Ordered(file.records) /\ Room(file.records) => Ordered(out)

Loop == INSTANCE Responder
          WITH Answers <- Stack!AnswerTo,
               taken <- FramesOf(SubSeq(file.records, 1, pos)),
               delivered <- FramesOf(Whole), pending <- pc = "handle"

\* The file holds at most one answer to each frame, to that frame and in the order of
\* the frames, whatever the disk had no room for.
AnswersInOrder == Loop!Spec

\* The program comes to its end on any file.
Terminates == <>(pc \in {"done", "failed"})

\* gcs_pcap.h: gcs_pcap_read_frame returns 0 at the end of the file, so the loop that
\* stops at 0 has seen every record.
ZeroIsEndOfFile == pc = "done" => AtEnd
================================================================================
