------------------------------- MODULE TapDriver -------------------------------
(***************************************************************************)
(* GCS.Tapd (app/gcs_tapd.c over src/gcs_tap.c): it attaches to the TAP    *)
(* device, installs its signal handlers, and loops: read a frame, hand it  *)
(* to the stack, write the answer.  Next to it are the kernel, which       *)
(* queues frames for it, and signals, which kill it as long as they have   *)
(* no handler and clear g_running when they have.  The loop looks at       *)
(* g_running only between frames, and sleeps in read while there are none. *)
(***************************************************************************)
EXTENDS GcsFrames, Sequences, FiniteSets

CONSTANTS
    Mac, Ip, ListenPort, Iss, BytesMod,     \* the stack's, see GcsStack
    Traffic,                \* the frames the kernel sends, in this order
    MaxFailedWrites,        \* bound of the model
    BsdSignal,              \* what signal() may mean, see Init
    Errnos                  \* what errno may be after a call that failed

ASSUME ErrnoAssumption == "EPERM" \in Errnos

VARIABLES conn, ip_id, rx, tx       \* the stack
VARIABLES
    pc,                     \* where main is: "read" before the call, "sleep" in it
    g_running,
    fd,                     \* "none", "open", or "attached" to the interface
    errno, reported, hint,  \* errno, and what main says of it
    handlers,               \* the signals with a handler
    frame, reply,           \* main's two buffers
    traffic, inbox,         \* frames the kernel has still to send, and has queued
    written, failed_writes, \* what reached the kernel, and the writes that failed
    bsd,                    \* which meaning of signal() the program was built with
    failed_with,            \* history: the error of the call that stopped the start
    handled_late            \* history: frames handled after g_running was cleared

Stack == INSTANCE GcsStack WITH Frames <- {}, OutCaps <- {GCS_STACK_FRAME_CAP}

ASSUME DriverAssumption ==
    /\ Stack!StackAssumption
    /\ Traffic \in Seq(Frame)
    /\ BsdSignal \subseteq BOOLEAN

stack_vars == <<conn, ip_id, rx, tx>>
kernel_vars == <<traffic, inbox, written, failed_writes, bsd>>
start_vars == <<errno, reported, hint, failed_with>>
vars == <<stack_vars, kernel_vars, start_vars, pc, g_running, fd, handlers, frame, reply,
          handled_late>>

Signals == {"SIGINT", "SIGTERM"}

\* ISO C leaves open what signal() means.  With the GNU extensions that CMakeLists.txt
\* turns on, handlers stay and an interrupted read is restarted; in System V a handler
\* serves once and the read fails with EINTR.
Init ==
    /\ Stack!Init
    /\ pc = "open" /\ g_running = TRUE /\ fd = "none"
    /\ errno = "none" /\ reported = "none" /\ hint = FALSE /\ failed_with = "none"
    /\ handlers = {}
    /\ frame = NoReply /\ reply = NoReply
    /\ traffic = Traffic /\ inbox = <<>>
    /\ written = <<>> /\ failed_writes = 0
    /\ bsd \in BsdSignal
    /\ handled_late = 0
-----------------------------------------------------------------------------
(***************************************************************************)
(* The kernel and the signals.                                             *)
(***************************************************************************)
KernelSends ==
    /\ traffic # <<>> /\ fd = "attached"
    /\ traffic' = Tail(traffic)
    /\ inbox' = Append(inbox, Head(traffic))
    /\ UNCHANGED <<stack_vars, start_vars, pc, g_running, fd, handlers, frame, reply, written,
                   failed_writes, bsd, handled_late>>

Over == pc \in {"failed", "closed", "killed"}

\* on_signal.  A read that sleeps fails with EINTR, or is restarted and sleeps on.
OnSignal ==
    /\ ~Over
    /\ \E signo \in handlers : handlers' = IF bsd THEN handlers ELSE handlers \ {signo}
    /\ g_running' = FALSE
    /\ pc' = IF pc = "sleep" /\ ~bsd THEN "eintr" ELSE pc
    /\ UNCHANGED <<stack_vars, kernel_vars, start_vars, fd, frame, reply, handled_late>>

\* A signal without a handler ends the process where it is; the kernel closes fd.
Killed ==
    /\ ~Over /\ handlers # Signals
    /\ pc' = "killed" /\ fd' = "none"
    /\ UNCHANGED <<stack_vars, kernel_vars, start_vars, g_running, handlers, frame, reply,
                   handled_late>>
-----------------------------------------------------------------------------
(***************************************************************************)
(* The start of main: gcs_tap_open, the report of its failure, signal().   *)
(***************************************************************************)
started_vars == <<g_running, frame, reply, handled_late>>

OpenDevice ==
    /\ pc = "open"
    /\ \/ fd' = "open" /\ pc' = "attach" /\ UNCHANGED <<errno, failed_with>>
       \/ /\ errno' \in Errnos /\ failed_with' = errno'
          /\ pc' = "report" /\ UNCHANGED fd
    /\ UNCHANGED <<stack_vars, kernel_vars, started_vars, reported, hint, handlers>>

\* Mutant of Attach: the close that follows the ioctl leaves errno as it likes.
AttachClobbers ==
    /\ pc = "attach"
    /\ \/ fd' = "attached" /\ pc' = "sigint" /\ UNCHANGED <<errno, failed_with>>
       \/ /\ failed_with' \in Errnos /\ errno' \in {failed_with'} \cup Errnos
          /\ fd' = "none" /\ pc' = "report"
    /\ UNCHANGED <<stack_vars, kernel_vars, started_vars, reported, hint, handlers>>

\* The ioctl; when it fails errno is saved over the close that follows.
Attach ==
    /\ pc = "attach"
    /\ \/ fd' = "attached" /\ pc' = "sigint" /\ UNCHANGED <<errno, failed_with>>
       \/ /\ failed_with' \in Errnos /\ errno' = failed_with'
          /\ fd' = "none" /\ pc' = "report"
    /\ UNCHANGED <<stack_vars, kernel_vars, started_vars, reported, hint, handlers>>

\* errno is read once more after the first message, which may itself have failed.
ReportFailure ==
    /\ pc = "report"
    /\ reported' = errno
    /\ errno' \in {errno, "EBADF"}
    /\ hint' = (errno' = "EPERM")
    /\ pc' = "failed"
    /\ UNCHANGED <<stack_vars, kernel_vars, started_vars, fd, failed_with, handlers>>

\* Mutant of InstallHandlers: only one of the two signals gets its handler.
InstallOneHandler ==
    /\ pc = "sigint" /\ handlers' = {"SIGINT"} /\ pc' = "check"
    /\ UNCHANGED <<stack_vars, kernel_vars, start_vars, started_vars, fd>>

InstallHandlers ==
    /\ \/ pc = "sigint" /\ handlers' = handlers \cup {"SIGINT"} /\ pc' = "sigterm"
       \/ pc = "sigterm" /\ handlers' = handlers \cup {"SIGTERM"} /\ pc' = "check"
    /\ UNCHANGED <<stack_vars, kernel_vars, start_vars, started_vars, fd>>

Start == OpenDevice \/ Attach \/ ReportFailure \/ InstallHandlers
-----------------------------------------------------------------------------
(***************************************************************************)
(* The loop of main.                                                       *)
(***************************************************************************)
Goto(label) ==
    /\ pc' = label
    /\ UNCHANGED <<start_vars, g_running, handlers, bsd, traffic>>

\* Mutant of CheckRunning: the loop looks at g_running only when no frame waits.
CheckRunningWhenIdle ==
    /\ pc = "check"
    /\ Goto(IF g_running \/ inbox # <<>> THEN "read" ELSE "close")
    /\ UNCHANGED <<stack_vars, fd, frame, reply, inbox, written, failed_writes, handled_late>>

CheckRunning ==
    /\ pc = "check"
    /\ Goto(IF g_running THEN "read" ELSE "close")
    /\ UNCHANGED <<stack_vars, fd, frame, reply, inbox, written, failed_writes, handled_late>>

FallAsleep ==
    /\ pc = "read" /\ inbox = <<>>
    /\ Goto("sleep")
    /\ UNCHANGED <<stack_vars, fd, frame, reply, inbox, written, failed_writes, handled_late>>

ReadFrame ==
    /\ pc \in {"read", "sleep"} /\ inbox # <<>>
    /\ frame' = Head(inbox) /\ inbox' = Tail(inbox)
    /\ Goto("handle")
    /\ UNCHANGED <<stack_vars, fd, reply, written, failed_writes, handled_late>>

\* Mutant of ReadInterrupted: the read is called again without a look at g_running.
ReadInterruptedRetries ==
    /\ pc = "eintr" /\ Goto("sleep")
    /\ UNCHANGED <<stack_vars, fd, frame, reply, inbox, written, failed_writes, handled_late>>

\* len < 0: EINTR goes back to the condition, anything else leaves the loop.
ReadInterrupted ==
    /\ pc = "eintr" /\ Goto("check")
    /\ UNCHANGED <<stack_vars, fd, frame, reply, inbox, written, failed_writes, handled_late>>

ReadFails ==
    /\ pc \in {"read", "sleep"} /\ Goto("close")
    /\ UNCHANGED <<stack_vars, fd, frame, reply, inbox, written, failed_writes, handled_late>>

\* Mutant of Handle: the answer's buffer is not emptied, and goes out once more.
HandleStaleReply ==
    /\ pc = "handle"
    /\ Stack!HandleFrame(frame, GCS_STACK_FRAME_CAP)
    /\ reply' = IF Answered(tx') THEN tx' ELSE reply
    /\ Goto(IF Answered(reply') THEN "write" ELSE "check")
    /\ handled_late' = IF g_running THEN handled_late ELSE handled_late + 1
    /\ UNCHANGED <<fd, frame, inbox, written, failed_writes>>

Handle ==
    /\ pc = "handle"
    /\ Stack!HandleFrame(frame, GCS_STACK_FRAME_CAP)
    /\ reply' = tx'
    /\ Goto(IF Answered(tx') THEN "write" ELSE "check")
    /\ handled_late' = IF g_running THEN handled_late ELSE handled_late + 1
    /\ UNCHANGED <<fd, frame, inbox, written, failed_writes>>

\* Mutant of WriteReply: a write that an interruption seems to have failed is repeated.
WriteReplyAgain ==
    /\ pc = "write"
    /\ \/ written' = Append(written, reply) /\ UNCHANGED failed_writes /\ Goto("check")
       \/ /\ failed_writes < MaxFailedWrites
          /\ written' = Append(written, reply)
          /\ failed_writes' = failed_writes + 1 /\ Goto("write")
    /\ UNCHANGED <<stack_vars, fd, frame, reply, inbox, handled_late>>

\* The kernel refuses a frame while the interface is down; the loop does not look.
WriteReply ==
    /\ pc = "write"
    /\ \/ written' = Append(written, reply) /\ UNCHANGED failed_writes
       \/ /\ failed_writes < MaxFailedWrites
          /\ failed_writes' = failed_writes + 1 /\ UNCHANGED written
    /\ Goto("check")
    /\ UNCHANGED <<stack_vars, fd, frame, reply, inbox, handled_late>>

Close ==
    /\ pc = "close" /\ Goto("closed")
    /\ fd' = "none"
    /\ UNCHANGED <<stack_vars, frame, reply, inbox, written, failed_writes, handled_late>>

Loop ==
    \/ CheckRunning \/ FallAsleep \/ ReadFrame \/ ReadInterrupted
    \/ Handle \/ WriteReply \/ Close

Next == KernelSends \/ OnSignal \/ Killed \/ Start \/ Loop \/ ReadFails

\* The scheduler runs main whenever it can run.  No signal is owed to it, and no
\* frame: the other side may have nothing to say.
Spec == Init /\ [][Next]_vars /\ WF_vars(Start \/ Loop)
-----------------------------------------------------------------------------
(***************************************************************************)
(* Properties.                                                             *)
(***************************************************************************)
\* A start that fails is reported with the error of the call that failed, though a
\* close comes in between; the advice on privileges follows no other error than EPERM,
\* and the device is closed.
FailureReported ==
    pc = "failed" =>
      /\ reported = failed_with /\ fd = "none"
      /\ hint => failed_with = "EPERM"

\* Once the handlers are in, signals do not cut the program off in the middle of a
\* frame, however many come; unless each handler serves once, and a second one comes.
KilledOnlyAtStart ==
    pc = "killed" => rx = NoReply \/ (~bsd /\ ~g_running)

\* After the signal the stack sees one frame more at most: the one being read, or
\* the one that wakes the loop up.
OneFrameLate == handled_late <= 1

\* The IPv4 answers that reached the kernel bear the identifications the stack gave
\* them, in order; if no write failed there is no gap, and the last is the stack's.
IdsDelivered ==
    LET ip_frames == {k \in 1..Len(written) : written[k].ethertype = "IPv4"}
    IN  /\ \A j, k \in ip_frames : j < k => written[j].ip.id < written[k].ip.id
        /\ failed_writes = 0 /\ pc \notin {"write", "killed"} =>
             Cardinality(ip_frames) = ip_id - 1

FramesRead == SubSeq(Traffic, 1, Len(Traffic) - Len(traffic) - Len(inbox))

Responses == INSTANCE Responder
               WITH Answers <- Stack!AnswerTo, taken <- FramesRead,
                    delivered <- written, pending <- pc \in {"handle", "write"}

\* What the kernel gets is at most one answer to each frame, to the frame read last,
\* whatever signals and failed writes come in between.
AnswersOnce == Responses!Spec

\* Once the signal is in, anything that wakes the loop stops it: a frame that waits
\* when read is called or that comes later, a failed read, or the work it was at.
\* Nothing less does: asleep with no frame, the driver may never see the signal.
StopsOnceWoken ==
    (~g_running /\ (inbox # <<>> \/ pc \notin {"read", "sleep"}))
        ~> (pc \in {"closed", "killed"})
================================================================================
