--------------------------- MODULE FfmpegProcess ---------------------------
(***************************************************************************)
(* One FfmpegProcess of the C++ bridge: the FFmpeg child, the pump thread  *)
(* that moves packets from the session's queue to the child's standard     *)
(* input, the thread that reads its diagnostics, and the owner that reads  *)
(* its output and stops it.                                                *)
(*                                                                         *)
(* The child is the environment: it may convert, hang, ignore SIGTERM or   *)
(* die at any moment; it cannot survive SIGKILL.  Pipes hold a bounded     *)
(* number of packets, so that both sides can block on each other.          *)
(***************************************************************************)
EXTENDS Integers

CONSTANTS PipeSize,  \* packets that fit into a pipe
          QueueSize  \* packets that fit into the session's ByteQueue

ASSUME FfmpegAssumption == PipeSize \in Nat \ {0} /\ QueueSize \in Nat \ {0}

VARIABLES
  owner,                    \* where the owning handler is
  immediate,                \* the argument of stop_process
  stopRequested,            \* stop_requested_
  child, signal,            \* the process, the signal sent to it
  inPipe, outPipe,          \* packets in its standard input and output
  inputFd, outputFd, errorFd,
  pump,                     \* where the pump thread is
  errorPump,                \* where the diagnostics thread is
  inputEnd,                 \* input_end_reason_
  queue, queueClosed        \* ByteQueue, as the pump sees it

childVars == <<child, signal, inPipe, outPipe>>
fdVars    == <<inputFd, outputFd, errorFd>>
ownVars   == <<owner, immediate, stopRequested>>
pumpVars  == <<pump, inputEnd>>
queueVars == <<queue, queueClosed>>
vars == <<childVars, fdVars, ownVars, pumpVars, queueVars, errorPump>>

Init ==
  /\ owner = "starting" /\ immediate = FALSE /\ stopRequested = FALSE
  /\ child = "none" /\ signal = "none" /\ inPipe = 0 /\ outPipe = 0
  /\ inputFd = "none" /\ outputFd = "none" /\ errorFd = "none"
  /\ pump = "off" /\ inputEnd = "active"
  /\ errorPump = "off"
  /\ queue = 0 /\ queueClosed = FALSE

-----------------------------------------------------------------------------
(***************************************************************************)
(* The owner: constructor, start_pump, read, stop_process.                 *)
(***************************************************************************)

\* pipe2 and posix_spawn (or CreatePipe and CreateProcessW) succeed.
Spawn ==
  /\ owner = "starting" /\ owner' = "spawned"
  /\ child' = "running"
  /\ inputFd' = "open" /\ outputFd' = "open" /\ errorFd' = "open"
  /\ UNCHANGED <<immediate, stopRequested, signal, inPipe, outPipe, pumpVars,
                 queueVars, errorPump>>

StartErrorPump ==
  /\ owner = "spawned" /\ owner' = "ready"
  /\ errorPump' = "loop"
  /\ UNCHANGED <<immediate, stopRequested, childVars, fdVars, pumpVars, queueVars>>

start_pump ==
  /\ owner = "ready" /\ owner' = "serving"
  /\ pump' = "loop"
  /\ UNCHANGED <<immediate, stopRequested, childVars, fdVars, inputEnd,
                 queueVars, errorPump>>

\* A step of stop_process, with what none of them changes.
StopStep(from, to) ==
  /\ owner = from /\ owner' = to
  /\ UNCHANGED <<immediate, inPipe, outPipe, pumpVars, queueVars, errorPump>>

BeginStop(i) ==
  /\ owner' = "stopping"
  /\ immediate' = i
  /\ UNCHANGED <<stopRequested, childVars, fdVars, pumpVars, queueVars, errorPump>>

\* The constructor's catch: no process, or no diagnostics thread.
ConstructionFails ==
  /\ owner \in {"starting", "spawned"}
  /\ BeginStop(TRUE)

\* start_windows keeps its ends of the pipes although no process started.
WindowsSpawnFails ==
  /\ owner = "starting" /\ owner' = "stopping"
  /\ immediate' = TRUE
  /\ inputFd' = "open" /\ outputFd' = "open" /\ errorFd' = "open"
  /\ UNCHANGED <<stopRequested, childVars, pumpVars, queueVars, errorPump>>

\* The handler replaces the pipeline (immediate), or leaves for a reason of
\* its own: the client left, a send failed, the server stops.
Leave(i) ==
  /\ owner \in {"ready", "serving"}
  /\ BeginStop(i)

ReadOutput ==
  /\ owner = "serving" /\ outPipe > 0
  /\ outPipe' = outPipe - 1
  /\ UNCHANGED <<ownVars, child, signal, inPipe, fdVars, pumpVars, queueVars, errorPump>>

ReadEof ==
  /\ owner = "serving" /\ outPipe = 0 /\ child = "exited"
  /\ BeginStop(FALSE)

OutputStallsMutant ==
  /\ owner = "serving" /\ outPipe = 0 /\ child = "exited"
  /\ BeginStop(FALSE)

\* read(): output_stall_ms pass without output (FFMPEG_OUTPUT_TIMEOUT);
\* read_until_ready() has such a deadline too.
OutputStalls ==
  /\ owner = "serving" /\ outPipe = 0
  /\ BeginStop(FALSE)

RequestStop ==
  /\ StopStep("stopping", "signalling")
  /\ stopRequested' = TRUE
  /\ UNCHANGED <<child, signal, fdVars>>

SignalMutant ==
  /\ StopStep("signalling", IF child = "none" THEN "joinPump" ELSE "waiting")
  /\ pump \in {"off", "done"}
  /\ signal' = IF immediate THEN "kill" ELSE "term"
  /\ UNCHANGED <<stopRequested, child, fdVars>>

\* The child is told to end before the pump is joined, because the pump may
\* be blocked in a write to it.
Signal ==
  /\ StopStep("signalling", IF child = "none" THEN "joinPump" ELSE "waiting")
  /\ signal' = IF immediate THEN "kill" ELSE "term"
  /\ UNCHANGED <<stopRequested, child, fdVars>>

\* 500 ms without an exit: SIGKILL, and wait for as long as it takes.
Escalate ==
  /\ StopStep("waiting", "waiting")
  /\ child = "running" /\ signal = "term"
  /\ signal' = "kill"
  /\ UNCHANGED <<stopRequested, child, fdVars>>

Reap ==
  /\ StopStep("waiting", "joinPump")
  /\ child = "exited" /\ child' = "reaped"
  /\ UNCHANGED <<stopRequested, signal, fdVars>>

JoinPumpMutant ==
  /\ StopStep("joinPump", "closeInput")
  /\ UNCHANGED <<stopRequested, child, signal, fdVars>>

JoinPump ==
  /\ StopStep("joinPump", "closeInput")
  /\ pump \in {"off", "done"}
  /\ UNCHANGED <<stopRequested, child, signal, fdVars>>

Closed(fd) == IF fd = "open" THEN "closed" ELSE fd

CloseInputMutant ==
  /\ StopStep("closeInput", "joinError")
  /\ UNCHANGED <<stopRequested, child, signal, fdVars>>

\* close_input(), for a pump that never ran.
CloseInput ==
  /\ StopStep("closeInput", "joinError")
  /\ inputFd' = Closed(inputFd)
  /\ UNCHANGED <<stopRequested, child, signal, outputFd, errorFd>>

JoinError ==
  /\ StopStep("joinError", "closeFds")
  /\ errorPump \in {"off", "done"}
  /\ UNCHANGED <<stopRequested, child, signal, fdVars>>

CloseFds ==
  /\ StopStep("closeFds", "gone")
  /\ outputFd' = Closed(outputFd) /\ errorFd' = Closed(errorFd)
  /\ UNCHANGED <<stopRequested, child, signal, inputFd>>

stop_process ==
  \/ RequestStop \/ Signal \/ Escalate \/ Reap \/ JoinPump \/ CloseInput \/ JoinError
  \/ CloseFds

-----------------------------------------------------------------------------
(***************************************************************************)
(* The pump thread.                                                        *)
(***************************************************************************)

PumpGoes(from, to) ==
  /\ pump = from /\ pump' = to
  /\ UNCHANGED <<ownVars, child, signal, outPipe, outputFd, errorFd, errorPump, queueClosed>>

PumpTests ==
  /\ PumpGoes("loop", IF stopRequested THEN "judging" ELSE "pop")
  /\ UNCHANGED <<inputEnd, queue, inPipe, inputFd>>

PumpPops ==
  /\ PumpGoes("pop", "write")
  /\ queue > 0 /\ queue' = queue - 1
  /\ UNCHANGED <<inputEnd, inPipe, inputFd>>

\* pop() returns false: closed and empty, or nothing came for 200 ms.
PumpFindsNothing ==
  /\ PumpGoes("pop", "nothing")
  /\ queue = 0
  /\ UNCHANGED <<inputEnd, queue, inPipe, inputFd>>

\* ByteQueue::closed()
Drained == queueClosed /\ queue = 0

PumpGoesOn ==
  /\ PumpGoes("nothing", IF stopRequested \/ Drained THEN "judging" ELSE "loop")
  /\ UNCHANGED <<inputEnd, queue, inPipe, inputFd>>

\* no_sdk_data_ms have passed since the last packet.
PumpStarves ==
  /\ PumpGoes("nothing", "judging")
  /\ ~stopRequested /\ ~Drained
  /\ inputEnd' = "sdk_data_timeout"
  /\ UNCHANGED <<queue, inPipe, inputFd>>

\* write_input() blocks while the pipe is full and somebody may read it.
PumpWrites ==
  /\ PumpGoes("write", "loop")
  /\ child = "running" /\ inPipe < PipeSize
  /\ inPipe' = inPipe + 1
  /\ UNCHANGED <<inputEnd, queue, inputFd>>

\* EPIPE: the child has ended.
PumpWriteFails ==
  /\ PumpGoes("write", "judging")
  /\ child \in {"exited", "reaped"}
  /\ UNCHANGED <<inputEnd, queue, inPipe, inputFd>>

\* After the loop, whatever ended it.
PumpJudges ==
  /\ PumpGoes("judging", "closing")
  /\ inputEnd' = IF ~stopRequested /\ ~Drained THEN "sdk_data_timeout" ELSE inputEnd
  /\ UNCHANGED <<queue, inPipe, inputFd>>

PumpCloses ==
  /\ PumpGoes("closing", "done")
  /\ inputFd' = Closed(inputFd)
  /\ UNCHANGED <<inputEnd, queue, inPipe>>

PumpNext ==
  \/ PumpTests \/ PumpPops \/ PumpFindsNothing \/ PumpGoesOn \/ PumpStarves
  \/ PumpWrites \/ PumpWriteFails \/ PumpJudges \/ PumpCloses

\* read_diagnostics() returns at end of file, or when its poll finds nothing
\* after a stop was requested.
read_diagnostics ==
  /\ errorPump = "loop"
  /\ stopRequested \/ child \in {"exited", "reaped"}
  /\ errorPump' = "done"
  /\ UNCHANGED <<ownVars, childVars, fdVars, pumpVars, queueVars>>

-----------------------------------------------------------------------------
(***************************************************************************)
(* The environment: the child, and the session's queue.                    *)
(***************************************************************************)

\* The child takes input and produces output, if it has room for it.
Convert(n) ==
  /\ child = "running" /\ inPipe > 0
  /\ outPipe + n <= PipeSize
  /\ inPipe' = inPipe - 1 /\ outPipe' = outPipe + n
  /\ UNCHANGED <<child, signal, ownVars, fdVars, pumpVars, queueVars, errorPump>>

\* It ends: end of input, a crash, a signal.
ChildExits ==
  /\ child = "running" /\ child' = "exited"
  /\ inPipe' = 0
  /\ UNCHANGED <<signal, outPipe, ownVars, fdVars, pumpVars, queueVars, errorPump>>

SdkDelivers ==
  /\ ~queueClosed /\ queue < QueueSize
  /\ queue' = queue + 1
  /\ UNCHANGED <<queueClosed, childVars, ownVars, fdVars, pumpVars, errorPump>>

SessionEnds ==
  /\ ~queueClosed /\ queueClosed' = TRUE
  /\ UNCHANGED <<queue, childVars, ownVars, fdVars, pumpVars, errorPump>>

-----------------------------------------------------------------------------
Destroyed == owner = "gone" /\ UNCHANGED vars

Next ==
  \/ Spawn \/ StartErrorPump \/ start_pump \/ ConstructionFails \/ WindowsSpawnFails
  \/ ReadOutput \/ ReadEof \/ OutputStalls \/ stop_process
  \/ \E i \in BOOLEAN : Leave(i)
  \/ PumpNext \/ read_diagnostics
  \/ \E n \in {0, 1} : Convert(n)
  \/ ChildExits \/ SdkDelivers \/ SessionEnds \/ Destroyed

Spec == Init /\ [][Next]_vars

\* Threads run, reads have deadlines, and SIGKILL works.  The child need not
\* convert, obey SIGTERM or notice the end of its input.
Fairness ==
  /\ WF_vars(stop_process)
  /\ WF_vars(ReadOutput \/ ReadEof \/ OutputStalls)
  /\ WF_vars(PumpNext) /\ WF_vars(read_diagnostics)
  /\ WF_vars(signal = "kill" /\ ChildExits)

FairSpec == Spec /\ Fairness

-----------------------------------------------------------------------------
FdStates == {"none", "open", "closed"}

\* Types.
TypeOK ==
  /\ owner \in {"starting", "spawned", "ready", "serving", "stopping", "signalling",
                "waiting", "joinPump", "closeInput", "joinError", "closeFds", "gone"}
  /\ immediate \in BOOLEAN /\ stopRequested \in BOOLEAN
  /\ child \in {"none", "running", "exited", "reaped"}
  /\ signal \in {"none", "term", "kill"}
  /\ inPipe \in 0..PipeSize /\ outPipe \in 0..PipeSize
  /\ inputFd \in FdStates /\ outputFd \in FdStates /\ errorFd \in FdStates
  /\ pump \in {"off", "loop", "pop", "nothing", "write", "judging", "closing", "done"}
  /\ errorPump \in {"off", "loop", "done"}
  /\ inputEnd \in {"active", "sdk_data_timeout"}
  /\ queue \in 0..QueueSize /\ queueClosed \in BOOLEAN

\* A thread that may still use a descriptor finds it open: the number cannot
\* have been reused for another session's pipe (main.cpp 1799-1801, 1827).
NoUseAfterClose ==
  /\ pump \in {"write", "closing"} => inputFd = "open"
  /\ errorPump = "loop" => errorFd = "open"
  /\ owner = "serving" => outputFd = "open"

\* Wherever construction or service was interrupted, stop_process leaves no
\* zombie, no thread and no open pipe.
NothingLeft ==
  owner = "gone" =>
    /\ child \in {"none", "reaped"}
    /\ pump \in {"off", "done"} /\ errorPump \in {"off", "done"}
    /\ "open" \notin {inputFd, outputFd, errorFd}

\* Stopping terminates although the child hangs and the pump is blocked in a
\* write to it (main.cpp 1799).
StopTerminates == owner = "stopping" ~> owner = "gone"

\* Once the input has ended, the handler does not serve for ever, although
\* FFmpeg may hang instead of exiting.
InputEndEndsService == pump = "done" ~> owner # "serving"

-----------------------------------------------------------------------------
(***************************************************************************)
(* The inductive invariant behind the proofs: what the owner's position    *)
(* says about the child, the two threads and the descriptors.              *)
(***************************************************************************)

PumpDone      == pump \in {"off", "done"}
ErrorPumpDone == errorPump \in {"off", "done"}

\* A child that is not reaped keeps its owner from joining the threads.
ChildInv ==
  owner \in {"joinPump", "closeInput", "joinError", "closeFds", "gone"} =>
    child \in {"none", "reaped"}

\* The pump runs from start_pump until it is joined; it closes the pipe it
\* writes to, and close_input() the pipe of a pump that never ran.
PumpInv ==
  /\ ~PumpDone =>
       /\ inputFd = "open"
       /\ owner \in {"serving", "stopping", "signalling", "waiting", "joinPump"}
  /\ owner \in {"spawned", "ready"} => pump = "off" /\ inputFd = "open"
  /\ owner \in {"joinError", "closeFds", "gone"} => inputFd # "open"

\* The diagnostics thread runs from StartErrorPump until it is joined, and the
\* other two descriptors are closed after that.
ErrorInv ==
  /\ owner = "spawned" => errorPump = "off" /\ errorFd = "open" /\ outputFd = "open"
  /\ owner \in {"ready", "serving"} => errorFd = "open" /\ outputFd = "open"
  /\ ~ErrorPumpDone => errorFd = "open" /\ owner \notin {"closeFds", "gone"}
  /\ owner = "gone" => errorFd # "open" /\ outputFd # "open"

\* Before Spawn there is nothing.
StartInv == owner = "starting" => child = "none" /\ pump = "off" /\ errorPump = "off"

IInv == ChildInv /\ PumpInv /\ ErrorInv /\ StartInv
=============================================================================
