--------------------------- MODULE WindowsService ---------------------------
(***************************************************************************)
(* The Windows service around run_bridge (windows-service.cpp): the        *)
(* process the service manager starts, service_main with its watchdog, the *)
(* worker thread that runs the bridge, and the control handler.            *)
(*                                                                         *)
(* Every use of status is made under status_mutex and is one action.  The  *)
(* bridge is reduced to the phases that the service can tell apart: it     *)
(* starts, listens, serves until g_running is cleared, closes (the end of  *)
(* run_server, which BridgeServer models), or unwinds after an exception.  *)
(* A vendor call may hang in any phase.                                    *)
(***************************************************************************)
EXTENDS Integers

CONSTANT MaxProgress  \* bound: progress reports of one start

ASSUME ServiceAssumption == MaxProgress \in Nat \ {0}

VARIABLES
  process,      \* TRUE: the process exists
  state,        \* status.dwCurrentState, as the service manager shows it
  checkPoint,   \* status.dwCheckPoint
  exit,         \* what the service manager knows of the last end
  main,         \* where service_main is
  worker,       \* phase of the worker thread
  result,       \* result_code
  running,      \* g_running
  stopStarted   \* stop_started: unset, set, or set 60 seconds ago

statusVars == <<state, checkPoint, exit>>
workVars   == <<worker, result>>
stopVars   == <<running, stopStarted>>
vars == <<process, statusVars, main, workVars, stopVars>>

Init ==
  /\ process = FALSE
  /\ state = "stopped" /\ checkPoint = 0 /\ exit = "none"
  /\ main = "dispatched" /\ worker = "none" /\ result = "error"
  /\ running = TRUE /\ stopStarted = "unset"

Pending == {"start_pending", "stop_pending"}

\* report(): the checkpoint advances while a state is pending.
report(s) ==
  /\ state' = s
  /\ checkPoint' = IF s \in Pending THEN checkPoint + 1 ELSE 0

-----------------------------------------------------------------------------
(***************************************************************************)
(* The service manager.                                                    *)
(***************************************************************************)

\* At boot, for an operator, or as a recovery action: a new process, whose
\* wmain calls StartServiceCtrlDispatcherW.
StartProcess ==
  /\ ~process /\ process' = TRUE
  /\ exit' = "none"
  /\ main' = "dispatched" /\ worker' = "none" /\ result' = "error"
  /\ running' = TRUE /\ stopStarted' = "unset"
  /\ UNCHANGED <<state, checkPoint>>

\* The process is gone: what it had reported last no longer counts.
Vanish(how) ==
  /\ process /\ process' = FALSE
  /\ state' = "stopped" /\ checkPoint' = 0
  /\ exit' = how
  /\ UNCHANGED <<main, workVars, stopVars>>

\* A fault in the vendor's libraries kills the process.
Crash == main # "reported" /\ Vanish("crashed")

-----------------------------------------------------------------------------
(***************************************************************************)
(* service_main                                                            *)
(***************************************************************************)

RegisterHandler ==
  /\ process /\ main = "dispatched" /\ main' = "registered"
  /\ report("start_pending")
  /\ UNCHANGED <<process, exit, workVars, stopVars>>

\* Without a status handle there is nothing to report to.
RegisterFails ==
  /\ main = "dispatched"
  /\ Vanish("crashed")

StartWorker ==
  /\ process /\ main = "registered" /\ main' = "waiting"
  /\ worker' = "starting"
  /\ UNCHANGED <<process, statusVars, result, stopVars>>

\* report(SERVICE_STOPPED, result_code).
ReportStopped ==
  /\ main' = "reported"
  /\ report("stopped")
  /\ exit' = result
  /\ UNCHANGED <<process, workVars, stopVars>>

WorkerNotCreated ==
  /\ process /\ main = "registered"
  /\ ReportStopped

JoinWorkerMutant ==
  /\ process /\ main = "waiting" /\ (worker = "finished" \/ stopStarted = "overdue")
  /\ ReportStopped

\* The loop has seen finished; the thread is joined.
JoinWorker ==
  /\ process /\ main = "waiting" /\ worker = "finished"
  /\ ReportStopped

\* The watchdog: 60 seconds after the stop request the worker is not done.
Watchdog ==
  /\ main = "waiting" /\ worker # "finished" /\ stopStarted = "overdue"
  /\ Vanish("crashed")

\* The dispatcher returns, and with it wmain.
LeaveProcess ==
  /\ process /\ main = "reported" /\ process' = FALSE
  /\ UNCHANGED <<statusVars, main, workVars, stopVars>>

SixtySeconds ==
  /\ process /\ stopStarted = "set" /\ stopStarted' = "overdue"
  /\ UNCHANGED <<process, statusVars, main, workVars, running>>

-----------------------------------------------------------------------------
(***************************************************************************)
(* The control handler, called by the dispatcher's thread.  The service    *)
(* manager delivers STOP and SHUTDOWN only to a service that accepts them, *)
(* and this one does so only while it reports RUNNING.                     *)
(***************************************************************************)

ControlMutant ==
  /\ process /\ state = "running"
  /\ report("stop_pending")
  /\ running' = FALSE
  /\ UNCHANGED <<process, exit, main, workVars, stopStarted>>

Control ==
  /\ process /\ state = "running"
  /\ report("stop_pending")
  /\ stopStarted' = "set"
  /\ running' = FALSE
  /\ UNCHANGED <<process, exit, main, workVars>>

-----------------------------------------------------------------------------
(***************************************************************************)
(* The worker: run_bridge and run_server.                                  *)
(***************************************************************************)

Work(from, to) ==
  /\ process /\ worker = from /\ worker' = to
  /\ UNCHANGED <<process, exit, main, stopVars>>

\* After NET_DVR_Init and after every FFmpeg that detect() has run.
Progress ==
  /\ Work("starting", "starting")
  /\ state = "start_pending" /\ checkPoint < MaxProgress
  /\ report("start_pending")
  /\ UNCHANGED result

Listen ==
  /\ Work("starting", "listening")
  /\ UNCHANGED <<state, checkPoint, result>>

Ready ==
  /\ Work("listening", "serving")
  /\ IF state = "start_pending"
     THEN report("running")
     ELSE UNCHANGED <<state, checkPoint>>
  /\ UNCHANGED result

\* The accept loop ends; connections are joined and the SDK is cleaned up.
Close ==
  /\ ~running /\ Work("serving", "closing")
  /\ UNCHANGED <<state, checkPoint, result>>

Throw ==
  /\ \E from \in {"starting", "listening", "serving"} : Work(from, "unwinding")
  /\ UNCHANGED <<state, checkPoint, result>>

\* The end of run_bridge; a shutdown that completes in time.
FinishMutant ==
  /\ \E from \in {"closing", "unwinding"} : Work(from, "finished")
  /\ result' = "ok"
  /\ UNCHANGED <<state, checkPoint>>

Finish ==
  /\ \/ Work("closing", "finished") /\ result' = "ok"
     \/ Work("unwinding", "finished") /\ result' = "error"
  /\ UNCHANGED <<state, checkPoint>>

-----------------------------------------------------------------------------
ServiceMain == RegisterHandler \/ RegisterFails \/ StartWorker \/ WorkerNotCreated
                 \/ JoinWorker \/ Watchdog

Next ==
  \/ StartProcess \/ Crash \/ Control
  \/ ServiceMain \/ LeaveProcess \/ SixtySeconds
  \/ Progress \/ Listen \/ Ready \/ Close \/ Throw \/ Finish

Spec == Init /\ [][Next]_vars

\* service_main polls every 100 ms, and time passes.  The worker owes
\* nothing: any call into the vendor's SDK may hang.
FairSpec == Spec /\ WF_vars(ServiceMain) /\ WF_vars(SixtySeconds)

-----------------------------------------------------------------------------
\* Types; a checkpoint starts again with every pending state.
TypeOK ==
  /\ process \in BOOLEAN
  /\ state \in {"stopped", "start_pending", "running", "stop_pending"}
  /\ checkPoint \in 0..MaxProgress
  /\ exit \in {"none", "ok", "error", "crashed"}
  /\ main \in {"dispatched", "registered", "waiting", "reported"}
  /\ worker \in {"none", "starting", "listening", "serving", "closing",
                 "unwinding", "finished"}
  /\ result \in {"ok", "error"}
  /\ running \in BOOLEAN
  /\ stopStarted \in {"unset", "set", "overdue"}

\* SERVICE_STOPPED is never reported while the worker, and with it the SDK, is
\* in use, even if a stop takes too long (windows-service.cpp 67-71).
StoppedMeansJoined == main = "reported" => worker \in {"none", "finished"}

\* Exit code 0, which keeps the service manager from restarting the service,
\* means that somebody asked for the stop and the shutdown was completed.
ZeroMeansOrderly == exit = "ok" => ~running /\ worker = "finished"

Lifecycle == INSTANCE ServiceLifecycle

\* The service keeps the promises of ServiceLifecycle, among them that every
\* accepted stop ends although the vendor's SDK hangs.
ImplementsLifecycle == Lifecycle!FairSpec

-----------------------------------------------------------------------------
(***************************************************************************)
(* The inductive invariant behind the proofs.                              *)
(***************************************************************************)

\* What was reported fits where service_main is; a checkpoint counts reports
\* of one pending state.
ReportInv ==
  /\ ~process \/ main \in {"dispatched", "reported"} => state = "stopped"
  /\ state \notin Pending => checkPoint = 0

\* The worker exists from StartWorker until it is joined.
WorkerInv ==
  /\ main \in {"dispatched", "registered"} => worker = "none"
  /\ main = "reported" => worker \in {"none", "finished"}

\* Success is the result of a worker that was asked to stop and is through.
ResultInv ==
  /\ worker = "closing" => ~running
  /\ result = "ok" => worker = "finished" /\ ~running
  /\ exit = "ok" => main = "reported" /\ result = "ok"

IInv == ReportInv /\ WorkerInv /\ ResultInv
=============================================================================
