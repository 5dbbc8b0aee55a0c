------------------------ MODULE WindowsServiceProofs ------------------------
(***************************************************************************)
(* Proofs about WindowsService for any number of progress reports and of   *)
(* starts: types, the inductive invariant IInv with the two safety         *)
(* properties that follow from it, and the safety part of the refinement   *)
(* of ServiceLifecycle.                                                    *)
(***************************************************************************)
EXTENDS WindowsService, TLAPS

\* A service that was never started is well typed.
LEMMA TypeInit == Init => TypeOK
<1>1. Init => checkPoint \in 0..MaxProgress
  BY ServiceAssumption DEF Init, ServiceAssumption
<1> QED
  BY <1>1 DEF Init, TypeOK

\* A checkpoint counts reports of one pending state and starts again with
\* the next.
LEMMA CheckPointStep ==
  TypeOK /\ ReportInv /\ [Next]_vars => checkPoint' \in 0..MaxProgress
<1> SUFFICES ASSUME TypeOK, ReportInv, [Next]_vars PROVE checkPoint' \in 0..MaxProgress
  OBVIOUS
<1>1. checkPoint \in 0..MaxProgress /\ 0 \in 0..MaxProgress /\ 1 \in 0..MaxProgress
  BY ServiceAssumption DEF ServiceAssumption, TypeOK
\* The first report of START_PENDING and of STOP_PENDING.
<1>2. CASE RegisterHandler \/ Control
  <2>1. state \notin Pending
    BY <1>2 DEF RegisterHandler, Control, ReportInv, Pending
  <2>2. checkPoint = 0
    BY <2>1 DEF ReportInv
  <2> QED
    BY <1>1, <1>2, <2>2 DEF RegisterHandler, Control, report
<1>3. CASE Progress
  BY <1>1, <1>3, ServiceAssumption DEF ServiceAssumption, Progress, Work, report
<1>4. CASE Ready \/ WorkerNotCreated \/ JoinWorker
  BY <1>1, <1>4 DEF Ready, WorkerNotCreated, JoinWorker, ReportStopped, report, Pending
<1>5. CASE Crash \/ RegisterFails \/ Watchdog
  BY <1>1, <1>5 DEF Crash, RegisterFails, Watchdog, Vanish
<1>6. CASE \/ StartProcess \/ StartWorker \/ LeaveProcess \/ SixtySeconds \/ Listen
           \/ Close \/ Throw \/ Finish \/ UNCHANGED vars
  <2>1. checkPoint' = checkPoint
    BY <1>6 DEF StartProcess, StartWorker, LeaveProcess, SixtySeconds, Listen, Close,
                Throw, Finish, vars, statusVars
  <2> QED
    BY <1>1, <2>1
<1> QED
  BY <1>2, <1>3, <1>4, <1>5, <1>6 DEF Next, ServiceMain

\* Every step keeps the types.
LEMMA TypeStep == TypeOK /\ ReportInv /\ [Next]_vars => TypeOK'
<1> SUFFICES ASSUME TypeOK, ReportInv, [Next]_vars PROVE TypeOK'
  OBVIOUS
<1> USE CheckPointStep DEF TypeOK, vars, statusVars, workVars, stopVars
<1>1. CASE StartProcess
  BY <1>1 DEF StartProcess
<1>2. CASE Crash \/ RegisterFails \/ Watchdog
  BY <1>2 DEF Crash, RegisterFails, Watchdog, Vanish
<1>3. CASE Control
  BY <1>3 DEF Control, report
<1>4. CASE RegisterHandler
  BY <1>4 DEF RegisterHandler, report
<1>5. CASE StartWorker
  BY <1>5 DEF StartWorker
<1>6. CASE WorkerNotCreated \/ JoinWorker
  BY <1>6 DEF WorkerNotCreated, JoinWorker, ReportStopped, report
<1>7. CASE LeaveProcess
  BY <1>7 DEF LeaveProcess
<1>8. CASE SixtySeconds
  BY <1>8 DEF SixtySeconds
<1>9. CASE Progress \/ Listen \/ Ready
  BY <1>9 DEF Progress, Listen, Ready, Work, report
<1>10. CASE Close \/ Throw \/ Finish
  BY <1>10 DEF Close, Throw, Finish, Work
<1>11. CASE UNCHANGED vars
  BY <1>11
<1> QED
  BY <1>1, <1>2, <1>3, <1>4, <1>5, <1>6, <1>7, <1>8, <1>9, <1>10, <1>11
     DEF Next, ServiceMain

\* It is stopped, without a worker, and has succeeded in nothing.
LEMMA InvInit == Init => IInv
  BY DEF Init, IInv, ReportInv, WorkerInv, ResultInv, Pending

\* Every step keeps the three parts of the invariant.
LEMMA InvStep == TypeOK /\ IInv /\ [Next]_vars => IInv'
<1> SUFFICES ASSUME TypeOK, IInv, [Next]_vars PROVE IInv'
  OBVIOUS
<1> USE DEF TypeOK, IInv, ReportInv, WorkerInv, ResultInv, Pending,
            vars, statusVars, workVars, stopVars
\* The new process starts from what the old one has reported last: stopped.
<1>1. CASE StartProcess
  BY <1>1 DEF StartProcess
<1>2. CASE Crash \/ RegisterFails \/ Watchdog
  BY <1>2 DEF Crash, RegisterFails, Watchdog, Vanish
<1>3. CASE Control
  BY <1>3 DEF Control, report
<1>4. CASE RegisterHandler
  BY <1>4 DEF RegisterHandler, report
<1>5. CASE StartWorker
  BY <1>5 DEF StartWorker
\* The exit code is the result of a worker that is joined, or of none.
<1>6. CASE WorkerNotCreated \/ JoinWorker
  <2>1. ReportInv'
    BY <1>6 DEF WorkerNotCreated, JoinWorker, ReportStopped, report
  <2>2. WorkerInv'
    BY <1>6 DEF WorkerNotCreated, JoinWorker, ReportStopped
  <2>3. ResultInv'
    BY <1>6 DEF WorkerNotCreated, JoinWorker, ReportStopped
  <2> QED
    BY <2>1, <2>2, <2>3
<1>7. CASE LeaveProcess \/ SixtySeconds
  BY <1>7 DEF LeaveProcess, SixtySeconds
<1>8. CASE Progress
  BY <1>8 DEF Progress, Work, report
<1>9. CASE Ready
  BY <1>9 DEF Ready, Work, report
<1>10. CASE Listen \/ Close \/ Throw
  BY <1>10 DEF Listen, Close, Throw, Work
<1>11. CASE Finish
  BY <1>11 DEF Finish, Work
<1>12. CASE UNCHANGED vars
  BY <1>12
<1> QED
  BY <1>1, <1>2, <1>3, <1>4, <1>5, <1>6, <1>7, <1>8, <1>9, <1>10, <1>11, <1>12
     DEF Next, ServiceMain

\* Types and the inductive invariant hold throughout.
THEOREM Inductive == Spec => [](TypeOK /\ IInv)
<1>1. TypeOK /\ IInv /\ [Next]_vars => (TypeOK /\ IInv)'
  BY TypeStep, InvStep DEF IInv
<1> QED
  BY <1>1, TypeInit, InvInit, PTL DEF Spec

\* SERVICE_STOPPED is not reported while the worker uses the SDK.
THEOREM JoinSafety == Spec => []StoppedMeansJoined
<1>1. IInv => StoppedMeansJoined
  BY DEF IInv, WorkerInv, StoppedMeansJoined
<1> QED
  BY <1>1, Inductive, PTL

\* Exit code 0 means that a stop was asked for and completed.
THEOREM ExitSafety == Spec => []ZeroMeansOrderly
<1>1. IInv => ZeroMeansOrderly
  BY DEF IInv, ResultInv, ZeroMeansOrderly
<1> QED
  BY <1>1, Inductive, PTL

-----------------------------------------------------------------------------
(* The service implements ServiceLifecycle, apart from its fairness. *)

\* Every step moves the reported state as the lifecycle allows, or not at all.
LEMMA LifecycleStep ==
  TypeOK /\ IInv /\ [Next]_vars => [Lifecycle!Next]_state
<1> SUFFICES ASSUME TypeOK, IInv, [Next]_vars
             PROVE  Lifecycle!Next \/ UNCHANGED state
  OBVIOUS
<1> USE DEF TypeOK, IInv, ReportInv, Lifecycle!Next, Lifecycle!Launch, Lifecycle!Up,
            Lifecycle!Ask, Lifecycle!Down, Lifecycle!Move
<1>1. CASE RegisterHandler
  BY <1>1 DEF RegisterHandler, report
<1>2. CASE Ready
  BY <1>2 DEF Ready, report
<1>3. CASE Control
  BY <1>3 DEF Control, report
<1>4. CASE Crash \/ RegisterFails \/ Watchdog
  BY <1>4 DEF Crash, RegisterFails, Watchdog, Vanish
<1>5. CASE WorkerNotCreated \/ JoinWorker
  BY <1>5 DEF WorkerNotCreated, JoinWorker, ReportStopped, report
<1>6. CASE Progress
  BY <1>6 DEF Progress, report
<1>7. CASE \/ StartProcess \/ StartWorker \/ LeaveProcess \/ SixtySeconds \/ Listen
           \/ Close \/ Throw \/ Finish \/ UNCHANGED vars
  BY <1>7 DEF StartProcess, StartWorker, LeaveProcess, SixtySeconds, Listen, Close,
              Throw, Finish, vars, statusVars
<1> QED
  BY <1>1, <1>2, <1>3, <1>4, <1>5, <1>6, <1>7 DEF Next, ServiceMain

\* RUNNING is reported after START_PENDING only, and never again once the
\* service was asked to stop; that an accepted stop ends is left to TLC.
THEOREM Refinement == Spec => Lifecycle!Spec
<1>1. Init => Lifecycle!Init
  BY DEF Init, Lifecycle!Init
<1> QED
  BY <1>1, LifecycleStep, Inductive, PTL DEF Spec, Lifecycle!Spec
=============================================================================
