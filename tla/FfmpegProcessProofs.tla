------------------------ MODULE FfmpegProcessProofs ------------------------
(***************************************************************************)
(* Proofs about FfmpegProcess for pipes and queues of any size: types, the *)
(* inductive invariant IInv, and that no thread uses a closed descriptor   *)
(* and nothing is left behind, wherever the service was interrupted.       *)
(***************************************************************************)
EXTENDS FfmpegProcess, TLAPS

\* No pipe or queue holds more than fits, and none holds less than nothing.
LevelsOK == inPipe \in 0..PipeSize /\ outPipe \in 0..PipeSize /\ queue \in 0..QueueSize

\* Pipes and queue begin empty.
LEMMA LevelsInit == Init => LevelsOK
  BY FfmpegAssumption DEF FfmpegAssumption, Init, LevelsOK

\* Whoever fills a pipe or the queue finds room, whoever empties it finds
\* something.
LEMMA LevelsStep == LevelsOK /\ [Next]_vars => LevelsOK'
<1> SUFFICES ASSUME LevelsOK, [Next]_vars PROVE LevelsOK'
  OBVIOUS
<1> USE FfmpegAssumption
    DEF FfmpegAssumption, LevelsOK, childVars, fdVars, ownVars, pumpVars, queueVars
<1>1. CASE Spawn \/ StartErrorPump \/ start_pump \/ ConstructionFails \/ WindowsSpawnFails
  BY <1>1 DEF Spawn, StartErrorPump, start_pump, ConstructionFails, WindowsSpawnFails,
              BeginStop
<1>2. CASE ReadOutput
  BY <1>2 DEF ReadOutput
<1>3. CASE ReadEof \/ OutputStalls \/ \E i \in BOOLEAN : Leave(i)
  BY <1>3 DEF ReadEof, OutputStalls, Leave, BeginStop
<1>4. CASE stop_process
  BY <1>4 DEF stop_process, RequestStop, Signal, Escalate, Reap, JoinPump, CloseInput,
              JoinError, CloseFds, StopStep
<1>5. CASE PumpPops
  BY <1>5 DEF PumpPops, PumpGoes
<1>6. CASE PumpWrites
  BY <1>6 DEF PumpWrites, PumpGoes
<1>7. CASE \/ PumpTests \/ PumpFindsNothing \/ PumpGoesOn \/ PumpStarves
           \/ PumpWriteFails \/ PumpJudges \/ PumpCloses
  BY <1>7 DEF PumpTests, PumpFindsNothing, PumpGoesOn, PumpStarves, PumpWriteFails,
              PumpJudges, PumpCloses, PumpGoes
<1>8. CASE read_diagnostics
  BY <1>8 DEF read_diagnostics
<1>9. ASSUME NEW n \in {0, 1}, Convert(n) PROVE LevelsOK'
  BY <1>9 DEF Convert
<1>10. CASE ChildExits
  BY <1>10 DEF ChildExits
<1>11. CASE SdkDelivers
  BY <1>11 DEF SdkDelivers
<1>12. CASE SessionEnds
  BY <1>12 DEF SessionEnds
<1>13. CASE Destroyed \/ UNCHANGED vars
  BY <1>13 DEF Destroyed, vars
<1> QED
  BY <1>1, <1>2, <1>3, <1>4, <1>5, <1>6, <1>7, <1>8, <1>9, <1>10, <1>11, <1>12, <1>13
     DEF Next, PumpNext

\* Nothing has been started yet, and everything is well typed.
LEMMA InvInit == Init => TypeOK /\ IInv
<1>1. Init => TypeOK
  BY LevelsInit DEF LevelsOK, Init, TypeOK, FdStates
<1>2. Init => IInv
  BY DEF Init, IInv, ChildInv, PumpInv, PumpDone, ErrorInv, ErrorPumpDone, StartInv
<1> QED
  BY <1>1, <1>2

\* Every step keeps types and invariant: the owner's steps one by one, those
\* of the threads and of the environment in groups.
LEMMA InvStep == TypeOK /\ IInv /\ [Next]_vars => (TypeOK /\ IInv)'
<1> SUFFICES ASSUME TypeOK, IInv, [Next]_vars PROVE TypeOK' /\ IInv'
  OBVIOUS
<1>0. LevelsOK'
  BY LevelsStep DEF TypeOK, LevelsOK
<1> USE <1>0
    DEF LevelsOK, TypeOK, FdStates, IInv, ChildInv, PumpInv, PumpDone, ErrorInv,
        ErrorPumpDone, StartInv, childVars, fdVars, ownVars, pumpVars, queueVars
<1>1. CASE Spawn
  BY <1>1 DEF Spawn
<1>2. CASE StartErrorPump
  BY <1>2 DEF StartErrorPump
<1>3. CASE start_pump
  BY <1>3 DEF start_pump
<1>4. CASE ConstructionFails
  BY <1>4 DEF ConstructionFails, BeginStop
<1>5. CASE WindowsSpawnFails
  BY <1>5 DEF WindowsSpawnFails
<1>6. CASE ReadOutput
  BY <1>6 DEF ReadOutput
<1>7. CASE ReadEof
  BY <1>7 DEF ReadEof, BeginStop
<1>8. CASE OutputStalls
  <2>1. owner = "serving" /\ owner' = "stopping" /\ immediate' \in BOOLEAN
    BY <1>8 DEF OutputStalls, BeginStop
  <2>2. UNCHANGED <<stopRequested, childVars, fdVars, pumpVars, queueVars, errorPump>>
    BY <1>8 DEF OutputStalls, BeginStop
  <2>3. TypeOK'
    BY <2>1, <2>2
  <2>4. IInv'
    BY <2>1, <2>2
  <2> QED
    BY <2>3, <2>4
<1>9. ASSUME NEW i \in BOOLEAN, Leave(i) PROVE TypeOK' /\ IInv'
  BY <1>9 DEF Leave, BeginStop
<1>10. CASE RequestStop
  BY <1>10 DEF RequestStop, StopStep
<1>11. CASE Signal
  BY <1>11 DEF Signal, StopStep
<1>12. CASE Escalate
  BY <1>12 DEF Escalate, StopStep
<1>13. CASE Reap
  BY <1>13 DEF Reap, StopStep
<1>14. CASE JoinPump
  BY <1>14 DEF JoinPump, StopStep
<1>15. CASE CloseInput
  BY <1>15 DEF CloseInput, StopStep, Closed
<1>16. CASE JoinError
  BY <1>16 DEF JoinError, StopStep
<1>17. CASE CloseFds
  BY <1>17 DEF CloseFds, StopStep, Closed
<1>18. CASE \/ PumpTests \/ PumpPops \/ PumpFindsNothing \/ PumpGoesOn \/ PumpStarves
            \/ PumpWrites \/ PumpWriteFails \/ PumpJudges
  BY <1>18 DEF PumpTests, PumpPops, PumpFindsNothing, PumpGoesOn, PumpStarves, PumpWrites,
               PumpWriteFails, PumpJudges, PumpGoes
<1>19. CASE PumpCloses
  BY <1>19 DEF PumpCloses, PumpGoes, Closed
<1>20. CASE read_diagnostics
  BY <1>20 DEF read_diagnostics
<1>21. ASSUME NEW n \in {0, 1}, Convert(n) PROVE TypeOK' /\ IInv'
  BY <1>21 DEF Convert
<1>22. CASE ChildExits
  BY <1>22 DEF ChildExits
<1>23. CASE SdkDelivers
  BY <1>23 DEF SdkDelivers
<1>24. CASE SessionEnds
  BY <1>24 DEF SessionEnds
<1>25. CASE Destroyed \/ UNCHANGED vars
  BY <1>25 DEF Destroyed, vars
<1> QED
  BY <1>1, <1>2, <1>3, <1>4, <1>5, <1>6, <1>7, <1>8, <1>9, <1>10, <1>11, <1>12, <1>13,
     <1>14, <1>15, <1>16, <1>17, <1>18, <1>19, <1>20, <1>21, <1>22, <1>23, <1>24, <1>25
     DEF Next, stop_process, PumpNext

\* Types and the inductive invariant hold throughout.
THEOREM Inductive == Spec => [](TypeOK /\ IInv)
  BY InvInit, InvStep, PTL DEF Spec

\* A thread that may still use a descriptor finds it open.
THEOREM DescriptorSafety == Spec => []NoUseAfterClose
<1>1. IInv => NoUseAfterClose
  BY DEF IInv, PumpInv, PumpDone, ErrorInv, ErrorPumpDone, NoUseAfterClose
<1> QED
  BY <1>1, Inductive, PTL

\* stop_process leaves no zombie, no thread and no open pipe.
THEOREM StopSafety == Spec => []NothingLeft
<1>1. IInv => NothingLeft
  BY DEF IInv, ChildInv, PumpInv, PumpDone, ErrorInv, ErrorPumpDone, NothingLeft
<1> QED
  BY <1>1, Inductive, PTL
=============================================================================
