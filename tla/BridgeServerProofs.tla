------------------------- MODULE BridgeServerProofs -------------------------
(***************************************************************************)
(* Proofs about BridgeServer for any number of workers, descriptors,       *)
(* session ids, sessions and cleanups: types, the inductive invariant IInv *)
(* and what follows from it, the statuses under UniqueSids, and the        *)
(* refinement of CleanupProtocol.                                          *)
(***************************************************************************)
EXTENDS BridgeServer, FiniteSetTheorems, TLAPS

\* An empty registry is within its limit.
LEMMA CardinalityInit == Cardinality({}) <= MaxSessions
  BY FS_EmptySet, BridgeAssumption

\* reserve() stays within max_ when the registry is not full.
LEMMA CardinalityReserve ==
  ASSUME registered \in SUBSET Workers, ~Full, NEW w \in Workers
  PROVE  Cardinality(registered \cup {w}) <= MaxSessions
<1>1. IsFiniteSet(registered)
  BY FS_Subset, BridgeAssumption
<1>2. /\ Cardinality(registered) \in Nat
      /\ Cardinality(registered \cup {w}) \in Nat
      /\ \/ Cardinality(registered \cup {w}) = Cardinality(registered) + 1
         \/ Cardinality(registered \cup {w}) = Cardinality(registered)
  BY <1>1, FS_AddElement, FS_CardinalityType
<1> QED
  BY <1>2, BridgeAssumption DEF Full

\* release() stays within max_.
LEMMA CardinalityRelease ==
  ASSUME registered \in SUBSET Workers, Cardinality(registered) <= MaxSessions,
         NEW w \in Workers
  PROVE  Cardinality(registered \ {w}) <= MaxSessions
<1>1. IsFiniteSet(registered)
  BY FS_Subset, BridgeAssumption
<1>2. /\ Cardinality(registered \ {w}) \in Nat /\ Cardinality(registered) \in Nat
      /\ Cardinality(registered \ {w}) <= Cardinality(registered)
  BY <1>1, FS_Subset, FS_CardinalityType, registered \ {w} \subseteq registered
<1> QED
  BY <1>2, BridgeAssumption

\* The initial state is well typed.
LEMMA TypeInit == Init => TypeOK
<1> SUFFICES ASSUME Init PROVE TypeOK
  OBVIOUS
<1>1. Cardinality(registered) <= MaxSessions
  BY CardinalityInit DEF Init
<1>2. /\ regLock \in Workers \cup {None} /\ registered \in SUBSET Workers
      /\ todo \in SUBSET Workers /\ victim \in Workers \cup {None}
      /\ running \in BOOLEAN /\ mainFd \in Fds \cup {None}
      /\ generation \in Nat /\ cleaned \in BOOLEAN /\ old \in SUBSET Sids
      /\ main \in {"loop", "accepted", "stopping", "joining", "exited"}
  BY DEF Init
<1>3. /\ fdOwner \in [Fds -> Workers \cup {Main, None}]
      /\ sock \in [Workers -> Fds \cup {None}]
      /\ stateFd \in [Workers -> Fds \cup {None}]
      /\ sid \in [Workers -> Sids \cup {None}]
      /\ token \in [Workers -> Nat \cup {None}]
      /\ shut \in [Workers -> BOOLEAN] /\ cancelled \in [Workers -> BOOLEAN]
  BY DEF Init
<1>4. /\ pc \in [Workers -> PCs]
      /\ status \in [Sids -> Reasons \cup {"absent"}]
      /\ res \in [Workers -> SUBSET Resources]
      /\ reason \in [Workers -> Reasons]
      /\ seen \in [Workers -> {"unread", "zero", "some"}]
      /\ owed \in [Workers -> SUBSET Workers]
  BY DEF Init, PCs, Reasons
<1> QED
  BY <1>1, <1>2, <1>3, <1>4 DEF TypeOK

\* Every step of the server keeps the types.
LEMMA TypeStep == TypeOK /\ [Next]_vars => TypeOK'
<1> SUFFICES ASSUME TypeOK, [Next]_vars PROVE TypeOK'
  OBVIOUS
<1> USE BridgeAssumption DEF vars, mainVars, sockVars, regVars, statVars, localVars
<1>1. CASE UNCHANGED vars
  BY <1>1 DEF TypeOK
<1>2. CASE RejectClient
  BY <1>2, ZenonT(60) DEF TypeOK, RejectClient, Iterate, Reaped, PCs
<1>3. CASE Reap
  BY <1>3, ZenonT(60) DEF TypeOK, Reap, Reaped, PCs
<1>4. CASE LeaveLoop
  BY <1>4 DEF TypeOK, LeaveLoop
<1>5. CASE ShutdownSockets
  BY <1>5 DEF TypeOK, ShutdownSockets
<1>6. CASE JoinWorkers
  BY <1>6, ZenonT(60) DEF TypeOK, JoinWorkers, Reaped, PCs
<1>7. CASE StopSignal
  BY <1>7 DEF TypeOK, StopSignal
<1>8. CASE Exited
  BY <1>8 DEF TypeOK, Exited
<1>9. ASSUME NEW f \in Fds, Accept(f) PROVE TypeOK'
  BY <1>9 DEF TypeOK, Accept
<1>10. ASSUME NEW s \in Sids, Age(s) PROVE TypeOK'
  BY <1>10 DEF TypeOK, Age
<1>11. ASSUME NEW w \in Workers, ReadFails(w) PROVE TypeOK'
  BY <1>11 DEF TypeOK, ReadFails, Go, PCs
<1>12. ASSUME NEW w \in Workers, RequestClean(w) PROVE TypeOK'
  BY <1>12 DEF TypeOK, RequestClean, Go, PCs
<1>13. ASSUME NEW w \in Workers, RequestHealth(w) PROVE TypeOK'
  BY <1>13 DEF TypeOK, RequestHealth, Go, PCs
<1>14. ASSUME NEW w \in Workers, RequestStatus(w) PROVE TypeOK'
  BY <1>14 DEF TypeOK, RequestStatus, Go, PCs, Kept, Reasons
<1>15. ASSUME NEW w \in Workers, NEW r \in Resources, RestartPipeline(w, r) PROVE TypeOK'
  BY <1>15 DEF TypeOK, RestartPipeline, Resources
<1>16. ASSUME NEW w \in Workers, OutputReady(w) PROVE TypeOK'
  BY <1>16 DEF TypeOK, OutputReady, Go, PCs, Touch
<1>17. ASSUME NEW w \in Workers, StreamEnds(w) PROVE TypeOK'
  BY <1>17 DEF TypeOK, StreamEnds, EndWith, Reasons, PCs
<1>18. ASSUME NEW w \in Workers, ClientLeft(w) PROVE TypeOK'
  BY <1>18 DEF TypeOK, ClientLeft, EndWith, Reasons, PCs
<1>19. ASSUME NEW w \in Workers, PipelineFails(w) PROVE TypeOK'
  BY <1>19 DEF TypeOK, PipelineFails, EndWith, Reasons, PCs
<1>20. ASSUME NEW w \in Workers, ClientLeftEarly(w) PROVE TypeOK'
  BY <1>20 DEF TypeOK, ClientLeftEarly, Refuse, Go, PCs
<1>21. ASSUME NEW w \in Workers, ReserveRefused(w) PROVE TypeOK'
  BY <1>21 DEF TypeOK, ReserveRefused, Refuse, Go, PCs
<1>22. ASSUME NEW w \in Workers, Reserve(w) PROVE TypeOK'
  BY <1>22, CardinalityReserve DEF TypeOK, Reserve, Go, PCs, set_active, Kept, Reasons
<1>23. ASSUME NEW w \in Workers, SendHeaders(w) PROVE TypeOK'
  BY <1>23 DEF TypeOK, SendHeaders, Go, PCs
<1>24. ASSUME NEW w \in Workers, ReadCancelled(w) PROVE TypeOK'
  BY <1>24 DEF TypeOK, ReadCancelled, Go, PCs, Reasons
<1>25. ASSUME NEW w \in Workers, Record(w) PROVE TypeOK'
  BY <1>25 DEF TypeOK, Record, Go, PCs, set_ended, Kept, Reasons
<1>26. ASSUME NEW w \in Workers, DropFfmpeg(w) PROVE TypeOK'
  BY <1>26 DEF TypeOK, DropFfmpeg, Go, PCs, Resources
<1>27. ASSUME NEW w \in Workers, DropSdk(w) PROVE TypeOK'
  BY <1>27 DEF TypeOK, DropSdk, Go, PCs, Resources
<1>28. ASSUME NEW w \in Workers, Release(w) PROVE TypeOK'
  BY <1>28, CardinalityRelease DEF TypeOK, Release, Go, PCs
<1>29. ASSUME NEW w \in Workers, StartClean(w) PROVE TypeOK'
  BY <1>29 DEF TypeOK, StartClean, Go, PCs
<1>30. ASSUME NEW w \in Workers, Cancel(w) PROVE TypeOK'
  BY <1>30 DEF TypeOK, Cancel, Go, PCs
<1>31. ASSUME NEW w \in Workers, Disconnect(w) PROVE TypeOK'
  BY <1>31 DEF TypeOK, Disconnect, Go, PCs
<1>32. ASSUME NEW w \in Workers, EndClean(w) PROVE TypeOK'
  BY <1>32 DEF TypeOK, EndClean, Go, PCs
<1>33. ASSUME NEW w \in Workers, CountCleaning(w) PROVE TypeOK'
  BY <1>33 DEF TypeOK, CountCleaning, Go, PCs
<1>34. ASSUME NEW w \in Workers, CloseSocket(w) PROVE TypeOK'
  BY <1>34, ZenonT(60) DEF TypeOK, CloseSocket, Go, PCs
<1>35. ASSUME NEW w \in Workers, StartWorker(w) PROVE TypeOK'
  BY <1>35, ZenonT(60) DEF TypeOK, StartWorker, Iterate, Reaped, PCs
<1>36. ASSUME NEW w \in Workers, NEW s \in Sids, RequestRendered(w, s) PROVE TypeOK'
  BY <1>36 DEF TypeOK, RequestRendered, Go, PCs, Touch
<1>37. ASSUME NEW w \in Workers, NEW s \in Sids, NEW t \in {None} \cup 0..MaxCleans,
             RequestVideo(w, s, t)
      PROVE  TypeOK'
  BY <1>37 DEF TypeOK, RequestVideo, Go, PCs
<1>38. ASSUME NEW w \in Workers, NEW r \in Resources, Acquire(w, r) PROVE TypeOK'
  BY <1>38 DEF TypeOK, Acquire, Resources
<1>39. ASSUME NEW w \in Workers, NEW v \in Workers, Mark(w, v) PROVE TypeOK'
  BY <1>39 DEF TypeOK, Mark, Go, PCs, set_ended, Kept, Reasons
<1> HIDE DEF vars, mainVars, sockVars, regVars, statVars, localVars
<1> QED
  BY <1>1, <1>2, <1>3, <1>4, <1>5, <1>6, <1>7, <1>8, <1>9, <1>10, <1>11,
     <1>12, <1>13, <1>14, <1>15, <1>16, <1>17, <1>18, <1>19, <1>20, <1>21,
     <1>22, <1>23, <1>24, <1>25, <1>26, <1>27, <1>28, <1>29, <1>30, <1>31,
     <1>32, <1>33, <1>34, <1>35, <1>36, <1>37, <1>38, <1>39
     DEF Next, AcceptThread, Dispatch, Stream, Proceed

\* Types are preserved, and the registry hands out at most max_ leases.
THEOREM TypeCorrect == Spec => []TypeOK
  BY TypeInit, TypeStep, PTL DEF Spec
-----------------------------------------------------------------------------
(* The inductive invariant. *)

\* The inductive invariant holds initially.
LEMMA InvInit == Init => IInv
  BY BridgeAssumption
  DEF Init, IInv, FdInv, LeaseInv, ResInv, LockInv, SurvivorInv, ExitInv,
      OwedInv, ShutInv, Leased, Holding, CleaningPCs

\* Every step of every thread keeps the inductive invariant.
LEMMA InvStep == TypeOK /\ TypeOK' /\ IInv /\ [Next]_vars => IInv'
<1> SUFFICES ASSUME TypeOK, TypeOK', IInv, [Next]_vars PROVE IInv'
  OBVIOUS
<1> USE BridgeAssumption
    DEF vars, mainVars, sockVars, regVars, statVars, localVars, TypeOK, PCs,
        Leased, Holding, CleaningPCs, Resources,
        IInv, FdInv, LeaseInv, ResInv, LockInv, SurvivorInv, ExitInv,
        OwedInv, ShutInv
<1>1. CASE UNCHANGED vars
  BY <1>1
<1>2. CASE RejectClient
  BY <1>2 DEF RejectClient, Iterate, Reaped
<1>3. CASE Reap
  BY <1>3 DEF Reap, Reaped
<1>4. CASE LeaveLoop
  BY <1>4 DEF LeaveLoop
<1>5. CASE ShutdownSockets
  BY <1>5 DEF ShutdownSockets
<1>6. CASE JoinWorkers
  BY <1>6 DEF JoinWorkers, Reaped, AllJoinable
<1>7. CASE StopSignal
  BY <1>7 DEF StopSignal
<1>8. CASE Exited
  BY <1>8 DEF Exited
<1>9. ASSUME NEW f \in Fds, Accept(f) PROVE IInv'
  BY <1>9 DEF Accept
<1>10. ASSUME NEW s \in Sids, Age(s) PROVE IInv'
  BY <1>10 DEF Age
<1>11. ASSUME NEW w \in Workers, ReadFails(w) PROVE IInv'
  BY <1>11 DEF ReadFails, Go
<1>12. ASSUME NEW w \in Workers, RequestClean(w) PROVE IInv'
  BY <1>12 DEF RequestClean, Go
<1>13. ASSUME NEW w \in Workers, RequestHealth(w) PROVE IInv'
  BY <1>13 DEF RequestHealth, Go
<1>14. ASSUME NEW w \in Workers, RequestStatus(w) PROVE IInv'
  BY <1>14 DEF RequestStatus, Go
<1>15. ASSUME NEW w \in Workers, NEW r \in Resources, RestartPipeline(w, r) PROVE IInv'
  BY <1>15 DEF RestartPipeline
<1>16. ASSUME NEW w \in Workers, OutputReady(w) PROVE IInv'
  BY <1>16 DEF OutputReady, Go, Touch
<1>17. ASSUME NEW w \in Workers, StreamEnds(w) PROVE IInv'
  BY <1>17 DEF StreamEnds, EndWith
<1>18. ASSUME NEW w \in Workers, ClientLeft(w) PROVE IInv'
  BY <1>18 DEF ClientLeft, EndWith
<1>19. ASSUME NEW w \in Workers, PipelineFails(w) PROVE IInv'
  BY <1>19 DEF PipelineFails, EndWith
<1>20. ASSUME NEW w \in Workers, ClientLeftEarly(w) PROVE IInv'
  BY <1>20 DEF ClientLeftEarly, Refuse, Go
<1>21. ASSUME NEW w \in Workers, ReserveRefused(w) PROVE IInv'
  BY <1>21 DEF ReserveRefused, Refuse, Go
<1>22. ASSUME NEW w \in Workers, Reserve(w) PROVE IInv'
  BY <1>22 DEF Reserve, Go, TokenStale
<1>23. ASSUME NEW w \in Workers, SendHeaders(w) PROVE IInv'
  BY <1>23 DEF SendHeaders, Go
<1>24. ASSUME NEW w \in Workers, ReadCancelled(w) PROVE IInv'
  BY <1>24 DEF ReadCancelled, Go
<1>25. ASSUME NEW w \in Workers, Record(w) PROVE IInv'
  BY <1>25 DEF Record, Go
<1>26. ASSUME NEW w \in Workers, DropFfmpeg(w) PROVE IInv'
  BY <1>26 DEF DropFfmpeg, Go
<1>27. ASSUME NEW w \in Workers, DropSdk(w) PROVE IInv'
  BY <1>27 DEF DropSdk, Go
<1>28. ASSUME NEW w \in Workers, Release(w) PROVE IInv'
  BY <1>28 DEF Release, Go
<1>29. ASSUME NEW w \in Workers, StartClean(w) PROVE IInv'
  BY <1>29 DEF StartClean, Go
<1>30. ASSUME NEW w \in Workers, Cancel(w) PROVE IInv'
  BY <1>30 DEF Cancel, Go
<1>31. ASSUME NEW w \in Workers, Disconnect(w) PROVE IInv'
  BY <1>31 DEF Disconnect, Go
<1>32. ASSUME NEW w \in Workers, EndClean(w) PROVE IInv'
  BY <1>32 DEF EndClean, Go
<1>33. ASSUME NEW w \in Workers, CountCleaning(w) PROVE IInv'
  BY <1>33 DEF CountCleaning, Go, Cleaning
<1>34. ASSUME NEW w \in Workers, CloseSocket(w) PROVE IInv'
  BY <1>34, SMTT(60) DEF CloseSocket, Go
<1>35. ASSUME NEW w \in Workers, StartWorker(w) PROVE IInv'
  BY <1>35, SMTT(60) DEF StartWorker, Iterate, Reaped
<1>36. ASSUME NEW w \in Workers, NEW s \in Sids,
             RequestRendered(w, s)
      PROVE  IInv'
  BY <1>36 DEF RequestRendered, Go
<1>37. ASSUME NEW w \in Workers, NEW s \in Sids, NEW t \in {None} \cup 0..MaxCleans,
             RequestVideo(w, s, t)
      PROVE  IInv'
  BY <1>37 DEF RequestVideo, Go
<1>38. ASSUME NEW w \in Workers, NEW r \in Resources,
             Acquire(w, r)
      PROVE  IInv'
  BY <1>38 DEF Acquire
<1>39. ASSUME NEW w \in Workers, NEW v \in Workers, Mark(w, v) PROVE IInv'
  BY <1>39 DEF Mark, Go
<1> HIDE DEF vars, mainVars, sockVars, regVars, statVars, localVars, TypeOK, PCs,
             Leased, Holding, CleaningPCs, Resources,
             IInv, FdInv, LeaseInv, ResInv, LockInv, SurvivorInv, ExitInv,
             OwedInv, ShutInv
<1> QED
  BY <1>1, <1>2, <1>3, <1>4, <1>5, <1>6, <1>7, <1>8, <1>9, <1>10, <1>11,
     <1>12, <1>13, <1>14, <1>15, <1>16, <1>17, <1>18, <1>19, <1>20, <1>21,
     <1>22, <1>23, <1>24, <1>25, <1>26, <1>27, <1>28, <1>29, <1>30, <1>31,
     <1>32, <1>33, <1>34, <1>35, <1>36, <1>37, <1>38, <1>39
     DEF Next, AcceptThread, Dispatch, Stream, Proceed

\* Every behaviour satisfies the inductive invariant.
THEOREM Inductive == Spec => [](TypeOK /\ IInv)
  BY TypeInit, TypeStep, InvInit, InvStep, PTL DEF Spec

\* clean() and ~ConnectionWorkers never shut down a descriptor number that
\* another connection has been given meanwhile.
THEOREM FdSafety == Spec => []FdOwnership
<1>1. TypeOK /\ IInv => FdOwnership
  BY BridgeAssumption DEF TypeOK, IInv, FdInv, LeaseInv, FdOwnership, PCs, Leased
<1> QED
  BY <1>1, Inductive, PTL

\* A lease is returned after the SDK login and the FFmpeg process.
THEOREM CapacitySafety == Spec => []ResourcesAreLeased
<1>1. TypeOK /\ IInv => ResourcesAreLeased
  BY DEF TypeOK, IInv, LeaseInv, ResInv, ResourcesAreLeased, Leased, Holding
<1> QED
  BY <1>1, Inductive, PTL

\* No session that asked with an older generation survives a cleanup.
THEOREM CleanupSafety == Spec => []NoSurvivor
<1>1. TypeOK /\ IInv => NoSurvivor
  BY DEF TypeOK, IInv, LockInv, SurvivorInv, NoSurvivor
<1> QED
  BY <1>1, Inductive, PTL

\* cleaningSessions = 0 tells a client that the sessions it waits for have
\* returned everything.
THEOREM ZeroSafety == Spec => []ZeroMeansReleased
<1>1. IInv => ZeroMeansReleased
  BY DEF IInv, OwedInv, ZeroMeansReleased
<1> QED
  BY <1>1, Inductive, PTL

\* NET_DVR_Cleanup finds neither a session nor a thread nor a descriptor.
THEOREM ShutdownSafety == Spec => []SdkOutlivesWorkers
<1>1. ASSUME TypeOK, IInv, main = "exited" PROVE SdkOutlivesWorkers
  <2>1. \A w \in Workers : pc[w] = "free"
    BY <1>1 DEF IInv, ExitInv
  <2>2. \A w \in Workers : res[w] = {} /\ sock[w] = None /\ w \notin registered
    BY <1>1, <2>1 DEF IInv, FdInv, LeaseInv, ResInv, Leased, Holding
  <2>3. registered = {} /\ regLock = None
    BY <1>1, <2>1, <2>2, BridgeAssumption DEF TypeOK, IInv, LockInv, CleaningPCs
  <2>4. \A f \in Fds : fdOwner[f] = None
    BY <1>1, <2>2, BridgeAssumption DEF TypeOK, IInv, FdInv
  <2> QED
    BY <2>1, <2>2, <2>3, <2>4 DEF SdkOutlivesWorkers
<1>2. TypeOK /\ IInv => SdkOutlivesWorkers
  BY <1>1 DEF SdkOutlivesWorkers
<1> QED
  BY <1>2, Inductive, PTL

-----------------------------------------------------------------------------
(* What a status says of a session that is over, whether or not clients    *)
(* reuse its id.                                                           *)

\* No status exists initially.
LEMMA ActiveInit == Init => ActiveInv
  BY BridgeAssumption DEF Init, ActiveInv, Leased

\* Every step keeps an active status tied to a session that has not ended.
LEMMA ActiveStep ==
  TypeOK /\ TypeOK' /\ IInv /\ ActiveInv /\ [Next]_vars => ActiveInv'
<1> SUFFICES ASSUME TypeOK, TypeOK', IInv, ActiveInv, [Next]_vars PROVE ActiveInv'
  OBVIOUS
<1> USE BridgeAssumption
    DEF vars, mainVars, sockVars, regVars, statVars, localVars, TypeOK, PCs, Leased,
        Reasons, IInv, LeaseInv, ActiveInv
<1>1. CASE UNCHANGED vars
  BY <1>1
<1>2. CASE RejectClient
  BY <1>2 DEF RejectClient, Iterate, Reaped
<1>3. CASE Reap
  BY <1>3 DEF Reap, Reaped
<1>4. CASE LeaveLoop
  BY <1>4 DEF LeaveLoop
<1>5. CASE ShutdownSockets
  BY <1>5 DEF ShutdownSockets
<1>6. CASE JoinWorkers
  BY <1>6 DEF JoinWorkers, Reaped, AllJoinable
<1>7. CASE StopSignal
  BY <1>7 DEF StopSignal
<1>8. CASE Exited
  BY <1>8 DEF Exited
<1>9. ASSUME NEW f \in Fds, Accept(f) PROVE ActiveInv'
  BY <1>9 DEF Accept
<1>10. ASSUME NEW s \in Sids, Age(s) PROVE ActiveInv'
  BY <1>10 DEF Age
<1>11. ASSUME NEW w \in Workers, ReadFails(w) PROVE ActiveInv'
  BY <1>11 DEF ReadFails, Go
<1>12. ASSUME NEW w \in Workers, RequestClean(w) PROVE ActiveInv'
  BY <1>12 DEF RequestClean, Go
<1>13. ASSUME NEW w \in Workers, RequestHealth(w) PROVE ActiveInv'
  BY <1>13 DEF RequestHealth, Go
<1>14. ASSUME NEW w \in Workers, RequestStatus(w) PROVE ActiveInv'
  BY <1>14 DEF RequestStatus, Go, Kept
<1>15. ASSUME NEW w \in Workers, NEW r \in Resources, RestartPipeline(w, r) PROVE ActiveInv'
  BY <1>15 DEF RestartPipeline
<1>16. ASSUME NEW w \in Workers, OutputReady(w) PROVE ActiveInv'
  BY <1>16 DEF OutputReady, Go, Touch
<1>17. ASSUME NEW w \in Workers, StreamEnds(w) PROVE ActiveInv'
  BY <1>17 DEF StreamEnds, EndWith
<1>18. ASSUME NEW w \in Workers, ClientLeft(w) PROVE ActiveInv'
  BY <1>18 DEF ClientLeft, EndWith
<1>19. ASSUME NEW w \in Workers, PipelineFails(w) PROVE ActiveInv'
  BY <1>19 DEF PipelineFails, EndWith
<1>20. ASSUME NEW w \in Workers, ClientLeftEarly(w) PROVE ActiveInv'
  BY <1>20 DEF ClientLeftEarly, Refuse, Go
<1>21. ASSUME NEW w \in Workers, ReserveRefused(w) PROVE ActiveInv'
  BY <1>21, SMTT(60) DEF ReserveRefused, Refuse, Go
<1>22. ASSUME NEW w \in Workers, Reserve(w) PROVE ActiveInv'
  BY <1>22 DEF Reserve, Go, TokenStale, set_active, Kept
<1>23. ASSUME NEW w \in Workers, SendHeaders(w) PROVE ActiveInv'
  BY <1>23 DEF SendHeaders, Go
<1>24. ASSUME NEW w \in Workers, ReadCancelled(w) PROVE ActiveInv'
  BY <1>24 DEF ReadCancelled, Go
<1>25. ASSUME NEW w \in Workers, Record(w) PROVE ActiveInv'
  BY <1>25 DEF Record, Go, set_ended, Kept
<1>26. ASSUME NEW w \in Workers, DropFfmpeg(w) PROVE ActiveInv'
  BY <1>26 DEF DropFfmpeg, Go
<1>27. ASSUME NEW w \in Workers, DropSdk(w) PROVE ActiveInv'
  BY <1>27 DEF DropSdk, Go
<1>28. ASSUME NEW w \in Workers, Release(w) PROVE ActiveInv'
  BY <1>28 DEF Release, Go
<1>29. ASSUME NEW w \in Workers, StartClean(w) PROVE ActiveInv'
  BY <1>29 DEF StartClean, Go
<1>30. ASSUME NEW w \in Workers, Cancel(w) PROVE ActiveInv'
  BY <1>30 DEF Cancel, Go
<1>31. ASSUME NEW w \in Workers, Disconnect(w) PROVE ActiveInv'
  BY <1>31 DEF Disconnect, Go
<1>32. ASSUME NEW w \in Workers, EndClean(w) PROVE ActiveInv'
  BY <1>32 DEF EndClean, Go
<1>33. ASSUME NEW w \in Workers, CountCleaning(w) PROVE ActiveInv'
  BY <1>33 DEF CountCleaning, Go, Cleaning
<1>34. ASSUME NEW w \in Workers, CloseSocket(w) PROVE ActiveInv'
  BY <1>34 DEF CloseSocket, Go
<1>35. ASSUME NEW w \in Workers, StartWorker(w) PROVE ActiveInv'
  <2>1. \A v \in Workers : pc[v] \in Leased => pc'[v] = pc[v]
    BY <1>35, SMTT(60) DEF StartWorker, Reaped
  <2>2. \A v \in Workers : pc'[v] \in {"publish", "record"} => pc'[v] = pc[v]
    BY <1>35, SMTT(60) DEF StartWorker, Reaped
  <2>3. UNCHANGED <<status, sid, reason>>
    BY <1>35 DEF StartWorker
  <2> QED
    BY <2>1, <2>2, <2>3
<1>36. ASSUME NEW w \in Workers, NEW s \in Sids,
             RequestRendered(w, s)
      PROVE  ActiveInv'
  BY <1>36 DEF RequestRendered, Go, Touch
<1>37. ASSUME NEW w \in Workers, NEW s \in Sids, NEW t \in {None} \cup 0..MaxCleans,
             RequestVideo(w, s, t)
      PROVE  ActiveInv'
  BY <1>37 DEF RequestVideo, Go
<1>38. ASSUME NEW w \in Workers, NEW r \in Resources,
             Acquire(w, r)
      PROVE  ActiveInv'
  BY <1>38 DEF Acquire
<1>39. ASSUME NEW w \in Workers, NEW v \in Workers,
             Mark(w, v)
      PROVE  ActiveInv'
  BY <1>39 DEF Mark, Go, set_ended, Kept
<1> HIDE DEF vars, mainVars, sockVars, regVars, statVars, localVars, TypeOK, PCs, Leased,
             Reasons, IInv, LeaseInv, ActiveInv
<1> QED
  BY <1>1, <1>2, <1>3, <1>4, <1>5, <1>6, <1>7, <1>8, <1>9, <1>10, <1>11,
     <1>12, <1>13, <1>14, <1>15, <1>16, <1>17, <1>18, <1>19, <1>20, <1>21,
     <1>22, <1>23, <1>24, <1>25, <1>26, <1>27, <1>28, <1>29, <1>30, <1>31,
     <1>32, <1>33, <1>34, <1>35, <1>36, <1>37, <1>38, <1>39
     DEF Next, AcceptThread, Dispatch, Stream, Proceed

\* No status says active once its session is over.
THEOREM EndSafety == Spec => []OverIsNotActive
<1>1. TypeOK /\ IInv /\ ActiveInv => OverIsNotActive
  BY DEF TypeOK, IInv, LeaseInv, Leased, ActiveInv, OverIsNotActive
<1>2. Spec => [](TypeOK /\ IInv /\ ActiveInv)
  BY TypeInit, TypeStep, InvInit, InvStep, ActiveInit, ActiveStep, PTL DEF Spec
<1> QED
  BY <1>1, <1>2, PTL

-----------------------------------------------------------------------------
(* The statuses, as far as clients do not reuse a session id. *)

\* No status exists initially.
LEMMA StatusInit == Init => StatusInv
  BY BridgeAssumption
  DEF Init, StatusInv, SidInv, CleanedInv, ManualInv, Leased

\* Every step keeps the invariant on statuses, if ids are not reused.
LEMMA StatusStep ==
  ASSUME UniqueSids
  PROVE  TypeOK /\ TypeOK' /\ IInv /\ StatusInv /\ [Next]_vars => StatusInv'
<1> SUFFICES ASSUME TypeOK, TypeOK', IInv, StatusInv, [Next]_vars PROVE StatusInv'
  OBVIOUS
<1> USE BridgeAssumption
    DEF vars, mainVars, sockVars, regVars, statVars, localVars, TypeOK, PCs, Leased,
        CleaningPCs, Reasons, IInv, LeaseInv, LockInv, StatusInv, SidInv, CleanedInv,
        ManualInv
<1>1. CASE UNCHANGED vars
  BY <1>1
<1>2. CASE RejectClient
  BY <1>2 DEF RejectClient, Iterate, Reaped
<1>3. CASE Reap
  BY <1>3 DEF Reap, Reaped
<1>4. CASE LeaveLoop
  BY <1>4 DEF LeaveLoop
<1>5. CASE ShutdownSockets
  BY <1>5 DEF ShutdownSockets
<1>6. CASE JoinWorkers
  BY <1>6 DEF JoinWorkers, Reaped, AllJoinable
<1>7. CASE StopSignal
  BY <1>7 DEF StopSignal
<1>8. CASE Exited
  BY <1>8 DEF Exited
<1>9. ASSUME NEW f \in Fds, Accept(f) PROVE StatusInv'
  BY <1>9 DEF Accept
<1>10. ASSUME NEW s \in Sids, Age(s) PROVE StatusInv'
  BY <1>10 DEF Age
<1>11. ASSUME NEW w \in Workers, ReadFails(w) PROVE StatusInv'
  BY <1>11 DEF ReadFails, Go
<1>12. ASSUME NEW w \in Workers, RequestClean(w) PROVE StatusInv'
  BY <1>12 DEF RequestClean, Go
<1>13. ASSUME NEW w \in Workers, RequestHealth(w) PROVE StatusInv'
  BY <1>13 DEF RequestHealth, Go
<1>14. ASSUME NEW w \in Workers, RequestStatus(w) PROVE StatusInv'
  BY <1>14 DEF RequestStatus, Go, Kept
<1>15. ASSUME NEW w \in Workers, NEW r \in Resources, RestartPipeline(w, r) PROVE StatusInv'
  BY <1>15 DEF RestartPipeline
<1>16. ASSUME NEW w \in Workers, OutputReady(w) PROVE StatusInv'
  BY <1>16 DEF OutputReady, Go, Touch
<1>17. ASSUME NEW w \in Workers, StreamEnds(w) PROVE StatusInv'
  BY <1>17 DEF StreamEnds, EndWith
<1>18. ASSUME NEW w \in Workers, ClientLeft(w) PROVE StatusInv'
  BY <1>18 DEF ClientLeft, EndWith
<1>19. ASSUME NEW w \in Workers, PipelineFails(w) PROVE StatusInv'
  BY <1>19 DEF PipelineFails, EndWith
<1>20. ASSUME NEW w \in Workers, ClientLeftEarly(w) PROVE StatusInv'
  BY <1>20 DEF ClientLeftEarly, Refuse, Go
<1>21. ASSUME NEW w \in Workers, ReserveRefused(w) PROVE StatusInv'
  BY <1>21, SMTT(60) DEF ReserveRefused, Refuse, Go
<1>22. ASSUME NEW w \in Workers, Reserve(w) PROVE StatusInv'
  BY <1>22 DEF Reserve, Go, TokenStale, set_active, Kept
<1>23. ASSUME NEW w \in Workers, SendHeaders(w) PROVE StatusInv'
  BY <1>23 DEF SendHeaders, Go
<1>24. ASSUME NEW w \in Workers, ReadCancelled(w) PROVE StatusInv'
  BY <1>24 DEF ReadCancelled, Go
<1>25. ASSUME NEW w \in Workers, Record(w) PROVE StatusInv'
  BY <1>25 DEF Record, Go, set_ended, Kept
<1>26. ASSUME NEW w \in Workers, DropFfmpeg(w) PROVE StatusInv'
  BY <1>26 DEF DropFfmpeg, Go
<1>27. ASSUME NEW w \in Workers, DropSdk(w) PROVE StatusInv'
  BY <1>27 DEF DropSdk, Go
<1>28. ASSUME NEW w \in Workers, Release(w) PROVE StatusInv'
  BY <1>28 DEF Release, Go
<1>29. ASSUME NEW w \in Workers, StartClean(w) PROVE StatusInv'
  BY <1>29 DEF StartClean, Go
<1>30. ASSUME NEW w \in Workers, Cancel(w) PROVE StatusInv'
  BY <1>30 DEF Cancel, Go
<1>31. ASSUME NEW w \in Workers, Disconnect(w) PROVE StatusInv'
  BY <1>31 DEF Disconnect, Go
<1>32. ASSUME NEW w \in Workers, EndClean(w) PROVE StatusInv'
  BY <1>32 DEF EndClean, Go
<1>33. ASSUME NEW w \in Workers, CountCleaning(w) PROVE StatusInv'
  BY <1>33 DEF CountCleaning, Go, Cleaning
<1>34. ASSUME NEW w \in Workers, CloseSocket(w) PROVE StatusInv'
  BY <1>34 DEF CloseSocket, Go
<1>35. ASSUME NEW w \in Workers, StartWorker(w) PROVE StatusInv'
  BY <1>35 DEF StartWorker, Iterate, Reaped
<1>36. ASSUME NEW w \in Workers, NEW s \in Sids,
             RequestRendered(w, s)
      PROVE  StatusInv'
  BY <1>36 DEF RequestRendered, Go, Touch
<1>37. ASSUME NEW w \in Workers, NEW s \in Sids, NEW t \in {None} \cup 0..MaxCleans,
             RequestVideo(w, s, t)
      PROVE  StatusInv'
  BY <1>37 DEF RequestVideo, Go
<1>38. ASSUME NEW w \in Workers, NEW r \in Resources,
             Acquire(w, r)
      PROVE  StatusInv'
  BY <1>38 DEF Acquire
<1>39. ASSUME NEW w \in Workers, NEW v \in Workers,
             Mark(w, v)
      PROVE  StatusInv'
  BY <1>39 DEF Mark, Go, set_ended, Kept
<1> HIDE DEF vars, mainVars, sockVars, regVars, statVars, localVars, TypeOK, PCs, Leased,
             CleaningPCs, Reasons, IInv, LeaseInv, LockInv, StatusInv, SidInv,
             CleanedInv, ManualInv
<1> QED
  BY <1>1, <1>2, <1>3, <1>4, <1>5, <1>6, <1>7, <1>8, <1>9, <1>10, <1>11,
     <1>12, <1>13, <1>14, <1>15, <1>16, <1>17, <1>18, <1>19, <1>20, <1>21,
     <1>22, <1>23, <1>24, <1>25, <1>26, <1>27, <1>28, <1>29, <1>30, <1>31,
     <1>32, <1>33, <1>34, <1>35, <1>36, <1>37, <1>38, <1>39
     DEF Next, AcceptThread, Dispatch, Stream, Proceed

\* Statuses are consistent with what cleanups did, if ids are not reused.
THEOREM StatusInductive ==
  ASSUME UniqueSids
  PROVE  Spec => [](TypeOK /\ IInv /\ StatusInv)
  BY TypeInit, TypeStep, InvInit, InvStep, StatusInit, StatusStep, PTL DEF Spec

\* manual_cleanup is not overwritten by the later end of the session.
THEOREM ReasonSafety ==
  ASSUME UniqueSids
  PROVE  Spec => []CleanupReasonKept
<1>1. StatusInv => CleanupReasonKept
  BY DEF StatusInv, CleanedInv, CleanupReasonKept
<1> QED
  BY <1>1, StatusInductive, PTL

\* The server disconnects only cleaned sessions, and their status already
\* says so.
THEOREM DisconnectSafety ==
  ASSUME UniqueSids
  PROVE  Spec => []OnlyCleanedDisconnected
<1>1. IInv /\ StatusInv => OnlyCleanedDisconnected
  BY DEF IInv, ShutInv, StatusInv, CleanedInv, OnlyCleanedDisconnected
<1> QED
  BY <1>1, StatusInductive, PTL

\* manual_cleanup is reported for cleaned sessions only.
THEOREM ManualSafety ==
  ASSUME UniqueSids
  PROVE  Spec => []ManualCleanupMeansCleaned
<1>1. TypeOK /\ IInv /\ StatusInv => ManualCleanupMeansCleaned
  BY DEF TypeOK, IInv, LeaseInv, LockInv, Leased, StatusInv, ManualInv,
         ManualCleanupMeansCleaned
<1> QED
  BY <1>1, StatusInductive, PTL

-----------------------------------------------------------------------------
(* The registry implements CleanupProtocol. *)

\* An empty registry is an initial state of the protocol.
LEMMA ProtocolInit == Init => Protocol!Init
  BY DEF Init, Protocol!Init, Draining

\* A step that leaves the registry's membership, flags and generation alone.
LEMMA ProtocolStutter ==
  ASSUME UNCHANGED <<registered, cancelled, todo, generation>>
  PROVE  UNCHANGED Protocol!vars
  BY DEF Protocol!vars, Draining

\* reserve() admits a session.
LEMMA ProtocolReserve ==
  ASSUME TypeOK, IInv, NEW w \in Workers, Reserve(w)
  PROVE  Protocol!Admit(w)
<1>1. w \notin registered /\ ~cancelled[w] /\ w \notin todo
  BY DEF TypeOK, IInv, LeaseInv, LockInv, Leased, Reserve, Go
<1>2. Draining' = Draining /\ generation' = generation
  BY <1>1 DEF Draining, Reserve
<1>3. (registered \ Draining) \cup Draining = registered
  BY DEF Draining
<1>4. registered' \ Draining' = (registered \ Draining) \cup {w}
  BY <1>1, <1>2 DEF Draining, Reserve
<1>5. Cardinality(registered) < MaxSessions
  <2>1. IsFiniteSet(registered)
    BY FS_Subset, BridgeAssumption DEF TypeOK
  <2> QED
    BY <2>1, FS_CardinalityType, BridgeAssumption DEF Full, Reserve
<1>6. Cardinality((registered \ Draining) \cup Draining) < MaxSessions
  BY <1>3, <1>5
<1>7. w \notin (registered \ Draining) \cup Draining
  BY <1>1, <1>3
<1> QED
  BY <1>2, <1>4, <1>6, <1>7 DEF Protocol!Admit, Protocol!Cardinality, Cardinality

\* release() ends a live session or drains a cleaned one.
LEMMA ProtocolRelease ==
  ASSUME TypeOK, IInv, NEW w \in Workers, Release(w)
  PROVE  Protocol!Finish(w) \/ Protocol!Drain(w)
<1>1. w \in registered
  BY DEF TypeOK, IInv, LeaseInv, Leased, Release, Go
<1>2. Draining' = Draining \ {w}
  BY DEF Draining, Release
<1>3. (registered \ Draining)' = (registered \ Draining) \ {w} /\ generation' = generation
  BY <1>2 DEF Release
<1> QED
  BY <1>1, <1>2, <1>3 DEF Protocol!Finish, Protocol!Drain

\* The moment clean() takes the lock is the moment of the cleanup.
LEMMA ProtocolStartClean ==
  ASSUME TypeOK, IInv, NEW w \in Workers, StartClean(w)
  PROVE  Protocol!Clean
<1>1. Draining' = registered /\ registered' = registered
  BY DEF Draining, StartClean, TypeOK
<1>2. Draining \cup (registered \ Draining) = registered
  BY DEF Draining
<1> QED
  BY <1>1, <1>2 DEF Protocol!Clean, StartClean

\* Every step of the server is a step of the protocol or invisible to it.
LEMMA ProtocolStep == TypeOK /\ IInv /\ [Next]_vars => [Protocol!Next]_(Protocol!vars)
<1> SUFFICES ASSUME TypeOK, IInv, [Next]_vars
             PROVE  Protocol!Next \/ UNCHANGED Protocol!vars
  OBVIOUS
<1> DEFINE Same == UNCHANGED <<registered, cancelled, todo, generation>>
<1> USE DEF vars, mainVars, sockVars, regVars, statVars, localVars
<1>1. CASE UNCHANGED vars
  BY <1>1, ProtocolStutter
<1>2. CASE AcceptThread \/ StopSignal \/ Exited \/ \E s \in Sids : Age(s)
  <2>1. Same
    BY <1>2 DEF AcceptThread, Accept, RejectClient, Reap, LeaveLoop, ShutdownSockets,
                JoinWorkers, StartWorker, Iterate, StopSignal, Exited, Age
  <2> QED
    BY <2>1, ProtocolStutter
<1>3. ASSUME NEW w \in Workers, Dispatch(w) \/ Stream(w) PROVE UNCHANGED Protocol!vars
  <2>1. Same
    BY <1>3 DEF Dispatch, ReadFails, RequestClean, RequestHealth, RequestStatus,
                RequestRendered, RequestVideo, Stream, Acquire, RestartPipeline,
                OutputReady, StreamEnds, ClientLeft, PipelineFails, EndWith
  <2> QED
    BY <2>1, ProtocolStutter
<1>4. ASSUME NEW w \in Workers,
             \/ ClientLeftEarly(w) \/ ReserveRefused(w) \/ SendHeaders(w)
             \/ ReadCancelled(w) \/ Record(w) \/ DropFfmpeg(w) \/ DropSdk(w)
             \/ EndClean(w) \/ CountCleaning(w) \/ \E v \in Workers : Mark(w, v)
      PROVE  UNCHANGED Protocol!vars
  <2>1. Same
    BY <1>4 DEF ClientLeftEarly, ReserveRefused, Refuse, SendHeaders, ReadCancelled,
                Record, DropFfmpeg, DropSdk, EndClean, CountCleaning, Mark
  <2> QED
    BY <2>1, ProtocolStutter
<1>5. ASSUME NEW w \in Workers, Reserve(w) \/ Release(w) \/ StartClean(w)
      PROVE  Protocol!Next
  BY <1>5, ProtocolReserve, ProtocolRelease, ProtocolStartClean DEF Protocol!Next
\* The loop of clean() moves a session from todo to cancelled.
<1>6. ASSUME NEW w \in Workers, Cancel(w) \/ Disconnect(w) PROVE UNCHANGED Protocol!vars
  <2>1. victim \in todo /\ (Disconnect(w) => cancelled[victim])
    BY <1>6 DEF Cancel, Disconnect, Go, IInv, LockInv
  <2>2. Draining' = Draining /\ registered' = registered /\ generation' = generation
    BY <1>6, <2>1 DEF Cancel, Disconnect, Draining, TypeOK
  <2> QED
    BY <2>2 DEF Protocol!vars
\* CloseSocket forgets the flag of a session that is no longer registered.
<1>7. ASSUME NEW w \in Workers, CloseSocket(w) PROVE UNCHANGED Protocol!vars
  <2>1. w \notin registered
    BY <1>7 DEF CloseSocket, Go, IInv, LeaseInv, Leased
  <2>2. Draining' = Draining /\ registered' = registered /\ generation' = generation
    BY <1>7, <2>1 DEF CloseSocket, Draining, TypeOK
  <2> QED
    BY <2>2 DEF Protocol!vars
<1> QED
  BY <1>1, <1>2, <1>3, <1>4, <1>5, <1>6, <1>7 DEF Next, Proceed

\* Seen through the lock, clean() is one atomic step, and every other step of
\* the server admits a session, ends one, or is invisible.
THEOREM Refinement == Spec => ImplementsProtocol
  BY ProtocolInit, ProtocolStep, Inductive, PTL
  DEF Spec, ImplementsProtocol, Protocol!Spec
=============================================================================
