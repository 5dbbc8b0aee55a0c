--------------------------- MODULE CsBridgeProofs ---------------------------
(***************************************************************************)
(* Proofs about CsBridge, for any finite set of tasks, any session ids and *)
(* any limit: the places, the keys and the statuses of video sessions.     *)
(***************************************************************************)
EXTENDS CsBridge, FiniteSetTheorems, TLAPS

\* The places that are taken can be counted.
LEMMA BusyFinite ==
  /\ IsFiniteSet(Busy) /\ Cardinality(Busy) \in Nat
  /\ \A S \in SUBSET Handlers : IsFiniteSet(S) /\ Cardinality(S) \in Nat
<1>1. \A S \in SUBSET Handlers : IsFiniteSet(S) /\ Cardinality(S) \in Nat
  BY CsAssumption, FS_Subset, FS_CardinalityType DEF CsAssumption
<1> QED
  BY <1>1 DEF Busy

\* Nobody is under way, and every place is free.
LEMMA InvInit == Init => TypeOK /\ IInv
<1> SUFFICES ASSUME Init PROVE TypeOK /\ IInv
  OBVIOUS
<1>1. MaxSessions \in Nat
  BY CsAssumption DEF CsAssumption
<1>2. TypeOK
  <2>1. slots \in 0..MaxSessions
    BY <1>1 DEF Init
  <2> QED
    BY <2>1 DEF Init, TypeOK
<1>3. Busy = {} /\ Keyed = {}
  BY DEF Init, Busy, Keyed
<1>4. PlacesInv
  BY <1>1, <1>3, FS_EmptySet DEF Init, PlacesInv
<1>5. RequestInv
  BY DEF Init, RequestInv, Busy
<1>6. KeysInv
  BY <1>3 DEF Init, KeysInv
<1>7. StatusIsTrue
  BY DEF Init, StatusIsTrue
<1> QED
  BY <1>2, <1>4, <1>5, <1>6, <1>7 DEF IInv

\* What a task does between its setup and its end, and what happens around it.
Streams(h) == OutputReady(h) \/ StartFails(h) \/ Written(h) \/ WriteEnds(h)
                \/ ReadData(h) \/ ReadEof(h) \/ StreamEnds(h)
Around(h)  == PumpGivesUp(h) \/ BrowserLeaves(h) \/ DeviceFallsSilent(h) \/ Hangs(h)

\* The steps of the bridge, in the groups that the proofs treat alike.
LEMMA Steps ==
  ASSUME Next
  PROVE  \/ \E h \in Handlers :
              \/ \E s \in Sids, r \in BOOLEAN : Wait(h, s, r)
              \/ Accept(h) \/ Limit(h) \/ Duplicate(h) \/ Release(h)
              \/ TryAdd(h) \/ TryRemove(h) \/ SetActive(h) \/ SetEnded(h)
              \/ Login(h) \/ StartFfmpeg(h) \/ DropFfmpeg(h) \/ DropSdk(h)
              \/ Streams(h) \/ Around(h)
         \/ \E s \in Sids : Expire(s)
         \/ Dispose
BY DEF Next, Task, Streams, Around

-----------------------------------------------------------------------------
(* The places *)

\* A task takes its place when it starts and gives it back when it ends.
LEMMA PlacesStep ==
  ASSUME TypeOK, PlacesInv, Next
  PROVE  PlacesInv' /\ slots' \in 0..MaxSessions
<1>1. /\ MaxSessions \in Nat /\ slots \in 0..MaxSessions
      /\ Cardinality(Busy) \in Nat /\ slots + Cardinality(Busy) = MaxSessions
  BY CsAssumption, BusyFinite DEF CsAssumption, TypeOK, PlacesInv
<1>2. ASSUME slots' = slots, Busy' = Busy
      PROVE  PlacesInv' /\ slots' \in 0..MaxSessions
  BY <1>1, <1>2 DEF PlacesInv
<1>3. ASSUME NEW h \in Handlers, NEW s \in Sids, NEW r \in BOOLEAN, Wait(h, s, r)
      PROVE  PlacesInv' /\ slots' \in 0..MaxSessions
  <2>1. h \notin Busy /\ Busy' = Busy \cup {h}
    BY <1>3 DEF Wait, At, Busy, TypeOK
  <2>2. Cardinality(Busy \cup {h}) = Cardinality(Busy) + 1
    BY <2>1, BusyFinite, FS_AddElement
  <2>3. slots' = slots - 1 /\ slots > 0
    BY <1>3 DEF Wait
  <2> QED
    BY <1>1, <2>1, <2>2, <2>3 DEF PlacesInv
<1>4. ASSUME NEW h \in Handlers, Duplicate(h) \/ Release(h)
      PROVE  PlacesInv' /\ slots' \in 0..MaxSessions
  <2>1. h \in Busy /\ Busy' = Busy \ {h}
    BY <1>4 DEF Duplicate, Release, Finish, Busy, TypeOK
  <2>2. Cardinality(Busy \ {h}) = Cardinality(Busy) - 1 /\ Cardinality(Busy \ {h}) \in Nat
    BY <2>1, BusyFinite, FS_RemoveElement DEF Busy
  <2>3. slots' = slots + 1
    BY <1>4 DEF Duplicate, Release
  <2> QED
    BY <1>1, <2>1, <2>2, <2>3 DEF PlacesInv
<1>5. ASSUME NEW h \in Handlers,
             TryAdd(h) \/ SetActive(h) \/ SetEnded(h) \/ DropSdk(h) \/ TryRemove(h) \/ Streams(h)
      PROVE  slots' = slots /\ Busy' = Busy
  BY <1>5 DEF TryAdd, SetActive, SetEnded, DropSdk, TryRemove, Streams, OutputReady, StartFails,
              Written, WriteEnds, ReadData, ReadEof, StreamEnds, At, Busy, TypeOK, regVars
<1>6. ASSUME NEW h \in Handlers, Login(h) \/ StartFfmpeg(h) \/ DropFfmpeg(h) \/ Around(h)
      PROVE  slots' = slots /\ Busy' = Busy
  BY <1>6 DEF Login, StartFfmpeg, DropFfmpeg, Around, PumpGivesUp, BrowserLeaves,
              DeviceFallsSilent, Hangs, Busy, taskVars, regVars
<1>7. ASSUME (\E s \in Sids : Expire(s)) \/ Dispose
      PROVE  slots' = slots /\ Busy' = Busy
  BY <1>7 DEF Expire, Dispose, Busy, taskVars, regVars
<1>8. ASSUME NEW h \in Handlers, Accept(h) \/ Limit(h)
      PROVE  slots' = slots /\ Busy' = Busy
  BY <1>8 DEF Accept, Limit, Finish, At, Busy, TypeOK, regVars
<1> QED
  BY <1>2, <1>3, <1>4, <1>5, <1>6, <1>7, <1>8, Steps

-----------------------------------------------------------------------------
(* Types, requests *)

\* Every variable keeps its type.
LEMMA TypeStep ==
  ASSUME TypeOK, RequestInv, PlacesInv, Next
  PROVE  TypeOK'
<1>1. slots' \in 0..MaxSessions
  BY PlacesStep
<1> USE DEF TypeOK, At, Finish, taskVars, regVars
<1>2. CASE \E h \in Handlers, s \in Sids, r \in BOOLEAN : Wait(h, s, r)
  BY <1>1, <1>2 DEF Wait
<1>3. ASSUME NEW h \in Handlers, TryAdd(h) \/ TryRemove(h) PROVE TypeOK'
  BY <1>1, <1>3 DEF TryAdd, TryRemove
<1>4. ASSUME NEW h \in Handlers, Duplicate(h) \/ Release(h) PROVE TypeOK'
  BY <1>1, <1>4 DEF Duplicate, Release
<1>5. ASSUME NEW h \in Handlers, SetActive(h) \/ SetEnded(h) PROVE TypeOK'
  BY <1>1, <1>5 DEF SetActive, SetEnded, RequestInv
<1>6. ASSUME NEW h \in Handlers, Login(h) \/ StartFfmpeg(h) \/ DropFfmpeg(h) \/ DropSdk(h) PROVE TypeOK'
  BY <1>1, <1>6 DEF Login, StartFfmpeg, DropFfmpeg, DropSdk
<1>7. ASSUME NEW h \in Handlers, Streams(h) PROVE TypeOK'
  BY <1>1, <1>7 DEF Streams, OutputReady, StartFails, Written, WriteEnds, ReadData, ReadEof,
                    StreamEnds
<1>8. CASE Dispose
  BY <1>1, <1>8 DEF Dispose
<1>9. CASE \E s \in Sids : Expire(s)
  BY <1>1, <1>9 DEF Expire
<1>10. ASSUME NEW h \in Handlers, Accept(h) \/ Limit(h) PROVE TypeOK'
  BY <1>1, <1>10 DEF Accept, Limit
<1>11. ASSUME NEW h \in Handlers, Around(h) PROVE TypeOK'
  BY <1>1, <1>11 DEF Around, PumpGivesUp, BrowserLeaves, DeviceFallsSilent, Hangs
<1> QED
  BY <1>2, <1>3, <1>4, <1>5, <1>6, <1>7, <1>8, <1>9, <1>10, <1>11, Steps

\* Only a session that is under way holds anything.
LEMMA RequestStep ==
  ASSUME TypeOK, RequestInv, Next
  PROVE  RequestInv'
<1> USE DEF TypeOK, RequestInv, Live, Busy, At, Finish, taskVars, regVars
<1>2. CASE \E h \in Handlers, s \in Sids, r \in BOOLEAN : Wait(h, s, r)
  BY <1>2 DEF Wait
<1>3. ASSUME NEW h \in Handlers, TryAdd(h) \/ TryRemove(h) PROVE RequestInv'
  BY <1>3 DEF TryAdd, TryRemove
<1>4. ASSUME NEW h \in Handlers, Duplicate(h) \/ Release(h) PROVE RequestInv'
  BY <1>4 DEF Duplicate, Release
<1>5. ASSUME NEW h \in Handlers, SetActive(h) \/ SetEnded(h) PROVE RequestInv'
  BY <1>5 DEF SetActive, SetEnded
<1>6. ASSUME NEW h \in Handlers, Login(h) \/ StartFfmpeg(h) \/ DropFfmpeg(h) \/ DropSdk(h)
      PROVE  RequestInv'
  BY <1>6 DEF Login, StartFfmpeg, DropFfmpeg, DropSdk
<1>7. ASSUME NEW h \in Handlers, Streams(h) PROVE RequestInv'
  BY <1>7 DEF Streams, OutputReady, StartFails, Written, WriteEnds, ReadData, ReadEof, StreamEnds
<1>8. CASE Dispose
  BY <1>8 DEF Dispose
<1>9. CASE \E s \in Sids : Expire(s)
  BY <1>9 DEF Expire
<1>10. ASSUME NEW h \in Handlers, Accept(h) \/ Limit(h) PROVE RequestInv'
  BY <1>10 DEF Accept, Limit
<1>11. ASSUME NEW h \in Handlers, Around(h) PROVE RequestInv'
  BY <1>11 DEF Around, PumpGivesUp, BrowserLeaves, DeviceFallsSilent, Hangs
<1> QED
  BY <1>2, <1>3, <1>4, <1>5, <1>6, <1>7, <1>8, <1>9, <1>10, <1>11, Steps

-----------------------------------------------------------------------------
(* The keys *)

\* A key is added when it is free, and removed by the session that added it.
LEMMA KeysStep ==
  ASSUME TypeOK, RequestInv, KeysInv, Next
  PROVE  KeysInv'
<1> USE DEF TypeOK, At, taskVars, regVars
<1>1. ASSUME Keyed' = Keyed, ids' = ids, \A h \in Keyed : Key(h)' = Key(h)
      PROVE  KeysInv'
  <2>1. {Key(h) : h \in Keyed}' = {Key(h) : h \in Keyed}
    BY <1>1
  <2> QED
    BY <1>1, <2>1 DEF KeysInv
<1>2. ASSUME sid' = sid, range' = range
      PROVE  \A h \in Handlers : Key(h)' = Key(h)
  BY <1>2 DEF Key
<1>3. ASSUME NEW h \in Handlers, NEW s \in Sids, NEW r \in BOOLEAN, Wait(h, s, r)
      PROVE  KeysInv'
  <2>1. Keyed' = Keyed /\ h \notin Keyed
    BY <1>3 DEF Wait, Keyed
  <2>2. \A g \in Keyed : Key(g)' = Key(g)
    BY <1>3, <2>1 DEF Wait, Key, Keyed
  <2> QED
    BY <1>1, <1>3, <2>1, <2>2 DEF Wait
<1>4. ASSUME NEW h \in Handlers, TryAdd(h)
      PROVE  KeysInv'
  <2>1. Keyed' = Keyed \cup {h} /\ \A g \in Handlers : Key(g)' = Key(g)
    BY <1>2, <1>4 DEF TryAdd, Keyed
  <2>2. ids' = {Key(g) : g \in Keyed} \cup {Key(h)} /\ Key(h) \notin {Key(g) : g \in Keyed}
    BY <1>4 DEF TryAdd, KeysInv
  <2>3. Keyed \cup {h} \subseteq Handlers
    BY DEF Keyed
  <2>4. ids' = {Key(g)' : g \in Keyed'}
    BY <2>1, <2>2, <2>3
  <2>5. \A f, g \in Keyed \cup {h} : Key(f) = Key(g) => f = g
    BY <2>2 DEF KeysInv
  <2>6. \A f, g \in Keyed' : Key(f)' = Key(g)' => f = g
    BY <2>1, <2>3, <2>5
  <2> QED
    BY <2>4, <2>6 DEF KeysInv
<1>5. ASSUME NEW h \in Handlers, Duplicate(h) \/ Release(h) \/ Limit(h)
      PROVE  KeysInv'
  <2>1. Keyed' = Keyed /\ h \notin Keyed
    BY <1>5 DEF Duplicate, Release, Limit, Finish, Keyed
  <2>2. \A g \in Keyed : Key(g)' = Key(g)
    BY <1>5, <2>1 DEF Duplicate, Release, Limit, Finish, Key, Keyed
  <2>3. ids' = ids
    BY <1>5 DEF Duplicate, Release, Limit
  <2> QED
    BY <1>1, <2>1, <2>2, <2>3
<1>6. ASSUME NEW h \in Handlers, TryRemove(h)
      PROVE  KeysInv'
  <2>1. /\ h \in Keyed /\ Keyed' = Keyed \ {h}
        /\ \A g \in Handlers : Key(g)' = Key(g)
    BY <1>2, <1>6 DEF TryRemove, Keyed
  <2>2. ids' = {Key(g) : g \in Keyed} \ {Key(h)}
    BY <1>6 DEF TryRemove, KeysInv
  <2>3. ids' = {Key(g) : g \in Keyed \ {h}}
    BY <2>1, <2>2 DEF KeysInv
  <2>4. ids' = {Key(g)' : g \in Keyed'}
    BY <2>1, <2>3 DEF Keyed
  <2>5. \A f, g \in Keyed' : Key(f)' = Key(g)' => f = g
    BY <2>1 DEF KeysInv, Keyed
  <2> QED
    BY <2>4, <2>5 DEF KeysInv
<1>7. ASSUME NEW h \in Handlers,
             Accept(h) \/ SetActive(h) \/ SetEnded(h) \/ DropSdk(h) \/ Streams(h)
      PROVE  KeysInv'
  <2>1. Keyed' = Keyed /\ ids' = ids /\ sid' = sid /\ range' = range
    BY <1>7 DEF Accept, SetActive, SetEnded, DropSdk, Streams, OutputReady, StartFails, Written,
                WriteEnds, ReadData, ReadEof, StreamEnds, Keyed
  <2> QED
    BY <1>1, <1>2, <2>1 DEF Keyed
<1>8. ASSUME UNCHANGED <<pc, sid, range, ids>>
      PROVE  KeysInv'
  <2>1. Keyed' = Keyed
    BY <1>8 DEF Keyed
  <2> QED
    BY <1>1, <1>2, <1>8, <2>1 DEF Keyed
<1>9. ASSUME NEW h \in Handlers, Login(h) \/ StartFfmpeg(h) \/ DropFfmpeg(h) \/ Around(h)
      PROVE  KeysInv'
  BY <1>8, <1>9 DEF Login, StartFfmpeg, DropFfmpeg, Around, PumpGivesUp, BrowserLeaves,
                    DeviceFallsSilent, Hangs
<1>10. ASSUME (\E s \in Sids : Expire(s)) \/ Dispose
       PROVE  KeysInv'
  BY <1>8, <1>10 DEF Expire, Dispose
<1> QED
  BY <1>3, <1>4, <1>5, <1>6, <1>7, <1>9, <1>10, Steps

-----------------------------------------------------------------------------
(* The statuses *)

\* Two sessions use the same id only when one of them is a Range request's.
LEMMA OneUser ==
  ASSUME RequestInv, KeysInv, NEW g \in Handlers, NEW h \in Handlers,
         Live(g), Live(h), sid[g] = sid[h], sid[h] \notin shared
  PROVE  g = h
<1>1. ~range[g] /\ ~range[h]
  BY DEF RequestInv
<1>2. Key(g) = Key(h)
  BY <1>1 DEF Key
<1>3. g \in Keyed /\ h \in Keyed
  BY DEF Live, Keyed
<1> QED
  BY <1>2, <1>3 DEF KeysInv

\* A status is active while somebody streams under its id, and ended only
\* when nobody does, whose id is its own.
LEMMA StatusStep ==
  ASSUME TypeOK, RequestInv, KeysInv, StatusIsTrue, Next
  PROVE  StatusIsTrue'
<1> USE DEF TypeOK, At, Finish, taskVars, regVars
<1>1. ASSUME \A h \in Handlers : Live(h)' <=> Live(h),
             \A h \in Handlers : Live(h) => sid'[h] = sid[h],
             \A s \in Sids : statuses'[s] \in {statuses[s], "none"},
             shared \subseteq shared'
      PROVE  StatusIsTrue'
  BY <1>1 DEF StatusIsTrue
<1>2. ASSUME NEW h \in Handlers, SetActive(h)
      PROVE  StatusIsTrue'
  <2>1. /\ sid[h] \in Sids /\ Live(h)' /\ sid' = sid /\ shared' = shared
        /\ statuses' = [statuses EXCEPT ![sid[h]] = "active"]
        /\ \A g \in Handlers : g # h => (Live(g)' <=> Live(g))
    BY <1>2 DEF SetActive, Live, RequestInv, Busy
  <2>2. ~Live(h)
    BY <1>2 DEF SetActive, Live
  <2> QED
    BY <2>1, <2>2 DEF StatusIsTrue
<1>3. ASSUME NEW h \in Handlers, SetEnded(h)
      PROVE  StatusIsTrue'
  <2>1. /\ sid[h] \in Sids /\ Live(h) /\ ~Live(h)' /\ sid' = sid /\ shared' = shared
        /\ statuses' = [statuses EXCEPT ![sid[h]] = "ended"]
        /\ \A g \in Handlers : g # h => (Live(g)' <=> Live(g))
    BY <1>3 DEF SetEnded, Live, RequestInv, Busy
  <2>2. \A g \in Handlers : Live(g)' /\ sid[g] = sid[h] => sid[h] \in shared
    BY <2>1, OneUser
  <2> QED
    BY <2>1, <2>2 DEF StatusIsTrue
<1>4. ASSUME NEW h \in Handlers, NEW s \in Sids, NEW r \in BOOLEAN, Wait(h, s, r)
      PROVE  StatusIsTrue'
  BY <1>1, <1>4 DEF Wait, Live
<1>5. ASSUME NEW h \in Handlers, Accept(h) \/ Limit(h) \/ Duplicate(h) \/ Release(h)
      PROVE  StatusIsTrue'
  BY <1>1, <1>5 DEF Accept, Limit, Duplicate, Release, Live
<1>6. ASSUME NEW h \in Handlers, TryAdd(h) \/ TryRemove(h) \/ DropSdk(h) \/ Streams(h)
      PROVE  StatusIsTrue'
  BY <1>1, <1>6 DEF TryAdd, TryRemove, DropSdk, Streams, OutputReady, StartFails, Written,
                    WriteEnds, ReadData, ReadEof, StreamEnds, Live
<1>7. ASSUME NEW h \in Handlers, Login(h) \/ StartFfmpeg(h) \/ DropFfmpeg(h) \/ Around(h)
      PROVE  StatusIsTrue'
  BY <1>1, <1>7 DEF Login, StartFfmpeg, DropFfmpeg, Around, PumpGivesUp, BrowserLeaves,
                    DeviceFallsSilent, Hangs, Live
<1>8. ASSUME (\E s \in Sids : Expire(s)) \/ Dispose
      PROVE  StatusIsTrue'
  BY <1>1, <1>8 DEF Expire, Dispose, Live
<1> QED
  BY <1>2, <1>3, <1>4, <1>5, <1>6, <1>7, <1>8, Steps

-----------------------------------------------------------------------------
\* Nothing happens.
LEMMA Stutter ==
  ASSUME TypeOK, IInv, UNCHANGED vars
  PROVE  TypeOK' /\ IInv'
<1> USE DEF vars, taskVars, regVars
<1>1. TypeOK' /\ PlacesInv'
  BY DEF TypeOK, IInv, PlacesInv, Busy
<1>2. RequestInv' /\ StatusIsTrue'
  BY DEF IInv, RequestInv, Busy, StatusIsTrue, Live
<1>3. KeysInv'
  BY DEF IInv, KeysInv, Key, Keyed
<1> QED
  BY <1>1, <1>2, <1>3 DEF IInv

\* The types and the inductive invariant: the semaphore counts the tasks that
\* are under way, and _ids holds the keys of the reserved sessions.
THEOREM Inductive == Spec => [](TypeOK /\ IInv)
<1>1. ASSUME TypeOK, IInv, Next PROVE TypeOK' /\ IInv'
  BY <1>1, TypeStep, PlacesStep, RequestStep, KeysStep, StatusStep DEF IInv
<1>2. TypeOK /\ IInv /\ [Next]_vars => TypeOK' /\ IInv'
  BY <1>1, Stutter
<1> QED
  BY InvInit, <1>2, PTL DEF Spec

\* The sessions that hold an SDK login or an FFmpeg process never exceed
\* MaxSessions, and each has a key of its own.
THEOREM LimitSafety == Spec => []WithinLimit
<1>1. TypeOK /\ IInv => WithinLimit
  <2> SUFFICES ASSUME TypeOK, IInv PROVE WithinLimit
    OBVIOUS
  <2> DEFINE Holders == {h \in Handlers : resources[h] # {}}
  <2>1. Holders \subseteq Keyed /\ Holders \subseteq Busy
    BY DEF IInv, RequestInv, Live, Keyed, Busy
  <2>2. Cardinality(Holders) <= Cardinality(Busy) /\ Cardinality(Holders) \in Nat
    BY <2>1, BusyFinite, FS_Subset
  <2>3. slots \in 0..MaxSessions /\ slots + Cardinality(Busy) = MaxSessions
    BY DEF TypeOK, IInv, PlacesInv
  <2>4. Cardinality(Holders) <= MaxSessions
    BY <2>2, <2>3, BusyFinite, CsAssumption DEF CsAssumption
  <2>5. \A h \in Holders : Key(h) \in ids
    BY <2>1 DEF IInv, KeysInv
  <2>6. \A g, h \in Holders : g # h => Key(g) # Key(h)
    BY <2>1 DEF IInv, KeysInv
  <2> QED
    BY <2>4, <2>5, <2>6 DEF WithinLimit
<1> QED
  BY Inductive, <1>1, PTL

\* No place, key or resource is lost, whichever way requests ended.
THEOREM LeakSafety == Spec => []NothingLeaks
<1>1. TypeOK /\ IInv => NothingLeaks
  <2> SUFFICES ASSUME TypeOK, IInv, \A h \in Handlers : pc[h] \in {"idle", "accepted"}
               PROVE  slots = MaxSessions /\ ids = {} /\ \A h \in Handlers : resources[h] = {}
    BY DEF NothingLeaks
  <2>1. Busy = {} /\ Keyed = {}
    BY DEF Busy, Keyed
  <2>2. slots = MaxSessions
    BY <2>1, FS_EmptySet DEF TypeOK, IInv, PlacesInv
  <2>3. ids = {}
    BY <2>1 DEF IInv, KeysInv
  <2>4. \A h \in Handlers : resources[h] = {}
    BY DEF IInv, RequestInv, Live
  <2> QED
    BY <2>2, <2>3, <2>4
<1> QED
  BY Inductive, <1>1, PTL

\* What SessionStatusRegistry tells of a session is true, except that a Range
\* request may share the id.
THEOREM StatusSafety == Spec => []StatusIsTrue
<1>1. IInv => StatusIsTrue
  BY DEF IInv
<1> QED
  BY Inductive, <1>1, PTL
=============================================================================
