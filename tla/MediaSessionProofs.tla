------------------------- MODULE MediaSessionProofs -------------------------
(***************************************************************************)
(* Proofs about MediaSession, for both bridges, any queue limit and any    *)
(* number and size of packets: the queue's count of its bytes, the order   *)
(* and completeness of what comes out of it, the reason that a loss leaves *)
(* behind, and who may use login and handle.                               *)
(***************************************************************************)
EXTENDS MediaSession, SequenceTheorems, TLAPS

-----------------------------------------------------------------------------
(* The queue. *)

\* What a step does to the queue: push() adds the packet in hand, pop() takes
\* the first, and nothing else touches it.
LEMMA QueueStep ==
  ASSUME [Next]_vars
  PROVE  Enqueue("push") \/ Enqueue("wait") \/ Pop \/ UNCHANGED <<items, bytes, popped>>
<1> USE DEF queueVars, OwnerStep, CallbackStep, MonitorStep
<1>1. CASE OwnerNext \/ GiveUp
  BY <1>1 DEF OwnerNext, Login, start_realplay, start_playback, StartMonitor, FirstDataSeen,
              RequestStop, CloseQueue, JoinMonitor, StopHandle, Logout, GiveUp
<1>2. CASE CallbackNext
  BY <1>2 DEF CallbackNext, Push, PushAfterWait, PushWaits, PushRefused, PushTimesOut,
              RecordOverflow, CloseAfterOverflow, CallbackReturns
<1>3. CASE MonitorNext
  BY <1>3 DEF MonitorNext, MonitorTests, MonitorWakes, KeepAliveNotDue, KeepAliveAnswered,
              KeepAliveFails, GoOn, PositionOrdinary, PositionEnds, Complete,
              StoreVerdict, CloseAfterVerdict
<1>4. CASE \E s \in Sizes, m \in BOOLEAN : Deliver(s, m)
  BY <1>4 DEF Deliver
<1>5. CASE Pop \/ Destroyed \/ UNCHANGED vars
  BY <1>5 DEF Destroyed, vars
<1> QED
  BY <1>1, <1>2, <1>3, <1>4, <1>5 DEF Next

\* push() appends a packet and adds its size.
LEMMA AppendAccounts ==
  ASSUME items \in Seq(Packets), bytes \in Nat, ByteInv,
         NEW p \in Packets, bytes + p.size <= Limit,
         items' = Append(items, p), bytes' = bytes + p.size
  PROVE  ByteInv' /\ bytes' \in Nat
<1>1. PICK sum \in [0..Len(items) -> 0..bytes] : Accounts(sum)
  BY DEF ByteInv
<1>2. /\ Len(items) \in Nat /\ Len(items') = Len(items) + 1
      /\ DOMAIN items = 1..Len(items) /\ DOMAIN items' = 1..(Len(items) + 1)
      /\ \A i \in 1..Len(items) : items'[i] = items[i]
      /\ items'[Len(items) + 1] = p
  BY AppendProperties, LenProperties
<1>3. p.size \in Nat /\ bytes' \in Nat
  BY DEF Packets
<1> DEFINE new == [i \in 0..Len(items') |-> IF i <= Len(items) THEN sum[i] ELSE bytes']
<1>4. new \in [0..Len(items') -> 0..bytes']
  BY <1>1, <1>2, <1>3
<1>5. new[0] = 0 /\ new[Len(items')] = bytes'
  BY <1>1, <1>2 DEF Accounts
<1>6. \A i \in DOMAIN items' : new[i] = new[i - 1] + items'[i].size
  BY <1>1, <1>2 DEF Accounts
<1>7. \A i, j \in 0..Len(items') : i <= j => new[i] <= new[j]
  BY <1>1, <1>2, <1>3 DEF Accounts
<1> HIDE DEF new
<1> QED
  BY <1>3, <1>4, <1>5, <1>6, <1>7 DEF ByteInv, Accounts

\* pop() takes the first packet and subtracts its size, which is counted.
LEMMA TailAccounts ==
  ASSUME items \in Seq(Packets), bytes \in Nat, ByteInv, items # <<>>,
         items' = Tail(items), bytes' = bytes - Head(items).size, MediaAssumption
  PROVE  ByteInv' /\ bytes' \in Nat
<1>1. PICK sum \in [0..Len(items) -> 0..bytes] : Accounts(sum)
  BY DEF ByteInv
<1>2. /\ Len(items) \in Nat \ {0} /\ Len(items') = Len(items) - 1
      /\ DOMAIN items = 1..Len(items) /\ DOMAIN items' = 1..Len(items) - 1
      /\ \A i \in 1..Len(items) - 1 : items'[i] = items[i + 1]
      /\ Head(items) = items[1] /\ items[1] \in Packets
  BY HeadTailProperties, LenProperties, EmptySeq
<1>3. items[1].size \in Nat /\ sum[1] = items[1].size /\ sum[Len(items)] = bytes
  <2>1. 1 \in DOMAIN items
    BY <1>2
  <2>2. sum[1] = sum[1 - 1] + items[1].size /\ sum[0] = 0 /\ sum[Len(items)] = bytes
    BY <1>1, <2>1 DEF Accounts
  <2>3. items[1].size \in Nat
    BY <1>2 DEF Packets
  <2> QED
    BY <2>2, <2>3
<1>4. sum[1] <= sum[Len(items)]
  BY <1>1, <1>2 DEF Accounts
<1>5. bytes' \in Nat /\ bytes' = bytes - sum[1]
  BY <1>2, <1>3, <1>4
<1> DEFINE new == [i \in 0..Len(items') |-> sum[i + 1] - sum[1]]
<1>6. new \in [0..Len(items') -> 0..bytes']
  <2> SUFFICES ASSUME NEW i \in 0..Len(items') PROVE sum[i + 1] - sum[1] \in 0..bytes'
    OBVIOUS
  <2>1. sum[1] <= sum[i + 1] /\ sum[i + 1] \in 0..bytes /\ sum[1] \in 0..bytes
    BY <1>1, <1>2 DEF Accounts
  <2> QED
    BY <1>5, <2>1
<1>7. new[0] = 0 /\ new[Len(items')] = bytes'
  BY <1>1, <1>2, <1>3, <1>5
<1>8. \A i \in DOMAIN items' : new[i] = new[i - 1] + items'[i].size
  <2> SUFFICES ASSUME NEW i \in DOMAIN items' PROVE new[i] = new[i - 1] + items'[i].size
    OBVIOUS
  <2>0. i \in Nat /\ i + 1 \in 1..Len(items) /\ (i + 1) - 1 = i
    BY <1>2
  <2>1. sum[i + 1] = sum[i] + items[i + 1].size /\ items'[i] = items[i + 1]
    BY <1>1, <1>2, <2>0 DEF Accounts
  <2>2. items[i + 1] \in Packets
    BY <2>0, ElementOfSeq
  <2>3. items[i + 1].size \in Nat
    BY <2>2 DEF Packets
  <2>5. sum[i] \in Nat /\ sum[1] \in Nat
    <3>1. i \in 0..Len(items) /\ 1 \in 0..Len(items)
      BY <1>2, <2>0
    <3> QED
      BY <1>1, <3>1
  <2>4. new[i] = sum[i + 1] - sum[1] /\ new[i - 1] = sum[i] - sum[1]
    BY <1>2
  <2> QED
    BY <2>1, <2>3, <2>4, <2>5
<1>9. \A i, j \in 0..Len(items') : i <= j => new[i] <= new[j]
  <2> SUFFICES ASSUME NEW i \in 0..Len(items'), NEW j \in 0..Len(items'), i <= j
               PROVE  new[i] <= new[j]
    OBVIOUS
  <2>0. /\ i + 1 \in 0..Len(items) /\ j + 1 \in 0..Len(items) /\ i + 1 <= j + 1
        /\ 1 \in 0..Len(items)
    BY <1>2
  <2>1. /\ sum[i + 1] <= sum[j + 1] /\ sum[i + 1] \in 0..bytes /\ sum[j + 1] \in 0..bytes
        /\ sum[1] \in 0..bytes
    <3>1. \A x, y \in 0..Len(items) : x <= y => sum[x] <= sum[y]
      BY <1>1 DEF Accounts
    <3> HIDE DEF new
    <3> QED
      BY <1>1, <2>0, <3>1
  <2>2. new[i] = sum[i + 1] - sum[1] /\ new[j] = sum[j + 1] - sum[1]
    OBVIOUS
  <2>3. bytes \in Nat /\ \A x, y, z \in 0..bytes : x <= y => x - z <= y - z
    OBVIOUS
  <2> QED
    BY <2>1, <2>2, <2>3
<1>10. bytes' <= Limit
  BY <1>3, <1>5 DEF ByteInv, MediaAssumption
<1> HIDE DEF new
<1> QED
  BY <1>5, <1>6, <1>7, <1>8, <1>9, <1>10 DEF ByteInv, Accounts

-----------------------------------------------------------------------------
(* Types and the inductive invariant. *)

\* A session that does not exist yet.
LEMMA InvInit == Init => TypeOK /\ IInv
<1> SUFFICES ASSUME Init PROVE TypeOK /\ IInv
  OBVIOUS
<1>1. items = <<>> /\ items \in Seq(Packets) /\ Len(items) = 0 /\ DOMAIN items = {}
  BY EmptySeq DEF Init
<1>2. NoPacket \in Packets
  BY DEF NoPacket, Packets
<1>3. TypeOK
  <2>1. /\ bytes \in Nat /\ peak \in Nat /\ sent \in Nat /\ popped \in Nat
        /\ failures \in 0..KeepAliveLimit
    BY DEF Init, KeepAliveLimit
  <2>2. {closed, user, handle, stopped, overflow, firstData, timedOut, lost} \subseteq BOOLEAN
    BY DEF Init
  <2> QED
    BY <1>1, <1>2, <2>1, <2>2 DEF Init, TypeOK
<1>4. ByteInv
  <2> DEFINE zero == [i \in {0} |-> 0]
  <2>1. zero \in [0..Len(items) -> 0..bytes] /\ Accounts(zero)
    BY <1>1 DEF Init, Accounts
  <2>2. bytes <= Limit
    BY MediaAssumption DEF Init, MediaAssumption
  <2> QED
    BY <2>1, <2>2 DEF ByteInv
<1>5. OrderInv /\ ReasonInv /\ HandleInv
  BY <1>1 DEF Init, OrderInv, NoGap, ReasonInv, LossIsReported, HandleInv, KeepAliveLimit
<1> QED
  BY <1>3, <1>4, <1>5 DEF IInv

\* Every step keeps the count of the bytes.
LEMMA ByteStep == TypeOK /\ ByteInv /\ [Next]_vars => ByteInv' /\ bytes' \in Nat
<1> SUFFICES ASSUME TypeOK, ByteInv, [Next]_vars PROVE ByteInv' /\ bytes' \in Nat
  OBVIOUS
<1> USE DEF TypeOK
<1>1. CASE Enqueue("push") \/ Enqueue("wait")
  BY <1>1, AppendAccounts DEF Enqueue, Fits
<1>2. CASE Pop
  BY <1>2, TailAccounts, MediaAssumption DEF Pop
<1>3. CASE UNCHANGED <<items, bytes, popped>>
  BY <1>3 DEF ByteInv, Accounts
<1> QED
  BY <1>1, <1>2, <1>3, QueueStep

\* Every step keeps the types.
LEMMA TypeStep == TypeOK /\ ByteInv /\ ReasonInv /\ [Next]_vars => TypeOK'
<1> SUFFICES ASSUME TypeOK, ByteInv, ReasonInv, [Next]_vars PROVE TypeOK'
  OBVIOUS
<1>1. bytes' \in Nat
  BY ByteStep
<1>2. items' \in Seq(Packets)
  <2>1. CASE Enqueue("push") \/ Enqueue("wait")
    BY <2>1, AppendProperties DEF Enqueue, TypeOK
  <2>2. CASE Pop
    BY <2>2, HeadTailProperties DEF Pop, TypeOK
  <2>3. CASE UNCHANGED <<items, bytes, popped>>
    BY <2>3 DEF TypeOK
  <2> QED
    BY <2>1, <2>2, <2>3, QueueStep
<1> USE <1>1, <1>2
    DEF TypeOK, KeepAliveLimit, Verdicts, queueVars, ownVars, flagVars, monVars, histVars
<1>3. CASE Login \/ start_realplay \/ start_playback \/ StartMonitor
  BY <1>3 DEF Login, start_realplay, start_playback, StartMonitor, OwnerStep
<1>4. CASE FirstDataSeen \/ GiveUp \/ RequestStop
  BY <1>4 DEF FirstDataSeen, GiveUp, RequestStop, OwnerStep
<1>5. CASE CloseQueue \/ JoinMonitor \/ StopHandle \/ Logout
  BY <1>5 DEF CloseQueue, JoinMonitor, StopHandle, Logout, OwnerStep
<1>6. ASSUME NEW s \in Sizes, NEW m \in BOOLEAN, Deliver(s, m) PROVE TypeOK'
  <2>1. [id |-> sent + 1, size |-> s, media |-> m] \in Packets /\ sent + 1 \in Nat
    BY MediaAssumption DEF MediaAssumption, Packets
  <2> QED
    BY <1>6, <2>1 DEF Deliver
<1>7. CASE Push \/ PushAfterWait
  BY <1>7 DEF Push, PushAfterWait, Enqueue, CallbackStep
<1>8. CASE PushWaits \/ PushRefused \/ PushTimesOut
  BY <1>8 DEF PushWaits, PushRefused, PushTimesOut, CallbackStep
<1>9. CASE RecordOverflow \/ CloseAfterOverflow \/ CallbackReturns
  <2>1. NoPacket \in Packets
    BY DEF NoPacket, Packets
  <2> QED
    BY <1>9, <2>1 DEF RecordOverflow, CloseAfterOverflow, CallbackReturns, CallbackStep
<1>10. CASE Pop
  <2>1. Head(items) \in Packets
    BY <1>10, HeadTailProperties DEF Pop
  <2> QED
    BY <1>10, <2>1 DEF Pop, Packets
<1>11. CASE MonitorTests \/ MonitorWakes \/ KeepAliveNotDue \/ PositionOrdinary
  BY <1>11 DEF MonitorTests, MonitorWakes, KeepAliveNotDue, PositionOrdinary, MonitorStep
<1>12. CASE KeepAliveAnswered
  BY <1>12 DEF KeepAliveAnswered, GoOn, MonitorStep
<1>13. CASE KeepAliveFails
  BY <1>13 DEF KeepAliveFails, Complete, GoOn, MonitorStep, ReasonInv
<1>14. ASSUME NEW v \in {"playback_end", "playback_position_error"}, PositionEnds(v)
       PROVE  TypeOK'
  BY <1>14 DEF PositionEnds, Complete, MonitorStep
<1>15. CASE StoreVerdict \/ CloseAfterVerdict
  BY <1>15 DEF StoreVerdict, CloseAfterVerdict, MonitorStep
<1>16. CASE Destroyed \/ UNCHANGED vars
  BY <1>16 DEF Destroyed, vars
<1> QED
  BY <1>3, <1>4, <1>5, <1>6, <1>7, <1>8, <1>9, <1>10, <1>11, <1>12, <1>13, <1>14, <1>15,
     <1>16 DEF Next, OwnerNext, CallbackNext, MonitorNext

\* Every step keeps the packets in order.
LEMMA OrderStep ==
  TypeOK /\ OrderInv /\ ReasonInv /\ [Next]_vars => OrderInv'
<1> SUFFICES ASSUME TypeOK, OrderInv, ReasonInv, [Next]_vars PROVE OrderInv'
  OBVIOUS
<1>0. Len(items) \in Nat /\ DOMAIN items = 1..Len(items) /\ popped \in Nat /\ sent \in Nat
  BY LenProperties DEF TypeOK
<1> USE <1>0 DEF OrderInv, NoGap, queueVars, ownVars, flagVars, monVars, histVars
<1>1. CASE OwnerNext \/ GiveUp
  BY <1>1 DEF OwnerNext, Login, start_realplay, start_playback, StartMonitor, FirstDataSeen,
              RequestStop, CloseQueue, JoinMonitor, StopHandle, Logout, GiveUp, OwnerStep,
              TypeOK
\* The next packet in order is accepted, or the session is over.
<1>2. ASSUME NEW s \in Sizes, NEW m \in BOOLEAN, Deliver(s, m) PROVE OrderInv'
  BY <1>2 DEF Deliver
<1>3. CASE Enqueue("push") \/ Enqueue("wait")
  <2>1. /\ items' = Append(items, packet) /\ cb \in {"push", "wait"} /\ cb' = "pushed"
        /\ UNCHANGED <<sent, popped>>
    BY <1>3 DEF Enqueue, CallbackStep
  <2>2. /\ Len(items') = Len(items) + 1 /\ DOMAIN items' = 1..(Len(items) + 1)
        /\ \A i \in 1..Len(items) : items'[i] = items[i]
        /\ items'[Len(items) + 1] = packet
    BY <2>1, AppendProperties, LenProperties DEF TypeOK
  <2> QED
    BY <2>1, <2>2
<1>4. CASE PushWaits \/ PushRefused \/ PushTimesOut
  BY <1>4 DEF PushWaits, PushRefused, PushTimesOut, CallbackStep
<1>5. CASE RecordOverflow \/ CloseAfterOverflow \/ CallbackReturns
  BY <1>5 DEF RecordOverflow, CloseAfterOverflow, CallbackReturns, CallbackStep, ReasonInv
<1>6. CASE Pop
  <2>1. /\ items # <<>> /\ items' = Tail(items) /\ popped' = items[1].id
        /\ UNCHANGED <<sent, cb, packet, endReason, stopped>>
    BY <1>6 DEF Pop
  <2>2. /\ Len(items) > 0 /\ Len(items') = Len(items) - 1
        /\ DOMAIN items' = 1..(Len(items) - 1)
        /\ \A i \in 1..(Len(items) - 1) : items'[i] = items[i + 1]
    BY <2>1, HeadTailProperties, LenProperties, EmptySeq DEF TypeOK
  <2>3. popped' = popped + 1
    BY <2>1, <2>2
  <2> QED
    BY <2>1, <2>2, <2>3
\* The monitor can only end the session.
<1>7. CASE MonitorNext
  <2>1. UNCHANGED <<items, sent, popped, cb, packet, stopped>>
    BY <1>7 DEF MonitorNext, MonitorTests, MonitorWakes, KeepAliveNotDue,
                KeepAliveAnswered, KeepAliveFails, GoOn, PositionOrdinary, PositionEnds,
                Complete, StoreVerdict, CloseAfterVerdict, MonitorStep
  <2>2. endReason' = endReason \/ endReason' # "active"
    BY <1>7 DEF MonitorNext, MonitorTests, MonitorWakes, KeepAliveNotDue,
                KeepAliveAnswered, KeepAliveFails, GoOn, PositionOrdinary, PositionEnds,
                Complete, StoreVerdict, CloseAfterVerdict, MonitorStep, ReasonInv
  <2> QED
    BY <2>1, <2>2
<1>8. CASE Destroyed \/ UNCHANGED vars
  BY <1>8 DEF Destroyed, vars
<1> QED
  BY <1>1, <1>2, <1>3, <1>4, <1>5, <1>6, <1>7, <1>8
     DEF Next, CallbackNext, Push, PushAfterWait

\* Every step keeps the reasons and the discipline of the handles.
LEMMA ControlStep ==
  TypeOK /\ ReasonInv /\ HandleInv /\ [Next]_vars => ReasonInv' /\ HandleInv'
<1> SUFFICES ASSUME TypeOK, ReasonInv, HandleInv, [Next]_vars
             PROVE  ReasonInv' /\ HandleInv'
  OBVIOUS
<1> USE DEF TypeOK, ReasonInv, LossIsReported, HandleInv, csharp, KeepAliveLimit, Verdicts,
            queueVars, ownVars, flagVars, monVars, histVars
<1>1. CASE Login \/ start_realplay \/ start_playback \/ StartMonitor
  BY <1>1 DEF Login, start_realplay, start_playback, StartMonitor, OwnerStep
<1>2. CASE FirstDataSeen \/ GiveUp
  BY <1>2 DEF FirstDataSeen, GiveUp, OwnerStep
<1>3. CASE RequestStop \/ CloseQueue
  BY <1>3 DEF RequestStop, CloseQueue, OwnerStep
<1>4. CASE JoinMonitor \/ StopHandle \/ Logout
  BY <1>4 DEF JoinMonitor, StopHandle, Logout, OwnerStep
<1>5. ASSUME NEW s \in Sizes, NEW m \in BOOLEAN, Deliver(s, m)
      PROVE  ReasonInv' /\ HandleInv'
  BY <1>5 DEF Deliver
<1>6. CASE Push \/ PushAfterWait
  BY <1>6 DEF Push, PushAfterWait, Enqueue, CallbackStep
<1>7. CASE PushWaits \/ PushRefused \/ PushTimesOut
  BY <1>7 DEF PushWaits, PushRefused, PushTimesOut, CallbackStep
<1>8. CASE RecordOverflow \/ CloseAfterOverflow \/ CallbackReturns
  BY <1>8 DEF RecordOverflow, CloseAfterOverflow, CallbackReturns, CallbackStep
<1>9. CASE Pop
  BY <1>9 DEF Pop
<1>10. CASE MonitorTests \/ MonitorWakes \/ KeepAliveNotDue \/ PositionOrdinary
  BY <1>10 DEF MonitorTests, MonitorWakes, KeepAliveNotDue, PositionOrdinary, MonitorStep
<1>11. CASE KeepAliveAnswered
  BY <1>11 DEF KeepAliveAnswered, GoOn, MonitorStep
<1>12. CASE KeepAliveFails
  BY <1>12 DEF KeepAliveFails, Complete, GoOn, MonitorStep
<1>13. ASSUME NEW v \in {"playback_end", "playback_position_error"}, PositionEnds(v)
       PROVE  ReasonInv' /\ HandleInv'
  BY <1>13 DEF PositionEnds, Complete, MonitorStep
<1>14. CASE StoreVerdict \/ CloseAfterVerdict
  BY <1>14 DEF StoreVerdict, CloseAfterVerdict, MonitorStep
<1>15. CASE Destroyed \/ UNCHANGED vars
  BY <1>15 DEF Destroyed, vars
<1> QED
  BY <1>1, <1>2, <1>3, <1>4, <1>5, <1>6, <1>7, <1>8, <1>9, <1>10, <1>11, <1>12, <1>13,
     <1>14, <1>15 DEF Next, OwnerNext, CallbackNext, MonitorNext

\* Types and the inductive invariant hold throughout.
THEOREM Inductive == Spec => [](TypeOK /\ IInv)
<1>1. TypeOK /\ IInv /\ [Next]_vars => (TypeOK /\ IInv)'
  BY ByteStep, TypeStep, OrderStep, ControlStep DEF IInv
<1> QED
  BY <1>1, InvInit, PTL DEF Spec

-----------------------------------------------------------------------------
(* What follows from it. *)

\* What comes out of the queue is what the SDK delivered, without a gap.
THEOREM OrderSafety == Spec => []NoGap
<1>1. IInv => NoGap
  BY DEF IInv, OrderInv
<1> QED
  BY <1>1, Inductive, PTL

\* A session that lost a packet has a reason other than active.
THEOREM LossSafety == Spec => []LossIsReported
<1>1. IInv => LossIsReported
  BY DEF IInv, ReasonInv
<1> QED
  BY <1>1, Inductive, PTL

\* Callbacks and the C++ monitor use a live handle of a logged-in user.
THEOREM HandleSafety == Spec => []HandleDiscipline
<1>1. IInv => HandleDiscipline
  BY DEF IInv, HandleInv, HandleDiscipline
<1> QED
  BY <1>1, Inductive, PTL

\* The queue's count of its bytes, which decides who must wait, stays within
\* the limit, does not wrap below zero, and is zero for an empty queue: a
\* packet that may ever fit fits then.
THEOREM ByteSafety == Spec => [](bytes \in 0..Limit /\ (items = <<>> => bytes = 0))
<1>1. TypeOK /\ IInv => bytes \in 0..Limit /\ (items = <<>> => bytes = 0)
  <2> SUFFICES ASSUME TypeOK, IInv PROVE bytes \in 0..Limit /\ (items = <<>> => bytes = 0)
    OBVIOUS
  <2>1. bytes \in 0..Limit
    BY MediaAssumption DEF MediaAssumption, TypeOK, IInv, ByteInv
  <2>2. PICK sum \in [0..Len(items) -> 0..bytes] : Accounts(sum)
    BY DEF IInv, ByteInv
  <2>3. items = <<>> => Len(items) = 0
    BY EmptySeq
  <2> QED
    BY <2>1, <2>2, <2>3 DEF Accounts
<1> QED
  BY <1>1, Inductive, PTL
=============================================================================
