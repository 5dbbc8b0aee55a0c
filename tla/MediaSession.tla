---------------------------- MODULE MediaSession ----------------------------
(***************************************************************************)
(* One HcSession of the C++ bridge with its ByteQueue, or one              *)
(* HcNetStreamSession of the C# bridge with its ByteBoundedQueue: the      *)
(* owner that prepares, starts and stops it, the SDK's callback thread,    *)
(* the playback monitor thread, and whoever takes packets out of the queue. *)
(*                                                                         *)
(* The C# bridge does not wait for its monitor, and completes the queue    *)
(* after the SDK has stopped instead of before.                            *)
(*                                                                         *)
(* The device is the environment: it delivers packets, answers keep-alives *)
(* and reports a playback position.  Packets are numbered in the order in  *)
(* which the SDK delivers them; of their bytes only the size is kept.      *)
(***************************************************************************)
EXTENDS Integers, Sequences

CONSTANTS Limit,      \* ByteQueue::limit_, config.queue_bytes
          Sizes,      \* sizes of the packets that the device sends
          MaxPackets  \* bound: packets delivered in one session

ASSUME MediaAssumption ==
  /\ Limit \in Nat \ {0} /\ MaxPackets \in Nat
  /\ Sizes \subseteq Nat \ {0}

\* Consecutive keep-alive failures that end a playback.
KeepAliveLimit == 3

VARIABLES
  build,                          \* "cpp" or "csharp"
  items, bytes, peak, closed,     \* ByteQueue
  user, handle,                   \* user_ >= 0, handle_ >= 0
  stopped, overflow, endReason,   \* stopped_, overflow_, end_reason_
  firstData, failures,            \* first_data_, keep_alive_failures_
  owner,                          \* where the owning handler is
  cb, packet,                     \* where accept_data() is, and with what
  mon, verdict,                   \* where the monitor is, and its reason
  sent, popped,                   \* last packet delivered, last one taken out
  timedOut, lost                  \* history: a push waited in vain; an
                                  \* accepted packet was not queued

queueVars == <<items, bytes, peak, closed>>
ownVars   == <<user, handle, owner>>
flagVars  == <<stopped, overflow, endReason, firstData>>
monVars   == <<mon, verdict, failures>>
histVars  == <<timedOut, lost>>
vars == <<build, queueVars, ownVars, flagVars, monVars, histVars, cb, packet, sent, popped>>

Verdicts == {"playback_end", "playback_position_error", "sdk_keepalive_failed"}
NoPacket == [id |-> 0, size |-> 0, media |-> FALSE]

csharp == build = "csharp"

Init ==
  /\ build \in {"cpp", "csharp"}
  /\ items = <<>> /\ bytes = 0 /\ peak = 0 /\ closed = FALSE
  /\ user = FALSE /\ handle = FALSE /\ owner = "new"
  /\ stopped = FALSE /\ overflow = FALSE /\ firstData = FALSE
  /\ endReason = "active"
  /\ mon = "off" /\ verdict = "active" /\ failures = 0
  /\ cb = "idle" /\ packet = NoPacket
  /\ sent = 0 /\ popped = 0
  /\ timedOut = FALSE /\ lost = FALSE

\* Steps of the three threads, with what none of the thread's steps changes.
OwnerStep(from, to) ==
  /\ owner = from /\ owner' = to
  /\ UNCHANGED <<build, items, bytes, peak, overflow, endReason, firstData, verdict,
                 failures, histVars, cb, packet, sent, popped>>

CallbackStep(from, to) ==
  /\ cb = from /\ cb' = to
  /\ UNCHANGED <<build, ownVars, stopped, monVars, sent, popped>>

MonitorStep(from, to) ==
  /\ mon = from /\ mon' = to
  /\ UNCHANGED <<build, items, bytes, peak, ownVars, stopped, overflow, firstData, histVars,
                 cb, packet, sent, popped>>

-----------------------------------------------------------------------------
(***************************************************************************)
(* The owner: prepare(), start_stream_and_wait_for_data(), stop().         *)
(***************************************************************************)

\* The endpoint answers and NET_DVR_Login_V40 succeeds.
Login ==
  /\ OwnerStep("new", "loggedIn")
  /\ user' = TRUE
  /\ UNCHANGED <<closed, handle, stopped, mon>>

\* NET_DVR_RealPlay_V40 with its callback: option=realplay.
start_realplay ==
  /\ OwnerStep("loggedIn", "waiting")
  /\ handle' = TRUE
  /\ UNCHANGED <<closed, user, stopped, mon>>

\* NET_DVR_PlayBackByTime_V40 and its callback: option=playback.
start_playback ==
  /\ OwnerStep("loggedIn", "opened")
  /\ handle' = TRUE
  /\ UNCHANGED <<closed, user, stopped, mon>>

\* NET_DVR_PLAYSTART and the speed commands succeed; the monitor starts.
StartMonitor ==
  /\ OwnerStep("opened", "waiting")
  /\ mon' = "loop"
  /\ UNCHANGED <<closed, user, handle, stopped>>

\* The wait loop polls every 100 ms for the first media packet or an
\* overflow; the C# bridge looks for an overflow only when it has waited in
\* vain (GiveUp).
FirstDataSeen ==
  /\ OwnerStep("waiting", IF overflow /\ ~csharp THEN "stopping" ELSE "serving")
  /\ firstData \/ (overflow /\ ~csharp)
  /\ UNCHANGED <<closed, user, handle, stopped, mon>>

\* An exception leaves prepare() or start(): an SDK error, a timeout, a
\* client that left; or the handler is done with the session.
GiveUp ==
  /\ \E from \in {"new", "loggedIn", "opened", "waiting", "serving"} :
       OwnerStep(from, "stopping")
  /\ UNCHANGED <<closed, user, handle, stopped, mon>>

\* stop(): stopped_, then the queue is closed so that a waiting callback
\* returns.  The C# bridge leaves that to the callback's deadline.
RequestStop ==
  /\ OwnerStep("stopping", IF csharp THEN "stopHandle" ELSE "closeQueue")
  /\ stopped' = TRUE
  /\ UNCHANGED <<closed, user, handle, mon>>

CloseQueue ==
  /\ OwnerStep("closeQueue", IF csharp THEN "gone" ELSE "joinMonitor")
  /\ closed' = TRUE
  /\ UNCHANGED <<user, handle, stopped, mon>>

JoinMonitorMutant ==
  /\ OwnerStep("joinMonitor", "stopHandle")
  /\ UNCHANGED <<closed, user, handle, stopped, mon>>

JoinMonitor ==
  /\ OwnerStep("joinMonitor", "stopHandle")
  /\ mon \in {"off", "done"}
  /\ UNCHANGED <<closed, user, handle, stopped, mon>>

\* NET_DVR_StopRealPlay / NET_DVR_StopPlayBack return when no callback runs.
StopHandle ==
  /\ OwnerStep("stopHandle", "logout")
  /\ cb = "idle"
  /\ handle' = FALSE
  /\ UNCHANGED <<closed, user, stopped, mon>>

Logout ==
  /\ OwnerStep("logout", IF csharp THEN "closeQueue" ELSE "gone")
  /\ user' = FALSE
  /\ UNCHANGED <<closed, handle, stopped, mon>>

-----------------------------------------------------------------------------
(***************************************************************************)
(* accept_data() on the SDK's callback thread, ByteQueue::push and pop.    *)
(***************************************************************************)

\* The device delivers a packet; it passes or fails the checks on stopped_
\* and end_reason_.
Deliver(size, media) ==
  /\ handle /\ cb = "idle" /\ sent < MaxPackets
  /\ sent' = sent + 1
  /\ IF stopped \/ endReason # "active"
       THEN UNCHANGED <<cb, packet>>
       ELSE /\ packet' = [id |-> sent + 1, size |-> size, media |-> media]
            /\ cb' = "push"
  /\ UNCHANGED <<build, queueVars, ownVars, flagVars, monVars, histVars, popped>>

Fits(p) == bytes + p.size <= Limit

Enqueue(from) ==
  /\ CallbackStep(from, "pushed")
  /\ ~closed /\ Fits(packet)
  /\ items' = Append(items, packet)
  /\ bytes' = bytes + packet.size
  /\ peak' = IF bytes' > peak THEN bytes' ELSE peak
  /\ UNCHANGED <<closed, overflow, endReason, firstData, histVars, packet>>

\* push() takes the queue's lock and finds room, at once or after a wait.
Push == Enqueue("push")
PushAfterWait == Enqueue("wait")

\* The queue is full: wait for room, for the close or for the deadline.
PushWaits ==
  /\ CallbackStep("push", "wait")
  /\ ~closed /\ packet.size <= Limit /\ ~Fits(packet)
  /\ UNCHANGED <<queueVars, overflow, endReason, firstData, histVars, packet>>

\* push() returns false because the queue is closed or the packet can never fit.
PushRefused ==
  /\ \E from \in {"push", "wait"} : CallbackStep(from, "failed")
  /\ closed \/ packet.size > Limit
  /\ lost' = TRUE
  /\ UNCHANGED <<queueVars, overflow, endReason, firstData, timedOut, packet>>

PushTimesOutMutant ==
  /\ CallbackStep("wait", "idle")
  /\ ~closed /\ ~Fits(packet)
  /\ lost' = TRUE /\ timedOut' = TRUE
  /\ UNCHANGED <<queueVars, overflow, endReason, firstData, packet>>

\* queue_backpressure_ms pass while the queue stays full.
PushTimesOut ==
  /\ CallbackStep("wait", "failed")
  /\ ~closed /\ ~Fits(packet)
  /\ lost' = TRUE /\ timedOut' = TRUE
  /\ UNCHANGED <<queueVars, overflow, endReason, firstData, packet>>

\* The callback records the overflow, whatever is recorded already ...
RecordOverflow ==
  /\ CallbackStep("failed", "closeQueue")
  /\ overflow' = TRUE
  /\ endReason' = "queue_overflow"
  /\ UNCHANGED <<queueVars, firstData, histVars, packet>>

CloseAfterOverflowMutant ==
  /\ CallbackStep("closeQueue", "idle")
  /\ packet' = NoPacket
  /\ UNCHANGED <<queueVars, overflow, endReason, firstData, histVars>>

\* ... and closes the queue.
CloseAfterOverflow ==
  /\ CallbackStep("closeQueue", "idle")
  /\ closed' = TRUE
  /\ packet' = NoPacket
  /\ UNCHANGED <<items, bytes, peak, overflow, endReason, firstData, histVars>>

\* A queued media packet, unlike a system header, ends the wait for data.
CallbackReturns ==
  /\ CallbackStep("pushed", "idle")
  /\ firstData' = (firstData \/ packet.media)
  /\ packet' = NoPacket
  /\ UNCHANGED <<queueVars, overflow, endReason, histVars>>

PopMutant ==
  /\ items # <<>>
  /\ popped' = items[Len(items)].id
  /\ bytes' = bytes - items[Len(items)].size
  /\ items' = SubSeq(items, 1, Len(items) - 1)
  /\ UNCHANGED <<build, peak, closed, ownVars, flagVars, monVars, histVars, cb, packet, sent>>

\* pop(), also of what a closed queue still holds.
Pop ==
  /\ items # <<>>
  /\ popped' = Head(items).id
  /\ bytes' = bytes - Head(items).size
  /\ items' = Tail(items)
  /\ UNCHANGED <<build, peak, closed, ownVars, flagVars, monVars, histVars, cb, packet, sent>>

-----------------------------------------------------------------------------
(***************************************************************************)
(* The playback monitor thread.                                            *)
(***************************************************************************)

\* complete_playback(): test end_reason_, store it, close the queue: three
\* steps that no lock protects.
Complete(from, v) ==
  /\ MonitorStep(from, IF endReason = "active" THEN "store" ELSE "done")
  /\ verdict' = IF endReason = "active" THEN v ELSE verdict
  /\ UNCHANGED <<closed, endReason>>

MonitorTestsMutant ==
  /\ MonitorStep("loop", IF endReason # "active" THEN "done" ELSE IF csharp THEN "sleep" ELSE "body")
  /\ UNCHANGED <<closed, endReason, verdict, failures>>

\* while (!stopped_), then the 200 ms of sleep that let the owner overtake.
MonitorTests ==
  /\ MonitorStep("loop", IF stopped THEN "done" ELSE IF csharp THEN "sleep" ELSE "body")
  /\ UNCHANGED <<closed, endReason, verdict, failures>>

\* In C#, the handle is looked at once more after the sleep.
MonitorWakes ==
  /\ MonitorStep("sleep", IF handle THEN "body" ELSE "done")
  /\ UNCHANGED <<closed, endReason, verdict, failures>>

KeepAliveNotDue ==
  /\ MonitorStep("body", "position")
  /\ UNCHANGED <<closed, endReason, verdict, failures>>

\* After a keep-alive, the loop goes on unless the session has ended.
GoOn ==
  /\ MonitorStep("body", IF endReason # "active" THEN "done" ELSE "position")
  /\ UNCHANGED <<closed, endReason, verdict>>

\* NET_DVR_KEEPALIVE answered: the count of failures starts again.
KeepAliveAnswered ==
  /\ GoOn
  /\ failures' = 0

KeepAliveFails ==
  /\ failures' = failures + 1
  /\ IF failures' >= KeepAliveLimit
       THEN Complete("body", "sdk_keepalive_failed")
       ELSE GoOn

\* The position is not due or an ordinary one.
PositionOrdinary ==
  /\ MonitorStep("position", "loop")
  /\ UNCHANGED <<closed, endReason, verdict, failures>>

\* NET_DVR_GetPlayBackPos: 100 is the end, 200 an error.
PositionEnds(v) ==
  /\ Complete("position", v)
  /\ UNCHANGED failures

StoreVerdict ==
  /\ MonitorStep("store", "close")
  /\ endReason' = verdict
  /\ UNCHANGED <<closed, verdict, failures>>

CloseAfterVerdict ==
  /\ MonitorStep("close", "done")
  /\ closed' = TRUE
  /\ UNCHANGED <<endReason, verdict, failures>>

-----------------------------------------------------------------------------
OwnerNext ==
  \/ Login \/ start_realplay \/ start_playback \/ StartMonitor \/ FirstDataSeen
  \/ RequestStop \/ CloseQueue \/ JoinMonitor \/ StopHandle \/ Logout

CallbackNext ==
  \/ Push \/ PushWaits \/ PushAfterWait \/ PushRefused \/ PushTimesOut
  \/ RecordOverflow \/ CloseAfterOverflow \/ CallbackReturns

MonitorNext ==
  \/ MonitorTests \/ MonitorWakes \/ KeepAliveNotDue \/ KeepAliveAnswered \/ KeepAliveFails
  \/ PositionOrdinary \/ StoreVerdict \/ CloseAfterVerdict
  \/ \E v \in {"playback_end", "playback_position_error"} : PositionEnds(v)

\* The session object is destroyed.
Destroyed == owner = "gone" /\ UNCHANGED vars

Next ==
  \/ OwnerNext \/ GiveUp \/ CallbackNext \/ MonitorNext \/ Pop \/ Destroyed
  \/ \E s \in Sizes, m \in BOOLEAN : Deliver(s, m)

Spec == Init /\ [][Next]_vars

\* Threads run; a push has a deadline; the wait for data has one (GiveUp).
\* Nothing obliges the device or the consumer to do anything.
Fairness ==
  /\ WF_vars(CallbackNext) /\ WF_vars(MonitorNext)
  /\ WF_vars(RequestStop \/ CloseQueue \/ JoinMonitor \/ StopHandle \/ Logout)
  /\ WF_vars(owner = "waiting" /\ (FirstDataSeen \/ GiveUp))

FairSpec == Spec /\ Fairness

-----------------------------------------------------------------------------
Packets == [id : Nat, size : Nat, media : BOOLEAN]

\* Types.
TypeOK ==
  /\ build \in {"cpp", "csharp"}
  /\ items \in Seq(Packets) /\ bytes \in Nat /\ peak \in Nat
  /\ {closed, user, handle, stopped, overflow, firstData, timedOut, lost} \subseteq BOOLEAN
  /\ endReason \in Verdicts \cup {"active", "queue_overflow"}
  /\ verdict \in Verdicts \cup {"active"} /\ failures \in 0..KeepAliveLimit
  /\ owner \in {"new", "loggedIn", "opened", "waiting", "serving", "stopping",
                "closeQueue", "joinMonitor", "stopHandle", "logout", "gone"}
  /\ cb \in {"idle", "push", "wait", "pushed", "failed", "closeQueue"}
  /\ packet \in Packets
  /\ mon \in {"off", "loop", "sleep", "body", "position", "store", "close", "done"}
  /\ sent \in Nat /\ popped \in Nat

\* What comes out of the queue is what the SDK delivered, in order and
\* without a gap: after one packet is lost no later one is queued.
NoGap == \A i \in DOMAIN items : items[i].id = popped + i

\* No packet is lost silently (README 121): a session that lost one has a
\* reason other than active, or its callback is about to record it.
LossIsReported == lost => endReason # "active" \/ cb = "failed"

\* The monitor's SDK calls use a live handle of a logged-in user; the handle
\* is closed before the logout and after the monitor is joined.  The C# bridge
\* does not join it: there, a call may meet the closed handle.
HandleDiscipline ==
  /\ handle => user
  /\ mon \in {"body", "position"} /\ ~csharp => handle
  /\ cb # "idle" => handle

\* A session that has ended for any reason closes its queue, so that the
\* consumer sees the end of the stream.
EndReachesConsumer == endReason # "active" ~> closed

\* Stopping terminates although callback and monitor are in the middle of
\* something, and leaves neither login nor handle behind.
StopReleases == owner = "stopping" ~> (owner = "gone" /\ ~user /\ ~handle)

\* While a session is served, the end reason that handle_video is to report
\* is queue_overflow only if the queue stayed full for the permitted time
\* (main.cpp 754, README 121).
OverflowMeansFull ==
  owner = "serving" /\ endReason = "queue_overflow" => timedOut

-----------------------------------------------------------------------------
(***************************************************************************)
(* The inductive invariant behind the proofs.                              *)
(***************************************************************************)

\* bytes is the total size of the items, told by the sums of their prefixes.
Accounts(sum) ==
  /\ sum[0] = 0 /\ sum[Len(items)] = bytes
  /\ \A i \in DOMAIN items : sum[i] = sum[i - 1] + items[i].size
  /\ \A i, j \in 0..Len(items) : i <= j => sum[i] <= sum[j]

ByteInv == bytes <= Limit /\ \E sum \in [0..Len(items) -> 0..bytes] : Accounts(sum)

\* As long as nothing ended the session, every packet that was delivered is
\* queued, taken out, or in the hands of the callback.
OrderInv ==
  /\ NoGap
  /\ endReason = "active" /\ ~stopped /\ cb = "idle" => sent = popped + Len(items)
  /\ cb \in {"push", "wait"} => packet.id = sent /\ sent = popped + Len(items) + 1
  /\ cb = "pushed" => sent = popped + Len(items)

\* Whoever is about to end the session has a reason, and a monitor that goes on
\* has seen fewer failures than end a playback.
ReasonInv ==
  /\ LossIsReported
  /\ mon = "store" => verdict # "active"
  /\ cb = "closeQueue" => endReason # "active"
  /\ mon \notin {"store", "close", "done"} => failures < KeepAliveLimit

\* Login and handle, and who may use them, at each position of the owner.
HandleInv ==
  /\ owner \in {"loggedIn", "opened", "waiting", "serving"} => user
  /\ owner \in {"opened", "waiting", "serving"} => handle
  /\ owner \in {"logout", "gone"} \/ (owner = "closeQueue" /\ csharp) => ~handle
  /\ handle => user
  /\ cb # "idle" => handle
  /\ owner \in {"new", "loggedIn", "opened"} => mon = "off"
  /\ ~csharp /\ mon \notin {"off", "done"} =>
       handle /\ owner \in {"waiting", "serving", "stopping", "closeQueue", "joinMonitor"}

IInv == ByteInv /\ OrderInv /\ ReasonInv /\ HandleInv
=============================================================================
