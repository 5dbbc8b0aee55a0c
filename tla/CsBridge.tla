------------------------------ MODULE CsBridge ------------------------------
(***************************************************************************)
(* The C# bridge: accept loop, one task per request, SessionRegistry,      *)
(* SessionStatusRegistry and the life of a video session in HandleVideo,   *)
(* up to Dispose, which joins none of the tasks.                           *)
(*                                                                         *)
(* Unlike the C++ bridge, it has no lock: registry and statuses are        *)
(* concurrent dictionaries and a semaphore, used step by step; and a       *)
(* session id is reserved once, except by the Range requests that browsers *)
(* make for a stream they already have.                                    *)
(***************************************************************************)
EXTENDS Integers, FiniteSets

CONSTANTS Handlers, Sids, MaxSessions, None

ASSUME CsAssumption ==
  /\ IsFiniteSet(Handlers) /\ None \notin Sids \cup Handlers
  /\ MaxSessions \in Nat \ {0}

VARIABLES
  pc,         \* where the task of a request is
  sid, range, \* its session id; it carries a Range header
  slots,      \* _slots: free places
  ids,        \* _ids: the keys of the sessions
  resources,  \* what the session holds of {"ffmpeg", "sdk"}
  media,      \* what passes through its FFmpeg: data ("on"); no more data of the
              \* device ("silent"); the end, FFmpeg's input being closed ("closed");
              \* or nothing ever again, though FFmpeg runs ("hung")
  left,       \* Windows has noticed that its browser closed the connection
  statuses,   \* _items of SessionStatusRegistry: none, active or ended
  disposed,   \* Dispose has stopped the listener and cleaned up the SDK
  shared      \* history: ids that a Range request has used

taskVars == <<pc, sid, range>>
regVars  == <<slots, ids>>
vars == <<taskVars, regVars, resources, media, left, statuses, disposed, shared>>

Init ==
  /\ pc = [h \in Handlers |-> "idle"] /\ sid = [h \in Handlers |-> None]
  /\ range = [h \in Handlers |-> FALSE]
  /\ slots = MaxSessions /\ ids = {}
  /\ resources = [h \in Handlers |-> {}]
  /\ media = [h \in Handlers |-> "on"] /\ left = [h \in Handlers |-> FALSE]
  /\ statuses = [s \in Sids |-> "none"]
  /\ disposed = FALSE /\ shared = {}

-----------------------------------------------------------------------------
At(h, from, to) == pc[h] = from /\ pc' = [pc EXCEPT ![h] = to]

\* The answer is sent, or the exception reaches Handle, and the task ends.
Finish(h) ==
  /\ pc' = [pc EXCEPT ![h] = "idle"] /\ sid' = [sid EXCEPT ![h] = None]
  /\ range' = [range EXCEPT ![h] = FALSE] /\ left' = [left EXCEPT ![h] = FALSE]

\* AcceptLoop starts a task; of its requests only /video matters here.
Accept(h) ==
  /\ ~disposed
  /\ At(h, "idle", "accepted")
  /\ UNCHANGED <<sid, range, regVars, resources, media, left, statuses, disposed, shared>>

\* _slots.Wait(0) finds no place: 503.
Limit(h) ==
  /\ pc[h] = "accepted" /\ slots = 0
  /\ Finish(h)
  /\ UNCHANGED <<regVars, resources, media, statuses, disposed, shared>>

Wait(h, s, r) ==
  /\ slots > 0
  /\ At(h, "accepted", "waited") /\ slots' = slots - 1
  /\ sid' = [sid EXCEPT ![h] = s] /\ range' = [range EXCEPT ![h] = r]
  /\ shared' = IF r THEN shared \cup {s} ELSE shared
  /\ UNCHANGED <<ids, resources, media, left, statuses, disposed>>

\* The GUID of a Range request makes its key unique.
Key(h) == IF range[h] THEN <<sid[h], h>> ELSE <<sid[h], None>>

TryAddMutant(h) ==
  /\ At(h, "waited", "reserved")
  /\ ids' = ids \cup {Key(h)}
  /\ UNCHANGED <<sid, range, slots, resources, media, left, statuses, disposed, shared>>

TryAdd(h) ==
  /\ At(h, "waited", "reserved")
  /\ Key(h) \notin ids /\ ids' = ids \cup {Key(h)}
  /\ UNCHANGED <<sid, range, slots, resources, media, left, statuses, disposed, shared>>

DuplicateMutant(h) ==
  /\ pc[h] = "waited" /\ Key(h) \in ids
  /\ Finish(h)
  /\ UNCHANGED <<regVars, resources, media, statuses, disposed, shared>>

Duplicate(h) ==
  /\ pc[h] = "waited" /\ Key(h) \in ids
  /\ slots' = slots + 1
  /\ Finish(h)
  /\ UNCHANGED <<ids, resources, media, statuses, disposed, shared>>

SetActive(h) ==
  /\ At(h, "reserved", "setup")
  /\ statuses' = [statuses EXCEPT ![sid[h]] = "active"]
  /\ UNCHANGED <<sid, range, regVars, resources, media, left, disposed, shared>>

\* Prepare() logs in, which the SDK refuses after its cleanup ...
Login(h) ==
  /\ pc[h] = "setup" /\ resources[h] = {} /\ ~disposed
  /\ resources' = [resources EXCEPT ![h] = {"sdk"}]
  /\ UNCHANGED <<taskVars, regVars, media, left, statuses, disposed, shared>>

\* ... and then the pipeline of VideoPipeline is built.
StartFfmpeg(h) ==
  /\ pc[h] = "setup" /\ resources[h] = {"sdk"}
  /\ resources' = [resources EXCEPT ![h] = @ \cup {"ffmpeg"}]
  /\ UNCHANGED <<taskVars, regVars, media, left, statuses, disposed, shared>>

\* The headers are set and the prefix, FFmpeg's first output, is written.
OutputReady(h) ==
  /\ At(h, "setup", "writing") /\ "ffmpeg" \in resources[h] /\ media[h] # "hung"
  /\ UNCHANGED <<sid, range, regVars, resources, media, left, statuses, disposed, shared>>

\* Any exception before the output is ready.
StartFails(h) ==
  /\ At(h, "setup", "ending")
  /\ UNCHANGED <<sid, range, regVars, resources, media, left, statuses, disposed, shared>>

\* A write to a connection that was closed fails, and so it does to a server
\* that was stopped, or the loop ends.
WriteEnds(h) ==
  /\ At(h, "writing", "ending") /\ (left[h] \/ disposed)
  /\ UNCHANGED <<sid, range, regVars, resources, media, left, statuses, disposed, shared>>

\* The browser takes what is written, when it likes; then ReadAsync waits for
\* FFmpeg, without a deadline and without a token that would cancel it.
Written(h) ==
  /\ At(h, "writing", "streaming") /\ ~left[h] /\ ~disposed
  /\ UNCHANGED <<sid, range, regVars, resources, media, left, statuses, disposed, shared>>

ReadData(h) ==
  /\ At(h, "streaming", "writing") /\ media[h] = "on"
  /\ UNCHANGED <<sid, range, regVars, resources, media, left, statuses, disposed, shared>>

\* FFmpeg has ended behind its input: ReadAsync returns 0.
ReadEof(h) ==
  /\ At(h, "streaming", "ending") /\ media[h] = "closed"
  /\ UNCHANGED <<sid, range, regVars, resources, media, left, statuses, disposed, shared>>

\* FFmpeg exits by itself, or any other exception.
StreamEnds(h) ==
  /\ pc[h] \in {"streaming", "writing"} /\ pc' = [pc EXCEPT ![h] = "ending"]
  /\ UNCHANGED <<sid, range, regVars, resources, media, left, statuses, disposed, shared>>

SetEnded(h) ==
  /\ At(h, "ending", "ended")
  /\ statuses' = [statuses EXCEPT ![sid[h]] = "ended"]
  /\ UNCHANGED <<sid, range, regVars, resources, media, left, disposed, shared>>

DropFfmpeg(h) ==
  /\ pc[h] = "ended" /\ "ffmpeg" \in resources[h]
  /\ resources' = [resources EXCEPT ![h] = @ \ {"ffmpeg"}]
  /\ media' = [media EXCEPT ![h] = "on"]
  /\ UNCHANGED <<taskVars, regVars, left, statuses, disposed, shared>>

DropSdkMutant(h) ==
  /\ At(h, "ended", "dropped")
  /\ UNCHANGED <<sid, range, resources, regVars, media, left, statuses, disposed, shared>>

DropSdk(h) ==
  /\ At(h, "ended", "dropped") /\ "ffmpeg" \notin resources[h]
  /\ resources' = [resources EXCEPT ![h] = {}]
  /\ UNCHANGED <<sid, range, regVars, media, left, statuses, disposed, shared>>

TryRemove(h) ==
  /\ At(h, "dropped", "removed")
  /\ ids' = ids \ {Key(h)}
  /\ UNCHANGED <<sid, range, slots, resources, media, left, statuses, disposed, shared>>

Release(h) ==
  /\ pc[h] = "removed"
  /\ slots' = slots + 1
  /\ Finish(h)
  /\ UNCHANGED <<ids, resources, media, statuses, disposed, shared>>

-----------------------------------------------------------------------------
\* A status that was not updated for ten minutes is removed by the Cleanup of
\* some later call, which looks at its age and removes its key in two steps:
\* an update in between is lost with it, so any status may vanish.
Expire(s) ==
  /\ statuses[s] # "none" /\ statuses' = [statuses EXCEPT ![s] = "none"]
  /\ UNCHANGED <<taskVars, regVars, resources, media, left, disposed, shared>>

\* _stop.Cancel(), _listener.Stop(), then NET_DVR_Cleanup under the sessions
\* of whoever still has one.
Dispose ==
  /\ ~disposed /\ disposed' = TRUE
  /\ resources' = [h \in Handlers |-> resources[h] \ {"sdk"}]
  /\ UNCHANGED <<taskVars, regVars, media, left, statuses, shared>>

-----------------------------------------------------------------------------
(* The browser, the device, and FFmpeg with the pump of its input *)

BrowserLeaves(h) ==
  /\ pc[h] \in {"setup", "streaming", "writing"}
  /\ ~left[h] /\ left' = [left EXCEPT ![h] = TRUE]
  /\ UNCHANGED <<taskVars, regVars, resources, media, statuses, disposed, shared>>

\* From now on the device delivers nothing for longer than NoSdkDataMs.
DeviceFallsSilent(h) ==
  /\ "ffmpeg" \in resources[h] /\ media[h] = "on"
  /\ media' = [media EXCEPT ![h] = "silent"]
  /\ UNCHANGED <<taskVars, regVars, resources, left, statuses, disposed, shared>>

\* From now on FFmpeg gives no output and does not exit.
Hangs(h) ==
  /\ "ffmpeg" \in resources[h] /\ media[h] # "hung"
  /\ media' = [media EXCEPT ![h] = "hung"]
  /\ UNCHANGED <<taskVars, regVars, resources, left, statuses, disposed, shared>>

PumpGivesUpMutant(h) ==
  /\ media[h] = "silent"
  /\ UNCHANGED vars

\* PumpInput: Dequeue(NoSdkDataMs) finds nothing, and FFmpeg's input is closed.
PumpGivesUp(h) ==
  /\ media[h] = "silent" /\ media' = [media EXCEPT ![h] = "closed"]
  /\ UNCHANGED <<taskVars, regVars, resources, left, statuses, disposed, shared>>

Task(h) ==
  \/ Accept(h) \/ Limit(h) \/ TryAdd(h) \/ Duplicate(h) \/ SetActive(h) \/ Login(h)
  \/ StartFfmpeg(h) \/ OutputReady(h) \/ StartFails(h)
  \/ Written(h) \/ WriteEnds(h) \/ ReadData(h) \/ ReadEof(h) \/ StreamEnds(h)
  \/ SetEnded(h) \/ DropFfmpeg(h) \/ DropSdk(h) \/ TryRemove(h) \/ Release(h)

Next ==
  \/ \E h \in Handlers :
       \/ \E s \in Sids, r \in BOOLEAN : Wait(h, s, r)
       \/ Task(h) \/ PumpGivesUp(h)
       \/ BrowserLeaves(h) \/ DeviceFallsSilent(h) \/ Hangs(h)
  \/ \E s \in Sids : Expire(s)
  \/ Dispose

Spec == Init /\ [][Next]_vars

\* What nobody has to wait for: setup and teardown, each step of which returns
\* or has a deadline, a read of output that is there, a write that fails.  A
\* browser that stays need not take what is written, FFmpeg need not exit, and
\* the pump's deadline is a step of its own.
Proceed(h) ==
  \/ StartFails(h) \/ OutputReady(h) \/ ReadData(h) \/ ReadEof(h) \/ WriteEnds(h)
  \/ SetEnded(h) \/ DropFfmpeg(h) \/ DropSdk(h) \/ TryRemove(h) \/ Release(h)

Fairness ==
  \A h \in Handlers : WF_vars(Proceed(h)) /\ WF_vars(PumpGivesUp(h))

FairSpec == Spec /\ Fairness

-----------------------------------------------------------------------------
Live(h) == pc[h] \in {"setup", "streaming", "writing", "ending"}

\* No more than MaxSessions sessions hold an SDK login or an FFmpeg process,
\* each of them a key of its own: places are taken before the first and given
\* back after the last (HttpBridgeServer.cs 141, 273-277).
WithinLimit ==
  LET Holders == {h \in Handlers : resources[h] # {}}
  IN  /\ Cardinality(Holders) <= MaxSessions
      /\ \A h \in Holders : Key(h) \in ids
      /\ \A g, h \in Holders : g # h => Key(g) # Key(h)

\* When no session is under way, every place is free again, whichever way
\* requests ended: refusals, duplicates, failures, a disposal under way.
NothingLeaks ==
  (\A h \in Handlers : pc[h] \in {"idle", "accepted"}) =>
    /\ slots = MaxSessions /\ ids = {}
    /\ \A h \in Handlers : resources[h] = {}

\* A browser that asks for the status of a session that is over is never told
\* that it is active; nor is one told that a session has ended while it
\* streams, as long as no Range request used its id: the end of a session is
\* recorded before its id can be reserved again (SessionStatusRegistry.cs 6).
StatusIsTrue ==
  \A s \in Sids :
    LET Users == {h \in Handlers : Live(h) /\ sid[h] = s}
    IN  /\ statuses[s] = "active" => Users # {}
        /\ statuses[s] = "ended" /\ s \notin shared => Users = {}

\* A session whose browser has left gives its place back, also when the device
\* delivers nothing that could be written: the pump's deadline closes FFmpeg's
\* input, FFmpeg's output ends, and so does the loop (HttpBridgeServer.cs
\* 238-257, FfmpegProcess.cs 105-129).  Only the read of an FFmpeg that hangs
\* may hold it for ever, which has no deadline, unlike that of the C++ bridge.
LeaversAreReleased ==
  \A h \in Handlers : left[h] ~> ~left[h] \/ (pc[h] = "streaming" /\ media[h] = "hung")

-----------------------------------------------------------------------------
(***************************************************************************)
(* Types, and the inductive invariant behind the proofs.                   *)
(***************************************************************************)

\* Who has a place, and who has a key in _ids.
Busy  == {h \in Handlers : pc[h] \notin {"idle", "accepted"}}
Keyed == {h \in Handlers :
            pc[h] \in {"reserved", "setup", "streaming", "writing", "ending", "ended", "dropped"}}

TypeOK ==
  /\ pc \in [Handlers -> {"idle", "accepted", "waited", "reserved", "setup", "streaming",
                          "writing", "ending", "ended", "dropped", "removed"}]
  /\ sid \in [Handlers -> Sids \cup {None}] /\ range \in [Handlers -> BOOLEAN]
  /\ slots \in 0..MaxSessions
  /\ resources \in [Handlers -> SUBSET {"ffmpeg", "sdk"}]
  /\ media \in [Handlers -> {"on", "silent", "closed", "hung"}] /\ left \in [Handlers -> BOOLEAN]
  /\ statuses \in [Sids -> {"none", "active", "ended"}]
  /\ disposed \in BOOLEAN /\ shared \subseteq Sids

\* Every request that is under way has one place.
PlacesInv == slots + Cardinality(Busy) = MaxSessions

RequestInv ==
  \A h \in Handlers :
    /\ h \in Busy => sid[h] \in Sids
    /\ range[h] => sid[h] \in shared
    /\ resources[h] # {} => Live(h) \/ pc[h] = "ended"

\* Every reserved session has a key of its own, and there are no other keys.
KeysInv ==
  /\ ids = {Key(h) : h \in Keyed}
  /\ \A g, h \in Keyed : Key(g) = Key(h) => g = h

IInv == PlacesInv /\ RequestInv /\ KeysInv /\ StatusIsTrue
=============================================================================
