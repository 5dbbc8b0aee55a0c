---------------------------- MODULE BridgeServer ----------------------------
(***************************************************************************)
(* The HTTP side of the C++ bridge: the accept loop and its worker threads *)
(* (ConnectionWorkers, run_server), the session registry with the manual   *)
(* cleanup protocol (SessionRegistry), the status registry that outlives   *)
(* the sessions (SessionStatusRegistry), and the life of a /video request  *)
(* (handle_video) down to the order in which it gives back what it holds.  *)
(*                                                                         *)
(* A worker slot w of ConnectionWorkers runs at most one connection, and a *)
(* connection holds at most one lease, so w also names the session, its    *)
(* SessionRegistry::State and the locals of its handler.  The media        *)
(* pipeline is reduced to the two resources a session holds.               *)
(***************************************************************************)
EXTENDS Integers, FiniteSets

CONSTANTS Workers,     \* slots of ConnectionWorkers, maximum_ of them
          Fds,         \* descriptor numbers, reused by the operating system
          Sids,        \* session ids that clients put in their requests
          MaxSessions, \* SessionRegistry::max_
          MaxCleans,   \* bound: cleanups in one run of the server
          UniqueSids,  \* TRUE: a client never reuses an id that is known
          MayStop,     \* bound: FALSE leaves out runs in which the server stops
          MayExpire,   \* bound: FALSE leaves out runs longer than ten minutes
          Main,        \* the accept thread, as the owner of a descriptor
          None         \* no descriptor, no owner, no token, no session

ASSUME BridgeAssumption ==
  /\ IsFiniteSet(Workers)
  /\ MaxSessions \in Nat \ {0}
  /\ MaxCleans \in Nat
  /\ {UniqueSids, MayStop, MayExpire} \subseteq BOOLEAN
  /\ None \notin Workers \cup Fds \cup Sids \cup Nat
  /\ Main \notin Workers /\ Main # None

VARIABLES
  running,    \* g_running
  main,       \* where the accept thread is in run_server
  mainFd,     \* the accepted descriptor that has no worker yet
  fdOwner,    \* operating system: which connection each descriptor denotes
  pc,         \* where each worker is in handle_connection
  sock,       \* ConnectionWorkers::Worker::socket
  shut        \* the connection was shut down by the server

VARIABLES
  regLock,    \* holder of SessionRegistry::mutex_ while clean() loops
  registered, \* SessionRegistry::states_
  stateFd,    \* State::fd
  sid,        \* State::sid, also the request's
  token,      \* the request's generation parameter
  cancelled,  \* State::cancelled
  generation, \* sequence_, which determines generation_
  cleaned,    \* cleaned_
  todo,       \* the states the loop of clean() has still to treat
  victim      \* the state the loop of clean() is treating

VARIABLES
  status,     \* end_reason of each SessionStatusRegistry item
  old,        \* items whose last update is more than ten minutes ago
  res,        \* resources each session holds: SDK login and FFmpeg
  reason,     \* the reason publish_status() is about to record
  seen,       \* what cleaning() told a /healthz or /cleanSessions handler
  owed        \* history: sessions being cleaned when that handler began

mainVars  == <<running, main, mainFd>>
sockVars  == <<fdOwner, sock, shut>>
regVars   == <<regLock, registered, stateFd, cancelled, generation, cleaned,
               todo, victim>>
statVars  == <<status, old>>
localVars == <<sid, token, reason, seen, owed>>
vars == <<mainVars, sockVars, regVars, statVars, localVars, pc, res>>

Resources == {"sdk", "ffmpeg"}

\* StreamEndReason as far as this module tells the reasons apart:
\* "pipeline" is every result of resolve_end_reason(), "failed" every reason
\* recorded for a BridgeError or an unexpected exception.
Reasons == {"active", "manual_cleanup", "client_replaced", "server_stopped",
            "pipeline", "failed"}

PCs == {"free", "reading",
        "reserve", "starting", "headers", "streaming",
        "publish", "record", "dropFfmpeg", "dropSdk", "release",
        "clean", "marking", "cancelling", "disconnecting", "counting",
        "closing", "done"}

Go(w, from, to) == pc[w] = from /\ pc' = [pc EXCEPT ![w] = to]

Init ==
  /\ running = TRUE /\ main = "loop" /\ mainFd = None
  /\ fdOwner = [f \in Fds |-> None]
  /\ pc = [w \in Workers |-> "free"]
  /\ sock = [w \in Workers |-> None]
  /\ shut = [w \in Workers |-> FALSE]
  /\ regLock = None /\ registered = {} /\ todo = {} /\ victim = None
  /\ stateFd = [w \in Workers |-> None]
  /\ sid = [w \in Workers |-> None]
  /\ token = [w \in Workers |-> None]
  /\ cancelled = [w \in Workers |-> FALSE]
  /\ generation = 0 /\ cleaned = FALSE
  /\ status = [s \in Sids |-> "absent"]
  /\ old = {}
  /\ res = [w \in Workers |-> {}]
  /\ reason = [w \in Workers |-> "active"]
  /\ seen = [w \in Workers |-> "unread"]
  /\ owed = [w \in Workers |-> {}]

-----------------------------------------------------------------------------
(***************************************************************************)
(* The accept thread: run_server and ConnectionWorkers.                    *)
(***************************************************************************)

\* accept_client() returns an unused descriptor number.  The loop tested
\* g_running before it began to wait, up to half a second ago.
Accept(f) ==
  /\ main = "loop"
  /\ fdOwner[f] = None
  /\ fdOwner' = [fdOwner EXCEPT ![f] = Main]
  /\ mainFd' = f
  /\ main' = "accepted"
  /\ UNCHANGED <<running, sock, shut, regVars, statVars, localVars, pc, res>>

\* reap() joins every finished worker; its slot becomes free.
Reaped == [w \in Workers |-> IF pc[w] = "done" THEN "free" ELSE pc[w]]

\* The accepted descriptor is dealt with: the loop tests g_running again.
Iterate ==
  /\ mainFd' = None
  /\ main' = IF running THEN "loop" ELSE "stopping"

\* The descriptor is closed at once when the peer is not local or the socket
\* cannot be configured, and after a reap() when every slot is busy or no
\* thread can be made.
RejectClient ==
  /\ main = "accepted"
  /\ fdOwner' = [fdOwner EXCEPT ![mainFd] = None]
  /\ pc' \in {pc, Reaped}
  /\ Iterate
  /\ UNCHANGED <<running, sock, shut, regVars, statVars, localVars, res>>

Reap ==
  /\ main = "loop" /\ running
  /\ \E w \in Workers : pc[w] = "done"
  /\ pc' = Reaped
  /\ UNCHANGED <<mainVars, sockVars, regVars, statVars, localVars, res>>

\* start() reaps, then runs the connection in a slot below the maximum.
StartWorker(w) ==
  /\ main = "accepted"
  /\ Reaped[w] = "free"
  /\ pc' = [Reaped EXCEPT ![w] = "reading"]
  /\ fdOwner' = [fdOwner EXCEPT ![mainFd] = w]
  /\ sock' = [sock EXCEPT ![w] = mainFd]
  /\ Iterate
  /\ UNCHANGED <<running, shut, regVars, statVars, localVars, res>>

\* SIGINT/SIGTERM, a console event or the service manager: g_running = false.
StopSignal ==
  /\ MayStop /\ running
  /\ running' = FALSE
  /\ UNCHANGED <<main, mainFd, sockVars, regVars, statVars, localVars, pc, res>>

\* The wait ends without a client and the loop sees g_running false;
\* ~ConnectionWorkers starts.
LeaveLoop ==
  /\ main = "loop" /\ ~running
  /\ main' = "stopping"
  /\ UNCHANGED <<running, mainFd, sockVars, regVars, statVars, localVars, pc, res>>

\* ~ConnectionWorkers shuts every worker's socket down under sockets_mutex_,
\* which CloseSocket also needs.
ShutdownSockets ==
  /\ main = "stopping"
  /\ shut' = [w \in Workers |->
               shut[w] \/ \E v \in Workers : sock[v] # None /\ fdOwner[sock[v]] = w]
  /\ main' = "joining"
  /\ UNCHANGED <<running, mainFd, fdOwner, sock, regVars, statVars, localVars, pc, res>>

AllJoinableMutant == registered = {}

\* Every thread of workers_ has ended.
AllJoinable == \A w \in Workers : pc[w] \in {"free", "done"}

\* ~ConnectionWorkers joins; then run_server's objects are destroyed in
\* reverse order, NET_DVR_Cleanup last.
JoinWorkers ==
  /\ main = "joining"
  /\ AllJoinable
  /\ pc' = Reaped
  /\ main' = "exited"
  /\ UNCHANGED <<running, mainFd, sockVars, regVars, statVars, localVars, res>>

-----------------------------------------------------------------------------
(***************************************************************************)
(* SessionStatusRegistry: one lock, one step per operation.                *)
(***************************************************************************)

\* cleanup_locked(): items last updated more than ten minutes ago go.
Kept == [s \in Sids |-> IF s \in old THEN "absent" ELSE status[s]]

set_active(s) ==
  /\ status' = [Kept EXCEPT ![s] = "active"]
  /\ old' = {}

set_endedMutant(s, r) ==
  /\ status' = [Kept EXCEPT ![s] = r]
  /\ old' = {}

\* A recorded manual_cleanup is final.
set_ended(s, r) ==
  /\ status' = [Kept EXCEPT ![s] = IF @ = "manual_cleanup" THEN @ ELSE r]
  /\ old' = {}

\* set_output_ready() and set_browser_first_frame() refresh `updated` of an
\* existing item and change no reason.
Touch(s) ==
  /\ old' = old \ {s}
  /\ UNCHANGED status

\* Ten minutes pass since the last update of s.  Timing assumption: neither
\* the loop of clean() nor the two statements of publish_status() take as long.
Age(s) ==
  /\ MayExpire
  /\ status[s] # "absent" /\ s \notin old
  /\ regLock = None
  /\ \A w \in Workers : pc[w] # "record"
  /\ old' = old \cup {s}
  /\ UNCHANGED <<mainVars, sockVars, regVars, status, localVars, pc, res>>

-----------------------------------------------------------------------------
(***************************************************************************)
(* handle_connection: read the request, dispatch it.                       *)
(***************************************************************************)

\* Nothing is reserved: header timeout, disconnect, stop, a rejected or
\* static request (OPTIONS, /version, 400, 404, 405).
ReadFails(w) ==
  /\ Go(w, "reading", "closing")
  /\ UNCHANGED <<mainVars, sockVars, regVars, statVars, localVars, res>>

\* A well-formed GET /video.  The generation the client sends is one that
\* /healthz reported to it earlier, or none.
RequestVideo(w, s, t) ==
  /\ Go(w, "reading", "reserve")
  /\ UniqueSids => status[s] = "absent" /\ \A v \in Workers : sid[v] # s
  /\ t \in {None} \cup 0..generation
  /\ sid' = [sid EXCEPT ![w] = s]
  /\ token' = [token EXCEPT ![w] = t]
  /\ UNCHANGED <<mainVars, sockVars, regVars, statVars, reason, seen, owed, res>>

\* POST /cleanSessions with apply=true and the header; MaxCleans bounds them.
RequestClean(w) ==
  /\ Go(w, "reading", "clean")
  /\ generation + Cardinality({v \in Workers : pc[v] = "clean"}) < MaxCleans
  /\ UNCHANGED <<mainVars, sockVars, regVars, statVars, localVars, res>>

\* GET /healthz.  owed notes the sessions a cleanup has already ended.
RequestHealth(w) ==
  /\ Go(w, "reading", "counting")
  /\ owed' = [owed EXCEPT ![w] = {v \in registered : cancelled[v]}]
  /\ UNCHANGED <<mainVars, sockVars, regVars, statVars, sid, token, reason,
                 seen, res>>

\* GET /session-status: get() drops expired items before it looks.
RequestStatus(w) ==
  /\ Go(w, "reading", "closing")
  /\ status' = Kept
  /\ old' = {}
  /\ UNCHANGED <<mainVars, sockVars, regVars, localVars, res>>

\* GET /session-rendered: set_browser_first_frame().
RequestRendered(w, s) ==
  /\ Go(w, "reading", "closing")
  /\ Touch(s)
  /\ UNCHANGED <<mainVars, sockVars, regVars, localVars, res>>

-----------------------------------------------------------------------------
(***************************************************************************)
(* handle_video.                                                           *)
(***************************************************************************)

\* The request is answered without a lease.
Refuse(w) ==
  /\ Go(w, "reserve", "closing")
  /\ sid' = [sid EXCEPT ![w] = None]
  /\ token' = [token EXCEPT ![w] = None]
  /\ UNCHANGED <<mainVars, sockVars, regVars, statVars, reason, seen, owed, res>>

\* check_video_client() before the lease: the browser left, or g_running.
ClientLeftEarly(w) == Refuse(w)

TokenStaleMutant(t) == t # None /\ t # generation

\* A missing token is accepted before the first cleanup only.
TokenStale(t) == (t = None /\ cleaned) \/ (t # None /\ t # generation)

Full == Cardinality(registered) >= MaxSessions

\* 409 MANUAL_RESTART_REQUIRED, or 503 SESSION_LIMIT.
ReserveRefused(w) ==
  /\ regLock = None
  /\ TokenStale(token[w]) \/ Full
  /\ Refuse(w)

\* reserve(): the status becomes active while mutex_ is held, so that a
\* cleanup sees both the session and its status or neither.
Reserve(w) ==
  /\ Go(w, "reserve", "starting")
  /\ regLock = None
  /\ ~TokenStale(token[w]) /\ ~Full
  /\ set_active(sid[w])
  /\ registered' = registered \cup {w}
  /\ stateFd' = [stateFd EXCEPT ![w] = sock[w]]
  /\ UNCHANGED <<mainVars, sockVars, localVars, res, regLock, cancelled,
                 generation, cleaned, todo, victim>>

\* HcSession logs in, then FfmpegProcess starts.
Acquire(w, r) ==
  /\ pc[w] = "starting"
  /\ r \notin res[w] /\ (r = "ffmpeg" => "sdk" \in res[w])
  /\ res' = [res EXCEPT ![w] = @ \cup {r}]
  /\ UNCHANGED <<mainVars, sockVars, regVars, statVars, localVars, pc>>

\* A codec probe or a failed output format costs the pipeline its FFmpeg, and
\* perhaps then its SDK session; the same lease starts another one.
RestartPipeline(w, r) ==
  /\ pc[w] = "starting"
  /\ r \in res[w] /\ (r = "sdk" => "ffmpeg" \notin res[w])
  /\ res' = [res EXCEPT ![w] = @ \ {r}]
  /\ UNCHANGED <<mainVars, sockVars, regVars, statVars, localVars, pc>>

OutputReady(w) ==
  /\ Go(w, "starting", "headers")
  /\ res[w] = Resources
  /\ Touch(sid[w])
  /\ UNCHANGED <<mainVars, sockVars, regVars, localVars, res>>

SendHeaders(w) ==
  /\ Go(w, "headers", "streaming")
  /\ ~shut[w]
  /\ UNCHANGED <<mainVars, sockVars, regVars, statVars, localVars, res>>

\* The three catch clauses and the normal end of the stream choose a reason.
EndWith(w, r) ==
  /\ pc' = [pc EXCEPT ![w] = "publish"]
  /\ reason' = [reason EXCEPT ![w] = r]
  /\ UNCHANGED <<mainVars, sockVars, regVars, statVars, sid, token, seen, owed, res>>

\* ffmpeg->read() returns no more bytes, or the loop sees g_running false.
StreamEnds(w) ==
  /\ pc[w] = "streaming"
  /\ EndWith(w, IF running THEN "pipeline" ELSE "server_stopped")

\* ClientDisconnected: check_client or a send failed, at any moment.
ClientLeft(w) ==
  /\ pc[w] \in {"starting", "headers", "streaming"}
  /\ EndWith(w, IF running THEN "client_replaced" ELSE "server_stopped")

PipelineFailsMutant(w) ==
  /\ pc[w] \in {"starting", "headers", "streaming"}
  /\ pc' = [pc EXCEPT ![w] = "dropFfmpeg"]
  /\ UNCHANGED <<mainVars, sockVars, regVars, statVars, localVars, res>>

\* BridgeError or another exception.
PipelineFails(w) ==
  /\ pc[w] \in {"starting", "headers", "streaming"}
  /\ EndWith(w, "failed")

ReadCancelledMutant(w) ==
  /\ Go(w, "publish", "record")
  /\ reason' = [reason EXCEPT ![w] = IF cleaned THEN "manual_cleanup" ELSE @]
  /\ UNCHANGED <<mainVars, sockVars, regVars, statVars, sid, token, seen, owed, res>>

\* publish_status() reads the lease's flag without a lock ...
ReadCancelled(w) ==
  /\ Go(w, "publish", "record")
  /\ reason' = [reason EXCEPT ![w] = IF cancelled[w] THEN "manual_cleanup" ELSE @]
  /\ UNCHANGED <<mainVars, sockVars, regVars, statVars, sid, token, seen, owed, res>>

RecordMutant(w) ==
  /\ Go(w, "record", "release")
  /\ set_ended(sid[w], reason[w])
  /\ reason' = [reason EXCEPT ![w] = "active"]
  /\ UNCHANGED <<mainVars, sockVars, regVars, sid, token, seen, owed, res>>

\* ... and records the reason it has decided on, perhaps later.  Nothing reads
\* the local reason after that.
Record(w) ==
  /\ Go(w, "record", "dropFfmpeg")
  /\ set_ended(sid[w], reason[w])
  /\ reason' = [reason EXCEPT ![w] = "active"]
  /\ UNCHANGED <<mainVars, sockVars, regVars, sid, token, seen, owed, res>>

\* ~Cleanup: FFmpeg first, then the SDK session.
DropFfmpeg(w) ==
  /\ Go(w, "dropFfmpeg", "dropSdk")
  /\ res' = [res EXCEPT ![w] = @ \ {"ffmpeg"}]
  /\ UNCHANGED <<mainVars, sockVars, regVars, statVars, localVars>>

DropSdk(w) ==
  /\ Go(w, "dropSdk", "release")
  /\ res' = [res EXCEPT ![w] = @ \ {"sdk"}]
  /\ UNCHANGED <<mainVars, sockVars, regVars, statVars, localVars>>

ReleaseForgets(w) ==
  /\ Go(w, "release", "closing")
  /\ UNCHANGED <<mainVars, sockVars, regVars, statVars, localVars, res>>

\* ~Lease: release() erases the state under mutex_.
Release(w) ==
  /\ Go(w, "release", "closing")
  /\ regLock = None
  /\ registered' = registered \ {w}
  /\ token' = [token EXCEPT ![w] = None]
  /\ owed' = [v \in Workers |-> owed[v] \ {w}]
  /\ UNCHANGED <<mainVars, sockVars, statVars, sid, reason, seen, res,
                 regLock, stateFd, cancelled, generation, cleaned, todo, victim>>

-----------------------------------------------------------------------------
(***************************************************************************)
(* /cleanSessions: SessionRegistry::clean holds mutex_ from StartClean to  *)
(* EndClean, but every status and every flag it has changed is visible to  *)
(* the other threads at once.                                              *)
(***************************************************************************)

\* A new generation, then the loop over the states not cancelled before.
StartClean(w) ==
  /\ Go(w, "clean", "marking")
  /\ regLock = None
  /\ regLock' = w
  /\ generation' = generation + 1
  /\ cleaned' = TRUE
  /\ todo' = {v \in registered : ~cancelled[v]}
  /\ owed' = [owed EXCEPT ![w] = registered]
  /\ UNCHANGED <<mainVars, sockVars, statVars, sid, token, reason, seen, res,
                 registered, stateFd, cancelled, victim>>

\* Publish the reason before disconnecting the browser.
Mark(w, v) ==
  /\ Go(w, "marking", "cancelling")
  /\ v \in todo
  /\ victim' = v
  /\ set_ended(sid[v], "manual_cleanup")
  /\ UNCHANGED <<mainVars, sockVars, localVars, res, regLock, registered,
                 stateFd, cancelled, generation, cleaned, todo>>

CancelMutant(w) ==
  /\ Go(w, "cancelling", "disconnecting")
  /\ UNCHANGED <<mainVars, sockVars, statVars, localVars, res, regVars>>

Cancel(w) ==
  /\ Go(w, "cancelling", "disconnecting")
  /\ cancelled' = [cancelled EXCEPT ![victim] = TRUE]
  /\ UNCHANGED <<mainVars, sockVars, statVars, localVars, res, regLock,
                 registered, stateFd, generation, cleaned, todo, victim>>

DisconnectMutant(w) ==
  /\ Go(w, "disconnecting", "marking")
  /\ todo' = todo \ {victim}
  /\ victim' = None
  /\ UNCHANGED <<mainVars, sockVars, statVars, localVars, res, regLock,
                 registered, stateFd, cancelled, generation, cleaned>>

\* shutdown() acts on whatever connection the number denotes by now.
Disconnect(w) ==
  /\ Go(w, "disconnecting", "marking")
  /\ shut' = [v \in Workers |-> shut[v] \/ fdOwner[stateFd[victim]] = v]
  /\ todo' = todo \ {victim}
  /\ victim' = None
  /\ UNCHANGED <<mainVars, fdOwner, sock, statVars, localVars, res, regLock,
                 registered, stateFd, cancelled, generation, cleaned>>

EndCleanMutant(w) ==
  /\ Go(w, "marking", "counting")
  /\ todo = {}
  /\ UNCHANGED <<mainVars, sockVars, statVars, localVars, res, regVars>>

EndClean(w) ==
  /\ Go(w, "marking", "counting")
  /\ todo = {}
  /\ regLock' = None
  /\ UNCHANGED <<mainVars, sockVars, statVars, localVars, res, registered,
                 stateFd, cancelled, generation, cleaned, todo, victim>>

CleaningMutant == {v \in registered : ~cancelled[v]}

\* The sessions cleaning() counts.
Cleaning == {v \in registered : cancelled[v]}

\* cleaningSessions of a /healthz or /cleanSessions reply.
CountCleaning(w) ==
  /\ Go(w, "counting", "closing")
  /\ regLock = None
  /\ seen' = [seen EXCEPT ![w] = IF Cleaning = {} THEN "zero" ELSE "some"]
  /\ UNCHANGED <<mainVars, sockVars, regVars, statVars, sid, token, reason,
                 owed, res>>

-----------------------------------------------------------------------------
\* The worker closes its socket and forgets the number under sockets_mutex_;
\* then done = true.  The handler's frame and the lease's State are gone; locals that
\* are dead earlier are reset earlier.
CloseSocket(w) ==
  /\ Go(w, "closing", "done")
  /\ fdOwner' = [fdOwner EXCEPT ![sock[w]] = None]
  /\ sock' = [sock EXCEPT ![w] = None]
  /\ shut' = [shut EXCEPT ![w] = FALSE]
  /\ sid' = [sid EXCEPT ![w] = None]
  /\ cancelled' = [cancelled EXCEPT ![w] = FALSE]
  /\ stateFd' = [stateFd EXCEPT ![w] = None]
  /\ seen' = [seen EXCEPT ![w] = "unread"]
  /\ owed' = [owed EXCEPT ![w] = {}]
  /\ UNCHANGED <<mainVars, statVars, token, reason, res, regLock, registered,
                 generation, cleaned, todo, victim>>

-----------------------------------------------------------------------------
AcceptThread ==
  \/ \E f \in Fds : Accept(f)
  \/ RejectClient \/ Reap \/ LeaveLoop \/ ShutdownSockets \/ JoinWorkers
  \/ \E w \in Workers : StartWorker(w)

Dispatch(w) ==
  \/ ReadFails(w) \/ RequestClean(w) \/ RequestHealth(w) \/ RequestStatus(w)
  \/ \E s \in Sids : RequestRendered(w, s)
  \/ \E s \in Sids, t \in {None} \cup 0..MaxCleans : RequestVideo(w, s, t)

Stream(w) ==
  \/ \E r \in Resources : Acquire(w, r) \/ RestartPipeline(w, r)
  \/ OutputReady(w) \/ StreamEnds(w)
  \/ ClientLeft(w) \/ PipelineFails(w)

\* The steps a worker takes as soon as it may, whatever its client does.
Proceed(w) ==
  \/ ClientLeftEarly(w) \/ ReserveRefused(w) \/ Reserve(w) \/ SendHeaders(w)
  \/ ReadCancelled(w) \/ Record(w) \/ DropFfmpeg(w) \/ DropSdk(w) \/ Release(w)
  \/ StartClean(w) \/ Cancel(w) \/ Disconnect(w) \/ EndClean(w)
  \/ CountCleaning(w) \/ CloseSocket(w)
  \/ \E v \in Workers : Mark(w, v)

\* The process is over; every other state without a step is a deadlock.
Exited == main = "exited" /\ UNCHANGED vars

Next ==
  \/ AcceptThread \/ StopSignal \/ Exited
  \/ \E s \in Sids : Age(s)
  \/ \E w \in Workers : Dispatch(w) \/ Stream(w) \/ Proceed(w)

Spec == Init /\ [][Next]_vars

\* A handler whose client is gone, or whose server stops, notices it:
\* check_client is polled, every wait and every write has a timeout.
Interrupted(w) == (shut[w] \/ ~running) /\ ClientLeft(w)

\* Fairness: threads run, a request is read or times out after 15 seconds.
\* Nothing is assumed about clients, and nothing about the device beyond
\* that a synchronous SDK call returns.
Fairness ==
  /\ WF_vars(RejectClient \/ \E w \in Workers : StartWorker(w))
  /\ WF_vars(LeaveLoop \/ ShutdownSockets \/ JoinWorkers)
  /\ \A w \in Workers : /\ WF_vars(Dispatch(w))
                        /\ WF_vars(Proceed(w))
                        /\ WF_vars(Interrupted(w))

FairSpec == Spec /\ Fairness

-----------------------------------------------------------------------------
(***************************************************************************)
(* Properties.                                                             *)
(***************************************************************************)

\* Types, and at most max_ leases are out.
TypeOK ==
  /\ running \in BOOLEAN
  /\ main \in {"loop", "accepted", "stopping", "joining", "exited"}
  /\ mainFd \in Fds \cup {None}
  /\ fdOwner \in [Fds -> Workers \cup {Main, None}]
  /\ pc \in [Workers -> PCs]
  /\ sock \in [Workers -> Fds \cup {None}]
  /\ shut \in [Workers -> BOOLEAN]
  /\ regLock \in Workers \cup {None}
  /\ registered \in SUBSET Workers /\ Cardinality(registered) <= MaxSessions
  /\ stateFd \in [Workers -> Fds \cup {None}]
  /\ sid \in [Workers -> Sids \cup {None}]
  /\ token \in [Workers -> Nat \cup {None}]
  /\ cancelled \in [Workers -> BOOLEAN]
  /\ generation \in Nat /\ cleaned \in BOOLEAN
  /\ todo \in SUBSET Workers /\ victim \in Workers \cup {None}
  /\ status \in [Sids -> Reasons \cup {"absent"}]
  /\ old \in SUBSET Sids
  /\ res \in [Workers -> SUBSET Resources]
  /\ reason \in [Workers -> Reasons]
  /\ seen \in [Workers -> {"unread", "zero", "some"}]
  /\ owed \in [Workers -> SUBSET Workers]

\* Every descriptor number that clean() or ~ConnectionWorkers may shut down
\* still denotes the connection it was recorded for: the number cannot have
\* been closed and given to another connection meanwhile.
FdOwnership ==
  /\ \A w \in registered : stateFd[w] \in Fds /\ fdOwner[stateFd[w]] = w
  /\ \A w \in Workers : sock[w] # None => fdOwner[sock[w]] = w

\* While the server runs, the only connections it disconnects are those of
\* sessions that a cleanup has cancelled, and their status already says so
\* (main.cpp 1939, README 157), unless it has expired.
OnlyCleanedDisconnected ==
  \A w \in Workers : shut[w] /\ running =>
    cancelled[w] /\ status[sid[w]] \in {"manual_cleanup", "absent"}

\* The device sees at most max_ sessions: capacity is returned last, so that
\* whoever holds an SDK login or an FFmpeg child also holds one of max_ leases
\* (main.cpp 1927, 2202-2213).
ResourcesAreLeased ==
  /\ Cardinality(registered) <= MaxSessions
  /\ \A w \in Workers : res[w] # {} => w \in registered

\* A finished cleanup leaves no survivor: whatever streams uncancelled asked
\* for it with the current generation, or without one before any cleanup.
NoSurvivor ==
  regLock = None =>
    \A w \in registered : ~cancelled[w] =>
      token[w] = generation \/ (token[w] = None /\ ~cleaned)

\* The reason of a cleaned session is not overwritten by its own later end,
\* whatever the order of publish_status() and clean() (README 169).
CleanupReasonKept ==
  \A w \in Workers : cancelled[w] => status[sid[w]] \in {"manual_cleanup", "absent"}

\* manual_cleanup, after which a browser stops retrying, is reported only for
\* sessions that were registered when a cleanup ran (README 157, 165).
ManualCleanupMeansCleaned ==
  \A w \in Workers :
    /\ pc[w] \in {"dropFfmpeg", "dropSdk", "release"}
    /\ status[sid[w]] = "manual_cleanup"
    => cancelled[w] \/ (regLock # None /\ w \in todo)

\* A browser whose stream has broken off is never told that its session is
\* still active: a session that is over has left its end in the status,
\* although the status may have expired while it streamed and its id may be
\* in use again (main.cpp 2006-2022, 2215-2223).
OverIsNotActive ==
  \A s \in Sids : status[s] = "active" =>
    \E w \in registered : sid[w] = s /\ pc[w] \notin {"dropFfmpeg", "dropSdk", "release"}

\* A browser that polls /healthz, or reads the reply to its cleanup, and finds
\* cleaningSessions = 0 may rely on every session that was being cleaned when
\* it asked having returned everything (README 163).
ZeroMeansReleased ==
  \A w \in Workers : seen[w] = "zero" => owed[w] = {}

\* NET_DVR_Cleanup and the registries' destructors run only after every
\* worker has returned its resources, its lease and its descriptor.
SdkOutlivesWorkers ==
  main = "exited" =>
    /\ registered = {} /\ regLock = None
    /\ \A w \in Workers : pc[w] = "free" /\ res[w] = {} /\ sock[w] = None
    /\ \A f \in Fds : fdOwner[f] = None

\* Stopping terminates, whatever the connections are doing.
StopCompletes == ~running ~> main = "exited"

\* The sessions that a cleanup has ended, or is about to end, as seen by
\* anybody who needs the lock.
Draining == {w \in registered : cancelled[w] \/ w \in todo}

\* The registry implements the atomic cleanup protocol.
Protocol == INSTANCE CleanupProtocol
              WITH Sessions <- Workers, live <- registered \ Draining,
                   draining <- Draining

\* Safety part: clean() looks atomic although its loop is not.
ImplementsProtocol == Protocol!Spec

\* With liveness: every cleaned session returns its capacity.
CleanupCompletes == Protocol!FairSpec

-----------------------------------------------------------------------------
(***************************************************************************)
(* The inductive invariant behind the proofs: what the position of each    *)
(* thread says about descriptors, leases, resources and the lock.          *)
(***************************************************************************)

\* Where a handler has a lease, and where it may have resources.
Leased  == {"starting", "headers", "streaming", "publish", "record",
            "dropFfmpeg", "dropSdk", "release"}
Holding == Leased \ {"dropSdk", "release"}

\* Where a handler is in the loop of clean(), with mutex_.
CleaningPCs == {"marking", "cancelling", "disconnecting"}

\* Exactly the connections in progress own a descriptor, each its own.
FdInv ==
  /\ main = "accepted" <=> mainFd # None
  /\ \A f \in Fds : fdOwner[f] = Main <=> mainFd = f
  /\ \A f \in Fds, w \in Workers : fdOwner[f] = w <=> sock[w] = f
  /\ \A w \in Workers : sock[w] = None <=> pc[w] \in {"free", "done"}

LeaseInv ==
  /\ \A w \in Workers : w \in registered <=> pc[w] \in Leased
  /\ \A w \in registered : stateFd[w] = sock[w]
  /\ \A w \in Workers : cancelled[w] => w \in registered \/ pc[w] = "closing"

ResInv ==
  \A w \in Workers :
    /\ pc[w] \notin Holding \cup {"dropSdk"} => res[w] = {}
    /\ pc[w] = "dropSdk" => res[w] \subseteq {"sdk"}

\* The loop of clean() runs under the lock, over registered sessions.
LockInv ==
  /\ \A w \in Workers : regLock = w <=> pc[w] \in CleaningPCs
  /\ todo \subseteq registered
  /\ regLock = None => todo = {}
  /\ \A w \in Workers : pc[w] \in {"cancelling", "disconnecting"} => victim \in todo
  /\ \A w \in Workers : pc[w] = "disconnecting" => cancelled[victim]

SurvivorInv ==
  \A w \in registered :
    \/ cancelled[w] \/ w \in todo
    \/ token[w] = generation
    \/ token[w] = None /\ ~cleaned

ExitInv == main = "exited" => \A w \in Workers : pc[w] = "free"

\* What a reader of cleaningSessions is owed is still being cleaned.
OwedInv ==
  \A w \in Workers :
    /\ owed[w] \subseteq {v \in registered : cancelled[v] \/ v \in todo}
    /\ seen[w] # "unread" => pc[w] = "closing"
    /\ seen[w] = "zero" => owed[w] = {}

ShutInv ==
  /\ \A w \in Workers : shut[w] /\ running => cancelled[w]
  /\ main \in {"stopping", "joining", "exited"} => ~running

IInv == /\ FdInv /\ LeaseInv /\ ResInv /\ LockInv /\ SurvivorInv /\ ExitInv
        /\ OwedInv /\ ShutInv

\* An active status has a session that has yet to record its end.
ActiveInv ==
  /\ \A s \in Sids : status[s] = "active" =>
       \E w \in Workers : sid[w] = s /\ pc[w] \in Leased \ {"dropFfmpeg", "dropSdk", "release"}
  /\ \A w \in Workers : pc[w] \in {"publish", "record"} => reason[w] # "active"

\* Under UniqueSids, a status belongs to one session at a time.
SidInv ==
  /\ \A v, w \in Workers : v # w /\ sid[v] # None => sid[v] # sid[w]
  /\ \A w \in Workers : pc[w] \in Leased \cup {"reserve"} \/ cancelled[w] => sid[w] # None

\* A cleaned session's status says so, or has expired; what its handler is
\* about to record cannot change that.
CleanedInv ==
  /\ \A w \in Workers : cancelled[w] => status[sid[w]] \in {"manual_cleanup", "absent"}
  /\ \A w \in Workers : pc[w] = "record" /\ cancelled[w] =>
       \/ reason[w] = "manual_cleanup"
       \/ status[sid[w]] = "manual_cleanup" /\ sid[w] \notin old
  /\ \A w \in Workers : pc[w] = "cancelling" =>
       status[sid[victim]] = "manual_cleanup" /\ sid[victim] \notin old

\* A status that says manual_cleanup belongs to a session being cleaned.
ManualInv ==
  /\ \A w \in registered : status[sid[w]] = "manual_cleanup" => cancelled[w] \/ w \in todo
  /\ \A w \in Workers : pc[w] \in Leased /\ reason[w] = "manual_cleanup" => cancelled[w]
  /\ \A w \in Workers : pc[w] \notin {"publish", "record"} => reason[w] = "active"
  /\ \A w \in Workers : pc[w] = "publish" => reason[w] # "manual_cleanup"

StatusInv == SidInv /\ CleanedInv /\ ManualInv
=============================================================================
