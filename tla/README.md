# TLA+ verification of the Hikvision HCNet HTTP bridge

The repository contains a local HTTP service that logs in to a Hikvision NVR
through the vendor's HCNetSDK, pipes the media through FFmpeg and streams
fragmented MP4 to a browser on the same machine. There are two
implementations: the maintained C++ bridge for Linux and Windows
(`src/cpp-sdk-http-bridge-linux`) and an older C# bridge
(`src/csharp-sdk-http-bridge`). This project models the C++ bridge, whose core
is one file, `src/cpp-sdk-http-bridge-linux/src/main.cpp`, the Windows service
and upgrade around it, and the C# bridge: where the two do the same in the same
order one module models both, with a variable `build` (`req.build` in
`VideoPipeline`) that says which; its registries are a module of their own. Line
numbers below and in the modules' comments are lines of `main.cpp`, in
`WindowsUpgrade` of `windows-upgrade.cpp`, unless another file is named;
"README n" is line n of `src/cpp-sdk-http-bridge-linux/README.md`.

`PROJECT.json` holds the machine-readable side: components, runs, mutants, the
map from definitions to source lines, findings, hazards and theorems.

## 1. Inventory

| Component | State | Operations | Interacts with |
|---|---|---|---|
| `run_server`, `ConnectionWorkers` (2504-2617) | listener, worker slots with socket and `done` flag, `g_running` | accept, reject, start, reap, shut down, join | signals, workers, SDK runtime |
| `handle_connection` (2393-2468) | locals | dispatch of `/video`, `/cleanSessions`, `/healthz`, `/session-status`, `/session-rendered`, `/version` | both registries |
| `SessionRegistry` (1905-1972) | states with sid, descriptor, `cancelled`; generation; `cleaned_` | reserve, release, clean, cleaning | handlers; shuts their sockets down |
| `SessionStatusRegistry` (1980-2064) | end reason and times per sid | set_active, set_ended, refresh, get, expiry | handlers, cleanup |
| `handle_video` (2191-2391) | lease, SDK session, one or two FFmpegs, codec, output mode | choose, start, replace, verify and stream a pipeline; publish the end reason; clean up | everything below |
| `HcSession`, `ByteQueue` (653-696, 1004-1249) | login, handle, end reason, bounded queue | prepare, start, data callback, playback monitor, stop | SDK threads, FFmpeg's pump |
| `FfmpegProcess` (1550-1903) | child, pipes, pump and diagnostics thread | construct, pump, read, stop | queue, handler |
| `FfmpegHardwareAcceleration` (1453-1548) | backend | detect once, select_plan | pipeline |
| `VideoCodecCache` (1284-1375) | codec per channel with expiry; a file | try_get, set, load, persist | pipeline |
| `NvrChannelTopology` (820-915) | device channels | read, resolve | HcSession |
| configuration, request parsing, log, HTTP I/O | - | parse, validate, read, write | - |
| Windows service (`windows-service.cpp`) | service status, worker thread | start, progress, ready, stop, watchdog | service manager, `run_bridge` |
| Windows upgrade (`windows-upgrade.cpp`) and installation script (`windows-service.cmd`) | directories, registrations, mutex | stage, stop, exchange, install, verify, roll back | service manager, both bridges |
| C# `HttpBridgeServer`, `SessionRegistry`, `SessionStatusRegistry` | semaphore of places, concurrent dictionaries of ids and of statuses | accept, reserve, release, set active and ended, expire, dispose | session tasks |
| C# `HcNetStreamSession`, `ByteBoundedQueue`, `FfmpegProcess`, `VideoCodecCache`, `NvrChannelTopology` | as in C++ | as in C++; the monitor and the pump are not joined | SDK threads, session tasks |

What is hard: worker threads, SDK callback threads, monitor threads and pump
threads interleave; descriptor numbers are reused by the operating system;
`clean()` changes sessions one by one while they run; end reasons are written
without a common lock; stopping must unblock threads that wait for each other,
for a child process or for the SDK; fallbacks follow each other; caches and
device configuration may be wrong; a recorder answers incompletely; a file is
replaced in several steps; the C# registries have no lock. The hazards in `PROJECT.json` list these at
their lines, with the properties that would catch them.

What makes each component correct:

* server: a stop ends in an orderly exit, the SDK outlives every worker;
* registry: at most `max_` sessions hold device resources, a cleanup ends
  every session it promises to end and touches no other connection, and
  `cleaningSessions = 0` can be believed;
* status registry: the reason a browser reads is the one that applies to it;
* media session: bounded, ordered, gap-free, and no silent loss; no SDK call
  on a closed handle; stop always terminates;
* FFmpeg process: nothing leaks, nothing is used after its close, stop always
  terminates;
* pipeline choice: what is copied was verified as far as the code can tell, and
  is of the channel that was asked for, one consumer per queue, bounded retries;
* codec cache: what was written is never replaced by an older entry; memory and
  file agree unless a write failed;
* C# registries: no place or id leaks, a status says what is true;
* Windows service: it keeps the service manager's contract even if the vendor's
  SDK hangs;
* Windows upgrade: the user's installation is never lost, and the outcome that
  is reported is the real one.

## 2. Modules

### `CleanupProtocol` - what the session registry promises

An abstract specification: sessions are `live` or `draining`; `Clean` is one
atomic step that starts a generation and drains every live session; capacity
returns session by session.

### `BridgeServer` - server, registries, life of a session

One worker slot `w` stands for the connection it runs, its session, its
`SessionRegistry::State` and its handler's locals (a connection holds at most
one lease). `pc[w]` is the position in `handle_connection`/`handle_video`;
`main` the position of the accept thread. Descriptor numbers are explicit:
`fdOwner` is the operating system's view (which connection a number denotes),
`sock` and `stateFd` are the two places where the program remembers a number.

* Steps that hold `SessionRegistry::mutex_` throughout and touch nothing
  outside it are one action (`Reserve`, `Release`). `clean()` holds the mutex
  but changes flags, statuses and sockets that others read without it, so it
  is a sequence `StartClean, (Mark, Cancel, Disconnect)*, EndClean` with
  `regLock` held. The order in which it treats the sessions is arbitrary.
* `publish_status` is two actions (`ReadCancelled`, `Record`), since it reads
  the flag without a lock.
* `Accept` may happen after a stop signal: the loop tested `g_running` before
  it waited. `Iterate` is the test that follows.
* The pipeline is the set `res[w]` of held resources (SDK login, FFmpeg).
  `RestartPipeline` stands for every pipeline switch; the details are in
  `VideoPipeline`.
* `owed` is a history variable: the sessions a reader of `cleaningSessions`
  waits for. `CloseSocket` resets the locals that die with the handler.
* `Age` lets a status grow older than ten minutes. It assumes that neither the
  loop of `clean()` nor the two statements of `publish_status()` take ten
  minutes.
* `UniqueSids` restricts clients to fresh session ids, as README 165 and
  browsers that generate ids do; the run `sid` shows what happens otherwise.

### `ChannelTopology`, `VideoPipeline` - channel, choice, fallback, verification

`ChannelTopology` has the pure part: `read` and `resolve` are
`NvrChannelTopology`, next to a reference (`Asked`) that knows which channels a
recorder has. `Logins` and `Configurations` are the answers of a recorder that
leaves fields empty or refuses the query; at least one of the two tells how many
IP channels there are and where they begin (`Told`: otherwise a `digitalIndex`
would be counted from zero), and a recorder's login gives an analog start of 1 to
the C# bridge, which does not normalize a 0.

`VideoPipeline` is one request on Linux, on Windows or in C#, with every
combination of options, cache entry, device configuration and what the device
really sends as initial states. Every login asks the recorder again (`Login`,
`Refuse`). Every wait may fail: `AbandonCopy`/`FallBack` is the copy fallback, `LeaveHardware`
the hardware fallback, `Correct` the final codec check, `Leave` any other end.
The C# bridge has neither fallback and does not open a probed stream again.
`consumed` and `fresh` record whether an FFmpeg began with an untouched stream.

### `CodecCache` - `VideoCodecCache` and its file

Entries are numbered by the `set()` that made them, so that one can tell which
is newer. In C++ a handler holds the mutex from `Enter` to `Leave`; in C# only
while it writes the file. `persist_locked()` is one action per operation on the
file system, each of which may fail where the code goes on or gives up
(`PersistFails`, lost rows in `Write`, a `Remove` that fails), and `Restart` may
come between any two. `written` is a history: the most recent `set()` of each
channel that was in a file put in place.

A correction whose write fails (1357 finds a full disk, 1364-1366 a locked file) is
in memory only: after a restart, the entry before it is loaded again, unless a
later write succeeded, and the final check of the stream has to correct it once
more. No property says otherwise; `NoOlderEntryReturns` is about entries that
reached the file, `RestartRemembers` about a last write that was complete.

### `CsBridge` - registries and sessions of the C# bridge

One task per request. Reserving and releasing are two steps each (semaphore,
dictionary), since nothing protects them together. A Range request reserves a key
of its own under a session id that may be in use. The pipeline is reduced to
resources, as in `BridgeServer`. `Dispose` stops the listener and cleans up the
SDK while tasks run; they go on. `Expire` may take any status: `Cleanup` tests
its age and removes it in two steps, with an update in between. A task that was
accepted before `Dispose` may still reserve after it (`Accept`, `Wait`); its login
then fails.

The loop of a stream alternates between a write to the browser (`pc` is `writing`)
and a read of FFmpeg's output (`streaming`). `left` says that the browser's
connection is closed: only a write notices it (`WriteEnds`). `media` is what passes
through FFmpeg: a device that falls silent gives the read nothing until the deadline
of `PumpInput` closes FFmpeg's input (`PumpGivesUp`), and an FFmpeg that hangs gives
it nothing ever, since `ReadAsync` (`HttpBridgeServer.cs` 240) has neither a deadline
nor a cancellation.

### `MediaSession` - one SDK session with its queue

`HcSession` with `ByteQueue`, or `HcNetStreamSession` with `ByteBoundedQueue`.

Four actors: owner, SDK callback thread (`cb`), playback monitor (`mon`),
consumer (`Pop`). A `push` that waits, is refused or times out is modelled
step by step, and so is `complete_playback`, which tests and stores
`end_reason_` without a lock. Packets are numbered; their size is kept, their
content is not. Assumed of the SDK: callbacks of one handle do not overlap,
and `NET_DVR_Stop...` returns when no callback is running. The C# session stops
the SDK before it completes the queue (a waiting callback has its deadline), and
does not wait for its monitor, which may meet the closed handle; `MonitorWakes`
is its second look at the handle.

### `FfmpegProcess` - child, pump, diagnostics, stop

The child may convert, hang, ignore SIGTERM or die at any time, and cannot
survive SIGKILL. Pipes hold `PipeSize` packets, so that pump and child block
on each other. `stop_process` is one action per statement that may block or
close something. A second call returns at once in the code and is no action.

### `ServiceLifecycle`, `WindowsService`

`ServiceLifecycle` is what the service manager may expect of a service: RUNNING
only from START_PENDING, no return from STOP_PENDING, and an accepted stop ends.
`WindowsService` models `service_main` with its watchdog, the control handler
and the phases of the worker thread that runs `run_bridge`; each use of
`status`, always under `status_mutex`, is one action. Calls into the vendor's
SDK may hang in every phase, and the process may crash.

### `WindowsUpgrade`

`execute()`, one action per statement that changes something, and the
`install` branch of `windows-service.cmd`, which it runs. `up` is the statement,
`sub` the position within `stop()` or `remove()`, which updater and script share
in the model as they share the protocol in the code. `Throw` stands for every
exception, failed command and expired deadline: from the forward part into the
rollback, from the rollback to the message that it is incomplete. `ScriptFails`
is the script's own rollback. Directories hold a version; a registration is the
user's or the installer's. Services start, stop and crash as `ServiceLifecycle`
allows, and the service manager's recovery actions restart crashed ones
(`Relaunch`) while the updater works. `Kill` ends the updater at any statement; a
later attempt starts from what is left. It is an assumption that the script ends
with it: `run()` creates no job object, so that a script may outlive a killed
updater. Such a script touches no directory; what it does to the services beside a
second attempt is not covered. A second updater is
reduced to its two steps on the mutex.

### The proof modules and the instances

`BridgeServerProofs`, `VideoPipelineProofs`, `MediaSessionProofs`,
`FfmpegProcessProofs`, `CodecCacheProofs`, `CsBridgeProofs`,
`WindowsServiceProofs` and `WindowsUpgradeProofs` hold the theorems about the
module they are named after (section 5); the inductive invariant is the last
section of that module. The `MC...` modules instantiate the eight models for TLC.

## 3. Runs

| Run | Instance | Checks |
|---|---|---|
| `cleanup` | 3 workers, 3 descriptors, 3 ids, 2 leases, 2 cleanups; 1.17 million states | `FdOwnership`, `OnlyCleanedDisconnected`, `ResourcesAreLeased`, `NoSurvivor`, `CleanupReasonKept`, `ManualCleanupMeansCleaned`, `ZeroMeansReleased`, refinement `ImplementsProtocol` |
| `stop` | 2 workers, 1 lease, 1 id, 2 cleanups, stop at any moment, statuses expire, fairness | `SdkOutlivesWorkers`, `OverIsNotActive`, `StopCompletes`, `CleanupCompletes` |
| `media` | both bridges; queue of 3 bytes, 3 packets that fit, fill or never fit, fairness | `NoGap`, `LossIsReported`, `HandleDiscipline`, `EndReachesConsumer`, `StopReleases` |
| `ffmpeg` | pipes and queue that fill up, fairness | `NoUseAfterClose`, `NothingLeft`, `StopTerminates`, `InputEndEndsService` |
| `pipeline` | all requests on three builds; recorders with analog and IP channels, with one kind, with disabled ones; channels 0 to 7 | `CopyIsVerified`, `OneConsumer`, `TranscodeFromHeader`, `FallbacksBounded`, `StreamsWhatWasAsked` |
| `service` | any number of starts, 16 progress reports per start, fairness | `StoppedMeansJoined`, `ZeroMeansOrderly`, refinement `ImplementsLifecycle` |
| `upgrade` | 2 attempts; C++ or C# installation under either name, running or not; fairness | `OldRecoverable`, `RestoredMeansRestored`, `UpgradedMeansUpgraded`, `UpgradeEnds` |
| `cache` | both bridges; 2 channels, 2 handlers, 3 sets, 2 crashes, lifetime 1 of 2 ticks | `NoOlderEntryReturns`, `RestartRemembers`, `FreshEntryStays` |
| `csharp` | 3 tasks, 1 id, 2 places; Range requests, disposal, browsers that leave, devices that fall silent, FFmpegs that hang; fairness | `WithinLimit`, `NothingLeaks`, `StatusIsTrue`, `LeaversAreReleased` |

Bounds. Three workers allow a cleaning handler, a session being cleaned and a
third connection that takes over a descriptor number, a lease or an id; two
cleanups allow a token to be old, current or missing. Two leases of three
workers make the limit bite. `MaxCleans` bounds the generation counter,
`MaxPackets` the packets, `MayStop` and `MayExpire` leave out whole phenomena
where they only multiply states. In `cleanup` statuses do not expire: that
`CleanupReasonKept` also holds when they do rests on the theorem `ReasonSafety`. Every invariant and action property of a passing
run is also proved for all values of the constants, that is without the bounds on
sets and counters (section 5), so that the bounds matter for liveness only. Symmetry over workers,
descriptors and ids is used in the runs without liveness only. `stop` needs
two workers: one that is stopped or cleaned and one that cleans or takes over a
descriptor number; its one id is used again once its status has expired.

The three recorders of `pipeline` have channels of both kinds with a gap between
them, IP channels only, and analog channels of which one is disabled; the
channels asked for lie before, in, between and behind theirs. Three sets in
`cache` are a wrong identification, its correction and another channel's; two
crashes allow one while what the first left is being replaced. In `csharp` three
tasks for two places make the limit and a duplicate meet, and a Range request shares
the one id with a session; ids meet only in the places they compete for, and the
theorems of section 5 are about any set of them.

Deadlock is checked where a module has an explicit final state; in `cache` the
bounds, and in `csharp` the disposal, end the system. The type invariants
(`TypeOK`) are part of no run: the proof modules prove them.

### Runs that show a disagreement

* `sid`: ids are keys of one status map. The cleaned session `x` is still
  ending; a client starts a new session `x`, whose `set_active` overwrites the
  status; the old handler then records `manual_cleanup` for `x`, and
  `set_ended` never replaces that reason. The new session, which no cleanup
  touched, ends as `manual_cleanup`, on which the browser stops retrying.
* `media_overflow`: `accept_data` takes a push refused by a *closed* queue for
  an overflow, and overwrites `playback_end` with `queue_overflow`. The C# bridge
  does the same (`HcNetStreamSession.cs` 342).
* `upgrade_killed`: `UpgradeLock` wants to notice that an earlier upgrade was
  killed (WAIT_ABANDONED), but the mutex ceases to exist with the killed
  process, its only user, and the next upgrade starts without a warning. The
  old installation is in a backup even then (`OldRecoverable`).

Smaller ones without a run:

* 2344: the final check of a copied stream rejects H.265 only. A channel of which a
  stale cache entry or the configuration says H.264, but which sends a codec that is
  neither, is copied; `src/README.md` 20 and README 3 say that unknown codecs are
  transcoded. The C# bridge makes the same test (`HttpBridgeServer.cs` 207).
  `CopyIsVerified` names this case and excludes every other.
* 1592: the pump of an FFmpeg that died records and logs `sdk_data_timeout`
  ("HCNetSDK provided no data") although the SDK delivered.
* 2259: a probed H.264 stream that must be transcoded costs a second login,
  contrary to README 47.
* `FfmpegProcess.cs` 268: after 300 ms the C# bridge no longer waits for the pump
  of an FFmpeg it has stopped; if the device was silent meanwhile, that pump takes
  the next packet, which the next FFmpeg misses.

## 4. Fairness

* `BridgeServer`: weak fairness per worker for the steps that depend on nobody
  else (`Proceed`), for reading a request (15 s deadline, 2068-2104), and for
  noticing a disconnected client or a stop (`check_video_client` is polled at
  every wait, writes have a stall timeout); weak fairness of the accept thread.
  Clients and device owe nothing, except that a synchronous SDK call returns.
* `MediaSession`: callback and monitor threads run, `push` has a deadline,
  waiting for first data has one, `stop()` proceeds. Device and consumer owe
  nothing.
* `FfmpegProcess`: threads run, reads have deadlines, SIGKILL works. The child
  owes nothing else.
* `CsBridge` (`Proceed`, `PumpGivesUp`): setup and teardown, whose steps return or
  have a deadline; a read of output that is there; a write to a connection that is
  closed; the pump's deadline. A browser that stays need not take what is written,
  the device need not send, FFmpeg need not exit. A session whose browser has left
  while it waits for an FFmpeg that hangs is kept for ever, and
  `LeaversAreReleased` excludes it in so many words. (The C++ bridge polls the browser
  and has a deadline at every read.)
* `WindowsService`: `service_main` polls every 100 ms, time passes. The worker
  owes nothing.
* `WindowsUpgrade`: every wait of the updater has a deadline, so it always takes
  a next step. Services owe nothing.

## 5. Proofs

Every module with a specification of the program has a proof module. Each proves
`Inductive == Spec => [](TypeOK /\ IInv)` with one step per action, and derives the
invariants and action properties of the runs from it. `Spec` is without fairness,
so nothing is assumed of schedules. TLC checked each `IInv` on the instance of its
run before it was proved; where an obvious invariant was not inductive, the
conjuncts added to it say what the code relies on, and are described below.

| Module | Proved of the runs' properties | For all |
|---|---|---|
| `BridgeServer` | `FdOwnership`, `ResourcesAreLeased`, `NoSurvivor`, `ZeroMeansReleased`, `SdkOutlivesWorkers`, `OverIsNotActive`, `ImplementsProtocol`; with `UniqueSids` also `CleanupReasonKept`, `OnlyCleanedDisconnected`, `ManualCleanupMeansCleaned` | finite sets of workers; descriptors and ids; `MaxSessions > 0`; `MaxCleans` (`BridgeAssumption`) |
| `VideoPipeline` | `CopyIsVerified`, `OneConsumer`, `TranscodeFromHeader`, `FallbacksBounded`, `StreamsWhatWasAsked` | sets of recorders with at most 64 analog channels, any number of IP channels that begin behind them; channels asked for (`TopologyAssumption`) |
| `MediaSession` | `NoGap`, `LossIsReported`, `HandleDiscipline`; and `ByteSafety`, which no run checks | `Limit > 0`; packets and their sizes (`MediaAssumption`) |
| `FfmpegProcess` | `NoUseAfterClose`, `NothingLeft` | sizes of pipes and queue above 0 (`FfmpegAssumption`) |
| `CodecCache` | `NoOlderEntryReturns`, `RestartRemembers`, `FreshEntryStays` | channels, threads, times, sets and crashes; `Ttl > 0` (`CacheAssumption`) |
| `CsBridge` | `WithinLimit`, `NothingLeaks`, `StatusIsTrue` | finite sets of tasks; ids; `MaxSessions > 0` (`CsAssumption`) |
| `WindowsService` | `StoppedMeansJoined`, `ZeroMeansOrderly`; and that it implements `ServiceLifecycle!Spec` | `MaxProgress > 0` (`ServiceAssumption`) |
| `WindowsUpgrade` | `OldRecoverable`, `RestoredMeansRestored`, `UpgradedMeansUpgraded` | numbers of attempts (`UpgradeAssumption`) |

That `None` is neither an id, nor a thread, nor a table of entries is all that the
assumptions say besides.

### The arguments

`BridgeServer`. None of the invariants is inductive. `FdOwnership`, for example,
holds because a state is registered exactly while its handler is between
`reserve` and `~Lease`, and a handler there has not closed its socket. `IInv`
states such facts for every thread position: who owns a descriptor (`FdInv`),
where a lease exists (`LeaseInv`), where resources may be held (`ResInv`), what
the lock protects (`LockInv`), which sessions a cleanup may have missed
(`SurvivorInv`: none), what a reader of `cleaningSessions` is owed (`OwedInv`),
what a stop implies (`ExitInv`, `ShutInv`).
`StatusInv` adds what statuses say under `UniqueSids` (the run `sid` shows that
this assumption is needed), and `ActiveInv`, for
`EndSafety`, that whoever uses the id of an active status last is still at a
position from which `publish_status` lies ahead. For the refinement, a
session drains from the moment `clean()` takes the lock (`todo`), not from the
moment its flag is set; then `StartClean` is the abstract `Clean`, and the loop
is invisible.

`VideoPipeline`. The position in `handle_video` determines which readers the
stream has (`SessionInv`), what may be copied, and that a channel found to send H.264 is in the
cache as such (`CopyInv`), whether a transcoding
FFmpeg has the header before it (`HeaderInv`) and how many logins and processes
have been spent, given how many fallbacks are left (`BudgetInv`). The channel rests
on lemmas about the operators of `ChannelTopology`: `ReadTopology` says what
`read` makes of a recorder's incomplete answers, and `ResolveCorrect` that
`resolve` gives the channel that the reference `Asked` expects, or refuses what
it does not have, for every recorder and every channel asked for.

`MediaSession`. The order (`OrderInv`) follows from where a packet is between the
SDK's call and the queue. `ByteSafety` is about a sum over the queue,
which would call for induction; `ByteInv` says instead that *some* sequence of
prefix sums accounts for `bytes`, and each `push` or `pop` gives the next one
(`Accounts`). `HandleInv` says who holds login and handle at each position of the
owner, and when callbacks and monitor may run.

`FfmpegProcess`. A descriptor is closed by whoever is last with it: `PumpInv` for
the child's input, `ErrorInv` for the other two, `ChildInv` for the child, which
`stop_process` reaps before it joins anybody.

`CodecCache`. `LockInv`: one thread writes the file at a time. `RecentInv`: neither
memory, file nor temporary file holds anything older than what was once put in
place; this must be said of the temporary file of a writer, too, since it becomes
the file, and that it is not newer than memory. `CompleteInv`: the file lacks something of memory only while
somebody is about to write it or after a failure. Two lemmas say how the passing
of time filters what a load would find.

`CsBridge`. Nothing protects semaphore and dictionary together, so the argument is
that of a count: free places plus tasks under way are `MaxSessions` (`PlacesInv`),
and `_ids` is exactly the set of keys of the reserved tasks (`KeysInv`).
`WithinLimit` follows since only tasks under way hold resources.

`WindowsService`. `ReportInv` and `WorkerInv` relate what was last reported to where
`service_main` and the worker are. `Refinement` maps each step to a step of
`ServiceLifecycle` or to none.

`WindowsUpgrade`. `PositionInv` says what `moved` and `installed` can be at each
statement of `execute()`, its rollback and the script; `DirInv` that the files of the
snapshot are in their place or in the attempt's backup, and that what is staged or
put aside as failed is never the user's; `RegInv` which services can be
registered. The truth of the final message is proved from it as a property of
the step that ends the upgrade.

### Only model-checked

Liveness: `StopCompletes`, `CleanupCompletes`, `EndReachesConsumer`,
`StopReleases`, `StopTerminates`, `InputEndEndsService`, `UpgradeEnds`,
`LeaversAreReleased`, and the fairness condition of `ServiceLifecycle!FairSpec`,
which is what `ImplementsLifecycle` says beyond `Refinement`. TLAPS 1.4.5 has no
support for `ENABLED`, which fairness is made of.

Stating the proofs corrected the model twice: `resolve` was a `CASE` with
overlapping arms, of which TLC takes the first but TLA+ any, and is now a chain in
the order of the code's early returns; and `CsBridge` and `CodecCache` relied
on `None` being different from ids, threads and tables without an assumption.

## 6. Not modelled

Byte-level HTTP, argument lists, log texts, JSON; configuration and request
validation (models start from valid requests); statistics counters and times
in statuses; `NET_DVR` calls that only tune the device; the single settings of
a Windows service registration (`restore()` writes them back one by one); the
scheduled tasks of old installations, which the updater refuses to touch, and
`uninstall`; an installation script that outlives its killed updater; whether a
service that an upgrade found stopped is stopped after its rollback (the service
manager may have started it again); the inside of the C# `FfmpegProcess` but for its pump's deadline, whose pipes and descriptors
`System.Diagnostics.Process` hides; what the SDK does when it is called with a
closed handle or after its cleanup, as the C# bridge may. The parts marked
`not_modelled` in `PROJECT.json` carry their reasons: they are sequential
parsing, I/O, scripts and declarations, without state that outlives a call or
that two threads share.

## 7. Plan

Done, in this order: `CleanupProtocol`, `BridgeServer` and its proofs,
`MediaSession`, `FfmpegProcess`, `VideoPipeline`, `WindowsService`,
`WindowsUpgrade`, `CodecCache`, `ChannelTopology`, `CsBridge`, and the C# variants
of `VideoPipeline` and `MediaSession`.

Each model with a specification has its proofs: every invariant and action
property that a passing run checks is a theorem.

Left: abstract specifications beside `CleanupProtocol` and `ServiceLifecycle`, with
their refinement proved, namely a FIFO that may end with a reason for the
media queue, a limited set of places for `CsBridge` and, for `WindowsUpgrade`, an
upgrade that takes effect or does not.
