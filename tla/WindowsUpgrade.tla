--------------------------- MODULE WindowsUpgrade ---------------------------
(***************************************************************************)
(* The Windows upgrade (windows-upgrade.cpp, execute()): it stages the new *)
(* package, stops the service, exchanges the directories, runs the new     *)
(* package's windows-service.cmd install, verifies the new service, and on *)
(* any failure rolls back.  Every step may fail or time out, the updater   *)
(* may be killed at any step, and an upgrade may be tried again.           *)
(*                                                                         *)
(* A directory's content is the version it holds.  A registration is the   *)
(* set of settings it has: those the user had, or those of the installer.  *)
(* Services behave as ServiceLifecycle allows; after a crash the service   *)
(* manager may start them again.  Scheduled tasks do not occur: execute()  *)
(* refuses to run while one exists.                                        *)
(***************************************************************************)
EXTENDS Integers

CONSTANT MaxAttempts  \* bound: upgrades tried

ASSUME UpgradeAssumption == MaxAttempts \in Nat

VARIABLES
  dir,             \* what each directory holds
  oldKind,         \* Kind of the user's original installation
  reg, state,      \* per service: registration, state
  crashed,         \* services that ended without being asked to
  up, sub,         \* the statement of execute() or of the script, and the
                   \* position within stop() or remove()
  attempt, snap,   \* upgrades tried; discover()'s Snapshot
  moved, installed,
  script,          \* the install script's variables
  lock, rival,     \* the mutex; a second updater has opened it
  killed,          \* history: an upgrade was killed and nobody was told
  outcome          \* what the last upgrade told its user

svcVars  == <<reg, state, crashed>>
txVars   == <<attempt, snap, moved, installed>>
lockVars == <<lock, rival, killed>>
vars == <<dir, oldKind, svcVars, up, sub, txVars, script, lockVars, outcome>>

native  == "hikbridge"
managed == "HikSdkHttpBridge"
Names   == {native, managed}

Target == <<"target", 0>>
Places == {Target} \cup ({"staged", "backup", "failed"} \X (1..MaxAttempts))
Own(place) == <<place, attempt>>  \* the suffix makes an attempt's names its own

KindOf(version) == IF version = "new" THEN "native" ELSE oldKind

\* identify(): the program matches the arguments it is registered with.
Matches(n) ==
  /\ reg[n] \in {"old", "new"} /\ dir[Target] # "none"
  /\ KindOf(reg[n]) = KindOf(dir[Target])

NoSnapshot == [name |-> native, reg |-> "none", files |-> "none", running |-> FALSE]
NoLocals   == [reg |-> "none", running |-> {}, changed |-> FALSE]

\* One installation, in any state that discover() accepts.
Init ==
  /\ dir = [p \in Places |-> IF p = Target THEN "old" ELSE "none"]
  /\ oldKind \in {"native", "managed"}
  /\ \E n \in Names :
       /\ reg = [m \in Names |-> IF m = n THEN "old" ELSE "none"]
       /\ \E s \in {"stopped", "running"} :
            state = [m \in Names |-> IF m = n THEN s ELSE "stopped"]
  /\ crashed = {}
  /\ up = "idle" /\ sub = "do"
  /\ attempt = 0 /\ snap = NoSnapshot /\ moved = FALSE /\ installed = FALSE
  /\ script = NoLocals
  /\ lock = "free" /\ rival = FALSE /\ killed = FALSE
  /\ outcome = "none"

-----------------------------------------------------------------------------
(***************************************************************************)
(* The services.                                                           *)
(***************************************************************************)

ServiceStep == UNCHANGED <<dir, oldKind, up, sub, txVars, script, lockVars, outcome>>

Launch(n) == [state EXCEPT ![n] = "start_pending"]

ServiceUp(n) ==
  /\ state[n] = "start_pending" /\ Matches(n)
  /\ state' = [state EXCEPT ![n] = "running"]
  /\ UNCHANGED <<reg, crashed>> /\ ServiceStep

\* An orderly stop, a failed start, a crash, the service's own watchdog.
ServiceDown(n) ==
  /\ state[n] # "stopped"
  /\ state' = [state EXCEPT ![n] = "stopped"]
  /\ crashed' \in IF state[n] = "stop_pending" THEN {crashed, crashed \cup {n}}
                                               ELSE {crashed \cup {n}}
  /\ UNCHANGED reg /\ ServiceStep

\* The recovery actions of the service manager.
Relaunch(n) ==
  /\ n \in crashed /\ state[n] = "stopped"
  /\ reg[n] \in {"old", "new"} /\ dir[Target] # "none"
  /\ state' = Launch(n) /\ crashed' = crashed \ {n}
  /\ UNCHANGED reg /\ ServiceStep

\* A deleted service disappears when its last handle is closed.
Purge(n) ==
  /\ reg[n] = "deleting" /\ state[n] = "stopped"
  /\ reg' = [reg EXCEPT ![n] = "none"]
  /\ UNCHANGED <<state, crashed>> /\ ServiceStep

-----------------------------------------------------------------------------
(***************************************************************************)
(* The updater's control flow.                                             *)
(***************************************************************************)

Rollback == {"rb_stop", "rb_remove", "rb_move", "rb_back", "rb_restore", "rb_start"}

Go(p, s) == up' = p /\ sub' = s /\ UNCHANGED <<outcome, lockVars>>

\* execute() returns; ~UpgradeLock releases the mutex.
Leave(result) ==
  /\ up' = "idle" /\ sub' = "do" /\ outcome' = result
  /\ lock' = "free"
  /\ UNCHANGED <<rival, killed>>

\* The lock, discover(), snapshot(): one bridge service, in a stable state,
\* running a program that is recognized.
Begin ==
  /\ up = "idle" /\ lock = "free" /\ attempt < MaxAttempts
  /\ \E n \in Names :
       /\ reg[n] # "none" /\ \A m \in Names \ {n} : reg[m] = "none"
       /\ Matches(n) /\ state[n] \in {"stopped", "running"}
       /\ snap' = [name |-> n, reg |-> reg[n], files |-> dir[Target],
                   running |-> state[n] = "running"]
  /\ attempt' = attempt + 1 /\ moved' = FALSE /\ installed' = FALSE
  /\ lock' = "held" /\ up' = "staging" /\ sub' = "do" /\ outcome' = "none"
  /\ script' = NoLocals
  /\ UNCHANGED <<dir, oldKind, svcVars, rival, killed>>

\* discover() or validation throws: several services or none, an unstable
\* one, a program that is missing or unknown.
Decline ==
  /\ up = "idle" /\ lock = "free" /\ attempt < MaxAttempts
  /\ attempt' = attempt + 1 /\ outcome' = "refused"
  /\ UNCHANGED <<dir, oldKind, svcVars, up, sub, snap, moved, installed, script, lockVars>>

\* Validation, copy_all() and the export of the registration, all before
\* anything in use is touched.
Stage ==
  /\ up = "staging"
  /\ dir' = [dir EXCEPT ![Own("staged")] = "new"]
  /\ Go("stop", "ask")
  /\ UNCHANGED <<oldKind, svcVars, txVars, script>>

StageFails ==
  /\ up = "staging"
  /\ Leave("refused")
  /\ UNCHANGED <<dir, oldKind, svcVars, txVars, script>>

\* Any statement of the try block or of the script throws, fails or exceeds
\* its time; in the rollback, that ends it.
ThrowMutant ==
  /\ up \notin {"idle", "staging", "install"} /\ sub # "wait"
  /\ IF up \in Rollback THEN Leave("manual") ELSE Go("rb_stop", "ask")
  /\ UNCHANGED <<dir, oldKind, svcVars, txVars, script>>

Throw ==
  /\ up \notin {"idle", "staging", "install"}
  /\ IF up \in Rollback THEN Leave("manual") ELSE Go("rb_stop", "ask")
  /\ UNCHANGED <<dir, oldKind, svcVars, txVars, script>>

\* The updater dies.  A mutex whose owner died is abandoned as long as another
\* process has it open; without one it ceases to exist.  Assumed: a script that
\* it runs ends with it.  In fact run() puts cmd.exe into no job object, so the
\* script goes on; it touches no directory, and none that it works in can be
\* renamed, but what it does to the services beside a second attempt is not
\* covered.
Kill ==
  /\ up # "idle" /\ up' = "idle" /\ sub' = "do"
  /\ lock' = IF rival THEN "abandoned" ELSE "free"
  /\ killed' = TRUE
  /\ UNCHANGED <<dir, oldKind, svcVars, txVars, script, rival, outcome>>

RivalStep == UNCHANGED <<dir, oldKind, svcVars, up, sub, txVars, script, outcome>>

\* A second updater between CreateMutexW and WaitForSingleObject.
RivalOpens ==
  /\ lock = "held" /\ ~rival /\ rival' = TRUE
  /\ UNCHANGED <<lock, killed>> /\ RivalStep

\* It finds the mutex held, or it can have it and is the next to Begin.
RivalTests ==
  /\ rival /\ lock \in {"held", "free"} /\ rival' = FALSE
  /\ UNCHANGED <<lock, killed>> /\ RivalStep

\* WAIT_ABANDONED: the user is told to check backups and services.
RivalReports ==
  /\ rival /\ lock = "abandoned" /\ rival' = FALSE
  /\ lock' = "free" /\ killed' = FALSE
  /\ RivalStep

-----------------------------------------------------------------------------
(***************************************************************************)
(* stop() and remove(), of the updater and of the script alike.            *)
(***************************************************************************)

\* The service that a position stops or removes.
Subject ==
  CASE up \in {"stop", "removeOld"}                     -> snap.name
    [] up = "rb_stop"                                   -> IF installed THEN native
                                                           ELSE snap.name
    [] up \in {"s_stopLegacy", "s_removeLegacy"}        -> managed
    [] up \in {"s_stopNative", "s_undo", "s_undoRemove", "rb_remove"} -> native
    [] OTHER                                            -> snap.name

\* A service that is starting refuses the request: that is a Throw.
AskStop ==
  /\ sub = "ask" /\ state[Subject] # "start_pending"
  /\ state' = IF state[Subject] = "running"
              THEN [state EXCEPT ![Subject] = "stop_pending"] ELSE state
  /\ Go(up, "wait")
  /\ UNCHANGED <<dir, oldKind, reg, crashed, txVars, script>>

Stopped ==
  /\ sub = "wait" /\ state[Subject] = "stopped"
  /\ CASE up = "stop"         -> Go("moveOld", "do")
       [] up = "s_stopLegacy" -> Go("s_stopNative", "ask")
       [] up = "s_stopNative" -> Go("s_configure", "do")
       [] up = "s_undo"       -> IF script.reg = "none" THEN Go("s_undoRemove", "ask")
                                 ELSE Go("s_undoConfig", "do")
       [] up = "rb_stop"      -> IF installed /\ snap.name # native
                                 THEN Go("rb_remove", "ask") ELSE Go("rb_move", "do")
       [] OTHER               -> Go(up, "delete")
  /\ UNCHANGED <<dir, oldKind, svcVars, txVars, script>>

\* DeleteService only marks a service that runs or is open elsewhere.
Delete ==
  /\ sub = "delete"
  /\ \E r \in {"none", "deleting"} :
       /\ reg[Subject] = "none" => r = "none"
       /\ state[Subject] # "stopped" => r = "deleting"
       /\ reg' = [reg EXCEPT ![Subject] = r]
  /\ Go(up, "gone")
  /\ UNCHANGED <<dir, oldKind, state, crashed, txVars, script>>

Gone ==
  /\ sub = "gone" /\ reg[Subject] = "none"
  /\ CASE up = "removeOld"      -> Go("install", "do")
       [] up = "s_removeLegacy" -> Go("verify", "do")
       [] up = "s_undoRemove"   -> Go("s_restart", "do")
       [] up = "rb_remove"      -> Go("rb_move", "do")
  /\ UNCHANGED <<dir, oldKind, svcVars, txVars, script>>

-----------------------------------------------------------------------------
(***************************************************************************)
(* The try block.                                                          *)
(***************************************************************************)

\* Windows does not rename a directory while a program in it runs.
Idle == \A n \in Names : state[n] = "stopped"

Rename(from, to) ==
  /\ dir[from] # "none" /\ dir[to] = "none" /\ Idle
  /\ dir' = [dir EXCEPT ![to] = dir[from], ![from] = "none"]

MoveOld ==
  /\ up = "moveOld" /\ Rename(Target, Own("backup"))
  /\ moved' = TRUE
  /\ Go("moveNew", "do")
  /\ UNCHANGED <<oldKind, svcVars, attempt, snap, installed, script>>

MoveNew ==
  /\ up = "moveNew" /\ Rename(Own("staged"), Target)
  /\ Go("validate", "do")
  /\ UNCHANGED <<oldKind, svcVars, txVars, script>>

Validate ==
  /\ up = "validate"
  /\ IF KindOf(snap.reg) = "managed" THEN Go("removeOld", "ask") ELSE Go("install", "do")
  /\ UNCHANGED <<dir, oldKind, svcVars, txVars, script>>

VerifyMutant ==
  /\ up = "verify"
  /\ Matches(native) /\ reg[native] = "new" /\ dir[Target] = "new"
  /\ Leave("upgraded")
  /\ UNCHANGED <<dir, oldKind, svcVars, txVars, script>>

\* verify(): running, registered as installed, and of the expected version.
Verify ==
  /\ up = "verify"
  /\ Matches(native) /\ reg[native] = "new" /\ dir[Target] = "new"
  /\ state[native] = "running"
  /\ Leave("upgraded")
  /\ UNCHANGED <<dir, oldKind, svcVars, txVars, script>>

-----------------------------------------------------------------------------
(***************************************************************************)
(* windows-service.cmd install                                             *)
(***************************************************************************)

\* The script records what it finds.
Install ==
  /\ up = "install"
  /\ installed' = TRUE
  /\ script' = [reg |-> reg[native], changed |-> FALSE,
                running |-> {n \in Names : state[n] = "running"}]
  /\ Go("s_stopLegacy", "ask")
  /\ UNCHANGED <<dir, oldKind, svcVars, attempt, snap, moved>>

\* sc create or sc config; a service marked for deletion accepts neither.
Configure ==
  /\ up = "s_configure" /\ reg[native] = script.reg /\ reg[native] # "deleting"
  /\ reg' = [reg EXCEPT ![native] = "new"]
  /\ script' = [script EXCEPT !.changed = TRUE]
  /\ Go("s_start", "do")
  /\ UNCHANGED <<dir, oldKind, state, crashed, txVars>>

\* sc start fails for a service that the service manager has started again.
ScriptStarts ==
  /\ up = "s_start" /\ state[native] = "stopped"
  /\ state' = Launch(native)
  /\ Go("s_wait", "do")
  /\ UNCHANGED <<dir, oldKind, reg, crashed, txVars, script>>

\* RUNNING twice in a row; then the recovery actions are set and the other
\* service is removed.  A failure from here on is a partial success: exit
\* code 1 without a rollback of the script's own (a Throw).
SeenRunning ==
  /\ up = "s_wait" /\ state[native] = "running"
  /\ Go("s_removeLegacy", "ask")
  /\ UNCHANGED <<dir, oldKind, svcVars, txVars, script>>

\* :rollback
ScriptFails ==
  /\ up \in {"s_stopLegacy", "s_stopNative", "s_configure", "s_start", "s_wait"}
  /\ IF script.changed THEN Go("s_undo", "ask") ELSE Go("s_restart", "do")
  /\ UNCHANGED <<dir, oldKind, svcVars, txVars, script>>

\* :restore_service
UndoConfig ==
  /\ up = "s_undoConfig" /\ reg[native] # "deleting"
  /\ reg' = [reg EXCEPT ![native] = script.reg]
  /\ Go("s_restart", "do")
  /\ UNCHANGED <<dir, oldKind, state, crashed, txVars, script>>

\* :restart_previous and :restart_legacy; the script returns 1, so that the
\* updater rolls back as well.
ScriptRestarts ==
  /\ up = "s_restart"
  /\ state' = [n \in Names |-> IF n \in script.running /\ state[n] = "stopped"
                                  /\ reg[n] \in {"old", "new"}
                               THEN "start_pending" ELSE state[n]]
  /\ Go("rb_stop", "ask")
  /\ UNCHANGED <<dir, oldKind, reg, crashed, txVars, script>>

-----------------------------------------------------------------------------
(***************************************************************************)
(* The rollback.                                                           *)
(***************************************************************************)

PutAsideMutant ==
  /\ up = "rb_move"
  /\ IF dir[Target] # "none" THEN Rename(Target, Own("failed")) ELSE UNCHANGED dir
  /\ Go("rb_back", "do")
  /\ UNCHANGED <<oldKind, svcVars, txVars, script>>

\* The new version is kept for inspection.
PutAside ==
  /\ up = "rb_move"
  /\ IF moved /\ dir[Target] # "none" THEN Rename(Target, Own("failed")) ELSE UNCHANGED dir
  /\ Go("rb_back", "do")
  /\ UNCHANGED <<oldKind, svcVars, txVars, script>>

BringBack ==
  /\ up = "rb_back"
  /\ IF moved THEN Rename(Own("backup"), Target) ELSE UNCHANGED dir
  /\ Go("rb_restore", "do")
  /\ UNCHANGED <<oldKind, svcVars, txVars, script>>

\* restore(): CreateServiceW or ChangeServiceConfigW with the snapshot's
\* settings, then StartServiceW if the service had been running.
RestoreMutant ==
  /\ up = "rb_restore" /\ reg[snap.name] # "deleting"
  /\ reg' = [reg EXCEPT ![snap.name] = IF @ = "none" THEN snap.reg ELSE @]
  /\ IF snap.running
     THEN /\ state[snap.name] # "stop_pending"
          /\ state' = IF state[snap.name] = "stopped" THEN Launch(snap.name) ELSE state
          /\ Go("rb_start", "do")
     ELSE Leave("restored") /\ UNCHANGED state
  /\ UNCHANGED <<dir, oldKind, crashed, txVars, script>>

Restore ==
  /\ up = "rb_restore" /\ reg[snap.name] # "deleting"
  /\ reg' = [reg EXCEPT ![snap.name] = snap.reg]
  /\ IF snap.running
     THEN /\ state[snap.name] # "stop_pending"
          /\ state' = IF state[snap.name] = "stopped" THEN Launch(snap.name) ELSE state
          /\ Go("rb_start", "do")
     ELSE Leave("restored") /\ UNCHANGED state
  /\ UNCHANGED <<dir, oldKind, crashed, txVars, script>>

Resumed ==
  /\ up = "rb_start" /\ state[snap.name] = "running"
  /\ Leave("restored")
  /\ UNCHANGED <<dir, oldKind, svcVars, txVars, script>>

-----------------------------------------------------------------------------
\* A step of an upgrade that has begun.
execute ==
  \/ Stage \/ StageFails \/ Throw
  \/ AskStop \/ Stopped \/ Delete \/ Gone
  \/ MoveOld \/ MoveNew \/ Validate \/ Verify
  \/ Install \/ Configure \/ ScriptStarts \/ SeenRunning
  \/ ScriptFails \/ UndoConfig \/ ScriptRestarts
  \/ PutAside \/ BringBack \/ Restore \/ Resumed

\* Nobody upgrades any more.
Done == up = "idle" /\ attempt = MaxAttempts /\ UNCHANGED vars

Next ==
  \/ Begin \/ Decline \/ execute \/ Kill
  \/ RivalOpens \/ RivalTests \/ RivalReports
  \/ \E n \in Names : ServiceUp(n) \/ ServiceDown(n) \/ Relaunch(n) \/ Purge(n)
  \/ Done

Spec == Init /\ [][Next]_vars

\* Every wait of the updater has a deadline.
FairSpec == Spec /\ WF_vars(execute)

-----------------------------------------------------------------------------
\* The positions: those that stop a service, those that remove one, those of
\* the script.
Stops   == {"stop", "rb_stop", "s_stopLegacy", "s_stopNative", "s_undo"}
Removes == {"removeOld", "rb_remove", "s_removeLegacy", "s_undoRemove"}
Script  == {"s_stopLegacy", "s_stopNative", "s_configure", "s_start", "s_wait",
            "s_removeLegacy", "s_undo", "s_undoRemove", "s_undoConfig", "s_restart"}

Registrations == {"none", "old", "new", "deleting"}

\* Types; the mutex is held exactly while an upgrade is under way.
TypeOK ==
  /\ dir \in [Places -> {"none", "old", "new"}]
  /\ oldKind \in {"native", "managed"}
  /\ reg \in [Names -> Registrations]
  /\ state \in [Names -> {"stopped", "start_pending", "running", "stop_pending"}]
  /\ crashed \subseteq Names
  /\ up \in {"idle", "staging", "moveOld", "moveNew", "validate", "install", "verify"}
             \cup Stops \cup Removes \cup Script \cup Rollback
  /\ sub \in {"do", "ask", "wait", "delete", "gone"}
  /\ attempt \in 0..MaxAttempts
  /\ snap \in [name : Names, reg : Registrations, files : {"none", "old", "new"}, running : BOOLEAN]
  /\ script \in [reg : Registrations, running : SUBSET Names, changed : BOOLEAN]
  /\ moved \in BOOLEAN /\ installed \in BOOLEAN /\ rival \in BOOLEAN /\ killed \in BOOLEAN
  /\ lock \in {"free", "held", "abandoned"} /\ (lock = "held" <=> up # "idle")
  /\ outcome \in {"none", "refused", "upgraded", "restored", "manual"}

\* Wherever an upgrade fails or is killed, and whatever later upgrades do,
\* the user's own installation is in its place or in a backup
\* (UPGRADE_WINDOWS.md 19, 26): it is never put aside as a failed version.
OldRecoverable == "old" \in {dir[Target]} \cup {dir[<<"backup", k>>] : k \in 1..MaxAttempts}

Ends(result) == up # "idle" /\ outcome' = result

\* "Restored" is the truth: directory and registration are those of the
\* snapshot, a service that ran runs, and no other bridge service is left
\* (UPGRADE_WINDOWS.md 21, line 310).  One that was found stopped after a crash
\* may have been started by the service manager.
RestoredMeansRestored ==
  [][Ends("restored") =>
       /\ dir'[Target] = snap.files
       /\ reg' = [n \in Names |-> IF n = snap.name THEN snap.reg ELSE "none"]
       /\ snap.running => state'[snap.name] = "running"]_vars

\* "Upgraded" is the truth: the new service alone is registered and runs the
\* new version, and the old one is in the attempt's backup (lines 301-302).
UpgradedMeansUpgraded ==
  [][Ends("upgraded") =>
       /\ dir'[Target] = "new" /\ dir'[Own("backup")] = snap.files
       /\ reg' = [n \in Names |-> IF n = native THEN "new" ELSE "none"]
       /\ state'[native] = "running"]_vars

\* An upgrade comes to an end whatever the services do.
UpgradeEnds == up # "idle" ~> up = "idle"

\* After an upgrade that was killed, the next one is refused and tells its
\* user to check backups and services first (lines 41-43; UPGRADE_WINDOWS.md 9).
AbandonedIsReported == killed => up # "staging"

-----------------------------------------------------------------------------
(***************************************************************************)
(* The inductive invariant behind the proofs.                              *)
(***************************************************************************)

\* What execute() has done when it is at a position.
PositionInv ==
  /\ sub \in {"ask", "wait"} => up \in Stops \cup Removes
  /\ sub \in {"delete", "gone"} => up \in Removes
  /\ up # "idle" => /\ attempt >= 1 /\ outcome = "none"
                    /\ snap.reg \in {"old", "new"} /\ snap.files \in {"old", "new"}
  /\ up \in {"staging", "stop", "moveOld"} => ~moved /\ ~installed
  /\ up \in {"moveNew", "validate", "removeOld", "install", "verify"} \cup Script => moved
  /\ up \in {"verify"} \cup Script => installed

\* The original installation is never staged nor put aside; the files of the
\* snapshot are in their place until they are moved and when they are back,
\* and in the backup in between.
DirInv ==
  /\ \A k \in 1..MaxAttempts : dir[<<"staged", k>>] # "old" /\ dir[<<"failed", k>>] # "old"
  /\ OldRecoverable
  /\ up # "idle" =>
       IF moved /\ up \notin {"rb_restore", "rb_start"}
       THEN dir[Target] # "old" /\ dir[Own("backup")] = snap.files
       ELSE dir[Target] = snap.files

\* No service but that of the snapshot and the one that the script installs
\* is registered; none but the former once the latter has been removed.
RegInv ==
  /\ up # "idle" /\ snap.name = native => reg[managed] = "none"
  /\ up # "idle" /\ snap.name = managed /\ (~installed \/ up \in Rollback \ {"rb_stop", "rb_remove"})
       => reg[native] = "none"
  /\ up = "verify" => reg[managed] = "none"
  /\ up = "rb_start" => reg[snap.name] = snap.reg

IInv == PositionInv /\ DirInv /\ RegInv
=============================================================================
