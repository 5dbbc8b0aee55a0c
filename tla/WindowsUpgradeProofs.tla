------------------------ MODULE WindowsUpgradeProofs ------------------------
(***************************************************************************)
(* Proofs about WindowsUpgrade, for any number of upgrades that are tried: *)
(* that the user's installation is never lost, and that execute() reports  *)
(* the truth.                                                              *)
(***************************************************************************)
EXTENDS WindowsUpgrade, TLAPS

\* The attempt's own names are places, and different ones.
LEMMA PlaceFacts ==
  ASSUME TypeOK, attempt >= 1
  PROVE  /\ Target \in Places /\ attempt \in 1..MaxAttempts
         /\ \A p \in {"staged", "backup", "failed"} : Own(p) \in Places /\ Own(p) # Target
         /\ Own("staged") # Own("backup") /\ Own("failed") # Own("backup")
<1>1. attempt \in 1..MaxAttempts
  BY UpgradeAssumption DEF UpgradeAssumption, TypeOK
<1> QED
  BY <1>1 DEF Places, Own, Target

\* A service is stopped and removed by its name.
LEMMA SubjectName ==
  ASSUME TypeOK
  PROVE  Subject \in Names
BY DEF Subject, TypeOK, Names

\* One installation, and no upgrade yet.
LEMMA InvInit == Init => TypeOK /\ IInv
<1> SUFFICES ASSUME Init PROVE TypeOK /\ IInv
  OBVIOUS
<1>1. TypeOK
  <2>1. attempt \in 0..MaxAttempts
    BY UpgradeAssumption DEF UpgradeAssumption, Init
  <2>2. snap \in [name : Names, reg : Registrations, files : {"none", "old", "new"}, running : BOOLEAN]
    BY DEF Init, NoSnapshot, Names, Registrations
  <2>3. script \in [reg : Registrations, running : SUBSET Names, changed : BOOLEAN]
    BY DEF Init, NoLocals, Registrations
  <2> QED
    BY <2>1, <2>2, <2>3 DEF Init, TypeOK, Registrations
<1>2. PositionInv /\ RegInv
  BY DEF Init, PositionInv, RegInv, Stops, Removes, Script
<1>3. DirInv
  <2>1. \A k \in 1..MaxAttempts : <<"staged", k>> \in Places /\ <<"failed", k>> \in Places
    BY DEF Places
  <2>2. \A k \in 1..MaxAttempts : <<"staged", k>> # Target /\ <<"failed", k>> # Target
    BY DEF Target
  <2>3. dir[Target] = "old"
    BY DEF Init, Places
  <2> QED
    BY <2>1, <2>2, <2>3 DEF Init, DirInv, OldRecoverable
<1> QED
  BY <1>1, <1>2, <1>3 DEF IInv

\* What execute() and the script have done by each of their positions.
LEMMA PositionStep ==
  ASSUME TypeOK, PositionInv, Next
  PROVE  PositionInv'
<1> USE DEF svcVars, txVars, lockVars, TypeOK, PositionInv, Stops, Removes, Script,
     Rollback
<1>1. CASE Begin
  <2>1. attempt' >= 1
    BY <1>1, UpgradeAssumption DEF Begin, UpgradeAssumption
  <2>2. snap'.reg \in {"old", "new"} /\ snap'.files \in {"old", "new"}
    <3>1. dir[Target] \in {"none", "old", "new"}
      BY DEF Places
    <3> QED
      BY <1>1, <3>1 DEF Begin, Matches
  <2>3. up' = "staging" /\ sub' = "do" /\ outcome' = "none" /\ ~moved' /\ ~installed'
    BY <1>1 DEF Begin
  <2> QED
    BY <2>1, <2>2, <2>3
<1>2. CASE Decline
  BY <1>2 DEF Decline
<1>3. CASE Stage
  BY <1>3 DEF Stage, Go
<1>4. CASE StageFails
  BY <1>4 DEF StageFails, Leave
<1>5. CASE Throw
  BY <1>5 DEF Throw, Go, Leave
<1>6. CASE Kill
  BY <1>6 DEF Kill
<1>7. CASE RivalOpens
  BY <1>7 DEF RivalOpens, RivalStep
<1>8. CASE RivalTests
  BY <1>8 DEF RivalTests, RivalStep
<1>9. CASE RivalReports
  BY <1>9 DEF RivalReports, RivalStep
<1>10. CASE AskStop
  BY <1>10 DEF AskStop, Go
<1>11. CASE Stopped
  BY <1>11 DEF Stopped, Go
<1>12. CASE Delete
  BY <1>12 DEF Delete, Go
<1>13. CASE Gone
  BY <1>13 DEF Gone, Go
<1>14. CASE MoveOld
  BY <1>14 DEF MoveOld, Go, Rename
<1>15. CASE MoveNew
  BY <1>15 DEF MoveNew, Go, Rename
<1>16. CASE Validate
  BY <1>16 DEF Validate, Go
<1>17. CASE Verify
  BY <1>17 DEF Verify, Leave
<1>18. CASE Install
  BY <1>18 DEF Install, Go
<1>19. CASE Configure
  BY <1>19 DEF Configure, Go
<1>20. CASE ScriptStarts
  BY <1>20 DEF ScriptStarts, Go
<1>21. CASE SeenRunning
  BY <1>21 DEF SeenRunning, Go
<1>22. CASE ScriptFails
  BY <1>22 DEF ScriptFails, Go
<1>23. CASE UndoConfig
  BY <1>23 DEF UndoConfig, Go
<1>24. CASE ScriptRestarts
  BY <1>24 DEF ScriptRestarts, Go
<1>25. CASE PutAside
  BY <1>25 DEF PutAside, Go, Rename
<1>26. CASE BringBack
  BY <1>26 DEF BringBack, Go, Rename
<1>27. CASE Restore
  BY <1>27 DEF Restore, Go, Leave
<1>28. CASE Resumed
  BY <1>28 DEF Resumed, Leave
<1>29. ASSUME NEW n \in Names, ServiceUp(n) PROVE PositionInv'
  BY <1>29 DEF ServiceUp, ServiceStep
<1>30. ASSUME NEW n \in Names, ServiceDown(n) PROVE PositionInv'
  BY <1>30 DEF ServiceDown, ServiceStep
<1>31. ASSUME NEW n \in Names, Relaunch(n) PROVE PositionInv'
  BY <1>31 DEF Relaunch, ServiceStep
<1>32. ASSUME NEW n \in Names, Purge(n) PROVE PositionInv'
  BY <1>32 DEF Purge, ServiceStep
<1>33. CASE Done
  BY <1>33 DEF Done, vars
<1> QED
  BY <1>1, <1>2, <1>3, <1>4, <1>5, <1>6, <1>7, <1>8, <1>9, <1>10, <1>11, <1>12, <1>13,
       <1>14, <1>15, <1>16, <1>17, <1>18, <1>19, <1>20, <1>21, <1>22, <1>23, <1>24,
       <1>25, <1>26, <1>27, <1>28, <1>29, <1>30, <1>31, <1>32, <1>33 DEF Next, execute

\* Every variable keeps its type.
LEMMA TypeStep ==
  ASSUME TypeOK, PositionInv, Next
  PROVE  TypeOK'
<1> USE DEF svcVars, txVars, lockVars, TypeOK, Stops, Removes, Script, Rollback,
     Registrations
<1>1. ASSUME attempt' = attempt + 1, attempt < MaxAttempts
      PROVE  attempt' \in 0..MaxAttempts
  BY <1>1, UpgradeAssumption DEF UpgradeAssumption
<1>2. ASSUME up # "idle"
      PROVE  /\ Target \in Places
             /\ \A p \in {"staged", "backup", "failed"} : Own(p) \in Places
  BY <1>2, PlaceFacts DEF PositionInv
<1>3. Subject \in Names /\ native \in Names
  BY SubjectName DEF Names
<1>4. CASE Begin
  <2>1. snap' \in [name : Names, reg : Registrations, files : {"none", "old", "new"}, running : BOOLEAN]
    <3>1. dir[Target] \in {"none", "old", "new"}
      BY DEF Places
    <3> QED
      BY <1>4, <3>1 DEF Begin
  <2>2. script' \in [reg : Registrations, running : SUBSET Names, changed : BOOLEAN]
    BY <1>4 DEF Begin, NoLocals
  <2> QED
    BY <1>1, <1>4, <2>1, <2>2 DEF Begin
<1>5. CASE Decline
  BY <1>1, <1>5 DEF Decline
<1>6. CASE Stage
  BY <1>2, <1>6 DEF Stage, Go
<1>7. CASE StageFails
  BY <1>7 DEF StageFails, Leave
<1>8. CASE Throw
  BY <1>8 DEF Throw, Go, Leave
<1>9. CASE Kill
  BY <1>9 DEF Kill
<1>10. CASE RivalOpens
  BY <1>10 DEF RivalOpens, RivalStep
<1>11. CASE RivalTests
  <2>1. lock' = lock /\ up' = up /\ killed' = killed /\ rival' = FALSE
    BY <1>11 DEF RivalTests, RivalStep
  <2>2. moved' \in BOOLEAN /\ installed' \in BOOLEAN /\ rival' \in BOOLEAN /\ killed' \in BOOLEAN
    BY <1>11 DEF RivalTests, RivalStep
  <2>3. lock' \in {"free", "held", "abandoned"} /\ (lock' = "held" <=> up' # "idle")
    BY <1>11 DEF RivalTests, RivalStep
  <2>4. dir' \in [Places -> {"none", "old", "new"}] /\ oldKind' \in {"native", "managed"}
    BY <1>11 DEF RivalTests, RivalStep
  <2> QED
    BY <1>11, <2>1, <2>2, <2>3, <2>4 DEF RivalTests, RivalStep
<1>12. CASE RivalReports
  <2>1. lock' = "free" /\ up' = up /\ up = "idle" /\ killed' = FALSE /\ rival' = FALSE
    BY <1>12 DEF RivalReports, RivalStep
  <2>2. moved' \in BOOLEAN /\ installed' \in BOOLEAN /\ rival' \in BOOLEAN /\ killed' \in BOOLEAN
    BY <1>12 DEF RivalReports, RivalStep
  <2>3. lock' \in {"free", "held", "abandoned"} /\ (lock' = "held" <=> up' # "idle")
    BY <1>12 DEF RivalReports, RivalStep
  <2>4. dir' \in [Places -> {"none", "old", "new"}] /\ oldKind' \in {"native", "managed"}
    BY <1>12 DEF RivalReports, RivalStep
  <2> QED
    BY <1>12, <2>1, <2>2, <2>3, <2>4 DEF RivalReports, RivalStep
<1>13. CASE AskStop
  BY <1>3, <1>13 DEF AskStop, Go, PositionInv
<1>14. CASE Stopped
  BY <1>14 DEF Stopped, Go, PositionInv
<1>15. CASE Delete
  BY <1>3, <1>15 DEF Delete, Go
<1>16. CASE Gone
  <2>1. up' \in {"install", "verify", "s_restart", "rb_move"}
    BY <1>16 DEF Gone, Go, PositionInv
  <2>2. moved' \in BOOLEAN /\ installed' \in BOOLEAN /\ rival' \in BOOLEAN /\ killed' \in BOOLEAN
    BY <1>16 DEF Gone, Go, PositionInv
  <2>3. lock' \in {"free", "held", "abandoned"} /\ (lock' = "held" <=> up' # "idle")
    BY <1>16 DEF Gone, Go, PositionInv
  <2>4. dir' \in [Places -> {"none", "old", "new"}] /\ oldKind' \in {"native", "managed"}
    BY <1>16 DEF Gone, Go, PositionInv
  <2>5. /\ sub' \in {"do", "ask"} /\ outcome' = outcome
        /\ UNCHANGED <<reg, state, crashed, attempt, snap, script>>
    BY <1>16 DEF Gone, Go, PositionInv
  <2> QED
    BY <2>1, <2>2, <2>3, <2>4, <2>5
<1>17. CASE MoveOld
  BY <1>2, <1>17 DEF MoveOld, Go, Rename
<1>18. CASE MoveNew
  BY <1>2, <1>18 DEF MoveNew, Go, Rename
<1>19. CASE Validate
  BY <1>19 DEF Validate, Go
<1>20. CASE Verify
  BY <1>20 DEF Verify, Leave
<1>21. CASE Install
  BY <1>3, <1>21 DEF Install, Go
<1>22. CASE Configure
  <2>1. reg' \in [Names -> Registrations]
    BY <1>3, <1>22 DEF Configure
  <2>2. script' \in [reg : Registrations, running : SUBSET Names, changed : BOOLEAN]
    BY <1>22 DEF Configure
  <2> QED
    BY <1>22, <2>1, <2>2 DEF Configure, Go
<1>23. CASE ScriptStarts
  BY <1>3, <1>23 DEF ScriptStarts, Go, Launch
<1>24. CASE SeenRunning
  BY <1>24 DEF SeenRunning, Go
<1>25. CASE ScriptFails
  BY <1>25 DEF ScriptFails, Go
<1>26. CASE UndoConfig
  BY <1>3, <1>26 DEF UndoConfig, Go
<1>27. CASE ScriptRestarts
  BY <1>27 DEF ScriptRestarts, Go, Launch
<1>28. CASE PutAside
  BY <1>2, <1>28 DEF PutAside, Go, Rename
<1>29. CASE BringBack
  BY <1>2, <1>29 DEF BringBack, Go, Rename
<1>30. CASE Restore
  BY <1>30 DEF Restore, Go, Leave, Launch
<1>31. CASE Resumed
  BY <1>31 DEF Resumed, Leave
<1>32. ASSUME NEW n \in Names, ServiceUp(n) PROVE TypeOK'
  BY <1>32 DEF ServiceUp, ServiceStep
<1>33. ASSUME NEW n \in Names, ServiceDown(n) PROVE TypeOK'
  BY <1>33 DEF ServiceDown, ServiceStep
<1>34. ASSUME NEW n \in Names, Relaunch(n) PROVE TypeOK'
  BY <1>34 DEF Relaunch, ServiceStep, Launch
<1>35. ASSUME NEW n \in Names, Purge(n) PROVE TypeOK'
  BY <1>35 DEF Purge, ServiceStep
<1>36. CASE Done
  BY <1>36 DEF Done, vars
<1> QED
  BY <1>4, <1>5, <1>6, <1>7, <1>8, <1>9, <1>10, <1>11, <1>12, <1>13, <1>14, <1>15,
       <1>16, <1>17, <1>18, <1>19, <1>20, <1>21, <1>22, <1>23, <1>24, <1>25, <1>26,
       <1>27, <1>28, <1>29, <1>30, <1>31, <1>32, <1>33, <1>34, <1>35, <1>36 DEF Next, execute

-----------------------------------------------------------------------------
(* The directories *)

\* Where the original installation is.
LEMMA OldPlace ==
  /\ OldRecoverable <=> dir[Target] = "old" \/ \E k \in 1..MaxAttempts : dir[<<"backup", k>>] = "old"
  /\ OldRecoverable' <=> dir'[Target] = "old" \/ \E k \in 1..MaxAttempts : dir'[<<"backup", k>>] = "old"
BY DEF OldRecoverable

\* Every renaming moves what it should, and the original installation never
\* out of reach.
LEMMA DirStep ==
  ASSUME TypeOK, PositionInv, DirInv, Next
  PROVE  DirInv'
<1> USE DEF svcVars, txVars
<1>1. ASSUME dir' = dir,
             up' # "idle" => /\ up # "idle"
                             /\ UNCHANGED txVars
                             /\ up' \in {"rb_restore", "rb_start"} <=> up \in {"rb_restore", "rb_start"}
      PROVE  DirInv'
  BY <1>1, OldPlace DEF DirInv, Own
<1>2. ASSUME up # "idle"
      PROVE  /\ Target \in Places /\ attempt \in 1..MaxAttempts
             /\ \A k \in 1..MaxAttempts, p \in {"staged", "backup", "failed"} :
                  <<p, k>> \in Places /\ <<p, k>> # Target
             /\ \A p \in {"staged", "backup", "failed"} : Own(p) = <<p, attempt>>
  BY <1>2, PlaceFacts DEF PositionInv, Places, Target, Own
<1>3. CASE Begin
  <2>1. dir' = dir /\ ~moved' /\ up' = "staging" /\ dir[Target] = snap'.files
    BY <1>3 DEF Begin
  <2> QED
    BY <2>1, OldPlace DEF DirInv
<1>4. CASE Stage
  <2>1. /\ up = "staging" /\ up' = "stop" /\ ~moved /\ UNCHANGED txVars
        /\ dir' = [dir EXCEPT ![<<"staged", attempt>>] = "new"]
    BY <1>2, <1>4 DEF Stage, Go, PositionInv
  <2>2. /\ dir'[Target] = dir[Target]
        /\ \A k \in 1..MaxAttempts : /\ dir'[<<"staged", k>>] # "old"
                                     /\ dir'[<<"failed", k>>] = dir[<<"failed", k>>]
                                     /\ dir'[<<"backup", k>>] = dir[<<"backup", k>>]
    BY <1>2, <2>1 DEF TypeOK, DirInv
  <2> QED
    BY <2>1, <2>2, OldPlace DEF DirInv
<1>5. CASE MoveOld
  <2>1. /\ up = "moveOld" /\ up' = "moveNew" /\ ~moved /\ moved' /\ attempt' = attempt /\ snap' = snap
        /\ dir[<<"backup", attempt>>] = "none"
        /\ dir' = [dir EXCEPT ![<<"backup", attempt>>] = dir[Target], ![Target] = "none"]
    BY <1>2, <1>5 DEF MoveOld, Rename, Go, PositionInv
  <2>2. /\ dir'[Target] = "none" /\ dir'[<<"backup", attempt>>] = dir[Target]
        /\ \A k \in 1..MaxAttempts :
             /\ dir'[<<"staged", k>>] = dir[<<"staged", k>>]
             /\ dir'[<<"failed", k>>] = dir[<<"failed", k>>]
             /\ k # attempt => dir'[<<"backup", k>>] = dir[<<"backup", k>>]
    BY <1>2, <2>1 DEF TypeOK
  <2>3. OldRecoverable'
    BY <1>2, <2>1, <2>2, OldPlace DEF DirInv
  <2> QED
    BY <2>1, <2>2, <2>3 DEF DirInv, Own
<1>6. CASE MoveNew
  <2>1. /\ up = "moveNew" /\ up' = "validate" /\ moved /\ UNCHANGED txVars
        /\ dir[Target] = "none" /\ dir[<<"staged", attempt>>] # "old"
        /\ dir' = [dir EXCEPT ![Target] = dir[<<"staged", attempt>>], ![<<"staged", attempt>>] = "none"]
    BY <1>2, <1>6 DEF MoveNew, Rename, Go, PositionInv, DirInv
  <2>2. /\ dir'[Target] = dir[<<"staged", attempt>>]
        /\ \A k \in 1..MaxAttempts : /\ dir'[<<"staged", k>>] # "old"
                                     /\ dir'[<<"failed", k>>] = dir[<<"failed", k>>]
                                     /\ dir'[<<"backup", k>>] = dir[<<"backup", k>>]
    BY <1>2, <2>1 DEF TypeOK, DirInv
  <2>3. OldRecoverable'
    BY <2>1, <2>2, OldPlace DEF DirInv
  <2> QED
    BY <1>2, <2>1, <2>2, <2>3 DEF DirInv, Own
<1>7. CASE PutAside
  <2>1. CASE moved /\ dir[Target] # "none"
    <3>1. /\ up = "rb_move" /\ up' = "rb_back" /\ UNCHANGED txVars
          /\ dir[Target] # "old"
          /\ dir' = [dir EXCEPT ![<<"failed", attempt>>] = dir[Target], ![Target] = "none"]
      BY <1>2, <1>7, <2>1 DEF PutAside, Rename, Go, DirInv
    <3>2. /\ dir'[Target] = "none"
          /\ \A k \in 1..MaxAttempts : /\ dir'[<<"staged", k>>] = dir[<<"staged", k>>]
                                       /\ dir'[<<"failed", k>>] # "old"
                                       /\ dir'[<<"backup", k>>] = dir[<<"backup", k>>]
      BY <1>2, <3>1 DEF TypeOK, DirInv
    <3>3. OldRecoverable'
      BY <3>1, <3>2, OldPlace DEF DirInv
    <3> QED
      BY <1>2, <2>1, <3>1, <3>2, <3>3 DEF DirInv, Own
  <2>2. CASE ~(moved /\ dir[Target] # "none")
    BY <1>1, <1>7, <2>2 DEF PutAside, Go
  <2> QED
    BY <2>1, <2>2
<1>8. CASE BringBack
  <2>1. CASE moved
    <3>1. /\ up = "rb_back" /\ up' = "rb_restore" /\ UNCHANGED txVars /\ dir[Target] = "none"
          /\ dir[<<"backup", attempt>>] = snap.files
          /\ dir' = [dir EXCEPT ![Target] = dir[<<"backup", attempt>>], ![<<"backup", attempt>>] = "none"]
      BY <1>2, <1>8, <2>1 DEF BringBack, Rename, Go, DirInv
    <3>2. /\ dir'[Target] = snap.files
          /\ \A k \in 1..MaxAttempts :
               /\ dir'[<<"staged", k>>] = dir[<<"staged", k>>]
               /\ dir'[<<"failed", k>>] = dir[<<"failed", k>>]
               /\ k # attempt => dir'[<<"backup", k>>] = dir[<<"backup", k>>]
      BY <1>2, <3>1 DEF TypeOK
    <3>3. OldRecoverable'
      BY <3>1, <3>2, OldPlace DEF DirInv
    <3> QED
      BY <3>1, <3>2, <3>3 DEF DirInv
  <2>2. CASE ~moved
    <3>1. dir' = dir /\ up = "rb_back" /\ up' = "rb_restore" /\ UNCHANGED txVars
      BY <1>8, <2>2 DEF BringBack, Go
    <3> QED
      BY <2>2, <3>1, OldPlace DEF DirInv
  <2> QED
    BY <2>1, <2>2
<1>9. CASE StageFails \/ Verify \/ Resumed \/ Kill
  BY <1>1, <1>9 DEF StageFails, Verify, Resumed, Kill, Leave
<1>10. CASE Throw
  BY <1>1, <1>10 DEF Throw, Leave, Go, Rollback
<1>11. CASE Restore
  BY <1>1, <1>11 DEF Restore, Leave, Go
<1>12. CASE AskStop
  BY <1>1, <1>12 DEF AskStop, Go, PositionInv, Stops, Removes
<1>13. CASE Stopped
  BY <1>1, <1>13 DEF Stopped, Go, PositionInv, Stops, Removes
<1>14. CASE Delete
  BY <1>1, <1>14 DEF Delete, Go, PositionInv, Removes
<1>15. CASE Gone
  BY <1>1, <1>15 DEF Gone, Go, PositionInv, Removes
<1>16. CASE Validate
  BY <1>1, <1>16 DEF Validate, Go
<1>17. CASE Install
  <2>1. /\ dir' = dir /\ up = "install" /\ up' = "s_stopLegacy"
        /\ moved' = moved /\ snap' = snap /\ attempt' = attempt
    BY <1>17 DEF Install, Go
  <2> QED
    BY <2>1, OldPlace DEF DirInv, Own
<1>18. CASE Configure \/ ScriptStarts \/ SeenRunning \/ ScriptFails \/ UndoConfig \/ ScriptRestarts
  BY <1>1, <1>18 DEF Configure, ScriptStarts, SeenRunning, ScriptFails, UndoConfig, ScriptRestarts, Go
<1>19. CASE Decline \/ RivalOpens \/ RivalTests \/ RivalReports \/ Done
  BY <1>1, <1>19 DEF Decline, RivalOpens, RivalTests, RivalReports, RivalStep, Done, vars
<1>20. ASSUME NEW n \in Names, ServiceUp(n) \/ ServiceDown(n) \/ Relaunch(n) \/ Purge(n)
       PROVE  DirInv'
  BY <1>1, <1>20 DEF ServiceUp, ServiceDown, Relaunch, Purge, ServiceStep
<1> QED
  BY <1>3, <1>4, <1>5, <1>6, <1>7, <1>8, <1>9, <1>10, <1>11, <1>12, <1>13, <1>14, <1>15,
     <1>16, <1>17, <1>18, <1>19, <1>20 DEF Next, execute

-----------------------------------------------------------------------------
(* The registrations *)

\* Only what was there, or what the script has installed, is registered.
LEMMA RegStep ==
  ASSUME TypeOK, PositionInv, RegInv, Next
  PROVE  RegInv'
<1> USE DEF svcVars, txVars
<1>1. native # managed /\ native \in Names /\ managed \in Names /\ Names = {native, managed}
  BY DEF Names, native, managed
<1>2. ASSUME reg' = reg,
             up' # "idle" => /\ up # "idle" /\ snap' = snap
                             /\ installed => installed'
                             /\ ~installed' => ~installed
                             /\ up' # "verify" \/ up = "verify"
                             /\ up' # "rb_start" \/ up = "rb_start",
             up' \in Rollback \ {"rb_stop", "rb_remove"} => up \in Rollback \ {"rb_stop", "rb_remove"}
      PROVE  RegInv'
  BY <1>2 DEF RegInv
<1>3. CASE Begin
  <2>1. /\ up' = "staging" /\ reg' = reg /\ snap'.name \in Names
        /\ \A m \in Names : m # snap'.name => reg[m] = "none"
    BY <1>3 DEF Begin
  <2> QED
    BY <1>1, <2>1 DEF RegInv, Rollback
<1>4. CASE Stopped
  <2>1. CASE up = "rb_stop"
    <3>1. /\ reg' = reg /\ UNCHANGED txVars
          /\ up' = IF installed /\ snap.name # native THEN "rb_remove" ELSE "rb_move"
      BY <1>4, <2>1 DEF Stopped, Go
    <3> QED
      BY <1>1, <2>1, <3>1 DEF RegInv, Rollback
  <2>2. CASE up # "rb_stop"
    BY <1>2, <1>4, <2>2 DEF Stopped, Go, PositionInv, Stops, Removes, Rollback
  <2> QED
    BY <2>1, <2>2
<1>5. CASE Delete
  <2>1. /\ up \in Removes /\ up' = up /\ UNCHANGED txVars
        /\ \E r \in {"none", "deleting"} : /\ reg[Subject] = "none" => r = "none"
                                           /\ reg' = [reg EXCEPT ![Subject] = r]
    BY <1>5 DEF Delete, Go, PositionInv
  <2>2. \A n \in Names : reg[n] = "none" => reg'[n] = "none"
    BY <2>1, SubjectName DEF TypeOK
  <2> QED
    BY <1>1, <2>1, <2>2 DEF RegInv, Removes
<1>6. CASE Gone
  <2>1. CASE up = "rb_remove"
    <3>1. reg' = reg /\ UNCHANGED txVars /\ up' = "rb_move" /\ reg[native] = "none"
      BY <1>6, <2>1 DEF Gone, Go, Subject
    <3> QED
      BY <2>1, <3>1 DEF RegInv
  <2>2. CASE up = "s_removeLegacy"
    <3>1. reg' = reg /\ UNCHANGED txVars /\ up' = "verify" /\ reg[managed] = "none"
      BY <1>6, <2>2 DEF Gone, Go, Subject
    <3> QED
      BY <2>2, <3>1 DEF RegInv, Rollback
  <2>3. CASE up \in {"removeOld", "s_undoRemove"}
    BY <1>2, <1>6, <2>3 DEF Gone, Go, Rollback
  <2> QED
    BY <1>6, <2>1, <2>2, <2>3 DEF Gone, PositionInv, Removes
<1>7. CASE Configure \/ UndoConfig
  <2>1. /\ up \in Script /\ up' \in Script \ {"idle", "verify"} /\ UNCHANGED txVars
        /\ reg'[managed] = reg[managed]
    BY <1>1, <1>7 DEF Configure, UndoConfig, Go, Script, TypeOK
  <2>2. installed /\ up # "idle"
    BY <2>1 DEF PositionInv, Script
  <2> QED
    BY <2>1, <2>2 DEF RegInv, Script, Rollback
<1>8. CASE Restore
  <2>1. /\ up = "rb_restore" /\ up' \in {"rb_start", "idle"} /\ UNCHANGED txVars
        /\ reg' = [reg EXCEPT ![snap.name] = snap.reg] /\ snap.name \in Names
    BY <1>8 DEF Restore, Go, Leave, TypeOK
  <2>2. reg'[snap.name] = snap.reg /\ \A n \in Names : n # snap.name => reg'[n] = reg[n]
    BY <2>1 DEF TypeOK
  <2>3. up \in Rollback \ {"rb_stop", "rb_remove"} /\ up # "idle"
    BY <2>1 DEF Rollback
  <2> QED
    BY <1>1, <2>1, <2>2, <2>3 DEF RegInv
<1>9. ASSUME NEW n \in Names, Purge(n) PROVE RegInv'
  <2>1. /\ reg[n] = "deleting" /\ reg' = [reg EXCEPT ![n] = "none"]
        /\ up' = up /\ UNCHANGED txVars
    BY <1>9 DEF Purge, ServiceStep
  <2>2. \A m \in Names : reg'[m] = reg[m] \/ (m = n /\ reg'[m] = "none")
    BY <2>1 DEF TypeOK
  <2>3. up = "rb_start" => snap.reg # "deleting" /\ snap.name \in Names
    BY DEF PositionInv, TypeOK
  <2> QED
    BY <1>1, <2>1, <2>2, <2>3 DEF RegInv
<1>10. ASSUME NEW n \in Names, ServiceUp(n) \/ ServiceDown(n) \/ Relaunch(n) PROVE RegInv'
  BY <1>2, <1>10 DEF ServiceUp, ServiceDown, Relaunch, ServiceStep
<1>11. CASE Decline \/ RivalOpens \/ RivalTests \/ RivalReports \/ Done
  BY <1>2, <1>11 DEF Decline, RivalOpens, RivalTests, RivalReports, RivalStep, Done, vars
<1>12. CASE StageFails \/ Verify \/ Resumed \/ Kill
  BY <1>2, <1>12 DEF StageFails, Verify, Resumed, Kill, Leave, Rollback
<1>13. CASE Throw
  BY <1>2, <1>13 DEF Throw, Leave, Go, Rollback
<1>14. CASE AskStop
  BY <1>2, <1>14 DEF AskStop, Go, PositionInv, Stops, Removes, Rollback
<1>15. CASE Install
  <2>1. reg' = reg /\ up = "install" /\ up' = "s_stopLegacy" /\ snap' = snap /\ installed'
    BY <1>15 DEF Install, Go
  <2> QED
    BY <2>1 DEF RegInv, Rollback
<1>16. CASE Stage \/ MoveOld \/ MoveNew \/ Validate
  BY <1>2, <1>16 DEF Stage, MoveOld, MoveNew, Validate, Go, Rollback
<1>17. CASE ScriptStarts \/ SeenRunning \/ ScriptFails \/ ScriptRestarts
  BY <1>2, <1>17 DEF ScriptStarts, SeenRunning, ScriptFails, ScriptRestarts, Go, Rollback
<1>18. CASE PutAside \/ BringBack
  BY <1>2, <1>18 DEF PutAside, BringBack, Go, Rollback
<1> QED
  BY <1>3, <1>4, <1>5, <1>6, <1>7, <1>8, <1>9, <1>10, <1>11, <1>12, <1>13, <1>14, <1>15,
     <1>16, <1>17, <1>18 DEF Next, execute

-----------------------------------------------------------------------------
\* Nothing happens.
LEMMA Stutter ==
  ASSUME TypeOK, IInv, UNCHANGED vars
  PROVE  TypeOK' /\ IInv'
<1> USE DEF vars, svcVars, txVars, lockVars
<1>1. TypeOK' /\ PositionInv'
  BY DEF TypeOK, IInv, PositionInv
<1>2. DirInv' /\ RegInv'
  BY OldPlace DEF IInv, DirInv, RegInv, Own
<1> QED
  BY <1>1, <1>2 DEF IInv

\* The types and the inductive invariant: at each position of execute(), what
\* has been moved where, and which services can be registered.
THEOREM Inductive == Spec => [](TypeOK /\ IInv)
<1>1. ASSUME TypeOK, IInv, Next PROVE TypeOK' /\ IInv'
  BY <1>1, TypeStep, PositionStep, DirStep, RegStep DEF IInv
<1>2. TypeOK /\ IInv /\ [Next]_vars => TypeOK' /\ IInv'
  BY <1>1, Stutter
<1> QED
  BY InvInit, <1>2, PTL DEF Spec

\* Wherever execute() fails or is killed, and whatever later upgrades do, the
\* user's own installation can be found.
THEOREM RecoverySafety == Spec => []OldRecoverable
<1>1. IInv => OldRecoverable
  BY DEF IInv, DirInv
<1> QED
  BY Inductive, <1>1, PTL

\* Only Restore and Resumed report a restored installation, only Verify an
\* upgraded one.
LEMMA EndSteps ==
  ASSUME TypeOK, IInv, Next, NEW result \in {"restored", "upgraded"}, Ends(result)
  PROVE  \/ result = "restored" /\ (Resumed \/ (Restore /\ ~snap.running))
         \/ result = "upgraded" /\ Verify
<1> USE DEF Ends, IInv, PositionInv, TypeOK, lockVars
<1>1. up # "idle" /\ outcome = "none" /\ outcome' = result
  OBVIOUS
<1>2. ~(Begin \/ Decline \/ Done)
  BY <1>1 DEF Begin, Decline, Done
<1>3. ~(Kill \/ RivalOpens \/ RivalTests \/ RivalReports)
  BY <1>1 DEF Kill, RivalOpens, RivalTests, RivalReports, RivalStep
<1>4. \A n \in Names : ~(ServiceUp(n) \/ ServiceDown(n) \/ Relaunch(n) \/ Purge(n))
  BY <1>1 DEF ServiceUp, ServiceDown, Relaunch, Purge, ServiceStep
<1>5. ~(Stage \/ StageFails \/ Throw \/ AskStop \/ Delete)
  BY <1>1 DEF Stage, StageFails, Throw, AskStop, Delete, Go, Leave
<1>6. ~Stopped /\ ~Gone
  <2>1. Stopped => outcome' = outcome
    BY DEF Stopped, Go, Stops, Removes
  <2>2. Gone => outcome' = outcome
    BY DEF Gone, Go, Removes
  <2> QED
    BY <1>1, <2>1, <2>2
<1>7. ~(MoveOld \/ MoveNew \/ Validate \/ Install \/ PutAside \/ BringBack)
  BY <1>1 DEF MoveOld, MoveNew, Validate, Install, PutAside, BringBack, Go
<1>8. ~(Configure \/ ScriptStarts \/ SeenRunning \/ ScriptFails \/ UndoConfig \/ ScriptRestarts)
  BY <1>1 DEF Configure, ScriptStarts, SeenRunning, ScriptFails, UndoConfig, ScriptRestarts, Go
<1>9. Restore => result = "restored" /\ ~snap.running
  BY <1>1 DEF Restore, Go, Leave
<1>10. (Resumed => result = "restored") /\ (Verify => result = "upgraded")
  BY <1>1 DEF Resumed, Verify, Leave
<1> QED
  BY <1>2, <1>3, <1>4, <1>5, <1>6, <1>7, <1>8, <1>9, <1>10 DEF Next, execute

\* "Restored" is the truth, from whichever step the rollback came.
THEOREM RestoredTruth == Spec => RestoredMeansRestored
<1> DEFINE Restored ==
      Ends("restored") =>
        /\ dir'[Target] = snap.files
        /\ reg' = [n \in Names |-> IF n = snap.name THEN snap.reg ELSE "none"]
        /\ snap.running => state'[snap.name] = "running"
<1>1. ASSUME TypeOK, IInv, Next PROVE Restored
  <2> SUFFICES ASSUME Ends("restored")
               PROVE  /\ dir'[Target] = snap.files
                      /\ reg' = [n \in Names |-> IF n = snap.name THEN snap.reg ELSE "none"]
                      /\ snap.running => state'[snap.name] = "running"
    OBVIOUS
  <2>1. Resumed \/ (Restore /\ ~snap.running)
    BY <1>1, EndSteps
  <2>2. up \in {"rb_restore", "rb_start"} /\ dir' = dir
    BY <2>1 DEF Resumed, Restore
  <2>3. dir'[Target] = snap.files
    BY <1>1, <2>2 DEF IInv, DirInv
  <2>4. reg'[snap.name] = snap.reg /\ \A n \in Names : n # snap.name => reg'[n] = "none"
    <3>1. \A n \in Names : n # snap.name => reg[n] = "none"
      BY <1>1, <2>2 DEF IInv, RegInv, TypeOK, Names, Rollback, native, managed
    <3>2. CASE Resumed
      BY <1>1, <3>1, <3>2 DEF IInv, RegInv, Resumed, svcVars
    <3>3. CASE Restore
      BY <1>1, <3>1, <3>3 DEF TypeOK, Restore
    <3> QED
      BY <2>1, <3>2, <3>3
  <2>5. reg' \in [Names -> Registrations]
    BY <1>1, TypeStep DEF IInv, TypeOK
  <2>6. reg' = [n \in Names |-> IF n = snap.name THEN snap.reg ELSE "none"]
    BY <2>4, <2>5
  <2>7. snap.running => state'[snap.name] = "running"
    BY <2>1 DEF Resumed, svcVars
  <2> QED
    BY <2>3, <2>6, <2>7
<1>2. TypeOK /\ IInv /\ [Next]_vars => [Restored]_vars
  BY <1>1
<1> QED
  BY Inductive, <1>2, PTL DEF Spec, RestoredMeansRestored

\* "Upgraded" is the truth, and the snapshot's files are in the backup.
THEOREM UpgradedTruth == Spec => UpgradedMeansUpgraded
<1> DEFINE Upgraded ==
      Ends("upgraded") =>
        /\ dir'[Target] = "new" /\ dir'[Own("backup")] = snap.files
        /\ reg' = [n \in Names |-> IF n = native THEN "new" ELSE "none"]
        /\ state'[native] = "running"
<1>1. ASSUME TypeOK, IInv, Next PROVE Upgraded
  <2> SUFFICES ASSUME Ends("upgraded")
               PROVE  /\ dir'[Target] = "new" /\ dir'[Own("backup")] = snap.files
                      /\ reg' = [n \in Names |-> IF n = native THEN "new" ELSE "none"]
                      /\ state'[native] = "running"
    OBVIOUS
  <2>1. Verify
    BY <1>1, EndSteps
  <2>2. /\ up = "verify" /\ dir' = dir /\ reg' = reg /\ state' = state
        /\ dir[Target] = "new" /\ reg[native] = "new" /\ state[native] = "running"
    BY <2>1 DEF Verify, svcVars
  <2>3. dir[Own("backup")] = snap.files
    BY <1>1, <2>2 DEF IInv, PositionInv, DirInv
  <2>4. reg[managed] = "none"
    BY <1>1, <2>2 DEF IInv, RegInv
  <2>5. reg' = [n \in Names |-> IF n = native THEN "new" ELSE "none"]
    BY <1>1, <2>2, <2>4 DEF TypeOK, Names
  <2> QED
    BY <2>2, <2>3, <2>5
<1>2. TypeOK /\ IInv /\ [Next]_vars => [Upgraded]_vars
  BY <1>1
<1> QED
  BY Inductive, <1>2, PTL DEF Spec, UpgradedMeansUpgraded
=============================================================================
