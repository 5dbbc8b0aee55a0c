-------------------------- MODULE MCWindowsUpgrade --------------------------
(* Two upgrades of one installation: the second meets whatever the first   *)
(* left behind.                                                            *)
EXTENDS WindowsUpgrade
=============================================================================
