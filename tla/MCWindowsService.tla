-------------------------- MODULE MCWindowsService --------------------------
(* One service over any number of starts; progress is reported at most     *)
(* MaxProgress times per start.                                            *)
EXTENDS WindowsService
=============================================================================
