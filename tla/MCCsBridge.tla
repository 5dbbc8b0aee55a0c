----------------------------- MODULE MCCsBridge -----------------------------
(* CsBridge for TLC. *)
EXTENDS CsBridge
=============================================================================
