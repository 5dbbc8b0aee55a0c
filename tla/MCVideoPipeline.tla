-------------------------- MODULE MCVideoPipeline --------------------------
(* VideoPipeline for TLC: every build, request and cache entry, on three   *)
(* recorders.                                                              *)
EXTENDS VideoPipeline

\* A recorder with analog and IP channels, one for IP cameras only, and one
\* without any.
Recorders ==
  {[analog |-> 2, off |-> {2}, digital |-> 2, first |-> 5],
   [analog |-> 0, off |-> {}, digital |-> 2, first |-> 3],
   [analog |-> 2, off |-> {1}, digital |-> 0, first |-> 0]}
=============================================================================
