--------------------------- MODULE MCBridgeServer ---------------------------
(* Instances of BridgeServer for TLC. *)
EXTENDS BridgeServer, TLC

\* Workers, descriptors and ids are interchangeable.
Symmetry == Permutations(Workers) \cup Permutations(Fds) \cup Permutations(Sids)
=============================================================================
