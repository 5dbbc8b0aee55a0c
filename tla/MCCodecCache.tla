---------------------------- MODULE MCCodecCache ----------------------------
(* CodecCache for TLC. *)
EXTENDS CodecCache, TLC

\* Channels and handlers are interchangeable.
Symmetry == Permutations(Keys) \cup Permutations(Threads)
=============================================================================
