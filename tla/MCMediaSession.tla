--------------------------- MODULE MCMediaSession ---------------------------
(* Small instances of MediaSession: a queue of three bytes, packets of one *)
(* to four bytes (the largest never fits), so that waiting, refusing and   *)
(* timing out all happen.                                                  *)
EXTENDS MediaSession
=============================================================================
