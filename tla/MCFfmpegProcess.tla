-------------------------- MODULE MCFfmpegProcess --------------------------
(* Small instances of FfmpegProcess: pipes of one or two packets fill up,  *)
(* so that the pump blocks on the child and the child on its reader.       *)
EXTENDS FfmpegProcess
=============================================================================
