--------------------------- MODULE VideoPipeline ---------------------------
(***************************************************************************)
(* How handle_video (C++) and HandleVideo (C#) choose, replace and verify  *)
(* the pipeline of one request: SDK session and channel, probing FFmpeg    *)
(* and output FFmpeg, from the codec cache, the device's configuration, or *)
(* a probe, through the fallbacks, to the first byte sent to the browser.  *)
(*                                                                         *)
(* What the device really sends is independent of what the cache and its   *)
(* configuration say; what it answers of its channels may differ from one  *)
(* login to the next.  Every wait may end in a BridgeError.                *)
(***************************************************************************)
EXTENDS ChannelTopology

VARIABLES
  req,       \* the build, the request, and what the device says and sends
  device, ask,  \* the recorder, and the channel that is asked for
  cache,     \* the VideoCodecCache entry of the request's channel
  pc,        \* where handle_video is
  session,   \* HcSession: none, prepared, or started
  channel,   \* sdk_camera_; told: the recorder listed its analog channels
  consumed,  \* an FFmpeg has taken data, the PS header first, from its queue
  probe,     \* probe_ffmpeg is set
  ffmpeg,    \* the output FFmpeg: none, copy, software or hardware
  fresh,     \* that FFmpeg began with an unconsumed stream
  detected,  \* detected_codec
  mode,      \* output_mode
  software,  \* the force_software argument of start_pipeline
  restart,   \* restart_session_after_probe
  logins, pipelines  \* history: SDK logins and FFmpeg processes so far

asked == <<req, device, ask>>
sdkVars == <<session, channel, consumed, logins>>
ffVars  == <<probe, ffmpeg, fresh, pipelines>>
decVars == <<detected, mode, software, restart>>
vars == <<asked, cache, pc, sdkVars, ffVars, decVars>>

Known == {"h264", "h265"}

\* hardware: FfmpegHardwareAcceleration::detect found a backend (never on
\* Linux).
Requests ==
  {r \in [build : {"linux", "windows", "csharp"}, hardware : BOOLEAN, playback : BOOLEAN, speed1 : BOOLEAN,
          configured : Known \cup {"unknown"}, actual : Known \cup {"other"}] :
     /\ r.hardware => r.build # "linux"
     /\ ~r.speed1 => r.playback}

NoChannel == [number |-> Refused, told |-> FALSE]

Init ==
  /\ req \in Requests /\ device \in Devices /\ ask \in Asks
  /\ cache \in Known \cup {"none"}
  /\ pc = "prepare"
  /\ session = "none" /\ consumed = FALSE /\ logins = 0
  /\ channel = NoChannel
  /\ probe = FALSE /\ ffmpeg = "none" /\ fresh = FALSE /\ pipelines = 0
  /\ detected = "unknown" /\ mode = "transcode" /\ software = FALSE /\ restart = FALSE

-----------------------------------------------------------------------------
csharp == req.build = "csharp"

h264_copy_allowed == req.speed1 /\ (req.build # "linux" \/ ~req.playback)

\* detect_video_codec() of the fMP4 header that a copying FFmpeg writes.
detect_video_codec == IF req.actual \in Known THEN req.actual ELSE "unknown"

\* VideoCodecCache::set
Remember(c) == cache' = IF c \in Known THEN c ELSE cache

\* FfmpegProcess's transcode_plan_ for start_pipeline(mode, software).
select_plan ==
  IF mode = "copy" THEN "copy"
  ELSE IF req.hardware /\ (csharp \/ (~software /\ detected = "h265")) THEN "hardware" ELSE "software"

\* What a login finds, once.
Resolved ==
  {[number |-> resolve(read(csharp, p[1], p[2]), ask), told |-> p[2].aCount > 0] :
     p \in {q \in Logins(device) \X Configurations(device) :
             Told(device, q[1], q[2]) /\ (csharp => q[1].aStart = 1)}}

\* A new HcSession replaces the old one, logs in and resolves the channel.
Login(to) ==
  /\ session' = to
  /\ channel' \in {r \in Resolved : r.number # Refused}
  /\ consumed' = FALSE
  /\ logins' = logins + 1

Prepare ==
  /\ pc = "prepare" /\ pc' = "lookup"
  /\ Login("prepared")
  /\ UNCHANGED <<asked, cache, ffVars, decVars>>

\* BridgeError 422: the recorder has no such channel.
Refuse ==
  /\ pc = "prepare" /\ pc' = "refused"
  /\ \E r \in Resolved : r.number = Refused
  /\ UNCHANGED <<asked, cache, sdkVars, ffVars, decVars>>

UseCache ==
  /\ pc = "lookup" /\ pc' = "plan"
  /\ cache \in Known
  /\ detected' = cache
  /\ UNCHANGED <<asked, cache, sdkVars, ffVars, mode, software, restart>>

UseConfiguration ==
  /\ pc = "lookup" /\ pc' = "plan"
  /\ cache = "none" /\ req.configured # "unknown"
  /\ detected' = req.configured
  /\ Remember(req.configured)
  /\ UNCHANGED <<asked, sdkVars, ffVars, mode, software, restart>>

\* Neither knows: open the stream and let a copying FFmpeg look at it.
StartProbe ==
  /\ pc = "lookup" /\ pc' = "probing"
  /\ cache = "none" /\ req.configured = "unknown"
  /\ session' = "started" /\ consumed' = TRUE
  /\ probe' = TRUE /\ pipelines' = pipelines + 1
  /\ UNCHANGED <<asked, cache, channel, logins, ffmpeg, fresh, decVars>>

ReadProbeMutant ==
  /\ pc = "probing" /\ pc' = "plan"
  /\ detected' = detect_video_codec
  /\ Remember(detect_video_codec)
  /\ probe' = ~(detect_video_codec = "h264" /\ h264_copy_allowed)
  /\ ffmpeg' = IF probe' THEN "none" ELSE "copy"
  /\ fresh' = ~probe'
  /\ UNCHANGED <<asked, sdkVars, pipelines, mode, software, restart>>

\* A probe that may be copied becomes the output; an H.264 stream that must
\* be transcoded has lost its header to the probe and is opened again (C++).
ReadProbe ==
  /\ pc = "probing" /\ pc' = "plan"
  /\ detected' = detect_video_codec
  /\ Remember(detect_video_codec)
  /\ probe' = ~(detect_video_codec = "h264" /\ h264_copy_allowed)
  /\ ffmpeg' = IF probe' THEN "none" ELSE "copy"
  /\ fresh' = ~probe'
  /\ restart' = (detect_video_codec = "h264" /\ ~h264_copy_allowed /\ ~csharp)
  /\ UNCHANGED <<asked, sdkVars, pipelines, mode, software>>

Plan ==
  /\ pc = "plan" /\ pc' = "stopProbe"
  /\ mode' = IF detected = "h264" /\ h264_copy_allowed THEN "copy" ELSE "transcode"
  /\ UNCHANGED <<asked, cache, sdkVars, ffVars, detected, software, restart>>

StopProbeMutant ==
  /\ pc = "stopProbe" /\ pc' = "reopen"
  /\ probe' = (probe /\ ~restart)
  /\ UNCHANGED <<asked, cache, sdkVars, ffmpeg, fresh, pipelines, decVars>>

StopProbe ==
  /\ pc = "stopProbe" /\ pc' = "reopen"
  /\ probe' = FALSE
  /\ UNCHANGED <<asked, cache, sdkVars, ffmpeg, fresh, pipelines, decVars>>

Reopen ==
  /\ pc = "reopen" /\ pc' = "open"
  /\ IF restart THEN Login("prepared") ELSE UNCHANGED sdkVars
  /\ UNCHANGED <<asked, cache, ffVars, decVars>>

\* start() unless the stream is open; a reused probe goes on to its first
\* media fragment, which C# does not wait for.
Open ==
  /\ pc = "open"
  /\ pc' = IF ffmpeg = "none" THEN "launch" ELSE IF csharp THEN "verify" ELSE "await"
  /\ session' = "started"
  /\ UNCHANGED <<asked, cache, channel, consumed, logins, ffVars, decVars>>

start_pipeline ==
  /\ pc = "launch" /\ pc' = "await"
  /\ ffmpeg' = select_plan
  /\ fresh' = ~consumed /\ consumed' = TRUE
  /\ pipelines' = pipelines + 1
  /\ UNCHANGED <<asked, cache, session, channel, logins, probe, decVars>>

\* read_first_media() returns ftyp, moov, moof and mdat; in C#,
\* ReadInitialMp4() returns ftyp and moov.
MediaReady ==
  /\ pc = "await" /\ pc' = "verify"
  /\ UNCHANGED <<asked, cache, sdkVars, ffVars, decVars>>

\* A BridgeError while copying (C++): stop FFmpeg and the session ...
AbandonCopy ==
  /\ pc \in {"launch", "await"} /\ mode = "copy" /\ ~csharp
  /\ pc' = "relogin"
  /\ ffmpeg' = "none" /\ session' = "none"
  /\ UNCHANGED <<asked, cache, channel, consumed, logins, probe, fresh, pipelines, decVars>>

FallBackMutant ==
  /\ pc = "relogin" /\ pc' = "launch"
  /\ Login("started")
  /\ software' = TRUE
  /\ UNCHANGED <<asked, cache, ffVars, detected, mode, restart>>

\* ... then log in, open the stream again and transcode in software.
FallBack ==
  /\ pc = "relogin" /\ pc' = "launch"
  /\ Login("started")
  /\ mode' = "transcode" /\ software' = TRUE
  /\ UNCHANGED <<asked, cache, ffVars, detected, restart>>

\* A BridgeError of a hardware pipeline (C++): software, on the same session.
LeaveHardware ==
  /\ pc = "await" /\ ffmpeg = "hardware" /\ ~csharp
  /\ pc' = "launch"
  /\ ffmpeg' = "none"
  /\ software' = TRUE
  /\ UNCHANGED <<asked, cache, sdkVars, probe, fresh, pipelines, detected, mode, restart>>

\* The final check of what a copying FFmpeg has produced.
Verified == mode = "copy" => detect_video_codec # "h265"

AcceptMutant ==
  /\ pc = "verify" /\ pc' = "streaming"
  /\ UNCHANGED <<asked, cache, sdkVars, ffVars, decVars>>

Accept ==
  /\ pc = "verify" /\ pc' = "streaming"
  /\ Verified
  /\ UNCHANGED <<asked, cache, sdkVars, ffVars, decVars>>

\* Cache and configuration were wrong: remember it, transcode instead.
Correct ==
  /\ pc = "verify" /\ pc' = "launch"
  /\ ~Verified
  /\ detected' = "h265" /\ Remember("h265")
  /\ ffmpeg' = "none" /\ mode' = "transcode"
  /\ UNCHANGED <<asked, sdkVars, probe, fresh, pipelines, software, restart>>

\* Any other BridgeError, a client that leaves, the end of the stream:
\* ~Cleanup drops probe, output and session.
Leave ==
  /\ pc \notin {"refused", "done"} /\ pc' = "done"
  /\ probe' = FALSE /\ ffmpeg' = "none" /\ session' = "none"
  /\ UNCHANGED <<asked, cache, channel, consumed, logins, fresh, pipelines, decVars>>

Done == pc \in {"refused", "done"} /\ UNCHANGED vars

Next ==
  \/ Prepare \/ Refuse \/ UseCache \/ UseConfiguration \/ StartProbe \/ ReadProbe \/ Plan
  \/ StopProbe \/ Reopen \/ Open \/ start_pipeline \/ MediaReady \/ AbandonCopy
  \/ FallBack \/ LeaveHardware \/ Accept \/ Correct \/ Leave \/ Done

Spec == Init /\ [][Next]_vars

-----------------------------------------------------------------------------
\* What is copied to the browser is H.264, whatever cache and configuration
\* said, or a codec that is neither H.264 nor H.265 and that cache or
\* configuration called H.264, never one that a probe has seen: the final check
\* looks for H.265 only (main.cpp 2342-2344; HttpBridgeServer.cs 205-218), so
\* that such a stream is not transcoded, unlike src/README.md 20 says.  Nothing
\* is copied at another speed, and on Linux no playback.
CopyIsVerified ==
  pc = "streaming" /\ ffmpeg = "copy" =>
    /\ req.actual = "h264" \/ (req.actual = "other" /\ cache = "h264")
    /\ h264_copy_allowed

\* One FFmpeg at a time is fed from the session's queue, and only while the
\* session lives, whichever fallback is under way.  (The C# bridge waits 300 ms
\* for a pump it stops, which may outlive its FFmpeg by one packet.)
OneConsumer ==
  /\ ~(probe /\ ffmpeg # "none")
  /\ pc \in {"launch", "await", "verify", "streaming"} => ~probe
  /\ probe \/ ffmpeg # "none" => session = "started"

\* A transcoder of a stream known to be H.264 sees it from its PS header on:
\* neither the probe nor a copying FFmpeg has taken it (main.cpp 2259, 2333).
\* The C# bridge does not open the stream again.
TranscodeFromHeader ==
  ffmpeg = "software" /\ detected = "h264" /\ ~csharp => fresh

\* The fallbacks cannot chase each other: one request costs the device at
\* most two logins and the host at most three FFmpeg processes.
FallbacksBounded == logins <= 2 /\ pipelines <= 3

\* What is streamed is the channel that was asked for, after every login anew,
\* whichever of its answers the recorder leaves out; a channel that it lists
\* as disabled is not streamed; and none that it has and lists as enabled is
\* refused (main.cpp 822-900, README 123 of the C++ bridge).
StreamsWhatWasAsked ==
  LET right == Asked(device, ask)
  IN  /\ session # "none" =>
           /\ channel.number = right
           /\ channel.told => right \notin device.off
      /\ pc = "refused" => right = Refused \/ right \in device.off

-----------------------------------------------------------------------------
(***************************************************************************)
(* Types, and the inductive invariant behind the proofs.                   *)
(***************************************************************************)

Before   == {"lookup", "probing", "plan", "stopProbe", "reopen"}
Planned  == {"stopProbe", "reopen", "open", "launch", "await", "relogin", "verify", "streaming"}
NoStream == {"prepare", "refused", "relogin", "done"}

TypeOK ==
  /\ req \in Requests /\ device \in Devices /\ ask \in Asks
  /\ cache \in Known \cup {"none"}
  /\ pc \in Before \cup Planned \cup NoStream
  /\ session \in {"none", "prepared", "started"}
  /\ channel \in [number : Nat, told : BOOLEAN]
  /\ consumed \in BOOLEAN /\ probe \in BOOLEAN /\ fresh \in BOOLEAN
  /\ software \in BOOLEAN /\ restart \in BOOLEAN
  /\ ffmpeg \in {"none", "copy", "software", "hardware"}
  /\ detected \in Known \cup {"unknown"} /\ mode \in {"copy", "transcode"}
  /\ logins \in 0..2 /\ pipelines \in 0..3

\* The session and its readers, at each position of handle_video.
SessionInv ==
  /\ session = "none" <=> pc \in NoStream
  /\ pc \in {"probing", "launch", "await", "verify", "streaming"} => session = "started"
  /\ probe \/ ffmpeg # "none" => session = "started"
  /\ probe => pc \in {"probing", "plan", "stopProbe"} /\ ffmpeg = "none"
  /\ pc \in NoStream \cup {"lookup", "probing", "launch"} => ffmpeg = "none"

\* Only what may be copied is; a probe that became the output has seen H.264.
CopyInv ==
  /\ pc \in {"plan", "stopProbe", "reopen", "open"} =>
       ffmpeg = "none" \/ (ffmpeg = "copy" /\ detected = "h264" /\ h264_copy_allowed)
  /\ pc \in {"stopProbe", "reopen", "open"} =>
       (mode = "copy" <=> detected = "h264" /\ h264_copy_allowed)
  /\ mode = "copy" => pc \in Planned \cup {"done"} /\ detected = "h264" /\ h264_copy_allowed
  /\ pc \in {"await", "verify", "streaming"} => (ffmpeg = "copy" <=> mode = "copy")
  /\ pc = "streaming" => Verified
  /\ detected = "h264" => cache = "h264"
  /\ restart => ~csharp /\ ~h264_copy_allowed

\* The C++ bridge transcodes a known H.264 stream only from its header on.
HeaderInv ==
  ~csharp =>
    /\ pc = "lookup" => ~consumed
    /\ pc \in {"plan", "stopProbe", "reopen"} /\ ffmpeg = "none" /\ detected = "h264" =>
         restart \/ ~consumed
    /\ pc \in {"open", "launch"} /\ ffmpeg = "none" /\ detected = "h264" => ~consumed
    /\ ffmpeg = "hardware" => detected = "h265" /\ ~software
    /\ ffmpeg = "software" /\ detected = "h264" => fresh

\* What logins and pipelines have been spent, and how many fallbacks are left.
BudgetInv ==
  /\ pc \in {"prepare", "refused"} => logins = 0
  /\ pc = "relogin" => mode = "copy"
  /\ pc \in Before \/ mode = "copy" => logins <= 1
  /\ pc \in {"prepare", "refused", "lookup"} => pipelines = 0
  /\ pc \in Before \cup {"open"} => pipelines <= 1 /\ ~software
  /\ mode = "copy" => pipelines <= 1 /\ ~software
  /\ pc = "plan" /\ detected = "h264" /\ h264_copy_allowed => ffmpeg = "copy" \/ pipelines = 0
  /\ pc \in {"stopProbe", "reopen", "open", "launch"} /\ mode = "copy" =>
       ffmpeg = "copy" \/ pipelines = 0
  /\ pc = "prepare" => ~software
  /\ pc = "launch" => pipelines <= IF software THEN 2 ELSE 1
  /\ pc = "await" /\ ~software => pipelines <= 2

IInv == SessionInv /\ CopyInv /\ HeaderInv /\ BudgetInv /\ StreamsWhatWasAsked
=============================================================================
