------------------------ MODULE VideoPipelineProofs ------------------------
(***************************************************************************)
(* Proofs about ChannelTopology and VideoPipeline, for any recorders and   *)
(* any channels asked for: what the channel resolution of both bridges     *)
(* computes, and the choice, replacement and verification of the pipeline  *)
(* of one request.                                                         *)
(***************************************************************************)
EXTENDS VideoPipeline, TLAPS

-----------------------------------------------------------------------------
(* The channel resolution. *)

\* Whatever a recorder leaves out of its answers, what is read from them
\* together is the recorder's own numbering.
LEMMA ReadTopology ==
  ASSUME NEW d \in Devices, NEW l \in Logins(d), NEW c \in Configurations(d), Told(d, l, c),
         NEW cs \in BOOLEAN, cs => l.aStart = 1
  PROVE  LET t == read(cs, l, c)
         IN  /\ t.aCount = d.analog /\ (d.analog > 0 => t.aStart = 1)
             /\ t.dCount = d.digital /\ (d.digital > 0 => t.dStart = d.first)
             /\ t.aStart \in 0..1 /\ t.dStart \in Nat
<1>1. d.analog \in 0..64 /\ d.digital \in Nat /\ d.first \in Nat
      /\ (d.digital > 0 => d.first > d.analog)
  BY TopologyAssumption DEF TopologyAssumption
<1>2. /\ l.aStart \in {0, 1} /\ l.aCount = d.analog
      /\ l.dStart \in {0, d.first} /\ l.dCount \in {0, d.digital}
  BY DEF Logins
<1>3. /\ c.aCount \in {0, d.analog} /\ c.dStart \in {0, d.first} /\ c.dCount \in {0, d.digital}
  <2>1. CASE c = NoConfiguration
    BY <2>1 DEF NoConfiguration
  <2>2. CASE c # NoConfiguration
    BY <2>2 DEF Configurations
  <2> QED
    BY <2>1, <2>2
<1>4. d.digital \in {l.dCount, c.dCount} /\ d.first \in {l.dStart, c.dStart}
  BY DEF Told
<1> QED
  BY <1>1, <1>2, <1>3, <1>4 DEF read, Larger

\* An analog channel counts as enabled unless the recorder lists its analog
\* channels, and this one among the disabled.
LEMMA AnalogEnabled ==
  ASSUME NEW d \in Devices, NEW l \in Logins(d), NEW c \in Configurations(d), Told(d, l, c),
         NEW cs \in BOOLEAN, cs => l.aStart = 1, NEW n \in Analog(d)
  PROVE  analog_enabled(read(cs, l, c), n) <=> ~(c.aCount > 0 /\ n \in d.off)
<1> DEFINE t == read(cs, l, c)
<1>1. d.analog \in 0..64 /\ n \in 1..d.analog /\ n - 1 \in 0..(MAX_CHANNUM_V30 - 1)
  BY TopologyAssumption DEF TopologyAssumption, Analog, MAX_CHANNUM_V30
<1>2. t.aStart = 1
  BY <1>1, ReadTopology
<1>3. t.config = c.read /\ t.enabled = IF c.aCount > 0 THEN c.enabled ELSE 0..(l.aCount - 1)
  BY DEF read
<1>4. CASE c = NoConfiguration
  BY <1>3, <1>4 DEF NoConfiguration, analog_enabled
<1>5. CASE c # NoConfiguration
  <2>1. c.read /\ c.enabled = {k - 1 : k \in Analog(d) \ d.off} /\ l.aCount = d.analog
    BY <1>5 DEF Configurations, Logins
  <2>2. analog_enabled(t, n) <=> n - 1 \in t.enabled
    BY <1>1, <1>2, <1>3, <2>1 DEF analog_enabled
  <2>3. CASE c.aCount > 0
    <3>1. n - 1 \in t.enabled <=> \E k \in Analog(d) \ d.off : n - 1 = k - 1
      BY <1>3, <2>1, <2>3
    <3>2. \A k \in Analog(d) : n - 1 = k - 1 <=> n = k
      BY <1>1 DEF Analog
    <3> QED
      BY <2>2, <2>3, <3>1, <3>2
  <2>4. CASE ~(c.aCount > 0)
    <3>1. t.enabled = 0..(d.analog - 1)
      BY <1>3, <2>1, <2>4
    <3>2. n - 1 \in 0..(d.analog - 1)
      BY <1>1
    <3> QED
      BY <2>2, <2>4, <3>1, <3>2
  <2> QED
    BY <2>3, <2>4
<1> QED
  BY <1>4, <1>5

\* resolve() finds the channel that the request names, or refuses it: because
\* the recorder has none, or because it lists it as disabled.
LEMMA ResolveCorrect ==
  ASSUME NEW d \in Devices, NEW a \in Asks,
         NEW l \in Logins(d), NEW c \in Configurations(d), Told(d, l, c),
         NEW cs \in BOOLEAN, cs => l.aStart = 1
  PROVE  resolve(read(cs, l, c), a) =
           IF c.aCount > 0 /\ Asked(d, a) \in d.off THEN Refused ELSE Asked(d, a)
<1> DEFINE t == read(cs, l, c)
<1>1. /\ d.analog \in 0..64 /\ d.digital \in Nat /\ d.first \in Nat /\ d.off \subseteq 1..d.analog
      /\ (d.digital > 0 => d.first > d.analog)
  BY TopologyAssumption DEF TopologyAssumption
<1>2. /\ a.camera \in Nat /\ a.type \in {"auto", "analog", "digital", "digitalIndex"}
      /\ (a.type # "digitalIndex" => a.camera >= 1)
  BY TopologyAssumption DEF TopologyAssumption, Asks
<1>3. /\ t.aCount = d.analog /\ (d.analog > 0 => t.aStart = 1)
      /\ t.dCount = d.digital /\ (d.digital > 0 => t.dStart = d.first)
      /\ t.aStart \in 0..1 /\ t.dStart \in Nat
  BY ReadTopology
<1>4. is_analog(t, a.camera) <=> a.camera \in Analog(d) \/ (a.camera = 0 /\ t.aStart = 0 /\ d.analog > 0)
  BY <1>1, <1>2, <1>3 DEF is_analog, Analog
<1>5. a.camera >= 1 => (is_analog(t, a.camera) <=> a.camera \in Analog(d))
  BY <1>4
<1>6. is_digital(t, a.camera) <=> a.camera \in Digital(d)
  BY <1>1, <1>2, <1>3 DEF is_digital, Digital
<1>7. \A n \in Digital(d) : n \notin d.off /\ n \notin Analog(d)
  BY <1>1 DEF Digital, Analog
<1> HIDE DEF t
<1>8. CASE a.type = "digitalIndex"
  <2>1. Asked(d, a) = IF a.camera < d.digital THEN d.first + a.camera ELSE Refused
    BY <1>1, <1>2, <1>8 DEF Asked, Digital
  <2>2. resolve(t, a) = Asked(d, a)
    BY <1>1, <1>2, <1>3, <1>8, <2>1 DEF resolve
  <2>3. Asked(d, a) \notin d.off
    BY <1>1, <1>2, <2>1 DEF Refused
  <2> QED
    BY <2>2, <2>3 DEF t
<1>9. CASE a.type # "digitalIndex"
  <2>1. CASE a.type # "digital" /\ a.camera \in Analog(d)
    <3>1. Asked(d, a) = a.camera
      BY <1>2, <1>9, <2>1 DEF Asked
    <3>2. resolve(t, a) = enabled_analog(t, a.camera)
      BY <1>2, <1>5, <1>9, <2>1 DEF resolve
    <3>3. analog_enabled(t, a.camera) <=> ~(c.aCount > 0 /\ a.camera \in d.off)
      BY <2>1, AnalogEnabled DEF t
    <3> QED
      BY <3>1, <3>2, <3>3 DEF enabled_analog, t
  <2>2. CASE a.type # "analog" /\ a.camera \in Digital(d)
    <3>1. a.camera \notin d.off /\ a.camera \notin Analog(d)
      BY <1>7, <2>2
    <3>2. Asked(d, a) = a.camera
      BY <1>2, <1>9, <2>2 DEF Asked
    <3>3. resolve(t, a) = a.camera
      BY <1>2, <1>5, <1>6, <1>9, <2>2, <3>1 DEF resolve
    <3> QED
      BY <3>1, <3>2, <3>3 DEF t
  <2>3. CASE /\ ~(a.type # "digital" /\ a.camera \in Analog(d))
             /\ ~(a.type # "analog" /\ a.camera \in Digital(d))
    <3>1. Asked(d, a) = Refused
      BY <1>2, <1>9, <2>3 DEF Asked
    <3>2. resolve(t, a) = Refused
      BY <1>2, <1>5, <1>6, <1>9, <2>3 DEF resolve
    <3> QED
      BY <3>1, <3>2 DEF t
  <2> QED
    BY <2>1, <2>2, <2>3
<1> QED
  BY <1>8, <1>9

-----------------------------------------------------------------------------
(* Choice, replacement and verification of the pipeline. *)

\* Every login finds what the request asks for.
LEMMA ResolvedIsAsked ==
  ASSUME TypeOK, NEW r \in Resolved
  PROVE  /\ r.number \in Nat /\ r.told \in BOOLEAN
         /\ r = [number |-> r.number, told |-> r.told]
         /\ r.number # Refused =>
              r.number = Asked(device, ask) /\ (r.told => Asked(device, ask) \notin device.off)
         /\ r.number = Refused => Asked(device, ask) = Refused \/ Asked(device, ask) \in device.off
<1>1. PICK l \in Logins(device), c \in Configurations(device) :
        /\ Told(device, l, c) /\ (csharp => l.aStart = 1)
        /\ r = [number |-> resolve(read(csharp, l, c), ask), told |-> c.aCount > 0]
  BY DEF Resolved
<1>2. device \in Devices /\ ask \in Asks /\ csharp \in BOOLEAN
  BY DEF TypeOK, csharp
<1>3. resolve(read(csharp, l, c), ask) =
        IF c.aCount > 0 /\ Asked(device, ask) \in device.off THEN Refused ELSE Asked(device, ask)
  BY <1>1, <1>2, ResolveCorrect
<1>4. Asked(device, ask) \in Nat
  <2>1. ask.camera \in Nat /\ device.first \in Nat
    BY <1>2, TopologyAssumption DEF TopologyAssumption, Asks
  <2> QED
    BY <2>1 DEF Asked, Refused
<1>5. r.number = resolve(read(csharp, l, c), ask) /\ r.told = (c.aCount > 0)
  BY <1>1
<1>6. r.told \in BOOLEAN
  BY <1>5
<1>7. r = [number |-> r.number, told |-> r.told]
  BY <1>1
<1>8. r.told <=> c.aCount > 0
  BY <1>5
<1> QED
  BY <1>3, <1>4, <1>5, <1>6, <1>7, <1>8 DEF Refused

\* What a new session streams.
LEMMA LoginStep ==
  ASSUME TypeOK, NEW to, Login(to)
  PROVE  /\ channel' \in [number : Nat, told : BOOLEAN]
         /\ channel'.number = Asked(device, ask)
         /\ channel'.told => Asked(device, ask) \notin device.off
BY ResolvedIsAsked DEF Login

\* A request that has done nothing yet.
LEMMA InvInit == Init => TypeOK /\ IInv
<1> SUFFICES ASSUME Init PROVE TypeOK /\ IInv
  OBVIOUS
<1>1. TypeOK
  <2>1. logins \in 0..2 /\ pipelines \in 0..3
    BY DEF Init
  <2>2. channel \in [number : Nat, told : BOOLEAN]
    BY DEF Init, NoChannel, Refused
  <2>3. /\ consumed \in BOOLEAN /\ probe \in BOOLEAN /\ fresh \in BOOLEAN
        /\ software \in BOOLEAN /\ restart \in BOOLEAN
    BY DEF Init
  <2> QED
    BY <2>1, <2>2, <2>3 DEF Init, TypeOK, Known, NoStream
<1>2. SessionInv /\ CopyInv
  BY DEF Init, SessionInv, CopyInv, Before, Planned, NoStream
<1>3. HeaderInv /\ BudgetInv
  BY DEF Init, HeaderInv, BudgetInv, Before
<1>4. StreamsWhatWasAsked
  BY DEF Init, StreamsWhatWasAsked
<1> QED
  BY <1>1, <1>2, <1>3, <1>4 DEF IInv

\* Every action leaves a session to each reader, and no reader behind when it
\* drops the session.
LEMMA SessionStep ==
  ASSUME TypeOK, SessionInv, CopyInv, Next
  PROVE  SessionInv'
<1> USE DEF asked, sdkVars, ffVars, decVars, SessionInv, CopyInv, csharp,
         h264_copy_allowed, TypeOK, Before, Planned, NoStream
<1>1. CASE Prepare
  BY <1>1 DEF Prepare, Login
<1>2. CASE Refuse
  BY <1>2 DEF Refuse
<1>3. CASE UseCache
  BY <1>3 DEF UseCache
<1>4. CASE UseConfiguration
  BY <1>4 DEF UseConfiguration, Remember
<1>5. CASE StartProbe
  BY <1>5 DEF StartProbe
<1>6. CASE ReadProbe
  BY <1>6 DEF ReadProbe, Remember, detect_video_codec
<1>7. CASE Plan
  BY <1>7 DEF Plan
<1>8. CASE StopProbe
  BY <1>8 DEF StopProbe
<1>9. CASE Reopen
  BY <1>9 DEF Reopen, Login
<1>10. CASE Open
  BY <1>10 DEF Open
<1>11. CASE start_pipeline
  BY <1>11 DEF start_pipeline, select_plan
<1>12. CASE MediaReady
  BY <1>12 DEF MediaReady
<1>13. CASE AbandonCopy
  BY <1>13 DEF AbandonCopy
<1>14. CASE FallBack
  BY <1>14 DEF FallBack, Login
<1>15. CASE LeaveHardware
  BY <1>15 DEF LeaveHardware
<1>16. CASE Accept
  BY <1>16 DEF Accept, Verified, detect_video_codec
<1>17. CASE Correct
  BY <1>17 DEF Correct, Verified, Remember, detect_video_codec
<1>18. CASE Leave
  BY <1>18 DEF Leave
<1>19. CASE Done
  BY <1>19 DEF Done, vars
<1> QED
  BY <1>1, <1>2, <1>3, <1>4, <1>5, <1>6, <1>7, <1>8, <1>9, <1>10, <1>11, <1>12,
     <1>13, <1>14, <1>15, <1>16, <1>17, <1>18, <1>19 DEF Next

\* Only H.264 that may be copied is copied, through every replacement of the
\* pipeline.
LEMMA CopyStep ==
  ASSUME TypeOK, SessionInv, CopyInv, Next
  PROVE  CopyInv'
<1> USE DEF asked, sdkVars, ffVars, decVars, CopyInv, SessionInv, TypeOK, Known,
         Before, Planned, NoStream, Verified, detect_video_codec,
         h264_copy_allowed, csharp
<1>1. CASE Prepare
  BY <1>1 DEF Prepare, Login
<1>2. CASE Refuse
  BY <1>2 DEF Refuse
<1>3. CASE UseCache
  BY <1>3 DEF UseCache
<1>4. CASE UseConfiguration
  BY <1>4 DEF UseConfiguration, Remember
<1>5. CASE StartProbe
  BY <1>5 DEF StartProbe
<1>6. CASE ReadProbe
  BY <1>6 DEF ReadProbe, Remember
<1>7. CASE Plan
  BY <1>7 DEF Plan
<1>8. CASE StopProbe
  BY <1>8 DEF StopProbe
<1>9. CASE Reopen
  BY <1>9 DEF Reopen, Login
<1>10. CASE Open
  BY <1>10 DEF Open
<1>11. CASE start_pipeline
  BY <1>11 DEF start_pipeline, select_plan
<1>12. CASE MediaReady
  BY <1>12 DEF MediaReady
<1>13. CASE AbandonCopy
  BY <1>13 DEF AbandonCopy
<1>14. CASE FallBack
  BY <1>14 DEF FallBack, Login
<1>15. CASE LeaveHardware
  BY <1>15 DEF LeaveHardware
<1>16. CASE Accept
  BY <1>16 DEF Accept
<1>17. CASE Correct
  BY <1>17 DEF Correct, Remember
<1>18. CASE Leave
  BY <1>18 DEF Leave
<1>19. CASE Done
  BY <1>19 DEF Done, vars
<1> QED
  BY <1>1, <1>2, <1>3, <1>4, <1>5, <1>6, <1>7, <1>8, <1>9, <1>10, <1>11, <1>12,
     <1>13, <1>14, <1>15, <1>16, <1>17, <1>18, <1>19 DEF Next

\* A software pipeline for H.264 (C++) is started on an unconsumed stream only.
LEMMA HeaderStep ==
  ASSUME TypeOK, SessionInv, CopyInv, HeaderInv, Next
  PROVE  HeaderInv'
<1> USE DEF asked, sdkVars, ffVars, decVars, HeaderInv, CopyInv, SessionInv,
         TypeOK, Known, csharp, h264_copy_allowed, NoStream, Planned, Before
<1>1. CASE Prepare
  BY <1>1 DEF Prepare, Login
<1>2. CASE Refuse
  BY <1>2 DEF Refuse
<1>3. CASE UseCache
  BY <1>3 DEF UseCache
<1>4. CASE UseConfiguration
  BY <1>4 DEF UseConfiguration, Remember
<1>5. CASE StartProbe
  BY <1>5 DEF StartProbe
<1>6. CASE ReadProbe
  BY <1>6 DEF ReadProbe, Remember, detect_video_codec
<1>7. CASE Plan
  BY <1>7 DEF Plan
<1>8. CASE StopProbe
  BY <1>8 DEF StopProbe
<1>9. CASE Reopen
  BY <1>9 DEF Reopen, Login
<1>10. CASE Open
  BY <1>10 DEF Open
<1>11. CASE start_pipeline
  BY <1>11 DEF start_pipeline, select_plan
<1>12. CASE MediaReady
  BY <1>12 DEF MediaReady
<1>13. CASE AbandonCopy
  BY <1>13 DEF AbandonCopy
<1>14. CASE FallBack
  BY <1>14 DEF FallBack, Login
<1>15. CASE LeaveHardware
  BY <1>15 DEF LeaveHardware
<1>16. CASE Accept
  BY <1>16 DEF Accept, Verified, detect_video_codec
<1>17. CASE Correct
  BY <1>17 DEF Correct, Verified, Remember, detect_video_codec
<1>18. CASE Leave
  BY <1>18 DEF Leave
<1>19. CASE Done
  BY <1>19 DEF Done, vars
<1> QED
  BY <1>1, <1>2, <1>3, <1>4, <1>5, <1>6, <1>7, <1>8, <1>9, <1>10, <1>11, <1>12,
     <1>13, <1>14, <1>15, <1>16, <1>17, <1>18, <1>19 DEF Next

\* Every action keeps within what is left of the logins and FFmpeg processes.
LEMMA BudgetStep ==
  ASSUME TypeOK, SessionInv, CopyInv, HeaderInv, BudgetInv, Next
  PROVE  logins' \in 0..2 /\ pipelines' \in 0..3 /\ BudgetInv'
<1> USE DEF asked, sdkVars, ffVars, decVars, BudgetInv, SessionInv, CopyInv,
         HeaderInv, TypeOK, Known, Before, Planned, NoStream, h264_copy_allowed,
         csharp
<1>1. CASE Prepare
  BY <1>1 DEF Prepare, Login
<1>2. CASE Refuse
  BY <1>2 DEF Refuse
<1>3. CASE UseCache
  BY <1>3 DEF UseCache
<1>4. CASE UseConfiguration
  BY <1>4 DEF UseConfiguration, Remember
<1>5. CASE StartProbe
  BY <1>5 DEF StartProbe
<1>6. CASE ReadProbe
  BY <1>6 DEF ReadProbe, Remember, detect_video_codec
<1>7. CASE Plan
  BY <1>7 DEF Plan
<1>8. CASE StopProbe
  BY <1>8 DEF StopProbe
<1>9. CASE Reopen
  BY <1>9 DEF Reopen, Login
<1>10. CASE Open
  BY <1>10 DEF Open
<1>11. CASE start_pipeline
  BY <1>11 DEF start_pipeline, select_plan
<1>12. CASE MediaReady
  BY <1>12 DEF MediaReady
<1>13. CASE AbandonCopy
  BY <1>13 DEF AbandonCopy
<1>14. CASE FallBack
  BY <1>14 DEF FallBack, Login
<1>15. CASE LeaveHardware
  BY <1>15 DEF LeaveHardware
<1>16. CASE Accept
  BY <1>16 DEF Accept, Verified, detect_video_codec
<1>17. CASE Correct
  BY <1>17 DEF Correct, Verified, Remember, detect_video_codec
<1>18. CASE Leave
  BY <1>18 DEF Leave
<1>19. CASE Done
  BY <1>19 DEF Done, vars
<1> QED
  BY <1>1, <1>2, <1>3, <1>4, <1>5, <1>6, <1>7, <1>8, <1>9, <1>10, <1>11, <1>12,
     <1>13, <1>14, <1>15, <1>16, <1>17, <1>18, <1>19 DEF Next

\* Every variable keeps its type.
LEMMA TypeStep ==
  ASSUME TypeOK, SessionInv, CopyInv, HeaderInv, BudgetInv, Next
  PROVE  TypeOK'
<1>1. logins' \in 0..2 /\ pipelines' \in 0..3
  BY BudgetStep
<1>2. /\ consumed' \in BOOLEAN /\ probe' \in BOOLEAN /\ fresh' \in BOOLEAN
      /\ software' \in BOOLEAN /\ restart' \in BOOLEAN
  BY DEF Next, Prepare, Refuse, UseCache, UseConfiguration, StartProbe, ReadProbe, Plan,
         StopProbe, Reopen, Open, start_pipeline, MediaReady, AbandonCopy, FallBack,
         LeaveHardware, Accept, Correct, Leave, Done, TypeOK, Login, sdkVars, ffVars, decVars, vars
<1>3. channel' \in [number : Nat, told : BOOLEAN]
  <2>1. CASE \E to \in {"prepared", "started"} : Login(to)
    BY <2>1, LoginStep
  <2>2. CASE channel' = channel
    BY <2>2 DEF TypeOK
  <2>3. CASE Prepare \/ FallBack \/ Reopen
    BY <2>1, <2>2, <2>3 DEF Prepare, FallBack, Reopen, sdkVars
  <2> QED
    BY <2>2, <2>3 DEF Next, Refuse, UseCache, UseConfiguration, StartProbe, ReadProbe, Plan,
         StopProbe, Open, start_pipeline, MediaReady, AbandonCopy, LeaveHardware,
         Accept, Correct, Leave, Done, sdkVars, vars
<1>4. req' \in Requests /\ device' \in Devices /\ ask' \in Asks
  BY DEF Next, Prepare, Refuse, UseCache, UseConfiguration, StartProbe, ReadProbe, Plan,
         StopProbe, Reopen, Open, start_pipeline, MediaReady, AbandonCopy, FallBack,
         LeaveHardware, Accept, Correct, Leave, Done, TypeOK, asked, vars
<1>5. pc' \in Before \cup Planned \cup NoStream
  BY DEF Next, Prepare, Refuse, UseCache, UseConfiguration, StartProbe, ReadProbe, Plan,
         StopProbe, Reopen, Open, start_pipeline, MediaReady, AbandonCopy, FallBack,
         LeaveHardware, Accept, Correct, Leave, Done, TypeOK, Before, Planned, NoStream, vars
<1>6. /\ session' \in {"none", "prepared", "started"}
      /\ ffmpeg' \in {"none", "copy", "software", "hardware"}
      /\ mode' \in {"copy", "transcode"}
  BY DEF Next, Prepare, Refuse, UseCache, UseConfiguration, StartProbe, ReadProbe, Plan,
         StopProbe, Reopen, Open, start_pipeline, MediaReady, AbandonCopy, FallBack,
         LeaveHardware, Accept, Correct, Leave, Done, TypeOK, Login, select_plan, sdkVars, ffVars, decVars, vars
<1>7. cache' \in Known \cup {"none"} /\ detected' \in Known \cup {"unknown"}
  BY DEF Next, Prepare, Refuse, UseCache, UseConfiguration, StartProbe, ReadProbe, Plan,
         StopProbe, Reopen, Open, start_pipeline, MediaReady, AbandonCopy, FallBack,
         LeaveHardware, Accept, Correct, Leave, Done, TypeOK, Requests, Remember, detect_video_codec, Known, decVars, vars
<1> QED
  BY <1>1, <1>2, <1>3, <1>4, <1>5, <1>6, <1>7 DEF TypeOK

\* The session, whenever there is one, streams the channel asked for.
LEMMA ChannelStep ==
  ASSUME TypeOK, SessionInv, StreamsWhatWasAsked, Next
  PROVE  StreamsWhatWasAsked'
<1>1. device' = device /\ ask' = ask
  BY DEF Next, Prepare, Refuse, UseCache, UseConfiguration, StartProbe, ReadProbe, Plan,
         StopProbe, Reopen, Open, start_pipeline, MediaReady, AbandonCopy, FallBack,
         LeaveHardware, Accept, Correct, Leave, Done, asked, vars
<1>2. CASE Refuse
  <2>1. Asked(device, ask) = Refused \/ Asked(device, ask) \in device.off
    BY <1>2, ResolvedIsAsked DEF Refuse
  <2> QED
    BY <1>1, <1>2, <2>1 DEF Refuse, sdkVars, StreamsWhatWasAsked
<1>3. CASE Prepare \/ FallBack \/ (Reopen /\ restart)
  <2>1. PICK to \in {"prepared", "started"} : Login(to)
    BY <1>3 DEF Prepare, FallBack, Reopen
  <2>2. pc' # "refused"
    BY <1>3 DEF Prepare, FallBack, Reopen
  <2> QED
    BY <1>1, <2>1, <2>2, LoginStep DEF StreamsWhatWasAsked
<1>4. ASSUME channel' = channel, session' # "none" => session # "none",
             pc' = "refused" => pc = "refused"
      PROVE  StreamsWhatWasAsked'
  BY <1>1, <1>4 DEF StreamsWhatWasAsked
<1>5. CASE Reopen /\ ~restart
  BY <1>4, <1>5 DEF Reopen, sdkVars
<1>6. CASE StartProbe \/ Open
  BY <1>4, <1>6 DEF StartProbe, Open, SessionInv, NoStream
<1>7. CASE UseCache \/ UseConfiguration \/ ReadProbe \/ Plan \/ StopProbe \/ start_pipeline
  BY <1>4, <1>7 DEF UseCache, UseConfiguration, ReadProbe, Plan, StopProbe, start_pipeline, sdkVars
<1>8. CASE MediaReady \/ AbandonCopy \/ LeaveHardware \/ Accept \/ Correct \/ Leave \/ Done
  BY <1>4, <1>8 DEF MediaReady, AbandonCopy, LeaveHardware, Accept, Correct, Leave, Done,
                    sdkVars, vars
<1> QED
  BY <1>2, <1>3, <1>5, <1>6, <1>7, <1>8 DEF Next

\* Nothing happens.
LEMMA Stutter ==
  ASSUME TypeOK, IInv, UNCHANGED vars
  PROVE  TypeOK' /\ IInv'
BY DEF vars, asked, sdkVars, ffVars, decVars, TypeOK, IInv, SessionInv, CopyInv, HeaderInv,
       BudgetInv, StreamsWhatWasAsked, csharp, h264_copy_allowed, Verified, detect_video_codec

\* The types and the inductive invariant: where handle_video is determines
\* which readers there are, what may be copied, what a software pipeline has
\* before it, and how many logins and FFmpeg processes have been spent.
THEOREM Inductive == Spec => [](TypeOK /\ IInv)
<1>1. ASSUME TypeOK, IInv, Next PROVE TypeOK' /\ IInv'
  BY <1>1, TypeStep, SessionStep, CopyStep, HeaderStep, BudgetStep, ChannelStep DEF IInv
<1>2. TypeOK /\ IInv /\ [Next]_vars => TypeOK' /\ IInv'
  BY <1>1, Stutter
<1> QED
  BY InvInit, <1>2, PTL DEF Spec

-----------------------------------------------------------------------------
(* What the inductive invariant gives, at every recorder. *)

\* handle_video verifies a copying FFmpeg's own header before its first byte
\* is sent: what is copied is H.264, or a codec that the check does not know and
\* that cache or configuration called H.264.
THEOREM CopySafety == Spec => []CopyIsVerified
<1>1. TypeOK /\ IInv => CopyIsVerified
  BY DEF TypeOK, Requests, IInv, CopyInv, CopyIsVerified, Verified, detect_video_codec, Known
<1> QED
  BY Inductive, <1>1, PTL

\* Probe and output FFmpeg are never fed at once, and neither outlives the
\* HcSession that feeds it, through all fallbacks.
THEOREM ConsumerSafety == Spec => []OneConsumer
<1>1. IInv => OneConsumer
  BY DEF IInv, SessionInv, OneConsumer
<1> QED
  BY Inductive, <1>1, PTL

\* handle_video opens the stream again before it transcodes an H.264 stream
\* whose PS header a probe or a copying FFmpeg has taken.
THEOREM HeaderSafety == Spec => []TranscodeFromHeader
<1>1. IInv => TranscodeFromHeader
  BY DEF IInv, HeaderInv, TranscodeFromHeader
<1> QED
  BY Inductive, <1>1, PTL

\* The fallbacks of one request end after two logins and three processes.
THEOREM BudgetSafety == Spec => []FallbacksBounded
<1>1. TypeOK => FallbacksBounded
  BY DEF TypeOK, FallbacksBounded
<1> QED
  BY Inductive, <1>1, PTL

\* What is streamed is the channel asked for, at every recorder and whatever
\* it leaves out of the answers to each login.
THEOREM ChannelSafety == Spec => []StreamsWhatWasAsked
<1>1. IInv => StreamsWhatWasAsked
  BY DEF IInv
<1> QED
  BY Inductive, <1>1, PTL
=============================================================================
