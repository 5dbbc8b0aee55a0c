-------------------------- MODULE ChannelTopology --------------------------
(***************************************************************************)
(* NvrChannelTopology of both bridges: from what the recorder answers to   *)
(* the login and to the query of its IP channels, to the SDK channel that  *)
(* a request means.  Device and Asked are the reference: the channels that *)
(* the recorder has, and the one the request names.                        *)
(***************************************************************************)
EXTENDS Integers

CONSTANTS Devices, Cameras

ASSUME TopologyAssumption ==
  /\ Cameras \subseteq Nat
  /\ \A d \in Devices :
       /\ d.analog \in 0..64 /\ d.off \subseteq 1..d.analog
       /\ d.digital \in Nat /\ d.first \in Nat
       /\ d.digital > 0 => d.first > d.analog

MAX_CHANNUM_V30 == 64
Refused == 0   \* no SDK channel has the number 0

\* Only a digitalIndex counts from zero.
Asks == {a \in [type : {"auto", "analog", "digital", "digitalIndex"}, camera : Cameras] :
           a.type # "digitalIndex" => a.camera >= 1}

-----------------------------------------------------------------------------
(* The reference *)

Analog(d)  == 1..d.analog
Digital(d) == d.first..(d.first + d.digital - 1)

Asked(d, a) ==
  LET channel == IF a.type = "digitalIndex" THEN d.first + a.camera ELSE a.camera
      real == CASE a.type = "auto" -> Analog(d) \cup Digital(d)
                [] a.type = "analog" -> Analog(d)
                [] OTHER -> Digital(d)
  IN  IF channel \in real THEN channel ELSE Refused

\* What recorders answer: a field is 0 when it is not filled in.
Logins(d) == [aStart : {0, 1}, aCount : {d.analog}, dStart : {0, d.first}, dCount : {0, d.digital}]

NoConfiguration == [read |-> FALSE, aCount |-> 0, enabled |-> {}, dStart |-> 0, dCount |-> 0]

Configurations(d) ==
  {NoConfiguration} \cup
  [read : {TRUE}, aCount : {0, d.analog}, enabled : {{c - 1 : c \in Analog(d) \ d.off}},
   dStart : {0, d.first}, dCount : {0, d.digital}]

\* One of the two answers tells of the digital channels and where they begin.
Told(d, login, config) ==
  /\ d.digital \in {login.dCount, config.dCount}
  /\ d.first \in {login.dStart, config.dStart}

-----------------------------------------------------------------------------
(* The code *)

Larger(i, j) == IF i > j THEN i ELSE j

\* The C# bridge takes the analog start as the login gives it.
read(csharp, login, config) ==
  [aStart  |-> IF login.aCount > 0 /\ login.aStart = 0 /\ ~csharp THEN 1 ELSE login.aStart,
   aCount  |-> Larger(login.aCount, config.aCount),
   dStart  |-> IF config.dStart > 0 THEN config.dStart ELSE login.dStart,
   dCount  |-> Larger(login.dCount, config.dCount),
   enabled |-> IF config.aCount > 0 THEN config.enabled ELSE 0..(login.aCount - 1),
   config  |-> config.read]

is_analog(t, camera)  == camera \in t.aStart..(t.aStart + t.aCount - 1)
is_digital(t, camera) == camera \in t.dStart..(t.dStart + t.dCount - 1)

analog_enabled(t, camera) ==
  t.config => camera - t.aStart \in t.enabled \cap 0..(MAX_CHANNUM_V30 - 1)

enabled_analog(t, camera) == IF analog_enabled(t, camera) THEN camera ELSE Refused

resolveMutant(t, a) ==
  IF a.type = "digitalIndex" THEN IF a.camera <= t.dCount THEN t.dStart + a.camera ELSE Refused
  ELSE IF a.type # "digital" /\ is_analog(t, a.camera) THEN enabled_analog(t, a.camera)
  ELSE IF a.type # "analog" /\ is_digital(t, a.camera) THEN a.camera
  ELSE Refused

resolve(t, a) ==
  IF a.type = "digitalIndex" THEN IF a.camera < t.dCount THEN t.dStart + a.camera ELSE Refused
  ELSE IF a.type # "digital" /\ is_analog(t, a.camera) THEN enabled_analog(t, a.camera)
  ELSE IF a.type # "analog" /\ is_digital(t, a.camera) THEN a.camera
  ELSE Refused
=============================================================================
