-------------------------- MODULE CleanupProtocol --------------------------
(***************************************************************************)
(* What SessionRegistry promises its callers (main.cpp, 1905-1972), with   *)
(* locks, sockets and the loop of clean() abstracted away.                 *)
(*                                                                         *)
(* A session is live or draining, or it holds no capacity.  A cleanup is   *)
(* one atomic step: it starts a new generation and every live session      *)
(* starts draining.  Capacity is given back session by session, and a      *)
(* draining session never becomes live again.                              *)
(***************************************************************************)
EXTENDS Integers, FiniteSets

CONSTANTS Sessions,    \* the possible holders of a lease
          MaxSessions  \* SessionRegistry::max_

VARIABLES live,        \* sessions that no cleanup has touched
          draining,    \* sessions a cleanup ended that still hold capacity
          generation   \* SessionRegistry::sequence_

vars == <<live, draining, generation>>

Init == live = {} /\ draining = {} /\ generation = 0

\* reserve() hands out a lease while capacity remains.
Admit(s) ==
  /\ s \notin live \cup draining
  /\ Cardinality(live \cup draining) < MaxSessions
  /\ live' = live \cup {s}
  /\ UNCHANGED <<draining, generation>>

\* clean() as its callers see it.
Clean ==
  /\ generation' = generation + 1
  /\ draining' = draining \cup live
  /\ live' = {}

\* release() of a session that ended by itself.
Finish(s) ==
  /\ s \in live
  /\ live' = live \ {s}
  /\ UNCHANGED <<draining, generation>>

\* release() of a session that a cleanup ended.
Drain(s) ==
  /\ s \in draining
  /\ draining' = draining \ {s}
  /\ UNCHANGED <<live, generation>>

Next ==
  \/ Clean
  \/ \E s \in Sessions : Admit(s) \/ Finish(s) \/ Drain(s)

Spec == Init /\ [][Next]_vars

\* A cleanup that was started completes: every draining session leaves.
FairSpec == Spec /\ \A s \in Sessions : WF_vars(Drain(s))
=============================================================================
