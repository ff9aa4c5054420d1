---------------------------- MODULE SessionLane -----------------------------
(***************************************************************************)
(* What session.send_message promises its clients, and nothing about how:  *)
(* a session is a lane that carries one run at a time.  A message is       *)
(* accepted only when the lane is free, an accepted run ends exactly once, *)
(* its run_id is never used again, and every accepted run does end.  All   *)
(* runs end together when the daemon dies.                                 *)
(***************************************************************************)
CONSTANTS Sids, Runs, None

VARIABLES
  lane,    \* the run each session carries
  ended    \* the runs that are over

vars == <<lane, ended>>

Carried == {lane[s] : s \in Sids} \ {None}

Init ==
  /\ lane = [s \in Sids |-> None]
  /\ ended = {}

Accept(s, r) ==
  /\ lane[s] = None
  /\ r \notin ended \union Carried
  /\ lane' = [lane EXCEPT ![s] = r]
  /\ UNCHANGED ended

End(s) ==
  /\ lane[s] # None
  /\ ended' = ended \union {lane[s]}
  /\ lane' = [lane EXCEPT ![s] = None]

Die ==
  /\ ended' = ended \union Carried
  /\ lane' = [s \in Sids |-> None]

Next ==
  \/ \E s \in Sids, r \in Runs : Accept(s, r)
  \/ \E s \in Sids : End(s)
  \/ Die

Spec == Init /\ [][Next]_vars /\ \A s \in Sids : WF_vars(End(s))

\* The part of Spec that does not speak of fairness.
SafeSpec == Init /\ [][Next]_vars

=============================================================================
