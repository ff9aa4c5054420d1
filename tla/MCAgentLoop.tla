---------------------------- MODULE MCAgentLoop ----------------------------
(* Instances of AgentLoop for TLC.                                         *)
EXTENDS AgentLoop

\* Two calls in the responses of the first run: one of them can be answered
\* and the other not.
TwoThenOne == [r \in 0..MaxRuns |-> IF r = 1 THEN 2 ELSE 1]

=============================================================================
