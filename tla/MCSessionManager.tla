-------------------------- MODULE MCSessionManager --------------------------
(* Instances of SessionManager for TLC.                                    *)
EXTENDS SessionManager, TLC

\* Runs, callers and sessions are interchangeable in every safety run.
Symmetry == Permutations(Runs) \union Permutations(Callers) \union Permutations(Sids)

=============================================================================
