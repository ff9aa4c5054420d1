------------------------ MODULE MCPermissionManager ------------------------
(* Instances of PermissionManager for TLC.                                 *)
EXTENDS PermissionManager, TLC

\* bash must be asked for, every other tool need not.
\* Of bash and write_file.
Policies == [t \in Tools |-> "ask"]

Symmetry == Permutations(Requests) \union Permutations(Sessions)

=============================================================================
