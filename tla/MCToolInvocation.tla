-------------------------- MODULE MCToolInvocation --------------------------
(* Instances of ToolInvocation for TLC.                                    *)
EXTENDS ToolInvocation, TLC

Policies == [t \in Tools |-> IF t = Bash THEN "ask" ELSE "allow"]

Symmetry == Permutations(Requests) \union Permutations(Sessions)

=============================================================================
