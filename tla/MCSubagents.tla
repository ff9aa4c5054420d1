---------------------------- MODULE MCSubagents -----------------------------
(* Instances of Subagents.                                                 *)
EXTENDS Subagents
=============================================================================
