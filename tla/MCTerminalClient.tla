-------------------------- MODULE MCTerminalClient --------------------------
(* Instances of TerminalClient.                                            *)
EXTENDS TerminalClient
=============================================================================
