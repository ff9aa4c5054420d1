------------------------------ MODULE MCDaemon ------------------------------
(* Instances of Daemon.                                                    *)
EXTENDS Daemon

CONSTANTS c1, c2, core
=============================================================================
