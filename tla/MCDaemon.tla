------------------------------ MODULE MCDaemon ------------------------------
(* Instances of Daemon: the terminals are model values. *)
EXTENDS Daemon

CONSTANTS t1, t2
=============================================================================
