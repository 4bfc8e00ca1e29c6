------------------------------ MODULE MCDaemon ------------------------------
(* Two processes over the one container, each any command, again and again. *)
EXTENDS Daemon

CONSTANTS c1, c2
=============================================================================
