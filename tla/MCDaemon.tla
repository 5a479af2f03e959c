------------------------------ MODULE MCDaemon ------------------------------
(* One or three instances of the daemon. *)
EXTENDS Daemon

CONSTANTS p, q, r
=============================================================================
