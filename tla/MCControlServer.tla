-------------------------- MODULE MCControlServer ---------------------------
(* The control socket with two connections and two paths. *)
EXTENDS ControlServer

CONSTANTS a, b, c, d

ConfigB == {<<>>, <<b>>}
=============================================================================
