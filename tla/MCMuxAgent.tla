----------------------------- MODULE MCMuxAgent -----------------------------
(* The multiplexing agent on two paths and two sessions. *)
EXTENDS MuxAgent

CONSTANTS a, b, r, s

ConfigA == {<<a>>}
ConfigAB == {<<a, b>>}
ConfigDrop == {<<>>, <<a>>, <<a, b>>}

Symmetric == Permutations({r, s})
=============================================================================
