--------------------------- MODULE MCSocketManager ---------------------------
(* The socket manager on three paths. *)
EXTENDS SocketManager

CONSTANTS a, b, c

MCConfigs == {<<>>, <<a>>, <<b, a>>}
=============================================================================
