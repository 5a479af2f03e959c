--------------------------- MODULE MCForwardWatch ---------------------------
(* Two sockets in one directory or two.  Polling looks at /tmp seldom, so     *)
(* that fewer changes make its cases.                                         *)
EXTENDS ForwardWatch

CONSTANTS a, b, d, e

NoConfig == {<<>>}
BothIn == (a :> d) @@ (b :> d)
Apart == (a :> d) @@ (b :> e)
Changes == ("smart" :> 5) @@ ("polling" :> 3)
Two == ("smart" :> 2)
None == ("smart" :> 0)
=============================================================================
