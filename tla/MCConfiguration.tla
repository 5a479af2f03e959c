--------------------------- MODULE MCConfiguration ---------------------------
(* Two agents; files with and without a list in every state, and command      *)
(* lines that give a list and none.                                           *)
EXTENDS Configuration

CONSTANTS x, y

Text(state, agents) == [state |-> state, agents |-> agents]

MCFiles ==
    {Blank("absent"), Blank("garbled"), Blank("whole"),
     Text("whole", <<x, y>>), Text("whole", <<y>>), Text("whole", <<>>),
     Text("mistyped", <<y>>), Text("mistyped", Unset), Text("homeless", <<x>>)}

MCCommandLines == {Unset, <<x>>, <<y, x>>}
=============================================================================
