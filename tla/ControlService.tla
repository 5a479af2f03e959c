--------------------------- MODULE ControlService ---------------------------
(***************************************************************************)
(* What the control socket promises (src/control/protocol.rs): a call has  *)
(* its effect on the sockets in one step, at most once, between the call   *)
(* and its return, and the answer tells exactly what that step found and   *)
(* did.  A caller that gave up may still have its effect made.             *)
(***************************************************************************)
CONSTANTS Paths, Clients

VARIABLES tracked,     \* watched sockets
          listed,      \* configured sockets
          call         \* what each caller is at

serviceVars == <<tracked, listed, call>>

Requests ==
    [op : {"Ping", "List", "Unknown", "Garbled", "Reload", "Validate", "Health"}]
        \cup [op : {"Add", "Remove"}, path : Paths]

Idle == [at |-> "idle"]
Called(r) == [at |-> "called", request |-> r]
Abandoned(r) == [at |-> "abandoned", request |-> r]
Answered(r, a) == [at |-> "answered", request |-> r, answer |-> a]
Closed == [at |-> "closed"]

Done(shown, added, removed) ==
    [ok |-> TRUE, shown |-> shown, added |-> added, removed |-> removed]
Refused == [ok |-> FALSE, shown |-> {}, added |-> {}, removed |-> {}]

ServiceInit ==
    /\ tracked \subseteq Paths /\ listed \subseteq Paths
    /\ call = [c \in Clients |-> Idle]

-----------------------------------------------------------------------------
MovesTo(c, state) == call' = [call EXCEPT ![c] = state]

Call(c, r) == call[c] = Idle /\ MovesTo(c, Called(r)) /\ UNCHANGED <<tracked, listed>>

Return(c) ==
    /\ call[c].at = "answered"
    /\ MovesTo(c, Idle)
    /\ UNCHANGED <<tracked, listed>>

(* A caller gives up; only bytes that are no text end a call by themselves.  *)
GiveUp(c) ==
    /\ \/ call[c].at = "called" /\ MovesTo(c, Abandoned(call[c].request))
       \/ call[c] = Idle /\ MovesTo(c, Closed)
       \/ call[c] = Called([op |-> "Garbled"]) /\ MovesTo(c, Closed)
    /\ UNCHANGED <<tracked, listed>>

(* An operation names what it adds and removes; the configured sockets can   *)
(* be neither added nor removed by name.                                     *)
Allowed(r, added, removed) ==
    CASE r.op \in {"Ping", "List"}       -> added = {} /\ removed = {}
      [] r.op \in {"Validate", "Health"} -> added = {}
      [] r.op = "Reload"                 -> added \cap tracked = {}
      [] r.op = "Add"    -> added = {r.path} \ (tracked \cup listed) /\ added # {} /\ removed = {}
      [] r.op = "Remove" -> added = {} /\ removed = {r.path} \ listed /\ removed # {}
      [] OTHER -> FALSE

Outcome(r, a) ==
    \/ a = Refused /\ UNCHANGED tracked
    \/ \E added, removed \in SUBSET Paths :
          /\ Allowed(r, added, removed)
          /\ removed \subseteq tracked \cup added
          /\ tracked' = (tracked \cup added) \ removed
          /\ a = Done(IF r.op \in {"List", "Health"} THEN tracked \cup listed ELSE {},
                      added, removed)

Effect(c) ==
    /\ UNCHANGED listed
    /\ \/ /\ call[c].at = "called" /\ call'[c].at = "answered"
          /\ Outcome(call[c].request, call'[c].answer)
          /\ MovesTo(c, Answered(call[c].request, call'[c].answer))
       \/ /\ call[c].at = "abandoned"
          /\ \E a \in [ok : BOOLEAN, shown : SUBSET Paths, added : SUBSET Paths,
                       removed : SUBSET Paths] : Outcome(call[c].request, a)
          /\ MovesTo(c, Closed)

(* The watcher, the health check and SIGHUP. *)
World ==
    /\ tracked' \subseteq Paths /\ listed' \subseteq Paths
    /\ UNCHANGED call

ServiceNext ==
    \/ \E c \in Clients : (\E r \in Requests : Call(c, r)) \/ Return(c) \/ GiveUp(c) \/ Effect(c)
    \/ World

ServiceSpec == ServiceInit /\ [][ServiceNext]_serviceVars
=============================================================================
