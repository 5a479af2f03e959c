---------------------------- MODULE PriorityList ----------------------------
(***************************************************************************)
(* What the socket manager promises to its callers, without stamps: the   *)
(* forwarded agents as a list, newest first, and behind it the configured  *)
(* agents in the order of the configuration.                               *)
(* README.md, "Key Priority".                                              *)
(***************************************************************************)
EXTENDS Naturals, Sequences

CONSTANT Paths

VARIABLES forwarded,   \* forwarded agents, the newest at the head
          listed       \* configured agents, in the order of the configuration

vars == <<forwarded, listed>>

Occurs(p, s) == \E i \in DOMAIN s : s[i] = p

Before(s, p, q) == \E i, j \in DOMAIN s : i < j /\ s[i] = p /\ s[j] = q

Init == forwarded = <<>> /\ listed \in Seq(Paths)

(* A newly detected agent goes in front of every other one. *)
Push(p) ==
    /\ ~ Occurs(p, forwarded)
    /\ forwarded' = <<p>> \o forwarded
    /\ UNCHANGED listed

(* Agents leave; of the others each stays in front of those it was in front of. *)
Drop(gone) ==
    /\ forwarded' \in Seq(Paths)
    /\ \A p \in Paths : Occurs(p, forwarded') <=> Occurs(p, forwarded) /\ p \notin gone
    /\ \A p, q \in Paths : Before(forwarded', p, q) => Before(forwarded, p, q)
    /\ UNCHANGED listed

(* A reload replaces the configured agents and touches no forwarded one. *)
Relist ==
    /\ listed' \in Seq(Paths)
    /\ UNCHANGED forwarded

Next == (\E p \in Paths : Push(p)) \/ (\E gone \in SUBSET Paths : Drop(gone)) \/ Relist

Spec == Init /\ [][Next]_vars
=============================================================================
