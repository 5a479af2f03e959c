---------------------------- MODULE SocketManager ----------------------------
(***************************************************************************)
(* The socket manager (src/socket_manager.rs): the configured upstream    *)
(* sockets, the watched ones with the wall-clock stamp each got when it    *)
(* was added, and the priority order built from both.  Every task of the   *)
(* daemon shares it behind a mutex that no task keeps across an await, so  *)
(* each operation is one step.                                             *)
(***************************************************************************)
EXTENDS Integers, FiniteSets, Sequences, SequencesExt, Functions

CONSTANTS Paths,         \* paths a socket may have
          Configs,       \* values the configured list may take
          MaxStamp,      \* bound: the largest stamp the clock gives
          StrictClock    \* TRUE: each reading of the clock exceeds the last

ASSUME ManagerAssumption ==
    /\ IsFiniteSet(Paths)
    /\ Configs \subseteq Seq(Paths)
    /\ MaxStamp \in Nat
    /\ StrictClock \in BOOLEAN

VARIABLES configured,    \* configured_sockets
          watched,       \* watched_sockets: path |-> created_at
          clock,         \* last value SystemTime::now() gave
          onDisk         \* paths at which a socket file exists (the file system's)

managerVars == <<configured, watched, clock, onDisk>>
managerState == <<configured, watched, clock>>

Stamps == 0 .. MaxStamp

(* The configured list is always one that the configuration gave, the watched *)
(* sockets are paths, and each has a stamp (update_configured, add_watched).  *)
ManagerTypeOK ==
    /\ configured \in Configs
    /\ \E known \in SUBSET Paths : watched \in [known -> Stamps]
    /\ clock \in Stamps
    /\ onDisk \subseteq Paths

ManagerInit ==
    /\ configured \in Configs
    /\ watched = [p \in {} |-> 0]
    /\ clock = 0
    /\ onDisk \in SUBSET Paths

-----------------------------------------------------------------------------
(* The list a caller gets: the watched sockets, newest first, then the       *)
(* configured ones.  The sort is stable over a hash map's arbitrary order,   *)
(* so equal stamps come out in either order; nothing is deduplicated.        *)

\* Mutant: the comparison of the sort is the wrong way round.
OldestFirst ==
    { order \in SetToSeqs(DOMAIN watched) :
        \A i, j \in DOMAIN order : i < j => watched[order[i]] <= watched[order[j]] }

NewestFirst ==
    { order \in SetToSeqs(DOMAIN watched) :
        \A i, j \in DOMAIN order : i < j => watched[order[i]] >= watched[order[j]] }

OrderedSockets == { order \o configured : order \in NewestFirst }

IsWatched(p) == p \in DOMAIN watched
IsConfigured(p) == \E i \in DOMAIN configured : configured[i] = p

-----------------------------------------------------------------------------
(* SystemTime is not monotonic: two readings may be equal, and a corrected   *)
(* clock steps back.                                                         *)
Now == Stamps \cap (IF StrictClock THEN {clock + 1} ELSE (clock - 1) .. (clock + 1))

(* add_watched adds at most once: a path already watched keeps its stamp. *)
AddWatched(p) ==
    /\ ~ IsWatched(p)
    /\ \E t \in Now :
        /\ watched' = [q \in DOMAIN watched \cup {p} |-> IF q = p THEN t ELSE watched[q]]
        /\ clock' = t
    /\ UNCHANGED <<configured, onDisk>>

RemoveWatched(p) ==
    /\ IsWatched(p)
    /\ watched' = Restrict(watched, DOMAIN watched \ {p})
    /\ UNCHANGED <<configured, clock, onDisk>>

(* Mutant: the missing are collected and none is taken out of the map. *)
CleanupForgotten == UNCHANGED managerVars

(* Only the file is looked at: a socket nobody listens on any more stays. *)
ValidateAndCleanup ==
    /\ watched' = Restrict(watched, DOMAIN watched \cap onDisk)
    /\ UNCHANGED <<configured, clock, onDisk>>

UpdateExtends(list) ==    \* Mutant: the new list is added to the old one.
    /\ configured' = configured \o list
    /\ UNCHANGED <<watched, clock, onDisk>>

UpdateConfigured(list) ==
    /\ configured' = list
    /\ UNCHANGED <<watched, clock, onDisk>>

(* The file system's own steps. *)
SocketFileAppears(p) ==
    /\ onDisk' = onDisk \cup {p}
    /\ UNCHANGED managerState

SocketFileVanishes(p) ==
    /\ onDisk' = onDisk \ {p}
    /\ UNCHANGED managerState

ManagerNext ==
    \/ \E p \in Paths : AddWatched(p)
    \/ \E p \in Paths : RemoveWatched(p)
    \/ ValidateAndCleanup
    \/ \E list \in Configs : UpdateConfigured(list)
    \/ \E p \in Paths : SocketFileAppears(p)
    \/ \E p \in Paths : SocketFileVanishes(p)

ManagerSpec == ManagerInit /\ [][ManagerNext]_managerVars

-----------------------------------------------------------------------------
(* The clock serves a step when the stamps are all different before and after *)
(* it and a socket that joins gets the latest.                                *)
Distinct(stamps) == \A p, q \in DOMAIN stamps : stamps[p] = stamps[q] => p = q

ClockServes ==
    /\ Distinct(watched) /\ Distinct(watched')
    /\ \A p \in DOMAIN watched' \ DOMAIN watched, q \in DOMAIN watched :
          watched'[p] > watched[q]

(* The watched sockets in the order they are served: with different stamps   *)
(* NewestFirst has no choice.                                                *)
ForwardList == CHOOSE order \in NewestFirst : TRUE

Promise == INSTANCE PriorityList WITH
    forwarded <- ForwardList,
    listed <- configured

(* Whatever the mix of additions, removals, cleanups and reloads, and though *)
(* the clock may stand or step back, each step it serves keeps the promise   *)
(* of the priority list: the newest forwarded agent goes in front, and a     *)
(* departure reorders nobody (get_ordered_sockets).  A step back of the      *)
(* clock spoils the order only while a socket it misplaced stays.            *)
KeepsPriority ==
    Promise!Init /\ [][ClockServes => Promise!Next]_(Promise!vars)
=============================================================================
