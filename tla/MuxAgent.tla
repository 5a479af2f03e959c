------------------------------ MODULE MuxAgent ------------------------------
(***************************************************************************)
(* The multiplexing agent (src/lib.rs) over the socket manager.  Every     *)
(* accepted connection is a session, a task that serves its requests one   *)
(* after the other on a single-threaded runtime: tasks interleave at       *)
(* awaits, here between any two actions.  Sessions accepted by one         *)
(* listener, a generation, share one cache known_keys behind a fair mutex; *)
(* a SIGHUP starts the next generation and leaves the sessions of the      *)
(* earlier ones running.  Upstream agents start, die and change their keys *)
(* at any moment.                                                          *)
(***************************************************************************)
EXTENDS SocketManager

CONSTANTS
    Keys,          \* public keys
    Sessions,      \* client connections the daemon serves
    List, Bind,    \* the requests other than the signing ones
    Binders,       \* paths whose agents accept session-bind@openssh.com
    Volatile,      \* paths whose agents come, go and change their keys
    Flaky,         \* paths whose agents may answer with an error at any time
    Hung,          \* paths whose agents accept a request and never answer it
    Clogged,       \* paths whose agents may leave their backlog full, so that a
                   \* connect to them blocks
    None,          \* no socket chosen, no request being served
    MaxGen,        \* bound: generations, one more than the SIGHUPs
    Managed        \* BOOLEAN: the watcher and the health check change the sockets

ASSUME MuxAssumption ==
    /\ List # Bind
    /\ {List, Bind, None} \cap Keys = {}
    /\ None \notin {List, Bind} \cup Paths \cup Sessions
    /\ Binders \subseteq Paths /\ Volatile \subseteq Paths
    /\ Flaky \subseteq Paths /\ Hung \subseteq Paths /\ Clogged \subseteq Paths
    /\ MaxGen \in Nat \ {0}
    /\ Managed \in BOOLEAN

Requests == Keys \cup {List, Bind}
Gens == 1 .. MaxGen

VARIABLES
    gen,           \* the generation that accepts connections
    known,         \* known[g]: known_keys of generation g, key |-> path
    lockQ,         \* lockQ[g]: who waits for known_keys of g; the head holds it
    pc,            \* where each session is
    genOf,         \* generation whose MuxAgent the session cloned
    wanted,        \* request being served
    todo,          \* sockets still to be tried, of the snapshot taken
    heard,         \* identities gathered: sequence of [from, keys]
    route,         \* agent_sock_path chosen for signing
    bound,         \* session_bind_suceeded
    broken,        \* sessions whose upstream connection has died
    dialling,      \* the session whose connect holds the only thread, or None
    reply,         \* outcome of the last request
    listening,     \* paths at which an agent accepts connections
    offers,        \* offers[p]: keys the agent at p holds
    steady,        \* history: paths up and unchanged since the session's snapshot
    reach          \* history: reach[g]: paths the manager listed while g existed

sessionVars == <<pc, genOf, wanted, todo, heard, route, bound, reply>>
cacheVars == <<known, lockQ>>
agentVars == <<listening, offers>>
historyVars == <<steady, reach>>
vars == <<managerVars, gen, cacheVars, sessionVars, broken, dialling, agentVars, historyVars>>

Holding == {"refreshing", "asked"}                \* awaits made with the lock held
Waiting == {"asked", "signing", "bindAsked"}      \* awaiting an upstream's answer
Control == {"idle", "queued", "refreshing", "asked",
            "routed", "signing", "binding", "bindAsked"}
Replies == {"none", "identities", "signed", "notFound", "bound", "failure", "error"}

Hearsay == [from : Paths, keys : SUBSET Keys]
KeyMaps == UNION {[cached -> Paths] : cached \in SUBSET Keys}
EmptyMap == [k \in {} |-> None]

(* The locals agree with the program point that reads them. *)
Coherent ==
    \A s \in Sessions :
        /\ route[s] # None <=> pc[s] \in {"routed", "signing"}
        /\ pc[s] \in {"asked", "bindAsked"} => todo[s] # <<>>

MuxTypeOK ==
    /\ ManagerTypeOK
    /\ gen \in Gens
    /\ known \in [Gens -> KeyMaps]
    /\ lockQ \in [Gens -> Seq(Sessions)]
    /\ pc \in [Sessions -> Control]
    /\ genOf \in [Sessions -> Gens]
    /\ wanted \in [Sessions -> Requests \cup {None}]
    /\ todo \in [Sessions -> Seq(Paths)]
    /\ heard \in [Sessions -> Seq(Hearsay)]
    /\ route \in [Sessions -> Paths \cup {None}]
    /\ bound \in [Sessions -> BOOLEAN]
    /\ broken \subseteq Sessions
    /\ dialling \in Sessions \cup {None}
    /\ reply \in [Sessions -> Replies]
    /\ listening \subseteq Paths
    /\ offers \in [Paths -> SUBSET Keys]
    /\ steady \in [Sessions -> SUBSET Paths]
    /\ reach \in [Gens -> SUBSET Paths]
    /\ Coherent

Listed == DOMAIN watched \cup ToSet(configured)

MuxInit ==
    /\ ManagerInit
    /\ gen = 1
    /\ known = [g \in Gens |-> EmptyMap]
    /\ lockQ = [g \in Gens |-> <<>>]
    /\ pc = [s \in Sessions |-> "idle"]
    /\ genOf = [s \in Sessions |-> 1]
    /\ wanted = [s \in Sessions |-> None]
    /\ todo = [s \in Sessions |-> <<>>]
    /\ heard = [s \in Sessions |-> <<>>]
    /\ route = [s \in Sessions |-> None]
    /\ bound = [s \in Sessions |-> FALSE]
    /\ broken = {}
    /\ dialling = None
    /\ reply = [s \in Sessions |-> "none"]
    /\ listening \in SUBSET onDisk /\ Paths \ Volatile \subseteq listening
    /\ offers \in [Paths -> SUBSET Keys]
    /\ \A p \in Paths \ Volatile : offers[p] = Keys
    /\ steady = [s \in Sessions |-> {}]
    /\ reach = [g \in Gens |-> IF g = 1 THEN Listed ELSE {}]

-----------------------------------------------------------------------------
(* A session: one connection, its requests served in turn.                   *)

Holds(s) == lockQ[genOf[s]] # <<>> /\ Head(lockQ[genOf[s]]) = s

Release(s) == lockQ' = [lockQ EXCEPT ![genOf[s]] = Tail(@)]

GoTo(s, label) == pc' = [pc EXCEPT ![s] = label]

(* The request's locals go with its answer. *)
Answer(s, outcome) ==
    /\ GoTo(s, "idle")
    /\ reply' = [reply EXCEPT ![s] = outcome]
    /\ wanted' = [wanted EXCEPT ![s] = None]
    /\ todo' = [todo EXCEPT ![s] = <<>>]
    /\ heard' = [heard EXCEPT ![s] = <<>>]
    /\ route' = [route EXCEPT ![s] = None]
    /\ bound' = [bound EXCEPT ![s] = FALSE]
    /\ broken' = broken \ {s}
    /\ steady' = [steady EXCEPT ![s] = {}]
    /\ UNCHANGED <<managerVars, gen, known, genOf, agentVars, reach>>

(* The socket the session is to dial, or whose answer it awaits. *)
Upstream(s) == IF pc[s] \in {"routed", "signing"} THEN route[s] ELSE Head(todo[s])

Snapshot(s) ==
    \E order \in OrderedSockets :
        /\ todo' = [todo EXCEPT ![s] = order]
        /\ steady' = [steady EXCEPT ![s] = listening \cap ToSet(order)]

(* new_session: in the place of a client that has left, another connects to  *)
(* the present listener and its clone shares that listener's cache.          *)
Connect(s) ==
    /\ pc[s] = "idle"
    /\ genOf' = [genOf EXCEPT ![s] = gen]
    /\ reply' = [reply EXCEPT ![s] = "none"]
    /\ UNCHANGED <<managerVars, gen, cacheVars, pc, wanted, todo, heard, route, bound,
                   broken, agentVars, historyVars>>

(* A listing or a signing request first asks for known_keys. *)
Receive(s, request) ==
    /\ pc[s] = "idle"
    /\ request # Bind
    /\ GoTo(s, "queued")
    /\ lockQ' = [lockQ EXCEPT ![genOf[s]] = Append(@, s)]
    /\ wanted' = [wanted EXCEPT ![s] = request]
    /\ reply' = [reply EXCEPT ![s] = "none"]
    /\ UNCHANGED <<managerVars, gen, known, genOf, todo, heard, route, bound, broken,
                   agentVars, historyVars>>

-----------------------------------------------------------------------------
(* known_keys and the refresh.                                               *)

UseCachedKeepsLock(s) ==    \* Mutant: the guard outlives the lookup and is never dropped.
    /\ pc[s] = "queued" /\ Holds(s)
    /\ wanted[s] \in DOMAIN known[genOf[s]]
    /\ route' = [route EXCEPT ![s] = known[genOf[s]][wanted[s]]]
    /\ GoTo(s, "routed")
    /\ UNCHANGED <<managerVars, gen, cacheVars, genOf, wanted, todo, heard, bound, reply,
                   broken, agentVars, historyVars>>

(* sign finds its key: the lock goes before the upstream is even dialled. *)
UseCached(s) ==
    /\ pc[s] = "queued" /\ Holds(s)
    /\ wanted[s] \in DOMAIN known[genOf[s]]
    /\ route' = [route EXCEPT ![s] = known[genOf[s]][wanted[s]]]
    /\ Release(s)
    /\ GoTo(s, "routed")
    /\ UNCHANGED <<managerVars, gen, known, genOf, wanted, todo, heard, bound, reply,
                   broken, agentVars, historyVars>>

StartRefreshUncleared(s) ==    \* Mutant: the map is not emptied.
    /\ pc[s] = "queued" /\ Holds(s)
    /\ wanted[s] \notin DOMAIN known[genOf[s]]
    /\ Snapshot(s)
    /\ GoTo(s, "refreshing")
    /\ UNCHANGED <<managerVars, gen, cacheVars, genOf, wanted, heard, route, bound, reply,
                   broken, agentVars, reach>>

(* A listing, or a key not cached: the map is emptied before anyone is asked. *)
StartRefresh(s) ==
    /\ pc[s] = "queued" /\ Holds(s)
    /\ wanted[s] \notin DOMAIN known[genOf[s]]
    /\ known' = [known EXCEPT ![genOf[s]] = EmptyMap]
    /\ Snapshot(s)
    /\ GoTo(s, "refreshing")
    /\ UNCHANGED <<managerVars, gen, lockQ, genOf, wanted, heard, route, bound, reply,
                   broken, agentVars, reach>>

StopAtMissing(s) ==    \* Mutant: break in place of continue.
    /\ pc[s] = "refreshing" /\ todo[s] # <<>>
    /\ Head(todo[s]) \notin listening
    /\ todo' = [todo EXCEPT ![s] = <<>>]
    /\ UNCHANGED <<managerVars, gen, cacheVars, pc, genOf, wanted, heard, route, bound,
                   reply, broken, agentVars, historyVars>>

SkipMissing(s) ==
    /\ pc[s] = "refreshing" /\ todo[s] # <<>>
    /\ Head(todo[s]) \notin listening
    /\ todo' = [todo EXCEPT ![s] = Tail(@)]
    /\ UNCHANGED <<managerVars, gen, cacheVars, pc, genOf, wanted, heard, route, bound,
                   reply, broken, agentVars, historyVars>>

AskIdentities(s) ==
    /\ pc[s] = "refreshing" /\ todo[s] # <<>>
    /\ Head(todo[s]) \in listening
    /\ GoTo(s, "asked")
    /\ UNCHANGED <<managerVars, gen, cacheVars, genOf, wanted, todo, heard, route, bound,
                   reply, broken, agentVars, historyVars>>

(* Every key the agent names is routed to it, whoever was routed to before. *)
Routed(m, keys, p) == [k \in DOMAIN m \cup keys |-> IF k \in keys THEN p ELSE m[k]]

IdentitiesArrive(s) ==
    LET p == Head(todo[s])
        g == genOf[s]
    IN  /\ pc[s] = "asked" /\ s \notin broken
        /\ p \notin Hung
        /\ known' = [known EXCEPT ![g] = Routed(@, offers[p], p)]
        /\ heard' = [heard EXCEPT ![s] = Append(@, [from |-> p, keys |-> offers[p]])]
        /\ todo' = [todo EXCEPT ![s] = Tail(@)]
        /\ GoTo(s, "refreshing")
        /\ UNCHANGED <<managerVars, gen, lockQ, genOf, wanted, route, bound, reply,
                       broken, agentVars, historyVars>>

RefreshFailsLocked(s) ==    \* Mutant: the early return leaves known_keys locked.
    /\ pc[s] = "asked"
    /\ s \in broken \/ Head(todo[s]) \in Flaky
    /\ Answer(s, "error") /\ UNCHANGED lockQ

(* One agent that breaks off or answers with an error ends the refresh: the  *)
(* map keeps what the agents before it said.                                 *)
RefreshFails(s) ==
    /\ pc[s] = "asked"
    /\ s \in broken \/ Head(todo[s]) \in Flaky
    /\ Release(s)
    /\ Answer(s, "error")

RefreshEnds(s) ==
    /\ pc[s] = "refreshing" /\ todo[s] = <<>>
    /\ Release(s)

ListingEnds(s) ==
    /\ RefreshEnds(s)
    /\ wanted[s] = List
    /\ Answer(s, "identities")

KeyFound(s) ==
    /\ RefreshEnds(s)
    /\ wanted[s] \in DOMAIN known[genOf[s]]
    /\ route' = [route EXCEPT ![s] = known[genOf[s]][wanted[s]]]
    /\ GoTo(s, "routed")
    /\ UNCHANGED <<managerVars, gen, known, genOf, wanted, todo, heard, bound, reply,
                   broken, agentVars, historyVars>>

KeyNotFoundRouted(s) ==    \* Mutant: the missing entry is taken for a route.
    /\ RefreshEnds(s)
    /\ wanted[s] \in Keys \ DOMAIN known[genOf[s]]
    /\ GoTo(s, "routed")
    /\ UNCHANGED <<managerVars, gen, known, genOf, wanted, todo, heard, route, bound, reply,
                   broken, agentVars, historyVars>>

KeyNotFound(s) ==
    /\ RefreshEnds(s)
    /\ wanted[s] \in Keys \ DOMAIN known[genOf[s]]
    /\ Answer(s, "notFound")

-----------------------------------------------------------------------------
(* Signing, after known_keys was let go.                                     *)

DialFails(s) ==
    /\ pc[s] = "routed"
    /\ route[s] \notin listening
    /\ Answer(s, "error") /\ UNCHANGED lockQ

AskSignature(s) ==
    /\ pc[s] = "routed"
    /\ route[s] \in listening
    /\ GoTo(s, "signing")
    /\ UNCHANGED <<managerVars, gen, cacheVars, genOf, wanted, todo, heard, route, bound,
                   reply, broken, agentVars, historyVars>>

SignatureArrives(s) ==
    /\ pc[s] = "signing" /\ s \notin broken
    /\ route[s] \notin Hung
    /\ wanted[s] \in offers[route[s]]
    /\ Answer(s, "signed") /\ UNCHANGED lockQ

(* The agent has gone, or the key has gone from it: nobody else is tried. *)
SigningFails(s) ==
    /\ pc[s] = "signing"
    /\ \/ s \in broken
       \/ route[s] \in Flaky
       \/ route[s] \notin Hung /\ wanted[s] \notin offers[route[s]]
    /\ Answer(s, "error") /\ UNCHANGED lockQ

-----------------------------------------------------------------------------
(* session-bind@openssh.com: every socket of the snapshot is tried, failures *)
(* are ignored, one success is enough.  known_keys is not involved.          *)

StartBinding(s) ==
    /\ pc[s] = "idle"
    /\ GoTo(s, "binding")
    /\ Snapshot(s)
    /\ wanted' = [wanted EXCEPT ![s] = Bind]
    /\ reply' = [reply EXCEPT ![s] = "none"]
    /\ UNCHANGED <<managerVars, gen, cacheVars, genOf, heard, route, bound, broken,
                   agentVars, reach>>

BindingMovesOn(s, outcome) ==
    /\ todo' = [todo EXCEPT ![s] = Tail(@)]
    /\ bound' = [bound EXCEPT ![s] = outcome]
    /\ GoTo(s, "binding")
    /\ broken' = broken \ {s}
    /\ UNCHANGED <<managerVars, gen, cacheVars, genOf, wanted, heard, route, reply,
                   agentVars, historyVars>>

SkipUnbindable(s) ==
    /\ pc[s] = "binding" /\ todo[s] # <<>>
    /\ Head(todo[s]) \notin listening
    /\ BindingMovesOn(s, bound[s])

AskBind(s) ==
    /\ pc[s] = "binding" /\ todo[s] # <<>>
    /\ Head(todo[s]) \in listening
    /\ GoTo(s, "bindAsked")
    /\ UNCHANGED <<managerVars, gen, cacheVars, genOf, wanted, todo, heard, route, bound,
                   reply, broken, agentVars, historyVars>>

BindAccepted(s) ==
    /\ pc[s] = "bindAsked" /\ s \notin broken
    /\ Head(todo[s]) \in Binders \ Hung
    /\ BindingMovesOn(s, TRUE)

BindRefusedForAll(s) ==    \* Mutant: an upstream's refusal is propagated.
    /\ pc[s] = "bindAsked"
    /\ \/ s \in broken
       \/ Head(todo[s]) \in Flaky
       \/ Head(todo[s]) \notin Binders \cup Hung
    /\ Answer(s, "failure") /\ UNCHANGED lockQ

BindRefusedRetries(s) ==    \* Mutant: the agent that failed is asked again.
    /\ pc[s] = "bindAsked"
    /\ s \in broken \/ Head(todo[s]) \notin Binders \cup Hung
    /\ GoTo(s, "binding")
    /\ broken' = broken \ {s}
    /\ UNCHANGED <<managerVars, gen, cacheVars, genOf, wanted, todo, heard, route, bound,
                   reply, agentVars, historyVars>>

BindRefused(s) ==
    /\ pc[s] = "bindAsked"
    /\ \/ s \in broken
       \/ Head(todo[s]) \in Flaky
       \/ Head(todo[s]) \notin Binders \cup Hung
    /\ BindingMovesOn(s, bound[s])

BindingEnds(s) ==
    /\ pc[s] = "binding" /\ todo[s] = <<>>
    /\ Answer(s, IF bound[s] THEN "bound" ELSE "failure")
    /\ UNCHANGED lockQ

-----------------------------------------------------------------------------
(* The thread.  connect_upstream_agent uses the standard library's blocking  *)
(* connect: while the agent's backlog is full it does not return, and no     *)
(* other task of the daemon runs.                                            *)

Runs == dialling = None /\ dialling' = None

AboutToDial(s) ==
    \/ pc[s] = "routed"
    \/ pc[s] \in {"refreshing", "binding"} /\ todo[s] # <<>>

DialBlocks(s) ==
    /\ dialling = None
    /\ AboutToDial(s) /\ Upstream(s) \in listening \cap Clogged
    /\ dialling' = s
    /\ UNCHANGED <<managerVars, gen, cacheVars, sessionVars, broken, agentVars, historyVars>>

(* The agent accepts, and the connect is tried again by the kernel. *)
BacklogDrains ==
    /\ dialling # None
    /\ dialling' = None
    /\ UNCHANGED <<managerVars, gen, cacheVars, sessionVars, broken, agentVars, historyVars>>

-----------------------------------------------------------------------------
(* The rest of the daemon and the world.                                     *)

Reached == reach' = [g \in Gens |-> IF g <= gen' THEN reach[g] \cup Listed' ELSE {}]

SighupKeepsMap ==    \* Mutant: the next listener inherits known_keys.
    /\ Runs /\ gen < MaxGen
    /\ gen' = gen + 1
    /\ (\E list \in Configs : UpdateConfigured(list)) \/ UNCHANGED managerVars
    /\ known' = [known EXCEPT ![gen'] = known[gen]]
    /\ Reached
    /\ UNCHANGED <<lockQ, sessionVars, broken, agentVars, steady>>

(* SIGHUP: the listener goes, the configuration is read again (or cannot be  *)
(* read and stays), the next listener starts with an empty map.              *)
Sighup ==
    /\ Runs /\ gen < MaxGen
    /\ gen' = gen + 1
    /\ (\E list \in Configs : UpdateConfigured(list)) \/ UNCHANGED managerVars
    /\ known' = [known EXCEPT ![gen'] = EmptyMap]
    /\ Reached
    /\ UNCHANGED <<lockQ, sessionVars, broken, agentVars, steady>>

(* The watcher's events, the control socket and the health check. *)
SocketsChange ==
    /\ Runs /\ Managed
    /\ (\E p \in Paths : AddWatched(p) \/ RemoveWatched(p)) \/ ValidateAndCleanup
    /\ UNCHANGED <<gen, cacheVars, sessionVars, broken, agentVars, steady>>
    /\ Reached

AgentStarts(p) ==
    /\ p \notin listening
    /\ SocketFileAppears(p)
    /\ listening' = listening \cup {p}
    /\ \E keys \in SUBSET Keys : offers' = [offers EXCEPT ![p] = keys]
    /\ UNCHANGED <<gen, cacheVars, sessionVars, broken, dialling, historyVars>>

(* The connections of an agent that ends break, and a connect to it returns. *)
AgentEnds(p) ==
    /\ p \in listening
    /\ listening' = listening \ {p}
    /\ broken' = broken \cup {s \in Sessions : pc[s] \in Waiting /\ Upstream(s) = p}
    /\ dialling' = IF dialling # None /\ Upstream(dialling) = p THEN None ELSE dialling
    /\ steady' = [s \in Sessions |-> steady[s] \ {p}]
    /\ UNCHANGED <<gen, cacheVars, sessionVars, offers, reach>>

AgentStops(p) == AgentEnds(p) /\ SocketFileVanishes(p)

AgentCrashes(p) == AgentEnds(p) /\ UNCHANGED managerVars   \* the file stays

KeysChange(p) ==
    /\ p \in listening
    /\ \E keys \in SUBSET Keys : offers' = [offers EXCEPT ![p] = keys]
    /\ steady' = [s \in Sessions |-> steady[s] \ {p}]
    /\ UNCHANGED <<managerVars, gen, cacheVars, sessionVars, broken, dialling, listening, reach>>

-----------------------------------------------------------------------------
Step(s) ==
    /\ Runs
    /\ \/ UseCached(s) \/ StartRefresh(s)
       \/ SkipMissing(s) \/ AskIdentities(s) \/ IdentitiesArrive(s) \/ RefreshFails(s)
       \/ ListingEnds(s) \/ KeyFound(s) \/ KeyNotFound(s)
       \/ DialFails(s) \/ AskSignature(s) \/ SignatureArrives(s) \/ SigningFails(s)
       \/ SkipUnbindable(s) \/ AskBind(s) \/ BindAccepted(s) \/ BindRefused(s)
       \/ BindingEnds(s)

Client(s) ==
    /\ Runs
    /\ \/ Connect(s)
       \/ \E request \in Requests : Receive(s, request)
       \/ StartBinding(s)

World ==
    \/ Sighup
    \/ SocketsChange
    \/ BacklogDrains
    \/ \E p \in Volatile : AgentStarts(p) \/ AgentStops(p) \/ AgentCrashes(p) \/ KeysChange(p)

MuxNext ==
    \/ \E s \in Sessions : Step(s) \/ Client(s) \/ DialBlocks(s)
    \/ World

MuxSpec == MuxInit /\ [][MuxNext]_vars

(* The runtime polls every task that can run, and the mutex is first come    *)
(* first served: a session that can go on does, as long as the thread is not *)
(* taken.  An agent not in Hung answers.  Clients, signals and agents owe    *)
(* nothing, and a full backlog need not drain.                               *)
FairMuxSpec == MuxSpec /\ \A s \in Sessions : WF_vars(Step(s))

-----------------------------------------------------------------------------
(* known_keys is released on every path out of a request and by nobody but   *)
(* its holder: a session is in its generation's queue exactly while it waits *)
(* for the map or refreshes it, and only the head refreshes.                 *)
LockDiscipline ==
    /\ \A s \in Sessions, g \in Gens :
          Contains(lockQ[g], s) <=> g = genOf[s] /\ pc[s] \in {"queued"} \cup Holding
    /\ \A s \in Sessions : pc[s] \in Holding => Holds(s)
    /\ \A g \in Gens : IsInjective(lockQ[g])

(* While a session refreshes, the map is what it alone has heard, the last   *)
(* agent to name a key being its owner: two refreshes never mix in one map   *)
(* and nothing survives from the map that was cleared (refresh_identities).  *)
Owns(h, i, k) == k \in h[i].keys /\ \A j \in DOMAIN h : j > i => k \notin h[j].keys

Matches(m, h) ==
    /\ \A i \in DOMAIN h : h[i].keys \subseteq DOMAIN m
    /\ \A k \in DOMAIN m : \E i \in DOMAIN h : Owns(h, i, k) /\ m[k] = h[i].from

CacheIsWhatWasHeard ==
    \A s \in Sessions : pc[s] \in Holding => Matches(known[genOf[s]], heard[s])

(* A listing that succeeds is complete: an agent of the snapshot that was up *)
(* with the same keys throughout is in it with those keys, however the other *)
(* agents came and went (request_identities).                                *)
ListingIsComplete ==
    [][\A s \in Sessions : reply[s] = "none" /\ reply'[s] = "identities" =>
         \A p \in steady[s] : \E i \in DOMAIN heard[s] :
            heard[s][i] = [from |-> p, keys |-> offers[p]]]_vars

(* "No agent found" is said only if no agent of the snapshot held the key    *)
(* throughout; session-bind fails only if none that supports it was up       *)
(* throughout (sign, extension).                                             *)
RefusalsAreHonest ==
    [][\A s \in Sessions : reply[s] = "none" =>
         /\ reply'[s] = "notFound" => \A p \in steady[s] : wanted[s] \notin offers[p]
         /\ reply'[s] = "failure" => steady[s] \cap (Binders \ Flaky) = {}]_vars

(* A session never dials, for a signature, a socket that the manager has not *)
(* listed at some moment since its generation began: what a reload or a      *)
(* cleanup dropped before is out of its reach (run_with_manager).            *)
RoutesStayInGeneration ==
    \A s \in Sessions : route[s] # None => route[s] \in reach[genOf[s]]

(* Whoever waits does so, in the end, for somebody that goes on or for one   *)
(* agent to blame.  While the thread is held, that is the agent whose backlog *)
(* is full, for every session of every generation.  Otherwise a request that *)
(* is not at its own upstream waits for the holder of its generation's       *)
(* known_keys, who is in a request itself; and nobody awaits a session that  *)
(* has ended, an agent that has died or one that the manager never listed    *)
(* while the generation lived.                                               *)
GoesOn(s) ==
    \/ pc[s] \in {"refreshing", "routed", "binding"}
    \/ pc[s] = "queued" /\ Holds(s)
    \/ pc[s] \in Waiting /\ (s \in broken \/ Upstream(s) \notin Hung)

AwaitsHung(s) == pc[s] \in Waiting /\ Upstream(s) \in Hung \cap listening \cap reach[genOf[s]]

DialsClogged(s) ==
    AboutToDial(s) /\ Upstream(s) \in Clogged \cap listening \cap reach[genOf[s]]

NobodyWaitsInVain ==
    IF dialling # None
    THEN DialsClogged(dialling)
    ELSE \A s \in Sessions : pc[s] # "idle" =>
            \E t \in Sessions :
                /\ t = s \/ (pc[s] = "queued" /\ genOf[t] = genOf[s] /\ Holds(t))
                /\ GoesOn(t) \/ AwaitsHung(t)

(* A request never goes back: whatever moves it takes it further on a course *)
(* no longer than its snapshot, however the agents come and go and the other *)
(* sessions use the map meanwhile.  No agent is asked a second time, and a   *)
(* refresh is not begun again (refresh_identities, sign, extension).         *)
Stage(s) ==
    CASE pc[s] = "queued" -> 3
      [] pc[s] \in {"refreshing", "asked", "binding", "bindAsked"} -> 2
      [] pc[s] = "routed" -> 1
      [] OTHER -> 0

ToGo(s) == 2 * Len(todo[s]) + IF pc[s] \in {"refreshing", "binding"} THEN 1 ELSE 0

Advances(s) == Stage(s)' < Stage(s) \/ (Stage(s)' = Stage(s) /\ ToGo(s)' < ToGo(s))

RequestsAdvance ==
    [][\A s \in Sessions : pc[s] # "idle" =>
         \/ pc'[s] = "idle" \/ Advances(s)
         \/ UNCHANGED <<pc[s], todo[s], route[s], genOf[s], wanted[s]>>]_vars

(* Every request gets its answer, unless an agent that hangs was listed in   *)
(* the generation that serves it, or connects to an agent that does not      *)
(* accept take the thread from everybody again and again, or for ever.  An   *)
(* agent that accepts and hangs stalls, through known_keys, every session of *)
(* its generation; a reload that drops it frees the sessions accepted after  *)
(* it, whose map and lock are new.  From a connect that blocks no reload     *)
(* frees anybody, for no SIGHUP is handled either.                           *)
Unhung(s) == reach[genOf[s]] \cap Hung = {}

EveryRequestAnswered ==
    <>[](dialling = None) =>
        \A s \in Sessions :
            (pc[s] # "idle" /\ Unhung(s)) ~> (pc[s] = "idle" \/ ~ Unhung(s))

-----------------------------------------------------------------------------
(* What the README says of the order of agent_sock_paths, for a key that two *)
(* agents hold: "the agent listed first will be the one selected".           *)
FirstListedAgentSigns ==
    \A s \in Sessions : pc[s] = "routed" =>
        \A i \in DOMAIN heard[s] :
            wanted[s] \in heard[s][i].keys
              => \E j \in 1 .. i : heard[s][j].from = route[s] /\ wanted[s] \in heard[s][j].keys
=============================================================================
