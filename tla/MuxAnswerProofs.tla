--------------------------- MODULE MuxAnswerProofs ---------------------------
(***************************************************************************)
(* What the multiplexing agent answers, and whom an unanswered request     *)
(* waits for, with any number of sessions, agents, keys and generations:   *)
(* a listing is complete, a refusal honest, and behind every wait there is *)
(* a session that goes on, one agent that hangs, or one whose backlog is   *)
(* full and holds the thread.  The history `steady` carries the first two: *)
(* the agents of a session's snapshot that have been up and unchanged      *)
(* since.                                                                  *)
(***************************************************************************)
EXTENDS MuxAgentProofs

HeardFrom(s, p) == \E i \in DOMAIN heard[s] : heard[s][i] = [from |-> p, keys |-> offers[p]]

(* A steady agent has still to be asked or was heard; a steady agent that    *)
(* accepts session-bind has still to be asked unless one accepted.           *)
SteadyUp(s) == steady[s] \subseteq listening
BrokenWaits(s) ==
    s \in broken => pc[s] \in Waiting /\ (pc[s] = "bindAsked" => Head(todo[s]) \notin steady[s])
AskedOrHeard(s) ==
    pc[s] \in Holding => \A p \in steady[s] : p \in ToSet(todo[s]) \/ HeardFrom(s, p)
AskedToBind(s) ==
    pc[s] \in {"binding", "bindAsked"} /\ ~ bound[s] =>
        steady[s] \cap (Binders \ Flaky) \subseteq ToSet(todo[s])

SteadyOf(s) == SteadyUp(s) /\ BrokenWaits(s) /\ AskedOrHeard(s) /\ AskedToBind(s)

SteadyInv == \A s \in Sessions : SteadyOf(s)

-----------------------------------------------------------------------------
LEMMA TailKeeps ==
    ASSUME NEW S, NEW q \in Seq(S), q # <<>>, NEW p \in ToSet(q), p # Head(q)
    PROVE  p \in ToSet(Tail(q))
<1>1. PICK i \in 1 .. Len(q) : q[i] = p
    BY DEF ToSet
<1>2. i - 1 \in 1 .. Len(Tail(q)) /\ Tail(q)[i - 1] = p /\ Tail(q) \in Seq(S)
    BY <1>1
<1>3. i - 1 \in DOMAIN Tail(q)
    BY <1>2
<1> QED BY <1>2, <1>3, Zenon DEF ToSet

(* A session whose locals stay, while agents that are not steady for it come *)
(* or change.                                                                *)
LEMMA SteadyStays ==
    ASSUME NEW s \in Sessions, SteadyOf(s),
           pc'[s] = pc[s], todo'[s] = todo[s], heard'[s] = heard[s], bound'[s] = bound[s],
           s \in broken' => s \in broken \/ (pc[s] \in Waiting /\ Upstream(s) \notin steady'[s]),
           steady'[s] \subseteq steady[s], steady'[s] \subseteq listening',
           \A p \in steady'[s] : offers'[p] = offers[p]
    PROVE  SteadyOf(s)'
<1>1. SteadyUp(s)'
    BY DEF SteadyUp
<1>2. BrokenWaits(s)'
    BY DEF SteadyOf, BrokenWaits, Upstream
<1>3. AskedOrHeard(s)'
    BY DEF SteadyOf, AskedOrHeard, HeardFrom
<1>4. AskedToBind(s)'
    BY DEF SteadyOf, AskedToBind
<1> QED BY <1>1, <1>2, <1>3, <1>4 DEF SteadyOf

LEMMA SteadySnapshot ==
    ASSUME MuxTypeOK, NEW s \in Sessions, SteadyOf(s), Snapshot(s),
           pc[s] \notin Waiting, broken' = broken, listening' = listening
    PROVE  SteadyOf(s)'
<1>1. PICK order \in OrderedSockets :
          /\ todo' = [todo EXCEPT ![s] = order]
          /\ steady' = [steady EXCEPT ![s] = listening \cap ToSet(order)]
    BY DEF Snapshot
<1>2. todo'[s] = order /\ steady'[s] = listening \cap ToSet(order) /\ s \notin broken
    BY <1>1 DEF MuxTypeOK, SteadyOf, BrokenWaits
<1> QED BY <1>2 DEF SteadyOf, SteadyUp, BrokenWaits, AskedOrHeard, AskedToBind

(* A session that has answered keeps nothing steady. *)
LEMMA SteadyAnswer ==
    ASSUME MuxTypeOK, NEW s \in Sessions, NEW outcome, Answer(s, outcome)
    PROVE  SteadyOf(s)'
<1>1. steady'[s] = {} /\ s \notin broken'
    BY DEF MuxTypeOK, Answer
<1> QED BY <1>1 DEF SteadyOf, SteadyUp, BrokenWaits, AskedOrHeard, AskedToBind

(* The other sessions when one takes a step. *)
LEMMA SteadyOthers ==
    ASSUME MuxTypeOK, SteadyInv, NEW s \in Sessions, Step(s) \/ Client(s),
           NEW t \in Sessions \ {s}
    PROVE  SteadyOf(t)' /\ reply'[t] = reply[t]
<1> DEFINE Same == /\ pc'[t] = pc[t] /\ todo'[t] = todo[t] /\ heard'[t] = heard[t]
                   /\ bound'[t] = bound[t] /\ steady'[t] = steady[t] /\ reply'[t] = reply[t]
                   /\ t \in broken' <=> t \in broken
                   /\ UNCHANGED agentVars
<1>1. Same
  <2> USE DEF MuxTypeOK, GoTo, agentVars, historyVars, cacheVars
  <2>1. ASSUME NEW outcome, Answer(s, outcome) PROVE Same
      BY <2>1 DEF Answer
  <2>2. CASE UseCached(s) \/ StartRefresh(s) \/ SkipMissing(s) \/ AskIdentities(s)
             \/ IdentitiesArrive(s) \/ KeyFound(s)
      BY <2>2 DEF UseCached, StartRefresh, Snapshot, SkipMissing, AskIdentities,
                  IdentitiesArrive, KeyFound
  <2>3. CASE AskSignature(s) \/ SkipUnbindable(s) \/ AskBind(s) \/ BindAccepted(s)
             \/ BindRefused(s)
      BY <2>3 DEF AskSignature, SkipUnbindable, AskBind, BindAccepted, BindRefused,
                  BindingMovesOn
  <2>4. CASE Client(s)
      BY <2>4 DEF Client, Connect, Receive, StartBinding, Snapshot
  <2> QED BY <2>1, <2>2, <2>3, <2>4
          DEF Step, RefreshFails, ListingEnds, KeyNotFound, DialFails, SignatureArrives,
              SigningFails, BindingEnds
<1> QED BY <1>1, SteadyStays DEF SteadyInv, SteadyOf, SteadyUp, agentVars

(* The session that takes the step. *)
LEMMA SteadyStep ==
    ASSUME MuxTypeOK, NEW s \in Sessions, SteadyOf(s), Step(s)
    PROVE  SteadyOf(s)'
<1> USE DEF MuxTypeOK, GoTo, Waiting, Holding
<1>1. ASSUME NEW outcome, Answer(s, outcome) PROVE SteadyOf(s)'
    BY <1>1, SteadyAnswer
<1>2. CASE UseCached(s) \/ KeyFound(s) \/ AskSignature(s)
  <2>1. /\ pc'[s] \in {"routed", "signing"} /\ pc[s] \notin Waiting
        /\ steady' = steady /\ listening' = listening /\ broken' = broken
      BY <1>2 DEF UseCached, KeyFound, RefreshEnds, AskSignature, agentVars, historyVars
  <2> QED BY <2>1 DEF SteadyOf, SteadyUp, BrokenWaits, AskedOrHeard, AskedToBind
<1>3. CASE StartRefresh(s)
    BY <1>3, SteadySnapshot DEF StartRefresh, agentVars
<1>4. CASE SkipMissing(s)
  <2>1. /\ pc[s] = "refreshing" /\ pc' = pc /\ todo[s] # <<>> /\ todo'[s] = Tail(todo[s])
        /\ steady' = steady /\ listening' = listening /\ broken' = broken
        /\ heard' = heard /\ offers' = offers /\ Head(todo[s]) \notin steady[s]
      BY <1>4 DEF SkipMissing, SteadyOf, SteadyUp, agentVars, historyVars
  <2>2. ASSUME NEW p \in steady[s], p \in ToSet(todo[s]) PROVE p \in ToSet(todo'[s])
      BY <2>1, <2>2, TailKeeps
  <2>3. AskedOrHeard(s)'
      BY <2>1, <2>2 DEF SteadyOf, AskedOrHeard, HeardFrom
  <2> QED BY <2>1, <2>3 DEF SteadyOf, SteadyUp, BrokenWaits, AskedToBind
<1>5. CASE AskIdentities(s)
  <2>1. /\ pc[s] = "refreshing" /\ pc'[s] = "asked" /\ todo' = todo /\ heard' = heard
        /\ steady' = steady /\ listening' = listening /\ broken' = broken /\ offers' = offers
      BY <1>5 DEF AskIdentities, agentVars, historyVars
  <2> QED BY <2>1 DEF SteadyOf, SteadyUp, BrokenWaits, AskedOrHeard, AskedToBind, HeardFrom
<1>6. CASE IdentitiesArrive(s)
  <2> DEFINE q == Head(todo[s])
             r == [from |-> q, keys |-> offers[q]]
  <2>1. /\ pc[s] = "asked" /\ pc'[s] = "refreshing" /\ s \notin broken
        /\ todo'[s] = Tail(todo[s]) /\ heard'[s] = Append(heard[s], r)
        /\ steady' = steady /\ listening' = listening /\ broken' = broken /\ offers' = offers
      BY <1>6 DEF IdentitiesArrive, agentVars, historyVars
  <2>2. todo[s] # <<>> /\ q \in Paths
      BY <2>1 DEF Coherent
  <2>3. r \in Hearsay
      BY <2>2 DEF Hearsay
  <2> HIDE DEF r
  <2>4. /\ DOMAIN heard[s] \subseteq DOMAIN heard'[s]
        /\ \A i \in DOMAIN heard[s] : heard'[s][i] = heard[s][i]
        /\ Len(heard[s]) + 1 \in DOMAIN heard'[s] /\ heard'[s][Len(heard[s]) + 1] = r
      BY <2>1, <2>3
  <2>5. ASSUME NEW p \in steady[s] PROVE p \in ToSet(todo'[s]) \/ HeardFrom(s, p)'
    <3>1. CASE p = q
        BY <2>1, <2>4, <3>1 DEF HeardFrom, r
    <3>2. CASE p # q /\ p \in ToSet(todo[s])
        BY <2>1, <2>2, <3>2, TailKeeps
    <3>3. CASE HeardFrom(s, p)
        BY <2>1, <2>4, <3>3 DEF HeardFrom
    <3> QED BY <2>1, <3>1, <3>2, <3>3 DEF SteadyOf, AskedOrHeard
  <2>6. AskedOrHeard(s)'
      BY <2>1, <2>5 DEF AskedOrHeard
  <2> QED BY <2>1, <2>6 DEF SteadyOf, SteadyUp, BrokenWaits, AskedToBind
<1>7. CASE AskBind(s)
  <2>1. /\ pc[s] = "binding" /\ pc'[s] = "bindAsked" /\ todo' = todo /\ bound' = bound
        /\ steady' = steady /\ listening' = listening /\ broken' = broken
      BY <1>7 DEF AskBind, agentVars, historyVars
  <2> QED BY <2>1 DEF SteadyOf, SteadyUp, BrokenWaits, AskedOrHeard, AskedToBind
<1>8. ASSUME NEW outcome \in BOOLEAN, BindingMovesOn(s, outcome),
             pc[s] \in {"binding", "bindAsked"}, todo[s] # <<>>,
             outcome \/ (outcome = bound[s]
                         /\ Head(todo[s]) \notin steady[s] \cap (Binders \ Flaky))
      PROVE  SteadyOf(s)'
  <2>1. /\ pc'[s] = "binding" /\ todo'[s] = Tail(todo[s]) /\ bound'[s] = outcome
        /\ steady' = steady /\ listening' = listening /\ s \notin broken'
      BY <1>8 DEF BindingMovesOn, agentVars, historyVars
  <2>2. ASSUME ~ bound'[s], NEW p \in steady[s] \cap (Binders \ Flaky)
        PROVE  p \in ToSet(todo'[s])
    <3>1. p \in ToSet(todo[s]) /\ p # Head(todo[s])
        BY <1>8, <2>1, <2>2 DEF SteadyOf, AskedToBind
    <3> QED BY <1>8, <2>1, <3>1, TailKeeps
  <2>3. AskedToBind(s)'
      BY <2>1, <2>2 DEF AskedToBind
  <2> QED BY <2>1, <2>3 DEF SteadyOf, SteadyUp, BrokenWaits, AskedOrHeard
<1>9. CASE SkipUnbindable(s)
    BY <1>8, <1>9 DEF SkipUnbindable, SteadyOf, SteadyUp
<1>10. CASE BindAccepted(s)
    BY <1>8, <1>10 DEF BindAccepted, Coherent
<1>11. CASE BindRefused(s)
  <2>1. Head(todo[s]) \notin steady[s] \cap (Binders \ Flaky)
      BY <1>11 DEF BindRefused, SteadyOf, BrokenWaits
  <2> QED BY <1>8, <1>11, <2>1 DEF BindRefused, Coherent
<1> QED BY <1>1, <1>2, <1>3, <1>4, <1>5, <1>6, <1>7, <1>9, <1>10, <1>11
        DEF Step, RefreshFails, ListingEnds, KeyNotFound, DialFails, SignatureArrives,
            SigningFails, BindingEnds

LEMMA SteadyClient ==
    ASSUME MuxTypeOK, NEW s \in Sessions, SteadyOf(s), Client(s)
    PROVE  SteadyOf(s)'
<1> USE DEF MuxTypeOK, GoTo, Waiting, Holding, cacheVars, agentVars, historyVars
<1>1. CASE StartBinding(s)
    BY <1>1, SteadySnapshot DEF StartBinding
<1>2. CASE Connect(s) \/ \E request \in Requests : Receive(s, request)
  <2>1. /\ pc[s] = "idle" /\ pc'[s] \in {"idle", "queued"}
        /\ steady' = steady /\ listening' = listening /\ broken' = broken
      BY <1>2 DEF Connect, Receive
  <2> QED BY <2>1 DEF SteadyOf, SteadyUp, BrokenWaits, AskedOrHeard, AskedToBind
<1> QED BY <1>1, <1>2 DEF Client

(* Agents that end or change are steady for nobody, agents that start were   *)
(* not.                                                                      *)
LEMMA SteadyWorld ==
    ASSUME MuxTypeOK, SteadyInv, World \/ ThreadAlone, NEW s \in Sessions
    PROVE  SteadyOf(s)' /\ reply'[s] = reply[s]
<1> USE DEF MuxTypeOK, SteadyInv, SteadyOf, SteadyUp, sessionVars, agentVars, historyVars
<1>1. CASE Sighup \/ SocketsChange \/ BacklogDrains \/ ThreadAlone
  <2>1. UNCHANGED <<sessionVars, broken, agentVars, steady>>
      BY <1>1 DEF Sighup, SocketsChange, BacklogDrains, ThreadAlone
  <2> QED BY <2>1, SteadyStays
<1>2. ASSUME NEW p \in Volatile, AgentStarts(p) PROVE SteadyOf(s)' /\ reply'[s] = reply[s]
  <2>1. /\ UNCHANGED <<sessionVars, broken, steady>> /\ listening' = listening \cup {p}
        /\ p \notin listening /\ \A q \in Paths \ {p} : offers'[q] = offers[q]
      BY <1>2 DEF AgentStarts
  <2>2. \A q \in steady'[s] : offers'[q] = offers[q]
      BY <2>1
  <2> QED BY <2>1, <2>2, SteadyStays
<1>3. ASSUME NEW p \in Volatile, AgentEnds(p) PROVE SteadyOf(s)' /\ reply'[s] = reply[s]
  <2>1. /\ UNCHANGED <<sessionVars, offers>> /\ listening' = listening \ {p}
        /\ steady'[s] = steady[s] \ {p}
        /\ broken' = broken \cup {t \in Sessions : pc[t] \in Waiting /\ Upstream(t) = p}
      BY <1>3 DEF AgentEnds
  <2> QED BY <2>1, SteadyStays
<1>4. ASSUME NEW p \in Volatile, KeysChange(p) PROVE SteadyOf(s)' /\ reply'[s] = reply[s]
  <2>1. /\ UNCHANGED <<sessionVars, broken, listening>> /\ steady'[s] = steady[s] \ {p}
        /\ \A q \in Paths \ {p} : offers'[q] = offers[q]
      BY <1>4 DEF KeysChange
  <2>2. \A q \in steady'[s] : offers'[q] = offers[q]
      BY <2>1
  <2> QED BY <2>1, <2>2, SteadyStays
<1> QED BY <1>1, <1>2, <1>3, <1>4 DEF World, AgentStops, AgentCrashes

LEMMA SteadyInvStep == MuxTypeOK /\ SteadyInv /\ [MuxNext]_vars => SteadyInv'
<1> SUFFICES ASSUME MuxTypeOK, SteadyInv, [MuxNext]_vars, NEW t \in Sessions PROVE SteadyOf(t)'
    BY DEF SteadyInv
<1>1. ASSUME NEW s \in Sessions, Step(s) \/ Client(s) PROVE SteadyOf(t)'
    BY <1>1, SteadyOthers, SteadyStep, SteadyClient DEF SteadyInv
<1> QED BY <1>1, ThreadSteps, SteadyWorld

LEMMA SteadyInvInit == MuxInit => SteadyInv
BY DEF MuxInit, SteadyInv, SteadyOf, SteadyUp, BrokenWaits, AskedOrHeard, AskedToBind, Holding

-----------------------------------------------------------------------------
(* A listing names every agent of the snapshot that was up with the same     *)
(* keys throughout, however many agents come, go, crash and change around    *)
(* it and however many sessions share the map (ListingIsComplete).           *)
THEOREM ListingsAreComplete == MuxSpec => ListingIsComplete
<1> DEFINE Complete ==
        \A s \in Sessions : reply[s] = "none" /\ reply'[s] = "identities" =>
          \A p \in steady[s] : \E i \in DOMAIN heard[s] :
            heard[s][i] = [from |-> p, keys |-> offers[p]]
<1>1. ASSUME MuxTypeOK, SteadyInv, [MuxNext]_vars PROVE [Complete]_vars
  <2> SUFFICES ASSUME NEW s \in Sessions, reply[s] = "none", reply'[s] = "identities",
                      NEW p \in steady[s]
               PROVE  HeardFrom(s, p)
      BY DEF HeardFrom
  <2>1. Step(s) \/ Client(s)
      BY <1>1, ThreadSteps, SteadyOthers, SteadyWorld
  <2>2. ListingEnds(s)
    <3> USE DEF MuxTypeOK
    <3>1. ASSUME NEW outcome, Answer(s, outcome) PROVE outcome = "identities"
        BY <1>1, <3>1 DEF Answer
    <3>2. ~ Client(s)
        BY <1>1 DEF Client, Connect, Receive, StartBinding
    <3>3. ~ (UseCached(s) \/ StartRefresh(s) \/ SkipMissing(s) \/ AskIdentities(s)
             \/ IdentitiesArrive(s) \/ KeyFound(s) \/ AskSignature(s) \/ SkipUnbindable(s)
             \/ AskBind(s) \/ BindAccepted(s) \/ BindRefused(s))
        BY DEF UseCached, StartRefresh, SkipMissing, AskIdentities, IdentitiesArrive, KeyFound,
               AskSignature, SkipUnbindable, AskBind, BindAccepted, BindRefused, BindingMovesOn
    <3> QED BY <2>1, <3>1, <3>2, <3>3
            DEF Step, RefreshFails, KeyNotFound, DialFails, SignatureArrives, SigningFails,
                BindingEnds
  <2>3. pc[s] \in Holding /\ ToSet(todo[s]) = {}
      BY <2>2 DEF ListingEnds, RefreshEnds, Holding, ToSet
  <2> QED BY <1>1, <2>3 DEF SteadyInv, SteadyOf, AskedOrHeard
<1>2. MuxSpec => []MuxTypeOK
    BY TypeCorrect
<1> QED BY <1>1, <1>2, SteadyInvInit, SteadyInvStep, PTL DEF MuxSpec, ListingIsComplete

(* "No agent found" and a failed session-bind are true of every agent of the *)
(* snapshot that was up with the same keys throughout (RefusalsAreHonest).   *)
THEOREM RefusalsHaveReason == MuxSpec => RefusalsAreHonest
<1> DEFINE Honest ==
        \A s \in Sessions : reply[s] = "none" =>
          /\ reply'[s] = "notFound" => \A p \in steady[s] : wanted[s] \notin offers[p]
          /\ reply'[s] = "failure" => steady[s] \cap (Binders \ Flaky) = {}
<1>1. ASSUME MuxTypeOK, CacheIsWhatWasHeard, SteadyInv, [MuxNext]_vars PROVE [Honest]_vars
  <2> SUFFICES ASSUME NEW s \in Sessions, reply[s] = "none",
                      reply'[s] \in {"notFound", "failure"}
               PROVE  /\ reply'[s] = "notFound" => \A p \in steady[s] : wanted[s] \notin offers[p]
                      /\ reply'[s] = "failure" => steady[s] \cap (Binders \ Flaky) = {}
      OBVIOUS
  <2>1. Step(s) \/ Client(s)
      BY <1>1, ThreadSteps, SteadyOthers, SteadyWorld
  <2>2. \/ KeyNotFound(s) /\ reply'[s] = "notFound"
        \/ BindingEnds(s) /\ ~ bound[s] /\ reply'[s] = "failure"
    <3> USE DEF MuxTypeOK
    <3>1. ASSUME NEW outcome, Answer(s, outcome) PROVE outcome = reply'[s]
        BY <1>1, <3>1 DEF Answer
    <3>2. ~ Client(s)
        BY <1>1 DEF Client, Connect, Receive, StartBinding
    <3>3. ~ (UseCached(s) \/ StartRefresh(s) \/ SkipMissing(s) \/ AskIdentities(s)
             \/ IdentitiesArrive(s) \/ KeyFound(s) \/ AskSignature(s) \/ SkipUnbindable(s)
             \/ AskBind(s) \/ BindAccepted(s) \/ BindRefused(s))
        BY DEF UseCached, StartRefresh, SkipMissing, AskIdentities, IdentitiesArrive, KeyFound,
               AskSignature, SkipUnbindable, AskBind, BindAccepted, BindRefused, BindingMovesOn
    <3> QED BY <2>1, <3>1, <3>2, <3>3
            DEF Step, RefreshFails, ListingEnds, KeyNotFound, DialFails, SignatureArrives,
                SigningFails, BindingEnds
  <2>3. CASE KeyNotFound(s) /\ reply'[s] = "notFound"
    <3>1. /\ pc[s] \in Holding /\ ToSet(todo[s]) = {}
          /\ wanted[s] \notin DOMAIN known[genOf[s]]
        BY <2>3 DEF KeyNotFound, RefreshEnds, Holding, ToSet
    <3>2. Matches(known[genOf[s]], heard[s])
        BY <1>1, <3>1 DEF CacheIsWhatWasHeard
    <3>3. ASSUME NEW p \in steady[s] PROVE wanted[s] \notin offers[p]
      <4>1. PICK i \in DOMAIN heard[s] : heard[s][i] = [from |-> p, keys |-> offers[p]]
          BY <1>1, <3>1 DEF SteadyInv, SteadyOf, AskedOrHeard, HeardFrom
      <4>2. offers[p] \subseteq DOMAIN known[genOf[s]]
          BY <3>2, <4>1 DEF Matches
      <4> QED BY <3>1, <4>2
    <3> QED BY <2>3, <3>3
  <2>4. CASE BindingEnds(s) /\ ~ bound[s] /\ reply'[s] = "failure"
    <3>1. pc[s] = "binding" /\ ToSet(todo[s]) = {}
        BY <2>4 DEF BindingEnds, ToSet
    <3>2. steady[s] \cap (Binders \ Flaky) = {}
        BY <1>1, <2>4, <3>1 DEF SteadyInv, SteadyOf, AskedToBind
    <3> QED BY <2>4, <3>2
  <2> QED BY <2>2, <2>3, <2>4
<1>2. MuxSpec => []MuxTypeOK
    BY TypeCorrect
<1>3. MuxSpec => []CacheIsWhatWasHeard
    BY CacheIsSound
<1> QED BY <1>1, <1>2, <1>3, SteadyInvInit, SteadyInvStep, PTL DEF MuxSpec, RefusalsAreHonest

-----------------------------------------------------------------------------
(* Who waits for whom.  A session whose connection has not broken awaits an   *)
(* agent that is up, and what it has still to try for session-bind was listed *)
(* while its generation lived, as RouteInv says of the refresh.  Whoever      *)
(* holds the thread dials an agent that is up and whose backlog is full.      *)
AwaitsOneUp(s) == pc[s] \in Waiting /\ s \notin broken => Upstream(s) \in listening
BindReached(s) ==
    pc[s] \in {"binding", "bindAsked"} =>
        \A i \in DOMAIN todo[s] : todo[s][i] \in reach[genOf[s]]

WaitOf(s) == AwaitsOneUp(s) /\ BindReached(s)

DialWaits ==
    dialling # None => AboutToDial(dialling) /\ Upstream(dialling) \in Clogged \cap listening

WaitInv == RouteInv /\ DialWaits /\ \A s \in Sessions : WaitOf(s)

LEMMA WaitInvImplies == WaitInv => NobodyWaitsInVain
<1> SUFFICES ASSUME WaitInv PROVE NobodyWaitsInVain
    OBVIOUS
<1> DEFINE Blamed(s) ==
        \E t \in Sessions :
            /\ t = s \/ (pc[s] = "queued" /\ genOf[t] = genOf[s] /\ Holds(t))
            /\ GoesOn(t) \/ AwaitsHung(t)
<1>0. /\ pc \in [Sessions -> Control] /\ genOf \in [Sessions -> Gens]
      /\ todo \in [Sessions -> Seq(Paths)] /\ route \in [Sessions -> Paths \cup {None}]
      /\ lockQ \in [Gens -> Seq(Sessions)] /\ Coherent /\ LockDiscipline
      /\ dialling \in Sessions \cup {None}
    BY DEF WaitInv, RouteInv, LockInv, MuxTypeOK
<1>1. ASSUME NEW t \in Sessions, pc[t] \in Waiting PROVE GoesOn(t) \/ AwaitsHung(t)
  <2>1. SUFFICES ASSUME t \notin broken, Upstream(t) \in Hung PROVE AwaitsHung(t)
      BY <1>1 DEF GoesOn
  <2>2. Upstream(t) \in listening
      BY <1>1, <2>1 DEF WaitInv, WaitOf, AwaitsOneUp
  <2>3. Upstream(t) \in reach[genOf[t]]
    <3>1. CASE pc[t] = "signing"
        BY <1>0, <3>1 DEF Upstream, Coherent, WaitInv, RouteInv, RouteParts, RoutesStayInGeneration
    <3>2. CASE pc[t] \in {"asked", "bindAsked"}
      <4>1. todo[t] # <<>> /\ Upstream(t) = Head(todo[t]) /\ todo[t] \in Seq(Paths)
          BY <1>0, <3>2 DEF Coherent, Upstream
      <4>2. 1 \in DOMAIN todo[t] /\ Head(todo[t]) = todo[t][1]
          BY <4>1
      <4>3. \A i \in DOMAIN todo[t] : todo[t][i] \in reach[genOf[t]]
          BY <3>2 DEF WaitInv, WaitOf, BindReached, RouteInv, RouteParts, TodoReached, Holding
      <4> QED BY <4>1, <4>2, <4>3
    <3> QED BY <1>1, <3>1, <3>2 DEF Waiting
  <2> QED BY <1>1, <2>1, <2>2, <2>3 DEF AwaitsHung
<1>2. ASSUME NEW s \in Sessions, pc[s] # "idle" PROVE Blamed(s)
  <2>2. CASE pc[s] \in Waiting
      BY <1>1, <2>2
  <2>3. CASE pc[s] \in {"refreshing", "routed", "binding"}
      BY <2>3 DEF GoesOn
  <2>4. CASE pc[s] = "queued"
    <3> DEFINE q == lockQ[genOf[s]]
    <3>1. q \in Seq(Sessions) /\ q # <<>>
      <4>1. q \in Seq(Sessions) /\ Contains(q, s)
          BY <1>0, <2>4 DEF LockDiscipline
      <4> QED BY <4>1 DEF Contains
    <3>2. PICK t \in Sessions : t = Head(q) /\ Contains(q, t)
      <4>1. Head(q) \in Sessions /\ 1 \in 1 .. Len(q) /\ q[1] = Head(q)
          BY <3>1
      <4> QED BY <4>1 DEF Contains
    <3>3. genOf[t] = genOf[s] /\ pc[t] \in {"queued", "refreshing", "asked"}
        BY <1>0, <3>2 DEF LockDiscipline, Holding
    <3>4. Holds(t)
        BY <3>1, <3>2, <3>3 DEF Holds
    <3>5. GoesOn(t) \/ AwaitsHung(t)
      <4>1. CASE pc[t] = "asked"
          BY <1>1, <4>1 DEF Waiting
      <4>2. CASE pc[t] # "asked"
          BY <3>3, <3>4, <4>2 DEF GoesOn
      <4> QED BY <4>1, <4>2
    <3> QED BY <2>4, <3>3, <3>4, <3>5
  <2> QED BY <1>0, <1>2, <2>2, <2>3, <2>4 DEF Control, Waiting
<1>3. ASSUME dialling # None PROVE DialsClogged(dialling)
  <2>1. /\ dialling \in Sessions /\ AboutToDial(dialling)
        /\ Upstream(dialling) \in Clogged \cap listening
      BY <1>0, <1>3 DEF WaitInv, DialWaits
  <2>2. CASE pc[dialling] = "routed"
      BY <1>0, <2>1, <2>2
         DEF DialsClogged, Upstream, Coherent, WaitInv, RouteInv, RouteParts, RoutesStayInGeneration
  <2>3. CASE pc[dialling] \in {"refreshing", "binding"} /\ todo[dialling] # <<>>
    <3>1. Upstream(dialling) = Head(todo[dialling]) /\ todo[dialling] \in Seq(Paths)
        BY <1>0, <2>1, <2>3 DEF Upstream
    <3>2. 1 \in DOMAIN todo[dialling] /\ Head(todo[dialling]) = todo[dialling][1]
        BY <2>3, <3>1
    <3>3. \A i \in DOMAIN todo[dialling] : todo[dialling][i] \in reach[genOf[dialling]]
        BY <2>1, <2>3 DEF WaitInv, WaitOf, BindReached, RouteInv, RouteParts, TodoReached, Holding
    <3> QED BY <2>1, <3>1, <3>2, <3>3 DEF DialsClogged
  <2> QED BY <2>1, <2>2, <2>3 DEF AboutToDial
<1> QED BY <1>2, <1>3 DEF NobodyWaitsInVain

-----------------------------------------------------------------------------
(* The other sessions when one takes a step wait as before. *)
LEMMA WaitOthers ==
    ASSUME WaitInv, NEW s \in Sessions, Step(s) \/ Client(s), NEW t \in Sessions \ {s}
    PROVE  WaitOf(t)'
<1> DEFINE Same == /\ pc'[t] = pc[t] /\ todo'[t] = todo[t] /\ route'[t] = route[t]
                   /\ genOf'[t] = genOf[t] /\ (t \in broken' <=> t \in broken)
                   /\ listening' = listening /\ reach' = reach
<1>1. MuxTypeOK
    BY DEF WaitInv, RouteInv, LockInv
<1>2. Same
  <2> USE <1>1 DEF MuxTypeOK, GoTo, agentVars, historyVars, cacheVars
  <2>1. ASSUME NEW outcome, Answer(s, outcome) PROVE Same
      BY <2>1 DEF Answer
  <2>2. CASE UseCached(s) \/ StartRefresh(s) \/ SkipMissing(s) \/ AskIdentities(s)
             \/ IdentitiesArrive(s) \/ KeyFound(s)
      BY <2>2 DEF UseCached, StartRefresh, Snapshot, SkipMissing, AskIdentities,
                  IdentitiesArrive, KeyFound
  <2>3. CASE AskSignature(s) \/ SkipUnbindable(s) \/ AskBind(s) \/ BindAccepted(s)
             \/ BindRefused(s)
      BY <2>3 DEF AskSignature, SkipUnbindable, AskBind, BindAccepted, BindRefused,
                  BindingMovesOn
  <2>4. CASE Client(s)
      BY <2>4 DEF Client, Connect, Receive, StartBinding, Snapshot
  <2> QED BY <2>1, <2>2, <2>3, <2>4
          DEF Step, RefreshFails, ListingEnds, KeyNotFound, DialFails, SignatureArrives,
              SigningFails, BindingEnds
<1>3. WaitOf(t)
    BY DEF WaitInv
<1> QED BY <1>2, <1>3 DEF WaitOf, AwaitsOneUp, Upstream, BindReached

(* The session that takes the step dials only who is up. *)
LEMMA WaitStep ==
    ASSUME WaitInv, NEW s \in Sessions, Step(s) \/ Client(s)
    PROVE  WaitOf(s)'
<1>1. MuxTypeOK /\ WaitOf(s)
    BY DEF WaitInv, RouteInv, LockInv
<1> USE <1>1 DEF MuxTypeOK, GoTo, Waiting
<1>2. ASSUME pc'[s] \in {"idle", "queued", "refreshing", "routed"} PROVE WaitOf(s)'
    BY <1>2 DEF WaitOf, AwaitsOneUp, BindReached
<1>3. ASSUME NEW outcome, Answer(s, outcome) PROVE WaitOf(s)'
    BY <1>2, <1>3 DEF Answer
<1>4. CASE UseCached(s) \/ StartRefresh(s) \/ SkipMissing(s) \/ IdentitiesArrive(s)
           \/ KeyFound(s) \/ Connect(s) \/ \E request \in Requests : Receive(s, request)
    BY <1>2, <1>4 DEF UseCached, StartRefresh, SkipMissing, IdentitiesArrive, KeyFound,
                      Connect, Receive
<1>5. CASE AskIdentities(s)
  <2>1. /\ pc'[s] = "asked" /\ todo' = todo /\ listening' = listening
        /\ Head(todo[s]) \in listening
      BY <1>5 DEF AskIdentities, agentVars
  <2> QED BY <2>1 DEF WaitOf, AwaitsOneUp, BindReached, Upstream
<1>6. CASE AskSignature(s)
  <2>1. pc'[s] = "signing" /\ route' = route /\ listening' = listening /\ route[s] \in listening
      BY <1>6 DEF AskSignature, agentVars
  <2> QED BY <2>1 DEF WaitOf, AwaitsOneUp, BindReached, Upstream
<1>7. CASE AskBind(s)
  <2>1. /\ pc[s] = "binding" /\ pc'[s] = "bindAsked" /\ todo' = todo /\ listening' = listening
        /\ genOf' = genOf /\ reach' = reach /\ Head(todo[s]) \in listening
      BY <1>7 DEF AskBind, agentVars, historyVars
  <2> QED BY <2>1 DEF WaitOf, AwaitsOneUp, BindReached, Upstream
<1>8. CASE SkipUnbindable(s) \/ BindAccepted(s) \/ BindRefused(s)
  <2>1. /\ pc[s] \in {"binding", "bindAsked"} /\ pc'[s] = "binding"
        /\ todo'[s] = Tail(todo[s]) /\ todo[s] # <<>> /\ todo[s] \in Seq(Paths)
        /\ genOf' = genOf /\ reach' = reach
      BY <1>8 DEF SkipUnbindable, BindAccepted, BindRefused, BindingMovesOn, historyVars, Coherent
  <2>2. \A i \in DOMAIN Tail(todo[s]) : i + 1 \in DOMAIN todo[s] /\ Tail(todo[s])[i] = todo[s][i + 1]
      BY <2>1
  <2> QED BY <2>1, <2>2 DEF WaitOf, AwaitsOneUp, BindReached
<1>9. CASE StartBinding(s)
  <2>1. /\ pc'[s] = "binding" /\ genOf' = genOf /\ reach' = reach
      BY <1>9 DEF StartBinding
  <2>2. PICK order \in OrderedSockets : todo'[s] = order
      BY <1>9 DEF StartBinding, Snapshot
  <2>3. \A i \in DOMAIN order : order[i] \in Listed
      BY OrderedSocketsListed
  <2>4. Listed \subseteq reach[genOf[s]]
      BY DEF WaitInv, RouteInv, RouteParts, GenerationsBehind, ListedReached
  <2> QED BY <2>1, <2>2, <2>3, <2>4 DEF WaitOf, AwaitsOneUp, BindReached
<1> QED BY <1>3, <1>4, <1>5, <1>6, <1>7, <1>8, <1>9
        DEF Step, Client, RefreshFails, ListingEnds, KeyNotFound, DialFails, SignatureArrives,
            SigningFails, BindingEnds

(* An agent that ends breaks the connections that awaited it. *)
LEMMA WaitWorld ==
    ASSUME WaitInv, World \/ ThreadAlone, NEW s \in Sessions
    PROVE  WaitOf(s)'
<1>1. /\ MuxTypeOK /\ WaitOf(s) /\ genOf[s] \in Gens /\ genOf[s] <= gen
      /\ gen \in Gens /\ reach \in [Gens -> SUBSET Paths]
    BY DEF WaitInv, RouteInv, LockInv, RouteParts, GenerationsBehind, MuxTypeOK
<1>2. CASE Sighup \/ SocketsChange
  <2>1. /\ UNCHANGED <<pc, todo, route, genOf, broken, listening>>
        /\ gen' \in {gen, gen + 1} /\ Reached
      BY <1>2 DEF Sighup, SocketsChange, sessionVars, agentVars
  <2>2. genOf[s] <= gen'
      BY <1>1, <2>1 DEF Gens
  <2>3. reach[genOf[s]] \subseteq reach'[genOf[s]]
      BY <1>1, <2>1, <2>2 DEF Reached
  <2> QED BY <1>1, <2>1, <2>3 DEF WaitOf, AwaitsOneUp, BindReached, Upstream
<1>3. ASSUME NEW p \in Paths, AgentEnds(p) PROVE WaitOf(s)'
  <2>1. /\ UNCHANGED <<pc, todo, route, genOf, reach>> /\ listening' = listening \ {p}
        /\ broken' = broken \cup {t \in Sessions : pc[t] \in Waiting /\ Upstream(t) = p}
      BY <1>3 DEF AgentEnds, sessionVars
  <2>2. Upstream(s)' = Upstream(s)
      BY <2>1 DEF Upstream
  <2> QED BY <1>1, <2>1, <2>2 DEF WaitOf, AwaitsOneUp, BindReached
<1>4. CASE \/ \E p \in Volatile : AgentStarts(p) \/ KeysChange(p)
           \/ BacklogDrains \/ ThreadAlone
  <2>1. UNCHANGED <<pc, todo, route, genOf, reach, broken>> /\ listening \subseteq listening'
      BY <1>4 DEF AgentStarts, KeysChange, BacklogDrains, ThreadAlone, sessionVars, historyVars,
                  agentVars
  <2> QED BY <1>1, <2>1 DEF WaitOf, AwaitsOneUp, BindReached, Upstream
<1>5. Volatile \subseteq Paths
    BY MuxAssumption DEF MuxAssumption
<1> QED BY <1>2, <1>3, <1>4, <1>5 DEF World, AgentStops, AgentCrashes

(* Who takes the thread finds a full backlog; until it drains or its agent   *)
(* ends, no session moves.                                                   *)
LEMMA WaitThread ==
    ASSUME MuxTypeOK, DialWaits, [MuxNext]_vars
    PROVE  DialWaits'
<1>1. CASE dialling' = None
    BY <1>1 DEF DialWaits
<1>2. ASSUME NEW s \in Sessions, DialBlocks(s) PROVE DialWaits'
    BY <1>2 DEF DialBlocks, DialWaits, AboutToDial, Upstream, sessionVars, agentVars
<1>3. ASSUME UNCHANGED <<pc, todo, route, dialling>>,
             dialling # None => Upstream(dialling) \in Clogged \cap listening'
      PROVE  DialWaits'
    BY <1>3 DEF DialWaits, AboutToDial, Upstream
<1>4. ASSUME NEW p \in Volatile, AgentStarts(p) \/ KeysChange(p) PROVE DialWaits'
  <2>1. UNCHANGED <<pc, todo, route, dialling>> /\ listening \subseteq listening'
      BY <1>4 DEF AgentStarts, KeysChange, sessionVars
  <2> QED BY <1>3, <2>1 DEF DialWaits
<1>5. ASSUME NEW p \in Volatile, AgentEnds(p), dialling' # None PROVE DialWaits'
  <2>1. /\ UNCHANGED <<pc, todo, route, dialling>> /\ listening' = listening \ {p}
        /\ dialling # None => Upstream(dialling) # p
      BY <1>5 DEF AgentEnds, sessionVars
  <2> QED BY <1>3, <2>1 DEF DialWaits
<1>6. CASE UNCHANGED vars
  <2>1. UNCHANGED <<pc, todo, route, dialling, listening>>
      BY <1>6 DEF vars, sessionVars, agentVars
  <2> QED BY <1>3, <2>1 DEF DialWaits
<1> QED BY <1>1, <1>2, <1>4, <1>5, <1>6
        DEF MuxNext, World, Step, Client, Sighup, SocketsChange, Runs, BacklogDrains, AgentStops,
            AgentCrashes

LEMMA WaitInvStep == WaitInv /\ [MuxNext]_vars => WaitInv'
<1> SUFFICES ASSUME WaitInv, [MuxNext]_vars PROVE WaitInv'
    OBVIOUS
<1>1. RouteInv'
    BY RouteInvStep DEF WaitInv
<1>2. \A s \in Sessions : WaitOf(s)'
    BY ThreadSteps, WaitOthers, WaitStep, WaitWorld
<1>3. DialWaits'
    BY WaitThread DEF WaitInv, RouteInv, LockInv
<1> QED BY <1>1, <1>2, <1>3 DEF WaitInv

(* Nobody waits in vain: in any state a request that is not answered yet has  *)
(* a session that goes on, its own or that of the holder of known_keys, or    *)
(* one agent to blame that is up, hangs, and was listed while the generation  *)
(* lived; or the thread is held, for everybody, by a connect to one agent     *)
(* that is up, listed in the dialler's generation, and has its backlog full.  *)
(* It is the safety half of EveryRequestAnswered.                             *)
THEOREM WaitsAreForSomebody == MuxSpec => []NobodyWaitsInVain
<1>1. MuxInit => WaitInv
    BY RouteInvInit DEF MuxInit, WaitInv, DialWaits, WaitOf, AwaitsOneUp, BindReached, Waiting
<1> QED BY <1>1, WaitInvStep, WaitInvImplies, PTL DEF MuxSpec

-----------------------------------------------------------------------------
(* The session that takes a step. *)
LEMMA StepAdvances ==
    ASSUME MuxTypeOK, NEW s \in Sessions, Step(s)
    PROVE  pc'[s] = "idle" \/ Advances(s)
<1> DEFINE n == Len(todo[s])
<1>1. /\ pc \in [Sessions -> Control] /\ todo[s] \in Seq(Paths) /\ n \in Nat
      /\ todo \in [Sessions -> Seq(Paths)]
      /\ todo[s] # <<>> => Tail(todo[s]) \in Seq(Paths) /\ Len(Tail(todo[s])) = n - 1
    BY DEF MuxTypeOK
<1>2. ASSUME NEW outcome, Answer(s, outcome) PROVE pc'[s] = "idle"
    BY <1>1, <1>2 DEF Answer, GoTo
<1>3. CASE UseCached(s) \/ KeyFound(s)
  <2>1. pc[s] \in {"queued", "refreshing"} /\ pc'[s] = "routed"
      BY <1>1, <1>3 DEF UseCached, KeyFound, RefreshEnds, GoTo
  <2> QED BY <2>1 DEF Advances, Stage
<1>4. CASE StartRefresh(s)
  <2>1. pc[s] = "queued" /\ pc'[s] = "refreshing"
      BY <1>1, <1>4 DEF StartRefresh, GoTo
  <2> QED BY <2>1 DEF Advances, Stage
<1>5. CASE AskSignature(s)
  <2>1. pc[s] = "routed" /\ pc'[s] = "signing"
      BY <1>1, <1>5 DEF AskSignature, GoTo
  <2> QED BY <2>1 DEF Advances, Stage
<1>6. CASE AskIdentities(s) \/ AskBind(s)
  <2>1. /\ <<pc[s], pc'[s]>> \in {<<"refreshing", "asked">>, <<"binding", "bindAsked">>}
        /\ todo'[s] = todo[s]
      BY <1>1, <1>6 DEF AskIdentities, AskBind, GoTo
  <2>2. ToGo(s) = 2 * n + 1 /\ ToGo(s)' = 2 * n + 0
      BY <2>1 DEF ToGo
  <2>3. Stage(s)' = Stage(s)
      BY <2>1 DEF Stage
  <2> QED BY <1>1, <2>2, <2>3 DEF Advances
<1>7. CASE SkipMissing(s) \/ IdentitiesArrive(s) \/ SkipUnbindable(s) \/ BindAccepted(s)
           \/ BindRefused(s)
  <2> DEFINE Gone == todo[s] # <<>> /\ todo'[s] = Tail(todo[s])
             Hears == pc[s] \in {"refreshing", "asked"} /\ pc'[s] = "refreshing" /\ Gone
             Binds == pc[s] \in {"binding", "bindAsked"} /\ pc'[s] = "binding" /\ Gone
  <2>1. Hears \/ Binds
    <3> USE <1>1 DEF GoTo
    <3>1. CASE SkipMissing(s)
        BY <3>1 DEF SkipMissing
    <3>2. CASE IdentitiesArrive(s)
        BY <3>2 DEF IdentitiesArrive, MuxTypeOK, Coherent
    <3>3. CASE SkipUnbindable(s)
        BY <3>3 DEF SkipUnbindable, BindingMovesOn
    <3>4. CASE BindAccepted(s) \/ BindRefused(s)
        BY <3>4 DEF BindAccepted, BindRefused, BindingMovesOn, MuxTypeOK, Coherent
    <3> QED BY <1>7, <3>1, <3>2, <3>3, <3>4
  <2>2. ToGo(s)' = 2 * (n - 1) + 1
    <3>1. Len(todo'[s]) = n - 1 /\ pc'[s] \in {"refreshing", "binding"}
        BY <1>1, <2>1
    <3> QED BY <3>1 DEF ToGo
  <2>3. ToGo(s) \in {2 * n + 0, 2 * n + 1}
      BY DEF ToGo
  <2>4. Stage(s)' = Stage(s)
    <3>1. CASE Hears
        BY <3>1 DEF Stage
    <3>2. CASE Binds
        BY <3>2 DEF Stage
    <3> QED BY <2>1, <3>1, <3>2
  <2> HIDE DEF n
  <2> QED BY <1>1, <2>2, <2>3, <2>4 DEF Advances
<1> QED BY <1>2, <1>3, <1>4, <1>5, <1>6, <1>7
        DEF Step, RefreshFails, ListingEnds, KeyNotFound, DialFails, SignatureArrives,
            SigningFails, BindingEnds

(* A request moves in its session's own steps only, and only forward. *)
LEMMA RequestsStand ==
    ASSUME MuxTypeOK, [MuxNext]_vars, NEW t \in Sessions, pc[t] # "idle", ~ Step(t)
    PROVE  UNCHANGED <<pc[t], todo[t], route[t], genOf[t], wanted[t]>>
<1> DEFINE Stands == UNCHANGED <<pc[t], todo[t], route[t], genOf[t], wanted[t]>>
<1> USE DEF MuxTypeOK, GoTo
<1>1. ASSUME NEW s \in Sessions \ {t}, NEW outcome, Answer(s, outcome) PROVE Stands
    BY <1>1 DEF Answer
<1>2. ASSUME NEW s \in Sessions \ {t},
             UseCached(s) \/ StartRefresh(s) \/ SkipMissing(s) \/ AskIdentities(s)
             \/ IdentitiesArrive(s) \/ KeyFound(s)
      PROVE  Stands
    BY <1>2 DEF UseCached, StartRefresh, Snapshot, SkipMissing, AskIdentities,
                IdentitiesArrive, KeyFound
<1>3. ASSUME NEW s \in Sessions \ {t},
             AskSignature(s) \/ SkipUnbindable(s) \/ AskBind(s) \/ BindAccepted(s)
             \/ BindRefused(s)
      PROVE  Stands
    BY <1>3 DEF AskSignature, SkipUnbindable, AskBind, BindAccepted, BindRefused,
                BindingMovesOn
<1>4. ASSUME NEW s \in Sessions \ {t}, Step(s) PROVE Stands
    BY <1>1, <1>2, <1>3, <1>4
       DEF Step, RefreshFails, ListingEnds, KeyNotFound, DialFails, SignatureArrives,
           SigningFails, BindingEnds
<1>5. ASSUME NEW s \in Sessions, Client(s) PROVE Stands
    BY <1>5 DEF Client, Connect, Receive, StartBinding, Snapshot
<1>6. CASE World \/ ThreadAlone
    BY <1>6 DEF World, BacklogDrains, ThreadAlone, Sighup, SocketsChange, AgentStarts, AgentStops, AgentCrashes, AgentEnds,
                KeysChange, sessionVars
<1> QED BY <1>4, <1>5, <1>6, ThreadSteps

(* A request never goes back.  With NobodyWaitsInVain it leaves to a request  *)
(* that gets no answer nothing but a session that could go on and is not run, *)
(* an agent that hangs, or a connect that holds the thread.                   *)
THEOREM RequestsMakeProgress == MuxSpec => RequestsAdvance
<1>1. MuxTypeOK /\ [MuxNext]_vars =>
        [\A s \in Sessions : pc[s] # "idle" =>
            \/ pc'[s] = "idle" \/ Advances(s)
            \/ UNCHANGED <<pc[s], todo[s], route[s], genOf[s], wanted[s]>>]_vars
    BY StepAdvances, RequestsStand
<1> QED BY <1>1, TypeCorrect, PTL DEF MuxSpec, RequestsAdvance
=============================================================================
