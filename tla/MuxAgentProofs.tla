--------------------------- MODULE MuxAgentProofs ---------------------------
(***************************************************************************)
(* Proofs about the multiplexing agent, for any number of sessions, paths, *)
(* keys and generations.                                                   *)
(***************************************************************************)
EXTENDS MuxAgent, PriorityProofs

(* A reply leaves every local of the request at its initial value. *)
LEMMA AnswerType ==
    ASSUME MuxTypeOK, NEW s \in Sessions, NEW outcome \in Replies, Answer(s, outcome),
           lockQ' \in [Gens -> Seq(Sessions)], dialling' \in Sessions \cup {None}
    PROVE  MuxTypeOK'
<1>1. ManagerTypeOK'
    BY ManagerStepType DEF Answer, MuxTypeOK
<1>2. pc' \in [Sessions -> Control] /\ reply' \in [Sessions -> Replies]
    BY DEF MuxTypeOK, Answer, GoTo, Control
<1>3. /\ wanted' \in [Sessions -> Requests \cup {None}]
      /\ route' \in [Sessions -> Paths \cup {None}]
      /\ bound' \in [Sessions -> BOOLEAN]
      /\ steady' \in [Sessions -> SUBSET Paths]
      /\ broken' \subseteq Sessions
    BY DEF MuxTypeOK, Answer
<1>4. todo' \in [Sessions -> Seq(Paths)]
    <2>1. <<>> \in Seq(Paths)
        OBVIOUS
    <2> QED BY <2>1 DEF MuxTypeOK, Answer
<1>5. heard' \in [Sessions -> Seq(Hearsay)]
    <2>1. <<>> \in Seq(Hearsay)
        OBVIOUS
    <2> QED BY <2>1 DEF MuxTypeOK, Answer
<1>6. Coherent'
    BY DEF MuxTypeOK, Coherent, Answer, GoTo
<1> QED BY <1>1, <1>2, <1>3, <1>4, <1>5, <1>6 DEF MuxTypeOK, Answer, agentVars

LEMMA ReleaseType ==
    ASSUME MuxTypeOK, NEW s \in Sessions, Holds(s), Release(s)
    PROVE  lockQ' \in [Gens -> Seq(Sessions)]
<1>1. Tail(lockQ[genOf[s]]) \in Seq(Sessions)
    BY DEF MuxTypeOK, Holds
<1> QED BY <1>1 DEF MuxTypeOK, Release

LEMMA EmptyMapType == EmptyMap \in KeyMaps
<1>1. EmptyMap \in [{} -> Paths]
    BY DEF EmptyMap
<1> QED BY <1>1 DEF KeyMaps

LEMMA MuxInitType == MuxInit => MuxTypeOK
<1> SUFFICES ASSUME MuxInit PROVE MuxTypeOK
    OBVIOUS
<1>1. ManagerTypeOK
    <2>1. {} \in SUBSET Paths /\ watched \in [{} -> Stamps]
        BY DEF MuxInit, ManagerInit
    <2>2. configured \in Configs /\ clock \in Stamps /\ onDisk \subseteq Paths
        BY ManagerAssumption DEF ManagerAssumption, MuxInit, ManagerInit, Stamps
    <2> QED BY <2>1, <2>2 DEF ManagerTypeOK
<1>2. EmptyMap \in KeyMaps
    BY EmptyMapType
<1>3. <<>> \in Seq(Sessions) /\ <<>> \in Seq(Paths)
      /\ <<>> \in Seq(Hearsay)
    OBVIOUS
<1>4. Listed \subseteq Paths
    BY <1>1, ManagerAssumption DEF Listed, ToSet, ManagerTypeOK, ManagerAssumption
<1> QED BY <1>1, <1>2, <1>3, <1>4, MuxAssumption, ManagerAssumption
        DEF MuxInit, MuxTypeOK, Coherent, MuxAssumption, ManagerInit, Gens, Control, Replies, Requests

(* Taking the snapshot: a list of paths, and the history of who is up. *)
LEMMA SnapshotType ==
    ASSUME MuxTypeOK, NEW s \in Sessions, Snapshot(s)
    PROVE  /\ todo' \in [Sessions -> Seq(Paths)]
           /\ steady' \in [Sessions -> SUBSET Paths]
           /\ \A t \in Sessions \ {s} : todo'[t] = todo[t]
<1>1. PICK order \in OrderedSockets :
          /\ todo' = [todo EXCEPT ![s] = order]
          /\ steady' = [steady EXCEPT ![s] = listening \cap ToSet(order)]
    BY DEF Snapshot
<1>2. order \in Seq(Paths)
    BY OrderedSocketsType DEF MuxTypeOK
<1> QED BY <1>1, <1>2 DEF MuxTypeOK

(* Routing a set of keys to one agent keeps the shape of the map. *)
LEMMA RoutedMapType ==
    ASSUME NEW m \in KeyMaps, NEW keys \in SUBSET Keys, NEW p \in Paths
    PROVE  Routed(m, keys, p) \in KeyMaps
<1>1. PICK cached \in SUBSET Keys : m \in [cached -> Paths]
    BY DEF KeyMaps
<1>2. Routed(m, keys, p) \in [cached \cup keys -> Paths]
    BY <1>1 DEF Routed
<1> QED BY <1>1, <1>2 DEF KeyMaps

LEMMA CachedRoute ==
    ASSUME NEW m \in KeyMaps, NEW k \in DOMAIN m
    PROVE  k \in Keys /\ m[k] \in Paths
BY DEF KeyMaps

LEMMA MovesOnType ==
    ASSUME MuxTypeOK, NEW s \in Sessions, NEW outcome \in BOOLEAN,
           todo[s] # <<>>, pc[s] \in {"binding", "bindAsked"}, BindingMovesOn(s, outcome),
           dialling' \in Sessions \cup {None}
    PROVE  MuxTypeOK'
<1> USE DEF MuxTypeOK, Coherent, GoTo, Control, cacheVars, agentVars, historyVars
<1>1. ManagerTypeOK'
    BY ManagerStepType DEF BindingMovesOn
<1>2. todo' \in [Sessions -> Seq(Paths)]
    BY DEF BindingMovesOn
<1>3. /\ pc' \in [Sessions -> Control]
      /\ Coherent'
    BY DEF BindingMovesOn
<1>4. bound' \in [Sessions -> BOOLEAN] /\ broken' \subseteq Sessions
    BY DEF BindingMovesOn
<1>5. UNCHANGED <<gen, known, lockQ, genOf, wanted, heard, route, reply, listening,
      offers, steady, reach>>
    BY DEF BindingMovesOn
<1> QED BY <1>1, <1>2, <1>3, <1>4, <1>5

(* The types survive every step of a session. *)
LEMMA StepType ==
    ASSUME MuxTypeOK, NEW s \in Sessions, pc[s] \in Holding => Holds(s), Step(s)
    PROVE  MuxTypeOK'
<1> USE DEF MuxTypeOK, Coherent, GoTo, Control, cacheVars, agentVars, historyVars
<1>0. UNCHANGED managerVars => ManagerTypeOK'
    BY ManagerStepType
<1>d. dialling' \in Sessions \cup {None}
    BY DEF Step, Runs
<1> USE <1>d
<1>1. CASE UseCached(s)
  <2>1. ManagerTypeOK'
      BY <1>0, <1>1 DEF UseCached
  <2>2. lockQ' \in [Gens -> Seq(Sessions)]
      BY <1>1, ReleaseType DEF UseCached
  <2>3. known[genOf[s]][wanted[s]] \in Paths
      BY <1>1, CachedRoute DEF UseCached
  <2>4. /\ route' \in [Sessions -> Paths \cup {None}]
        /\ pc' \in [Sessions -> Control]
        /\ Coherent'
      BY <1>1, <2>3, MuxAssumption DEF UseCached, MuxAssumption
  <2>5. UNCHANGED <<gen, known, genOf, wanted, todo, heard, bound, broken, reply,
        listening, offers, steady, reach>>
      BY <1>1 DEF UseCached
  <2> QED BY <2>1, <2>2, <2>3, <2>4, <2>5
<1>2. CASE StartRefresh(s)
  <2>1. ManagerTypeOK'
      BY <1>0, <1>2 DEF StartRefresh
  <2>2. EmptyMap \in KeyMaps
      BY EmptyMapType
  <2>3. /\ todo' \in [Sessions -> Seq(Paths)]
        /\ steady' \in [Sessions -> SUBSET Paths]
        /\ \A t \in Sessions \ {s} : todo'[t] = todo[t]
      BY <1>2, SnapshotType DEF StartRefresh
  <2>4. known' \in [Gens -> KeyMaps]
      BY <1>2, <2>2 DEF StartRefresh
  <2>6. pc' \in [Sessions -> Control] /\ Coherent'
      BY <1>2, <2>3 DEF StartRefresh
  <2>5. UNCHANGED <<gen, lockQ, genOf, wanted, heard, route, bound, broken, reply,
        listening, offers, reach>>
      BY <1>2 DEF StartRefresh
  <2> QED BY <2>1, <2>3, <2>4, <2>5, <2>6
<1>3. CASE SkipMissing(s)
  <2>1. ManagerTypeOK'
      BY <1>0, <1>3 DEF SkipMissing
  <2>2. todo' \in [Sessions -> Seq(Paths)] /\ Coherent'
      BY <1>3 DEF SkipMissing
  <2>3. UNCHANGED <<gen, known, lockQ, pc, genOf, wanted, heard, route, bound, broken,
        reply, listening, offers, steady, reach>>
      BY <1>3 DEF SkipMissing
  <2> QED BY <2>1, <2>2, <2>3
<1>4. CASE AskIdentities(s)
  <2>1. ManagerTypeOK'
      BY <1>0, <1>4 DEF AskIdentities
  <2>2. /\ pc' \in [Sessions -> Control]
        /\ Coherent'
      BY <1>4 DEF AskIdentities
  <2>3. UNCHANGED <<gen, known, lockQ, genOf, wanted, todo, heard, route, bound,
        broken, reply, listening, offers, steady, reach>>
      BY <1>4 DEF AskIdentities
  <2> QED BY <2>1, <2>2, <2>3
<1>5. CASE IdentitiesArrive(s)
  <2>1. ManagerTypeOK'
      BY <1>0, <1>5 DEF IdentitiesArrive
  <2>2. PICK p \in Paths : p = Head(todo[s])
      BY <1>5 DEF IdentitiesArrive
  <2>3. known' \in [Gens -> KeyMaps]
    <3>1. Routed(known[genOf[s]], offers[p], p) \in KeyMaps
        BY <2>2, RoutedMapType
    <3> QED BY <1>5, <2>2, <3>1 DEF IdentitiesArrive
  <2>4. heard' \in [Sessions -> Seq(Hearsay)]
    <3>1. [from |-> p, keys |-> offers[p]] \in Hearsay
        BY <2>2 DEF Hearsay
    <3>2. Append(heard[s], [from |-> p, keys |-> offers[p]]) \in Seq(Hearsay)
        BY <3>1
    <3> QED BY <1>5, <2>2, <3>2 DEF IdentitiesArrive
  <2>5. todo' \in [Sessions -> Seq(Paths)]
      BY <1>5 DEF IdentitiesArrive
  <2>6. /\ pc' \in [Sessions -> Control]
        /\ Coherent'
      BY <1>5 DEF IdentitiesArrive
  <2>7. UNCHANGED <<gen, lockQ, genOf, wanted, route, bound, broken, reply, listening,
        offers, steady, reach>>
      BY <1>5 DEF IdentitiesArrive
  <2> QED BY <2>1, <2>2, <2>3, <2>4, <2>5, <2>6, <2>7
<1>6. CASE RefreshFails(s)
    BY <1>6, ReleaseType, AnswerType DEF Holding, RefreshFails, Replies
<1>7. CASE ListingEnds(s)
    BY <1>7, ReleaseType, AnswerType DEF Holding, ListingEnds, RefreshEnds, Replies
<1>8. CASE KeyFound(s)
  <2>1. ManagerTypeOK'
      BY <1>0, <1>8 DEF KeyFound
  <2>2. lockQ' \in [Gens -> Seq(Sessions)]
      BY <1>8, ReleaseType DEF Holding, KeyFound, RefreshEnds
  <2>3. known[genOf[s]][wanted[s]] \in Paths
      BY <1>8, CachedRoute DEF KeyFound
  <2>4. /\ route' \in [Sessions -> Paths \cup {None}]
        /\ pc' \in [Sessions -> Control]
        /\ Coherent'
      BY <1>8, <2>3, MuxAssumption DEF KeyFound, MuxAssumption
  <2>5. UNCHANGED <<gen, known, genOf, wanted, todo, heard, bound, broken, reply,
        listening, offers, steady, reach>>
      BY <1>8 DEF KeyFound
  <2> QED BY <2>1, <2>2, <2>3, <2>4, <2>5
<1>9. CASE KeyNotFound(s)
    BY <1>9, ReleaseType, AnswerType DEF Holding, KeyNotFound, RefreshEnds, Replies
<1>10. CASE DialFails(s)
    BY <1>10, AnswerType DEF DialFails, Replies
<1>11. CASE AskSignature(s)
  <2>1. ManagerTypeOK'
      BY <1>0, <1>11 DEF AskSignature
  <2>2. /\ pc' \in [Sessions -> Control]
        /\ Coherent'
      BY <1>11 DEF AskSignature
  <2>3. UNCHANGED <<gen, known, lockQ, genOf, wanted, todo, heard, route, bound,
        broken, reply, listening, offers, steady, reach>>
      BY <1>11 DEF AskSignature
  <2> QED BY <2>1, <2>2, <2>3
<1>12. CASE SignatureArrives(s)
    BY <1>12, AnswerType DEF SignatureArrives, Replies
<1>13. CASE SigningFails(s)
    BY <1>13, AnswerType DEF SigningFails, Replies
<1>14. CASE SkipUnbindable(s)
    BY <1>0, <1>14, MovesOnType DEF SkipUnbindable
<1>15. CASE AskBind(s)
  <2>1. ManagerTypeOK'
      BY <1>0, <1>15 DEF AskBind
  <2>2. /\ pc' \in [Sessions -> Control]
        /\ Coherent'
      BY <1>15 DEF AskBind
  <2>3. UNCHANGED <<gen, known, lockQ, genOf, wanted, todo, heard, route, bound,
        broken, reply, listening, offers, steady, reach>>
      BY <1>15 DEF AskBind
  <2> QED BY <2>1, <2>2, <2>3
<1>16. CASE BindAccepted(s)
    BY <1>0, <1>16, MovesOnType DEF BindAccepted
<1>17. CASE BindRefused(s)
    BY <1>0, <1>17, MovesOnType DEF BindRefused
<1>18. CASE BindingEnds(s)
    BY <1>18, AnswerType DEF BindingEnds, Replies
<1> QED BY <1>1, <1>2, <1>3, <1>4, <1>5, <1>6, <1>7, <1>8, <1>9, <1>10, <1>11, <1>12,
           <1>13, <1>14, <1>15, <1>16, <1>17, <1>18 DEF Step

(* ... and every step of the clients, the signals and the agents. *)
LEMMA ClientType ==
    ASSUME MuxTypeOK, NEW s \in Sessions, Client(s)
    PROVE  MuxTypeOK'
<1> USE DEF MuxTypeOK, Coherent, GoTo, Control, cacheVars, agentVars, historyVars
<1>0. UNCHANGED managerVars => ManagerTypeOK'
    BY ManagerStepType
<1>d. dialling' \in Sessions \cup {None}
    BY DEF Client, Runs
<1> USE <1>d
<1>1. CASE Connect(s)
  <2>1. ManagerTypeOK'
      BY <1>0, <1>1 DEF Connect
  <2>2. /\ genOf' \in [Sessions -> Gens]
        /\ reply' \in [Sessions -> Replies]
      BY <1>1 DEF Connect, Replies
  <2>3. UNCHANGED <<gen, known, lockQ, pc, wanted, todo, heard, route, bound, broken,
        listening, offers, steady, reach>>
      BY <1>1 DEF Connect
  <2> QED BY <2>1, <2>2, <2>3
<1>2. CASE \E request \in Requests : Receive(s, request)
  <2>1. ManagerTypeOK'
      BY <1>0, <1>2 DEF Receive
  <2>2. lockQ' \in [Gens -> Seq(Sessions)]
      BY <1>2 DEF Receive
  <2>3. /\ pc' \in [Sessions -> Control]
        /\ wanted' \in [Sessions -> Requests \cup {None}]
        /\ reply' \in [Sessions -> Replies]
        /\ Coherent'
      BY <1>2 DEF Receive, Replies
  <2>4. UNCHANGED <<gen, known, genOf, todo, heard, route, bound, broken, listening,
        offers, steady, reach>>
      BY <1>2 DEF Receive
  <2> QED BY <2>1, <2>2, <2>3, <2>4
<1>3. CASE StartBinding(s)
  <2>1. ManagerTypeOK'
      BY <1>0, <1>3 DEF StartBinding
  <2>2. /\ todo' \in [Sessions -> Seq(Paths)]
        /\ steady' \in [Sessions -> SUBSET Paths]
        /\ \A t \in Sessions \ {s} : todo'[t] = todo[t]
      BY <1>3, SnapshotType DEF StartBinding
  <2>3. wanted' \in [Sessions -> Requests \cup {None}] /\ reply' \in [Sessions -> Replies]
      BY <1>3 DEF StartBinding, Replies, Requests
  <2>5. pc' \in [Sessions -> Control] /\ Coherent'
      BY <1>3, <2>2 DEF StartBinding
  <2>4. UNCHANGED <<gen, known, lockQ, genOf, heard, route, bound, broken, listening,
        offers, reach>>
      BY <1>3 DEF StartBinding
  <2> QED BY <2>1, <2>2, <2>3, <2>4, <2>5
<1> QED BY <1>1, <1>2, <1>3 DEF Client

(* A step that takes the thread or frees it changes nothing else. *)
ThreadAlone ==
    UNCHANGED <<managerVars, gen, cacheVars, sessionVars, broken, agentVars, historyVars>>

LEMMA ThreadType ==
    ASSUME MuxTypeOK, ThreadAlone, dialling' \in Sessions \cup {None}
    PROVE  MuxTypeOK'
<1>1. ManagerTypeOK'
    BY ManagerStepType DEF MuxTypeOK, ThreadAlone
<1> QED BY <1>1 DEF MuxTypeOK, Coherent, ThreadAlone, cacheVars, sessionVars, agentVars,
                    historyVars

LEMMA WorldType ==
    ASSUME MuxTypeOK, World
    PROVE  MuxTypeOK'
<1> USE DEF MuxTypeOK, Coherent, sessionVars, cacheVars, agentVars, historyVars
<1>1. CASE Sighup
  <2>1. ManagerTypeOK'
      BY <1>1, ManagerStepType DEF Sighup
  <2>2. Listed' \subseteq Paths
      BY <2>1, ManagerAssumption DEF Listed, ToSet, ManagerTypeOK, ManagerAssumption
  <2>3. EmptyMap \in KeyMaps
      BY EmptyMapType
  <2>4. gen' \in Gens
      BY <1>1, MuxAssumption DEF Sighup, Gens, MuxAssumption
  <2>5. known' \in [Gens -> KeyMaps]
      BY <1>1, <2>3 DEF Sighup
  <2>6. reach' \in [Gens -> SUBSET Paths]
      BY <1>1, <2>2 DEF Sighup, Reached
  <2>7. UNCHANGED <<lockQ, pc, genOf, wanted, todo, heard, route, bound, broken,
        reply, listening, offers, steady>>
      BY <1>1 DEF Sighup
  <2>8. dialling' = None
      BY <1>1 DEF Sighup, Runs
  <2> QED BY <2>1, <2>4, <2>5, <2>6, <2>7, <2>8
<1>2. CASE SocketsChange
  <2>1. ManagerTypeOK'
      BY <1>2, ManagerStepType DEF SocketsChange
  <2>2. Listed' \subseteq Paths
      BY <2>1, ManagerAssumption DEF Listed, ToSet, ManagerTypeOK, ManagerAssumption
  <2>3. reach' \in [Gens -> SUBSET Paths]
      BY <1>2, <2>2 DEF SocketsChange, Reached
  <2>4. UNCHANGED <<gen, known, lockQ, pc, genOf, wanted, todo, heard, route, bound,
        broken, reply, listening, offers, steady>>
      BY <1>2 DEF SocketsChange
  <2>5. dialling' = None
      BY <1>2 DEF SocketsChange, Runs
  <2> QED BY <2>1, <2>3, <2>4, <2>5
<1>3. ASSUME NEW p \in Volatile,
             AgentStarts(p) \/ AgentStops(p) \/ AgentCrashes(p) \/ KeysChange(p)
      PROVE  MuxTypeOK'
  <2>1. p \in Paths
      BY MuxAssumption DEF MuxAssumption
  <2>2. ManagerTypeOK'
      BY <1>3, <2>1, ManagerStepType DEF AgentStarts, AgentStops, AgentCrashes, KeysChange
  <2>3. listening' \subseteq Paths
      BY <1>3, <2>1 DEF AgentStarts, AgentStops, AgentCrashes, AgentEnds, KeysChange
  <2>6. offers' \in [Paths -> SUBSET Keys]
    <3>1. offers' = offers \/ \E keys \in SUBSET Keys : offers' = [offers EXCEPT ![p] = keys]
        BY <1>3 DEF AgentStarts, AgentStops, AgentCrashes, AgentEnds, KeysChange
    <3> QED BY <3>1
  <2>5. /\ broken' \subseteq Sessions
        /\ steady' \in [Sessions -> SUBSET Paths]
      BY <1>3 DEF AgentStarts, AgentStops, AgentCrashes, AgentEnds, KeysChange
  <2>4. UNCHANGED <<gen, known, lockQ, pc, genOf, wanted, todo, heard, route, bound,
        reply, reach>>
      BY <1>3 DEF AgentStarts, AgentStops, AgentCrashes, AgentEnds, KeysChange
  <2>7. dialling' \in Sessions \cup {None}
      BY <1>3 DEF AgentStarts, AgentStops, AgentCrashes, AgentEnds, KeysChange
  <2> QED BY <2>2, <2>3, <2>4, <2>5, <2>6, <2>7
<1>4. CASE BacklogDrains
    BY <1>4, ThreadType DEF ThreadAlone, BacklogDrains
<1> QED BY <1>1, <1>2, <1>3, <1>4 DEF World

-----------------------------------------------------------------------------
(* The queue for known_keys.  First, what leaving and joining a queue do.    *)
LEMMA LeaveQueue ==
    ASSUME NEW S, NEW q \in Seq(S), q # <<>>, IsInjective(q)
    PROVE  /\ IsInjective(Tail(q))
           /\ \A x : Contains(Tail(q), x) <=> x # Head(q) /\ Contains(q, x)
<1>1. /\ Len(q) \in Nat \ {0} /\ DOMAIN q = 1 .. Len(q)
      /\ DOMAIN Tail(q) = 1 .. Len(q) - 1 /\ Len(Tail(q)) = Len(q) - 1
      /\ \A i \in 1 .. Len(q) - 1 : Tail(q)[i] = q[i + 1]
      /\ Head(q) = q[1]
    OBVIOUS
<1>2. IsInjective(Tail(q))
    BY <1>1 DEF IsInjective
<1>3. ASSUME NEW x, Contains(Tail(q), x) PROVE x # Head(q) /\ Contains(q, x)
    BY <1>1, <1>3 DEF IsInjective, Contains
<1>4. ASSUME NEW x, x # Head(q), Contains(q, x) PROVE Contains(Tail(q), x)
  <2>1. PICK i \in 1 .. Len(q) : q[i] = x
      BY <1>4 DEF Contains
  <2>2. i - 1 \in 1 .. Len(q) - 1 /\ Tail(q)[i - 1] = x
      BY <1>1, <1>4, <2>1
  <2> QED BY <1>1, <2>2 DEF Contains
<1> QED BY <1>2, <1>3, <1>4

LEMMA JoinQueue ==
    ASSUME NEW S, NEW q \in Seq(S), NEW s \in S, IsInjective(q), ~ Contains(q, s)
    PROVE  /\ IsInjective(Append(q, s))
           /\ \A x : Contains(Append(q, s), x) <=> x = s \/ Contains(q, x)
           /\ q # <<>> => Append(q, s) # <<>> /\ Head(Append(q, s)) = Head(q)
<1>1. /\ Len(q) \in Nat /\ DOMAIN q = 1 .. Len(q)
      /\ Len(Append(q, s)) = Len(q) + 1 /\ DOMAIN Append(q, s) = 1 .. Len(q) + 1
      /\ \A i \in 1 .. Len(q) : Append(q, s)[i] = q[i]
      /\ Append(q, s)[Len(q) + 1] = s
    OBVIOUS
<1>2. IsInjective(Append(q, s))
    BY <1>1 DEF IsInjective, Contains
<1>3. \A x : Contains(Append(q, s), x) <=> x = s \/ Contains(q, x)
    BY <1>1 DEF Contains
<1>4. q # <<>> => Append(q, s) # <<>> /\ Head(Append(q, s)) = Head(q)
    OBVIOUS
<1> QED BY <1>2, <1>3, <1>4

Queued == {"queued"} \cup Holding

(* The holder leaves the critical section and the queue together. *)
LEMMA ReleaseDiscipline ==
    ASSUME MuxTypeOK, LockDiscipline, NEW s \in Sessions, Holds(s), Release(s),
           genOf' = genOf, NEW label, label \notin Queued, pc' = [pc EXCEPT ![s] = label]
    PROVE  LockDiscipline'
<1> DEFINE g == genOf[s]
           q == lockQ[g]
<1>1. /\ g \in Gens /\ q \in Seq(Sessions) /\ q # <<>> /\ Head(q) = s
      /\ IsInjective(q)
    BY DEF MuxTypeOK, LockDiscipline, Holds
<1>2. /\ IsInjective(Tail(q))
      /\ \A x : Contains(Tail(q), x) <=> x # s /\ Contains(q, x)
    BY <1>1, LeaveQueue
<1>3. /\ lockQ'[g] = Tail(q)
      /\ \A h \in Gens \ {g} : lockQ'[h] = lockQ[h]
    BY <1>1 DEF Release, MuxTypeOK
<1>4. pc'[s] = label /\ \A t \in Sessions \ {s} : pc'[t] = pc[t]
    BY DEF MuxTypeOK
<1> HIDE DEF g, q
<1>5. ASSUME NEW t \in Sessions, NEW h \in Gens
      PROVE  Contains(lockQ'[h], t) <=> h = genOf'[t] /\ pc'[t] \in Queued
  <2>1. Contains(lockQ[h], t) <=> h = genOf[t] /\ pc[t] \in Queued
      BY DEF LockDiscipline, Queued
  <2>2. CASE h = g
      BY <1>2, <1>3, <1>4, <2>1, <2>2 DEF g, q
  <2>3. CASE h # g
      BY <1>3, <1>4, <2>1, <2>3 DEF g
  <2> QED BY <2>2, <2>3
<1>6. ASSUME NEW t \in Sessions, pc'[t] \in Holding PROVE Holds(t)'
  <2>1. t # s /\ pc[t] \in Holding
      BY <1>4, <1>6 DEF Queued
  <2>2. Holds(t)
      BY <2>1 DEF LockDiscipline
  <2>3. genOf[t] # g /\ genOf[t] \in Gens
      BY <1>1, <2>1, <2>2 DEF Holds, MuxTypeOK, g, q
  <2> QED BY <1>3, <2>2, <2>3 DEF Holds
<1>7. ASSUME NEW h \in Gens PROVE IsInjective(lockQ'[h])
    BY <1>2, <1>3 DEF LockDiscipline
<1> QED BY <1>5, <1>6, <1>7 DEF LockDiscipline, Queued

(* A step that leaves the queues alone moves a session only within or only   *)
(* outside the part of the code that a queue stands for.                     *)
LEMMA SteadyDiscipline ==
    ASSUME MuxTypeOK, LockDiscipline, lockQ' = lockQ,
           \A t \in Sessions :
              /\ pc[t] \in Queued <=> pc'[t] \in Queued
              /\ pc[t] \in Queued => genOf'[t] = genOf[t]
              /\ pc'[t] \in Holding => Holds(t)
    PROVE  LockDiscipline'
BY DEF LockDiscipline, Holds, Queued

LEMMA StepDiscipline ==
    ASSUME MuxTypeOK, LockDiscipline, NEW s \in Sessions, Step(s)
    PROVE  LockDiscipline'
<1> USE DEF Queued, Holding, GoTo
<1>0. pc[s] \in Holding => Holds(s)
    BY DEF LockDiscipline
<1>1. CASE UseCached(s)
    BY <1>1, ReleaseDiscipline DEF UseCached
<1>2. CASE RefreshFails(s)
    BY <1>0, <1>2, ReleaseDiscipline DEF RefreshFails, Answer
<1>3. CASE ListingEnds(s)
    BY <1>0, <1>3, ReleaseDiscipline DEF ListingEnds, RefreshEnds, Answer
<1>4. CASE KeyFound(s)
    BY <1>0, <1>4, ReleaseDiscipline DEF KeyFound, RefreshEnds
<1>5. CASE KeyNotFound(s)
    BY <1>0, <1>5, ReleaseDiscipline DEF KeyNotFound, RefreshEnds, Answer
<1>6. CASE StartRefresh(s) \/ SkipMissing(s) \/ AskIdentities(s) \/ IdentitiesArrive(s)
  <2>1. lockQ' = lockQ /\ genOf' = genOf
      BY <1>6 DEF StartRefresh, SkipMissing, AskIdentities, IdentitiesArrive, cacheVars
  <2>2. Holds(s) /\ pc[s] \in Queued /\ pc'[s] \in Holding
      BY <1>0, <1>6 DEF StartRefresh, SkipMissing, AskIdentities, IdentitiesArrive, MuxTypeOK
  <2>3. \A t \in Sessions \ {s} : pc'[t] = pc[t]
      BY <1>6 DEF StartRefresh, SkipMissing, AskIdentities, IdentitiesArrive, MuxTypeOK
  <2> QED BY <2>1, <2>2, <2>3, SteadyDiscipline DEF LockDiscipline
<1>7. CASE \/ DialFails(s) \/ AskSignature(s) \/ SignatureArrives(s) \/ SigningFails(s)
           \/ SkipUnbindable(s) \/ AskBind(s) \/ BindAccepted(s) \/ BindRefused(s)
           \/ BindingEnds(s)
  <2> USE DEF DialFails, AskSignature, SignatureArrives, SigningFails, SkipUnbindable, AskBind,
              BindAccepted, BindRefused, BindingEnds, BindingMovesOn, Answer
  <2>1. lockQ' = lockQ /\ genOf' = genOf
      BY <1>7 DEF cacheVars
  <2>2. pc[s] \notin Queued /\ pc'[s] \notin Queued
      BY <1>7 DEF MuxTypeOK
  <2>3. \A t \in Sessions \ {s} : pc'[t] = pc[t]
      BY <1>7 DEF MuxTypeOK
  <2> QED BY <2>1, <2>2, <2>3, SteadyDiscipline DEF LockDiscipline
<1> QED BY <1>1, <1>2, <1>3, <1>4, <1>5, <1>6, <1>7 DEF Step

LEMMA ClientDiscipline ==
    ASSUME MuxTypeOK, LockDiscipline, NEW s \in Sessions, Client(s)
    PROVE  LockDiscipline'
<1> USE DEF Queued, Holding, GoTo
<1>1. CASE Connect(s)
  <2>1. /\ lockQ' = lockQ /\ pc' = pc /\ pc[s] = "idle"
        /\ \A t \in Sessions \ {s} : genOf'[t] = genOf[t]
      BY <1>1 DEF Connect, cacheVars, MuxTypeOK
  <2> QED BY <2>1, SteadyDiscipline DEF LockDiscipline
<1>2. CASE \E request \in Requests : Receive(s, request)
  <2>1. PICK request \in Requests : Receive(s, request)
      BY <1>2
  <2>2. /\ genOf' = genOf /\ pc[s] = "idle" /\ pc'[s] = "queued"
        /\ \A t \in Sessions \ {s} : pc'[t] = pc[t]
        /\ lockQ'[genOf[s]] = Append(lockQ[genOf[s]], s)
        /\ \A h \in Gens \ {genOf[s]} : lockQ'[h] = lockQ[h]
      BY <2>1 DEF Receive, MuxTypeOK
  <2>3. genOf[s] \in Gens /\ lockQ[genOf[s]] \in Seq(Sessions)
      BY DEF MuxTypeOK
  <2>4. IsInjective(lockQ[genOf[s]]) /\ ~ Contains(lockQ[genOf[s]], s)
      BY <2>2, <2>3 DEF LockDiscipline
  <2>5. /\ IsInjective(lockQ'[genOf[s]])
        /\ \A x : Contains(lockQ'[genOf[s]], x) <=> x = s \/ Contains(lockQ[genOf[s]], x)
        /\ lockQ[genOf[s]] # <<>> => /\ lockQ'[genOf[s]] # <<>>
                                    /\ Head(lockQ'[genOf[s]]) = Head(lockQ[genOf[s]])
      BY <2>2, <2>3, <2>4, JoinQueue
  <2>6. ASSUME NEW t \in Sessions, NEW h \in Gens
        PROVE  Contains(lockQ'[h], t) <=> h = genOf'[t] /\ pc'[t] \in Queued
    <3>1. Contains(lockQ[h], t) <=> h = genOf[t] /\ pc[t] \in Queued
        BY DEF LockDiscipline
    <3> QED BY <2>2, <2>5, <3>1
  <2>7. ASSUME NEW t \in Sessions, pc'[t] \in Holding PROVE Holds(t)'
    <3>1. t # s /\ Holds(t) /\ genOf[t] \in Gens
        BY <2>2, <2>7 DEF LockDiscipline, MuxTypeOK
    <3> QED BY <2>2, <2>5, <3>1 DEF Holds
  <2>8. ASSUME NEW h \in Gens PROVE IsInjective(lockQ'[h])
      BY <2>2, <2>5 DEF LockDiscipline
  <2> QED BY <2>6, <2>7, <2>8 DEF LockDiscipline
<1>3. CASE StartBinding(s)
  <2>1. /\ lockQ' = lockQ /\ genOf' = genOf /\ pc[s] = "idle" /\ pc'[s] = "binding"
        /\ \A t \in Sessions \ {s} : pc'[t] = pc[t]
      BY <1>3 DEF StartBinding, cacheVars, MuxTypeOK
  <2> QED BY <2>1, SteadyDiscipline DEF LockDiscipline
<1> QED BY <1>1, <1>2, <1>3 DEF Client

LEMMA WorldDiscipline ==
    ASSUME MuxTypeOK, LockDiscipline, World \/ ThreadAlone
    PROVE  LockDiscipline'
<1>1. lockQ' = lockQ /\ pc' = pc /\ genOf' = genOf
    BY DEF ThreadAlone, World, BacklogDrains, Sighup, SocketsChange, AgentStarts, AgentStops, AgentCrashes, AgentEnds,
           KeysChange, sessionVars, cacheVars
<1> QED BY <1>1, SteadyDiscipline DEF LockDiscipline

LockInv == MuxTypeOK /\ LockDiscipline

LEMMA LockInvInit == MuxInit => LockInv
<1> SUFFICES ASSUME MuxInit PROVE LockDiscipline
    BY MuxInitType DEF LockInv
<1>1. \A g \in Gens : lockQ[g] = <<>>
    BY DEF MuxInit
<1>2. \A s \in Sessions : pc[s] = "idle"
    BY DEF MuxInit
<1> QED BY <1>1, <1>2 DEF LockDiscipline, Holding, Contains, IsInjective

LEMMA LockInvStep == LockInv /\ [MuxNext]_vars => LockInv'
<1> SUFFICES ASSUME LockInv, [MuxNext]_vars PROVE LockInv'
    OBVIOUS
<1>1. ASSUME NEW s \in Sessions, Step(s) PROVE LockInv'
    BY <1>1, StepType, StepDiscipline DEF LockInv, LockDiscipline
<1>2. ASSUME NEW s \in Sessions, Client(s) PROVE LockInv'
    BY <1>2, ClientType, ClientDiscipline DEF LockInv
<1>3. CASE World
    BY <1>3, WorldType, WorldDiscipline DEF LockInv
<1>4. CASE (\E s \in Sessions : DialBlocks(s)) \/ UNCHANGED vars
  <2>1. ThreadAlone /\ dialling' \in Sessions \cup {None}
      BY <1>4 DEF ThreadAlone, DialBlocks, vars, LockInv, MuxTypeOK
  <2> QED BY <2>1, ThreadType, WorldDiscipline DEF LockInv
<1> QED BY <1>1, <1>2, <1>3, <1>4 DEF MuxNext

LEMMA ThreadSteps ==
    ASSUME [MuxNext]_vars
    PROVE  (\E s \in Sessions : Step(s) \/ Client(s)) \/ World \/ ThreadAlone
BY DEF MuxNext, DialBlocks, ThreadAlone, vars

(* Whatever the clients, the agents and the signals do, every variable of    *)
(* the agent keeps its type, and a session has a route exactly while it is   *)
(* dialling or awaiting a signature (MuxTypeOK, run mux_agent).              *)
THEOREM TypeCorrect == MuxSpec => []MuxTypeOK
<1>1. LockInv => MuxTypeOK
    BY DEF LockInv
<1> QED BY <1>1, LockInvInit, LockInvStep, PTL DEF MuxSpec

(* For any number of sessions, every path out of a request leaves the queue  *)
(* for known_keys as it should, and no two sessions refresh one map at once  *)
(* (LockDiscipline, run mux_agent).                                          *)
THEOREM LockIsDisciplined == MuxSpec => []LockDiscipline
<1>1. LockInv => LockDiscipline
    BY DEF LockInv
<1> QED BY <1>1, LockInvInit, LockInvStep, PTL DEF MuxSpec

-----------------------------------------------------------------------------
(* The map and what was heard.  A route inserted after another replaces it,  *)
(* so the map follows the last agent heard.                                  *)
LEMMA HearMore ==
    ASSUME NEW h \in Seq(Hearsay), NEW m \in KeyMaps, NEW r \in Hearsay, Matches(m, h)
    PROVE  Matches(Routed(m, r.keys, r.from), Append(h, r))
<1> DEFINE a == Append(h, r)
           n == Len(h) + 1
           m2 == Routed(m, r.keys, r.from)
<1>1. /\ Len(h) \in Nat /\ DOMAIN h = 1 .. Len(h) /\ DOMAIN a = 1 .. n
      /\ \A i \in 1 .. Len(h) : a[i] = h[i]
      /\ a[n] = r
    OBVIOUS
<1>2. /\ DOMAIN m2 = DOMAIN m \cup r.keys
      /\ \A k \in r.keys : m2[k] = r.from
      /\ \A k \in DOMAIN m \ r.keys : m2[k] = m[k]
    BY DEF Routed
<1> HIDE DEF a, m2
<1>3. ASSUME NEW i \in DOMAIN a PROVE a[i].keys \subseteq DOMAIN m2
    BY <1>1, <1>2 DEF Matches
<1>4. ASSUME NEW k \in DOMAIN m2
      PROVE  \E i \in DOMAIN a : Owns(a, i, k) /\ m2[k] = a[i].from
  <2>1. CASE k \in r.keys
    <3>1. n \in DOMAIN a /\ Owns(a, n, k) /\ m2[k] = a[n].from
        BY <1>1, <1>2, <2>1 DEF Owns
    <3> QED BY <3>1
  <2>2. CASE k \notin r.keys
    <3>1. k \in DOMAIN m /\ m2[k] = m[k]
        BY <1>2, <1>4, <2>2
    <3>2. PICK i \in DOMAIN h : Owns(h, i, k) /\ m[k] = h[i].from
        BY <3>1 DEF Matches
    <3>3. i \in DOMAIN a /\ a[i] = h[i] /\ Owns(a, i, k)
        BY <1>1, <2>2, <3>2 DEF Owns
    <3> QED BY <3>1, <3>2, <3>3
  <2> QED BY <2>1, <2>2
<1> QED BY <1>3, <1>4 DEF Matches, a, m2

LEMMA OneHolder ==
    ASSUME LockDiscipline, NEW s \in Sessions, NEW t \in Sessions,
           Holds(s), Holds(t), genOf[s] = genOf[t]
    PROVE  s = t
BY DEF Holds

(* Before its refresh a session has heard nothing; no session is ahead of    *)
(* the generation that listens.                                              *)
Unheard ==
    \A s \in Sessions : /\ pc[s] \in {"idle", "queued"} => heard[s] = <<>>
                        /\ genOf[s] <= gen

CacheInv == LockInv /\ CacheIsWhatWasHeard /\ Unheard

(* A step that changes neither a map nor what was heard, and lets no session *)
(* into the refresh.                                                         *)
LEMMA SteadyCache ==
    ASSUME CacheInv, known' = known, genOf' = genOf, gen' = gen,
           \A t \in Sessions :
              /\ pc'[t] \in Holding => pc[t] \in Holding /\ heard'[t] = heard[t]
              /\ pc'[t] \in {"idle", "queued"} =>
                    \/ heard'[t] = <<>>
                    \/ pc[t] \in {"idle", "queued"} /\ heard'[t] = heard[t]
    PROVE  CacheIsWhatWasHeard' /\ Unheard'
BY DEF CacheInv, CacheIsWhatWasHeard, Unheard

LEMMA StepCache ==
    ASSUME CacheInv, NEW s \in Sessions, Step(s)
    PROVE  CacheIsWhatWasHeard' /\ Unheard'
<1> USE DEF Holding, GoTo
<1>0. /\ pc \in [Sessions -> Control] /\ heard \in [Sessions -> Seq(Hearsay)]
      /\ known \in [Gens -> KeyMaps] /\ genOf \in [Sessions -> Gens]
    BY DEF CacheInv, LockInv, MuxTypeOK
<1>1. CASE StartRefresh(s)
  <2>1. /\ heard' = heard /\ genOf' = genOf /\ gen' = gen /\ heard[s] = <<>>
        /\ known'[genOf[s]] = EmptyMap
        /\ \A g \in Gens \ {genOf[s]} : known'[g] = known[g]
        /\ pc'[s] = "refreshing"
        /\ \A t \in Sessions \ {s} : pc'[t] = pc[t]
      BY <1>0, <1>1 DEF StartRefresh, CacheInv, Unheard
  <2>2. Matches(EmptyMap, <<>>)
      BY DEF Matches, EmptyMap
  <2>3. ASSUME NEW t \in Sessions, pc'[t] \in Holding
        PROVE  Matches(known'[genOf'[t]], heard'[t])
    <3>1. CASE t = s
        BY <2>1, <2>2, <3>1
    <3>2. CASE t # s
      <4>1. pc[t] \in Holding /\ Holds(t) /\ Holds(s)
          BY <1>1, <2>1, <2>3, <3>2 DEF StartRefresh, CacheInv, LockInv, LockDiscipline
      <4>2. genOf[t] # genOf[s]
          BY <3>2, <4>1, OneHolder DEF CacheInv, LockInv
      <4> QED BY <1>0, <2>1, <4>1, <4>2 DEF CacheInv, CacheIsWhatWasHeard
    <3> QED BY <3>1, <3>2
  <2>4. Unheard'
      BY <2>1 DEF CacheInv, Unheard
  <2> QED BY <2>3, <2>4 DEF CacheIsWhatWasHeard
<1>2. CASE IdentitiesArrive(s)
  <2> DEFINE p == Head(todo[s])
             r == [from |-> p, keys |-> offers[p]]
  <2>1. p \in Paths /\ r \in Hearsay
      BY <1>2 DEF IdentitiesArrive, CacheInv, LockInv, MuxTypeOK, Coherent, Hearsay
  <2>2. /\ genOf' = genOf /\ gen' = gen
        /\ known'[genOf[s]] = Routed(known[genOf[s]], r.keys, r.from)
        /\ \A g \in Gens \ {genOf[s]} : known'[g] = known[g]
        /\ heard'[s] = Append(heard[s], r)
        /\ \A t \in Sessions \ {s} : heard'[t] = heard[t]
        /\ pc[s] = "asked" /\ pc'[s] = "refreshing"
        /\ \A t \in Sessions \ {s} : pc'[t] = pc[t]
      BY <1>0, <1>2 DEF IdentitiesArrive
  <2> HIDE DEF r
  <2>3. Matches(known[genOf[s]], heard[s])
      BY <2>2 DEF CacheInv, CacheIsWhatWasHeard
  <2>4. Matches(known'[genOf[s]], heard'[s])
      BY <1>0, <2>1, <2>2, <2>3, HearMore
  <2>5. ASSUME NEW t \in Sessions, pc'[t] \in Holding
        PROVE  Matches(known'[genOf'[t]], heard'[t])
    <3>1. CASE t = s
        BY <2>2, <2>4, <3>1
    <3>2. CASE t # s
      <4>1. pc[t] \in Holding /\ Holds(t) /\ Holds(s)
          BY <2>2, <2>5, <3>2 DEF CacheInv, LockInv, LockDiscipline
      <4>2. genOf[t] # genOf[s]
          BY <3>2, <4>1, OneHolder DEF CacheInv, LockInv
      <4> QED BY <1>0, <2>2, <3>2, <4>1, <4>2 DEF CacheInv, CacheIsWhatWasHeard
    <3> QED BY <3>1, <3>2
  <2>6. Unheard'
      BY <2>2 DEF CacheInv, Unheard
  <2> QED BY <2>5, <2>6 DEF CacheIsWhatWasHeard
<1>3. ASSUME NEW outcome, Answer(s, outcome) PROVE CacheIsWhatWasHeard' /\ Unheard'
    BY <1>0, <1>3, SteadyCache DEF Answer
<1>4. CASE \/ UseCached(s) \/ SkipMissing(s) \/ AskIdentities(s) \/ KeyFound(s)
           \/ AskSignature(s) \/ SkipUnbindable(s) \/ AskBind(s) \/ BindAccepted(s)
           \/ BindRefused(s)
  <2> USE DEF UseCached, SkipMissing, AskIdentities, KeyFound, RefreshEnds, AskSignature,
              SkipUnbindable, AskBind, BindAccepted, BindRefused, BindingMovesOn
  <2>1. known' = known /\ genOf' = genOf /\ gen' = gen /\ heard' = heard
      BY <1>4 DEF cacheVars
  <2>2. /\ pc'[s] \in Holding => pc[s] \in Holding
        /\ pc'[s] \notin {"idle", "queued"}
        /\ \A t \in Sessions \ {s} : pc'[t] = pc[t]
      BY <1>0, <1>4
  <2> QED BY <2>1, <2>2, SteadyCache
<1> QED BY <1>1, <1>2, <1>3, <1>4
        DEF Step, RefreshFails, ListingEnds, KeyNotFound, DialFails, SignatureArrives,
            SigningFails, BindingEnds

LEMMA OtherCache ==
    ASSUME CacheInv, (\E s \in Sessions : Client(s)) \/ World \/ ThreadAlone
    PROVE  CacheIsWhatWasHeard' /\ Unheard'
<1>0. /\ pc \in [Sessions -> Control] /\ genOf \in [Sessions -> Gens]
      /\ known \in [Gens -> KeyMaps] /\ gen \in Gens
    BY DEF CacheInv, LockInv, MuxTypeOK
<1>1. ASSUME NEW s \in Sessions, Client(s) PROVE CacheIsWhatWasHeard' /\ Unheard'
  <2>1. CASE Connect(s)
    <3>1. /\ known' = known /\ gen' = gen /\ pc' = pc /\ heard' = heard /\ pc[s] = "idle"
          /\ genOf'[s] = gen /\ \A t \in Sessions \ {s} : genOf'[t] = genOf[t]
        BY <1>0, <2>1 DEF Connect, cacheVars
    <3> QED BY <1>0, <3>1 DEF CacheInv, CacheIsWhatWasHeard, Unheard, Holding, Gens
  <2>2. CASE (\E request \in Requests : Receive(s, request)) \/ StartBinding(s)
    <3>1. /\ known' = known /\ genOf' = genOf /\ gen' = gen /\ heard' = heard
          /\ pc[s] = "idle" /\ pc'[s] \in {"queued", "binding"}
          /\ \A t \in Sessions \ {s} : pc'[t] = pc[t]
        BY <1>0, <2>2 DEF Receive, StartBinding, GoTo, cacheVars
    <3> QED BY <3>1, SteadyCache DEF Holding
  <2> QED BY <1>1, <2>1, <2>2 DEF Client
<1>2. CASE Sighup
  <2>1. /\ pc' = pc /\ genOf' = genOf /\ heard' = heard /\ gen' = gen + 1
        /\ \A g \in Gens : g <= gen => known'[g] = known[g]
      BY <1>0, <1>2 DEF Sighup, sessionVars, Gens
  <2> QED BY <1>0, <2>1 DEF CacheInv, CacheIsWhatWasHeard, Unheard, Gens
<1>3. CASE \/ SocketsChange
           \/ \E p \in Volatile :
                 AgentStarts(p) \/ AgentStops(p) \/ AgentCrashes(p) \/ KeysChange(p)
           \/ BacklogDrains \/ ThreadAlone
  <2>1. known' = known /\ genOf' = genOf /\ gen' = gen /\ heard' = heard /\ pc' = pc
      BY <1>3 DEF SocketsChange, AgentStarts, AgentStops, AgentCrashes, AgentEnds, KeysChange,
                  BacklogDrains, ThreadAlone, sessionVars, cacheVars
  <2> QED BY <2>1, SteadyCache
<1> QED BY <1>1, <1>2, <1>3 DEF World

(* A session that refreshes builds its map from what it alone has heard, the *)
(* last agent to name a key owning it, for any number of sessions that share *)
(* the map and of generations (CacheIsWhatWasHeard, run mux_agent).          *)
THEOREM CacheIsSound == MuxSpec => []CacheIsWhatWasHeard
<1>1. MuxInit => CacheInv
  <2> SUFFICES ASSUME MuxInit PROVE CacheIsWhatWasHeard /\ Unheard
      BY LockInvInit DEF CacheInv
  <2> QED BY MuxAssumption
          DEF MuxInit, CacheIsWhatWasHeard, Unheard, Holding, MuxAssumption
<1>2. CacheInv /\ [MuxNext]_vars => CacheInv'
  <2> SUFFICES ASSUME CacheInv, [MuxNext]_vars PROVE CacheInv'
      OBVIOUS
  <2>1. LockInv'
      BY LockInvStep DEF CacheInv
  <2>2. CacheIsWhatWasHeard' /\ Unheard'
      BY ThreadSteps, StepCache, OtherCache
  <2> QED BY <2>1, <2>2 DEF CacheInv
<1>3. CacheInv => CacheIsWhatWasHeard
    BY DEF CacheInv
<1> QED BY <1>1, <1>2, <1>3, PTL DEF MuxSpec

-----------------------------------------------------------------------------
(* Routes and generations.  What a generation caches or is about to ask was  *)
(* listed by the manager at some moment since the generation began.          *)
LEMMA OrderedSocketsListed ==
    ASSUME ManagerTypeOK, NEW order \in OrderedSockets, NEW i \in DOMAIN order
    PROVE  order[i] \in Listed
<1>1. PICK newest \in NewestFirst : order = newest \o configured
    BY DEF OrderedSockets
<1>2. Cardinality(DOMAIN watched) \in Nat
    BY ManagerAssumption, FS_Subset, FS_CardinalityType DEF ManagerAssumption, ManagerTypeOK
<1>3. newest \in [1 .. Cardinality(DOMAIN watched) -> DOMAIN watched]
    BY DEF NewestFirst, SetToSeqs
<1>4. newest \in Seq(DOMAIN watched) /\ configured \in Seq(Paths)
    BY <1>2, <1>3, ManagerAssumption DEF ManagerTypeOK, ManagerAssumption
<1>5. /\ DOMAIN order = 1 .. Len(newest) + Len(configured)
      /\ \A j \in 1 .. Len(newest) : order[j] = newest[j]
      /\ \A j \in Len(newest) + 1 .. Len(newest) + Len(configured) :
            order[j] = configured[j - Len(newest)]
      /\ Len(newest) \in Nat /\ Len(configured) \in Nat
    BY <1>1, <1>4
<1>6. CASE i \in 1 .. Len(newest)
    BY <1>4, <1>5, <1>6 DEF Listed
<1>7. CASE i \in Len(newest) + 1 .. Len(newest) + Len(configured)
  <2>1. i - Len(newest) \in DOMAIN configured
      BY <1>4, <1>5, <1>7
  <2> QED BY <1>5, <1>7, <2>1 DEF Listed, ToSet
<1> QED BY <1>5, <1>6, <1>7

GenerationsBehind == \A s \in Sessions : genOf[s] <= gen
ListedReached == \A g \in Gens : g <= gen => Listed \subseteq reach[g]
CachedReached ==
    \A g \in Gens : g <= gen => \A k \in DOMAIN known[g] : known[g][k] \in reach[g]
TodoReached ==
    \A s \in Sessions : pc[s] \in Holding =>
        \A i \in DOMAIN todo[s] : todo[s][i] \in reach[genOf[s]]

RouteParts == GenerationsBehind /\ ListedReached /\ CachedReached /\ TodoReached
              /\ RoutesStayInGeneration

RouteInv == LockInv /\ RouteParts

LEMMA StepRoutes ==
    ASSUME RouteInv, NEW s \in Sessions, Step(s)
    PROVE  RouteParts'
<1> USE DEF Holding, GoTo
<1>0. /\ pc \in [Sessions -> Control] /\ genOf \in [Sessions -> Gens]
      /\ known \in [Gens -> KeyMaps] /\ route \in [Sessions -> Paths \cup {None}]
      /\ todo \in [Sessions -> Seq(Paths)] /\ gen \in Gens /\ genOf[s] <= gen
      /\ ManagerTypeOK /\ Coherent
    BY DEF RouteInv, RouteParts, LockInv, MuxTypeOK, GenerationsBehind
<1>1. /\ gen' = gen /\ genOf' = genOf /\ reach' = reach
      /\ watched' = watched /\ configured' = configured
    BY DEF Step, UseCached, StartRefresh, SkipMissing, AskIdentities, IdentitiesArrive,
           RefreshFails, ListingEnds, KeyFound, KeyNotFound, DialFails, AskSignature,
           SignatureArrives, SigningFails, SkipUnbindable, AskBind, BindAccepted, BindRefused,
           BindingEnds, BindingMovesOn, Answer, managerVars, historyVars
<1>2. GenerationsBehind' /\ ListedReached'
    BY <1>1 DEF RouteInv, RouteParts, GenerationsBehind, ListedReached, Listed, ToSet
<1>3. ASSUME known' = known,
             \A t \in Sessions :
                /\ pc'[t] \in Holding => pc[t] \in Holding /\ todo'[t] = todo[t]
                /\ route'[t] \in {route[t], None}
      PROVE  CachedReached' /\ TodoReached' /\ RoutesStayInGeneration'
    BY <1>1, <1>3 DEF RouteInv, RouteParts, CachedReached, TodoReached, RoutesStayInGeneration
<1>4. CASE UseCached(s) \/ KeyFound(s)
  <2>1. /\ known' = known /\ todo' = todo
        /\ wanted[s] \in DOMAIN known[genOf[s]]
        /\ route'[s] = known[genOf[s]][wanted[s]]
        /\ \A t \in Sessions \ {s} : route'[t] = route[t] /\ pc'[t] = pc[t]
        /\ pc'[s] = "routed"
      BY <1>0, <1>4 DEF UseCached, KeyFound, RefreshEnds
  <2>2. route'[s] \in reach[genOf[s]]
      BY <1>0, <2>1 DEF RouteInv, RouteParts, CachedReached
  <2> QED BY <1>1, <1>2, <2>1, <2>2
          DEF RouteInv, RouteParts, CachedReached, TodoReached, RoutesStayInGeneration
<1>5. CASE StartRefresh(s)
  <2>1. /\ route' = route
        /\ known'[genOf[s]] = EmptyMap
        /\ \A g \in Gens \ {genOf[s]} : known'[g] = known[g]
        /\ pc'[s] = "refreshing" /\ \A t \in Sessions \ {s} : pc'[t] = pc[t]
      BY <1>0, <1>5 DEF StartRefresh
  <2>2. PICK order \in OrderedSockets : todo' = [todo EXCEPT ![s] = order]
      BY <1>5 DEF StartRefresh, Snapshot
  <2>3. \A i \in DOMAIN order : order[i] \in reach[genOf[s]]
      BY <1>0, OrderedSocketsListed DEF RouteInv, RouteParts, ListedReached
  <2>4. TodoReached'
      BY <1>0, <1>1, <2>1, <2>2, <2>3 DEF RouteInv, RouteParts, TodoReached
  <2>5. CachedReached' /\ RoutesStayInGeneration'
      BY <1>1, <2>1 DEF RouteInv, RouteParts, CachedReached, RoutesStayInGeneration, EmptyMap
  <2> QED BY <1>2, <2>4, <2>5 DEF RouteParts
<1>6. CASE SkipMissing(s) \/ IdentitiesArrive(s)
  <2>1. /\ route' = route /\ pc[s] \in Holding /\ todo[s] # <<>>
        /\ todo' = [todo EXCEPT ![s] = Tail(@)]
        /\ \A t \in Sessions \ {s} : pc'[t] = pc[t]
      BY <1>0, <1>6 DEF SkipMissing, IdentitiesArrive, Coherent
  <2>2. \A i \in DOMAIN todo[s] : todo[s][i] \in reach[genOf[s]]
      BY <2>1 DEF RouteInv, RouteParts, TodoReached
  <2>3. \A i \in DOMAIN Tail(todo[s]) : Tail(todo[s])[i] \in reach[genOf[s]]
      BY <1>0, <2>1, <2>2
  <2>4. TodoReached'
      BY <1>0, <1>1, <2>1, <2>3 DEF RouteInv, RouteParts, TodoReached
  <2>5. Head(todo[s]) \in reach[genOf[s]]
      BY <1>0, <2>1, <2>2
  <2>6. CachedReached'
    <3>1. CASE SkipMissing(s)
        BY <1>1, <3>1 DEF SkipMissing, cacheVars, RouteInv, RouteParts, CachedReached
    <3>2. CASE IdentitiesArrive(s)
      <4>1. /\ known'[genOf[s]] = Routed(known[genOf[s]], offers[Head(todo[s])], Head(todo[s]))
            /\ \A g \in Gens \ {genOf[s]} : known'[g] = known[g]
          BY <1>0, <3>2 DEF IdentitiesArrive
      <4>2. \A k \in DOMAIN known'[genOf[s]] : known'[genOf[s]][k] \in reach[genOf[s]]
          BY <1>0, <2>5, <4>1 DEF Routed, RouteInv, RouteParts, CachedReached
      <4> QED BY <1>1, <4>1, <4>2 DEF RouteInv, RouteParts, CachedReached
    <3> QED BY <1>6, <3>1, <3>2
  <2> QED BY <1>1, <1>2, <2>1, <2>4, <2>6 DEF RouteInv, RouteParts, RoutesStayInGeneration
<1>7. ASSUME NEW outcome, Answer(s, outcome) PROVE RouteParts'
    BY <1>0, <1>2, <1>3, <1>7 DEF Answer, RouteParts
<1>8. CASE \/ AskIdentities(s) \/ AskSignature(s) \/ SkipUnbindable(s) \/ AskBind(s)
           \/ BindAccepted(s) \/ BindRefused(s)
  <2> USE DEF AskIdentities, AskSignature, SkipUnbindable, AskBind, BindAccepted, BindRefused,
              BindingMovesOn
  <2>1. known' = known /\ route' = route
      BY <1>8 DEF cacheVars
  <2>2. /\ pc'[s] \in Holding => pc[s] \in Holding /\ todo'[s] = todo[s]
        /\ \A t \in Sessions \ {s} : pc'[t] = pc[t] /\ todo'[t] = todo[t]
      BY <1>0, <1>8
  <2> QED BY <1>2, <1>3, <2>1, <2>2 DEF RouteParts
<1> QED BY <1>4, <1>5, <1>6, <1>7, <1>8
        DEF Step, RefreshFails, ListingEnds, KeyNotFound, DialFails, SignatureArrives,
            SigningFails, BindingEnds

LEMMA OtherRoutes ==
    ASSUME RouteInv, (\E s \in Sessions : Client(s)) \/ World \/ ThreadAlone
    PROVE  RouteParts'
<1>0. /\ pc \in [Sessions -> Control] /\ genOf \in [Sessions -> Gens]
      /\ known \in [Gens -> KeyMaps] /\ gen \in Gens /\ reach \in [Gens -> SUBSET Paths]
      /\ route \in [Sessions -> Paths \cup {None}] /\ todo \in [Sessions -> Seq(Paths)]
      /\ Coherent
    BY DEF RouteInv, RouteParts, LockInv, MuxTypeOK
<1>1. ASSUME NEW s \in Sessions, Client(s) PROVE RouteParts'
  <2>1. /\ gen' = gen /\ reach' = reach /\ known' = known /\ route' = route
        /\ watched' = watched /\ configured' = configured
        /\ pc[s] = "idle" /\ route[s] = None /\ pc'[s] \notin Holding
        /\ \A t \in Sessions \ {s} : pc'[t] = pc[t] /\ todo'[t] = todo[t]
      BY <1>0, <1>1, SnapshotType
         DEF Client, Connect, Receive, StartBinding, GoTo, Holding, Coherent, cacheVars,
             managerVars, historyVars, RouteInv, RouteParts, LockInv
  <2>2. genOf'[s] \in {genOf[s], gen} /\ \A t \in Sessions \ {s} : genOf'[t] = genOf[t]
      BY <1>0, <1>1 DEF Client, Connect, Receive, StartBinding
  <2>3. GenerationsBehind'
    <3> SUFFICES ASSUME NEW t \in Sessions PROVE genOf'[t] <= gen'
        BY DEF GenerationsBehind
    <3>1. genOf[t] <= gen /\ gen \in Int
        BY <1>0, MuxAssumption DEF RouteInv, RouteParts, GenerationsBehind, Gens
    <3>2. genOf'[t] \in {genOf[t], gen}
        BY <2>2
    <3> QED BY <2>1, <3>1, <3>2
  <2>4. ListedReached' /\ CachedReached'
      BY <2>1 DEF RouteInv, RouteParts, ListedReached, CachedReached, Listed, ToSet
  <2>5. TodoReached' /\ RoutesStayInGeneration'
      BY <2>1, <2>2 DEF RouteInv, RouteParts, TodoReached, RoutesStayInGeneration
  <2> QED BY <2>3, <2>4, <2>5 DEF RouteParts
<1>2. CASE Sighup \/ SocketsChange
  <2>1. /\ genOf' = genOf /\ route' = route /\ pc' = pc /\ todo' = todo
        /\ gen' \in {gen, gen + 1}
        /\ Reached
      BY <1>2 DEF Sighup, SocketsChange, sessionVars
  <2>2. \A g \in Gens : g <= gen' => reach'[g] = reach[g] \cup Listed'
      BY <2>1 DEF Reached
  <2>3. \A g \in Gens : g <= gen => reach[g] \subseteq reach'[g]
      BY <1>0, <2>1, <2>2 DEF Gens
  <2>4. \A g \in Gens : g <= gen' => (known'[g] = known[g] /\ g <= gen) \/ known'[g] = EmptyMap
    <3> SUFFICES ASSUME NEW g \in Gens, g <= gen'
                 PROVE  (known'[g] = known[g] /\ g <= gen) \/ known'[g] = EmptyMap
        OBVIOUS
    <3>1. CASE SocketsChange
        BY <3>1 DEF SocketsChange, cacheVars
    <3>2. CASE Sighup
      <4>1. gen' = gen + 1 /\ known' = [known EXCEPT ![gen'] = EmptyMap]
          BY <3>2 DEF Sighup
      <4>2. CASE g = gen'
          BY <1>0, <4>1, <4>2
      <4>3. CASE g # gen'
        <5>1. known'[g] = known[g]
            BY <1>0, <4>1, <4>3
        <5>2. g <= gen
            BY <1>0, <4>1, <4>3, MuxAssumption DEF Gens
        <5> QED BY <5>1, <5>2
      <4> QED BY <4>2, <4>3
    <3> QED BY <1>2, <3>1, <3>2
  <2>5. GenerationsBehind'
      BY <1>0, <2>1 DEF RouteInv, RouteParts, GenerationsBehind, Gens
  <2>6. ListedReached'
      BY <2>2 DEF ListedReached
  <2>7. CachedReached'
      BY <2>3, <2>4 DEF RouteInv, RouteParts, CachedReached, EmptyMap
  <2>8. TodoReached' /\ RoutesStayInGeneration'
      BY <1>0, <2>1, <2>3 DEF RouteInv, RouteParts, GenerationsBehind, TodoReached, RoutesStayInGeneration
  <2> QED BY <2>5, <2>6, <2>7, <2>8 DEF RouteParts
<1>3. CASE \/ \E p \in Volatile :
                 AgentStarts(p) \/ AgentStops(p) \/ AgentCrashes(p) \/ KeysChange(p)
           \/ BacklogDrains \/ ThreadAlone
  <2>1. /\ known' = known /\ genOf' = genOf /\ gen' = gen /\ reach' = reach
        /\ route' = route /\ pc' = pc /\ todo' = todo
        /\ watched' = watched /\ configured' = configured
      BY <1>3 DEF AgentStarts, AgentStops, AgentCrashes, AgentEnds, KeysChange, sessionVars,
                  cacheVars, historyVars, BacklogDrains, ThreadAlone, SocketFileAppears, SocketFileVanishes,
                  managerVars, managerState
  <2> QED BY <2>1 DEF RouteInv, RouteParts, GenerationsBehind, ListedReached, CachedReached,
                      TodoReached, RoutesStayInGeneration, Listed, ToSet
<1> QED BY <1>1, <1>2, <1>3 DEF World

LEMMA RouteInvInit == MuxInit => RouteInv
<1> SUFFICES ASSUME MuxInit PROVE RouteParts
    BY LockInvInit DEF RouteInv, RouteParts
<1> QED BY MuxAssumption
        DEF MuxInit, RouteParts, GenerationsBehind, ListedReached, CachedReached,
            TodoReached, RoutesStayInGeneration, EmptyMap, Holding, MuxAssumption, Gens

LEMMA RouteInvStep == RouteInv /\ [MuxNext]_vars => RouteInv'
<1> SUFFICES ASSUME RouteInv, [MuxNext]_vars PROVE RouteInv'
    OBVIOUS
<1>1. LockInv'
    BY LockInvStep DEF RouteInv
<1>2. RouteParts'
    BY ThreadSteps, StepRoutes, OtherRoutes
<1> QED BY <1>1, <1>2 DEF RouteInv, RouteParts

(* For any number of generations and sessions, a socket that was dropped     *)
(* before a generation began is never dialled for a signature by a session   *)
(* of that generation (RoutesStayInGeneration, run mux_live).                *)
THEOREM RoutesAreBounded == MuxSpec => []RoutesStayInGeneration
<1>1. RouteInv => RoutesStayInGeneration
    BY DEF RouteInv, RouteParts
<1> QED BY <1>1, RouteInvInit, RouteInvStep, PTL DEF MuxSpec

-----------------------------------------------------------------------------
(* Beneath the agent the manager takes the steps of its own specification:    *)
(* whoever changes the sockets or the configuration does it by one of the     *)
(* manager's operations, and the sessions only read.                          *)
LEMMA MuxStepsManage == [MuxNext]_vars => [ManagerNext]_managerVars
<1> SUFFICES ASSUME [MuxNext]_vars PROVE [ManagerNext]_managerVars
    OBVIOUS
<1>1. ASSUME NEW s \in Sessions, NEW outcome, Answer(s, outcome) PROVE UNCHANGED managerVars
    BY <1>1 DEF Answer
<1>2. ASSUME NEW s \in Sessions, Step(s) PROVE UNCHANGED managerVars
    BY <1>1, <1>2
       DEF Step, UseCached, StartRefresh, SkipMissing, AskIdentities, IdentitiesArrive,
           RefreshFails, ListingEnds, KeyFound, KeyNotFound, DialFails, AskSignature,
           SignatureArrives, SigningFails, SkipUnbindable, AskBind, BindAccepted, BindRefused,
           BindingMovesOn, BindingEnds
<1>3. ASSUME NEW s \in Sessions, Client(s) PROVE UNCHANGED managerVars
    BY <1>3 DEF Client, Connect, Receive, StartBinding
<1>4. CASE Sighup \/ SocketsChange
    BY <1>4 DEF Sighup, SocketsChange, ManagerNext
<1>5. ASSUME NEW p \in Volatile,
             AgentStarts(p) \/ AgentStops(p) \/ AgentCrashes(p) \/ KeysChange(p)
      PROVE  [ManagerNext]_managerVars
    BY <1>5, MuxAssumption
       DEF MuxAssumption, AgentStarts, AgentStops, AgentCrashes, KeysChange, ManagerNext
<1>6. CASE BacklogDrains \/ ThreadAlone
    BY <1>6 DEF BacklogDrains, ThreadAlone
<1> QED BY <1>2, <1>3, <1>4, <1>5, <1>6, ThreadSteps DEF World

THEOREM MuxManages == MuxSpec => ManagerSpec
<1>1. MuxInit => ManagerInit
    BY DEF MuxInit
<1> QED BY <1>1, MuxStepsManage, PTL DEF MuxSpec, ManagerSpec

(* The order in which the daemon offers its agents keeps the promise of the   *)
(* priority list through sessions, reloads, cleanups and the agents that come *)
(* and go.                                                                    *)
THEOREM MuxKeepsPriority == MuxSpec => KeepsPriority
    BY MuxManages, PriorityIsKept
=============================================================================
