------------------------- MODULE SocketManagerProofs -------------------------
(***************************************************************************)
(* Proofs about the socket manager, which the components that use it rest   *)
(* on, for any number of paths and either clock.                            *)
(***************************************************************************)
EXTENDS SocketManager, FiniteSetTheorems, SequenceTheorems, TLAPS

(* The list that the manager hands out is a list of paths. *)
LEMMA OrderedSocketsType ==
    ASSUME ManagerTypeOK
    PROVE  OrderedSockets \subseteq Seq(Paths)
<1> SUFFICES ASSUME NEW order \in NewestFirst
             PROVE  order \o configured \in Seq(Paths)
    BY DEF OrderedSockets
<1>1. DOMAIN watched \subseteq Paths
    BY DEF ManagerTypeOK
<1>2. Cardinality(DOMAIN watched) \in Nat
    BY <1>1, ManagerAssumption, FS_Subset, FS_CardinalityType DEF ManagerAssumption
<1>3. order \in [1 .. Cardinality(DOMAIN watched) -> DOMAIN watched]
    BY DEF NewestFirst, SetToSeqs
<1>4. order \in Seq(Paths)
    BY <1>1, <1>2, <1>3
<1> QED BY <1>4, ManagerAssumption DEF ManagerTypeOK, ManagerAssumption

(* The steps of the manager keep its types. *)
LEMMA ManagerStepType ==
    ASSUME ManagerTypeOK,
           \/ \E p \in Paths : AddWatched(p) \/ RemoveWatched(p)
           \/ ValidateAndCleanup
           \/ \E list \in Configs : UpdateConfigured(list)
           \/ \E p \in Paths : SocketFileAppears(p) \/ SocketFileVanishes(p)
           \/ UNCHANGED managerVars
    PROVE  ManagerTypeOK'
<1> USE ManagerAssumption DEF ManagerAssumption, ManagerTypeOK, Stamps
<1>1. CASE \E p \in Paths : AddWatched(p)
  <2> PICK p \in Paths : AddWatched(p)
      BY <1>1
  <2>1. PICK t \in Now :
            /\ watched' = [q \in DOMAIN watched \cup {p} |-> IF q = p THEN t ELSE watched[q]]
            /\ clock' = t
      BY DEF AddWatched
  <2>2. t \in 0 .. MaxStamp
      BY DEF Now
  <2>3. watched' \in [DOMAIN watched \cup {p} -> 0 .. MaxStamp]
      BY <2>1, <2>2
  <2> QED BY <2>1, <2>2, <2>3 DEF AddWatched
<1>2. CASE \E p \in Paths : RemoveWatched(p)
    BY <1>2 DEF RemoveWatched, Restrict
<1>3. CASE ValidateAndCleanup
    BY <1>3 DEF ValidateAndCleanup, Restrict
<1>4. CASE \E list \in Configs : UpdateConfigured(list)
    BY <1>4 DEF UpdateConfigured
<1>5. CASE \E p \in Paths : SocketFileAppears(p) \/ SocketFileVanishes(p)
    BY <1>5 DEF SocketFileAppears, SocketFileVanishes, managerState
<1>6. CASE UNCHANGED managerVars
    BY <1>6 DEF managerVars
<1> QED BY <1>1, <1>2, <1>3, <1>4, <1>5, <1>6

-----------------------------------------------------------------------------
LEMMA ManagerInitType == ManagerInit => ManagerTypeOK
<1> SUFFICES ASSUME ManagerInit PROVE ManagerTypeOK
    OBVIOUS
<1>1. configured \in Configs /\ onDisk \subseteq Paths
    BY DEF ManagerInit
<1>2. clock \in Stamps
    BY ManagerAssumption DEF ManagerInit, ManagerAssumption, Stamps
<1>3. watched \in [{} -> Stamps]
    BY DEF ManagerInit
<1> QED BY <1>1, <1>2, <1>3 DEF ManagerTypeOK

(* The manager keeps its types: no operation puts anything but a path in its *)
(* lists or leaves a watched socket without a stamp (SocketManager).         *)
THEOREM ManagerTypes == ManagerSpec => []ManagerTypeOK
<1>1. ManagerTypeOK /\ [ManagerNext]_managerVars => ManagerTypeOK'
    BY ManagerStepType DEF ManagerNext
<1> QED BY <1>1, ManagerInitType, PTL DEF ManagerSpec
=============================================================================
