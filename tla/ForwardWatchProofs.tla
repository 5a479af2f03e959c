------------------------- MODULE ForwardWatchProofs -------------------------
(***************************************************************************)
(* Proofs about the detection of forwarded agents, for any number of       *)
(* directories, sockets and changes of /tmp.                                *)
(***************************************************************************)
EXTENDS ForwardWatch, SocketManagerProofs

Creating == {<<"create">>, <<"modify">>, <<"remove", "create">>}
Pending == Creating \cup {<<>>, <<"remove">>}

PhaseOK ==
    /\ phase \in Phases /\ mode \in Modes
    /\ channel \in Seq(WatchEvents)
    /\ polled \subseteq Paths /\ silent \subseteq Paths

TmpOK ==
    /\ dirs \subseteq Dirs
    /\ changes \in 0 .. MaxChanges[mode]
    /\ inotify \subseteq dirs \ Sealed
    /\ \A p \in onDisk : DirOf[p] \in dirs

(* A creation or modification that the debouncer still holds is of a socket  *)
(* that is there, in a directory under watch: one at most can be pending for *)
(* a path.                                                                   *)
RawOK ==
    /\ raw \in [Paths -> Pending]
    /\ \A p \in Paths : raw[p] \in Creating => p \in onDisk /\ DirOf[p] \in inotify

(* A socket that was there since a scan began is found, or in a directory it *)
(* has still to read.                                                        *)
ScansOK ==
    /\ scanning \subseteq Scanners
    /\ left \in [Scanners -> SUBSET Dirs]
    /\ found \in [Scanners -> SUBSET Paths]
    /\ stayed \in [Scanners -> SUBSET onDisk]
    /\ \A w \in Scanners : \A p \in stayed[w] : DirOf[p] \in left[w] \/ p \in found[w]

HistoryOK ==
    /\ late \subseteq onDisk /\ gap \subseteq onDisk \ late
    /\ phase # "watching" => inotify = {} /\ late = {}

WatchInv == ManagerTypeOK /\ PhaseOK /\ TmpOK /\ RawOK /\ ScansOK /\ HistoryOK

LEMMA WatchInvImplies == WatchInv => WatchTypeOK
BY DEF WatchInv, WatchTypeOK, PhaseOK, TmpOK, RawOK, ScansOK, HistoryOK, Pending, Creating

LEMMA WatchInitInv == WatchInit => WatchInv
<1> SUFFICES ASSUME WatchInit PROVE WatchInv
    OBVIOUS
<1> USE WatchAssumption DEF WatchAssumption, WatchInit
<1>1. ManagerTypeOK
    BY ManagerInitType
<1>2. onDisk \subseteq Paths
    BY <1>1 DEF ManagerTypeOK
<1>3. PhaseOK
  <2>1. <<>> \in Seq(WatchEvents)
      OBVIOUS
  <2> QED BY <2>1 DEF PhaseOK, Phases
<1>4. TmpOK
  <2>1. MaxChanges[mode] \in Nat
      OBVIOUS
  <2> QED BY <2>1 DEF TmpOK
<1>5. RawOK
    BY DEF RawOK, Pending, Creating
<1>6. ScansOK
    BY <1>2 DEF ScansOK, Scanners
<1>7. HistoryOK
    BY DEF HistoryOK
<1> QED BY <1>1, <1>3, <1>4, <1>5, <1>6, <1>7 DEF WatchInv

-----------------------------------------------------------------------------
LEMMA Pair ==
    ASSUME NEW a, NEW b
    PROVE  Append(<<a>>, b) = <<a, b>>
<1>1. <<a>> \in Seq({a, b}) /\ <<a, b>> \in Seq({a, b})
    OBVIOUS
<1>2. /\ Append(<<a>>, b) \in Seq({a, b}) /\ Len(Append(<<a>>, b)) = 2
      /\ Append(<<a>>, b)[1] = a /\ Append(<<a>>, b)[2] = b
    BY <1>1
<1>3. \A i \in 1 .. 2 : Append(<<a>>, b)[i] = <<a, b>>[i]
    BY <1>2
<1> QED BY <1>1, <1>2, <1>3, SeqEqual

LEMMA DebouncedRemoval ==
    ASSUME NEW q \in Pending
    PROVE  Debounced(q, "remove") \in Pending \ Creating
<1>1. CASE q = <<>>
    BY <1>1 DEF Debounced, Pending, Creating
<1>2. CASE q \in Creating \cup {<<"remove">>}
    BY <1>2 DEF Debounced, Pending, Creating
<1> QED BY <1>1, <1>2 DEF Pending

LEMMA DebouncedCreation ==
    ASSUME NEW q \in Pending \ Creating
    PROVE  Debounced(q, "create") \in Creating
<1>1. CASE q = <<>>
    BY <1>1 DEF Debounced, Creating
<1>2. CASE q = <<"remove">>
  <2>1. Append(q, "create") = <<"remove", "create">>
      BY <1>2, Pair
  <2> QED BY <2>1 DEF Debounced, Creating
<1> QED BY <1>1, <1>2 DEF Pending

LEMMA DebouncedModification ==
    ASSUME NEW q \in Pending
    PROVE  Debounced(q, "modify") \in {q} \cup Creating
BY DEF Debounced, Creating

LEMMA ReportedTail ==
    ASSUME NEW q \in Pending, q # <<>>
    PROVE  Tail(q) \in Pending /\ (Tail(q) \in Creating => q \in Creating)
<1>1. ASSUME NEW kind, q = <<kind>>
      PROVE  Tail(q) \in Pending \ Creating
  <2>1. Tail(q) = <<>>
      BY <1>1
  <2> QED BY <2>1 DEF Pending, Creating
<1>2. CASE q = <<"remove", "create">>
  <2>1. Tail(q) = <<"create">>
      BY <1>2
  <2> QED BY <1>2, <2>1 DEF Pending, Creating
<1> QED BY <1>1, <1>2 DEF Pending, Creating

(* The events of a list, each once and in some order, are a list of events.  *)
LEMMA EventsType ==
    ASSUME NEW events, events \subseteq WatchEvents, IsFiniteSet(events), NEW order \in SetToSeqs(events)
    PROVE  order \in Seq(WatchEvents)
<1>1. Cardinality(events) \in Nat
    BY FS_CardinalityType
<1>2. order \in [1 .. Cardinality(events) -> events]
    BY DEF SetToSeqs
<1> QED BY <1>1, <1>2

LEMMA EventSetFinite ==
    ASSUME NEW S \in SUBSET Paths
    PROVE  /\ IsFiniteSet({Added(p) : p \in S}) /\ {Added(p) : p \in S} \subseteq WatchEvents
           /\ IsFiniteSet({Removed(p) : p \in S}) /\ {Removed(p) : p \in S} \subseteq WatchEvents
<1>1. IsFiniteSet(S)
    BY ManagerAssumption, FS_Subset DEF ManagerAssumption
<1>2. IsFiniteSet({Added(p) : p \in S}) /\ IsFiniteSet({Removed(p) : p \in S})
  <2> DEFINE f == [p \in S |-> Added(p)]
             g == [p \in S |-> Removed(p)]
  <2>1. f \in Surjection(S, {Added(p) : p \in S}) /\ g \in Surjection(S, {Removed(p) : p \in S})
      BY DEF Surjection
  <2> QED BY <1>1, <2>1, FS_Surjection
<1> QED BY <1>2 DEF Added, Removed, WatchEvents
-----------------------------------------------------------------------------
(* The parts of the invariant that a step leaves alone. *)
LEMMA PartsStay ==
    ASSUME WatchInv
    PROVE  /\ UNCHANGED <<phase, mode, channel, polled>> /\ silent' \subseteq Paths => PhaseOK'
           /\ UNCHANGED <<dirs, changes, inotify, onDisk, mode>> => TmpOK'
           /\ UNCHANGED <<raw, inotify, onDisk>> => RawOK'
           /\ UNCHANGED <<scanning, left, found, stayed, onDisk>> => ScansOK'
           /\ UNCHANGED <<late, gap, phase, inotify, onDisk>> => HistoryOK'
           /\ UNCHANGED managerVars => ManagerTypeOK'
<1>1. UNCHANGED managerVars => ManagerTypeOK'
    BY ManagerStepType DEF WatchInv
<1>2. UNCHANGED <<phase, mode, channel, polled>> /\ silent' \subseteq Paths => PhaseOK'
    BY DEF WatchInv, PhaseOK
<1>3. UNCHANGED <<dirs, changes, inotify, onDisk, mode>> => TmpOK'
    BY DEF WatchInv, TmpOK
<1>4. UNCHANGED <<raw, inotify, onDisk>> => RawOK'
    BY DEF WatchInv, RawOK
<1>5. UNCHANGED <<scanning, left, found, stayed, onDisk>> => ScansOK'
    BY DEF WatchInv, ScansOK
<1>6. UNCHANGED <<late, gap, phase, inotify, onDisk>> => HistoryOK'
    BY DEF WatchInv, HistoryOK
<1> QED BY <1>1, <1>2, <1>3, <1>4, <1>5, <1>6

LEMMA SilentStays == WatchInv /\ UNCHANGED silent => silent' \subseteq Paths
BY DEF WatchInv, PhaseOK

LEMMA ScanBeginsOK ==
    ASSUME WatchInv, NEW w \in Scanners, ScanBegins(w), UNCHANGED onDisk
    PROVE  ScansOK'
BY DEF WatchInv, ManagerTypeOK, TmpOK, ScansOK, ScanBegins

LEMMA ScanStopsOK ==
    ASSUME WatchInv, NEW w \in Scanners, ScanStops(w), UNCHANGED onDisk
    PROVE  ScansOK'
BY DEF WatchInv, ScansOK, ScanStops

(* Sockets found, added to those the manager watches. *)
LEMMA WithAllType ==
    ASSUME WatchInv, NEW paths \in SUBSET Paths, NEW t \in Now
    PROVE  /\ t \in Stamps
           /\ WithAll(paths, t) \in [DOMAIN watched \cup paths -> Stamps]
           /\ DOMAIN watched \cup paths \in SUBSET Paths
<1>1. t \in Stamps
    BY DEF Now
<1> QED BY <1>1 DEF WatchInv, ManagerTypeOK, WithAll, IsWatched

LEMMA ChangeOK ==
    ASSUME WatchInv, Change, silent' \subseteq silent
    PROVE  changes' \in 0 .. MaxChanges[mode'] /\ mode' = mode /\ PhaseOK'
<1>1. MaxChanges[mode] \in Nat
    BY WatchAssumption DEF WatchAssumption, WatchInv, PhaseOK
<1>2. changes' \in 0 .. MaxChanges[mode'] /\ mode' = mode
    BY <1>1 DEF Change, WatchInv, TmpOK
<1>3. PhaseOK'
    BY DEF Change, WatchInv, PhaseOK
<1> QED BY <1>2, <1>3

LEMMA TmpStepOK ==
    ASSUME WatchInv, Tmp
    PROVE  WatchInv'
<1> USE WatchAssumption DEF WatchAssumption
<1>0. ManagerTypeOK /\ onDisk \subseteq Paths
    BY DEF WatchInv, ManagerTypeOK
<1>1. ASSUME NEW d \in Dirs, MakeDir(d) PROVE WatchInv'
  <2>1. Change /\ UNCHANGED <<managerVars, onDisk, inotify, raw, late, gap, stayed, silent>>
      BY <1>1 DEF MakeDir, history, managerVars
  <2>2. UNCHANGED <<phase, scanning, left, found>>
      BY <2>1 DEF Change, scanVars
  <2>3. TmpOK'
      BY <1>1, <2>1, ChangeOK DEF MakeDir, WatchInv, TmpOK
  <2> QED BY <2>1, <2>2, <2>3, ChangeOK, PartsStay DEF WatchInv
<1>2. ASSUME NEW d \in Dirs, RemoveDir(d) PROVE WatchInv'
  <2>1. Change /\ UNCHANGED <<managerVars, onDisk, late, gap, stayed, silent>>
      BY <1>2 DEF RemoveDir, history, managerVars
  <2>2. UNCHANGED <<phase, scanning, left, found>>
      BY <2>1 DEF Change, scanVars
  <2>3. TmpOK'
      BY <1>2, <2>1, ChangeOK DEF RemoveDir, WatchInv, TmpOK
  <2>4. /\ \A p \in onDisk : DirOf[p] # d
        /\ inotify' = inotify \ {d}
        /\ \A p \in Paths : raw'[p] = raw[p] \/ raw'[p] = <<>>
        /\ raw' \in [Paths -> Pending]
      BY <1>2 DEF RemoveDir, WatchInv, RawOK, Pending
  <2>5. <<>> \notin Creating
      BY DEF Creating
  <2>6. RawOK'
      BY <2>1, <2>4, <2>5 DEF WatchInv, RawOK
  <2>7. HistoryOK'
      BY <2>1, <2>2, <2>4 DEF WatchInv, HistoryOK
  <2> QED BY <2>1, <2>2, <2>3, <2>6, <2>7, ChangeOK, PartsStay DEF WatchInv
<1>3. ASSUME NEW p \in Paths, CreateSocket(p) PROVE WatchInv'
  <2>1. /\ Change /\ p \notin onDisk /\ onDisk' = onDisk \cup {p}
        /\ UNCHANGED <<dirs, inotify, stayed, silent>>
      BY <1>3 DEF CreateSocket, SocketFileAppears
  <2>2. UNCHANGED <<phase, scanning, left, found>>
      BY <2>1 DEF Change, scanVars
  <2>3. ManagerTypeOK'
      BY <1>0, <1>3, ManagerStepType DEF CreateSocket
  <2>4. TmpOK'
      BY <1>3, <2>1, ChangeOK DEF CreateSocket, WatchInv, TmpOK
  <2>5. RawOK'
    <3>1. raw[p] \in Pending \ Creating
        BY <2>1 DEF WatchInv, RawOK
    <3>2. CASE DirOf[p] \in inotify
      <4>1. raw' = [raw EXCEPT ![p] = Debounced(raw[p], "create")]
          BY <1>3, <3>2 DEF CreateSocket, Notice
      <4>2. Debounced(raw[p], "create") \in Creating
          BY <3>1, DebouncedCreation
      <4> QED BY <2>1, <3>2, <4>1, <4>2 DEF WatchInv, RawOK, Pending
    <3>3. CASE DirOf[p] \notin inotify
      <4>1. raw' = raw
          BY <1>3, <3>3 DEF CreateSocket, Notice
      <4> QED BY <2>1, <4>1 DEF WatchInv, RawOK
    <3> QED BY <3>2, <3>3
  <2>6. ScansOK'
      BY <2>1, <2>2 DEF WatchInv, ScansOK
  <2>7. HistoryOK'
      BY <1>3, <2>1, <2>2 DEF CreateSocket, WatchInv, HistoryOK
  <2> QED BY <2>1, <2>3, <2>4, <2>5, <2>6, <2>7, ChangeOK DEF WatchInv
<1>4. ASSUME NEW p \in Paths, UnlinkSocket(p) PROVE WatchInv'
  <2>1. /\ Change /\ p \in onDisk /\ onDisk' = onDisk \ {p} /\ silent' \subseteq silent
        /\ UNCHANGED <<dirs, inotify>>
      BY <1>4 DEF UnlinkSocket, SocketFileVanishes
  <2>2. UNCHANGED <<phase, scanning, left, found>>
      BY <2>1 DEF Change, scanVars
  <2>3. ManagerTypeOK'
      BY <1>0, <1>4, ManagerStepType DEF UnlinkSocket
  <2>4. TmpOK'
      BY <2>1, ChangeOK DEF WatchInv, TmpOK
  <2>5. RawOK'
    <3>1. raw[p] \in Pending
        BY DEF WatchInv, RawOK
    <3>2. CASE DirOf[p] \in inotify
      <4>1. raw' = [raw EXCEPT ![p] = Debounced(raw[p], "remove")]
          BY <1>4, <3>2 DEF UnlinkSocket, Notice
      <4>2. Debounced(raw[p], "remove") \in Pending \ Creating
          BY <3>1, DebouncedRemoval
      <4> QED BY <2>1, <4>1, <4>2 DEF WatchInv, RawOK
    <3>3. CASE DirOf[p] \notin inotify
      <4>1. raw' = raw /\ raw[p] \notin Creating
          BY <1>4, <3>3 DEF UnlinkSocket, Notice, WatchInv, RawOK
      <4> QED BY <2>1, <4>1 DEF WatchInv, RawOK
    <3> QED BY <3>2, <3>3
  <2>6. ScansOK'
      BY <1>4, <2>1, <2>2 DEF UnlinkSocket, WatchInv, ScansOK
  <2>7. HistoryOK'
      BY <1>4, <2>1, <2>2 DEF UnlinkSocket, WatchInv, HistoryOK
  <2> QED BY <2>1, <2>3, <2>4, <2>5, <2>6, <2>7, ChangeOK DEF WatchInv
<1>5. ASSUME NEW p \in Paths, TouchSocket(p) PROVE WatchInv'
  <2>1. /\ Change /\ p \in onDisk
        /\ UNCHANGED <<managerVars, onDisk, dirs, inotify, late, gap, stayed, silent>>
      BY <1>5 DEF TouchSocket, history, managerVars
  <2>2. UNCHANGED <<phase, scanning, left, found>>
      BY <2>1 DEF Change, scanVars
  <2>3. TmpOK'
      BY <2>1, ChangeOK DEF WatchInv, TmpOK
  <2>4. RawOK'
    <3>1. CASE DirOf[p] \in inotify
      <4>1. raw' = [raw EXCEPT ![p] = Debounced(raw[p], "modify")]
          BY <1>5, <3>1 DEF TouchSocket, Notice
      <4>2. Debounced(raw[p], "modify") \in {raw[p]} \cup Creating
          BY DebouncedModification DEF WatchInv, RawOK
      <4> QED BY <2>1, <3>1, <4>1, <4>2 DEF WatchInv, RawOK, Pending
    <3>2. CASE DirOf[p] \notin inotify
        BY <1>5, <2>1, <3>2 DEF TouchSocket, Notice, WatchInv, RawOK
    <3> QED BY <3>1, <3>2
  <2> QED BY <2>1, <2>2, <2>3, <2>4, ChangeOK, PartsStay DEF WatchInv
<1> QED BY <1>1, <1>2, <1>3, <1>4, <1>5 DEF Tmp

-----------------------------------------------------------------------------
LEMMA WatchStep == WatchInv /\ [WatchNext]_watchVars => WatchInv'
<1> SUFFICES ASSUME WatchInv, [WatchNext]_watchVars PROVE WatchInv'
    OBVIOUS
<1> USE WatchAssumption DEF WatchAssumption
<1>0. /\ ManagerTypeOK /\ PhaseOK /\ TmpOK /\ RawOK /\ ScansOK /\ HistoryOK
      /\ onDisk \subseteq Paths /\ Scanners = {"startup", "poll", "reload"}
    BY DEF WatchInv, ManagerTypeOK, Scanners
<1>1. CASE Tmp
    BY <1>1, TmpStepOK
<1>2. ASSUME NEW w \in Scanners, NEW d \in Dirs, ReadDirectory(w, d) PROVE WatchInv'
  <2>1. /\ left' = [left EXCEPT ![w] = left[w] \ {d}]
        /\ found' = [found EXCEPT ![w] = found[w] \cup {p \in onDisk : DirOf[p] = d}]
        /\ UNCHANGED <<managerVars, onDisk, phase, mode, dirs, changes, inotify, raw, channel,
                       scanning, polled, late, gap, stayed, silent>>
      BY <1>2 DEF ReadDirectory, tmp, signals, history, managerVars
  <2>2. ScansOK'
      BY <1>0, <2>1 DEF ScansOK
  <2> QED BY <2>1, <2>2, PartsStay, SilentStays DEF WatchInv
<1>3. CASE StartupScanEnds
  <2>1. /\ phase = "scanning" /\ phase' = "scanned"
        /\ UNCHANGED <<mode, dirs, changes, inotify, raw, channel, polled, late, silent, configured,
                       onDisk>>
      BY <1>3 DEF StartupScanEnds, tmp, signals, managerVars
  <2>2. ScanStops("startup")
      BY <1>3 DEF StartupScanEnds, ScanSucceeds, ScanFails
  <2>3. ScansOK'
      BY <1>0, <2>1, <2>2, ScanStopsOK
  <2>4. HistoryOK'
      BY <1>0, <1>3, <2>1 DEF StartupScanEnds, HistoryOK
  <2>5. PhaseOK'
      BY <1>0, <2>1 DEF PhaseOK, Phases
  <2>6. ManagerTypeOK'
    <3>1. CASE UNCHANGED managerVars
        BY <3>1, PartsStay
    <3>2. ASSUME NEW t \in Now, watched' = WithAll(found["startup"], t), clock' = t
          PROVE  ManagerTypeOK'
      <4>1. found["startup"] \in SUBSET Paths
          BY <1>0 DEF ScansOK
      <4> QED BY <1>0, <2>1, <3>2, <4>1, WithAllType DEF ManagerTypeOK
    <3> QED BY <1>3, <3>1, <3>2 DEF StartupScanEnds
  <2> QED BY <2>1, <2>3, <2>4, <2>5, <2>6, PartsStay DEF WatchInv
<1>4. CASE StartSmartWatcher
  <2>1. /\ phase = "scanned" /\ phase' = "watching" /\ inotify' = dirs \ Sealed
        /\ UNCHANGED <<managerVars, onDisk, mode, dirs, changes, raw, channel, scanning, left,
                       found, stayed, polled, late, gap, silent>>
      BY <1>4 DEF StartSmartWatcher, tmp, scanVars, history, managerVars
  <2>2. RawOK' /\ TmpOK' /\ HistoryOK' /\ PhaseOK'
      BY <1>0, <2>1 DEF RawOK, TmpOK, HistoryOK, PhaseOK, Phases
  <2> QED BY <2>1, <2>2, PartsStay DEF WatchInv
<1>5. CASE StartPolling \/ PollTick \/ ReloadBegins
  <2>1. /\ phase' \in Phases /\ (phase' = "watching" => phase = "watching")
        /\ (phase' # "watching" => phase # "watching")
        /\ UNCHANGED <<managerVars, onDisk, mode, dirs, changes, inotify, raw, channel, polled,
                       late, gap, silent>>
      BY <1>0, <1>5 DEF StartPolling, PollTick, ReloadBegins, tmp, signals, managerVars, Phases, PhaseOK
  <2>2. \E w \in Scanners : ScanBegins(w)
      BY <1>0, <1>5 DEF StartPolling, PollTick, ReloadBegins
  <2>3. ScansOK'
      BY <2>1, <2>2, ScanBeginsOK
  <2>4. PhaseOK' /\ HistoryOK'
      BY <1>0, <2>1 DEF PhaseOK, HistoryOK
  <2> QED BY <2>1, <2>3, <2>4, PartsStay DEF WatchInv
<1>6. CASE PollingSeeded
  <2>1. /\ phase' = "watching"
        /\ UNCHANGED <<managerVars, onDisk, mode, dirs, changes, inotify, raw, channel, late, gap>>
      BY <1>6 DEF PollingSeeded, tmp, signals, managerVars
  <2>2. ScanStops("poll") /\ polled' \in {polled, found["poll"]}
      BY <1>6 DEF PollingSeeded, ScanSucceeds, ScanFails
  <2>3. ScansOK'
      BY <1>0, <2>1, <2>2, ScanStopsOK
  <2>4. silent' \subseteq Paths
      BY <1>0, <1>6 DEF PollingSeeded, PhaseOK, ScansOK
  <2>5. PhaseOK' /\ HistoryOK'
      BY <1>0, <2>1, <2>2, <2>4 DEF PhaseOK, Phases, ScansOK, HistoryOK
  <2> QED BY <2>1, <2>3, <2>5, PartsStay DEF WatchInv
<1>7. CASE PollSucceeds
  <2>1. UNCHANGED <<managerVars, onDisk, phase, mode, dirs, changes, inotify, raw, late, gap>>
      BY <1>7 DEF PollSucceeds, tmp, managerVars
  <2>2. ScanStops("poll") /\ polled' = found["poll"] /\ silent' \subseteq silent
      BY <1>7 DEF PollSucceeds, ScanSucceeds
  <2>3. ScansOK'
      BY <1>0, <2>1, <2>2, ScanStopsOK
  <2>4. found["poll"] \in SUBSET Paths /\ polled \in SUBSET Paths
      BY <1>0 DEF ScansOK, PhaseOK
  <2>5. channel' \in Seq(WatchEvents)
    <3>1. PICK new \in SetToSeqs({Added(p) : p \in found["poll"] \ polled}),
               gone \in SetToSeqs({Removed(p) : p \in polled \ found["poll"]}) :
             channel' = channel \o new \o gone
        BY <1>7 DEF PollSucceeds
    <3>2. new \in Seq(WatchEvents)
      <4> DEFINE S == found["poll"] \ polled
      <4>1. S \in SUBSET Paths
          BY <2>4
      <4>2. IsFiniteSet({Added(p) : p \in S}) /\ {Added(p) : p \in S} \subseteq WatchEvents
          BY <4>1, EventSetFinite
      <4> QED BY <4>2, EventsType
    <3>3. gone \in Seq(WatchEvents)
      <4> DEFINE S == polled \ found["poll"]
      <4>1. S \in SUBSET Paths
          BY <2>4
      <4>2. IsFiniteSet({Removed(p) : p \in S}) /\ {Removed(p) : p \in S} \subseteq WatchEvents
          BY <4>1, EventSetFinite
      <4> QED BY <4>2, EventsType
    <3> QED BY <1>0, <3>1, <3>2, <3>3 DEF PhaseOK
  <2>6. PhaseOK'
      BY <1>0, <2>1, <2>2, <2>4, <2>5 DEF PhaseOK
  <2> QED BY <2>1, <2>3, <2>6, PartsStay DEF WatchInv
<1>8. ASSUME NEW p \in Paths, Report(p) PROVE WatchInv'
  <2>1. /\ raw[p] # <<>> /\ raw' = [raw EXCEPT ![p] = Tail(raw[p])]
        /\ channel' \in {channel, Append(channel, Removed(p)), Append(channel, Added(p))}
        /\ UNCHANGED <<managerVars, onDisk, phase, mode, dirs, changes, inotify, scanning, left,
                       found, stayed, polled, late, gap, silent>>
      BY <1>8 DEF Report, tmp, scanVars, history, managerVars
  <2>2. Tail(raw[p]) \in Pending /\ (Tail(raw[p]) \in Creating => raw[p] \in Creating)
      BY <1>0, <2>1, ReportedTail DEF RawOK
  <2>3. RawOK'
      BY <1>0, <2>1, <2>2 DEF RawOK
  <2>4. Added(p) \in WatchEvents /\ Removed(p) \in WatchEvents
      BY DEF Added, Removed, WatchEvents
  <2>5. channel' \in Seq(WatchEvents)
    <3>1. channel \in Seq(WatchEvents)
        BY <1>0 DEF PhaseOK
    <3> QED BY <2>1, <2>4, <3>1
  <2>6. PhaseOK'
      BY <1>0, <2>1, <2>5 DEF PhaseOK
  <2> QED BY <2>1, <2>3, <2>6, PartsStay DEF WatchInv
<1>9. CASE HandleAdded \/ HandleRemoved
  <2>1. /\ channel # <<>> /\ channel' = Tail(channel)
        /\ UNCHANGED <<phase, mode, dirs, changes, inotify, raw, scanning, left, found, stayed,
                       polled, late, gap>>
      BY <1>9 DEF HandleAdded, HandleRemoved, EventTaken, tmp, scanVars, history
  <2>2. Head(channel) \in WatchEvents /\ Tail(channel) \in Seq(WatchEvents)
      BY <1>0, <2>1 DEF PhaseOK
  <2>3. Head(channel).path \in Paths
      BY <2>2 DEF WatchEvents
  <2>4. ManagerTypeOK' /\ UNCHANGED onDisk
      BY <1>0, <1>9, <2>3, ManagerStepType
      DEF HandleAdded, HandleRemoved, AddWatched, RemoveWatched, managerVars
  <2>5. silent' \subseteq silent
      BY <1>9 DEF HandleAdded, HandleRemoved
  <2>6. PhaseOK'
      BY <1>0, <2>1, <2>2, <2>5 DEF PhaseOK
  <2> QED BY <2>1, <2>4, <2>6, PartsStay DEF WatchInv
<1>10. CASE HealthTick \/ \E p \in Paths : AddByHand(p) \/ RemoveByHand(p)
  <2>1. /\ ValidateAndCleanup \/ \E p \in Paths : AddWatched(p) \/ RemoveWatched(p)
        /\ UNCHANGED <<onDisk, phase, mode, dirs, changes, inotify, raw, channel, scanning, left,
                       found, stayed, polled, late, gap>>
      BY <1>10 DEF HealthTick, AddByHand, RemoveByHand, ValidateAndCleanup, AddWatched,
                   RemoveWatched, tmp, signals, scanVars
  <2>2. ManagerTypeOK'
      BY <1>0, <2>1, ManagerStepType
  <2>3. silent' \subseteq Paths
      BY <1>0, <1>10 DEF HealthTick, AddByHand, RemoveByHand, PhaseOK
  <2> QED BY <2>1, <2>2, <2>3, PartsStay DEF WatchInv
<1>11. CASE ReloadSucceeds
  <2>1. /\ ScanStops("reload")
        /\ UNCHANGED <<configured, onDisk, phase, mode, dirs, changes, inotify, raw, channel,
                       polled, late, gap>>
      BY <1>11 DEF ReloadSucceeds, ScanSucceeds, tmp, signals
  <2>2. PICK t \in Now :
            /\ watched' = Restrict(WithAll(found["reload"], t),
                                   (DOMAIN watched \cup found["reload"]) \cap onDisk)
            /\ clock' = t
      BY <1>11 DEF ReloadSucceeds
  <2>3. found["reload"] \in SUBSET Paths
      BY <1>0 DEF ScansOK
  <2>4. watched' \in [(DOMAIN watched \cup found["reload"]) \cap onDisk -> Stamps]
    <3> DEFINE all == WithAll(found["reload"], t)
               there == (DOMAIN watched \cup found["reload"]) \cap onDisk
    <3>1. all \in [DOMAIN watched \cup found["reload"] -> Stamps]
        BY <2>3, WithAllType
    <3>2. watched' = [p \in there |-> all[p]] /\ there \subseteq DOMAIN watched \cup found["reload"]
        BY <2>2 DEF Restrict
    <3> HIDE DEF all, there
    <3>3. watched' \in [there -> Stamps]
        BY <3>1, <3>2
    <3> QED BY <3>3 DEF there
  <2>5. (DOMAIN watched \cup found["reload"]) \cap onDisk \in SUBSET Paths
      BY <1>0
  <2>6. t \in Stamps
      BY DEF Now
  <2>7. ManagerTypeOK'
      BY <1>0, <2>1, <2>2, <2>4, <2>5, <2>6 DEF ManagerTypeOK
  <2>8. ScansOK'
      BY <1>0, <2>1, ScanStopsOK
  <2>9. silent' \subseteq Paths
      BY <1>0, <1>11 DEF ReloadSucceeds, PhaseOK
  <2> QED BY <2>1, <2>7, <2>8, <2>9, PartsStay DEF WatchInv
<1>12. CASE ReloadFails \/ PollFails
  <2>1. /\ ScanStops("reload") \/ ScanStops("poll")
        /\ UNCHANGED <<managerVars, onDisk, phase, mode, dirs, changes, inotify, raw, channel,
                       polled, late, gap, silent>>
      BY <1>12 DEF ReloadFails, PollFails, ScanFails, tmp, signals, managerVars
  <2>2. ScansOK'
      BY <1>0, <2>1, ScanStopsOK
  <2> QED BY <2>1, <2>2, PartsStay, SilentStays DEF WatchInv
<1>13. CASE UNCHANGED watchVars
  <2>1. UNCHANGED <<managerVars, onDisk, phase, mode, dirs, changes, inotify, raw, channel,
                    scanning, left, found, stayed, polled, late, gap, silent>>
      BY <1>13 DEF watchVars, tmp, signals, scanVars, history, managerVars
  <2> QED BY <2>1, PartsStay, SilentStays DEF WatchInv
<1> QED
    BY <1>1, <1>2, <1>3, <1>4, <1>5, <1>6, <1>7, <1>8, <1>9, <1>10, <1>11, <1>12, <1>13
    DEF WatchNext, Scan

(* Types, and with them: the debouncer holds at most one creation for a path, *)
(* and no scan has a directory or a socket of nowhere (src/watcher.rs).       *)
THEOREM WatchTypes == WatchSpec => []WatchTypeOK
<1> QED BY WatchInitInv, WatchStep, WatchInvImplies, PTL DEF WatchSpec

(* Whatever comes and goes while Reload reads directory after directory, one  *)
(* that succeeds leaves listed every socket that was there all along and none *)
(* that is not there (Reload in handle_request, scan_existing_agents).        *)
THEOREM ReloadExact == WatchSpec => ReloadIsExact
<1> DEFINE Ends == "reload" \in scanning /\ "reload" \notin scanning' /\ left["reload"] = {}
           Exact == stayed["reload"] \subseteq DOMAIN watched' /\ DOMAIN watched' \subseteq onDisk
<1>1. ASSUME WatchInv, [WatchNext]_watchVars PROVE [Ends => Exact]_watchVars
  <2>1. SUFFICES ASSUME WatchNext, Ends PROVE Exact
      BY <1>1
  <2>2. \A w \in Scanners \ {"reload"} :
            /\ ScanBegins(w) \/ ScanStops(w) => "reload" \in scanning'
            /\ \A d \in Dirs : ReadDirectory(w, d) => "reload" \in scanning'
      BY <2>1 DEF ScanBegins, ScanStops, ReadDirectory
  <2>3. ReloadSucceeds
    <3>1. ~ UNCHANGED scanning
        BY <2>1
    <3>2. ~ Tmp
        BY <3>1 DEF Tmp, MakeDir, RemoveDir, CreateSocket, TouchSocket, UnlinkSocket, Change,
                       scanVars
    <3>3. ~ \E w \in Scanners : Scan(w)
        BY <3>1 DEF Scan, ReadDirectory
    <3>4. ~ (StartupScanEnds \/ StartPolling \/ PollingSeeded \/ PollTick \/ PollSucceeds \/ PollFails)
        BY <2>1, <2>2 DEF StartupScanEnds, StartPolling, PollingSeeded, PollTick, PollSucceeds,
                          PollFails, ScanSucceeds, ScanFails, Scanners
    <3>5. ~ (StartSmartWatcher \/ HandleAdded \/ HandleRemoved \/ HealthTick)
        BY <3>1 DEF StartSmartWatcher, HandleAdded, HandleRemoved, EventTaken, HealthTick, scanVars
    <3>6. ~ \E p \in Paths : Report(p) \/ AddByHand(p) \/ RemoveByHand(p)
        BY <3>1 DEF Report, AddByHand, RemoveByHand, scanVars
    <3>7. ~ ReloadBegins
        BY <2>1 DEF ReloadBegins, ScanBegins
    <3>8. ~ ReloadFails
        BY <2>1 DEF ReloadFails, ScanFails
    <3> QED BY <2>1, <3>2, <3>3, <3>4, <3>5, <3>6, <3>7, <3>8 DEF WatchNext
  <2>4. DOMAIN watched' = (DOMAIN watched \cup found["reload"]) \cap onDisk
      BY <2>3 DEF ReloadSucceeds, Restrict
  <2>5. stayed["reload"] \subseteq onDisk /\ stayed["reload"] \subseteq found["reload"]
      BY <1>1, <2>1 DEF WatchInv, ScansOK, Scanners
  <2> QED BY <2>4, <2>5
<1> QED BY <1>1, WatchInitInv, WatchStep, PTL DEF WatchSpec, ReloadIsExact

-----------------------------------------------------------------------------
(* Until the watcher is set nothing is reported, and what the manager does    *)
(* not list yet is in the gap or in what the startup scan has found or has    *)
(* still to read; the poll, which alone sends what it did not see happen,     *)
(* runs without a watch.                                                      *)
StartOK ==
    /\ \A p \in onDisk : raw[p] = <<"remove">> => DirOf[p] \notin inotify
    /\ phase # "watching" => channel = <<>> /\ \A p \in Paths : raw[p] = <<>>
    /\ phase = "scanning" =>
          \A p \in onDisk \ gap : DirOf[p] \in left["startup"] \/ p \in found["startup"]
    /\ phase = "scanned" => left["startup"] = {} /\ onDisk \ gap \subseteq DOMAIN watched
    /\ phase \in {"scanning", "scanned"} => scanning \subseteq {"startup"}
    /\ "poll" \in scanning => mode = "polling"
    /\ mode = "polling" => inotify = {}

(* The watcher has done with p: it is listed, or was taken off by hand. *)
Settled(p) == IsWatched(p) \/ p \in silent

(* The last word on p is a creation, or p is settled and no removal comes. *)
Word(p) ==
    \/ raw[p] \in Creating
    \/ \E i \in 0 .. Len(channel) :
          /\ IF i = 0 THEN Settled(p) ELSE channel[i] = Added(p)
          /\ \A j \in DOMAIN channel : j > i => channel[j] # Removed(p)

WordOK == \A p \in onDisk \ gap : DirOf[p] \in inotify => Word(p)

WordInv == WatchInv /\ StartOK /\ WordOK

LEMMA WordInvImplies == WordInv => LastWordIsTrue
<1> SUFFICES ASSUME WordInv, NEW p \in onDisk \ (gap \cup silent), DirOf[p] \in inotify
             PROVE  \/ raw[p] # <<>> /\ Last(raw[p]) \in {"create", "modify"}
                    \/ \E i \in 0 .. Len(channel) :
                          /\ IF i = 0 THEN IsWatched(p) ELSE channel[i] = Added(p)
                          /\ \A j \in DOMAIN channel : j > i => channel[j] # Removed(p)
    BY DEF LastWordIsTrue
<1>1. Word(p)
    BY DEF WordInv, WordOK
<1>2. ASSUME raw[p] \in Creating
      PROVE  raw[p] # <<>> /\ Last(raw[p]) \in {"create", "modify"}
  <2>1. \A q \in {<<"create">>, <<"modify">>} : q # <<>> /\ Last(q) \in {"create", "modify"}
      BY DEF Last
  <2>2. <<"remove", "create">> # <<>> /\ Last(<<"remove", "create">>) = "create"
      BY DEF Last
  <2> QED BY <1>2, <2>1, <2>2 DEF Creating
<1>3. Settled(p) <=> IsWatched(p)
    BY DEF Settled
<1> QED BY <1>1, <1>2, <1>3 DEF Word

LEMMA WordInitInv == WatchInit => StartOK /\ WordOK
<1> SUFFICES ASSUME WatchInit PROVE StartOK /\ WordOK
    OBVIOUS
<1>1. /\ phase = "scanning" /\ inotify = {} /\ channel = <<>> /\ scanning = {"startup"}
      /\ \A p \in Paths : raw[p] = <<>>
      /\ \A p \in onDisk : DirOf[p] \in left["startup"]
    BY DEF WatchInit, Scanners
<1> QED BY <1>1 DEF StartOK, WordOK

-----------------------------------------------------------------------------
(* What keeps the words true: nothing new to vouch for, the channel and the   *)
(* debouncer as they were, and nobody who is there unlisted.                  *)
LEMMA WordsStay ==
    ASSUME WordOK, channel' = channel, inotify' \subseteq inotify,
           onDisk' \ gap' \subseteq onDisk \ gap,
           \A p \in onDisk' \ gap' : DirOf[p] \in inotify' =>
               raw'[p] = raw[p] /\ (Settled(p) => Settled(p)')
    PROVE  WordOK'
<1> SUFFICES ASSUME NEW p \in onDisk' \ gap', DirOf[p] \in inotify'
             PROVE  Word(p)'
    BY DEF WordOK
<1>1. Word(p)
    BY DEF WordOK
<1> QED BY <1>1 DEF Word

(* One more event behind the last word on p does no harm unless it is the     *)
(* removal of p; the creation of p is a last word by itself.                  *)
LEMMA WordSent ==
    ASSUME channel \in Seq(WatchEvents), NEW p \in Paths, NEW e \in WatchEvents,
           channel' = Append(channel, e), UNCHANGED <<watched, silent>>,
           \/ e = Added(p)
           \/ e # Removed(p) /\ Word(p) /\ raw'[p] = raw[p]
    PROVE  Word(p)'
<1>1. /\ Len(channel) \in Nat /\ DOMAIN channel = 1 .. Len(channel)
      /\ Len(channel') = Len(channel) + 1 /\ DOMAIN channel' = 1 .. Len(channel')
      /\ \A j \in 1 .. Len(channel) : channel'[j] = channel[j]
      /\ channel'[Len(channel')] = e
    OBVIOUS
<1>2. CASE e = Added(p)
  <2>1. Len(channel') \in 1 .. Len(channel')
      BY <1>1
  <2>2. \A j \in DOMAIN channel' : ~ (j > Len(channel'))
      BY <1>1
  <2> QED BY <1>1, <1>2, <2>1, <2>2 DEF Word
<1>3. CASE e # Removed(p) /\ Word(p) /\ raw'[p] = raw[p]
  <2>1. CASE raw[p] \in Creating
      BY <1>3, <2>1 DEF Word
  <2>2. ASSUME NEW i \in 0 .. Len(channel),
               IF i = 0 THEN Settled(p) ELSE channel[i] = Added(p),
               \A j \in DOMAIN channel : j > i => channel[j] # Removed(p)
        PROVE  Word(p)'
    <3>1. i \in 0 .. Len(channel')
        BY <1>1
    <3>2. IF i = 0 THEN Settled(p)' ELSE channel'[i] = Added(p)
        BY <1>1, <2>2 DEF Settled, IsWatched
    <3>3. \A j \in DOMAIN channel' : j > i => channel'[j] # Removed(p)
      <4> SUFFICES ASSUME NEW j \in DOMAIN channel', j > i PROVE channel'[j] # Removed(p)
          OBVIOUS
      <4>1. CASE j = Len(channel')
          BY <1>1, <1>3, <4>1
      <4>2. CASE j # Len(channel')
        <5>1. j \in 1 .. Len(channel)
            BY <1>1, <4>2
        <5> QED BY <1>1, <2>2, <5>1
      <4> QED BY <4>1, <4>2
    <3> QED BY <3>1, <3>2, <3>3 DEF Word
  <2> QED BY <1>3, <2>1, <2>2 DEF Word
<1> QED BY <1>2, <1>3

(* Handling the head of the channel: what it said of p becomes what the list  *)
(* says of p.                                                                 *)
LEMMA WordHandled ==
    ASSUME channel \in Seq(WatchEvents), channel # <<>>, channel' = Tail(channel),
           NEW p \in Paths, Word(p), raw'[p] = raw[p],
           Head(channel) = Added(p) => Settled(p)',
           Head(channel) # Removed(p) => (Settled(p) => Settled(p)')
    PROVE  Word(p)'
<1>1. /\ Len(channel) \in Nat \ {0} /\ DOMAIN channel = 1 .. Len(channel)
      /\ Len(channel') = Len(channel) - 1 /\ DOMAIN channel' = 1 .. Len(channel')
      /\ \A j \in 1 .. Len(channel') : channel'[j] = channel[j + 1]
      /\ Head(channel) = channel[1]
    OBVIOUS
<1>2. CASE raw[p] \in Creating
    BY <1>2 DEF Word
<1>3. ASSUME NEW i \in 0 .. Len(channel),
             IF i = 0 THEN Settled(p) ELSE channel[i] = Added(p),
             \A j \in DOMAIN channel : j > i => channel[j] # Removed(p)
      PROVE  Word(p)'
  <2>1. \A j \in DOMAIN channel' : j > i - 1 => channel'[j] # Removed(p)
    <3> SUFFICES ASSUME NEW j \in DOMAIN channel', j > i - 1 PROVE channel'[j] # Removed(p)
        OBVIOUS
    <3>1. j + 1 \in DOMAIN channel /\ j + 1 > i
        BY <1>1
    <3> QED BY <1>1, <1>3, <3>1
  <2>2. CASE i \in {0, 1}
    <3>1. Settled(p)'
      <4>1. CASE i = 0
        <5>1. channel[1] # Removed(p)
            BY <1>1, <1>3, <4>1
        <5> QED BY <1>1, <1>3, <4>1, <5>1
      <4>2. CASE i = 1
          BY <1>1, <1>3, <4>2
      <4> QED BY <2>2, <4>1, <4>2
    <3>2. \A j \in DOMAIN channel' : j > 0 => channel'[j] # Removed(p)
      <4>1. \A j \in DOMAIN channel' : j > i - 1
          BY <1>1, <2>2
      <4> QED BY <2>1, <4>1
    <3>3. 0 \in 0 .. Len(channel')
        BY <1>1
    <3> QED BY <3>1, <3>2, <3>3 DEF Word
  <2>3. CASE i \notin {0, 1}
    <3>1. i - 1 \in 0 .. Len(channel') /\ i - 1 # 0 /\ i - 1 \in 1 .. Len(channel')
        BY <1>1, <2>3
    <3>2. channel'[i - 1] = Added(p)
        BY <1>1, <1>3, <2>3, <3>1
    <3> QED BY <2>1, <3>1, <3>2 DEF Word
  <2> QED BY <2>2, <2>3
<1> QED BY <1>2, <1>3 DEF Word

-----------------------------------------------------------------------------
(* The steps of /tmp. *)
LEMMA TmpWords ==
    ASSUME WordInv, Tmp
    PROVE  StartOK' /\ WordOK'
<1> USE WatchAssumption DEF WatchAssumption
<1>0. /\ WatchInv /\ StartOK /\ WordOK /\ HistoryOK /\ RawOK /\ ScansOK
      /\ onDisk \subseteq Paths
    BY DEF WordInv, WatchInv, ManagerTypeOK
<1>1. UNCHANGED <<phase, mode, channel, scanning, left, found>>
    BY DEF Tmp, MakeDir, RemoveDir, CreateSocket, TouchSocket, UnlinkSocket, Change, scanVars
<1>2. ASSUME NEW d \in Dirs, MakeDir(d) PROVE StartOK' /\ WordOK'
  <2>1. UNCHANGED <<onDisk, watched, inotify, raw, gap, silent>>
      BY <1>2 DEF MakeDir, managerVars, history
  <2> QED BY <1>0, <1>1, <2>1, WordsStay DEF StartOK, Settled, IsWatched
<1>3. ASSUME NEW d \in Dirs, RemoveDir(d) PROVE StartOK' /\ WordOK'
  <2>1. /\ UNCHANGED <<onDisk, watched, gap, silent>>
        /\ inotify' = inotify \ {d}
        /\ \A p \in onDisk : DirOf[p] # d
        /\ \A p \in Paths : raw'[p] = raw[p] \/ (DirOf[p] = d /\ raw'[p] = <<>>)
      BY <1>0, <1>3 DEF RemoveDir, managerVars, history, RawOK
  <2>2. WordOK'
      BY <1>0, <1>1, <2>1, WordsStay DEF Settled, IsWatched
  <2>3. StartOK'
      BY <1>0, <1>1, <2>1 DEF StartOK
  <2> QED BY <2>2, <2>3
<1>4. ASSUME NEW q \in Paths, CreateSocket(q) PROVE StartOK' /\ WordOK'
  <2>1. /\ q \notin onDisk /\ onDisk' = onDisk \cup {q}
        /\ UNCHANGED <<inotify, watched, silent>>
        /\ raw' = IF DirOf[q] \in inotify
                  THEN [raw EXCEPT ![q] = Debounced(raw[q], "create")] ELSE raw
        /\ gap' = IF phase # "watching" /\ DirOf[q] \notin left["startup"]
                  THEN gap \cup {q} ELSE gap
      BY <1>4 DEF CreateSocket, SocketFileAppears, managerState, Notice, history
  <2>2. raw[q] \in Pending \ Creating
      BY <1>0, <2>1 DEF RawOK
  <2>3. Debounced(raw[q], "create") \in Creating
      BY <2>2, DebouncedCreation
  <2>4. DirOf[q] \in inotify => raw'[q] \in Creating
      BY <1>0, <2>1, <2>3 DEF RawOK
  <2>5. \A p \in Paths \ {q} : raw'[p] = raw[p]
      BY <1>0, <2>1 DEF RawOK
  <2>6. WordOK'
    <3> SUFFICES ASSUME NEW p \in onDisk' \ gap', DirOf[p] \in inotify'
                 PROVE  Word(p)'
        BY DEF WordOK
    <3>1. CASE p = q
        BY <2>1, <2>4, <3>1 DEF Word
    <3>2. CASE p # q
      <4>1. p \in onDisk \ gap /\ DirOf[p] \in inotify /\ raw'[p] = raw[p]
          BY <1>0, <2>1, <2>5, <3>2
      <4>2. Word(p)
          BY <1>0, <4>1 DEF WordOK
      <4> QED BY <1>1, <2>1, <4>1, <4>2 DEF Word, Settled, IsWatched
    <3> QED BY <3>1, <3>2
  <2>7. StartOK'
    <3>1. \A p \in onDisk' : raw'[p] = <<"remove">> => DirOf[p] \notin inotify'
      <4>1. <<"remove">> \notin Creating
          BY DEF Creating
      <4> QED BY <1>0, <2>1, <2>4, <2>5, <4>1 DEF StartOK
    <3>2. phase' # "watching" => \A p \in Paths : raw'[p] = <<>>
        BY <1>0, <1>1, <2>1 DEF StartOK, HistoryOK
    <3>3. phase = "scanning" =>
            \A p \in onDisk' \ gap' : DirOf[p] \in left["startup"] \/ p \in found["startup"]
        BY <1>0, <2>1 DEF StartOK
    <3>4. phase = "scanned" => onDisk' \ gap' \subseteq DOMAIN watched
      <4>1. phase = "scanned" => left["startup"] = {}
          BY <1>0 DEF StartOK
      <4> QED BY <1>0, <2>1, <4>1 DEF StartOK
    <3> QED BY <1>0, <1>1, <2>1, <3>1, <3>2, <3>3, <3>4 DEF StartOK
  <2> QED BY <2>6, <2>7
<1>5. ASSUME NEW q \in Paths, UnlinkSocket(q) PROVE StartOK' /\ WordOK'
  <2>1. /\ onDisk' = onDisk \ {q} /\ gap' = gap \ {q}
        /\ UNCHANGED <<inotify, watched>> /\ silent \ {q} \subseteq silent'
        /\ raw' = IF DirOf[q] \in inotify
                  THEN [raw EXCEPT ![q] = Debounced(raw[q], "remove")] ELSE raw
      BY <1>5 DEF UnlinkSocket, SocketFileVanishes, managerState, Notice
  <2>2. \A p \in Paths \ {q} : raw'[p] = raw[p]
      BY <1>0, <2>1 DEF RawOK
  <2>3. WordOK'
      BY <1>0, <1>1, <2>1, <2>2, WordsStay DEF Settled, IsWatched
  <2>4. phase # "watching" => raw' = raw
      BY <1>0, <2>1 DEF HistoryOK
  <2>5. StartOK'
      BY <1>0, <1>1, <2>1, <2>2, <2>4 DEF StartOK
  <2> QED BY <2>3, <2>5
<1>6. ASSUME NEW q \in Paths, TouchSocket(q) PROVE StartOK' /\ WordOK'
  <2>1. /\ UNCHANGED <<onDisk, watched, inotify, gap, silent>>
        /\ raw' = IF DirOf[q] \in inotify
                  THEN [raw EXCEPT ![q] = Debounced(raw[q], "modify")] ELSE raw
      BY <1>6 DEF TouchSocket, managerVars, history, Notice
  <2>2. raw[q] \in Pending
      BY <1>0 DEF RawOK
  <2>3. Debounced(raw[q], "modify") \in {raw[q]} \cup Creating
      BY <2>2, DebouncedModification
  <2>4. \A p \in Paths : raw'[p] = raw[p] \/ (raw'[p] \in Creating /\ DirOf[p] \in inotify)
      BY <1>0, <2>1, <2>3 DEF RawOK
  <2>5. WordOK'
    <3> SUFFICES ASSUME NEW p \in onDisk' \ gap', DirOf[p] \in inotify'
                 PROVE  Word(p)'
        BY DEF WordOK
    <3>1. p \in Paths /\ Word(p)
        BY <1>0, <2>1 DEF WordOK
    <3> QED BY <1>1, <2>1, <2>4, <3>1 DEF Word, Settled, IsWatched
  <2>6. StartOK'
    <3>1. <<"remove">> \notin Creating
        BY DEF Creating
    <3> QED BY <1>0, <1>1, <2>1, <2>4, <3>1 DEF StartOK, HistoryOK
  <2> QED BY <2>5, <2>6
<1> QED BY <1>2, <1>3, <1>4, <1>5, <1>6 DEF Tmp

(* Every step of the watcher, the poll, the scans and the health check. *)
LEMMA WordStep == WordInv /\ [WatchNext]_watchVars => WordInv'
<1> SUFFICES ASSUME WordInv, [WatchNext]_watchVars PROVE StartOK' /\ WordOK'
    BY WatchStep DEF WordInv
<1>0. /\ WatchInv /\ StartOK /\ WordOK /\ HistoryOK /\ RawOK /\ ScansOK /\ PhaseOK
      /\ onDisk \subseteq Paths /\ channel \in Seq(WatchEvents)
    BY DEF WordInv, WatchInv, ManagerTypeOK, PhaseOK
<1>1. CASE Tmp
    BY <1>1, TmpWords
<1>2. ASSUME NEW w \in Scanners, NEW d \in Dirs, ReadDirectory(w, d) PROVE StartOK' /\ WordOK'
  <2>1. /\ left' = [left EXCEPT ![w] = left[w] \ {d}]
        /\ found' = [found EXCEPT ![w] = found[w] \cup {p \in onDisk : DirOf[p] = d}]
        /\ UNCHANGED <<watched, onDisk, phase, mode, inotify, raw, channel, scanning, gap, silent>>
      BY <1>2 DEF ReadDirectory, tmp, signals, history, managerVars
  <2>2. WordOK'
      BY <1>0, <2>1, WordsStay DEF Settled, IsWatched
  <2>3. \A p \in onDisk \ gap : DirOf[p] \in left["startup"] \/ p \in found["startup"]
            => DirOf[p] \in left'["startup"] \/ p \in found'["startup"]
      BY <1>0, <2>1 DEF ScansOK, Scanners
  <2>4. left["startup"] = {} => left'["startup"] = {}
      BY <1>0, <2>1 DEF ScansOK, Scanners
  <2>5. StartOK'
      BY <1>0, <2>1, <2>3, <2>4 DEF StartOK
  <2> QED BY <2>2, <2>5
<1>3. CASE StartupScanEnds
  <2>1. /\ phase = "scanning" /\ phase' = "scanned" /\ ScanStops("startup")
        /\ UNCHANGED <<onDisk, mode, inotify, raw, channel>>
      BY <1>3 DEF StartupScanEnds, ScanSucceeds, ScanFails, tmp, signals, managerVars
  <2>2. inotify' = {}
      BY <1>0, <2>1 DEF HistoryOK
  <2>3. onDisk' \ gap' \subseteq DOMAIN watched'
    <3>1. ASSUME NEW t \in Now, left["startup"] = {}, gap' = gap,
                 watched' = WithAll(found["startup"], t)
          PROVE  onDisk' \ gap' \subseteq DOMAIN watched'
      <4>1. onDisk \ gap \subseteq found["startup"]
          BY <1>0, <2>1, <3>1 DEF StartOK
      <4> QED BY <2>1, <3>1, <4>1 DEF WithAll
    <3>2. CASE gap' = onDisk
        BY <2>1, <3>2
    <3> QED BY <1>3, <3>1, <3>2 DEF StartupScanEnds, ScanSucceeds
  <2>4. scanning' = {} /\ left'["startup"] = {}
      BY <1>0, <2>1 DEF ScanStops, StartOK, ScansOK, Scanners
  <2>5. StartOK'
      BY <1>0, <2>1, <2>2, <2>3, <2>4 DEF StartOK
  <2> QED BY <2>2, <2>5 DEF WordOK
<1>4. CASE StartSmartWatcher
  <2>1. /\ phase = "scanned" /\ mode = "smart" /\ phase' = "watching"
        /\ UNCHANGED <<onDisk, watched, mode, raw, channel, scanning, left, found, gap>>
      BY <1>4 DEF StartSmartWatcher, tmp, scanVars, history, managerVars
  <2>2. channel = <<>> /\ \A p \in Paths : raw[p] = <<>>
      BY <1>0, <2>1 DEF StartOK
  <2>3. onDisk' \ gap' \subseteq DOMAIN watched'
      BY <1>0, <2>1 DEF StartOK
  <2>4. WordOK'
    <3>1. DOMAIN channel' = {} /\ 0 \in 0 .. Len(channel')
        BY <2>1, <2>2
    <3> QED BY <2>3, <3>1 DEF WordOK, Word, Settled, IsWatched
  <2>5. StartOK'
    <3>1. <<"remove">> # <<>>
        OBVIOUS
    <3> QED BY <1>0, <2>1, <2>2, <3>1 DEF StartOK
  <2> QED BY <2>4, <2>5
<1>5. CASE StartPolling \/ PollTick \/ ReloadBegins
  <2>1. /\ phase \in {"seeding", "watching"} \/ (phase = "scanned" /\ phase' = "seeding")
        /\ phase' \in {phase, "seeding"}
        /\ phase' # "watching" => phase # "watching"
        /\ UNCHANGED <<onDisk, watched, mode, inotify, raw, channel, gap, silent>>
      BY <1>5 DEF StartPolling, PollTick, ReloadBegins, Served, tmp, signals, managerVars
  <2>2. phase' \notin {"scanning", "scanned"}
      BY <1>5 DEF StartPolling, PollTick, ReloadBegins, Served
  <2>3. /\ "poll" \in scanning' => "poll" \in scanning \/ mode = "polling"
        /\ left'["startup"] = left["startup"] /\ found'["startup"] = found["startup"]
      BY <1>0, <1>5 DEF StartPolling, PollTick, ReloadBegins, ScanBegins, ScansOK, Scanners
  <2>4. WordOK'
      BY <1>0, <2>1, WordsStay DEF Settled, IsWatched
  <2>5. StartOK'
      BY <1>0, <2>1, <2>2, <2>3 DEF StartOK
  <2> QED BY <2>4, <2>5
<1>6. CASE PollingSeeded \/ ReloadFails \/ PollFails
  <2>1. /\ phase' \in {phase, "watching"} /\ (PollingSeeded => phase' = "watching")
        /\ scanning' \subseteq scanning /\ silent \subseteq silent'
        /\ UNCHANGED <<onDisk, watched, mode, inotify, raw, channel, gap>>
      BY <1>6 DEF PollingSeeded, ReloadFails, PollFails, ScanSucceeds, ScanFails, ScanStops, tmp, signals,
                  managerVars
  <2>2. WordOK'
      BY <1>0, <2>1, WordsStay DEF Settled, IsWatched
  <2>3. /\ left'["startup"] \in {left["startup"], {}}
        /\ ReloadFails \/ PollFails => left'["startup"] = left["startup"] /\ found'["startup"] = found["startup"]
      BY <1>0, <1>6 DEF PollingSeeded, ReloadFails, PollFails, ScanSucceeds, ScanFails, ScanStops,
                        ScansOK, Scanners
  <2>4. StartOK'
      BY <1>0, <1>6, <2>1, <2>3 DEF StartOK
  <2> QED BY <2>2, <2>4
<1>7. CASE PollSucceeds
  <2>1. /\ phase = "watching" /\ "poll" \in scanning /\ scanning' \subseteq scanning
        /\ UNCHANGED <<onDisk, watched, phase, mode, inotify, raw, gap>>
      BY <1>7 DEF PollSucceeds, ScanSucceeds, ScanStops, tmp, managerVars
  <2>2. inotify' = {}
      BY <1>0, <2>1 DEF StartOK
  <2>3. StartOK'
      BY <1>0, <2>1, <2>2 DEF StartOK
  <2> QED BY <2>2, <2>3 DEF WordOK
<1>8. ASSUME NEW q \in Paths, Report(q) PROVE StartOK' /\ WordOK'
  <2>1. /\ raw[q] # <<>> /\ raw' = [raw EXCEPT ![q] = Tail(raw[q])]
        /\ channel' = IF Head(raw[q]) = "remove" THEN Append(channel, Removed(q))
                      ELSE IF q \in onDisk THEN Append(channel, Added(q)) ELSE channel
        /\ UNCHANGED <<onDisk, watched, phase, mode, inotify, scanning, left, found, gap, silent>>
      BY <1>8 DEF Report, tmp, scanVars, history, managerVars
  <2>2. raw[q] \in {<<"create">>, <<"modify">>, <<"remove">>, <<"remove", "create">>}
      BY <1>0, <2>1 DEF RawOK, Pending, Creating
  <2>3. phase = "watching"
      BY <1>0, <2>1 DEF StartOK
  <2>4. \A p \in Paths \ {q} : raw'[p] = raw[p]
      BY <1>0, <2>1 DEF RawOK
  <2>5. raw'[q] = Tail(raw[q])
      BY <1>0, <2>1 DEF RawOK
  <2>6. StartOK'
    <3>1. raw'[q] # <<"remove">>
      <4>1. Tail(<<"create">>) = <<>> /\ Tail(<<"modify">>) = <<>> /\ Tail(<<"remove">>) = <<>>
            /\ Tail(<<"remove", "create">>) = <<"create">>
          OBVIOUS
      <4>2. <<"remove">> # <<>> /\ <<"remove">> # <<"create">>
          OBVIOUS
      <4> QED BY <2>2, <2>5, <4>1, <4>2
    <3> QED BY <1>0, <2>1, <2>3, <2>4, <3>1 DEF StartOK
  <2>7. WordOK'
    <3> SUFFICES ASSUME NEW p \in onDisk' \ gap', DirOf[p] \in inotify'
                 PROVE  Word(p)'
        BY DEF WordOK
    <3>1. p \in Paths /\ p \in onDisk /\ Word(p)
        BY <1>0, <2>1 DEF WordOK
    <3>2. \A x \in Paths : Added(x) \in WatchEvents /\ Removed(x) \in WatchEvents
        BY DEF Added, Removed, WatchEvents
    <3>3. CASE p = q
      <4>1. CASE raw[q] = <<"remove", "create">>
        <5>1. raw'[q] = <<"create">>
            BY <2>5, <4>1
        <5> QED BY <3>3, <5>1 DEF Word, Creating
      <4>2. CASE raw[q] = <<"remove">>
          BY <1>0, <2>1, <3>1, <3>3, <4>2 DEF StartOK
      <4>3. CASE raw[q] \in {<<"create">>, <<"modify">>}
        <5>1. channel' = Append(channel, Added(p))
            BY <2>1, <3>1, <3>3, <4>3
        <5> QED BY <1>0, <2>1, <3>1, <3>2, <5>1, WordSent
      <4> QED BY <2>2, <4>1, <4>2, <4>3
    <3>4. CASE p # q
      <4>1. \A e \in {Added(q), Removed(q)} : e \in WatchEvents /\ e # Removed(p)
        <5>1. Added(q).kind # Removed(p).kind /\ Removed(q).path # Removed(p).path
            BY <3>4 DEF Added, Removed
        <5> QED BY <3>2, <5>1
      <4>2. raw'[p] = raw[p]
          BY <2>4, <3>1, <3>4
      <4>3. CASE channel' = channel
          BY <2>1, <3>1, <4>2, <4>3 DEF Word, Settled, IsWatched
      <4>4. ASSUME NEW e \in {Added(q), Removed(q)}, channel' = Append(channel, e)
            PROVE  Word(p)'
          BY <1>0, <2>1, <3>1, <4>1, <4>2, <4>4, WordSent
      <4> QED BY <2>1, <4>3, <4>4
    <3> QED BY <3>3, <3>4
  <2> QED BY <2>6, <2>7
<1>9. CASE HandleAdded \/ HandleRemoved
  <2>1. /\ channel # <<>> /\ channel' = Tail(channel)
        /\ UNCHANGED <<phase, mode, inotify, raw, scanning, left, found, gap>>
      BY <1>9 DEF HandleAdded, HandleRemoved, EventTaken, tmp, scanVars, history
  <2>2. phase = "watching" /\ UNCHANGED onDisk
      BY <1>0, <1>9, <2>1 DEF StartOK, HandleAdded, HandleRemoved, AddWatched, RemoveWatched,
                              managerVars
  <2>3. StartOK'
      BY <1>0, <2>1, <2>2 DEF StartOK
  <2>4. WordOK'
    <3> SUFFICES ASSUME NEW p \in onDisk' \ gap', DirOf[p] \in inotify'
                 PROVE  Word(p)'
        BY DEF WordOK
    <3>1. p \in Paths /\ Word(p) /\ raw'[p] = raw[p]
        BY <1>0, <2>1, <2>2 DEF WordOK
    <3>2. Head(channel) \in WatchEvents
        BY <1>0, <2>1
    <3> DEFINE q == Head(channel).path
    <3>3. CASE HandleAdded
      <4>1. Head(channel) # Removed(p) /\ (Head(channel) = Added(p) => q = p)
          BY <3>3 DEF HandleAdded, EventTaken, Removed, Added
      <4>2. /\ q \in DOMAIN watched' /\ DOMAIN watched \subseteq DOMAIN watched'
            /\ silent' = silent \ {q}
          BY <3>3 DEF HandleAdded, AddWatched, IsWatched, managerVars
      <4>3. (q = p => Settled(p)') /\ (Settled(p) => Settled(p)')
          BY <4>2 DEF Settled, IsWatched
      <4> QED BY <1>0, <2>1, <3>1, <4>1, <4>3, WordHandled
    <3>4. CASE HandleRemoved
      <4>1. Head(channel) # Added(p) /\ (q = p => Head(channel) = Removed(p))
          BY <3>2, <3>4 DEF HandleRemoved, EventTaken, Removed, Added, WatchEvents
      <4>2. DOMAIN watched \ {q} \subseteq DOMAIN watched' /\ silent' = silent
          BY <3>4 DEF HandleRemoved, RemoveWatched, IsWatched, managerVars, Restrict
      <4>3. q # p => (Settled(p) => Settled(p)')
          BY <4>2 DEF Settled, IsWatched
      <4> QED BY <1>0, <2>1, <3>1, <4>1, <4>3, WordHandled
    <3> QED BY <1>9, <3>3, <3>4
  <2> QED BY <2>3, <2>4
<1>10. CASE HealthTick \/ ReloadSucceeds
  <2>1. /\ UNCHANGED <<onDisk, phase, mode, inotify, raw, channel, gap>>
        /\ scanning' \subseteq scanning
        /\ DOMAIN watched \cap onDisk \subseteq DOMAIN watched'
        /\ silent \cap onDisk \subseteq silent' \cup DOMAIN watched'
      BY <1>10 DEF HealthTick, ValidateAndCleanup, ReloadSucceeds, ScanSucceeds, ScanStops, tmp,
                   signals, scanVars, history, Restrict
  <2>2. WordOK'
      BY <1>0, <2>1, WordsStay DEF Settled, IsWatched
  <2>3. left'["startup"] = left["startup"] /\ found'["startup"] = found["startup"]
      BY <1>0, <1>10 DEF HealthTick, ReloadSucceeds, ScanSucceeds, ScanStops, scanVars, ScansOK,
                         Scanners
  <2>4. StartOK'
      BY <1>0, <2>1, <2>3 DEF StartOK
  <2> QED BY <2>2, <2>4
<1>11. ASSUME NEW q \in Paths, AddByHand(q) \/ RemoveByHand(q) PROVE StartOK' /\ WordOK'
  <2>1. /\ phase \in {"seeding", "watching"}
        /\ UNCHANGED <<onDisk, phase, mode, inotify, raw, channel, scanning, left, found, gap>>
      BY <1>11 DEF AddByHand, RemoveByHand, Served, AddWatched, RemoveWatched, tmp, signals, scanVars
  <2>2. /\ AddByHand(q) => q \in DOMAIN watched'
        /\ RemoveByHand(q) /\ q \in onDisk => q \in silent'
        /\ DOMAIN watched \ {q} \subseteq DOMAIN watched' /\ silent \ {q} \subseteq silent'
      BY <1>11 DEF AddByHand, RemoveByHand, AddWatched, RemoveWatched, Restrict
  <2>3. WordOK'
      BY <1>0, <1>11, <2>1, <2>2, WordsStay DEF Settled, IsWatched
  <2>4. StartOK'
      BY <1>0, <2>1 DEF StartOK
  <2> QED BY <2>3, <2>4
<1>12. CASE UNCHANGED watchVars
  <2>1. UNCHANGED <<onDisk, watched, phase, mode, inotify, raw, channel, scanning, left, found, gap,
                    silent>>
      BY <1>12 DEF watchVars, managerVars, signals, scanVars, history
  <2>2. WordOK'
      BY <1>0, <2>1, WordsStay DEF Settled, IsWatched
  <2>3. StartOK'
      BY <1>0, <2>1 DEF StartOK
  <2> QED BY <2>2, <2>3
<1> QED
    BY <1>1, <1>2, <1>3, <1>4, <1>5, <1>6, <1>7, <1>8, <1>9, <1>10, <1>11, <1>12
    DEF WatchNext, Scan

(* However fast a socket is removed and made again, and whatever is scanned,  *)
(* reloaded or cleaned up meanwhile, the last word on a socket the smart      *)
(* watcher is responsible for, and that nobody took off the list by hand, is  *)
(* true (handle_smart_event, the event task).                                 *)
THEOREM WordsAreTrue == WatchSpec => []LastWordIsTrue
<1>1. WatchInit => WordInv
    BY WatchInitInv, WordInitInv DEF WordInv
<1> QED BY <1>1, WordStep, WordInvImplies, PTL DEF WatchSpec

(* Once nothing is pending, neither in the debouncer nor in the channel,      *)
(* nothing is missed: every socket that the smart watcher is responsible for  *)
(* is listed, unless somebody took it off the list by hand since it came and  *)
(* since it was last added, which is the safety half of NothingElseIsMissed.  *)
Quiet == channel = <<>> /\ \A p \in Paths : raw[p] = <<>>

THEOREM QuietMissesNothing ==
    WatchSpec => [](Quiet => \A p \in onDisk \ (gap \cup silent) :
                                 DirOf[p] \in inotify => IsWatched(p))
<1> DEFINE Listing == \A p \in onDisk \ (gap \cup silent) : DirOf[p] \in inotify => IsWatched(p)
<1>1. ASSUME WordInv, Quiet PROVE Listing
  <2> SUFFICES ASSUME NEW p \in onDisk \ (gap \cup silent), DirOf[p] \in inotify
               PROVE  IsWatched(p)
      OBVIOUS
  <2>1. Word(p) /\ p \in Paths
      BY <1>1 DEF WordInv, WordOK, WatchInv, ManagerTypeOK
  <2>2. raw[p] \notin Creating
      BY <1>1, <2>1 DEF Quiet, Creating
  <2>3. 0 .. Len(channel) = {0}
      BY <1>1 DEF Quiet
  <2> QED BY <2>1, <2>2, <2>3 DEF Word, Settled
<1>2. WatchInit => WordInv
    BY WatchInitInv, WordInitInv DEF WordInv
<1> QED BY <1>1, <1>2, WordStep, PTL DEF WatchSpec
=============================================================================
