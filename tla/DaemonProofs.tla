---------------------------- MODULE DaemonProofs ----------------------------
(***************************************************************************)
(* Proofs about Daemon: its types; that no instance takes the listening    *)
(* socket of one that serves; that a daemon whose start script removes old *)
(* files never finds its own in its way.                                   *)
(***************************************************************************)
EXTENDS Daemon, TLAPS

-----------------------------------------------------------------------------
(* Types.                                                                    *)

LEMMA TypesInit == DaemonInit => DaemonTypeOK
<1> SUFFICES ASSUME DaemonInit PROVE DaemonTypeOK
  OBVIOUS
<1>1. pc \in [Instances -> Phases] /\ taken \subseteq {"listen", "control"}
  BY DEF DaemonInit, Phases
<1>2. listenFile \in Owners /\ ctlFile \in Owners
  BY DEF DaemonInit, Owners
<1>3. faults \in 0 .. MaxFaults
  BY DaemonAssumption DEF DaemonInit
<1>4. \A p \in Instances : pc[p] = "stopped" => ctlFile # p
  BY DEF DaemonInit
<1>5. hung \subseteq {p \in Instances : pc[p] = "serving"}
  BY DEF DaemonInit
<1> QED
  BY <1>1, <1>2, <1>3, <1>4, <1>5 DEF DaemonTypeOK

LEMMA TypesStep == DaemonTypeOK /\ [DaemonNext]_vars => DaemonTypeOK'
<1> SUFFICES ASSUME DaemonTypeOK, [DaemonNext]_vars PROVE DaemonTypeOK'
  OBVIOUS
<1> USE DaemonAssumption DEF DaemonTypeOK, Phases, Owners, GoTo, TakenBy, RemovesListen,
      RemovesControl, RemovesBoth, Files, Running, Serving
<1>1. ASSUME NEW p \in Instances, Start(p) PROVE DaemonTypeOK'
  BY <1>1 DEF Start, Launch
<1>2. ASSUME NEW p \in Instances, Restart(p) PROVE DaemonTypeOK'
  BY <1>2 DEF Restart, Launch
<1>3. ASSUME NEW p \in Instances, ClearControl(p) PROVE DaemonTypeOK'
  BY <1>3 DEF ClearControl
<1>4. ASSUME NEW p \in Instances, BindControl(p) PROVE DaemonTypeOK'
  BY <1>4 DEF BindControl
<1>5. ASSUME NEW p \in Instances, NotifyReady(p) PROVE DaemonTypeOK'
  BY <1>5 DEF NotifyReady
<1>6. ASSUME NEW p \in Instances, Listen(p) PROVE DaemonTypeOK'
  BY <1>6 DEF Listen
<1>7. ASSUME NEW p \in Instances, ListenFails(p) PROVE DaemonTypeOK'
  BY <1>7 DEF ListenFails
<1>8. ASSUME NEW p \in Instances, Reload(p) PROVE DaemonTypeOK'
  BY <1>8 DEF Reload
<1>9. ASSUME NEW p \in Instances, Terminate(p) PROVE DaemonTypeOK'
  BY <1>9 DEF Terminate
<1>10. ASSUME NEW p \in Instances, AcceptFails(p) PROVE DaemonTypeOK'
  BY <1>10 DEF AcceptFails, Fault
<1>11. ASSUME NEW p \in Instances, HealthExit(p) PROVE DaemonTypeOK'
  BY <1>11 DEF HealthExit
<1>12. ASSUME NEW p \in Instances, Killed(p) PROVE DaemonTypeOK'
  BY <1>12 DEF Killed, Fault
<1>13. CASE FileTaken
  <2>1. pc' = pc /\ hung' = hung /\ faults' \in 0 .. MaxFaults
    BY <1>13 DEF FileTaken, Fault
  <2>2. taken' \subseteq {"listen", "control"}
    BY <1>13 DEF FileTaken
  <2>3. /\ listenFile' \in Owners /\ ctlFile' \in Owners
        /\ ctlFile' \in {ctlFile, Nobody}
    BY <1>13 DEF FileTaken
  <2> QED
    BY <2>1, <2>2, <2>3
<1>14. ASSUME NEW p \in Instances, Hangs(p) PROVE DaemonTypeOK'
  BY <1>14 DEF Hangs, Fault
<1>15. ASSUME NEW p \in Instances, WatchdogKills(p) PROVE DaemonTypeOK'
  BY <1>15 DEF WatchdogKills
<1>16. CASE UNCHANGED vars
  BY <1>16 DEF vars
<1> QED
  BY <1>1, <1>2, <1>3, <1>4, <1>5, <1>6, <1>7, <1>8, <1>9, <1>10, <1>11, <1>12,
     <1>13, <1>14, <1>15, <1>16 DEF DaemonNext, Proceed

(* The state keeps its types, and an instance that stopped on a signal has   *)
(* left no control socket behind (SelfDeletingControlSocket).                *)
THEOREM TypesHold == DaemonSpec => []DaemonTypeOK
BY TypesInit, TypesStep, PTL DEF DaemonSpec

-----------------------------------------------------------------------------
(* A second instance.                                                        *)

LEMMA OwnSocketStep ==
    ASSUME DaemonTypeOK, ServesItsOwnSocket, [DaemonNext]_vars
    PROVE  ServesItsOwnSocket'
<1> USE DaemonAssumption DEF DaemonTypeOK, ServesItsOwnSocket, Phases, Owners, Running, GoTo,
      TakenBy, RemovesListen, RemovesControl, RemovesBoth, Files, Serving
<1>1. ASSUME NEW p \in Instances, Start(p) \/ Restart(p) PROVE ServesItsOwnSocket'
  (* A start script that removes the socket of one that serves is recorded. *)
  BY <1>1 DEF Start, Restart, Launch
<1>2. ASSUME NEW p \in Instances, ClearControl(p) \/ BindControl(p) \/ NotifyReady(p)
      PROVE  ServesItsOwnSocket'
  BY <1>2 DEF ClearControl, BindControl, NotifyReady
<1>3. ASSUME NEW p \in Instances, Listen(p) PROVE ServesItsOwnSocket'
  (* The path is free: nobody else serves. *)
  BY <1>3 DEF Listen
<1>4. ASSUME NEW p \in Instances, ListenFails(p) PROVE ServesItsOwnSocket'
  BY <1>4 DEF ListenFails
<1>5. ASSUME NEW p \in Instances, Reload(p) PROVE ServesItsOwnSocket'
  (* Whoever removes the file has bound it. *)
  BY <1>5 DEF Reload
<1>6. ASSUME NEW p \in Instances, Terminate(p) PROVE ServesItsOwnSocket'
  BY <1>6 DEF Terminate
<1>7. ASSUME NEW p \in Instances, AcceptFails(p) PROVE ServesItsOwnSocket'
  BY <1>7 DEF AcceptFails
<1>8. ASSUME NEW p \in Instances, HealthExit(p) \/ Killed(p) \/ Hangs(p) \/ WatchdogKills(p)
      PROVE  ServesItsOwnSocket'
  BY <1>8 DEF HealthExit, Killed, Hangs, WatchdogKills
<1>9. CASE FileTaken
  BY <1>9 DEF FileTaken
<1>10. CASE UNCHANGED vars
  BY <1>10 DEF vars
<1> QED
  BY <1>1, <1>2, <1>3, <1>4, <1>5, <1>6, <1>7, <1>8, <1>9, <1>10 DEF DaemonNext, Proceed

(* Any number of instances on the same paths, with or without start scripts  *)
(* that remove files, through crashes, reloads and starts in any order:      *)
(* unless the listening socket of a running one was removed, a daemon that   *)
(* serves is the one its listening socket leads to                           *)
(* (SelfDeletingUnixListener::bind).                                         *)
THEOREM OwnSocket == DaemonSpec => []ServesItsOwnSocket
<1>1. DaemonInit => ServesItsOwnSocket
  BY DEF DaemonInit, ServesItsOwnSocket
<1>2. DaemonTypeOK /\ ServesItsOwnSocket /\ [DaemonNext]_vars => ServesItsOwnSocket'
  BY OwnSocketStep
<1> QED
  BY <1>1, <1>2, TypesHold, PTL DEF DaemonSpec

-----------------------------------------------------------------------------
(* A daemon whose start script removes old files.                            *)

(* None of its files is in its way when it gets to bind, and until somebody  *)
(* takes one, both are there when the health check looks.                    *)
ClearWayOf(p) ==
    /\ pc[p] \in {"starting", "cleared", "bound", "ready"} => listenFile # p
    /\ pc[p] = "cleared" => ctlFile # p
    /\ taken = {} /\ pc[p] \in {"bound", "ready", "serving"} => ctlFile = p

ClearWay == \A p \in Cleaning : ClearWayOf(p)

LEMMA ClearWayStep ==
    ASSUME DaemonTypeOK, ServesItsOwnSocket, ClearWay, [DaemonNext]_vars
    PROVE  ClearWay'
<1> SUFFICES ASSUME NEW q \in Cleaning PROVE ClearWayOf(q)'
  BY DEF ClearWay
<1> q \in Instances /\ ClearWayOf(q)
  BY DaemonAssumption DEF ClearWay
<1> USE DaemonAssumption DEF DaemonTypeOK, ClearWayOf, Phases, Owners, Running, GoTo, TakenBy,
      RemovesListen, RemovesControl, RemovesBoth, Files, Serving
<1>1. ASSUME NEW p \in Instances, Start(p) \/ Restart(p) PROVE ClearWayOf(q)'
  BY <1>1 DEF Start, Restart, Launch
<1>2. ASSUME NEW p \in Instances, ClearControl(p) PROVE ClearWayOf(q)'
  BY <1>2 DEF ClearControl
<1>3. ASSUME NEW p \in Instances, BindControl(p) PROVE ClearWayOf(q)'
  BY <1>3 DEF BindControl
<1>4. ASSUME NEW p \in Instances, NotifyReady(p) \/ Listen(p) PROVE ClearWayOf(q)'
  BY <1>4 DEF NotifyReady, Listen
<1>5. ASSUME NEW p \in Instances, ListenFails(p) PROVE ClearWayOf(q)'
  BY <1>5 DEF ListenFails
<1>6. ASSUME NEW p \in Instances, Reload(p) \/ Terminate(p) PROVE ClearWayOf(q)'
  BY <1>6 DEF Reload, Terminate
<1>7. ASSUME NEW p \in Instances, AcceptFails(p) PROVE ClearWayOf(q)'
  BY <1>7 DEF AcceptFails
<1>8. ASSUME NEW p \in Instances, HealthExit(p) \/ Killed(p) \/ Hangs(p) \/ WatchdogKills(p)
      PROVE  ClearWayOf(q)'
  BY <1>8 DEF HealthExit, Killed, Hangs, WatchdogKills
<1>9. CASE FileTaken
  BY <1>9 DEF FileTaken
<1>10. CASE UNCHANGED vars
  BY <1>10 DEF vars
<1> QED
  BY <1>1, <1>2, <1>3, <1>4, <1>5, <1>6, <1>7, <1>8, <1>9, <1>10 DEF DaemonNext, Proceed

LEMMA GivesUpOnlyThen ==
    ASSUME DaemonTypeOK, ServesItsOwnSocket, ClearWay, DaemonNext,
           NEW q \in Cleaning, pc[q] \in Running, pc'[q] = "failed", faults' = faults
    PROVE  taken # {} \/ Usurped(q) \/ q \in hung
<1> q \in Instances /\ ClearWayOf(q)
  BY DaemonAssumption DEF ClearWay
<1> USE DaemonAssumption DEF DaemonTypeOK, ClearWayOf, Phases, Running, Owners, GoTo, Usurped,
      Serving
<1>1. ASSUME NEW p \in Instances, Killed(p) \/ AcceptFails(p) \/ Hangs(p) PROVE FALSE
  BY <1>1 DEF Killed, AcceptFails, Hangs, Fault
<1>2. CASE FileTaken
  BY <1>2 DEF FileTaken, Fault
<1>3. ASSUME NEW p \in Instances, BindControl(p) \/ ListenFails(p)
      PROVE  taken # {} \/ Usurped(q)
  BY <1>3 DEF BindControl, ListenFails
<1>4. ASSUME NEW p \in Instances, HealthExit(p) PROVE taken # {} \/ Usurped(q)
  BY <1>4 DEF HealthExit, ServesItsOwnSocket
<1>5. ASSUME NEW p \in Instances,
             \/ Start(p) \/ Restart(p) \/ ClearControl(p) \/ NotifyReady(p)
             \/ Listen(p) \/ Reload(p) \/ Terminate(p)
      PROVE  FALSE
  BY <1>5 DEF Start, Restart, Launch, ClearControl, NotifyReady, Listen, Reload, Terminate
<1>6. ASSUME NEW p \in Instances, WatchdogKills(p) PROVE q \in hung
  BY <1>6 DEF WatchdogKills
<1> QED
  BY <1>1, <1>2, <1>3, <1>4, <1>5, <1>6 DEF DaemonNext, Proceed

(* Whatever the other instances do, with any number of crashes, failing      *)
(* accepts and removals: a daemon whose start script removes both files      *)
(* ends only at a fault, once a file was taken from a running daemon,        *)
(* because of another instance's file or when it hangs, never on a file of   *)
(* its own (run_daemon).                                                     *)
THEOREM Unhindered == DaemonSpec => NoSpuriousExit
<1>1. DaemonInit => ClearWay
  BY DaemonAssumption DEF DaemonInit, ClearWay, ClearWayOf
<1>2. DaemonTypeOK /\ ServesItsOwnSocket /\ ClearWay /\ [DaemonNext]_vars => ClearWay'
  BY ClearWayStep
<1>3. DaemonTypeOK /\ ServesItsOwnSocket /\ ClearWay /\ [DaemonNext]_vars =>
        [ExitHasReason]_vars
  BY GivesUpOnlyThen DEF ExitHasReason
<1> QED
  BY <1>1, <1>2, <1>3, TypesHold, OwnSocket, PTL DEF DaemonSpec, NoSpuriousExit
=============================================================================
