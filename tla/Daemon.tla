------------------------------- MODULE Daemon -------------------------------
(***************************************************************************)
(* The life of the daemon (run_daemon in src/bin/ssh-agent-mux/main.rs,    *)
(* with the listener of src/lib.rs and the bind of src/control/server.rs): *)
(* the two socket files, the READY notification, the signals, the exits    *)
(* and what a restart finds.  Several instances may be told to use the     *)
(* same two paths, some kept up by a service manager, others started by    *)
(* hand.  A file stays when the process that bound it is gone.             *)
(***************************************************************************)
EXTENDS Integers

CONSTANTS
    Instances,     \* processes configured for the same two paths
    Nobody,        \* no socket file at a path
    Supervised,    \* those a service manager restarts when they fail
    Watchdog,      \* those of them it also kills when their pings stop
    Cleaning,      \* those whose start script removes both files, as the NixOS
                   \* and darwin modules do and the home-manager one not
    Tampering,     \* BOOLEAN: others may remove the files
    MaxFaults      \* bound: crashes, hangs, failing accepts and files removed

ASSUME DaemonAssumption ==
    /\ Nobody \notin Instances
    /\ Supervised \subseteq Instances /\ Watchdog \subseteq Supervised
    /\ Cleaning \subseteq Instances
    /\ Tampering \in BOOLEAN
    /\ MaxFaults \in Nat

VARIABLES
    pc,            \* how far each instance is
    listenFile,    \* who bound the file at listen_path
    ctlFile,       \* who bound the file at the control path
    hung,          \* those whose only thread is blocked
    faults,        \* faults so far
    taken          \* history: which paths lost the file of an instance that runs

vars == <<pc, listenFile, ctlFile, hung, faults, taken>>

Phases == {"down", "starting", "cleared", "bound", "ready", "serving", "stopped", "failed"}
Running == Phases \ {"down", "stopped", "failed"}
Owners == Instances \cup {Nobody}

(* An instance that was asked to stop leaves no control socket. *)
DaemonTypeOK ==
    /\ pc \in [Instances -> Phases]
    /\ listenFile \in Owners /\ ctlFile \in Owners
    /\ faults \in 0 .. MaxFaults
    /\ taken \subseteq {"listen", "control"}
    /\ \A p \in Instances : pc[p] = "stopped" => ctlFile # p
    /\ hung \subseteq {p \in Instances : pc[p] = "serving"}

DaemonInit ==
    /\ pc = [p \in Instances |-> "down"]
    /\ listenFile = Nobody /\ ctlFile = Nobody
    /\ hung = {}
    /\ faults = 0
    /\ taken = {}

GoTo(p, phase) == pc' = [pc EXCEPT ![p] = phase]

Fault == faults < MaxFaults /\ faults' = faults + 1

(* p removes what is at a path: whose it is, is not looked at. *)
TakenBy(p, path, owner) ==
    IF owner \in Instances \ {p} /\ pc[owner] \in Running THEN {path} ELSE {}

RemovesListen(p) ==
    /\ listenFile' = Nobody /\ UNCHANGED ctlFile
    /\ taken' = taken \cup TakenBy(p, "listen", listenFile)

RemovesControl(p) ==
    /\ ctlFile' = Nobody /\ UNCHANGED listenFile
    /\ taken' = taken \cup TakenBy(p, "control", ctlFile)

RemovesBoth(p) ==
    /\ listenFile' = Nobody /\ ctlFile' = Nobody
    /\ taken' = taken \cup TakenBy(p, "listen", listenFile)
                    \cup TakenBy(p, "control", ctlFile)

Files == <<listenFile, ctlFile, taken>>

-----------------------------------------------------------------------------
(* The start: configuration, signals, watcher and health check come first.   *)

Launch(p) ==
    /\ GoTo(p, "starting")
    /\ IF p \in Cleaning THEN RemovesBoth(p) ELSE UNCHANGED Files
    /\ UNCHANGED <<faults, hung>>

(* By hand, or by the service manager at the login of the user. *)
Start(p) == pc[p] \notin Running /\ Launch(p)

(* Restart=on-failure *)
Restart(p) == p \in Supervised /\ pc[p] = "failed" /\ Launch(p)

(* ControlServer::bind: whoever's control socket is there is removed. *)
ClearControl(p) ==
    /\ pc[p] = "starting"
    /\ GoTo(p, "cleared")
    /\ RemovesControl(p)
    /\ UNCHANGED <<faults, hung>>

BindControl(p) ==
    /\ pc[p] = "cleared"
    /\ \/ ctlFile = Nobody /\ ctlFile' = p /\ GoTo(p, "bound")
       \/ ctlFile # Nobody /\ UNCHANGED ctlFile /\ GoTo(p, "failed")
    /\ UNCHANGED <<listenFile, faults, taken, hung>>

NotifyReady(p) ==
    /\ pc[p] = "bound"
    /\ GoTo(p, "ready")
    /\ UNCHANGED <<listenFile, ctlFile, faults, taken, hung>>

ListenAnyway(p) ==    \* Mutant: a file at the path is removed, as for the control socket.
    /\ pc[p] = "ready"
    /\ GoTo(p, "serving")
    /\ listenFile' = p
    /\ UNCHANGED <<ctlFile, faults, taken, hung>>

Listen(p) ==
    /\ pc[p] = "ready"
    /\ listenFile = Nobody
    /\ GoTo(p, "serving")
    /\ listenFile' = p
    /\ UNCHANGED <<ctlFile, faults, taken, hung>>

(* bind fails on any file, a dead daemon's too.  run_daemon returns, and its *)
(* guard removes the file at the control path, whoever's it is.              *)
ListenFails(p) ==
    /\ pc[p] = "ready"
    /\ listenFile # Nobody
    /\ GoTo(p, "failed")
    /\ RemovesControl(p)
    /\ UNCHANGED <<faults, hung>>

-----------------------------------------------------------------------------
(* The select loop.  Dropping the listener removes the file at its path.     *)

Serving(p) == pc[p] = "serving" /\ p \notin hung

ReloadKeepsFile(p) ==    \* Mutant: the listener is dropped, its file stays.
    /\ Serving(p)
    /\ GoTo(p, "ready")
    /\ UNCHANGED <<listenFile, ctlFile, faults, taken, hung>>

(* SIGHUP: the next turn of the loop binds again.  No await lies between, so *)
(* nothing else of this process runs meanwhile.                              *)
Reload(p) ==
    /\ Serving(p)
    /\ GoTo(p, "ready")
    /\ RemovesListen(p)
    /\ UNCHANGED <<faults, hung>>

LeaveControl(p) ==    \* Mutant: the control socket has no guard.
    /\ Serving(p)
    /\ GoTo(p, "stopped")
    /\ RemovesListen(p)
    /\ UNCHANGED <<faults, hung>>

(* SIGTERM or SIGINT; select may take it before the listener was polled. *)
Terminate(p) ==
    /\ \/ Serving(p) /\ RemovesBoth(p)
       \/ pc[p] = "ready" /\ RemovesControl(p)
    /\ GoTo(p, "stopped")
    /\ UNCHANGED <<faults, hung>>

(* An error of accept ends listen, the loop and the daemon. *)
AcceptFails(p) ==
    /\ Fault
    /\ Serving(p)
    /\ GoTo(p, "failed")
    /\ RemovesBoth(p)
    /\ UNCHANGED hung

HealthIgnoresControl(p) ==    \* Mutant: only the listening socket is looked for.
    /\ Serving(p)
    /\ listenFile = Nobody
    /\ GoTo(p, "failed")
    /\ UNCHANGED <<listenFile, ctlFile, faults, taken, hung>>

(* The health check: process::exit runs no destructor, so that the file that *)
(* is still there stays.  Whose it is, is not looked at.                     *)
HealthExit(p) ==
    /\ Serving(p)
    /\ listenFile = Nobody \/ ctlFile = Nobody
    /\ GoTo(p, "failed")
    /\ UNCHANGED <<listenFile, ctlFile, faults, taken, hung>>

-----------------------------------------------------------------------------
(* The world: a kill, a blocking call that does not return, and the removal  *)
(* of files.                                                                 *)

Killed(p) ==
    /\ Fault
    /\ pc[p] \in Running
    /\ GoTo(p, "failed")
    /\ hung' = hung \ {p}
    /\ UNCHANGED <<listenFile, ctlFile, taken>>

(* A connect that blocks: a health check's over the control socket, or that  *)
(* of a session to an agent whose backlog is full.                           *)
Hangs(p) ==
    /\ Fault
    /\ Serving(p)
    /\ hung' = hung \cup {p}
    /\ UNCHANGED <<pc, listenFile, ctlFile, taken>>

(* A daemon that runs pings at every health check, twice in an interval of   *)
(* the watchdog; one whose pings stop is killed.                             *)
WatchdogKills(p) ==
    /\ p \in Watchdog \cap hung
    /\ GoTo(p, "failed")
    /\ hung' = hung \ {p}
    /\ UNCHANGED <<listenFile, ctlFile, faults, taken>>

FileTaken ==
    /\ Tampering /\ Fault
    /\ \/ listenFile' = Nobody /\ UNCHANGED ctlFile /\ taken' = taken \cup {"listen"}
       \/ ctlFile' = Nobody /\ UNCHANGED listenFile /\ taken' = taken \cup {"control"}
    /\ UNCHANGED <<pc, hung>>

-----------------------------------------------------------------------------
Proceed(p) ==
    \/ ClearControl(p) \/ BindControl(p) \/ NotifyReady(p)
    \/ Listen(p) \/ ListenFails(p)

DaemonNext ==
    \/ \E p \in Instances :
          \/ Start(p) \/ Restart(p) \/ Proceed(p)
          \/ Reload(p) \/ Terminate(p) \/ AcceptFails(p) \/ HealthExit(p)
          \/ Killed(p) \/ Hangs(p) \/ WatchdogKills(p)
    \/ FileTaken

DaemonSpec == DaemonInit /\ [][DaemonNext]_vars

(* A start goes on, the service manager restarts what failed and kills what  *)
(* no longer pings, and the health check's timer, due at any time outside a  *)
(* reload, is polled between any two reloads.  Nobody owes a first start, a  *)
(* signal or a fault.                                                        *)
FairDaemonSpec ==
    /\ DaemonSpec
    /\ \A p \in Instances :
          /\ WF_vars(Proceed(p)) /\ WF_vars(Restart(p)) /\ WF_vars(WatchdogKills(p))
          /\ SF_vars(HealthExit(p))

-----------------------------------------------------------------------------
Reachable(p) == Serving(p) /\ listenFile = p /\ ctlFile = p

Alone(p) == \A q \in Instances \ {p} : pc[q] \notin Running

(* A file of another instance is at one of the paths. *)
Usurped(p) == {listenFile, ctlFile} \cap (Instances \ {p}) # {}

(* Whatever crashed or hung and whichever of its files was removed, a daemon *)
(* the service manager keeps up is reachable again at both its sockets once  *)
(* the others stay away, or was asked to stop: the health check's exit, the  *)
(* watchdog it pings and the restart see to it, provided the start removes   *)
(* what earlier lives left.  Only the file of a dead instance in the place   *)
(* of its own can keep it unreachable, since the health check is content     *)
(* with any file (run_daemon, the start script).                             *)
ServiceRecovers ==
    \A p \in Watchdog :
        <>[]Alone(p) =>
            (pc[p] \notin {"down", "stopped"} ~>
                (Reachable(p) \/ pc[p] = "stopped" \/ Usurped(p)))

(* A step that gives up without a fault comes after a live daemon lost a     *)
(* file, finds another instance's file, or ends one that hangs.              *)
ExitHasReason ==
    \A p \in Cleaning :
        pc[p] \in Running /\ pc'[p] = "failed" /\ faults' = faults =>
            taken # {} \/ Usurped(p) \/ p \in hung

(* A daemon whose start script removes old files never trips over its own:   *)
(* it ends only at a fault, because of another instance's file, after a file *)
(* was taken from under a daemon, or when it hangs; no reload, no start      *)
(* after a crash at any point, and no bind after READY was sent fails for    *)
(* another reason (run_daemon, the start script).                            *)
NoSpuriousExit == [][ExitHasReason]_vars

(* Unless somebody removed the listening socket of a daemon that runs, one   *)
(* that serves is the one clients reach at listen_path: the bind that        *)
(* refuses any file keeps other instances from taking it, through crashes,   *)
(* reloads and starts, though they do take the control socket                *)
(* (SelfDeletingUnixListener).                                               *)
ServesItsOwnSocket ==
    "listen" \notin taken => \A p \in Instances : pc[p] = "serving" => listenFile = p
=============================================================================
