---------------------------- MODULE ForwardWatch ----------------------------
(***************************************************************************)
(* The detection of forwarded agents (src/watcher.rs and the tasks of      *)
(* run_daemon that use it) over the socket manager.  /tmp changes at any   *)
(* moment.  The smart watcher learns of it through a debouncer on a thread *)
(* of its own and a channel to a task; the polling fallback and the scans  *)
(* of startup and Reload read /tmp directory by directory, with an await   *)
(* between any two; the health check runs beside them.  Paths are the      *)
(* forwarded sockets, DirOf the directory in /tmp that holds each.         *)
(***************************************************************************)
EXTENDS SocketManager

CONSTANTS
    Dirs,          \* directories of /tmp whose names match a pattern
    DirOf,         \* DirOf[p]: the directory of p
    ReadDirs,      \* those named ssh-*, whose entries a scan reads; in the
                   \* others, auth-agent*, it looks for one known name
    Sealed,        \* directories of other users, which the daemon cannot read
    OldDirs,       \* directories that may be there when the daemon starts
    Modes,         \* what start_watching may come to: "smart" or "polling"
    Cleanups,      \* BOOLEAN: the health check and the control socket are used
    Faults,        \* BOOLEAN: a scan may fail for causes other than what is in /tmp,
                   \* such as too many open files
    MaxChanges     \* bound: the changes /tmp goes through, by mode

ASSUME WatchAssumption ==
    /\ DirOf \in [Paths -> Dirs]
    /\ IsFiniteSet(Dirs) /\ ReadDirs \subseteq Dirs
    /\ Sealed \subseteq OldDirs /\ OldDirs \subseteq Dirs
    /\ \A p \in Paths : DirOf[p] \notin Sealed
    /\ Modes \subseteq {"smart", "polling"} /\ Cleanups \in BOOLEAN /\ Faults \in BOOLEAN
    /\ MaxChanges \in [Modes -> Nat]

VARIABLES
    phase,         \* what run_daemon and, when polling, the first poll have done
    mode,          \* whether the system lets the smart watcher start
    dirs,          \* directories that exist
    changes,       \* changes /tmp went through
    inotify,       \* directories that have an inotify watch
    raw,           \* raw[p]: what the debouncer holds for p
    channel,       \* watch events sent and not yet handled
    left,          \* left[w]: directories the scan of w has still to read
    found,         \* found[w]: sockets it has found
    scanning,      \* who is scanning
    polled,        \* known_agents of the polling loop
    late,          \* history: sockets there that appeared under the watcher
    gap,           \* history: sockets there that came too late for the startup scan
                   \* and too early for the watcher
    stayed,        \* history: stayed[w]: sockets there ever since the scan began
    silent         \* history: sockets that are not on the manager's list and of which
                   \* the watcher has nothing to say

tmp == <<dirs, changes>>
signals == <<inotify, raw, channel>>
history == <<late, gap, stayed, silent>>
scanVars == <<left, found, scanning>>
watchVars == <<managerVars, phase, mode, tmp, signals, scanVars, polled, history>>

Scanners == {"startup", "poll", "reload"}
Phases == {"scanning", "scanned", "seeding", "watching"}

Added(p) == [kind |-> "added", path |-> p]
Removed(p) == [kind |-> "removed", path |-> p]
WatchEvents == [kind : {"added", "removed"}, path : Paths]

WatchTypeOK ==
    /\ ManagerTypeOK
    /\ phase \in Phases /\ mode \in Modes
    /\ dirs \subseteq Dirs
    /\ changes \in 0 .. MaxChanges[mode]
    /\ inotify \subseteq dirs \ Sealed
    /\ \A p \in onDisk : DirOf[p] \in dirs
    /\ raw \in [Paths -> {<<>>, <<"create">>, <<"modify">>, <<"remove">>, <<"remove", "create">>}]
    /\ channel \in Seq(WatchEvents)
    /\ scanning \subseteq Scanners
    /\ left \in [Scanners -> SUBSET Dirs]
    /\ found \in [Scanners -> SUBSET Paths]
    /\ polled \subseteq Paths
    /\ late \subseteq onDisk /\ gap \subseteq onDisk \ late
    /\ stayed \in [Scanners -> SUBSET onDisk]
    /\ silent \subseteq Paths

WatchInit ==
    /\ ManagerInit
    /\ phase = "scanning"
    /\ mode \in Modes
    /\ dirs \in SUBSET OldDirs /\ Sealed \subseteq dirs
    /\ \A p \in onDisk : DirOf[p] \in dirs
    /\ changes = 0
    /\ inotify = {}
    /\ raw = [p \in Paths |-> <<>>]
    /\ channel = <<>>
    /\ scanning = {"startup"}
    /\ left = [w \in Scanners |-> IF w = "startup" THEN dirs ELSE {}]
    /\ found = [w \in Scanners |-> {}]
    /\ polled = {}
    /\ late = {} /\ gap = {}
    /\ stayed = [w \in Scanners |-> IF w = "startup" THEN onDisk ELSE {}]
    /\ silent = {}

-----------------------------------------------------------------------------
(* /tmp.  The debouncer joins what happens to one path within its window: a  *)
(* removal cancels a creation not yet reported and whatever else is pending, *)
(* a modification adds nothing to a creation or to another modification, and *)
(* the removal of a directory may discard what was pending for its files.    *)

Debounced(q, kind) ==
    CASE kind = "create" -> Append(q, kind)
      [] kind = "modify" -> IF q = <<>> THEN <<kind>> ELSE q
      [] OTHER -> IF q # <<>> /\ Head(q) = "create" THEN <<>> ELSE <<kind>>

Notice(p, kind) ==
    raw' = IF DirOf[p] \in inotify THEN [raw EXCEPT ![p] = Debounced(@, kind)] ELSE raw

Change ==
    /\ changes < MaxChanges[mode]
    /\ changes' = changes + 1
    /\ UNCHANGED <<phase, mode, channel, scanVars, polled>>

(* A directory made in /tmp is only logged, whatever its name. *)
MakeDir(d) ==
    /\ Change
    /\ d \notin dirs
    /\ dirs' = dirs \cup {d}
    /\ UNCHANGED <<managerVars, inotify, raw, history>>

RemoveDir(d) ==
    /\ Change
    /\ d \in dirs \ Sealed
    /\ \A p \in onDisk : DirOf[p] # d
    /\ dirs' = dirs \ {d}
    /\ inotify' = inotify \ {d}
    /\ raw' \in {raw, [p \in Paths |-> IF DirOf[p] = d THEN <<>> ELSE raw[p]]}
    /\ UNCHANGED <<managerVars, history>>

CreateSocket(p) ==
    /\ Change
    /\ p \notin onDisk
    /\ DirOf[p] \in dirs
    /\ SocketFileAppears(p)
    /\ Notice(p, "create")
    /\ late' = IF phase = "watching" THEN late \cup {p} ELSE late
    /\ gap' = IF phase # "watching" /\ DirOf[p] \notin left["startup"]
              THEN gap \cup {p} ELSE gap
    /\ UNCHANGED <<dirs, inotify, stayed, silent>>

(* The mode or the times of a socket that is there change. *)
TouchSocket(p) ==
    /\ Change
    /\ p \in onDisk
    /\ Notice(p, "modify")
    /\ UNCHANGED <<managerVars, dirs, inotify, history>>

UnlinkSocket(p) ==
    /\ Change
    /\ p \in onDisk
    /\ SocketFileVanishes(p)
    /\ Notice(p, "remove")
    /\ late' = late \ {p} /\ gap' = gap \ {p}
    /\ stayed' = [w \in Scanners |-> stayed[w] \ {p}]
    /\ silent' = IF mode = "smart" THEN silent \ {p} ELSE silent
    /\ UNCHANGED <<dirs, inotify>>

-----------------------------------------------------------------------------
(* scan_existing_agents.                                                     *)

ScanBegins(w) ==
    /\ w \notin scanning
    /\ scanning' = scanning \cup {w}
    /\ left' = [left EXCEPT ![w] = dirs]
    /\ found' = [found EXCEPT ![w] = {}]
    /\ stayed' = [stayed EXCEPT ![w] = onDisk]

(* The scan forgets itself: its locals go, with its answer or its error. *)
ScanStops(w) ==
    /\ w \in scanning
    /\ scanning' = scanning \ {w}
    /\ left' = [left EXCEPT ![w] = {}]
    /\ found' = [found EXCEPT ![w] = {}]
    /\ stayed' = [stayed EXCEPT ![w] = {}]

(* One directory: one that has gone since is passed over. *)
ReadDirectory(w, d) ==
    /\ w \in scanning /\ d \in left[w]
    /\ d \in ReadDirs \cap dirs => d \notin Sealed
    /\ left' = [left EXCEPT ![w] = @ \ {d}]
    /\ found' = [found EXCEPT ![w] = @ \cup {p \in onDisk : DirOf[p] = d}]
    /\ UNCHANGED <<managerVars, phase, mode, tmp, signals, scanning, polled, history>>

ScanSucceeds(w) ==
    /\ left[w] = {}
    /\ ScanStops(w)

(* One directory that may not be read, or that goes between is_dir and       *)
(* read_dir, fails the whole scan, and so does any other error in reading    *)
(* /tmp or a directory.  To fail behind the last directory has the same      *)
(* effects as to fail before it.                                             *)
ScanFails(w) ==
    /\ \/ left[w] \cap ReadDirs \cap (Sealed \cup (Dirs \ dirs)) # {}
       \/ Faults /\ left[w] # {}
    /\ ScanStops(w)

(* add_watched of all that were found. *)
WithAll(paths, t) ==
    [p \in DOMAIN watched \cup paths |-> IF IsWatched(p) THEN watched[p] ELSE t]

-----------------------------------------------------------------------------
(* run_daemon: the scan at startup, then the watcher.                        *)

StartupScanEnds ==
    /\ phase = "scanning"
    /\ phase' = "scanned"
    /\ \/ /\ ScanSucceeds("startup")
          /\ \E t \in Now :
                /\ watched' = WithAll(found["startup"], t)
                /\ clock' = t
          /\ UNCHANGED <<configured, onDisk, gap>>
       \/ /\ ScanFails("startup")
          /\ gap' = onDisk
          /\ UNCHANGED managerVars
    /\ UNCHANGED <<mode, tmp, signals, polled, late, silent>>

WatchEveryName ==    \* Mutant: directories are watched that are not there.
    /\ phase = "scanned" /\ mode = "smart"
    /\ phase' = "watching"
    /\ inotify' = Dirs \ Sealed
    /\ UNCHANGED <<managerVars, mode, tmp, raw, channel, scanVars, polled, history>>

(* The directories there now get a watch, the sockets in them no event. *)
StartSmartWatcher ==
    /\ phase = "scanned" /\ mode = "smart"
    /\ phase' = "watching"
    /\ inotify' = dirs \ Sealed
    /\ UNCHANGED <<managerVars, mode, tmp, raw, channel, scanVars, polled, history>>

(* run_polling_loop: its own first scan is a baseline, and sends nothing. *)
StartPolling ==
    /\ phase = "scanned" /\ mode = "polling"
    /\ phase' = "seeding"
    /\ ScanBegins("poll")
    /\ UNCHANGED <<managerVars, mode, tmp, signals, polled, late, gap, silent>>

PollingSeeded ==
    /\ phase = "seeding"
    /\ phase' = "watching"
    /\ \/ /\ ScanSucceeds("poll")
          /\ polled' = found["poll"]
          /\ silent' = silent \cup (found["poll"] \ DOMAIN watched)
       \/ /\ ScanFails("poll")
          /\ UNCHANGED <<polled, silent>>
    /\ UNCHANGED <<managerVars, mode, tmp, signals, late, gap>>

PollTick ==
    /\ phase = "watching" /\ mode = "polling"
    /\ ScanBegins("poll")
    /\ UNCHANGED <<managerVars, phase, mode, tmp, signals, polled, late, gap, silent>>

KnownTooSoon ==    \* Mutant: known_agents is replaced before the differences are taken.
    /\ ScanSucceeds("poll")
    /\ phase = "watching"
    /\ polled' = found["poll"]
    /\ silent' = silent \cap found["poll"]
    /\ UNCHANGED <<managerVars, phase, mode, tmp, signals, late, gap>>

(* What is new or gone since the last scan that succeeded is sent.  What the *)
(* manager really lists is not looked at.                                    *)
PollSucceeds ==
    /\ ScanSucceeds("poll")
    /\ phase = "watching"
    /\ \E new \in SetToSeqs({Added(p) : p \in found["poll"] \ polled}),
          gone \in SetToSeqs({Removed(p) : p \in polled \ found["poll"]}) :
          channel' = channel \o new \o gone
    /\ polled' = found["poll"]
    /\ silent' = silent \cap found["poll"]
    /\ UNCHANGED <<managerVars, phase, mode, tmp, inotify, raw, late, gap>>

PollFails ==
    /\ ScanFails("poll")
    /\ phase = "watching"
    /\ UNCHANGED <<managerVars, phase, mode, tmp, signals, polled, late, gap, silent>>

-----------------------------------------------------------------------------
(* handle_smart_event, on the debouncer's thread.  watched_dirs, which       *)
(* nothing reads after the start, is left out.                               *)

ReportFirstOnly(p) ==    \* Mutant: the handler returns after a path's first event.
    /\ raw[p] # <<>>
    /\ raw' = [raw EXCEPT ![p] = <<>>]
    /\ channel' =
          IF Head(raw[p]) = "remove" THEN Append(channel, Removed(p))
          ELSE IF p \in onDisk THEN Append(channel, Added(p)) ELSE channel
    /\ UNCHANGED <<managerVars, phase, mode, tmp, inotify, scanVars, polled, history>>

(* A creation or modification is passed on, as an addition, only if the file *)
(* is still there.                                                           *)
Report(p) ==
    /\ raw[p] # <<>>
    /\ raw' = [raw EXCEPT ![p] = Tail(@)]
    /\ channel' =
          IF Head(raw[p]) = "remove" THEN Append(channel, Removed(p))
          ELSE IF p \in onDisk THEN Append(channel, Added(p)) ELSE channel
    /\ UNCHANGED <<managerVars, phase, mode, tmp, inotify, scanVars, polled, history>>

(* The event task.  What the event says is not checked again. *)
EventTaken(kind) ==
    /\ channel # <<>> /\ Head(channel).kind = kind
    /\ channel' = Tail(channel)
    /\ UNCHANGED <<phase, mode, tmp, inotify, raw, scanVars, polled, late, gap, stayed>>

HandleAdded ==
    /\ EventTaken("added")
    /\ LET p == Head(channel).path
       IN  /\ AddWatched(p) \/ (IsWatched(p) /\ UNCHANGED managerVars)
           /\ silent' = silent \ {p}

HandleRemoved ==
    /\ EventTaken("removed")
    /\ LET p == Head(channel).path
       IN  RemoveWatched(p) \/ (~ IsWatched(p) /\ UNCHANGED managerVars)
    /\ UNCHANGED silent

-----------------------------------------------------------------------------
(* The health check and the control socket.  The polling loop does not hear  *)
(* of what they take off the list while it knows it.                         *)
Served == Cleanups /\ phase \in {"seeding", "watching"}

HealthTick ==
    /\ Served
    /\ ValidateAndCleanup
    /\ silent' = silent \cup (polled \cap (DOMAIN watched \ onDisk))
    /\ UNCHANGED <<phase, mode, tmp, signals, scanVars, polled, late, gap, stayed>>

AddByHand(p) ==
    /\ Served
    /\ p \in onDisk /\ ~ IsConfigured(p)
    /\ AddWatched(p)
    /\ silent' = silent \ {p}
    /\ UNCHANGED <<phase, mode, tmp, signals, scanVars, polled, late, gap, stayed>>

(* Whoever takes a socket off the list by hand is not gainsaid: neither      *)
(* watcher nor poll puts one back that stays as it is.                       *)
RemoveByHand(p) ==
    /\ Served
    /\ ~ IsConfigured(p)
    /\ RemoveWatched(p)
    /\ silent' = silent \cup ({p} \cap (onDisk \cup polled))
    /\ UNCHANGED <<phase, mode, tmp, signals, scanVars, polled, late, gap, stayed>>

(* Reload of the control socket: what the scan found is added, and what has  *)
(* no file by then removed.                                                  *)
ReloadBegins ==
    /\ Served
    /\ ScanBegins("reload")
    /\ UNCHANGED <<managerVars, phase, mode, tmp, signals, polled, late, gap, silent>>

ReloadUncleaned ==    \* Mutant: the cleanup at the end of Reload is dropped.
    /\ ScanSucceeds("reload")
    /\ \E t \in Now :
          /\ watched' = WithAll(found["reload"], t)
          /\ clock' = t
    /\ silent' = silent \ found["reload"]
    /\ UNCHANGED <<configured, onDisk, phase, mode, tmp, signals, polled, late, gap>>

ReloadSucceeds ==
    /\ ScanSucceeds("reload")
    /\ \E t \in Now :
          /\ watched' = Restrict(WithAll(found["reload"], t),
                                 (DOMAIN watched \cup found["reload"]) \cap onDisk)
          /\ clock' = t
    /\ silent' = (silent \ (found["reload"] \cap onDisk))
                      \cup (polled \cap ((DOMAIN watched \cup found["reload"]) \ onDisk))
    /\ UNCHANGED <<configured, onDisk, phase, mode, tmp, signals, polled, late, gap>>

ReloadFails ==
    /\ ScanFails("reload")
    /\ UNCHANGED <<managerVars, phase, mode, tmp, signals, polled, late, gap, silent>>

-----------------------------------------------------------------------------
Tmp ==
    \/ \E d \in Dirs : MakeDir(d) \/ RemoveDir(d)
    \/ \E p \in Paths : CreateSocket(p) \/ TouchSocket(p) \/ UnlinkSocket(p)

Scan(w) == \E d \in Dirs : ReadDirectory(w, d)

WatchNext ==
    \/ Tmp
    \/ \E w \in Scanners : Scan(w)
    \/ StartupScanEnds \/ StartSmartWatcher \/ StartPolling
    \/ PollingSeeded \/ PollTick \/ PollSucceeds \/ PollFails
    \/ \E p \in Paths : Report(p) \/ AddByHand(p) \/ RemoveByHand(p)
    \/ HandleAdded \/ HandleRemoved \/ HealthTick
    \/ ReloadBegins \/ ReloadSucceeds \/ ReloadFails

WatchSpec == WatchInit /\ [][WatchNext]_watchVars

(* Scans go on and end, the timers of the poll and of the health check fire, *)
(* the debouncer's thread and the event task run.  Nobody owes a request, and *)
(* /tmp, whose changes are bounded, comes to rest.  The thread is taken not  *)
(* to be blocked for ever by a connect, of which MuxAgent has the detail.    *)
FairWatchSpec ==
    /\ WatchSpec
    /\ \A w \in Scanners : WF_watchVars(Scan(w))
    /\ WF_watchVars(StartupScanEnds \/ StartSmartWatcher \/ StartPolling \/ PollingSeeded)
    /\ WF_watchVars(PollTick) /\ WF_watchVars(PollSucceeds \/ PollFails)
    /\ WF_watchVars(ReloadSucceeds \/ ReloadFails)
    /\ \A p \in Paths : WF_watchVars(Report(p))
    /\ WF_watchVars(HandleAdded \/ HandleRemoved) /\ WF_watchVars(HealthTick)

-----------------------------------------------------------------------------
(* Once /tmp rests, the manager lists no socket that has gone, for good: no  *)
(* late event and no scan that read /tmp before brings one back that the     *)
(* health check then leaves (validate_and_cleanup).                          *)
StaleSocketsGo == <>[](DOMAIN watched \subseteq onDisk)

(* What the smart watcher misses, besides directories it does not watch, are *)
(* the sockets of the gap alone: those the startup scan came too early for,  *)
(* or failed to see, and that were there before the watch was set            *)
(* (run_daemon scans, then watches).  Once /tmp rests, every other socket in *)
(* a directory under watch is listed for good, whatever was removed, cleaned *)
(* up or reloaded meanwhile, unless somebody took it off the list by hand    *)
(* since it came and since it was last added: no removal, reported late, has *)
(* the last word over a newer creation (handle_smart_event, the event task). *)
NothingElseIsMissed ==
    <>[](mode = "smart" =>
            \A p \in onDisk \ (gap \cup silent) : DirOf[p] \in inotify => IsWatched(p))

(* What the polling loop misses, as long as its scans do not fail for ever,  *)
(* are sockets it knows and that are not on the list: those that its         *)
(* baseline took for known and the startup scan did not see, those taken off *)
(* the list by hand, and those cleaned up between two polls, in the time in  *)
(* which one was gone, and made again before the second.  Every other socket *)
(* is listed once /tmp rests (run_polling_loop, validate_and_cleanup).       *)
PollMissesOnlyKnown ==
    []<><<PollSucceeds>>_watchVars =>
        <>[](mode = "polling" => onDisk \ silent \subseteq DOMAIN watched)

(* The last word on a socket the smart watcher is responsible for is always  *)
(* true, but for what was taken off the list by hand: its creation is still  *)
(* in the debouncer, or with no removal of it behind it in the channel, or   *)
(* the manager lists it and no removal is on its way.  However fast a socket *)
(* is removed and made again, what the debouncer drops and what the event    *)
(* task does not check again never leave a removal to be handled last        *)
(* (handle_smart_event, run_daemon).                                         *)
LastWordIsTrue ==
    \A p \in onDisk \ (gap \cup silent) : DirOf[p] \in inotify =>
        \/ raw[p] # <<>> /\ Last(raw[p]) \in {"create", "modify"}
        \/ \E i \in 0 .. Len(channel) :
              /\ IF i = 0 THEN IsWatched(p) ELSE channel[i] = Added(p)
              /\ \A j \in DOMAIN channel : j > i => channel[j] # Removed(p)

(* A Reload that succeeds leaves exactly what it promises: every socket that *)
(* was there from its scan's start to its end, and none that is not there    *)
(* (Reload in handle_request).                                               *)
ReloadIsExact ==
    [][ "reload" \in scanning /\ "reload" \notin scanning' /\ left["reload"] = {} =>
          /\ stayed["reload"] \subseteq DOMAIN watched'
          /\ DOMAIN watched' \subseteq onDisk ]_watchVars


(* scan_existing_agents, "called once at startup to detect any existing      *)
(* sockets": those there throughout the scan are listed when it ends.        *)
StartupFindsAgents ==
    [][ phase = "scanning" /\ phase' = "scanned" =>
          stayed["startup"] \subseteq DOMAIN watched' ]_watchVars
=============================================================================
