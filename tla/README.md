# A TLA+ model of ssh-agent-mux

ssh-agent-mux is one SSH agent in front of many: clients connect to its socket,
it merges the keys of the upstream agents it is configured with and of the
agents that `ssh -A` forwards into `/tmp`, and passes each signing request to
the upstream that holds the key.  This directory models the parts of the
program whose order of events matters, checks them with TLC on small instances
and proves the main invariants with TLAPS for every instance.

Paths below are relative to the repository's root.

## 1. The system

Everything runs in one process on a Tokio *current_thread* runtime
(`src/bin/ssh-agent-mux/main.rs:75`): tasks interleave only at awaits that
really suspend.  The socket manager is shared behind a Tokio mutex that no task
keeps across a suspension, so each of its critical sections is one step.  Two
things run beside the runtime: the debouncer's callback (a thread of its own)
and the file system.

| component | state | operations | talks to |
|---|---|---|---|
| socket manager, `src/socket_manager.rs` | configured list, watched map with time stamps | get_ordered_sockets, add_watched, remove_watched, validate_and_cleanup, update_configured, is_watched, is_configured | shared by all tasks |
| multiplexing agent, `src/lib.rs` | known_keys (key to path) behind a fair mutex, one per listener | request_identities, sign, extension(session-bind), refresh_identities, new_session, run_with_manager | snapshot of the manager; upstream agents over sockets |
| SIGHUP, `main.rs:284-313` | the current listener | drop the listener, read agent_sock_paths again, listen anew | manager; old sessions go on |
| smart watcher, `src/watcher.rs` | inotify watches, debouncer, channel | watch_tmp_directory_smart, handle_smart_event | event task, which calls the manager |
| polling fallback, `src/watcher.rs:436` | known_agents | run_polling_loop every 30 s | the same channel |
| scan, `src/watcher.rs:332` | directories left, sockets found | scan_existing_agents | startup, poll, Reload |
| health check, `main.rs:202-250` | - | exit if the daemon's sockets are gone, validate_and_cleanup, watchdog ping | manager, systemd |
| control server, `src/control/server.rs` | listener, one task per connection | Ping, Status, ListSockets, Reload, ValidateSockets, AddSocket, RemoveSocket, HealthCheck | manager, scan, client |
| control client, `src/control/client.rs` | stream and buffered reader with timeouts | send and its typed forms | control server |
| life cycle, `main.rs:78-316` | the two socket files, READY | startup order, signals, exits | systemd, file system |
| systemd notifications, `systemd.rs` | - | READY, watchdog ping, status line | service manager |
| configuration, `cli.rs` and `main.rs:291-311` | the command line, the file, the merged `Config` | from_serve_args, get_control_socket_path, the reading of the file at a SIGHUP | manager, life cycle |
| client commands, `commands/mod.rs` | - | one request per command, printed | control socket, found through `cli.rs` |
| logging, `logging.rs`; build script, `build.rs` | - | - | - |

Section 6 says what is not modelled and why.

### What is hard

* **Interleaving.** Sessions of one listener share one map and refresh it
  across one await per upstream; agents start, stop, crash and change keys
  between any two awaits.
* **Partial failure.** One upstream that breaks off aborts a whole listing; one
  directory that cannot be read aborts a whole scan.
* **Deadlock and starvation.** known_keys is held across every await of a
  refresh; an upstream that hangs stalls the sessions that share it.
* **Stale state.** A cached route may name an agent that has gone; sessions of
  an older listener survive a SIGHUP; a scan's result is applied after awaits;
  watch events arrive late and are not checked again; the polling loop compares
  with its own memory and not with the manager.
* **Time.** "Newest first" rests on the wall clock.
* **Crash and restart.** Socket files outlive their process.
* **A blocked thread.** Each connect to an upstream agent, a session's
  (`src/lib.rs:190`) and a health check's (`src/control/server.rs:331`), is a blocking
  call on the only thread.  While the agent's backlog is full it does not return,
  and no task of the daemon runs: no other session, no control request, no SIGHUP.
* **Two readers of one file.** A start reads the configuration typed and merges the
  command line into it; a SIGHUP reads one entry of it and merges nothing; anyone
  may edit it in between, in several writes.

`PROJECT.json` lists each hazard at its line with the properties aimed at it.

### What makes each component correct

* socket manager: the order is newest forwarded first, then the configuration;
  removals reorder nobody, and a clock that stands or steps back spoils the order
  only for the sockets it misplaced.
* multiplexing agent: the lock is never leaked; the map is never a mix of two
  refreshes; a listing is complete in spite of agents that come and go; a
  refusal has a reason; a route stays inside its generation; every request is
  answered unless an upstream hangs, or one that accepts no more connections blocks
  the thread.
* watcher: once `/tmp` rests, nothing stale is listed and nothing in a watched
  directory is missing but what came in the gap before the watch or was taken off by
  hand; a successful Reload is exact.
* control server: an answer is true of one moment of the manager; a request is
  carried out at most once; nobody waits for ever, unless a connect, of whatever
  task, to an agent that accepts no more connections blocks the thread.
* life cycle: a daemon that serves is the one clients reach; it gives up only
  for a reason; whatever ended it, the next start gets through.
* configuration: no trouble with the file puts a list in force that nobody gave.

## 2. The modules

| module | what it is |
|---|---|
| `PriorityList` | abstract: forwarded sockets newest first, then the configured ones |
| `SocketManager` | the socket manager, one action per operation; `Promise` is its refinement mapping to `PriorityList` |
| `MuxAgent` | extends `SocketManager`: sessions, generations, upstream agents |
| `ForwardWatch` | extends `SocketManager`: `/tmp`, the smart watcher, polling, scans, Reload, the health check's cleanup |
| `ControlService` | abstract: calls that take effect in one step and answers that tell what it did |
| `ControlServer` | extends `SocketManager`: the control socket with its clients; `Service` is its refinement mapping to `ControlService` |
| `Daemon` | the daemon's life: the two socket files, READY, signals, exits, crash and restart, for several instances on the same paths |
| `Configuration` | where the list of agents comes from: the command line, the file and the default at a start, the file at a SIGHUP |
| `SocketManagerProofs`, `PriorityProofs`, `MuxAgentProofs`, `MuxAnswerProofs`, `ForwardWatchProofs`, `ControlServerProofs`, `DaemonProofs`, `ConfigurationProofs` | each extends its module and TLAPS: the theorems of section 5; the first holds the lemmas on the manager that the proofs of the modules over it use, the second shows the manager to implement `PriorityList` |
| `MCSocketManager`, `MCMuxAgent`, `MCForwardWatch`, `MCControlServer`, `MCDaemon`, `MCConfiguration` | small values for the constants |

Each module begins with the code it models; `PROJECT.json` maps every definition
to its lines.  A definition marked `Mutant:` is a plausible bug in the operation
defined after it; it is no part of any specification, and is there to show that
some property would notice.

### SocketManager

`configured` and `watched` are the two fields of the struct; `clock` is the last
value `SystemTime::now()` gave, `onDisk` the paths at which a socket file exists,
which only `validate_and_cleanup` reads.  Each action is one method.  The order
of equal stamps is that of a hash map, so `OrderedSockets` is a set of sequences
and a caller gets any one of them.  `SystemTime` is not monotonic: with `StrictClock` off, as in
all runs but those of `MuxAgent`, in which at most one socket is forwarded and the
clock does not matter, a reading may repeat the last one or be less.  `KeepsPriority` demands
the step of `PriorityList` of every step the clock serves (`ClockServes`: the
stamps differ before and after, and one that joins is the latest).  The list of
`PriorityList` is `ForwardList`, one of the orders by decreasing stamp.  What the property says
beyond a growing clock is that a stamp misplaced earlier does no harm to the order
once its socket is gone.  `StrictClock` on is the idealised clock.

### MuxAgent

A session is a connection.  `pc` says where its current request is:

    idle -> queued -> refreshing <-> asked          (Receive, StartRefresh, AskIdentities)
            queued or refreshing -> routed -> signing -> idle     (UseCached, KeyFound)
    idle -> binding <-> bindAsked -> idle           (extension)

| state or action | code |
|---|---|
| `known[g]`, `lockQ[g]` | known_keys of the listener of generation g, and the waiters of its mutex, the head holding it |
| `Connect` | new_session: a clone of the MuxAgent of the present listener |
| `Receive` | request_identities or sign, up to `known_keys.lock().await` |
| `UseCached`, `StartRefresh` | get_agent_sock_for_pubkey: a hit releases the lock; a miss clears the map and takes a snapshot of the manager |
| `SkipMissing`, `AskIdentities`, `IdentitiesArrive`, `RefreshFails` | the loop of refresh_identities: not connectable, connected and awaiting, answered, `?` |
| `ListingEnds`, `KeyFound`, `KeyNotFound` | what follows the loop |
| `DialFails`, `AskSignature`, `SignatureArrives`, `SigningFails` | the rest of sign, without the lock |
| `StartBinding` ... `BindingEnds` | extension for session-bind: every upstream is tried, one success is enough |
| `dialling`, `DialBlocks`, `BacklogDrains`, `Runs` | connect_upstream_agent: its connect to an agent in `Clogged`, whose backlog is full, does not return before that agent accepts or ends, and nothing that the daemon's thread does (`Runs`) happens meanwhile |
| `Sighup` | the select branch: the next generation, an empty map, the configuration read again or not |
| `SocketsChange` | watcher events, control requests and cleanup, by what they do to the manager |
| `AgentStarts`, `AgentStops`, `AgentCrashes`, `KeysChange` | the upstream agents (external); a stop removes the socket file, a crash leaves it |

`steady[s]` and `reach[g]` are history: the agents of the session's snapshot that
have been up and unchanged since, and the sockets listed at some moment of the
generation.  No action's guard reads them.

A connect that does not block is one step with the request that follows it
(`AskIdentities`, `AskSignature`, `AskBind`), or with what its failure leads to.

Abstracted: keys are values without content, a signature is the fact of one, the
connection to an upstream lives for one request as in the code, and the answer of
an upstream that is neither hung nor broken is what its agent holds when the
answer is made.  Extensions other than session-bind are refused without a change
of state and are left out.

### ForwardWatch

`dirs` and `onDisk` are `/tmp`, which is external; every change of it goes through
`MakeDir`, `RemoveDir`, `CreateSocket`, `TouchSocket` or `UnlinkSocket`, at most
`MaxChanges` times.  `raw` is what the debouncer (external) holds per path: a removal
cancels an unreported creation, a modification adds nothing to what is pending, and the
removal of a directory may discard what was pending inside.  `Report` is
handle_smart_event for one event, `HandleAdded` and `HandleRemoved` the event task.  A
scan (`scanning`, `left`, `found`) reads one directory per step; `ScanFails` is its `?`,
at a directory that is another user's or has just gone and, with `Faults`, anywhere (too
many open files, an error in reading `/tmp`).  The same scan serves `StartupScanEnds`,
`PollingSeeded`, `PollSucceeds`/`PollFails` and `ReloadSucceeds`/`ReloadFails`.
`HealthTick` is the cleanup of the health check and of ValidateSockets; `AddByHand` and
`RemoveByHand` are AddSocket and RemoveSocket of the control socket.  `mode` is what
start_watching comes to, known to nobody before `StartSmartWatcher` or `StartPolling`.

The watches on the directories found at startup are set in one step, since no
await lies between them and watches of different directories do not affect each
other.  watched_dirs, read by nothing after the start, is left out, and so is
renaming a socket, away or into place: it reaches the handler as a modification of
either name, so that one renamed away is reported by nothing and one renamed into
place as one that is touched.  `late`, `gap`, `stayed` and `silent` are history; `gap`
are the sockets that came after the startup scan had passed their directory and before
the watch was set, `silent` those that are off the manager's list and of which the
watcher has nothing to say: taken off by hand and, when polling, those that known_agents
holds, since the polling loop compares with that alone.

### ControlServer

One element of `Clients` is one connection, with the client that opened it and
the task that serves it.

| state or action | code |
|---|---|
| `client`, `asked`, `Send`, `Receive`, `TimesOut`, `Leave` | ControlClient::send with its five seconds, and the end of the command |
| `inbox`, `outbox` | the two directions of the connection; the request at the head is being handled |
| `Handles`, `Reply` | the loop of handle_connection; writing to a client that is gone ends the task |
| `HangUp` | a line that is not UTF-8: `read_line` fails and its `?` ends the task (`src/control/server.rs:100`) |
| `Pong`, `List`, `RefuseUnknown`, `Validate`, `AddSocket`, `RemoveSocket` | the arms of handle_request without a suspension, one step each; `List` is Status too, `RefuseUnknown` also ListKeys |
| `ReloadBegins`, `ReloadReads`, `ReloadEnds`, `ReloadFails` | Reload, whose scan suspends |
| `HealthBegins`, `HealthLooks`, `HealthEnds`, `running` | HealthCheck, which drops the manager's lock in between but blocks the thread: only the file system moves.  `HealthLooks` is the connect to an agent in `Clogged`, whose backlog is full: it does not return |
| `dialled`, `SessionDials`, `DialReturns` | the connect of a session of the multiplexer (`src/lib.rs:190`) to an agent in `Clogged`: it blocks the thread in the same way |
| `Elsewhere` | event task, health check, SIGHUP and the file system, by what they do to the manager |

An answer is what its request found and did: the sockets shown, added and
removed.  `Stubborn` are clients that use a connection again after a timeout,
which the library's type allows and no command does.  The thread need not get free of
a connect that blocks: nothing in the code bounds it, only the agent's accept or end
(`HealthReturns`, `DialReturns`), and neither is owed.  What the rest of the daemon makes
of that is `Hangs` of `Daemon`.

### Daemon

`pc[p]` is how far `run_daemon` of instance p is:

    down -> starting -> cleared -> bound -> ready -> serving -> stopped
                                              ^---------'  SIGHUP
    anywhere -> failed -> starting      (an error, an exit, a kill; then a restart)

| state or action | code |
|---|---|
| `listenFile`, `ctlFile` | who bound the file at each of the two paths; it stays when that process is gone |
| `Launch` | a start; for an instance in `Cleaning`, the start script's `rm -f` (`nix/modules/nixos.nix:51`, `darwin.nix:45`; the home-manager module has none) |
| `ClearControl`, `BindControl` | ControlServer::bind, which removes whatever is at its path; two steps, since another process may come in between |
| `NotifyReady` | `main.rs:280`, before the agent's socket is bound |
| `Listen`, `ListenFails` | SelfDeletingUnixListener::bind, and run_daemon's `res?` with its guard's `remove_file` |
| `Reload`, `Terminate`, `AcceptFails` | the arms of the select loop and the drops they cause |
| `HealthExit` | the health check's `process::exit(1)`, which runs no destructor |
| `Hangs`, `WatchdogKills` | a connect of a session or of a health check that does not return; the pings, sent by every round of the health check, stop, and the service manager kills an instance in `Watchdog` (`main.rs:183-195`, `WatchdogSec` of the unit) |
| `Killed`, `FileTaken` | the world: with `Hangs` and accept's errors at most `MaxFaults` times |
| `RemovesListen`, `RemovesControl`, `RemovesBoth` | the drops of the listener and of the control socket's guard, and `rm -f`; `taken` remembers when that was the file of another instance that runs |

The guards that remove a file remove whatever is at the path, also another
instance's; the model does as they do.  From SIGHUP to the next bind nothing of
the same process runs: the only await in that arm is the manager's mutex, which is
free.  (Tokio could suspend even there if the task's cooperative budget were spent
in the same poll; this is left out.)  The health check is taken to be on, as it
is by default and always under a watchdog.

### Configuration

| state or action | code |
|---|---|
| `file`, `Edit` | what the configuration file holds: absent, garbled (no text or no TOML), whole, mistyped (a value a typed read refuses) or homeless (a tilde that cannot be expanded); any write of an editor, half ones included |
| `Start`, `StartFails`, `Stop` | run_daemon up to the new manager, its error, and a stop by signal |
| `Merged`, `Accepted` | from_serve_args: the command line over the file, the file over the default; a file that cannot be opened counts as empty, any other trouble is an error |
| `Hangup`, `Lists` | the SIGHUP branch, which reads the file as a plain TOML value, skips entries it cannot use, and leaves the list alone when anything is wrong |

The agents of a file text are its usable entries, so that a text stands for all
files a read makes the same thing of.  `offered` is history: the lists the daemon was
given or could have read since it was started.  The merge itself is done by a library
(clap_serde_derive); the model takes from it that an option that is given wins.  Only
the list of agents is modelled, because only it is read a second time.  A reload and a
restart need not come to the same list: a file that has gone, that has lost its list or
that is mistyped leaves a running daemon as it is and gives a new one an empty list or
an error, and the command line counts for the one and not for the other.

## 3. The runs

Runs that pass:

| run | bounds | what it shows |
|---|---|---|
| `socket_manager` | 3 paths, 5 stamps, a clock that grows, stands or steps back | `KeepsPriority`: each step the clock serves is one of `PriorityList`, whatever the order of additions, removals, cleanups and reloads |
| `mux_agent` | 2 sessions, 1 key, 2 volatile agents, one of them flaky and with a backlog that may be full, one configured and one forwarded once at most | `LockDiscipline`, `CacheIsWhatWasHeard`, `ListingIsComplete`, `RefusalsAreHonest` |
| `mux_live` | 2 sessions, 2 generations, one agent that hangs and whose backlog may be full, one that comes and goes, three configurations to reload | `RoutesStayInGeneration`, `EveryRequestAnswered` and what it rests on, `NobodyWaitsInVain` and `RequestsAdvance` |
| `watcher` | 2 directories, a `ssh-*` one that may be there at the start and an `auth-agent*` one that is made later, a socket in each, 5 changes of `/tmp` in smart mode and 3 when polling, failing scans | `LastWordIsTrue`, `StaleSocketsGo`, `NothingElseIsMissed`, `ReloadIsExact`, `PollMissesOnlyKnown` |
| `control` | 2 connections, 2 requests, 2 paths, one of an agent that accepts no more connections, the world changing at will | `AtomicCalls`: the control server implements `ControlService`; `EveryRequestServed` |
| `daemon` | 3 instances, one of them kept up by a service manager with a watchdog and a cleaning start script, 3 faults, files removed by others | `NoSpuriousExit`, `ServiceRecovers`, `ServesItsOwnSocket` |
| `configuration` | 9 file texts, 3 command lines, 2 agents | `AgentsSurviveBadFiles` |

Why these bounds are enough for the interesting cases: two sessions are what it
takes to contend for the lock and to find a map another one filled; two agents
give an order, a failure in the middle of a refresh, and a key held twice; two
generations give sessions on both sides of a reload; a directory that the startup
scan may find and one that is made later, each with a socket, separate what the watch sees
from what it does not, and what befalls a file from what befalls its directory, and
five changes of `/tmp` allow a socket to go and come back twice, or to go with its
directory and come back in a new one.  The flaky and the hanging agent are in different runs because an agent that hangs makes the safety
properties easier, not harder.  Three faults let a daemon be hit at any point of
three lives, or hang, be killed and lose a file; two requests are in flight on two connections or follow each other
on one; three instances are one that serves, one that fails against it
and one that starts while that happens; and the file texts and command lines give
a list and none, in every state of the file.  The theorems of section 5 hold
without any of these bounds.

Runs that find a violation, each of something the repository says of itself
(the quotations are in `PROJECT.json`, "findings"):

| run | the claim | what the code does |
|---|---|---|
| `first_listed_signs` | the agent listed first is selected | of two agents with the same key the last one is asked |
| `new_directory_unwatched` | forwarded agents are added automatically | a directory made after the start is never watched, and sshd makes one per connection |
| `sealed_directory` | the startup scan detects any existing sockets | one directory of another user fails the whole scan |
| `restart_blocked` | the service manager restarts a daemon that hangs | without `rm -f` before it, each restart fails on the socket file the killed one left |
| `reload_overrides_command_line` | options of the command line override the file | a SIGHUP replaces the agents of the command line, on which the Nix modules pass them, by those of the file |

Also noticed while modelling, without a run of its own: the comment at
`src/lib.rs:213` says the lock is held while signing, and it is dropped before the
upstream is dialled (the action `UseCached`); a socket that appears between the
startup scan and the start of the watch is seen by neither (`gap`, which
`NothingElseIsMissed` has to except); a polled socket that goes, is removed by the health check and
comes back before the next poll is taken for known (`PollSucceeds`; `silent`, which
`PollMissesOnlyKnown` has to except); one taken off by RemoveSocket while it is there
stays off until a Reload, an AddSocket or its next change, whatever the watcher
(`RemoveByHand`); a second instance
removes the control socket of the first and, failing itself, ends with neither,
after which the health check of the first exits and leaves its listening socket;
READY is sent before the agent's socket is bound (`NotifyReady`, then `Listen`),
though `nix/modules/home-manager.nix:194` and `systemd.rs:8` say it comes when
connections can be accepted; ValidateSockets removes watched sockets whose file is
missing, not "unreachable ones" as `src/control/protocol.rs:27` has it
(`ValidateAndCleanup`); RemoveSocket refuses a path that is watched if it is
configured too (`RemoveSocket`); with a stubborn client `AtomicCalls` fails, since
the answer to the request that timed out is taken for the next one's; `serve`
accepts `--control-socket`, which any command takes (`cli.rs:53`), and ignores it, so
that the daemon of the home-manager unit, which passes it
(`nix/modules/home-manager.nix:48-51`), is not at the path that
`home-manager.nix:159` calls the "resolved absolute path to the control socket"; two
listening paths may share a control path, `a` and `a.sock`
(`src/bin/ssh-agent-mux/cli.rs`, get_control_socket_path); a configuration file that cannot
be opened at a restart silently means the defaults (`Accepted`); the health check is
content with any file at the two paths (`Usurped` in `ServiceRecovers`); the smart
watcher's handler takes a socket in a directory below `/tmp/ssh-x/` for an agent's,
which no scan finds.

## 4. Fairness

* `FairMuxSpec`: weak fairness of each session's `Step`.  The runtime polls every
  task that can run and Tokio's mutex is first come, first served, which `lockQ`
  states by itself.  An agent outside `Hung` answers; clients, signals and agents
  owe nothing, so neither a SIGHUP nor the end of an agent that hangs is assumed, nor
  that a full backlog ever drains.  While it does not, no `Step` is enabled, and
  `EveryRequestAnswered` excepts the runs in which the thread is blocked again and again
  or for ever: there, unlike behind an agent that hangs, not even a reload frees
  anybody.
* `FairWatchSpec`: the startup, scans and their ends go on, the timers of the poll and
  of the health check fire, the debouncer's thread and the event task run.  A Reload,
  and any change of `/tmp`, is never owed, nor is anything done by hand.  "Once `/tmp`
  rests" is the bound on changes.  No scan is owed success: `PollMissesOnlyKnown`
  supposes that polls succeed again and again, and what is taken off by hand again and
  again is excepted by `silent`.  A thread that is blocked for ever, which runs no event
  task either, is the matter of `MuxAgent`, `ControlServer` and `Daemon`.
* `FairControlSpec`: the runtime comes to each connection's task, a client reads
  what has come.  No request, timeout or departure is owed, and bounded requests
  keep one connection's health checks from holding up another for ever.  No agent owes
  an accept: `EveryRequestServed` excepts the runs in which a connect, a health check's
  or a session's, blocks the thread again and again or for ever.
* `FairDaemonSpec`: a start goes on, a failed service is restarted
  (`Restart=on-failure`) and one whose pings stop is killed (`WatchdogSec`), all by
  weak fairness.  The health check has strong fairness: its timer
  is due again at any time outside a reload, in which nothing else of the process
  runs, so that reloads without end do not keep it from looking.  No first
  start, no signal and no fault is owed.

`ConfigSpec` needs no fairness: its properties are about safety only.

## 5. What is proved

Every theorem is about the specification of its module, for every value of the
constants that satisfies the module's assumptions, which only give the constants
their shapes and keep the special values apart.  None bounds the number of sessions,
paths, directories, connections, requests, instances, faults, generations or file
texts.

`SocketManagerProofs`: `ManagerTypes` (`[]ManagerTypeOK`), with the lemmas on the
manager's operators on which those of the modules over it rest.

`PriorityProofs`: `PriorityIsKept`, the refinement `ManagerSpec => KeepsPriority`.  Steps
of a clock that stands or steps back are excepted, as said in section 2; that such a
step may order wrongly is a fact of the code that no property denies.  The proof
needs that the order by stamps exists (`SortExists`) and, with different stamps, is the only one
(`SortIsUnique`): two such orders that agree so far must put the same socket next, the
latest of those left, which a least counterexample (`LeastNatural`) turns into a
proof without induction over data.  Then the mapping can be calculated with: where an
addition gets the latest stamp, the new order is the new socket before the old order
(`AddIsPush`), and a departure keeps who comes before whom (`LeaveIsDrop`), which
is how `PriorityList` states it.

`MuxAgentProofs`, for any choice of the volatile, flaky and hanging agents:

* `TypeCorrect`: `[]MuxTypeOK`.  Beside the types, a route is set exactly at the
  two points that use it, and a session that awaits an upstream has one.
* `LockIsDisciplined`: `[]LockDiscipline`.  Types and discipline are inductive
  together (`LockInv`): every action that leaves the lock is a `ReleaseDiscipline`
  or a `LeaveQueue` step, joining is `JoinQueue`, and all others leave the queue and the
  relevant program points alone (`SteadyDiscipline`).
* `CacheIsSound`: `[]CacheIsWhatWasHeard`.  It needs `LockDiscipline`, from which
  `OneHolder` follows: while one session refreshes a map nobody else writes it.
  It is not inductive without `Unheard`: a session outside a refresh remembers
  nothing, so that a refresh starts with an empty map and nothing heard.
* `RoutesAreBounded`: `[]RoutesStayInGeneration`.  The strengthening `RouteInv`
  follows a socket on its way from the manager to the route: what is listed now
  is reached by every generation begun so far, and so is what a snapshot still
  has to try (`TodoReached`) and what a map holds (`CachedReached`).
* `MuxManages`: `MuxSpec => ManagerSpec`; the sessions only read the manager, and every
  other step is one of its operations or none.  With `PriorityIsKept` follows
  `MuxKeepsPriority`: the agent's own order keeps the promise of `PriorityList`.

`MuxAnswerProofs`, on what the agent answers and whom a request waits for:

* `ListingsAreComplete`: `ListingIsComplete`.  The strengthening `SteadyInv` says of
  each session that its steady agents are up, that each has still to be asked or was
  heard with the keys it has (`AskedOrHeard`), and that a connection breaks only for
  an agent that is steady no more (`BrokenWaits`).
* `RefusalsHaveReason`: `RefusalsAreHonest`, from the same invariant
  (`AskedToBind` for session-bind) and `CacheIsSound`: a key that no entry of the
  map names was named by nobody heard.
* `WaitsAreForSomebody`: `[]NobodyWaitsInVain`.  `LockDiscipline` leads from one who is queued
  to the head of the queue, who is in a request; from there `WaitInv` adds to `RouteInv` that
  whoever awaits an upstream has a connection that has broken or an agent that is
  up (`AwaitsOneUp`), that the sockets of a binding were listed too (`BindReached`), and
  that whoever holds the thread dials an agent that is up, was listed and may be clogged.
* `RequestsMakeProgress`: `RequestsAdvance`.  No strengthening but the types; each action of
  a session goes to a later stage or shortens what its snapshot has left, and
  `RequestsStand` is the other half: nobody else moves a request.

The last two are the safety half of `EveryRequestAnswered`: what is left to fairness is that
a session that can go on is run while the thread is free, and that the mutex serves its
queue in order.

`ForwardWatchProofs`:

* `WatchTypes`: `[]WatchTypeOK`, with `WatchInv`, whose parts (`TmpOK`, `RawOK`,
  `ScansOK`, `HistoryOK` and others) are the invariant's conjuncts in groups that one
  action disturbs.
* `ReloadExact`: `ReloadIsExact`.  `ScansOK` has what makes it so: each socket that has
  stayed since a scan began was found or is in a directory still to be read.
* `WordsAreTrue`: `[]LastWordIsTrue`, which excepts the sockets of the gap and those
  taken off by hand (`silent`).  The strengthening `WordInv` adds `StartOK`.
  Until the watch is set nothing is reported, and any other socket is listed, in
  what the startup scan found or in a directory it has still to read.  From then on the
  debouncer never holds a removal alone for a socket that is there, so that what it passes
  on next cannot be the last word against it; and the poll, which alone sends what it did
  not see happen, runs without a watch.
* `QuietMissesNothing`: with nothing in the debouncer or in the channel, every socket in a
  directory under watch is listed but those of the gap and those taken off by hand.  It
  is the safety half of
  `NothingElseIsMissed`; what is left to fairness is that the two are emptied.

`ControlServerProofs`:

* `ControlTypes`: `[]ControlTypeOK`, among others that a client that waits has its
  request or its answer on the way and never both.
* `AtomicControl`: the refinement, `ControlSpec => AtomicCalls`, if no client goes on
  after a timeout (`Stubborn = {}`, without which it is false).  Each action is a
  step of `ControlService` or a stutter.  The strengthening is `AtomicInv`:
  a connection has one request or answer under way, the one its client asked for last
  (`OneAtATime`), and a health check blocks the thread, so that the list it took is
  still the manager's (`InProgress`).

`DaemonProofs`, for any number of instances, started with or without a cleaning
script:

* `TypesHold`: `[]DaemonTypeOK`, inductive as it stands.
* `OwnSocket`: `[]ServesItsOwnSocket`, inductive together with the types: who removes
  a listening socket has bound it, or `taken` says so, and who binds it found none.
* `Unhindered`: `NoSpuriousExit`.  The strengthening `ClearWay` says where the files
  of an instance of `Cleaning` are at each point of a start, and needs `OwnSocket`.

`ConfigurationProofs`: `ConfigTypes` and `AgentsSurvive`, the two invariants of the run.
The second needs that what the file holds now is in `offered` too (`Heard`).

Only model-checked: the liveness properties (`EveryRequestAnswered`,
`StaleSocketsGo`, `NothingElseIsMissed`, `PollMissesOnlyKnown`,
`EveryRequestServed`, `ServiceRecovers`), since the prover has no rule for fairness.
The safety halves of the first and the third are proved, as said above; those of the others are
single steps (a cleanup lists nothing stale; a handler that runs waits for nobody)
and are not stated.

## 6. What is not modelled

* Logging (`logging.rs`), the build script, the status line for systemd, the printing
  of the client commands and the JSON form of requests and answers: they change no
  state that another part reads.
* The fields of the status report (uptime, counts, the watcher's state), of the socket
  list other than the paths, and the verdict per socket of a health check: they are
  read and never acted upon.
* Code that nothing calls, or tests only: `update_socket_health`, `try_watch_directory` and
  `unwatch_directory` after the start, `watch_tmp_directory` with `handle_event`,
  `accept_one`.
* The paths of the two sockets, the log options, intervals and watch_for_ssh_forward,
  merged like the list of `Configuration` but read only once, at the start: the
  other modules take them as constants.  How a client command comes to the path of
  the control socket is therefore left out too.
* Renaming a socket in `/tmp` (section 2, `ForwardWatch`).
* The retry of accept on the control socket (`src/control/server.rs:76`): with no file
  descriptor left it spins without an await.  That is a matter of the runtime's turns,
  which the models abstract into fairness.
* SSH itself: keys, signatures and the wire protocol of agents are values.

The order in which this was built: `SocketManager` with `PriorityList`, `MuxAgent`,
`ForwardWatch`, `Daemon`, `ControlServer` with `ControlService`, `Configuration`, and the
proofs of each.  What could follow: an abstract agent, the union of the agents' keys
with requests answered in one step, and how far `MuxAgent` implements it (it does not
where an agent changes its keys during a refresh, which `CacheIsWhatWasHeard` says in
its place); three agents and two keys in `mux_agent`, beyond what TLC can do with two
sessions; the requests of `ControlServer` in the place of `SocketsChange`.
