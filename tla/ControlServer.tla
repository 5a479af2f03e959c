--------------------------- MODULE ControlServer ----------------------------
(***************************************************************************)
(* The control socket: the client of src/control/client.rs, the server of  *)
(* src/control/server.rs with one task per connection, and beside them     *)
(* what else changes the socket manager.  A connection carries requests    *)
(* one way and answers the other.  The client gives up after a timeout,    *)
(* and the server does not know.                                           *)
(***************************************************************************)
EXTENDS SocketManager

CONSTANTS
    Clients,       \* connections, each used by one client
    Stubborn,      \* those whose client goes on after a timeout, which the
                   \* type allows and no command does
    Forwarded,     \* the paths a scan of /tmp looks at
    WatchEnabled,  \* the configuration's watch_for_ssh_forward
    Clogged,       \* paths of agents whose backlog may be full
    MaxSent        \* bound: requests sent

ASSUME ControlAssumption ==
    /\ Stubborn \subseteq Clients
    /\ Forwarded \subseteq Paths /\ Clogged \subseteq Paths
    /\ WatchEnabled \in BOOLEAN
    /\ MaxSent \in Nat

VARIABLES
    client,        \* "idle", "waiting" for an answer or "gone"
    asked,         \* the request a client waits for, or the last one
    inbox,         \* requests not yet answered; the head is being handled
    outbox,        \* answers not yet read
    task,          \* what the connection's task is at
    left,          \* paths its scan or its health check has still to look at
    seen,          \* what its scan found, or the list its health check goes through
    running,       \* the handler that does not let the others run
    dialled,       \* the clogged agent that a session of the multiplexer connects to
    sent           \* requests sent so far

controlVars == <<managerVars, client, asked, inbox, outbox, task, left, seen, running, dialled,
                sent>>
clientSide == <<client, asked, sent>>
wire == <<inbox, outbox>>
work == <<task, left, seen, running, dialled>>

Tracked == DOMAIN watched
Listed == ToSet(configured)

CallOf(c) ==
    CASE client[c] = "waiting" /\ outbox[c] = <<>> -> [at |-> "called", request |-> asked[c]]
      [] client[c] = "waiting" /\ outbox[c] # <<>> ->
            [at |-> "answered", request |-> asked[c], answer |-> Head(outbox[c])]
      [] client[c] = "gone" /\ inbox[c] # <<>> -> [at |-> "abandoned", request |-> asked[c]]
      [] client[c] = "gone" /\ inbox[c] = <<>> -> [at |-> "closed"]
      [] OTHER -> [at |-> "idle"]

Service == INSTANCE ControlService WITH
    tracked <- Tracked,
    listed <- Listed,
    call <- [c \in Clients |-> CallOf(c)]

Requests == Service!Requests
Answers == [ok : BOOLEAN, shown : SUBSET Paths, added : SUBSET Paths, removed : SUBSET Paths]

(* A client that waits has its request on the way, or its answer, and only   *)
(* one of them.                                                              *)
ControlTypeOK ==
    /\ ManagerTypeOK
    /\ client \in [Clients -> {"idle", "waiting", "gone"}]
    /\ asked \in [Clients -> Requests]
    /\ inbox \in [Clients -> Seq(Requests)] /\ outbox \in [Clients -> Seq(Answers)]
    /\ task \in [Clients -> {"reading", "scanning", "checking", "blocked"}]
    /\ left \in [Clients -> SUBSET Paths] /\ seen \in [Clients -> SUBSET Paths]
    /\ running \subseteq {c \in Clients : task[c] \in {"checking", "blocked"}}
    /\ dialled \subseteq Clogged
    /\ sent \in 0 .. MaxSent
    /\ \A c \in Clients \ Stubborn :
          client[c] # "gone" =>
              Len(inbox[c]) + Len(outbox[c]) = IF client[c] = "waiting" THEN 1 ELSE 0

ControlInit ==
    /\ ManagerInit
    /\ client = [c \in Clients |-> "idle"]
    /\ asked = [c \in Clients |-> [op |-> "Ping"]]
    /\ inbox = [c \in Clients |-> <<>>] /\ outbox = [c \in Clients |-> <<>>]
    /\ task = [c \in Clients |-> "reading"]
    /\ left = [c \in Clients |-> {}] /\ seen = [c \in Clients |-> {}]
    /\ running = {} /\ dialled = {}
    /\ sent = 0

-----------------------------------------------------------------------------
(* The client.                                                               *)

Send(c, r) ==
    /\ client[c] = "idle" /\ sent < MaxSent
    /\ client' = [client EXCEPT ![c] = "waiting"]
    /\ asked' = [asked EXCEPT ![c] = r]
    /\ inbox' = [inbox EXCEPT ![c] = Append(@, r)]
    /\ sent' = sent + 1
    /\ UNCHANGED <<managerVars, outbox, work>>

(* The next line of the connection is taken for the answer. *)
Receive(c) ==
    /\ client[c] = "waiting" /\ outbox[c] # <<>>
    /\ client' = [client EXCEPT ![c] = "idle"]
    /\ outbox' = [outbox EXCEPT ![c] = Tail(@)]
    /\ UNCHANGED <<managerVars, asked, sent, inbox, work>>

(* Five seconds without a line; or the caller is done with the connection. *)
TimesOut(c) ==
    /\ client[c] = "waiting" /\ outbox[c] = <<>>
    /\ client' = [client EXCEPT ![c] = IF c \in Stubborn THEN "idle" ELSE "gone"]
    /\ UNCHANGED <<managerVars, asked, sent, wire, work>>

Leave(c) ==
    /\ client[c] = "idle"
    /\ client' = [client EXCEPT ![c] = "gone"]
    /\ UNCHANGED <<managerVars, asked, sent, wire, work>>

-----------------------------------------------------------------------------
(* The server.  No task runs while a health check is under way: its calls    *)
(* block the thread, and nothing in it is awaited that can suspend.  Nor     *)
(* does any while a session of the multiplexer connects to an agent whose    *)
(* backlog is full.                                                          *)

AlwaysQuiet == TRUE    \* Mutant: the checks are asynchronous and let others run.

Quiet == running = {} /\ dialled = {}

Handles(c, op) ==
    /\ Quiet /\ task[c] = "reading"
    /\ inbox[c] # <<>> /\ Head(inbox[c]).op = op

(* Writing to a client that is gone fails and ends the task; requests it had *)
(* not read are lost with it.                                                *)
Reply(c, answer) ==
    IF client[c] = "gone"
    THEN /\ inbox' = [inbox EXCEPT ![c] = <<>>]
         /\ UNCHANGED outbox
    ELSE /\ inbox' = [inbox EXCEPT ![c] = Tail(@)]
         /\ outbox' = [outbox EXCEPT ![c] = Append(@, answer)]

Pong(c) ==
    /\ Handles(c, "Ping")
    /\ Reply(c, Service!Done({}, {}, {}))
    /\ UNCHANGED <<managerVars, clientSide, work>>

(* Status and ListSockets *)
List(c) ==
    /\ Handles(c, "List")
    /\ Reply(c, Service!Done(Tracked \cup Listed, {}, {}))
    /\ UNCHANGED <<managerVars, clientSide, work>>

DropUnknown(c) ==    \* Mutant: the loop goes on to the next line without an answer.
    /\ Handles(c, "Unknown")
    /\ inbox' = [inbox EXCEPT ![c] = Tail(@)]
    /\ UNCHANGED <<managerVars, clientSide, outbox, work>>

AnswerAndKeep(c) ==    \* Mutant: the line is handled once more.
    /\ Handles(c, "Unknown")
    /\ outbox' = [outbox EXCEPT ![c] = Append(@, Service!Refused)]
    /\ UNCHANGED <<managerVars, clientSide, inbox, work>>

(* A line of text that is no request, and ListKeys *)
RefuseUnknown(c) ==
    /\ Handles(c, "Unknown")
    /\ Reply(c, Service!Refused)
    /\ UNCHANGED <<managerVars, clientSide, work>>

(* Bytes that are not UTF-8 end the task; its client reads the end of the    *)
(* connection in place of an answer.                                         *)
HangUp(c) ==
    /\ Handles(c, "Garbled")
    /\ inbox' = [inbox EXCEPT ![c] = <<>>]
    /\ client' = [client EXCEPT ![c] = "gone"]
    /\ UNCHANGED <<managerVars, asked, sent, outbox, work>>

Validate(c) ==
    /\ Handles(c, "Validate")
    /\ ValidateAndCleanup
    /\ Reply(c, Service!Done({}, {}, Tracked \ onDisk))
    /\ UNCHANGED <<clientSide, work>>

AddSocket(c) ==
    /\ Handles(c, "Add")
    /\ LET p == Head(inbox[c]).path IN
       IF p \in onDisk /\ ~ IsWatched(p) /\ ~ IsConfigured(p)
       THEN AddWatched(p) /\ Reply(c, Service!Done({}, {p}, {}))
       ELSE UNCHANGED managerVars /\ Reply(c, Service!Refused)
    /\ UNCHANGED <<clientSide, work>>

(* A configured path is refused, one that is watched as well included. *)
RemoveSocket(c) ==
    /\ Handles(c, "Remove")
    /\ LET p == Head(inbox[c]).path IN
       IF IsWatched(p) /\ ~ IsConfigured(p)
       THEN RemoveWatched(p) /\ Reply(c, Service!Done({}, {}, {p}))
       ELSE UNCHANGED managerVars /\ Reply(c, Service!Refused)
    /\ UNCHANGED <<clientSide, work>>

-----------------------------------------------------------------------------
(* Reload scans with awaits; ForwardWatch has the scan in detail.            *)

ReloadBegins(c) ==
    /\ Handles(c, "Reload")
    /\ IF WatchEnabled
       THEN /\ task' = [task EXCEPT ![c] = "scanning"]
            /\ left' = [left EXCEPT ![c] = Forwarded]
            /\ UNCHANGED wire
       ELSE /\ Reply(c, Service!Refused)
            /\ UNCHANGED <<task, left>>
    /\ UNCHANGED <<managerVars, clientSide, seen, running, dialled>>

ReloadReads(c, p) ==
    /\ task[c] = "scanning" /\ p \in left[c]
    /\ left' = [left EXCEPT ![c] = @ \ {p}]
    /\ seen' = [seen EXCEPT ![c] = @ \cup ({p} \cap onDisk)]
    /\ UNCHANGED <<managerVars, clientSide, wire, task, running, dialled>>

HandlerEnds(c) ==
    /\ task' = [task EXCEPT ![c] = "reading"]
    /\ left' = [left EXCEPT ![c] = {}]
    /\ seen' = [seen EXCEPT ![c] = {}]
    /\ running' = running \ {c}
    /\ UNCHANGED dialled

ReloadEnds(c) ==
    /\ Quiet /\ task[c] = "scanning" /\ left[c] = {}
    /\ \E t \in Now :
          /\ watched' = [p \in (Tracked \cup seen[c]) \cap onDisk |->
                            IF IsWatched(p) THEN watched[p] ELSE t]
          /\ clock' = t
    /\ Reply(c, Service!Done({}, seen[c] \ Tracked, (Tracked \cup seen[c]) \ onDisk))
    /\ HandlerEnds(c)
    /\ UNCHANGED <<configured, onDisk, clientSide>>

(* A directory could not be read. *)
ReloadFails(c) ==
    /\ Quiet /\ task[c] = "scanning" /\ left[c] # {}
    /\ Reply(c, Service!Refused)
    /\ HandlerEnds(c)
    /\ UNCHANGED <<managerVars, clientSide>>

-----------------------------------------------------------------------------
(* HealthCheck lets go of the manager's lock between the list and the        *)
(* cleanup, and blocks the thread in between.  Its connect to an agent whose *)
(* backlog is full does not return before that agent accepts or ends; any    *)
(* other check changes nothing and is left out.                              *)

HealthBegins(c) ==
    /\ Handles(c, "Health")
    /\ task' = [task EXCEPT ![c] = "checking"]
    /\ seen' = [seen EXCEPT ![c] = Tracked \cup Listed]
    /\ left' = [left EXCEPT ![c] = (Tracked \cup Listed) \cap Clogged]
    /\ running' = running \cup {c}
    /\ UNCHANGED <<managerVars, clientSide, wire, dialled>>

HealthLooks(c, p) ==
    /\ task[c] = "checking" /\ p \in left[c]
    /\ IF p \in onDisk
       THEN task' = [task EXCEPT ![c] = "blocked"] /\ UNCHANGED left
       ELSE left' = [left EXCEPT ![c] = @ \ {p}] /\ UNCHANGED task
    /\ UNCHANGED <<managerVars, clientSide, wire, seen, running, dialled>>

HealthReturns(c, p) ==
    /\ task[c] = "blocked" /\ p \in left[c]
    /\ task' = [task EXCEPT ![c] = "checking"]
    /\ left' = [left EXCEPT ![c] = @ \ {p}]
    /\ UNCHANGED <<managerVars, clientSide, wire, seen, running, dialled>>

HealthEnds(c) ==
    /\ task[c] = "checking" /\ left[c] = {}
    /\ ValidateAndCleanup
    /\ Reply(c, Service!Done(seen[c], {}, Tracked \ onDisk))
    /\ HandlerEnds(c)
    /\ UNCHANGED clientSide

-----------------------------------------------------------------------------
(* The rest of the daemon, and the file system.                              *)

Elsewhere ==
    /\ \/ /\ Quiet
          /\ \/ \E p \in Forwarded : AddWatched(p) \/ RemoveWatched(p)
             \/ ValidateAndCleanup
             \/ \E list \in Configs : UpdateConfigured(list)
       \/ \E p \in Paths : SocketFileAppears(p) \/ SocketFileVanishes(p)
    /\ UNCHANGED <<clientSide, wire, work>>

(* A session of the multiplexer connects to one of the sockets; MuxAgent has *)
(* the sessions in detail.                                                   *)
SessionDials(p) ==
    /\ Quiet
    /\ p \in (Tracked \cup Listed) \cap onDisk
    /\ dialled' = {p}
    /\ UNCHANGED <<managerVars, clientSide, wire, task, left, seen, running>>

(* The agent accepts or ends. *)
DialReturns ==
    /\ dialled # {}
    /\ dialled' = {}
    /\ UNCHANGED <<managerVars, clientSide, wire, task, left, seen, running>>

Serve(c) ==
    \/ Pong(c) \/ List(c) \/ RefuseUnknown(c) \/ HangUp(c) \/ Validate(c)
    \/ AddSocket(c) \/ RemoveSocket(c)
    \/ ReloadBegins(c) \/ (\E p \in Forwarded : ReloadReads(c, p))
    \/ ReloadEnds(c) \/ ReloadFails(c)
    \/ HealthBegins(c) \/ (\E p \in Clogged : HealthLooks(c, p)) \/ HealthEnds(c)

ControlNext ==
    \/ \E c \in Clients :
          \/ \E r \in Requests : Send(c, r)
          \/ Receive(c) \/ TimesOut(c) \/ Leave(c) \/ Serve(c)
    \/ \E c \in Clients, p \in Clogged : HealthReturns(c, p)
    \/ Elsewhere \/ (\E p \in Clogged : SessionDials(p)) \/ DialReturns

ControlSpec == ControlInit /\ [][ControlNext]_controlVars

(* The runtime comes to every task that can run.  A client reads; nobody     *)
(* owes a request, a timeout or an end of the connection, and no agent owes  *)
(* an accept.                                                                *)
FairControlSpec ==
    /\ ControlSpec
    /\ \A c \in Clients : WF_controlVars(Serve(c)) /\ WF_controlVars(Receive(c))

-----------------------------------------------------------------------------
(* The control socket keeps the promise of ControlService: each answer tells *)
(* what one step of the manager found and did for this request, whatever the *)
(* watcher, the cleanup, SIGHUP and other connections do meanwhile, and a    *)
(* request whose client gave up is carried out at most once                  *)
(* (handle_request).                                                         *)
AtomicCalls == Service!ServiceSpec

(* Every request gets an answer, or for bytes that are no text the end of    *)
(* the connection; a line that is no request and one that a health check or  *)
(* a scan of another connection holds up included.  It takes a thread that   *)
(* is not blocked again and again, or for ever, by a connect to an agent     *)
(* that accepts no more: a health check's, or that of any session of the     *)
(* multiplexer (handle_connection, check_socket_health,                      *)
(* connect_upstream_agent).                                                  *)
ThreadBlocked == dialled # {} \/ \E c \in Clients : task[c] = "blocked"

EveryRequestServed ==
    <>[](~ ThreadBlocked) => \A c \in Clients : client[c] = "waiting" ~> client[c] # "waiting"
=============================================================================
