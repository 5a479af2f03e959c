------------------------- MODULE ControlServerProofs -------------------------
(***************************************************************************)
(* Proofs about the control socket, for any number of connections, paths    *)
(* and requests.                                                            *)
(***************************************************************************)
EXTENDS ControlServer, SocketManagerProofs

(* A handler that has begun has its request still at the head of the inbox. *)
HasRequest == \A c \in Clients : task[c] # "reading" => inbox[c] # <<>>

ControlInv == ControlTypeOK /\ HasRequest

LEMMA ControlInitType == ControlInit => ControlInv
<1> SUFFICES ASSUME ControlInit PROVE ControlInv
    OBVIOUS
<1> USE DEF ControlInit
<1>1. ManagerTypeOK
    BY ManagerInitType
<1>2. /\ client \in [Clients -> {"idle", "waiting", "gone"}]
      /\ task \in [Clients -> {"reading", "scanning", "checking", "blocked"}]
      /\ left \in [Clients -> SUBSET Paths] /\ seen \in [Clients -> SUBSET Paths]
      /\ running \subseteq {c \in Clients : task[c] \in {"checking", "blocked"}}
    OBVIOUS
<1>3. asked \in [Clients -> Requests]
    BY DEF Requests, Service!Requests
<1>4. inbox \in [Clients -> Seq(Requests)] /\ outbox \in [Clients -> Seq(Answers)]
    <2>1. <<>> \in Seq(Requests) /\ <<>> \in Seq(Answers)
        OBVIOUS
    <2> QED BY <2>1
<1>5. sent \in 0 .. MaxSent
    BY ControlAssumption DEF ControlAssumption
<1>6. \A c \in Clients : client[c] = "idle" /\ Len(inbox[c]) + Len(outbox[c]) = 0
    OBVIOUS
<1>7. HasRequest
    BY DEF HasRequest
<1> QED BY <1>1, <1>2, <1>3, <1>4, <1>5, <1>6, <1>7 DEF ControlInv, ControlTypeOK

-----------------------------------------------------------------------------
(* A handler's answers have the type of answers. *)
LEMMA DoneIsAnswer ==
    ASSUME NEW shown \in SUBSET Paths, NEW added \in SUBSET Paths, NEW removed \in SUBSET Paths
    PROVE  Service!Done(shown, added, removed) \in Answers
BY DEF Service!Done, Answers

LEMMA RefusedIsAnswer == Service!Refused \in Answers
BY DEF Service!Refused, Answers

LEMMA TrackedArePaths ==
    ASSUME ManagerTypeOK
    PROVE  Tracked \subseteq Paths /\ Listed \subseteq Paths
BY ManagerAssumption DEF ManagerAssumption, ManagerTypeOK, Tracked, Listed, ToSet

(* The two queues of a connection. *)
Balanced(c) ==
    c \notin Stubborn /\ client[c] # "gone" =>
        Len(inbox[c]) + Len(outbox[c]) = IF client[c] = "waiting" THEN 1 ELSE 0

WireTypeOK ==
    /\ inbox \in [Clients -> Seq(Requests)] /\ outbox \in [Clients -> Seq(Answers)]
    /\ \A c \in Clients : Balanced(c)

(* An answer takes the place of its request. *)
LEMMA ReplyType ==
    ASSUME ControlInv, NEW c \in Clients, inbox[c] # <<>>, NEW answer \in Answers,
           Reply(c, answer), UNCHANGED client
    PROVE  /\ WireTypeOK'
           /\ \A k \in Clients \ {c} : inbox'[k] = inbox[k]
<1> USE DEF ControlInv, ControlTypeOK
<1>1. inbox[c] \in Seq(Requests) /\ outbox[c] \in Seq(Answers)
    OBVIOUS
<1>2. Tail(inbox[c]) \in Seq(Requests) /\ Len(Tail(inbox[c])) = Len(inbox[c]) - 1
    BY <1>1
<1>3. /\ Append(outbox[c], answer) \in Seq(Answers)
      /\ Len(Append(outbox[c], answer)) = Len(outbox[c]) + 1
    BY <1>1
<1>4. <<>> \in Seq(Requests) /\ Len(inbox[c]) \in Nat /\ Len(outbox[c]) \in Nat
    BY <1>1
<1>5. CASE client[c] = "gone"
    BY <1>4, <1>5 DEF Reply, WireTypeOK, Balanced
<1>6. CASE client[c] # "gone"
  <2>1. /\ inbox' = [inbox EXCEPT ![c] = Tail(inbox[c])]
        /\ outbox' = [outbox EXCEPT ![c] = Append(outbox[c], answer)]
      BY <1>6 DEF Reply
  <2>2. inbox' \in [Clients -> Seq(Requests)] /\ outbox' \in [Clients -> Seq(Answers)]
      BY <1>2, <1>3, <2>1
  <2>3. Balanced(c)'
      BY <1>2, <1>3, <1>4, <2>1 DEF Balanced
  <2>4. \A k \in Clients \ {c} : inbox'[k] = inbox[k] /\ outbox'[k] = outbox[k]
      BY <2>1
  <2>5. \A k \in Clients \ {c} : Balanced(k)'
      BY <2>4 DEF Balanced
  <2> QED BY <2>2, <2>3, <2>4, <2>5 DEF WireTypeOK
<1> QED BY <1>5, <1>6

(* A request answered at once. *)
LEMMA AnsweredAtOnce ==
    ASSUME ControlInv, ManagerTypeOK', NEW c \in Clients, NEW op, Handles(c, op),
           NEW answer \in Answers, Reply(c, answer), UNCHANGED <<clientSide, work>>
    PROVE  ControlInv'
<1>1. inbox[c] # <<>> /\ task[c] = "reading"
    BY DEF Handles
<1>2. WireTypeOK' /\ \A k \in Clients \ {c} : inbox'[k] = inbox[k]
    BY <1>1, ReplyType DEF clientSide
<1>3. ControlTypeOK'
    BY <1>2 DEF ControlInv, ControlTypeOK, WireTypeOK, Balanced, clientSide, work
<1>4. HasRequest'
    BY <1>1, <1>2 DEF ControlInv, HasRequest, work
<1> QED BY <1>3, <1>4 DEF ControlInv

(* The end of a scan or of a health check. *)
LEMMA AnsweredAtEnd ==
    ASSUME ControlInv, ManagerTypeOK', NEW c \in Clients, task[c] # "reading",
           NEW answer \in Answers, Reply(c, answer), HandlerEnds(c), UNCHANGED clientSide
    PROVE  ControlInv'
<1>1. inbox[c] # <<>>
    BY DEF ControlInv, HasRequest
<1>2. WireTypeOK' /\ \A k \in Clients \ {c} : inbox'[k] = inbox[k]
    BY <1>1, ReplyType DEF clientSide
<1>3. ControlTypeOK'
    BY <1>2 DEF ControlInv, ControlTypeOK, WireTypeOK, Balanced, clientSide, HandlerEnds
<1>4. HasRequest'
    BY <1>2 DEF ControlInv, ControlTypeOK, HasRequest, HandlerEnds
<1> QED BY <1>3, <1>4 DEF ControlInv

-----------------------------------------------------------------------------
LEMMA ControlStepType == ControlInv /\ [ControlNext]_controlVars => ControlInv'
<1> SUFFICES ASSUME ControlInv, [ControlNext]_controlVars PROVE ControlInv'
    OBVIOUS
<1> USE ControlAssumption DEF ControlAssumption
<1>0. ManagerTypeOK /\ Tracked \subseteq Paths /\ Listed \subseteq Paths
    BY TrackedArePaths DEF ControlInv, ControlTypeOK
<1>1. ASSUME NEW c \in Clients, NEW r \in Requests, Send(c, r) PROVE ControlInv'
  <2>1. ManagerTypeOK'
      BY <1>0, <1>1, ManagerStepType DEF Send
  <2>2. inbox[c] \in Seq(Requests) /\ outbox[c] \in Seq(Answers) /\ client[c] = "idle"
      BY <1>1 DEF Send, ControlInv, ControlTypeOK
  <2>3. /\ Append(inbox[c], r) \in Seq(Requests) /\ Append(inbox[c], r) # <<>>
        /\ Len(Append(inbox[c], r)) = Len(inbox[c]) + 1
      BY <2>2
  <2>4. /\ inbox' = [inbox EXCEPT ![c] = Append(inbox[c], r)]
        /\ client' = [client EXCEPT ![c] = "waiting"]
        /\ UNCHANGED <<outbox, work>>
      BY <1>1 DEF Send
  <2>5. \A k \in Clients \ Stubborn : client'[k] # "gone" =>
            Len(inbox'[k]) + Len(outbox'[k]) = IF client'[k] = "waiting" THEN 1 ELSE 0
      BY <2>2, <2>3, <2>4 DEF ControlInv, ControlTypeOK
  <2>6. asked' \in [Clients -> Requests] /\ sent' \in 0 .. MaxSent
      BY <1>1 DEF Send, ControlInv, ControlTypeOK
  <2>7. ControlTypeOK'
      BY <2>1, <2>3, <2>4, <2>5, <2>6 DEF ControlInv, ControlTypeOK, work
  <2>8. HasRequest'
      BY <2>3, <2>4 DEF ControlInv, ControlTypeOK, HasRequest, work
  <2> QED BY <2>7, <2>8 DEF ControlInv
<1>2. ASSUME NEW c \in Clients, Receive(c) PROVE ControlInv'
  <2>1. ManagerTypeOK'
      BY <1>0, <1>2, ManagerStepType DEF Receive
  <2>2. /\ inbox[c] \in Seq(Requests) /\ outbox[c] \in Seq(Answers)
        /\ client[c] = "waiting" /\ outbox[c] # <<>>
      BY <1>2 DEF Receive, ControlInv, ControlTypeOK
  <2>3. Tail(outbox[c]) \in Seq(Answers) /\ Len(Tail(outbox[c])) = Len(outbox[c]) - 1
      BY <2>2
  <2>4. /\ outbox' = [outbox EXCEPT ![c] = Tail(outbox[c])]
        /\ client' = [client EXCEPT ![c] = "idle"]
        /\ UNCHANGED <<asked, sent, inbox, work>>
      BY <1>2 DEF Receive
  <2>5. \A k \in Clients \ Stubborn : client'[k] # "gone" =>
            Len(inbox'[k]) + Len(outbox'[k]) = IF client'[k] = "waiting" THEN 1 ELSE 0
      BY <2>2, <2>3, <2>4 DEF ControlInv, ControlTypeOK
  <2> QED BY <2>1, <2>3, <2>4, <2>5 DEF ControlInv, ControlTypeOK, HasRequest, work
<1>3. ASSUME NEW c \in Clients, TimesOut(c) \/ Leave(c) PROVE ControlInv'
  <2>1. ManagerTypeOK'
      BY <1>0, <1>3, ManagerStepType DEF TimesOut, Leave
  <2>2. /\ client' \in [Clients -> {"idle", "waiting", "gone"}]
        /\ \A k \in Clients \ Stubborn : client'[k] = client[k] \/ client'[k] = "gone"
      BY <1>3 DEF TimesOut, Leave, ControlInv, ControlTypeOK
  <2> QED BY <1>3, <2>1, <2>2
        DEF TimesOut, Leave, ControlInv, ControlTypeOK, HasRequest, work, wire
<1>4. ASSUME NEW c \in Clients, Pong(c) \/ List(c) \/ RefuseUnknown(c) PROVE ControlInv'
  <2>1. ManagerTypeOK'
      BY <1>0, <1>4, ManagerStepType DEF Pong, List, RefuseUnknown
  <2> QED BY <1>0, <1>4, <2>1, AnsweredAtOnce, DoneIsAnswer, RefusedIsAnswer
        DEF Pong, List, RefuseUnknown
<1>5. ASSUME NEW c \in Clients, Validate(c) PROVE ControlInv'
  <2>1. ManagerTypeOK'
      BY <1>0, <1>5, ManagerStepType DEF Validate
  <2> QED BY <1>0, <1>5, <2>1, AnsweredAtOnce, DoneIsAnswer DEF Validate
<1>6. ASSUME NEW c \in Clients, AddSocket(c) \/ RemoveSocket(c) PROVE ControlInv'
  <2> DEFINE p == Head(inbox[c]).path
  <2>1. Handles(c, "Add") \/ Handles(c, "Remove")
      BY <1>6 DEF AddSocket, RemoveSocket
  <2>2. Head(inbox[c]) \in Requests /\ Head(inbox[c]).op \in {"Add", "Remove"}
    <3>1. inbox[c] \in Seq(Requests) /\ inbox[c] # <<>>
        BY <2>1 DEF Handles, ControlInv, ControlTypeOK
    <3> QED BY <2>1, <3>1 DEF Handles
  <2>3. p \in Paths
      BY <2>2 DEF Requests, Service!Requests
  <2>4. ManagerTypeOK'
      BY <1>0, <1>6, <2>3, ManagerStepType DEF AddSocket, RemoveSocket
  <2>5. \E answer \in Answers : Reply(c, answer)
      BY <1>6, <2>3, DoneIsAnswer, RefusedIsAnswer DEF AddSocket, RemoveSocket
  <2>6. UNCHANGED <<clientSide, work>>
      BY <1>6 DEF AddSocket, RemoveSocket
  <2> QED BY <2>1, <2>4, <2>5, <2>6, AnsweredAtOnce
<1>7. ASSUME NEW c \in Clients, ReloadBegins(c) PROVE ControlInv'
  <2>1. ManagerTypeOK'
      BY <1>0, <1>7, ManagerStepType DEF ReloadBegins
  <2>2. CASE WatchEnabled
    <3>1. /\ task' = [task EXCEPT ![c] = "scanning"]
          /\ left' = [left EXCEPT ![c] = Forwarded]
          /\ UNCHANGED <<wire, clientSide, seen, running, dialled>>
          /\ task[c] = "reading" /\ inbox[c] # <<>>
        BY <1>7, <2>2 DEF ReloadBegins, Handles
    <3>2. ControlTypeOK'
        BY <2>1, <3>1 DEF ControlInv, ControlTypeOK, wire, clientSide
    <3>3. HasRequest'
        BY <3>1 DEF ControlInv, ControlTypeOK, HasRequest, wire
    <3> QED BY <3>2, <3>3 DEF ControlInv
  <2>3. CASE ~ WatchEnabled
    <3>1. Reply(c, Service!Refused) /\ Handles(c, "Reload") /\ UNCHANGED <<clientSide, work>>
        BY <1>7, <2>3 DEF ReloadBegins, work
    <3> QED BY <2>1, <3>1, AnsweredAtOnce, RefusedIsAnswer
  <2> QED BY <2>2, <2>3
<1>8. ASSUME NEW c \in Clients, NEW p \in Forwarded, ReloadReads(c, p) PROVE ControlInv'
  <2>1. ManagerTypeOK'
      BY <1>0, <1>8, ManagerStepType DEF ReloadReads
  <2> QED BY <1>8, <2>1
        DEF ReloadReads, ControlInv, ControlTypeOK, HasRequest, wire, clientSide
<1>9. ASSUME NEW c \in Clients, ReloadEnds(c) PROVE ControlInv'
  <2>1. PICK t \in Now :
            /\ watched' = [p \in (Tracked \cup seen[c]) \cap onDisk |->
                              IF IsWatched(p) THEN watched[p] ELSE t]
            /\ clock' = t
      BY <1>9 DEF ReloadEnds
  <2>2. t \in Stamps /\ seen[c] \subseteq Paths /\ onDisk \subseteq Paths
      BY <1>0 DEF Now, ControlInv, ControlTypeOK, ManagerTypeOK
  <2>3. watched' \in [(Tracked \cup seen[c]) \cap onDisk -> Stamps]
      BY <1>0, <2>1, <2>2 DEF ManagerTypeOK, IsWatched
  <2>4. (Tracked \cup seen[c]) \cap onDisk \in SUBSET Paths
      BY <2>2
  <2>5. ManagerTypeOK'
      BY <1>0, <1>9, <2>1, <2>2, <2>3, <2>4 DEF ReloadEnds, ManagerTypeOK
  <2>6. Service!Done({}, seen[c] \ Tracked, (Tracked \cup seen[c]) \ onDisk) \in Answers
      BY <1>0, <2>2, DoneIsAnswer
  <2>7. task[c] # "reading"
      BY <1>9 DEF ReloadEnds
  <2> QED BY <1>9, <2>5, <2>6, <2>7, AnsweredAtEnd DEF ReloadEnds
<1>10. ASSUME NEW c \in Clients, ReloadFails(c) PROVE ControlInv'
  <2>1. ManagerTypeOK'
      BY <1>0, <1>10, ManagerStepType DEF ReloadFails
  <2> QED BY <1>10, <2>1, AnsweredAtEnd, RefusedIsAnswer DEF ReloadFails
<1>11. ASSUME NEW c \in Clients, HealthBegins(c) PROVE ControlInv'
  <2>1. ManagerTypeOK'
      BY <1>0, <1>11, ManagerStepType DEF HealthBegins
  <2> QED BY <1>0, <1>11, <2>1
        DEF HealthBegins, Handles, ControlInv, ControlTypeOK, HasRequest, wire, clientSide
<1>12. ASSUME NEW c \in Clients, NEW p \in Clogged, HealthLooks(c, p) PROVE ControlInv'
  <2>1. ManagerTypeOK'
      BY <1>0, <1>12, ManagerStepType DEF HealthLooks
  <2> QED BY <1>12, <2>1
        DEF HealthLooks, ControlInv, ControlTypeOK, HasRequest, wire, clientSide
<1>13. ASSUME NEW c \in Clients, HealthEnds(c) PROVE ControlInv'
  <2>1. ManagerTypeOK'
      BY <1>0, <1>13, ManagerStepType DEF HealthEnds
  <2>2. Service!Done(seen[c], {}, Tracked \ onDisk) \in Answers
      BY <1>0, DoneIsAnswer DEF ControlInv, ControlTypeOK
  <2>3. task[c] # "reading"
      BY <1>13 DEF HealthEnds
  <2> QED BY <1>13, <2>1, <2>2, <2>3, AnsweredAtEnd DEF HealthEnds
<1>14. CASE Elsewhere
  <2>1. ManagerTypeOK'
      BY <1>0, <1>14, ManagerStepType DEF Elsewhere
  <2> QED BY <1>14, <2>1
        DEF Elsewhere, ControlInv, ControlTypeOK, HasRequest, wire, clientSide, work
<1>15. CASE UNCHANGED controlVars
  <2>1. ManagerTypeOK'
      BY <1>0, <1>15, ManagerStepType DEF controlVars
  <2> QED BY <1>15, <2>1
        DEF controlVars, ControlInv, ControlTypeOK, HasRequest, wire, clientSide, work
<1>16. ASSUME NEW c \in Clients, HangUp(c) PROVE ControlInv'
  <2>1. ManagerTypeOK'
      BY <1>0, <1>16, ManagerStepType DEF HangUp
  <2>2. /\ task[c] = "reading"
        /\ inbox' = [inbox EXCEPT ![c] = <<>>] /\ client' = [client EXCEPT ![c] = "gone"]
        /\ UNCHANGED <<asked, sent, outbox, work>>
      BY <1>16 DEF HangUp, Handles
  <2>3. <<>> \in Seq(Requests)
      OBVIOUS
  <2>4. ControlTypeOK'
      BY <2>1, <2>2, <2>3 DEF ControlInv, ControlTypeOK, work
  <2>5. HasRequest'
      BY <2>2 DEF ControlInv, ControlTypeOK, HasRequest, work
  <2> QED BY <2>4, <2>5 DEF ControlInv
<1>17. ASSUME NEW c \in Clients, NEW p \in Clogged, HealthReturns(c, p) PROVE ControlInv'
  <2>1. ManagerTypeOK'
      BY <1>0, <1>17, ManagerStepType DEF HealthReturns
  <2> QED BY <1>17, <2>1
        DEF HealthReturns, ControlInv, ControlTypeOK, HasRequest, wire, clientSide
<1>18. ASSUME (\E p \in Clogged : SessionDials(p)) \/ DialReturns PROVE ControlInv'
  <2>1. ManagerTypeOK'
      BY <1>0, <1>18, ManagerStepType DEF SessionDials, DialReturns
  <2>2. /\ dialled' \subseteq Clogged
        /\ UNCHANGED <<clientSide, wire, task, left, seen, running>>
      BY <1>18 DEF SessionDials, DialReturns
  <2> QED BY <2>1, <2>2 DEF ControlInv, ControlTypeOK, HasRequest, wire, clientSide
<1> QED
    BY <1>1, <1>2, <1>3, <1>4, <1>5, <1>6, <1>7, <1>8, <1>9, <1>10, <1>11, <1>12, <1>13,
       <1>14, <1>15, <1>16, <1>17, <1>18 DEF ControlNext, Serve

(* Types, and with them: a client that waits and gives up for good after a   *)
(* timeout has exactly one of its request and its answer on the way, and one *)
(* that does not wait neither (handle_connection, ControlClient::send).      *)
THEOREM ControlTypes == ControlSpec => []ControlTypeOK
<1>1. ControlInv => ControlTypeOK
    BY DEF ControlInv
<1> QED BY <1>1, ControlInitType, ControlStepType, PTL DEF ControlSpec

-----------------------------------------------------------------------------
(* The refinement.  What it rests on: a connection has one request or answer *)
(* under way, the one its client asked for last; and the thread is blocked   *)
(* from the moment a health check took its list.                             *)

OneAtATime(c) ==
    /\ client[c] = "gone" => outbox[c] = <<>>
    /\ inbox[c] # <<>> => inbox[c] = <<asked[c]>> /\ client[c] # "idle"
    /\ client[c] = "waiting" => (inbox[c] = <<>> <=> outbox[c] # <<>>)
    /\ client[c] = "idle" => outbox[c] = <<>>
    /\ outbox[c] # <<>> => \E a \in Answers : outbox[c] = <<a>>

InProgress(c) ==
    /\ task[c] = "scanning" => asked[c].op = "Reload"
    /\ task[c] \in {"checking", "blocked"} =>
          /\ asked[c].op = "Health"
          /\ running = {c}
          /\ seen[c] = Tracked \cup Listed

AtomicInv == ControlInv /\ \A c \in Clients : OneAtATime(c) /\ InProgress(c)
LEMMA AtomicInit == ControlInit => AtomicInv
<1> SUFFICES ASSUME ControlInit PROVE AtomicInv
    OBVIOUS
<1>1. \A c \in Clients : OneAtATime(c)
    BY DEF ControlInit, OneAtATime
<1>2. \A c \in Clients : InProgress(c)
    BY DEF ControlInit, InProgress
<1> QED BY <1>1, <1>2, ControlInitType DEF AtomicInv

LEMMA ReplyOneAtATime ==
    ASSUME AtomicInv, NEW c \in Clients, inbox[c] # <<>>, NEW answer \in Answers,
           Reply(c, answer), UNCHANGED clientSide
    PROVE  \A k \in Clients : OneAtATime(k)'
<1> USE DEF AtomicInv, ControlInv, ControlTypeOK
<1>1. inbox[c] = <<asked[c]>> /\ client[c] \in {"waiting", "gone"} /\ OneAtATime(c)
    BY DEF OneAtATime
<1>2. \A k \in Clients \ {c} : inbox'[k] = inbox[k] /\ outbox'[k] = outbox[k]
    BY DEF Reply
<1>3. \A k \in Clients \ {c} : OneAtATime(k)'
    BY <1>2 DEF OneAtATime, clientSide
<1>4. CASE client[c] = "gone"
  <2>1. inbox'[c] = <<>> /\ outbox'[c] = <<>>
      BY <1>1, <1>4 DEF Reply, OneAtATime
  <2> QED BY <1>3, <1>4, <2>1 DEF OneAtATime, clientSide
<1>5. CASE client[c] = "waiting"
  <2>1. outbox[c] = <<>> /\ outbox[c] \in Seq(Answers)
      BY <1>1, <1>5 DEF OneAtATime
  <2>2. inbox'[c] = Tail(<<asked[c]>>) /\ outbox'[c] = Append(<<>>, answer)
      BY <1>1, <1>5, <2>1 DEF Reply
  <2>3. inbox'[c] = <<>> /\ outbox'[c] # <<>> /\ outbox'[c] = <<answer>>
      BY <2>2
  <2>4. OneAtATime(c)'
      BY <1>5, <2>3 DEF OneAtATime, clientSide
  <2> QED BY <1>3, <2>4
<1> QED BY <1>1, <1>4, <1>5

(* While a check is under way only its own end touches what it goes through. *)
LEMMA QuietMeansNoCheck ==
    ASSUME AtomicInv, Quiet, NEW k \in Clients
    PROVE  task[k] \notin {"checking", "blocked"}
BY DEF AtomicInv, InProgress, Quiet

LEMMA OthersInProgress ==
    ASSUME AtomicInv, Quiet, UNCHANGED <<asked, running>>, NEW c \in Clients, task'[c] = "reading",
           \A k \in Clients \ {c} : task'[k] = task[k]
    PROVE  \A k \in Clients : InProgress(k)'
BY QuietMeansNoCheck DEF AtomicInv, InProgress

LEMMA SameList ==
    ASSUME UNCHANGED managerVars
    PROVE  Tracked' = Tracked /\ Listed' = Listed
BY DEF managerVars, Tracked, Listed

LEMMA AtomicAtOnce ==
    ASSUME AtomicInv, NEW c \in Clients, NEW op, Handles(c, op), NEW answer \in Answers,
           Reply(c, answer), UNCHANGED <<clientSide, work>>
    PROVE  \A k \in Clients : OneAtATime(k)' /\ InProgress(k)'
<1>1. inbox[c] # <<>> /\ Quiet /\ task[c] = "reading"
    BY DEF Handles
<1>2. \A k \in Clients : OneAtATime(k)'
    BY <1>1, ReplyOneAtATime
<1>3. \A k \in Clients : InProgress(k)'
    BY <1>1, OthersInProgress DEF clientSide, work
<1> QED BY <1>2, <1>3

LEMMA AtomicStep ==
    ASSUME Stubborn = {}, AtomicInv, [ControlNext]_controlVars
    PROVE  \A k \in Clients : OneAtATime(k)' /\ InProgress(k)'
<1> DEFINE Goal == \A k \in Clients : OneAtATime(k)' /\ InProgress(k)'
<1>0. /\ Tracked \subseteq Paths /\ Listed \subseteq Paths
      /\ client \in [Clients -> {"idle", "waiting", "gone"}]
      /\ asked \in [Clients -> Requests]
      /\ inbox \in [Clients -> Seq(Requests)] /\ outbox \in [Clients -> Seq(Answers)]
      /\ task \in [Clients -> {"reading", "scanning", "checking", "blocked"}]
      /\ seen \in [Clients -> SUBSET Paths] /\ onDisk \subseteq Paths
    BY TrackedArePaths DEF AtomicInv, ControlInv, ControlTypeOK, ManagerTypeOK
<1>1. ASSUME NEW c \in Clients, NEW r \in Requests, Send(c, r) PROVE Goal
  <2>1. inbox[c] = <<>> /\ outbox[c] = <<>> /\ client[c] = "idle" /\ task[c] = "reading"
      BY <1>1 DEF Send, AtomicInv, OneAtATime, ControlInv, HasRequest
  <2>2. inbox'[c] = <<r>> /\ outbox' = outbox /\ asked'[c] = r /\ client'[c] = "waiting"
      BY <1>0, <1>1, <2>1 DEF Send
  <2>3. \A k \in Clients \ {c} :
            inbox'[k] = inbox[k] /\ asked'[k] = asked[k] /\ client'[k] = client[k]
      BY <1>0, <1>1 DEF Send
  <2>4. OneAtATime(c)'
      BY <2>1, <2>2 DEF OneAtATime
  <2>5. \A k \in Clients \ {c} : OneAtATime(k)'
      BY <2>2, <2>3 DEF AtomicInv, OneAtATime
  <2>6. UNCHANGED <<task, running, seen, Tracked, Listed>>
      BY <1>1, SameList DEF Send, work
  <2>7. \A k \in Clients : InProgress(k)'
      BY <2>1, <2>3, <2>6 DEF AtomicInv, InProgress
  <2> QED BY <2>4, <2>5, <2>7
<1>2. ASSUME NEW c \in Clients, Receive(c) PROVE Goal
  <2>1. inbox[c] = <<>> /\ \E a \in Answers : outbox[c] = <<a>>
      BY <1>2 DEF Receive, AtomicInv, OneAtATime
  <2>2. Tail(outbox[c]) = <<>>
      BY <2>1
  <2>3. outbox'[c] = <<>> /\ client'[c] = "idle" /\ UNCHANGED <<inbox, asked>>
      BY <1>0, <1>2, <2>2 DEF Receive
  <2>4. \A k \in Clients \ {c} : outbox'[k] = outbox[k] /\ client'[k] = client[k]
      BY <1>0, <1>2 DEF Receive
  <2>5. \A k \in Clients : OneAtATime(k)'
      BY <2>1, <2>3, <2>4 DEF AtomicInv, OneAtATime
  <2>6. UNCHANGED <<task, running, seen, Tracked, Listed>>
      BY <1>2, SameList DEF Receive, work
  <2>7. \A k \in Clients : InProgress(k)'
      BY <2>3, <2>6 DEF AtomicInv, InProgress
  <2> QED BY <2>5, <2>7
<1>3. ASSUME NEW c \in Clients, TimesOut(c) \/ Leave(c) PROVE Goal
  <2>1. /\ outbox[c] = <<>> /\ client'[c] = "gone"
        /\ UNCHANGED <<asked, inbox, outbox>>
        /\ \A k \in Clients \ {c} : client'[k] = client[k]
      BY <1>0, <1>3 DEF TimesOut, Leave, wire, AtomicInv, OneAtATime
  <2>2. \A k \in Clients : OneAtATime(k)'
      BY <2>1 DEF AtomicInv, OneAtATime
  <2>3. UNCHANGED <<task, running, seen, Tracked, Listed>>
      BY <1>3, SameList DEF TimesOut, Leave, work
  <2>4. \A k \in Clients : InProgress(k)'
      BY <2>1, <2>3 DEF AtomicInv, InProgress
  <2> QED BY <2>2, <2>4
<1>4. ASSUME NEW c \in Clients, Pong(c) \/ List(c) \/ RefuseUnknown(c) \/ Validate(c) PROVE Goal
  <2>1. \E answer \in Answers : Reply(c, answer)
      BY <1>0, <1>4, DoneIsAnswer, RefusedIsAnswer DEF Pong, List, RefuseUnknown, Validate
  <2>2. (\E op : Handles(c, op)) /\ UNCHANGED <<clientSide, work>>
      BY <1>4 DEF Pong, List, RefuseUnknown, Validate
  <2> QED BY <2>1, <2>2, AtomicAtOnce
<1>5. ASSUME NEW c \in Clients, AddSocket(c) \/ RemoveSocket(c) PROVE Goal
  <2> DEFINE p == Head(inbox[c]).path
  <2>1. Handles(c, "Add") \/ Handles(c, "Remove")
      BY <1>5 DEF AddSocket, RemoveSocket
  <2>2. Head(inbox[c]) \in Requests /\ Head(inbox[c]).op \in {"Add", "Remove"}
    <3>1. inbox[c] \in Seq(Requests) /\ inbox[c] # <<>>
        BY <1>0, <2>1 DEF Handles
    <3> QED BY <2>1, <3>1 DEF Handles
  <2>3. p \in Paths
      BY <2>2 DEF Requests, Service!Requests
  <2>4. \E answer \in Answers : Reply(c, answer)
      BY <1>5, <2>3, DoneIsAnswer, RefusedIsAnswer DEF AddSocket, RemoveSocket
  <2>5. UNCHANGED <<clientSide, work>>
      BY <1>5 DEF AddSocket, RemoveSocket
  <2> QED BY <2>1, <2>4, <2>5, AtomicAtOnce
<1>6. ASSUME NEW c \in Clients, ReloadBegins(c) PROVE Goal
  <2>1. CASE WatchEnabled
    <3>1. /\ task' = [task EXCEPT ![c] = "scanning"]
          /\ UNCHANGED <<wire, clientSide, seen, running>>
          /\ Quiet /\ inbox[c] # <<>> /\ Head(inbox[c]).op = "Reload"
        BY <1>6, <2>1 DEF ReloadBegins, Handles
    <3>2. inbox[c] = <<asked[c]>>
        BY <3>1 DEF AtomicInv, OneAtATime
    <3>3. asked[c].op = "Reload"
        BY <3>1, <3>2
    <3>4. \A k \in Clients : OneAtATime(k)'
        BY <3>1 DEF AtomicInv, OneAtATime, wire, clientSide
    <3>5. \A k \in Clients : InProgress(k)'
        BY <1>0, <3>1, <3>3, QuietMeansNoCheck DEF AtomicInv, InProgress, clientSide
    <3> QED BY <3>4, <3>5
  <2>2. CASE ~ WatchEnabled
    <3>1. Reply(c, Service!Refused) /\ Handles(c, "Reload") /\ UNCHANGED <<clientSide, work>>
        BY <1>6, <2>2 DEF ReloadBegins, work
    <3> QED BY <3>1, AtomicAtOnce, RefusedIsAnswer
  <2> QED BY <2>1, <2>2
<1>7. ASSUME NEW c \in Clients, NEW p \in Forwarded, ReloadReads(c, p) PROVE Goal
  <2>1. UNCHANGED <<client, asked, inbox, outbox, task, running, Tracked, Listed>>
      BY <1>7, SameList DEF ReloadReads, wire, clientSide
  <2>2. task[c] = "scanning" /\ \A k \in Clients \ {c} : seen'[k] = seen[k]
      BY <1>0, <1>7 DEF ReloadReads
  <2>3. \A k \in Clients : OneAtATime(k)'
      BY <2>1 DEF AtomicInv, OneAtATime
  <2>4. \A k \in Clients : InProgress(k)'
      BY <2>1, <2>2 DEF AtomicInv, InProgress
  <2> QED BY <2>3, <2>4
<1>8. ASSUME NEW c \in Clients, ReloadEnds(c) \/ ReloadFails(c) PROVE Goal
  <2>1. task[c] = "scanning" /\ Quiet /\ HandlerEnds(c) /\ UNCHANGED clientSide
      BY <1>8 DEF ReloadEnds, ReloadFails
  <2>2. \E answer \in Answers : Reply(c, answer)
      BY <1>0, <1>8, DoneIsAnswer, RefusedIsAnswer DEF ReloadEnds, ReloadFails
  <2>3. inbox[c] # <<>>
      BY <2>1 DEF AtomicInv, ControlInv, HasRequest
  <2>4. \A k \in Clients : OneAtATime(k)'
      BY <2>1, <2>2, <2>3, ReplyOneAtATime
  <2>5. running' = running /\ task'[c] = "reading" /\ \A k \in Clients \ {c} : task'[k] = task[k]
      BY <1>0, <2>1 DEF HandlerEnds, Quiet
  <2>6. \A k \in Clients : InProgress(k)'
      BY <2>1, <2>5, OthersInProgress DEF clientSide
  <2> QED BY <2>4, <2>6
<1>9. ASSUME NEW c \in Clients, HealthBegins(c) PROVE Goal
  <2>1. /\ Quiet /\ inbox[c] # <<>> /\ Head(inbox[c]).op = "Health"
        /\ task' = [task EXCEPT ![c] = "checking"]
        /\ seen' = [seen EXCEPT ![c] = Tracked \cup Listed]
        /\ running' = {c}
        /\ UNCHANGED <<client, asked, inbox, outbox, Tracked, Listed>>
      BY <1>9, SameList DEF HealthBegins, Handles, Quiet, wire, clientSide
  <2>2. inbox[c] = <<asked[c]>>
      BY <2>1 DEF AtomicInv, OneAtATime
  <2>3. asked[c].op = "Health"
      BY <2>1, <2>2
  <2>4. \A k \in Clients : OneAtATime(k)'
      BY <2>1 DEF AtomicInv, OneAtATime
  <2>5. \A k \in Clients : InProgress(k)'
      BY <1>0, <2>1, <2>3, QuietMeansNoCheck DEF AtomicInv, InProgress
  <2> QED BY <2>4, <2>5
<1>10. ASSUME NEW c \in Clients, NEW p \in Clogged, HealthLooks(c, p) PROVE Goal
  <2>1. /\ task[c] = "checking" /\ task'[c] \in {"checking", "blocked"}
        /\ \A k \in Clients \ {c} : task'[k] = task[k]
        /\ UNCHANGED <<client, asked, inbox, outbox, seen, running, Tracked, Listed>>
      BY <1>0, <1>10, SameList DEF HealthLooks, wire, clientSide
  <2>2. \A k \in Clients : OneAtATime(k)'
      BY <2>1 DEF AtomicInv, OneAtATime
  <2>3. \A k \in Clients : InProgress(k)'
      BY <2>1 DEF AtomicInv, InProgress
  <2> QED BY <2>2, <2>3
<1>11. ASSUME NEW c \in Clients, HealthEnds(c) PROVE Goal
  <2>1. task[c] = "checking" /\ HandlerEnds(c) /\ UNCHANGED clientSide
      BY <1>11 DEF HealthEnds
  <2>2. Reply(c, Service!Done(seen[c], {}, Tracked \ onDisk))
      BY <1>11 DEF HealthEnds
  <2>3. Service!Done(seen[c], {}, Tracked \ onDisk) \in Answers
      BY <1>0, DoneIsAnswer
  <2>4. inbox[c] # <<>> /\ running = {c}
      BY <2>1 DEF AtomicInv, ControlInv, HasRequest, InProgress
  <2>5. \A k \in Clients : OneAtATime(k)'
      BY <2>1, <2>2, <2>3, <2>4, ReplyOneAtATime
  <2>6. \A k \in Clients \ {c} : task[k] \notin {"checking", "blocked"}
      BY <2>4 DEF AtomicInv, InProgress
  <2>7. task'[c] = "reading" /\ \A k \in Clients \ {c} : task'[k] = task[k]
      BY <1>0, <2>1 DEF HandlerEnds
  <2>8. \A k \in Clients : InProgress(k)'
      BY <2>1, <2>6, <2>7 DEF AtomicInv, InProgress, clientSide
  <2> QED BY <2>5, <2>8
<1>12. CASE Elsewhere
  <2>1. UNCHANGED <<client, asked, inbox, outbox, task, seen, running>>
      BY <1>12 DEF Elsewhere, clientSide, wire, work
  <2>2. \A k \in Clients : OneAtATime(k)'
      BY <2>1 DEF AtomicInv, OneAtATime
  <2>3. CASE Quiet
      BY <2>1, <2>2, <2>3, QuietMeansNoCheck DEF AtomicInv, InProgress
  <2>4. CASE ~ Quiet
    <3>1. UNCHANGED <<watched, configured>>
        BY <1>12, <2>4 DEF Elsewhere, SocketFileAppears, SocketFileVanishes, managerState
    <3>2. UNCHANGED <<Tracked, Listed>>
        BY <3>1 DEF Tracked, Listed
    <3> QED BY <2>1, <2>2, <3>2 DEF AtomicInv, InProgress
  <2> QED BY <2>3, <2>4
<1>13. CASE UNCHANGED controlVars
  <2>1. UNCHANGED <<client, asked, inbox, outbox, task, seen, running, Tracked, Listed>>
      BY <1>13, SameList DEF controlVars
  <2>2. \A k \in Clients : OneAtATime(k)'
      BY <2>1 DEF AtomicInv, OneAtATime
  <2>3. \A k \in Clients : InProgress(k)'
      BY <2>1 DEF AtomicInv, InProgress
  <2> QED BY <2>2, <2>3
<1>14. ASSUME NEW c \in Clients, HangUp(c) PROVE Goal
  <2>1. /\ Quiet /\ inbox[c] # <<>> /\ task[c] = "reading"
        /\ inbox' = [inbox EXCEPT ![c] = <<>>] /\ client' = [client EXCEPT ![c] = "gone"]
        /\ UNCHANGED <<asked, outbox, task, running, seen, Tracked, Listed>>
      BY <1>14, SameList DEF HangUp, Handles, work
  <2>2. outbox[c] = <<>>
      BY <1>0, <2>1 DEF AtomicInv, OneAtATime
  <2>3. inbox'[c] = <<>> /\ outbox'[c] = <<>> /\ client'[c] = "gone"
      BY <1>0, <2>1, <2>2
  <2>4. \A k \in Clients \ {c} : inbox'[k] = inbox[k] /\ client'[k] = client[k]
      BY <1>0, <2>1
  <2>5. OneAtATime(c)'
      BY <2>3 DEF OneAtATime
  <2>6. \A k \in Clients \ {c} : OneAtATime(k)'
      BY <2>1, <2>4 DEF AtomicInv, OneAtATime
  <2>7. \A k \in Clients : InProgress(k)'
      BY <2>1 DEF AtomicInv, InProgress
  <2> QED BY <2>5, <2>6, <2>7
<1>15. ASSUME NEW c \in Clients, NEW p \in Clogged, HealthReturns(c, p) PROVE Goal
  <2>1. /\ task[c] = "blocked" /\ task'[c] = "checking"
        /\ \A k \in Clients \ {c} : task'[k] = task[k]
        /\ UNCHANGED <<client, asked, inbox, outbox, seen, running, Tracked, Listed>>
      BY <1>0, <1>15, SameList DEF HealthReturns, wire, clientSide
  <2>2. \A k \in Clients : OneAtATime(k)'
      BY <2>1 DEF AtomicInv, OneAtATime
  <2>3. \A k \in Clients : InProgress(k)'
      BY <2>1 DEF AtomicInv, InProgress
  <2> QED BY <2>2, <2>3
<1>16. ASSUME (\E p \in Clogged : SessionDials(p)) \/ DialReturns PROVE Goal
  <2>1. UNCHANGED <<client, asked, inbox, outbox, task, seen, running, Tracked, Listed>>
      BY <1>16, SameList DEF SessionDials, DialReturns, wire, clientSide
  <2>2. \A k \in Clients : OneAtATime(k)'
      BY <2>1 DEF AtomicInv, OneAtATime
  <2>3. \A k \in Clients : InProgress(k)'
      BY <2>1 DEF AtomicInv, InProgress
  <2> QED BY <2>2, <2>3
<1> QED
    BY <1>1, <1>2, <1>3, <1>4, <1>5, <1>6, <1>7, <1>8, <1>9, <1>10, <1>11, <1>12, <1>13,
       <1>14, <1>15, <1>16 DEF ControlNext, Serve

LEMMA AtomicPreserved ==
    Stubborn = {} => (AtomicInv /\ [ControlNext]_controlVars => AtomicInv')
<1> SUFFICES ASSUME Stubborn = {}, AtomicInv, [ControlNext]_controlVars PROVE AtomicInv'
    OBVIOUS
<1>1. ControlInv'
    BY ControlStepType DEF AtomicInv
<1> QED BY <1>1, AtomicStep DEF AtomicInv

-----------------------------------------------------------------------------
(* How the steps map to those of ControlService. *)

Calls == [c \in Clients |-> CallOf(c)]

LEMMA SameCall ==
    ASSUME NEW k \in Clients, client'[k] = client[k], asked'[k] = asked[k],
           inbox'[k] = inbox[k], outbox'[k] = outbox[k]
    PROVE  CallOf(k)' = CallOf(k)
BY DEF CallOf

LEMMA CallMoves ==
    ASSUME NEW c \in Clients, \A k \in Clients \ {c} : CallOf(k)' = CallOf(k)
    PROVE  Service!MovesTo(c, CallOf(c)')
BY DEF Service!MovesTo

LEMMA CallsStay ==
    ASSUME UNCHANGED <<client, asked, inbox, outbox>>
    PROVE  Calls' = Calls
BY SameCall DEF Calls

(* An answer that the abstract operation may give, in the step that gives it. *)
LEMMA ReplyIsEffect ==
    ASSUME AtomicInv, NEW c \in Clients, inbox[c] # <<>>, NEW answer \in Answers,
           Reply(c, answer), UNCHANGED <<clientSide, Listed>>,
           Service!Outcome(asked[c], answer)
    PROVE  Service!Effect(c)
<1> USE DEF AtomicInv, ControlInv, ControlTypeOK
<1>1. /\ inbox[c] = <<asked[c]>> /\ client[c] \in {"waiting", "gone"}
      /\ client'[c] = client[c] /\ asked'[c] = asked[c]
    BY DEF OneAtATime, clientSide
<1>2. \A k \in Clients \ {c} : CallOf(k)' = CallOf(k)
    BY SameCall DEF Reply, clientSide
<1>3. Service!MovesTo(c, CallOf(c)')
    BY <1>2, CallMoves
<1>4. Calls[c] = CallOf(c) /\ Calls'[c] = CallOf(c)'
    BY DEF Calls
<1>5. CASE client[c] = "gone"
  <2>1. inbox'[c] = <<>>
      BY <1>5 DEF Reply
  <2>2. CallOf(c) = Service!Abandoned(asked[c]) /\ CallOf(c)' = Service!Closed
      BY <1>1, <1>5, <2>1 DEF CallOf, Service!Abandoned, Service!Closed
  <2>3. \E a \in [ok : BOOLEAN, shown : SUBSET Paths, added : SUBSET Paths,
                  removed : SUBSET Paths] : Service!Outcome(asked[c], a)
      BY DEF Answers
  <2>4. Calls[c].at = "abandoned" /\ Calls[c].request = asked[c]
      BY <1>4, <2>2 DEF Service!Abandoned
  <2> QED BY <1>3, <2>2, <2>3, <2>4 DEF Service!Effect, Calls
<1>6. CASE client[c] = "waiting"
  <2>1. outbox[c] = <<>>
      BY <1>1, <1>6 DEF OneAtATime
  <2>2. outbox'[c] = <<answer>>
      BY <1>6, <2>1 DEF Reply
  <2>3. CallOf(c) = Service!Called(asked[c]) /\ CallOf(c)' = Service!Answered(asked[c], answer)
      BY <1>1, <1>6, <2>1, <2>2 DEF CallOf, Service!Called, Service!Answered
  <2>4. /\ Calls[c].at = "called" /\ Calls[c].request = asked[c]
        /\ Calls'[c].at = "answered" /\ Calls'[c].answer = answer
      BY <1>4, <2>3 DEF Service!Called, Service!Answered
  <2> QED BY <1>3, <2>3, <2>4 DEF Service!Effect, Calls
<1> QED BY <1>1, <1>5, <1>6

LEMMA RefusalIsOutcome ==
    ASSUME NEW r, UNCHANGED Tracked
    PROVE  Service!Outcome(r, Service!Refused)
BY DEF Service!Outcome

LEMMA DoneIsOutcome ==
    ASSUME NEW r, NEW added \in SUBSET Paths, NEW removed \in SUBSET Paths,
           Service!Allowed(r, added, removed), removed \subseteq Tracked \cup added,
           Tracked' = (Tracked \cup added) \ removed
    PROVE  Service!Outcome(r, Service!Done(
               IF r.op \in {"List", "Health"} THEN Tracked \cup Listed ELSE {}, added, removed))
BY DEF Service!Outcome

(* The request at hand is the one the client asked for last. *)
LEMMA HandledIsAsked ==
    ASSUME AtomicInv, NEW c \in Clients, NEW op, Handles(c, op)
    PROVE  inbox[c] # <<>> /\ Head(inbox[c]) = asked[c] /\ asked[c].op = op
BY DEF AtomicInv, OneAtATime, Handles

-----------------------------------------------------------------------------
LEMMA AtomicSimulation ==
    ASSUME Stubborn = {}, AtomicInv, ControlTypeOK', [ControlNext]_controlVars
    PROVE  [Service!ServiceNext]_(Service!serviceVars)
<1> DEFINE Goal == [Service!ServiceNext]_(Service!serviceVars)
<1>0. /\ Tracked \subseteq Paths /\ Listed \subseteq Paths
      /\ client \in [Clients -> {"idle", "waiting", "gone"}]
      /\ asked \in [Clients -> Requests]
      /\ inbox \in [Clients -> Seq(Requests)] /\ outbox \in [Clients -> Seq(Answers)]
      /\ task \in [Clients -> {"reading", "scanning", "checking", "blocked"}]
      /\ seen \in [Clients -> SUBSET Paths] /\ onDisk \subseteq Paths
      /\ \E known \in SUBSET Paths : watched \in [known -> Stamps]
    BY TrackedArePaths DEF AtomicInv, ControlInv, ControlTypeOK, ManagerTypeOK
<1>a. ASSUME NEW c \in Clients, Service!Effect(c) PROVE Goal
    BY <1>a DEF Service!ServiceNext
<1>b. ASSUME UNCHANGED <<client, asked, inbox, outbox, Tracked, Listed>> PROVE Goal
    BY <1>b, CallsStay DEF Service!serviceVars, Calls
<1>1. ASSUME NEW c \in Clients, NEW r \in Requests, Send(c, r) PROVE Goal
  <2>1. CallOf(c) = Service!Idle /\ outbox[c] = <<>>
      BY <1>1 DEF Send, CallOf, Service!Idle, AtomicInv, OneAtATime
  <2>2. client'[c] = "waiting" /\ outbox'[c] = <<>> /\ asked'[c] = r
      BY <1>0, <1>1, <2>1 DEF Send
  <2>3. CallOf(c)' = Service!Called(r)
      BY <2>2 DEF CallOf, Service!Called
  <2>4. \A k \in Clients \ {c} : CallOf(k)' = CallOf(k)
      BY <1>0, <1>1, SameCall DEF Send
  <2>5. Service!Call(c, r)
      BY <1>1, <2>1, <2>3, <2>4, CallMoves, SameList DEF Service!Call, Send
  <2> QED BY <2>5 DEF Service!ServiceNext, Requests
<1>2. ASSUME NEW c \in Clients, Receive(c) PROVE Goal
  <2>1. CallOf(c).at = "answered"
      BY <1>2 DEF Receive, CallOf
  <2>2. client'[c] = "idle"
      BY <1>0, <1>2 DEF Receive
  <2>3. CallOf(c)' = Service!Idle
      BY <2>2 DEF CallOf, Service!Idle
  <2>4. \A k \in Clients \ {c} : CallOf(k)' = CallOf(k)
      BY <1>0, <1>2, SameCall DEF Receive
  <2>5. Service!Return(c)
      BY <1>2, <2>1, <2>3, <2>4, CallMoves, SameList DEF Service!Return, Receive
  <2> QED BY <2>5 DEF Service!ServiceNext
<1>3. ASSUME NEW c \in Clients, TimesOut(c) PROVE Goal
  <2>1. client[c] = "waiting" /\ outbox[c] = <<>> /\ client'[c] = "gone"
      BY <1>0, <1>3 DEF TimesOut
  <2>2. inbox[c] # <<>> /\ UNCHANGED <<asked, inbox, outbox>>
      BY <1>3, <2>1 DEF TimesOut, wire, AtomicInv, OneAtATime
  <2>3. CallOf(c) = Service!Called(asked[c]) /\ CallOf(c)' = Service!Abandoned(asked[c])
      BY <2>1, <2>2 DEF CallOf, Service!Called, Service!Abandoned
  <2>4. \A k \in Clients \ {c} : CallOf(k)' = CallOf(k)
      BY <1>0, <1>3, SameCall DEF TimesOut, wire
  <2>5. CallOf(c).at = "called" /\ CallOf(c).request = asked[c]
      BY <2>3 DEF Service!Called
  <2>6. Service!GiveUp(c)
      BY <1>3, <2>3, <2>4, <2>5, CallMoves, SameList DEF Service!GiveUp, TimesOut
  <2> QED BY <2>6 DEF Service!ServiceNext
<1>4. ASSUME NEW c \in Clients, Leave(c) PROVE Goal
  <2>1. client[c] = "idle" /\ client'[c] = "gone" /\ UNCHANGED <<asked, inbox, outbox>>
      BY <1>0, <1>4 DEF Leave, wire
  <2>2. inbox[c] = <<>>
      BY <2>1 DEF AtomicInv, OneAtATime
  <2>3. CallOf(c) = Service!Idle /\ CallOf(c)' = Service!Closed
      BY <2>1, <2>2 DEF CallOf, Service!Idle, Service!Closed
  <2>4. \A k \in Clients \ {c} : CallOf(k)' = CallOf(k)
      BY <1>0, <1>4, <2>1, SameCall DEF Leave
  <2>5. Service!GiveUp(c)
      BY <1>4, <2>3, <2>4, CallMoves, SameList DEF Service!GiveUp, Leave
  <2> QED BY <2>5 DEF Service!ServiceNext
<1>5. ASSUME NEW c \in Clients, Pong(c) PROVE Goal
  <2>1. /\ inbox[c] # <<>> /\ asked[c].op = "Ping"
        /\ UNCHANGED <<clientSide, Tracked, Listed>>
        /\ Reply(c, Service!Done({}, {}, {}))
      BY <1>5, HandledIsAsked, SameList DEF Pong
  <2>2. Service!Outcome(asked[c], Service!Done({}, {}, {}))
      BY <2>1 DEF Service!Outcome, Service!Allowed
  <2> QED BY <1>a, <2>1, <2>2, ReplyIsEffect, DoneIsAnswer
<1>6. ASSUME NEW c \in Clients, List(c) PROVE Goal
  <2>1. /\ inbox[c] # <<>> /\ asked[c].op = "List"
        /\ UNCHANGED <<clientSide, Tracked, Listed>>
        /\ Reply(c, Service!Done(Tracked \cup Listed, {}, {}))
      BY <1>6, HandledIsAsked, SameList DEF List
  <2>2. Service!Outcome(asked[c], Service!Done(Tracked \cup Listed, {}, {}))
      BY <2>1 DEF Service!Outcome, Service!Allowed
  <2> QED BY <1>0, <1>a, <2>1, <2>2, ReplyIsEffect, DoneIsAnswer
<1>7. ASSUME NEW c \in Clients, RefuseUnknown(c) PROVE Goal
  <2>1. /\ inbox[c] # <<>> /\ UNCHANGED <<clientSide, Tracked, Listed>>
        /\ Reply(c, Service!Refused)
      BY <1>7, HandledIsAsked, SameList DEF RefuseUnknown
  <2> QED BY <1>a, <2>1, ReplyIsEffect, RefusalIsOutcome, RefusedIsAnswer
<1>8. ASSUME NEW c \in Clients, Validate(c) PROVE Goal
  <2>1. /\ inbox[c] # <<>> /\ asked[c].op = "Validate" /\ UNCHANGED clientSide
        /\ Reply(c, Service!Done({}, {}, Tracked \ onDisk))
      BY <1>8, HandledIsAsked DEF Validate
  <2>2. UNCHANGED Listed /\ Tracked' = Tracked \ (Tracked \ onDisk)
      BY <1>8 DEF Validate, ValidateAndCleanup, Restrict, Tracked, Listed
  <2>3. Service!Outcome(asked[c], Service!Done({}, {}, Tracked \ onDisk))
    <3> DEFINE gone == Tracked \ onDisk
    <3>1. Service!Allowed(asked[c], {}, gone)
        BY <2>1 DEF Service!Allowed
    <3>2. gone \in SUBSET Paths /\ gone \subseteq Tracked \cup {}
        BY <1>0
    <3>3. Tracked' = (Tracked \cup {}) \ gone
        BY <2>2
    <3> HIDE DEF gone
    <3>4. Service!Outcome(asked[c], Service!Done(
              IF asked[c].op \in {"List", "Health"} THEN Tracked \cup Listed ELSE {}, {}, gone))
        BY <3>1, <3>2, <3>3, DoneIsOutcome
    <3> QED BY <2>1, <3>4 DEF gone
  <2> QED BY <1>0, <1>a, <2>1, <2>2, <2>3, ReplyIsEffect, DoneIsAnswer
<1>9. ASSUME NEW c \in Clients, AddSocket(c) PROVE Goal
  <2> DEFINE p == asked[c].path
  <2>1. /\ inbox[c] # <<>> /\ Head(inbox[c]) = asked[c] /\ asked[c].op = "Add"
        /\ UNCHANGED clientSide
      BY <1>9, HandledIsAsked DEF AddSocket
  <2>2. p \in Paths
      BY <1>0, <2>1 DEF Requests, Service!Requests
  <2>3. CASE p \in onDisk /\ ~ IsWatched(p) /\ ~ IsConfigured(p)
    <3>1. AddWatched(p) /\ Reply(c, Service!Done({}, {p}, {}))
        BY <1>9, <2>1, <2>3 DEF AddSocket
    <3>2. UNCHANGED Listed /\ Tracked' = Tracked \cup {p}
        BY <3>1 DEF AddWatched, Tracked, Listed
    <3>3. p \notin Tracked \cup Listed
        BY <2>3 DEF IsWatched, IsConfigured, Tracked, Listed, ToSet
    <3>4. Service!Outcome(asked[c], Service!Done({}, {p}, {}))
      <4>1. Service!Allowed(asked[c], {p}, {})
          BY <2>1, <3>2, <3>3 DEF Service!Allowed
      <4> QED BY <2>1, <2>2, <3>2, <4>1, DoneIsOutcome
    <3> QED BY <1>a, <2>1, <2>2, <3>1, <3>2, <3>4, ReplyIsEffect, DoneIsAnswer
  <2>4. CASE ~ (p \in onDisk /\ ~ IsWatched(p) /\ ~ IsConfigured(p))
    <3>1. Reply(c, Service!Refused) /\ UNCHANGED <<Tracked, Listed>>
        BY <1>9, <2>1, <2>4, SameList DEF AddSocket
    <3> QED BY <1>a, <2>1, <3>1, ReplyIsEffect, RefusalIsOutcome, RefusedIsAnswer
  <2> QED BY <2>3, <2>4
<1>10. ASSUME NEW c \in Clients, RemoveSocket(c) PROVE Goal
  <2> DEFINE p == asked[c].path
  <2>1. /\ inbox[c] # <<>> /\ Head(inbox[c]) = asked[c] /\ asked[c].op = "Remove"
        /\ UNCHANGED clientSide
      BY <1>10, HandledIsAsked DEF RemoveSocket
  <2>2. p \in Paths
      BY <1>0, <2>1 DEF Requests, Service!Requests
  <2>3. CASE IsWatched(p) /\ ~ IsConfigured(p)
    <3>1. RemoveWatched(p) /\ Reply(c, Service!Done({}, {}, {p}))
        BY <1>10, <2>1, <2>3 DEF RemoveSocket
    <3>2. UNCHANGED Listed /\ Tracked' = Tracked \ {p} /\ p \in Tracked
        BY <3>1 DEF RemoveWatched, Restrict, IsWatched, Tracked, Listed
    <3>3. p \notin Listed
        BY <2>3 DEF IsConfigured, Listed, ToSet
    <3>4. Service!Outcome(asked[c], Service!Done({}, {}, {p}))
      <4>1. Service!Allowed(asked[c], {}, {p})
          BY <2>1, <3>2, <3>3 DEF Service!Allowed
      <4> QED BY <2>1, <2>2, <3>2, <4>1, DoneIsOutcome
    <3> QED BY <1>a, <2>1, <2>2, <3>1, <3>2, <3>4, ReplyIsEffect, DoneIsAnswer
  <2>4. CASE ~ (IsWatched(p) /\ ~ IsConfigured(p))
    <3>1. Reply(c, Service!Refused) /\ UNCHANGED <<Tracked, Listed>>
        BY <1>10, <2>1, <2>4, SameList DEF RemoveSocket
    <3> QED BY <1>a, <2>1, <3>1, ReplyIsEffect, RefusalIsOutcome, RefusedIsAnswer
  <2> QED BY <2>3, <2>4
<1>11. ASSUME NEW c \in Clients, ReloadBegins(c) PROVE Goal
  <2>1. UNCHANGED <<clientSide, Tracked, Listed>>
      BY <1>11, SameList DEF ReloadBegins
  <2>2. CASE WatchEnabled
      BY <1>11, <1>b, <2>1, <2>2 DEF ReloadBegins, wire, clientSide
  <2>3. CASE ~ WatchEnabled
    <3>1. inbox[c] # <<>> /\ Reply(c, Service!Refused)
        BY <1>11, <2>3 DEF ReloadBegins, Handles
    <3> QED BY <1>a, <2>1, <3>1, ReplyIsEffect, RefusalIsOutcome, RefusedIsAnswer
  <2> QED BY <2>2, <2>3
<1>12. ASSUME NEW c \in Clients, NEW p \in Forwarded, ReloadReads(c, p) PROVE Goal
    BY <1>12, <1>b, SameList DEF ReloadReads, wire, clientSide
<1>13. ASSUME NEW c \in Clients, ReloadEnds(c) PROVE Goal
  <2> DEFINE new == seen[c] \ Tracked
             gone == (Tracked \cup seen[c]) \ onDisk
  <2>1. /\ inbox[c] # <<>> /\ asked[c].op = "Reload" /\ UNCHANGED clientSide
        /\ Reply(c, Service!Done({}, new, gone))
      BY <1>13 DEF ReloadEnds, AtomicInv, ControlInv, HasRequest, InProgress
  <2>2. UNCHANGED Listed /\ Tracked' = (Tracked \cup seen[c]) \cap onDisk
      BY <1>13 DEF ReloadEnds, Tracked, Listed
  <2>3. new \in SUBSET Paths /\ gone \in SUBSET Paths
      BY <1>0
  <2>4. Tracked' = (Tracked \cup new) \ gone /\ gone \subseteq Tracked \cup new
      BY <2>2
  <2>5. Service!Outcome(asked[c], Service!Done({}, new, gone))
    <3>1. Service!Allowed(asked[c], new, gone)
        BY <2>1 DEF Service!Allowed
    <3> HIDE DEF new, gone
    <3> QED BY <2>1, <2>3, <2>4, <3>1, DoneIsOutcome
  <2>6. Service!Done({}, new, gone) \in Answers
      BY <2>3, DoneIsAnswer
  <2> QED BY <1>a, <2>1, <2>2, <2>5, <2>6, ReplyIsEffect
<1>14. ASSUME NEW c \in Clients, ReloadFails(c) PROVE Goal
  <2>1. /\ inbox[c] # <<>> /\ UNCHANGED <<clientSide, Tracked, Listed>>
        /\ Reply(c, Service!Refused)
      BY <1>14, SameList DEF ReloadFails, AtomicInv, ControlInv, HasRequest
  <2> QED BY <1>a, <2>1, ReplyIsEffect, RefusalIsOutcome, RefusedIsAnswer
<1>15. ASSUME NEW c \in Clients, HealthBegins(c) PROVE Goal
    BY <1>15, <1>b, SameList DEF HealthBegins, wire, clientSide
<1>16. ASSUME NEW c \in Clients, NEW p \in Clogged, HealthLooks(c, p) PROVE Goal
    BY <1>16, <1>b, SameList DEF HealthLooks, wire, clientSide
<1>17. ASSUME NEW c \in Clients, HealthEnds(c) PROVE Goal
  <2>1. /\ inbox[c] # <<>> /\ asked[c].op = "Health" /\ seen[c] = Tracked \cup Listed
        /\ UNCHANGED clientSide
        /\ Reply(c, Service!Done(Tracked \cup Listed, {}, Tracked \ onDisk))
      BY <1>17 DEF HealthEnds, AtomicInv, ControlInv, HasRequest, InProgress
  <2>2. UNCHANGED Listed /\ Tracked' = Tracked \ (Tracked \ onDisk)
      BY <1>17 DEF HealthEnds, ValidateAndCleanup, Restrict, Tracked, Listed
  <2>3. Service!Outcome(asked[c], Service!Done(Tracked \cup Listed, {}, Tracked \ onDisk))
    <3> DEFINE gone == Tracked \ onDisk
    <3>1. Service!Allowed(asked[c], {}, gone)
        BY <2>1 DEF Service!Allowed
    <3>2. gone \in SUBSET Paths /\ gone \subseteq Tracked \cup {}
        BY <1>0
    <3>3. Tracked' = (Tracked \cup {}) \ gone
        BY <2>2
    <3> HIDE DEF gone
    <3>4. Service!Outcome(asked[c], Service!Done(
              IF asked[c].op \in {"List", "Health"} THEN Tracked \cup Listed ELSE {}, {}, gone))
        BY <3>1, <3>2, <3>3, DoneIsOutcome
    <3> QED BY <2>1, <3>4 DEF gone
  <2> QED BY <1>0, <1>a, <2>1, <2>2, <2>3, ReplyIsEffect, DoneIsAnswer
<1>18. CASE Elsewhere
  <2>1. Calls' = Calls
      BY <1>18, CallsStay DEF Elsewhere, clientSide, wire
  <2>2. Tracked' \subseteq Paths /\ Listed' \subseteq Paths
      BY ManagerAssumption
        DEF ManagerAssumption, ControlTypeOK, ManagerTypeOK, Tracked, Listed, ToSet
  <2>3. Service!World
      BY <2>1, <2>2 DEF Service!World, Calls
  <2> QED BY <2>3 DEF Service!ServiceNext
<1>19. CASE UNCHANGED controlVars
    BY <1>19, <1>b, SameList DEF controlVars
<1>20. ASSUME NEW c \in Clients, HangUp(c) PROVE Goal
  <2>1. /\ inbox[c] # <<>> /\ asked[c].op = "Garbled"
        /\ UNCHANGED <<asked, outbox, Tracked, Listed>>
      BY <1>20, HandledIsAsked, SameList DEF HangUp
  <2>2. asked[c] = [op |-> "Garbled"]
      BY <1>0, <2>1 DEF Requests, Service!Requests
  <2>3. inbox'[c] = <<>> /\ client'[c] = "gone"
      BY <1>0, <1>20 DEF HangUp
  <2>4. CallOf(c)' = Service!Closed
      BY <2>3 DEF CallOf, Service!Closed
  <2>5. \A k \in Clients \ {c} : CallOf(k)' = CallOf(k)
      BY <1>0, <1>20, SameCall DEF HangUp
  <2>6. Service!MovesTo(c, Service!Closed)
      BY <2>4, <2>5, CallMoves
  <2>7. client[c] \in {"waiting", "gone"}
      BY <1>0, <2>1 DEF AtomicInv, OneAtATime
  <2>8. CASE client[c] = "waiting"
    <3>1. outbox[c] = <<>>
        BY <2>1, <2>8 DEF AtomicInv, OneAtATime
    <3>2. CallOf(c) = Service!Called([op |-> "Garbled"])
        BY <2>2, <2>8, <3>1 DEF CallOf, Service!Called
    <3>3. Service!GiveUp(c)
        BY <2>1, <2>6, <3>2 DEF Service!GiveUp
    <3> QED BY <3>3 DEF Service!ServiceNext
  <2>9. CASE client[c] = "gone"
    <3>1. CallOf(c) = Service!Abandoned(asked[c])
        BY <2>1, <2>9 DEF CallOf, Service!Abandoned
    <3>2. Calls[c].at = "abandoned" /\ Calls[c].request = asked[c]
        BY <3>1 DEF Calls, Service!Abandoned
    <3>3. \E a \in [ok : BOOLEAN, shown : SUBSET Paths, added : SUBSET Paths,
                    removed : SUBSET Paths] : Service!Outcome(asked[c], a)
        BY <2>1, RefusalIsOutcome, RefusedIsAnswer DEF Answers
    <3>4. Service!Effect(c)
        BY <2>1, <2>6, <3>2, <3>3 DEF Service!Effect, Calls
    <3> QED BY <1>a, <3>4
  <2> QED BY <2>7, <2>8, <2>9
<1>21. ASSUME NEW c \in Clients, NEW p \in Clogged, HealthReturns(c, p) PROVE Goal
    BY <1>21, <1>b, SameList DEF HealthReturns, wire, clientSide
<1>22. ASSUME (\E p \in Clogged : SessionDials(p)) \/ DialReturns PROVE Goal
    BY <1>22, <1>b, SameList DEF SessionDials, DialReturns, wire, clientSide
<1> QED
    BY <1>1, <1>2, <1>3, <1>4, <1>5, <1>6, <1>7, <1>8, <1>9, <1>10, <1>11, <1>12, <1>13,
       <1>14, <1>15, <1>16, <1>17, <1>18, <1>19, <1>20, <1>21, <1>22 DEF ControlNext, Serve

(* The control socket implements ControlService as long as every client ends *)
(* its connection after a timeout, which the commands do: each answer tells  *)
(* what one step of the manager found and did for that request.  Were there  *)
(* a Stubborn one, a late answer would be taken for the next request's.      *)
THEOREM AtomicControl ==
    ASSUME Stubborn = {}
    PROVE  ControlSpec => AtomicCalls
<1>1. ControlInit => Service!ServiceInit
  <2> SUFFICES ASSUME ControlInit PROVE Service!ServiceInit
      OBVIOUS
  <2>1. Tracked \subseteq Paths /\ Listed \subseteq Paths
      BY ControlInitType, TrackedArePaths DEF ControlInv, ControlTypeOK
  <2>2. \A c \in Clients : CallOf(c) = Service!Idle
      BY DEF ControlInit, CallOf, Service!Idle
  <2> QED BY <2>1, <2>2 DEF Service!ServiceInit
<1>2. AtomicInv /\ [ControlNext]_controlVars => [Service!ServiceNext]_(Service!serviceVars)
  <2> SUFFICES ASSUME AtomicInv, [ControlNext]_controlVars
               PROVE  [Service!ServiceNext]_(Service!serviceVars)
      OBVIOUS
  <2>1. ControlTypeOK'
      BY ControlStepType DEF AtomicInv, ControlInv
  <2> QED BY <2>1, AtomicSimulation
<1>3. AtomicInv /\ [ControlNext]_controlVars => AtomicInv'
    BY AtomicPreserved
<1> QED BY <1>1, <1>2, <1>3, AtomicInit, PTL DEF ControlSpec, AtomicCalls, Service!ServiceSpec
=============================================================================
