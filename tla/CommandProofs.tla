---------------------------- MODULE CommandProofs ----------------------------
(***************************************************************************)
(* Proofs about the commands of SiegeniaClient: the queue of the lock, the *)
(* futures, and the login that comes first on a socket.                    *)
(***************************************************************************)
EXTENDS SiegeniaClientProofs, FunctionTheorems, FiniteSetTheorems

-----------------------------------------------------------------------------
(* The invariant of the commands.                                          *)

\* Who is in async_command is in the queue of the lock, once.
Queue ==
    /\ Distinct(lock)
    /\ Members(lock) = {t \in Tasks : call[t] # "idle"}

\* No two commands have the same id.
OwnIds ==
    /\ \A t \in Tasks : call[t] = "idle" <=> id[t] = NoId
    /\ \A t, u \in Tasks : id[t] = id[u] /\ id[t] # NoId => t = u

Commands == Queue /\ OwnIds /\ Serialised /\ OwnAnswer

\* The client's own tasks have one command at a time as well.
Posts ==
    /\ call["keepalive"] # "idle" => keepalive \in {"command", "cancelling"}
    /\ call["login"] # "idle" => driver \in {"login", "cancelled"}

\* A command that outlives its socket is known to.
Abandoned == ws = "none" => \A t \in Tasks : call[t] = "queued" => t \in stale

\* Who is in front of a login in the queue will not send any more.
LoginLeads ==
    driver = "login" =>
        /\ call["login"] # "idle"
        /\ atDoor \subseteq {id["login"]}
        /\ \A t \in Tasks : Before(lock, t, "login") => t \in stale \/ call[t] = "resolved"

CommandInv == Commands /\ Posts /\ Abandoned /\ LoginLeads

-----------------------------------------------------------------------------
(* What the parts of async_command do to it.                               *)

LEMMA NextIdIsNew ==
    ASSUME CallTypeOK, Ids \ InUse # {}
    PROVE  NextId \in Ids /\ NextId # NoId /\ \A t \in Tasks : id[t] # NextId
<1>1. NextId \in Ids \ InUse
  BY DEF NextId
<1> QED BY <1>1, IdsAssumption DEF InUse, NoId

LEMMA RequestCommands ==
    ASSUME CallTypeOK, Commands, NEW t \in Tasks, call[t] = "idle", Request(t)
    PROVE  Commands'
<1> USE DEF CallTypeOK
<1>1. NextId \in Ids /\ NextId # NoId /\ \A u \in Tasks : id[u] # NextId
  BY NextIdIsNew DEF Request
<1>2. t \notin Members(lock)
  BY DEF Commands, Queue
<1>3. /\ id' = [id EXCEPT ![t] = NextId]
      /\ lock' = Append(lock, t)
      /\ answer' = answer
      /\ \A u \in Tasks \ {t} : call'[u] = call[u]
      /\ call'[t] = IF lock = <<>> THEN "waiting" ELSE "queued"
      /\ pending' = IF lock = <<>> THEN pending \cup {NextId} ELSE pending
  BY DEF Request
<1>4. /\ Distinct(lock')
      /\ Members(lock') = Members(lock) \cup {t}
      /\ lock' # <<>>
      /\ Head(lock') = IF lock = <<>> THEN t ELSE Head(lock)
  <2>1. lock \in Seq(Tasks) /\ Distinct(lock)
    BY DEF Commands, Queue
  <2> QED BY <1>2, <1>3, <2>1, AppendQueue
<1>5. Queue'
  BY <1>3, <1>4 DEF Commands, Queue
<1>6. OwnIds'
  BY <1>1, <1>3 DEF Commands, OwnIds
<1>7. Serialised'
  <2>1. lock = <<>> => \A u \in Tasks : call[u] = "idle"
    BY DEF Commands, Queue, Members
  <2>2. ASSUME NEW u \in Tasks, call'[u] \in {"waiting", "resolved"}
        PROVE  lock' # <<>> /\ u = Head(lock')
    BY <1>3, <1>4, <2>1, <2>2 DEF Commands, Serialised
  <2>3. pending' = {id'[u] : u \in {v \in Tasks : call'[v] = "waiting"}}
    <3>1. CASE lock = <<>>
      BY <1>3, <2>1, <3>1 DEF Commands, Serialised
    <3>2. CASE lock # <<>>
      <4>1. {v \in Tasks : call'[v] = "waiting"} = {v \in Tasks : call[v] = "waiting"}
        BY <1>3, <3>2
      <4>2. \A v \in Tasks : call[v] = "waiting" => id'[v] = id[v]
        BY <1>3
      <4> QED BY <1>3, <3>2, <4>1, <4>2 DEF Commands, Serialised
    <3> QED BY <3>1, <3>2
  <2> QED BY <2>2, <2>3 DEF Serialised
<1>8. OwnAnswer'
  BY <1>3 DEF Commands, OwnAnswer
<1> QED BY <1>5, <1>6, <1>7, <1>8 DEF Commands

LEMMA FinishCommands ==
    ASSUME CallTypeOK, Commands, NEW t \in Tasks, call[t] # "idle", Finish(t)
    PROVE  Commands'
<1> USE DEF CallTypeOK
<1>1. t \in Members(lock)
  BY DEF Commands, Queue
<1>2. /\ id' = [id EXCEPT ![t] = NoId]
      /\ call' = [call EXCEPT ![t] = "idle"]
      /\ lock' = Without(lock, t)
      /\ answer' = [answer EXCEPT ![t] = NoAnswer]
      /\ pending' = pending \ {id[t]}
  BY DEF Finish
<1>3. /\ Distinct(lock')
      /\ Members(lock') = Members(lock) \ {t}
      /\ Head(lock) # t => lock' # <<>> /\ Head(lock') = Head(lock)
  BY <1>1, <1>2, WithoutQueue DEF Commands, Queue
<1>4. Queue'
  BY <1>2, <1>3 DEF Commands, Queue
<1>5. OwnIds'
  BY <1>2 DEF Commands, OwnIds
<1>6. Serialised'
  <2>1. \A u \in Tasks : call'[u] \in {"waiting", "resolved"} =>
                             lock' # <<>> /\ u = Head(lock')
    BY <1>2, <1>3 DEF Commands, Serialised
  <2>2. \A u \in Tasks : u # t /\ call[u] # "idle" => id[u] # id[t] /\ id'[u] = id[u]
    BY <1>2 DEF Commands, OwnIds
  <2>3. {v \in Tasks : call'[v] = "waiting"} = {v \in Tasks : call[v] = "waiting"} \ {t}
    BY <1>2
  <2>4. pending' = {id'[u] : u \in {v \in Tasks : call'[v] = "waiting"}}
    BY <1>2, <2>2, <2>3 DEF Commands, Serialised
  <2> QED BY <2>1, <2>4 DEF Serialised
<1>7. OwnAnswer'
  BY <1>2 DEF Commands, OwnAnswer
<1> QED BY <1>4, <1>5, <1>6, <1>7 DEF Commands

LEMMA FailPendingCommands ==
    ASSUME CallTypeOK, Commands, FailPending, UNCHANGED <<id, lock>>
    PROVE  /\ Commands'
           /\ \A t \in Tasks : call'[t] = IF call[t] = "waiting" THEN "resolved" ELSE call[t]
<1> USE DEF CallTypeOK
<1>1. \A t \in Tasks : id[t] \in pending <=> call[t] = "waiting"
  BY IdsAssumption DEF Commands, Serialised, OwnIds, NoId
<1>2. \A t \in Tasks : call'[t] = IF call[t] = "waiting" THEN "resolved" ELSE call[t]
  BY <1>1 DEF FailPending
<1>3. \A t \in Tasks : answer'[t] = IF call[t] = "waiting"
                                    THEN [to |-> id[t], status |-> "lost"] ELSE answer[t]
  BY <1>1 DEF FailPending
<1>4. Queue' /\ OwnIds'
  BY <1>2 DEF Commands, Queue, OwnIds
<1>5. Serialised'
  BY <1>2 DEF Commands, Serialised, FailPending
<1>6. OwnAnswer'
  <2> SUFFICES ASSUME NEW t \in Tasks, call'[t] = "resolved" PROVE answer'[t].to = id'[t]
    BY DEF OwnAnswer
  <2>1. CASE call[t] = "waiting"
    <3>1. answer'[t] = [to |-> id[t], status |-> "lost"] /\ id' = id
      BY <1>3, <2>1
    <3> QED BY <3>1
  <2>2. CASE call[t] # "waiting"
    BY <1>2, <1>3, <2>2 DEF Commands, OwnAnswer
  <2> QED BY <2>1, <2>2
<1> QED BY <1>2, <1>4, <1>5, <1>6 DEF Commands

LEMMA ReplyCommands ==
    ASSUME CallTypeOK, Commands, NEW i \in Ids, NEW s, Reply(i, s)
    PROVE  /\ Commands'
           /\ \A t \in Tasks : call'[t] = IF call[t] = "waiting" /\ id[t] = i
                                          THEN "resolved" ELSE call[t]
<1> USE DEF CallTypeOK
<1>1. UNCHANGED <<id, lock>> /\ pending' = pending \ {i}
  BY DEF Reply
<1>2. \A t \in Tasks : Awaits(t, i) <=> call[t] = "waiting" /\ id[t] = i
  BY IdsAssumption DEF Awaits, Commands, Serialised, OwnIds, NoId
<1>3. \A t \in Tasks : call'[t] = IF Awaits(t, i) THEN "resolved" ELSE call[t]
  BY DEF Reply
<1>4. \A t \in Tasks : answer'[t] = IF Awaits(t, i) THEN [to |-> i, status |-> s] ELSE answer[t]
  BY DEF Reply
<1>5. Queue' /\ OwnIds'
  BY <1>1, <1>2, <1>3 DEF Commands, Queue, OwnIds
<1>6. Serialised'
  BY <1>1, <1>2, <1>3 DEF Commands, Serialised
<1>7. OwnAnswer'
  <2> SUFFICES ASSUME NEW t \in Tasks, call'[t] = "resolved" PROVE answer'[t].to = id'[t]
    BY DEF OwnAnswer
  <2>1. CASE Awaits(t, i)
    BY <1>1, <1>2, <1>4, <2>1
  <2>2. CASE ~Awaits(t, i)
    BY <1>1, <1>3, <1>4, <2>2 DEF Commands, OwnAnswer
  <2> QED BY <2>1, <2>2
<1> QED BY <1>2, <1>3, <1>5, <1>6, <1>7 DEF Commands

-----------------------------------------------------------------------------
(* Every step keeps it.                                                    *)

\* A new socket finds nobody who could send on it.
LEMMA NobodyAhead ==
    ASSUME IInv, CommandInv, driver = "opening"
    PROVE  /\ ws = "none" /\ pending = {} /\ atDoor = {}
           /\ call["login"] = "idle"
           /\ \A t \in Tasks : call[t] # "waiting"
           /\ \A t \in Members(lock) : t \in stale \/ call[t] = "resolved"
<1> USE DEF IInv, CallTypeOK, CommandInv
<1>1. ws = "none" /\ pending = {} /\ atDoor = {}
  BY DEF Control, Socket, Requests, NotClosed
<1>2. call["login"] = "idle"
  BY DEF Posts
<1>3. \A t \in Tasks : call[t] # "waiting"
  <2>1. \A t \in Tasks : call[t] = "waiting" => id[t] \in pending
    BY DEF Commands, Serialised
  <2> QED BY <1>1, <2>1
<1>4. \A t \in Members(lock) : t \in Tasks /\ call[t] # "idle"
  BY DEF Commands, Queue
<1> QED BY <1>1, <1>2, <1>3, <1>4 DEF Abandoned

LEMMA CommandsStep == IInv /\ CommandInv /\ Next => Commands'
<1> SUFFICES ASSUME IInv, CommandInv, Next PROVE Commands'
  OBVIOUS
<1> USE DEF IInv, CommandInv
<1>a. "login" \in Tasks /\ "keepalive" \in Tasks /\ Callers \subseteq Tasks
  BY DEF Tasks
<1>b. ASSUME UNCHANGED <<call, id, answer, pending, lock>> PROVE Commands'
  BY <1>b DEF Commands, Queue, OwnIds, Serialised, OwnAnswer
<1>1. ASSUME NEW i \in Ids, NEW s \in Statuses, Reply(i, s) PROVE Commands'
  BY <1>1, ReplyCommands
<1>2. ASSUME NEW t \in Tasks, Acquire(t) PROVE Commands'
  <2> USE DEF CallTypeOK
  <2>1. \A u \in Tasks : call[u] \notin {"waiting", "resolved"} \/ u = t
    BY <1>2 DEF Acquire, HasTurn, Commands, Serialised
  <2>2. /\ call' = [call EXCEPT ![t] = "waiting"] /\ pending' = pending \cup {id[t]}
        /\ UNCHANGED <<id, answer, lock>>
        /\ call[t] = "queued" /\ lock # <<>> /\ Head(lock) = t
    BY <1>2 DEF Acquire, HasTurn
  <2>3. Queue' /\ OwnIds' /\ OwnAnswer'
    BY <2>2 DEF Commands, Queue, OwnIds, OwnAnswer
  <2>4. Serialised'
    BY <2>1, <2>2 DEF Commands, Serialised
  <2> QED BY <2>3, <2>4 DEF Commands
<1>3. ASSUME NEW c \in Callers, Caller(c) PROVE Commands'
  <2>1. CASE CallerAsks(c)
    BY <2>1, <1>a, RequestCommands DEF CallerAsks
  <2>2. CASE CallerReturns(c) \/ CallerCancelled(c)
    BY <2>2, <1>a, FinishCommands DEF CallerReturns, CallerCancelled, Succeeds, Fails, HasTurn
  <2> QED BY <1>3, <2>1, <2>2 DEF Caller
<1>4. ASSUME Takeover \/ Drop \/ Silence PROVE Commands'
  BY <1>4, <1>b DEF Takeover, Drop, Silence, callVars
<1>5. ASSUME ReceiverEnds PROVE Commands'
  BY <1>5, FailPendingCommands DEF ReceiverEnds, Leave
<1>6. ASSUME Keepalive PROVE Commands'
  <2>1. CASE KeepaliveTick
    <3>1. call["keepalive"] = "idle"
      BY <2>1 DEF KeepaliveTick, Posts
    <3> QED BY <2>1, <3>1, <1>a, <1>b, RequestCommands DEF KeepaliveTick, callVars
  <2>2. CASE KeepaliveSucceeds \/ KeepaliveFails
    BY <2>2, <1>a, FinishCommands DEF KeepaliveSucceeds, KeepaliveFails, Succeeds, Fails, HasTurn
  <2>3. CASE KeepaliveCloses
    BY <2>3, <1>b DEF KeepaliveCloses
  <2>4. CASE KeepaliveCancelled
    BY <2>4, <1>a, <1>b, FinishCommands DEF KeepaliveCancelled, callVars
  <2> QED BY <1>6, <2>1, <2>2, <2>3, <2>4 DEF Keepalive
<1>7. ASSUME Driver PROVE Commands'
  <2>1. CASE ConnectSucceeds
    BY <2>1, <1>a, NobodyAhead, RequestCommands DEF ConnectSucceeds
  <2>2. CASE LoginSucceeds \/ LoginFails
    BY <2>2, <1>a, FinishCommands DEF LoginSucceeds, LoginFails, Succeeds, Fails, HasTurn
  <2>3. CASE DriverCancelled
    BY <2>3, <1>a, <1>b, FinishCommands DEF DriverCancelled, callVars
  <2>4. CASE Start \/ ConnectFails \/ SupervisorWakes \/ BackoffElapsed
    BY <2>4, <1>b DEF Start, ConnectFails, SupervisorWakes, BackoffElapsed, callVars
  <2> QED BY <1>7, <2>1, <2>2, <2>3, <2>4 DEF Driver
<1>8. ASSUME Close PROVE Commands'
  <2>1. CASE CloseDone
    BY <2>1, FailPendingCommands DEF CloseDone
  <2>2. CASE KeepaliveJoined \/ SocketClosed
    BY <2>2, <1>b DEF KeepaliveJoined, SocketClosed, callVars
  <2> QED BY <1>8, <2>1, <2>2 DEF Close
<1>9. ASSUME Stop \/ StopJoined PROVE Commands'
  BY <1>9, <1>b DEF Stop, StopJoined, callVars
<1> QED BY <1>1, <1>2, <1>3, <1>4, <1>5, <1>6, <1>7, <1>8, <1>9 DEF Next, Door

\* Who leaves async_command is idle, and the order of the others is the same.
LEMMA FinishOrder ==
    ASSUME IInv, CommandInv, NEW t \in Tasks, call[t] # "idle", Finish(t)
    PROVE  /\ \A u \in Tasks : call'[u] = IF u = t THEN "idle" ELSE call[u]
           /\ stale' = stale \ {t} /\ atDoor' \subseteq atDoor
           /\ \A u \in Tasks : u # t => id'[u] = id[u]
           /\ \A u, v : Before(lock', u, v) => Before(lock, u, v) /\ u \in Members(lock')
<1> USE DEF IInv, CallTypeOK, CommandInv
<1>1. lock' = Without(lock, t) /\ Distinct(lock) /\ t \in Members(lock)
  BY DEF Finish, Commands, Queue
<1>2. \A u, v : Before(lock', u, v) => Before(lock, u, v)
  BY <1>1, WithoutQueue
<1>3. \A u, v : Before(lock', u, v) => u \in Members(lock')
  BY BeforeIsMember
<1> QED BY <1>2, <1>3 DEF Finish

\* A new command is the last in the queue.
LEMMA RequestOrder ==
    ASSUME IInv, CommandInv, NEW t \in Tasks, call[t] = "idle", Request(t)
    PROVE  /\ \A u \in Tasks : u # t => call'[u] = call[u] /\ id'[u] = id[u]
           /\ call'[t] \in {"queued", "waiting"}
           /\ lock = <<>> => atDoor' = atDoor \cup {id'[t]}
           /\ lock # <<>> => atDoor' = atDoor
           /\ stale' = stale
           /\ \A u, v : Before(lock', u, v) =>
                  Before(lock, u, v) \/ (u \in Members(lock) /\ v = t)
<1> USE DEF IInv, CallTypeOK, CommandInv
<1>1. lock' = Append(lock, t) /\ Distinct(lock) /\ t \notin Members(lock)
  BY DEF Request, Commands, Queue
<1>2. \A u, v : Before(lock', u, v) => Before(lock, u, v) \/ (u \in Members(lock) /\ v = t)
  BY <1>1, AppendQueue
<1> QED BY <1>2 DEF Request

LEMMA PostsStep == IInv /\ CommandInv /\ Next => Posts'
<1> SUFFICES ASSUME IInv, CommandInv, Next PROVE Posts'
  OBVIOUS
<1> USE DEF IInv, TaskTypeOK, CallTypeOK, CommandInv, Posts
<1>a. "login" \in Tasks /\ "keepalive" \in Tasks /\ Callers \subseteq Tasks
      /\ "login" \notin Callers /\ "keepalive" \notin Callers
  BY CallersAssumption DEF Tasks
<1>b. ASSUME UNCHANGED <<call, keepalive, driver>> PROVE Posts'
  BY <1>b
<1>1. ASSUME NEW i \in Ids, NEW s \in Statuses, Reply(i, s) PROVE Posts'
  <2>1. call["login"] # "idle" \/ call'["login"] = "idle"
    BY <1>1, <1>a, ReplyCommands
  <2>2. call["keepalive"] # "idle" \/ call'["keepalive"] = "idle"
    BY <1>1, <1>a, ReplyCommands
  <2> QED BY <1>1, <2>1, <2>2 DEF Reply, driverVars
<1>2. ASSUME NEW t \in Tasks, Acquire(t) PROVE Posts'
  BY <1>2 DEF Acquire, HasTurn, driverVars
<1>3. ASSUME NEW c \in Callers, Caller(c) PROVE Posts'
  BY <1>3, <1>a DEF Caller, CallerAsks, CallerReturns, CallerCancelled, Request, Finish, driverVars
<1>4. ASSUME Takeover \/ Drop \/ Silence PROVE Posts'
  BY <1>4, <1>b DEF Takeover, Drop, Silence, driverVars, callVars
<1>5. ASSUME ReceiverEnds PROVE Posts'
  <2>1. \A t \in Tasks : call'[t] = IF call[t] = "waiting" THEN "resolved" ELSE call[t]
    BY <1>5, FailPendingCommands DEF ReceiverEnds, Leave
  <2> QED BY <1>5, <1>a, <2>1 DEF ReceiverEnds, driverVars
<1>6. ASSUME Keepalive PROVE Posts'
  BY <1>6, <1>a DEF Keepalive, KeepaliveTick, KeepaliveSucceeds, KeepaliveFails, GiveUp,
                    KeepaliveCloses, KeepaliveCancelled, Request, Finish, driverVars, callVars
<1>7. ASSUME Driver PROVE Posts'
  <2>1. CASE ConnectSucceeds
    BY <2>1, <1>a DEF ConnectSucceeds, Request
  <2>2. CASE LoginSucceeds \/ LoginFails
    BY <2>2, <1>a DEF LoginSucceeds, LoginFails, BeginClose, CloseSocket, Finish, Control,
                      KeepaliveLife
  <2>3. CASE DriverCancelled
    BY <2>3, <1>a DEF DriverCancelled, Finish, callVars
  <2>4. CASE Start \/ ConnectFails \/ BackoffElapsed
    BY <2>4 DEF Start, ConnectFails, BackoffElapsed, callVars
  <2>5. CASE SupervisorWakes
    BY <2>5 DEF SupervisorWakes, SessionLost, BeginClose, CloseSocket, callVars
  <2> QED BY <1>7, <2>1, <2>2, <2>3, <2>4, <2>5 DEF Driver
<1>8. ASSUME Close PROVE Posts'
  <2>1. CASE CloseDone
    <3>1. \A t \in Tasks : call'[t] = IF call[t] = "waiting" THEN "resolved" ELSE call[t]
      BY <2>1, FailPendingCommands DEF CloseDone
    <3>2. driver' = driver \/ driver \notin {"login", "cancelled"}
      BY <2>1 DEF CloseDone, driverVars, Control, Roles, OneCloser
    <3> QED BY <2>1, <3>1, <3>2, <1>a DEF CloseDone
  <2>2. CASE KeepaliveJoined \/ SocketClosed
    BY <2>2 DEF KeepaliveJoined, SocketClosed, driverVars, callVars
  <2> QED BY <1>8, <2>1, <2>2 DEF Close
<1>9. ASSUME Stop \/ StopJoined PROVE Posts'
  BY <1>9 DEF Stop, StopJoined, BeginClose, CloseSocket, Swallowed, driverVars, linkVars, callVars
<1> QED BY <1>1, <1>2, <1>3, <1>4, <1>5, <1>6, <1>7, <1>8, <1>9 DEF Next, Door

LEMMA AbandonedStep == IInv /\ CommandInv /\ Next => Abandoned'
<1> SUFFICES ASSUME IInv, CommandInv, Next, ws' = "none", NEW t \in Tasks, call'[t] = "queued"
             PROVE  t \in stale'
  BY DEF Abandoned
<1> USE DEF IInv, TaskTypeOK, CallTypeOK, CommandInv, Abandoned
<1>a. "login" \in Tasks /\ "keepalive" \in Tasks /\ Callers \subseteq Tasks
  BY DEF Tasks
<1>b. ASSUME UNCHANGED <<ws, stale>>, call[t] = "queued" PROVE t \in stale'
  BY <1>b
<1>1. ASSUME NEW i \in Ids, NEW s \in Statuses, Reply(i, s) PROVE t \in stale'
  BY <1>1, <1>b, ReplyCommands DEF Reply, linkVars
<1>2. ASSUME NEW u \in Tasks, Acquire(u) PROVE t \in stale'
  BY <1>2, <1>b DEF Acquire, linkVars
<1>3. ASSUME NEW c \in Callers, Caller(c) PROVE t \in stale'
  BY <1>3, <1>a DEF Caller, CallerAsks, CallerReturns, CallerCancelled, NotClosed, Finish, linkVars
<1>4. ASSUME Takeover \/ Drop \/ Silence PROVE t \in stale'
  BY <1>4, <1>b DEF Takeover, Drop, Silence, linkVars, callVars
<1>5. ASSUME ReceiverEnds PROVE t \in stale'
  BY <1>5, <1>b, FailPendingCommands DEF ReceiverEnds, Leave
<1>6. ASSUME Keepalive PROVE t \in stale'
  BY <1>6, <1>a DEF Keepalive, KeepaliveTick, KeepaliveSucceeds, KeepaliveFails, GiveUp,
                    KeepaliveCloses, KeepaliveCancelled, NotClosed, Finish, linkVars, callVars
<1>7. ASSUME Driver PROVE t \in stale'
  <2>1. CASE LoginSucceeds \/ LoginFails
    BY <2>1, <1>a DEF LoginSucceeds, LoginFails, BeginClose, CloseSocket, Finish, linkVars
  <2>2. CASE DriverCancelled
    BY <2>2, <1>a DEF DriverCancelled, Finish, linkVars, callVars
  <2>3. CASE ConnectSucceeds \/ Start \/ ConnectFails \/ BackoffElapsed
    BY <2>3, <1>b DEF ConnectSucceeds, Start, ConnectFails, BackoffElapsed, linkVars, callVars
  <2>4. CASE SupervisorWakes
    BY <2>4, <1>b DEF SupervisorWakes, SessionLost, BeginClose, CloseSocket, callVars
  <2> QED BY <1>7, <2>1, <2>2, <2>3, <2>4 DEF Driver
<1>8. ASSUME Close PROVE t \in stale'
  <2>1. CASE CloseDone
    BY <2>1, FailPendingCommands DEF CloseDone
  <2>2. CASE KeepaliveJoined \/ SocketClosed
    BY <2>2, <1>b DEF KeepaliveJoined, SocketClosed, CloseSocket, callVars
  <2> QED BY <1>8, <2>1, <2>2 DEF Close
<1>9. ASSUME Stop \/ StopJoined PROVE t \in stale'
  BY <1>9, <1>b DEF Stop, StopJoined, BeginClose, CloseSocket, linkVars, callVars
<1> QED BY <1>1, <1>2, <1>3, <1>4, <1>5, <1>6, <1>7, <1>8, <1>9 DEF Next, Door

LEMMA LoginLeadsStep == IInv /\ CommandInv /\ Next => LoginLeads'
<1> SUFFICES ASSUME IInv, CommandInv, Next, driver' = "login" PROVE LoginLeads'
  BY DEF LoginLeads
<1> USE DEF IInv, TaskTypeOK, CallTypeOK, CommandInv, LoginLeads
<1>a. "login" \in Tasks /\ "keepalive" \in Tasks /\ Callers \subseteq Tasks
      /\ "login" \notin Callers /\ "keepalive" \notin Callers
  BY CallersAssumption DEF Tasks
<1>b. driver = "login" => lock # <<>> /\ "login" \in Members(lock)
  BY <1>a DEF Commands, Queue, Members
<1>c. ASSUME UNCHANGED <<driver, call, id, lock, stale>>, atDoor' \subseteq atDoor PROVE LoginLeads'
  BY <1>c
<1>d. ASSUME driver = "login", NEW t \in Tasks, t # "login", call[t] # "idle", Finish(t)
      PROVE  LoginLeads'
  <2>1. /\ \A u \in Tasks : call'[u] = IF u = t THEN "idle" ELSE call[u]
        /\ stale' = stale \ {t} /\ atDoor' \subseteq atDoor
        /\ \A u \in Tasks : u # t => id'[u] = id[u]
        /\ \A u, v : Before(lock', u, v) => Before(lock, u, v) /\ u \in Members(lock')
    BY <1>d, FinishOrder
  <2>2. t \notin Members(lock')
    <3>1. Commands'
      BY <1>d, FinishCommands
    <3> QED BY <2>1, <3>1 DEF Commands, Queue
  <2> QED BY <1>a, <1>d, <2>1, <2>2
<1>e. ASSUME driver = "login", NEW t \in Tasks, t # "login", call[t] = "idle", Request(t)
      PROVE  LoginLeads'
  <2>1. /\ \A u \in Tasks : u # t => call'[u] = call[u] /\ id'[u] = id[u]
        /\ atDoor' = atDoor
        /\ stale' = stale
        /\ \A u, v : Before(lock', u, v) =>
               Before(lock, u, v) \/ (u \in Members(lock) /\ v = t)
    BY <1>b, <1>e, RequestOrder
  <2>2. \A u : Before(lock', u, "login") => Before(lock, u, "login") /\ u \in Members(lock)
    BY <1>e, <2>1, BeforeIsMember
  <2>3. t \notin Members(lock)
    BY <1>e DEF Commands, Queue
  <2> QED BY <1>a, <1>e, <2>1, <2>2, <2>3
<1>1. ASSUME NEW i \in Ids, NEW s \in Statuses, Reply(i, s) PROVE LoginLeads'
  <2>1. \A t \in Tasks : call'[t] = IF call[t] = "waiting" /\ id[t] = i
                                    THEN "resolved" ELSE call[t]
    BY <1>1, ReplyCommands
  <2> QED BY <1>1, <1>a, <2>1 DEF Reply, driverVars
<1>2. ASSUME NEW t \in Tasks, Acquire(t) PROVE LoginLeads'
  <2>1. driver = "login" /\ call[t] = "queued" /\ t \notin stale /\ lock # <<>> /\ Head(lock) = t
    BY <1>2 DEF Acquire, HasTurn, CanSend, driverVars
  <2>2. t = "login"
    <3>1. PICK j \in 1..Len(lock) : lock[j] = "login"
      BY <1>b, <2>1 DEF Members
    <3>2. CASE j = 1
      BY <2>1, <3>1, <3>2
    <3>3. CASE j # 1
      <4>1. 1 \in 1..Len(lock) /\ 1 < j /\ lock[1] = t
        BY <2>1, <3>1, <3>3
      <4>2. Before(lock, t, "login")
        BY <3>1, <4>1 DEF Before
      <4> QED BY <2>1, <4>2
    <3> QED BY <3>2, <3>3
  <2> QED BY <1>2, <1>a, <2>1, <2>2 DEF Acquire
<1>3. ASSUME NEW c \in Callers, Caller(c) PROVE LoginLeads'
  BY <1>3, <1>a, <1>d, <1>e DEF Caller, CallerAsks, CallerReturns, CallerCancelled, Succeeds,
                                Fails, HasTurn, driverVars
<1>4. ASSUME Takeover \/ Drop \/ Silence PROVE LoginLeads'
  BY <1>4, <1>c DEF Takeover, Drop, Silence, driverVars, callVars
<1>5. ASSUME ReceiverEnds PROVE LoginLeads'
  <2>1. \A t \in Tasks : call'[t] = IF call[t] = "waiting" THEN "resolved" ELSE call[t]
    BY <1>5, FailPendingCommands DEF ReceiverEnds, Leave
  <2> QED BY <1>5, <1>a, <2>1 DEF ReceiverEnds, driverVars
<1>6. ASSUME Keepalive PROVE LoginLeads'
  <2>1. driver # "login"
    <3>1. keepalive # "none"
      BY <1>6 DEF Keepalive, KeepaliveTick, KeepaliveSucceeds, KeepaliveFails,
                  KeepaliveCloses, KeepaliveCancelled
    <3> QED BY <3>1 DEF Control, KeepaliveLife
  <2> QED BY <1>6, <2>1 DEF Keepalive, KeepaliveTick, KeepaliveSucceeds, KeepaliveFails,
                  KeepaliveCloses, KeepaliveCancelled, driverVars
<1>7. ASSUME Driver PROVE LoginLeads'
  <2>1. ConnectSucceeds
    BY <1>7 DEF Driver, Start, ConnectFails, ConnectSucceeds, LoginSucceeds, LoginFails,
                SupervisorWakes, BackoffElapsed, DriverCancelled, TryAgain
  <2>2. /\ atDoor = {} /\ call["login"] = "idle"
        /\ \A t \in Members(lock) : t \in stale \/ call[t] = "resolved"
    BY <2>1, NobodyAhead DEF ConnectSucceeds
  <2>3. /\ \A u \in Tasks : u # "login" => call'[u] = call[u] /\ id'[u] = id[u]
        /\ call'["login"] \in {"queued", "waiting"}
        /\ atDoor' \subseteq {id'["login"]}
        /\ stale' = stale
        /\ \A u, v : Before(lock', u, v) => u \in Members(lock)
    <3>1. Request("login")
      BY <2>1 DEF ConnectSucceeds
    <3> QED BY <2>2, <3>1, <1>a, RequestOrder, BeforeIsMember
  <2>4. "login" \notin Members(lock)
    BY <2>2 DEF Commands, Queue
  <2> QED BY <2>2, <2>3, <2>4
<1>8. ASSUME Close PROVE LoginLeads'
  <2>1. CASE CloseDone
    BY <2>1 DEF CloseDone, TryAgain, driverVars, Control, Roles, OneCloser
  <2>2. CASE KeepaliveJoined \/ SocketClosed
    BY <2>2, <1>c DEF KeepaliveJoined, SocketClosed, driverVars, callVars
  <2> QED BY <1>8, <2>1, <2>2 DEF Close
<1>9. ASSUME Stop \/ StopJoined PROVE LoginLeads'
  BY <1>9, <1>c DEF Stop, StopJoined, driverVars, callVars
<1> QED BY <1>1, <1>2, <1>3, <1>4, <1>5, <1>6, <1>7, <1>8, <1>9 DEF Next, Door

\* The whole invariant of the commands.
THEOREM CommandInvariance == Spec => [](IInv /\ CommandInv)
<1>1. Init => CommandInv
  <2>1. Init => Commands
    BY IdsAssumption DEF Init, Commands, Queue, OwnIds, Serialised, OwnAnswer, Distinct, Members, NoId
  <2>2. Init => Posts /\ Abandoned /\ LoginLeads
    BY DEF Init, Posts, Abandoned, LoginLeads, Tasks
  <2> QED BY <2>1, <2>2 DEF CommandInv
<1>2. IInv /\ CommandInv /\ [Next]_vars => CommandInv'
  <2>1. CASE Next
    BY <2>1, CommandsStep, PostsStep, AbandonedStep, LoginLeadsStep DEF CommandInv
  <2>2. CASE UNCHANGED vars
    BY <2>2 DEF vars, CommandInv, Commands, Queue, OwnIds, Serialised, OwnAnswer,
                Posts, Abandoned, LoginLeads
  <2> QED BY <2>1, <2>2
<1> QED BY <1>1, <1>2, Invariance, PTL DEF Spec

-----------------------------------------------------------------------------
(* What follows from it.                                                   *)

\* "Commands are serialised", and a future is resolved only for the holder of
\* the lock (async_command).
THEOREM OneAtATime == Spec => []Serialised
<1>1. CommandInv => Serialised
  BY DEF CommandInv, Commands
<1> QED BY <1>1, CommandInvariance, PTL

\* A command never gets the answer to another request (_handle_message).
THEOREM AnswersAreOwn == Spec => []OwnAnswer
<1>1. CommandInv => OwnAnswer
  BY DEF CommandInv, Commands
<1> QED BY <1>1, CommandInvariance, PTL

\* While the login is out on a new socket (_async_connect), the door has no
\* other request of that socket to answer and nobody else waits for an answer,
\* whoever waits for the lock when the socket opens.  What is sent once the
\* login has failed, while the socket closes, or after a takeover is not
\* restricted.
THEOREM LoginIsFirst == Spec => []LoginFirst
<1>1. IInv /\ CommandInv => LoginFirst
  <2> SUFFICES ASSUME IInv, CommandInv, call["login"] = "waiting", driver = "login"
               PROVE  atDoor \subseteq {id["login"]} /\ pending = {id["login"]}
    BY DEF LoginFirst
  <2>1. atDoor \subseteq {id["login"]}
    BY DEF CommandInv, LoginLeads
  <2>2. {t \in Tasks : call[t] = "waiting"} = {"login"}
    BY DEF CommandInv, Commands, Serialised, Tasks
  <2>3. pending = {id["login"]}
    BY <2>2 DEF CommandInv, Commands, Serialised
  <2> QED BY <2>1, <2>3
<1> QED BY <1>1, CommandInvariance, PTL

-----------------------------------------------------------------------------
(* There are always enough ids: that the model reuses those nobody knows   *)
(* any more, where the code counts on for ever, makes no command wait.     *)

LateBounded == Cardinality(Late) <= MaxLate

LEMMA LateShrinks ==
    ASSUME CallTypeOK, LateBounded, Late' \subseteq Late
    PROVE  LateBounded'
<1>1. IsFiniteSet(Late)
  BY BoundAssumption, FS_Subset DEF CallTypeOK, Late
<1>2. Cardinality(Late') <= Cardinality(Late)
  BY <1>1, FS_Subset
<1>3. Cardinality(Late) \in Nat /\ Cardinality(Late') \in Nat
  BY <1>1, FS_Subset, FS_CardinalityType
<1> QED BY <1>2, <1>3, BoundAssumption DEF LateBounded

LEMMA LateGrows ==
    ASSUME CallTypeOK, NEW i, Late' \subseteq Late \cup {i}, Cardinality(Late) < MaxLate
    PROVE  LateBounded'
<1>1. IsFiniteSet(Late)
  BY BoundAssumption, FS_Subset DEF CallTypeOK, Late
<1>2. IsFiniteSet(Late \cup {i}) /\ Cardinality(Late \cup {i}) <= Cardinality(Late) + 1
  <2>1. Cardinality(Late) \in Nat
    BY <1>1, FS_CardinalityType
  <2>2. /\ IsFiniteSet(Late \cup {i})
        /\ Cardinality(Late \cup {i}) = IF i \in Late THEN Cardinality(Late)
                                        ELSE Cardinality(Late) + 1
    BY <1>1, FS_AddElement
  <2> QED BY <2>1, <2>2
<1>3. Cardinality(Late') <= Cardinality(Late \cup {i})
  BY <1>2, FS_Subset
<1>4. /\ Cardinality(Late) \in Nat /\ Cardinality(Late') \in Nat
      /\ Cardinality(Late \cup {i}) \in Nat
  BY <1>1, <1>2, FS_Subset, FS_CardinalityType
<1> QED BY <1>2, <1>3, <1>4, BoundAssumption DEF LateBounded

LEMMA RequestLate ==
    ASSUME CallTypeOK, LateBounded, NEW t \in Tasks, call[t] = "idle", Commands, Request(t)
    PROVE  LateBounded'
<1>1. id[t] = NoId /\ NoId \notin atDoor
  BY IdsAssumption DEF Commands, OwnIds, CallTypeOK, NoId
<1>2. id' = [id EXCEPT ![t] = NextId] /\ atDoor' \subseteq atDoor \cup {NextId}
  BY DEF Request
<1>3. Late' \subseteq Late
  BY <1>1, <1>2 DEF Late, CallTypeOK
<1> QED BY <1>3, LateShrinks

LEMMA FinishLate ==
    ASSUME CallTypeOK, LateBounded, NEW t \in Tasks, Finish(t)
    PROVE  LateBounded'
<1>1. id' = [id EXCEPT ![t] = NoId]
  BY DEF Finish
<1>2. CASE atDoor' = atDoor \ {id[t]}
  <2>1. Late' \subseteq Late
    BY <1>1, <1>2 DEF Late, CallTypeOK
  <2> QED BY <2>1, LateShrinks
<1>3. CASE atDoor' = atDoor /\ Cardinality(Late) < MaxLate
  <2>1. Late' \subseteq Late \cup {id[t]}
    BY <1>1, <1>3 DEF Late, CallTypeOK
  <2> QED BY <1>3, <2>1, LateGrows
<1> QED BY <1>2, <1>3 DEF Finish

LEMMA LateStep == IInv /\ CommandInv /\ LateBounded /\ Next => LateBounded'
<1> SUFFICES ASSUME IInv, CommandInv, LateBounded, Next PROVE LateBounded'
  OBVIOUS
<1> USE DEF IInv, CommandInv
<1>a. "login" \in Tasks /\ "keepalive" \in Tasks /\ Callers \subseteq Tasks
  BY DEF Tasks
<1>b. ASSUME atDoor' \subseteq atDoor, id' = id PROVE LateBounded'
  <2>1. Late' \subseteq Late
    BY <1>b DEF Late
  <2> QED BY <2>1, LateShrinks
<1>1. ASSUME NEW i \in Ids, NEW s \in Statuses, Reply(i, s) PROVE LateBounded'
  BY <1>1, <1>b DEF Reply
<1>2. ASSUME NEW t \in Tasks, Acquire(t) PROVE LateBounded'
  <2>1. Late' \subseteq Late
    BY <1>2 DEF Acquire, Late
  <2> QED BY <2>1, LateShrinks
<1>3. ASSUME NEW c \in Callers, Caller(c) PROVE LateBounded'
  BY <1>3, <1>a, RequestLate, FinishLate DEF Caller, CallerAsks, CallerReturns, CallerCancelled
<1>4. ASSUME Takeover \/ Drop \/ Silence \/ ReceiverEnds PROVE LateBounded'
  BY <1>4, <1>b DEF Takeover, Drop, Silence, ReceiverEnds, callVars
<1>5. ASSUME Keepalive PROVE LateBounded'
  <2>1. CASE KeepaliveTick
    BY <2>1, <1>a, <1>b, RequestLate DEF KeepaliveTick, Posts, callVars
  <2> QED BY <1>5, <1>a, <1>b, <2>1, FinishLate
          DEF Keepalive, KeepaliveSucceeds, KeepaliveFails, KeepaliveCloses,
              KeepaliveCancelled, callVars
<1>6. ASSUME Driver PROVE LateBounded'
  <2>1. CASE ConnectSucceeds
    BY <2>1, <1>a, RequestLate DEF ConnectSucceeds, Posts
  <2> QED BY <1>6, <1>a, <1>b, <2>1, FinishLate
          DEF Driver, Start, ConnectFails, LoginSucceeds, LoginFails, SupervisorWakes,
              BackoffElapsed, DriverCancelled, callVars
<1>7. ASSUME Close \/ Stop \/ StopJoined PROVE LateBounded'
  BY <1>7, <1>b DEF Close, KeepaliveJoined, SocketClosed, CloseDone, Stop, StopJoined, callVars
<1> QED BY <1>1, <1>2, <1>3, <1>4, <1>5, <1>6, <1>7 DEF Next, Door

\* A task that has no command finds a free id.
IdsSuffice == (\E t \in Tasks : call[t] = "idle") => Ids \ InUse # {}

\* The assumption that there are enough ids is enough: no command is ever
\* kept from being sent by the finite set that stands for count(1).
THEOREM AlwaysAnId == Spec => []IdsSuffice
<1>1. Init => LateBounded
  <2>1. Init => Late = {}
    BY DEF Init, Late
  <2> QED BY <2>1, FS_EmptySet, BoundAssumption DEF LateBounded
<1>2. IInv /\ CommandInv /\ LateBounded /\ [Next]_vars => LateBounded'
  <2>1. CASE UNCHANGED vars
    BY <2>1 DEF vars, LateBounded, Late
  <2> QED BY <2>1, LateStep
<1>3. IInv /\ CommandInv /\ LateBounded => IdsSuffice
  <2> SUFFICES ASSUME IInv, CommandInv, LateBounded, NEW t \in Tasks, call[t] = "idle"
               PROVE  ~(Ids \subseteq InUse)
    BY DEF IdsSuffice
  <2> DEFINE others == Tasks \ {t}
             taken == {id[u] : u \in others}
             f == [u \in others |-> id[u]]
  <2>1. Ids \cap InUse \subseteq Late \cup taken
    BY IdsAssumption DEF IInv, CommandInv, Commands, Serialised, OwnIds, CallTypeOK, InUse, Late, NoId
  <2>2. IsFiniteSet(others) /\ Cardinality(others) = Cardinality(Callers) + 1
    <3>1. /\ IsFiniteSet(Callers \cup {"login"})
          /\ Cardinality(Callers \cup {"login"}) = Cardinality(Callers) + 1
      BY BoundAssumption, CallersAssumption, FS_AddElement
    <3>2. /\ IsFiniteSet(Callers \cup {"login"} \cup {"keepalive"})
          /\ Cardinality(Callers \cup {"login"} \cup {"keepalive"}) = Cardinality(Callers) + 1 + 1
      <4>1. "keepalive" \notin Callers \cup {"login"}
        BY CallersAssumption
      <4> QED BY <3>1, <4>1, FS_AddElement
    <3>3. Callers \cup {"login"} \cup {"keepalive"} = Tasks
      BY DEF Tasks
    <3>4. IsFiniteSet(others) /\ Cardinality(others) = Cardinality(Tasks) - 1
      BY <3>2, <3>3, FS_RemoveElement
    <3>5. Cardinality(Callers) \in Nat
      BY BoundAssumption, FS_CardinalityType
    <3> HIDE DEF others
    <3>6. Cardinality(Tasks) = Cardinality(Callers) + 1 + 1
      BY <3>2, <3>3
    <3> QED BY <3>4, <3>5, <3>6
  <2>3. IsFiniteSet(taken) /\ Cardinality(taken) <= Cardinality(others)
    <3>1. f \in Surjection(others, taken)
      BY DEF Surjection
    <3> QED BY <3>1, <2>2, FS_Surjection
  <2>4. IsFiniteSet(Late)
    BY BoundAssumption, FS_Subset DEF IInv, CallTypeOK, Late
  <2>5. /\ IsFiniteSet(Late \cup taken)
        /\ Cardinality(Late \cup taken) <= MaxLate + Cardinality(Callers) + 1
    <3>1. /\ Cardinality(Late) \in Nat /\ Cardinality(taken) \in Nat
          /\ Cardinality(Late \cap taken) \in Nat
          /\ Cardinality(Callers) \in Nat
      BY <2>3, <2>4, BoundAssumption, FS_CardinalityType, FS_Intersection
    <3>2. /\ IsFiniteSet(Late \cup taken)
          /\ Cardinality(Late \cup taken) =
                 Cardinality(Late) + Cardinality(taken) - Cardinality(Late \cap taken)
      BY <2>3, <2>4, FS_Union
    <3> HIDE DEF taken, others
    <3> QED BY <3>1, <3>2, <2>2, <2>3, BoundAssumption DEF LateBounded
  <2>6. ASSUME Ids \subseteq InUse PROVE FALSE
    <3>1. Ids \subseteq Late \cup taken
      BY <2>1, <2>6
    <3> HIDE DEF taken
    <3>2. Cardinality(Ids) <= Cardinality(Late \cup taken)
      BY <3>1, <2>5, FS_Subset
    <3>3. /\ Cardinality(Ids) \in Nat /\ Cardinality(Callers) \in Nat
          /\ Cardinality(Late \cup taken) \in Nat
      BY <2>5, BoundAssumption, FS_CardinalityType
    <3> QED BY <3>2, <3>3, <2>5, BoundAssumption
  <2> QED BY <2>6
<1> QED BY <1>1, <1>2, <1>3, CommandInvariance, PTL DEF Spec
=============================================================================
