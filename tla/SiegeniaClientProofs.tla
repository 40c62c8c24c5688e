------------------------ MODULE SiegeniaClientProofs ------------------------
(***************************************************************************)
(* Proofs about SiegeniaClient, for every set of callers and every bound.  *)
(***************************************************************************)
EXTENDS SiegeniaClient, QueueProofs, TLAPS

-----------------------------------------------------------------------------
(* The inductive invariant: where the tasks of the session can be together. *)

\* async_stop takes over only from a supervisor that is out, and nobody else
\* than the two of them runs _async_close.
Roles ==
    /\ OneCloser
    /\ starting => driver \in {"opening", "login", "loginClosing"} /\ ~Stopping
    /\ driver \in {"off", "failed"} => stop # "joining" /\ ~starting
    /\ driver \in {"cancelled", "done"} => Stopping
    /\ stop = "joining" => driver \in {"closing", "loginClosing", "cancelled", "done"}
    /\ stop \in {"closing", "done"} => driver \in {"off", "failed", "done"}

\* The socket and its receive loop come and go together, and the end of the
\* loop is never forgotten by the event.
Socket ==
    /\ receiver = "none" <=> ws = "none"
    /\ receiver = "ended" => closed /\ ws # "open"
    /\ driver \in {"off", "opening", "failed", "backoff"} => ws = "none"
    /\ driver \in {"login", "watch"} => ws # "none"
    /\ driver = "done" /\ stop = "done" => ws = "none"
    /\ closing = "socket" => ws = "closing"
    /\ closing = "receiver" => ~NotClosed

\* The keepalive lives from a login to the close of that session.
KeepaliveLife ==
    /\ driver \in {"off", "opening", "failed", "backoff", "login", "loginClosing"} =>
           keepalive = "none"
    /\ driver = "watch" =>
           \/ keepalive \in {"sleep", "command"}
           \/ keepalive \in {"close", "ended"} /\ ws # "open"
    /\ keepalive = "close" => ws \in {"closing", "closed"}
    /\ keepalive = "cancelling" => closing = "keepalive"
    /\ closing = "keepalive" => keepalive \in {"cancelling", "ended"}
    /\ closing \in {"socket", "receiver"} => keepalive = "none"
    /\ stop = "done" => keepalive = "none"

\* Requests are out only on a socket that is there.
Requests ==
    /\ atDoor # {} => NotClosed
    /\ pending # {} => ws # "none"

Login == loggedIn => /\ driver \in {"watch", "cancelled", "done"}
                     /\ closing = "no"
                     /\ stop \in {"no", "joining"}

Control ==
    /\ Roles
    /\ Socket
    /\ KeepaliveLife
    /\ Requests
    /\ Login
    /\ AnnouncedIsCurrent

-----------------------------------------------------------------------------
(* Types.                                                                  *)

CallTypeOK ==
    /\ call \in [Tasks -> {"idle", "queued", "waiting", "resolved"}]
    /\ id \in [Tasks -> Ids \cup {NoId}]
    /\ answer \in [Tasks -> Answers]
    /\ pending \in SUBSET Ids
    /\ lock \in Seq(Tasks)
    /\ stale \in SUBSET Tasks
    /\ atDoor \in SUBSET Ids
    /\ \A t \in Tasks : call[t] # "idle" => id[t] \in Ids

\* The three ways a step touches the commands keep their types.
LEMMA RequestType ==
    ASSUME CallTypeOK, NEW t \in Tasks, Request(t)
    PROVE  CallTypeOK'
<1>1. NextId \in Ids
  BY DEF Request, NextId
<1>2. call' \in [Tasks -> {"idle", "queued", "waiting", "resolved"}]
  BY DEF CallTypeOK, Request
<1>3. id' \in [Tasks -> Ids \cup {NoId}]
  BY <1>1 DEF CallTypeOK, Request
<1>4. lock' \in Seq(Tasks)
  BY DEF CallTypeOK, Request
<1>5. pending' \in SUBSET Ids /\ atDoor' \in SUBSET Ids
  BY <1>1 DEF CallTypeOK, Request
<1>6. \A u \in Tasks : call'[u] # "idle" => id'[u] \in Ids
  BY <1>1, <1>2, <1>3 DEF CallTypeOK, Request
<1> QED BY <1>2, <1>3, <1>4, <1>5, <1>6 DEF CallTypeOK, Request

LEMMA FinishType ==
    ASSUME CallTypeOK, NEW t \in Tasks, Finish(t)
    PROVE  CallTypeOK'
<1>1. lock' \in Seq(Tasks)
  BY WithoutType DEF CallTypeOK, Finish
<1>2. NoAnswer \in Answers
  BY DEF Answers
<1>3. answer' \in [Tasks -> Answers]
  BY <1>2 DEF CallTypeOK, Finish
<1> QED BY <1>1, <1>3 DEF CallTypeOK, Finish

LEMMA FailPendingType ==
    ASSUME CallTypeOK, FailPending
    PROVE  /\ call' \in [Tasks -> {"idle", "queued", "waiting", "resolved"}]
           /\ answer' \in [Tasks -> Answers]
           /\ pending' \in SUBSET Ids
           /\ \A t \in Tasks : call'[t] # "idle" => id[t] \in Ids
<1>1. \A i \in Ids : [to |-> i, status |-> "lost"] \in Answers
  BY DEF Answers
<1>2. answer' \in [Tasks -> Answers]
  BY <1>1 DEF CallTypeOK, FailPending
<1> QED BY <1>2 DEF CallTypeOK, FailPending

\* The other half of TypeOK.
TaskTypeOK ==
    /\ ws \in {"none", "open", "closing", "closed"}
    /\ silent \in BOOLEAN
    /\ receiver \in {"none", "running", "ended"}
    /\ keepalive \in {"none", "sleep", "command", "close", "cancelling", "ended"}
    /\ driver \in {"off", "opening", "login", "loginClosing", "failed", "watch",
                   "closing", "backoff", "cancelled", "done"}
    /\ starting \in BOOLEAN
    /\ stop \in {"no", "joining", "closing", "done"}
    /\ closing \in {"no", "keepalive", "socket", "receiver"}
    /\ closed \in BOOLEAN
    /\ loggedIn \in BOOLEAN
    /\ announced \in {"nothing", "up", "down"}

LEMMA TypeParts == TaskTypeOK /\ CallTypeOK => TypeOK
BY DEF TypeOK, TaskTypeOK, CallTypeOK

LEMMA TaskTypeStep == TaskTypeOK /\ Next => TaskTypeOK'
<1> SUFFICES ASSUME TaskTypeOK, Next PROVE TaskTypeOK'
  OBVIOUS
<1> USE DEF TaskTypeOK, linkVars, driverVars, noticeVars
<1>1. ASSUME NEW i \in Ids, NEW s \in Statuses, Reply(i, s) PROVE TaskTypeOK'
  <2>1. closed' \in BOOLEAN /\ loggedIn' \in BOOLEAN
    BY <1>1 DEF Reply
  <2>2. UNCHANGED <<ws, silent, receiver, keepalive, driver, starting, stop,
                    closing, announced>>
    BY <1>1 DEF Reply
  <2> QED BY <2>1, <2>2
<1>2. ASSUME NEW t \in Tasks, Acquire(t) PROVE TaskTypeOK'
  BY <1>2 DEF Acquire
<1>3. ASSUME NEW c \in Callers, Caller(c) PROVE TaskTypeOK'
  BY <1>3 DEF Caller, CallerAsks, CallerReturns, CallerCancelled
<1>4. ASSUME Takeover \/ Drop \/ Silence \/ ReceiverEnds PROVE TaskTypeOK'
  BY <1>4 DEF Takeover, Drop, Silence, ReceiverEnds, Leave
<1>5. ASSUME Keepalive PROVE TaskTypeOK'
  BY <1>5 DEF Keepalive, KeepaliveTick, KeepaliveSucceeds, KeepaliveFails, GiveUp,
              KeepaliveCloses, KeepaliveCancelled
<1>6. ASSUME Driver PROVE TaskTypeOK'
  BY <1>6 DEF Driver, Start, ConnectFails, ConnectSucceeds, LoginSucceeds,
              LoginFails, SupervisorWakes, BackoffElapsed, DriverCancelled,
              BeginClose, CloseSocket, TryAgain, SessionLost
<1>7. ASSUME Close PROVE TaskTypeOK'
  BY <1>7 DEF Close, KeepaliveJoined, SocketClosed, CloseDone, TryAgain, CloseSocket
<1>8. ASSUME Stop \/ StopJoined PROVE TaskTypeOK'
  BY <1>8 DEF Stop, StopJoined, BeginClose, CloseSocket
<1> QED BY <1>1, <1>2, <1>3, <1>4, <1>5, <1>6, <1>7, <1>8 DEF Next, Door

LEMMA CallTypeStep == CallTypeOK /\ Next => CallTypeOK'
<1> SUFFICES ASSUME CallTypeOK, Next PROVE CallTypeOK'
  OBVIOUS
<1>a. "login" \in Tasks /\ "keepalive" \in Tasks /\ Callers \subseteq Tasks
  BY DEF Tasks
<1>b. ASSUME UNCHANGED callVars PROVE CallTypeOK'
  BY <1>b DEF CallTypeOK, callVars
<1>1. ASSUME NEW i \in Ids, NEW s \in Statuses, Reply(i, s) PROVE CallTypeOK'
  <2>1. [to |-> i, status |-> s] \in Answers
    BY DEF Answers
  <2>2. answer' \in [Tasks -> Answers]
    BY <1>1, <2>1 DEF Reply, Awaits, CallTypeOK
  <2> QED BY <1>1, <2>2 DEF Reply, Awaits, CallTypeOK
<1>2. ASSUME NEW t \in Tasks, Acquire(t) PROVE CallTypeOK'
  <2>1. id[t] \in Ids
    BY <1>2 DEF Acquire, HasTurn, CallTypeOK
  <2> QED BY <1>2, <2>1 DEF Acquire, CallTypeOK
<1>3. ASSUME NEW c \in Callers, Caller(c) PROVE CallTypeOK'
  BY <1>3, <1>a, RequestType, FinishType
     DEF Caller, CallerAsks, CallerReturns, CallerCancelled
<1>4. ASSUME Takeover \/ Drop \/ Silence PROVE CallTypeOK'
  BY <1>4 DEF Takeover, Drop, Silence, callVars, CallTypeOK
<1>5. ASSUME ReceiverEnds PROVE CallTypeOK'
  BY <1>5, FailPendingType DEF ReceiverEnds, Leave, CallTypeOK
<1>6. ASSUME Keepalive PROVE CallTypeOK'
  <2>1. CASE KeepaliveCloses
    BY <2>1 DEF KeepaliveCloses, CallTypeOK
  <2> QED BY <1>6, <1>a, <1>b, <2>1, RequestType, FinishType
          DEF Keepalive, KeepaliveTick, KeepaliveSucceeds, KeepaliveFails,
              KeepaliveCancelled
<1>7. ASSUME Driver PROVE CallTypeOK'
  BY <1>7, <1>a, <1>b, RequestType, FinishType
     DEF Driver, Start, ConnectFails, ConnectSucceeds, LoginSucceeds,
         LoginFails, SupervisorWakes, BackoffElapsed, DriverCancelled
<1>8. ASSUME Close PROVE CallTypeOK'
  <2>1. CASE KeepaliveJoined
    BY <2>1, <1>b DEF KeepaliveJoined
  <2>2. CASE SocketClosed
    BY <2>2 DEF SocketClosed, CallTypeOK
  <2>3. CASE CloseDone
    <3>1. stale' \in SUBSET Tasks
      BY <2>3 DEF CloseDone, CallTypeOK
    <3> QED BY <2>3, <3>1, FailPendingType DEF CloseDone, CallTypeOK
  <2> QED BY <1>8, <2>1, <2>2, <2>3 DEF Close
<1>9. ASSUME Stop \/ StopJoined PROVE CallTypeOK'
  BY <1>9, <1>b DEF Stop, StopJoined
<1> QED BY <1>1, <1>2, <1>3, <1>4, <1>5, <1>6, <1>7, <1>8, <1>9 DEF Next, Door

LEMMA TypeInit == Init => TaskTypeOK /\ CallTypeOK
<1>1. NoAnswer \in Answers /\ << >> \in Seq(Tasks)
  BY DEF Answers
<1>2. Init => TaskTypeOK
  BY DEF Init, TaskTypeOK
<1>3. Init => CallTypeOK
  BY <1>1 DEF Init, CallTypeOK
<1> QED BY <1>2, <1>3

\* Every variable keeps the type its Python counterpart has in api.py.
THEOREM TypeCorrect == Spec => []TypeOK
<1>2. TaskTypeOK /\ CallTypeOK /\ [Next]_vars => TaskTypeOK' /\ CallTypeOK'
  <2>1. CASE Next
    BY <2>1, TaskTypeStep, CallTypeStep
  <2>2. CASE UNCHANGED vars
    BY <2>2 DEF TaskTypeOK, CallTypeOK, vars
  <2> QED BY <2>1, <2>2
<1> QED BY <1>2, TypeInit, TypeParts, PTL DEF Spec

-----------------------------------------------------------------------------
(* The invariant is inductive.  The commands matter to it only through what *)
(* they add to and take from pending and atDoor.                            *)

LEMMA RequestControl ==
    ASSUME NEW t, Request(t)
    PROVE  /\ pending' \subseteq pending \cup {NextId}
           /\ atDoor' \subseteq atDoor \cup {NextId}
BY DEF Request

LEMMA FinishControl ==
    ASSUME NEW t, Finish(t)
    PROVE  pending' \subseteq pending /\ atDoor' \subseteq atDoor
BY DEF Finish

LEMMA ControlStep == TaskTypeOK /\ Control /\ Next => Control'
<1> SUFFICES ASSUME TaskTypeOK, Control, Next PROVE Control'
  OBVIOUS
<1> USE DEF TaskTypeOK, Control, Roles, OneCloser, Socket, KeepaliveLife,
            Requests, Login, AnnouncedIsCurrent, Stopping, NotClosed,
            linkVars, driverVars, noticeVars, callVars
<1>1. ASSUME NEW i \in Ids, NEW s \in Statuses, Reply(i, s) PROVE Control'
  BY <1>1 DEF Reply, Listening
<1>2. ASSUME NEW t \in Tasks, Acquire(t) PROVE Control'
  BY <1>2 DEF Acquire, CanSend
<1>3. ASSUME NEW c \in Callers, CallerAsks(c) PROVE Control'
  BY <1>3, RequestControl DEF CallerAsks
<1>4. ASSUME NEW c \in Callers, CallerReturns(c) PROVE Control'
  BY <1>4, FinishControl DEF CallerReturns
<1>5. ASSUME NEW c \in Callers, CallerCancelled(c) PROVE Control'
  BY <1>5, FinishControl DEF CallerCancelled
<1>6. CASE Takeover
  BY <1>6 DEF Takeover, Listening
<1>7. CASE Drop
  BY <1>7 DEF Drop
<1>8. CASE Silence
  BY <1>8 DEF Silence
<1>9. CASE ReceiverEnds
  BY <1>9 DEF ReceiverEnds, Leave, FailPending
<1>10. CASE KeepaliveTick
  BY <1>10, RequestControl DEF KeepaliveTick
<1>11. CASE KeepaliveSucceeds
  BY <1>11, FinishControl DEF KeepaliveSucceeds
<1>12. CASE KeepaliveFails
  BY <1>12, FinishControl DEF KeepaliveFails, GiveUp
<1>13. CASE KeepaliveCloses
  BY <1>13 DEF KeepaliveCloses
<1>14. CASE KeepaliveCancelled
  BY <1>14, FinishControl DEF KeepaliveCancelled
<1>15. CASE Start
  BY <1>15 DEF Start
<1>16. CASE ConnectFails
  BY <1>16 DEF ConnectFails, TryAgain
<1>17. CASE ConnectSucceeds
  BY <1>17, RequestControl DEF ConnectSucceeds
<1>18. CASE LoginSucceeds
  BY <1>18, FinishControl DEF LoginSucceeds
<1>19. CASE LoginFails
  BY <1>19, FinishControl DEF LoginFails, BeginClose, CloseSocket
<1>20. CASE SupervisorWakes
  BY <1>20 DEF SupervisorWakes, Woken, SessionLost, BeginClose, CloseSocket
<1>21. CASE BackoffElapsed
  BY <1>21 DEF BackoffElapsed
<1>22. CASE DriverCancelled
  BY <1>22, FinishControl DEF DriverCancelled
<1>23. CASE KeepaliveJoined
  BY <1>23 DEF KeepaliveJoined, CloseSocket
<1>24. CASE SocketClosed
  BY <1>24 DEF SocketClosed
<1>25. CASE CloseDone
  BY <1>25 DEF CloseDone, TryAgain, FailPending
<1>26. CASE Stop
  BY <1>26 DEF Stop, Swallowed, BeginClose, CloseSocket
<1>27. CASE StopJoined
  BY <1>27 DEF StopJoined, SupervisorOut, BeginClose, CloseSocket
<1> QED
  BY <1>1, <1>2, <1>3, <1>4, <1>5, <1>6, <1>7, <1>8, <1>9, <1>10, <1>11, <1>12,
     <1>13, <1>14, <1>15, <1>16, <1>17, <1>18, <1>19, <1>20, <1>21, <1>22, <1>23,
     <1>24, <1>25, <1>26, <1>27
  DEF Next, Door, Caller, Keepalive, Driver, Close

IInv == TaskTypeOK /\ CallTypeOK /\ Control

\* The whole invariant, from which everything below follows.
THEOREM Invariance == Spec => []IInv
<1> USE DEF IInv
<1>1. Init => IInv
  <2>1. Init => TaskTypeOK /\ CallTypeOK
    BY TypeInit
  <2>2. Init => Control
    BY DEF Init, Control, Roles, OneCloser, Socket, KeepaliveLife, Requests,
           Login, AnnouncedIsCurrent, Stopping, NotClosed
  <2> QED BY <2>1, <2>2
<1>2. IInv /\ [Next]_vars => IInv'
  <2>1. CASE Next
    BY <2>1, TaskTypeStep, CallTypeStep, ControlStep
  <2>2. CASE UNCHANGED vars
    BY <2>2 DEF TaskTypeOK, CallTypeOK, Control, Roles, OneCloser, Socket,
                KeepaliveLife, Requests, Login, AnnouncedIsCurrent, Stopping,
                NotClosed, vars
  <2> QED BY <2>1, <2>2
<1> QED BY <1>1, <1>2, PTL DEF Spec

-----------------------------------------------------------------------------
(* What follows from it.                                                   *)

\* No wakeup is lost: a supervisor that waits for the event has a receive
\* loop that will set it and a keepalive that finds a dead peer.
THEOREM WatchedAlways == Spec => []Watched
<1>1. IInv => Watched
  BY DEF IInv, TaskTypeOK, Control, Socket, KeepaliveLife, Watched
<1> QED BY <1>1, Invariance, PTL

\* Every pending future has someone who will resolve it.
THEOREM NobodyForgotten == Spec => []PendingNotForgotten
<1>1. IInv => PendingNotForgotten
  BY DEF IInv, TaskTypeOK, Control, Socket, Requests, PendingNotForgotten
<1> QED BY <1>1, Invariance, PTL

\* _async_open never overwrites a socket, a task or a request.
THEOREM NothingOverwritten == Spec => []FreshStart
<1>1. IInv => FreshStart
  BY DEF IInv, TaskTypeOK, Control, Socket, KeepaliveLife, Requests, NotClosed, FreshStart
<1> QED BY <1>1, Invariance, PTL

\* The close routine has one user at a time, and notices alternate.
THEOREM RolesKept == Spec => [](OneCloser /\ AnnouncedIsCurrent /\ StopInterrupts)
<1>1. IInv => OneCloser /\ AnnouncedIsCurrent /\ StopInterrupts
  BY DEF IInv, TaskTypeOK, Control, Roles, StopInterrupts, Stopping
<1> QED BY <1>1, Invariance, PTL

\* async_stop leaves nothing behind.
THEOREM StopLeavesNothing == Spec => []StoppedIsClean
<1>1. IInv => StoppedIsClean
  BY DEF IInv, TaskTypeOK, Control, Roles, Socket, KeepaliveLife, Requests,
         Login, NotClosed, StoppedIsClean
<1> QED BY <1>1, Invariance, PTL

\* After async_stop was called the coordinator hears nothing more.
THEOREM StopIsQuiet == Spec => QuietAfterStop
<1>1. IInv /\ [Next]_vars => (stop # "no" => announced' = announced)
  <2> SUFFICES ASSUME IInv, [Next]_vars, stop # "no" PROVE announced' = announced
    OBVIOUS
  <2>1. CASE Next
    <3>1. ~LoginSucceeds /\ ~SupervisorWakes
      BY DEF LoginSucceeds, SupervisorWakes, IInv, TaskTypeOK, Control, Roles, Stopping
    <3> QED BY <2>1, <3>1
        DEF Next, Door, Reply, Takeover, Drop, Silence, Acquire, Caller,
            CallerAsks, CallerReturns, CallerCancelled, ReceiverEnds, Keepalive,
            KeepaliveTick, KeepaliveSucceeds, KeepaliveFails, KeepaliveCloses,
            KeepaliveCancelled, Driver, Start, ConnectFails, ConnectSucceeds,
            LoginFails, BackoffElapsed, DriverCancelled, Close, KeepaliveJoined,
            SocketClosed, CloseDone, Stop, StopJoined, noticeVars
  <2>2. CASE UNCHANGED vars
    BY <2>2 DEF vars
  <2> QED BY <2>1, <2>2
<1> QED BY <1>1, Invariance, PTL DEF Spec, QuietAfterStop
=============================================================================
