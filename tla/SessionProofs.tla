---------------------------- MODULE SessionProofs ----------------------------
(***************************************************************************)
(* The proof that the client of api.py implements Session, as far as       *)
(* safety goes: every step of SiegeniaClient is a step of Session, or      *)
(* changes nothing that Session speaks of.                                 *)
(***************************************************************************)
EXTENDS CommandProofs

-----------------------------------------------------------------------------
(* Three kinds of steps of the client.                                     *)

\* Nobody begins or ends a command.
LEMMA AskingKept ==
    ASSUME \A c \in Callers : call'[c] = "idle" <=> call[c] = "idle"
    PROVE  Asking' = Asking
BY DEF Asking

\* A step of the session's own tasks, by which the session at most dies.
LEMMA DiesAtMost ==
    ASSUME TaskTypeOK, Asking' = Asking, announced' = announced, stop' = stop, Dead => Dead'
    PROVE  [Service!Next]_Service!vars
<1>1. Halting' = Halting
  BY DEF Halting
<1>2. CASE Dead' = Dead
  BY <1>1, <1>2 DEF Service!vars
<1>3. CASE Dead' # Dead
  <2>1. ~Dead /\ Dead' /\ stop = "no" /\ announced = "up"
    BY <1>3 DEF Dead
  <2>2. Halting = "no" /\ Dead' = TRUE /\ Dead = FALSE
    BY <2>1 DEF Halting, Dead
  <2>3. Service!Die
    BY <2>1, <2>2, <1>1 DEF Service!Die
  <2> QED BY <2>3 DEF Service!Next
<1> QED BY <1>2, <1>3

\* A step of a caller.
LEMMA CallerStep ==
    ASSUME IInv, CommandInv, NEW c \in Callers, Caller(c)
    PROVE  [Service!Next]_Service!vars
<1> USE DEF IInv, TaskTypeOK, CallTypeOK
<1>1. /\ UNCHANGED <<announced, stop, closed, silent, ws>>
      /\ Dead' = Dead /\ Halting' = Halting
  BY DEF Caller, CallerAsks, CallerReturns, CallerCancelled, Dead, Halting, linkVars, noticeVars
<1>2. c \in Tasks /\ Callers \subseteq Tasks
  BY DEF Tasks
<1>3. CASE CallerAsks(c)
  <2>1. Halting # "done"
    BY <1>3 DEF CallerAsks, NotClosed, Halting, Control, Roles, Socket
  <2>2. Asking' = Asking \cup {c} /\ c \notin Asking
    BY <1>2, <1>3 DEF CallerAsks, Request, Asking
  <2>3. Service!Ask(c)
    BY <1>1, <2>1, <2>2 DEF Service!Ask
  <2> QED BY <2>3 DEF Service!Next
<1>4. CASE CallerReturns(c) \/ CallerCancelled(c)
  <2>1. call[c] # "idle" /\ Finish(c)
    BY <1>4 DEF CallerReturns, CallerCancelled, Succeeds, Fails, HasTurn
  <2>2. Asking' = Asking \ {c} /\ c \in Asking
    BY <1>2, <2>1 DEF Finish, Asking
  <2>3. Service!Answer(c)
    BY <1>1, <2>2 DEF Service!Answer
  <2> QED BY <2>3 DEF Service!Next
<1> QED BY <1>3, <1>4 DEF Caller

-----------------------------------------------------------------------------
(* Step simulation.                                                        *)

LEMMA StepSimulation == IInv /\ CommandInv /\ Next => [Service!Next]_Service!vars
<1> SUFFICES ASSUME IInv, CommandInv, Next PROVE [Service!Next]_Service!vars
  OBVIOUS
<1> USE DEF IInv, TaskTypeOK
<1>a. "login" \in Tasks /\ "keepalive" \in Tasks /\ Callers \subseteq Tasks
      /\ "login" \notin Callers /\ "keepalive" \notin Callers
  BY CallersAssumption DEF Tasks
<1>b. ASSUME Finish("login") \/ Finish("keepalive") PROVE Asking' = Asking
  BY <1>a, <1>b, AskingKept DEF Finish, CallTypeOK
<1>c. ASSUME Request("login") \/ Request("keepalive") PROVE Asking' = Asking
  BY <1>a, <1>c, AskingKept DEF Request, CallTypeOK
<1>d. ASSUME UNCHANGED call PROVE Asking' = Asking
  BY <1>d DEF Asking
<1>e. ASSUME FailPending, UNCHANGED <<id, lock>> PROVE Asking' = Asking
  BY <1>a, <1>e, AskingKept, FailPendingCommands DEF CommandInv
<1>1. ASSUME NEW i \in Ids, NEW s \in Statuses, Reply(i, s) PROVE [Service!Next]_Service!vars
  <2>1. Asking' = Asking
    BY <1>1, <1>a, AskingKept, ReplyCommands DEF CommandInv
  <2>2. UNCHANGED <<announced, stop, silent, ws>> /\ (closed => closed')
    BY <1>1 DEF Reply, linkVars
  <2> QED BY <2>1, <2>2, DiesAtMost DEF Dead
<1>2. ASSUME NEW t \in Tasks, Acquire(t) PROVE [Service!Next]_Service!vars
  <2>1. Asking' = Asking
    BY <1>2, <1>a, AskingKept DEF Acquire, HasTurn, CallTypeOK
  <2>2. UNCHANGED <<announced, stop, silent, ws, closed>>
    BY <1>2 DEF Acquire, linkVars, noticeVars
  <2> QED BY <2>1, <2>2, DiesAtMost DEF Dead
<1>3. ASSUME NEW c \in Callers, Caller(c) PROVE [Service!Next]_Service!vars
  BY <1>3, CallerStep
<1>4. CASE Takeover \/ Drop \/ Silence
  <2>1. Asking' = Asking
    BY <1>4, <1>d DEF Takeover, Drop, Silence, callVars
  <2>2. UNCHANGED <<announced, stop>> /\ (closed => closed') /\ (silent => silent')
        /\ (ws # "open" => ws' # "open")
    BY <1>4 DEF Takeover, Drop, Silence, linkVars, noticeVars
  <2> QED BY <2>1, <2>2, DiesAtMost DEF Dead
<1>5. CASE ReceiverEnds
  <2>1. Asking' = Asking
    BY <1>5, <1>e DEF ReceiverEnds, Leave
  <2>2. UNCHANGED <<announced, stop, ws, silent>> /\ closed'
    BY <1>5 DEF ReceiverEnds, Leave
  <2> QED BY <2>1, <2>2, DiesAtMost DEF Dead
<1>6. CASE Keepalive
  <2>1. Asking' = Asking
    BY <1>6, <1>b, <1>c, <1>d DEF Keepalive, KeepaliveTick, KeepaliveSucceeds, KeepaliveFails,
                                  KeepaliveCloses, KeepaliveCancelled, callVars
  <2>2. UNCHANGED <<announced, stop, silent, closed>> /\ (ws # "open" => ws' # "open")
    BY <1>6 DEF Keepalive, KeepaliveTick, KeepaliveSucceeds, KeepaliveFails, GiveUp,
                KeepaliveCloses, KeepaliveCancelled, linkVars, noticeVars
  <2> QED BY <2>1, <2>2, DiesAtMost DEF Dead
<1>7. CASE LoginSucceeds
  <2>1. Asking' = Asking
    BY <1>7, <1>b DEF LoginSucceeds
  <2>2. stop = "no" /\ stop' = stop /\ announced # "up" /\ announced' = "up"
    BY <1>7 DEF LoginSucceeds, Control, Roles, AnnouncedIsCurrent
  <2>3. Halting = "no" /\ Halting' = Halting /\ Dead' \in BOOLEAN
    BY <2>2 DEF Halting, Dead
  <2>4. Service!Up
    BY <2>1, <2>2, <2>3 DEF Service!Up
  <2> QED BY <2>4 DEF Service!Next
<1>8. CASE SupervisorWakes
  <2>1. Asking' = Asking
    BY <1>8, <1>d DEF SupervisorWakes, callVars
  <2>2. stop = "no" /\ stop' = stop /\ announced = "up" /\ closed /\ announced' = "down"
    BY <1>8 DEF SupervisorWakes, Woken, SessionLost, Stopping, Control, AnnouncedIsCurrent
  <2>3. Halting = "no" /\ Halting' = Halting /\ Dead = TRUE /\ Dead' = FALSE
    BY <2>2 DEF Halting, Dead
  <2>4. Service!Down
    BY <2>1, <2>2, <2>3 DEF Service!Down
  <2> QED BY <2>4 DEF Service!Next
<1>9. CASE Start \/ ConnectFails \/ ConnectSucceeds \/ LoginFails \/ BackoffElapsed
  <2>1. Asking' = Asking
    BY <1>9, <1>b, <1>c, <1>d DEF Start, ConnectFails, ConnectSucceeds, LoginFails,
                                  BackoffElapsed, callVars
  <2>2. UNCHANGED <<announced, stop>>
    BY <1>9 DEF Start, ConnectFails, ConnectSucceeds, LoginFails, BackoffElapsed, noticeVars
  <2>3. ~Dead
    BY <1>9 DEF Start, ConnectFails, ConnectSucceeds, LoginFails, BackoffElapsed, Dead,
                Control, AnnouncedIsCurrent
  <2> QED BY <2>1, <2>2, <2>3, DiesAtMost
<1>10. CASE DriverCancelled
  <2>1. Asking' = Asking
    BY <1>10, <1>b, <1>d DEF DriverCancelled, callVars
  <2>2. UNCHANGED <<announced, stop, silent, ws, closed>>
    BY <1>10 DEF DriverCancelled, linkVars, noticeVars
  <2> QED BY <2>1, <2>2, DiesAtMost DEF Dead
<1>11. CASE KeepaliveJoined \/ SocketClosed
  <2>1. Asking' = Asking
    BY <1>11, <1>d DEF KeepaliveJoined, SocketClosed, callVars
  <2>2. UNCHANGED <<announced, stop, silent, closed>> /\ (ws # "open" => ws' # "open")
    BY <1>11 DEF KeepaliveJoined, SocketClosed, CloseSocket, noticeVars
  <2> QED BY <2>1, <2>2, DiesAtMost DEF Dead
<1>12. CASE CloseDone
  <2>1. Asking' = Asking
    BY <1>12, <1>e DEF CloseDone
  <2>2. CASE stop = "closing"
    <3>1. announced' = announced /\ stop' = "done"
      BY <1>12, <2>2 DEF CloseDone
    <3>2. Halting = "running" /\ Halting' = "done" /\ Dead' = Dead
      BY <2>2, <3>1 DEF Halting, Dead
    <3>3. Service!Halted
      BY <2>1, <3>1, <3>2 DEF Service!Halted
    <3> QED BY <3>3 DEF Service!Next
  <2>3. CASE stop # "closing"
    <3>1. UNCHANGED <<announced, stop>> /\ ws' # "open"
      BY <1>12, <2>3 DEF CloseDone
    <3> QED BY <2>1, <3>1, DiesAtMost DEF Dead
  <2> QED BY <2>2, <2>3
<1>13. CASE Stop
  <2>1. Asking' = Asking
    BY <1>13, <1>d DEF Stop, callVars
  <2>2. stop = "no" /\ stop' \in {"joining", "closing"} /\ announced' = announced
    BY <1>13 DEF Stop
  <2>3. Halting = "no" /\ Halting' = "running" /\ Dead' = FALSE
    BY <2>2 DEF Halting, Dead
  <2>4. Service!Halt
    BY <2>1, <2>2, <2>3 DEF Service!Halt
  <2> QED BY <2>4 DEF Service!Next
<1>14. CASE StopJoined
  <2>1. Asking' = Asking
    BY <1>14, <1>d DEF StopJoined, callVars
  <2>2. stop = "joining" /\ stop' = "closing" /\ announced' = announced
    BY <1>14 DEF StopJoined
  <2>3. Halting' = Halting /\ Dead' = Dead
    BY <2>2 DEF Halting, Dead
  <2> QED BY <2>1, <2>2, <2>3 DEF Service!vars
<1> QED
  BY <1>1, <1>2, <1>3, <1>4, <1>5, <1>6, <1>7, <1>8, <1>9, <1>10, <1>11, <1>12, <1>13, <1>14
  DEF Next, Door, Driver, Close

\* The client implements Session: notices alternate, a session is announced as
\* lost only when it is over, whoever asks waits until it is answered, a stop
\* is final.  (api.py as a whole.)
THEOREM ImplementsSession == Spec => ServiceSafety
<1>1. Init => Service!Init
  BY DEF Init, Service!Init, Dead, Halting, Asking, Tasks
<1>2. IInv /\ CommandInv /\ [Next]_vars => [Service!Next]_Service!vars
  <2>1. CASE Next
    BY <2>1, StepSimulation
  <2>2. CASE UNCHANGED vars
    BY <2>2 DEF vars, Service!vars, Dead, Halting, Asking
  <2> QED BY <2>1, <2>2
<1> QED BY <1>1, <1>2, CommandInvariance, PTL DEF Spec, ServiceSafety, Service!Safety
=============================================================================
