--------------------------- MODULE SiegeniaClient ---------------------------
(***************************************************************************)
(* The session of custom_components/siegenia_door/api.py: one WebSocket,   *)
(* one receive loop, one keepalive task, one supervisor that reconnects,   *)
(* and any number of tasks that send commands over the socket, one at a    *)
(* time.  Everything runs on one asyncio loop, so a task is interrupted    *)
(* only where it awaits: an action is what a task does between two awaits. *)
(*                                                                         *)
(* Abstractions.  Frames on the wire are not a queue of their own: the     *)
(* door may delay a frame at will, so the step in which the receive loop   *)
(* handles a frame is the step in which the door chooses it.  Time is not  *)
(* counted: a timer may fire at any moment while it is armed.  Pushes      *)
(* change nothing in the client and belong to the coordinator's module.    *)
(*                                                                         *)
(* Some definitions are preceded by a faulty variant that no action uses.  *)
(* Put in place of the definition it breaks a property; the README says    *)
(* which.                                                                  *)
(***************************************************************************)
EXTENDS Naturals, Sequences, FiniteSets, Queues

CONSTANTS
    Callers,   \* tasks of the integration that send commands
    Ids,       \* message ids; see InUse for why a finite set is enough
    MaxLate    \* bound on abandoned requests the door may still answer

ASSUME CallersAssumption == Callers \cap {"login", "keepalive"} = {}
ASSUME IdsAssumption == Ids \subseteq Nat \ {0}
ASSUME BoundAssumption ==
    /\ MaxLate \in Nat
    /\ IsFiniteSet(Ids) /\ IsFiniteSet(Callers)
    /\ Cardinality(Ids) >= Cardinality(Callers) + 2 + MaxLate

VARIABLES
    ws,         \* self._ws: no socket, or the state of the one there is
    silent,     \* the peer of the socket vanished without closing it
    receiver,   \* self._receiver
    keepalive,  \* self._keepalive
    driver,     \* the task in async_start, then the supervisor it creates
    starting,   \* the driver is still in async_start
    stop,       \* the task in async_stop; self._stopping is stop # "no"
    closing,    \* where the task that runs _async_close is waiting
    closed,     \* the event self._closed
    loggedIn,   \* self._logged_in
    announced,  \* the last value given to on_availability
    call,       \* where each task is in async_command
    id,         \* the message id of its command
    answer,     \* what its future was resolved with
    pending,    \* the keys of self._pending
    lock,       \* self._command_lock: the holder, then the waiters in order
    stale,      \* tasks whose `ws` of async_command has been discarded
    atDoor      \* ids of requests on the current socket not answered yet

linkVars   == <<ws, silent, receiver>>
driverVars == <<driver, starting>>
noticeVars == <<closed, loggedIn, announced>>
callVars   == <<call, id, answer, pending, lock, stale, atDoor>>
vars == <<ws, silent, receiver, keepalive, driver, starting, stop, closing,
          closed, loggedIn, announced, call, id, answer, pending, lock,
          stale, atDoor>>

Tasks == Callers \cup {"login", "keepalive"}
NoId == 0
Statuses == {"ok", "session_occupied", "refused"}
\* "lost" is the exception _fail_pending puts into a future.
NoAnswer == [to |-> NoId, status |-> "none"]
Answers == [to : Ids, status : Statuses \cup {"lost"}] \cup {NoAnswer}

TypeOK ==
    /\ ws \in {"none", "open", "closing", "closed"}
    /\ silent \in BOOLEAN
    /\ receiver \in {"none", "running", "ended"}
    /\ keepalive \in {"none", "sleep", "command", "close", "cancelling", "ended"}
    /\ driver \in {"off", "opening", "login", "loginClosing", "failed", "watch",
                   "closing", "backoff", "cancelled", "done"}
    /\ starting \in BOOLEAN
    /\ stop \in {"no", "joining", "closing", "done"}
    /\ closing \in {"no", "keepalive", "socket", "receiver"}
    /\ closed \in BOOLEAN
    /\ loggedIn \in BOOLEAN
    /\ announced \in {"nothing", "up", "down"}
    /\ call \in [Tasks -> {"idle", "queued", "waiting", "resolved"}]
    /\ id \in [Tasks -> Ids \cup {NoId}]
    /\ answer \in [Tasks -> Answers]
    /\ pending \in SUBSET Ids
    /\ lock \in Seq(Tasks)
    /\ stale \in SUBSET Tasks
    /\ atDoor \in SUBSET Ids

Init ==
    /\ ws = "none" /\ silent = FALSE /\ receiver = "none"
    /\ keepalive = "none"
    /\ driver = "off" /\ starting = FALSE
    /\ stop = "no"
    /\ closing = "no"
    /\ closed = FALSE /\ loggedIn = FALSE /\ announced = "nothing"
    /\ call = [t \in Tasks |-> "idle"]
    /\ id = [t \in Tasks |-> NoId]
    /\ answer = [t \in Tasks |-> NoAnswer]
    /\ pending = {}
    /\ lock = <<>>
    /\ stale = {}
    /\ atDoor = {}

NeverStopping == FALSE
Stopping == stop # "no"                    \* self._stopping
NotClosed == ws \in {"open", "closing"}    \* `not self._ws.closed`

-----------------------------------------------------------------------------
(* async_command.  An id of count(1) never comes back, so the only thing   *)
(* that matters is that it differs from every id a task, the pending map   *)
(* or the door still knows.                                                *)

InUse == {id[t] : t \in Tasks} \cup pending \cup atDoor
NextId == CHOOSE i \in Ids \ InUse : TRUE

\* The command of t up to its first wait: an asyncio lock that nobody holds
\* or waits for is taken without a wait, and the frame is sent at once.
Request(t) ==
    /\ Ids \ InUse # {}
    /\ id' = [id EXCEPT ![t] = NextId]
    /\ lock' = Append(lock, t)
    /\ \/ /\ lock = <<>>
          /\ call' = [call EXCEPT ![t] = "waiting"]
          /\ pending' = pending \cup {NextId}
          /\ atDoor' = atDoor \cup {NextId}
       \/ /\ lock # <<>>
          /\ call' = [call EXCEPT ![t] = "queued"]
          /\ UNCHANGED <<pending, atDoor>>
    /\ UNCHANGED <<answer, stale>>

\* t has the lock and a socket that still takes frames.
CanSend(t) == t \notin stale /\ NotClosed
HasTurnUnlocked(t) == call[t] = "queued"
HasTurn(t) == call[t] = "queued" /\ lock # <<>> /\ Head(lock) = t

Acquire(t) ==
    /\ HasTurn(t)
    /\ CanSend(t)
    /\ call' = [call EXCEPT ![t] = "waiting"]
    /\ pending' = pending \cup {id[t]}
    /\ atDoor' = atDoor \cup {id[t]}
    /\ UNCHANGED <<id, answer, lock, stale, linkVars, keepalive, driverVars,
                   stop, closing, noticeVars>>

Succeeds(t) == call[t] = "resolved" /\ answer[t].status = "ok"

FailsWithoutTimeout(t) ==
    \/ call[t] = "resolved" /\ answer[t].status # "ok"
    \/ HasTurn(t) /\ ~CanSend(t)

\* The ways async_command raises: a bad answer or a lost connection, a
\* timeout (which also wins over an answer t has not been resumed with yet),
\* a send on a socket that is closed by now.
Fails(t) ==
    \/ call[t] = "resolved" /\ answer[t].status # "ok"
    \/ call[t] \in {"waiting", "resolved"}
    \/ HasTurn(t) /\ ~CanSend(t)

Late == atDoor \ {id[t] : t \in Tasks}

\* The way out of async_command for t.  The door may still answer a request
\* that was given up, or never answer it.
Finish(t) ==
    /\ call' = [call EXCEPT ![t] = "idle"]
    /\ id' = [id EXCEPT ![t] = NoId]
    /\ answer' = [answer EXCEPT ![t] = NoAnswer]
    /\ pending' = pending \ {id[t]}
    /\ lock' = Without(lock, t)
    /\ stale' = stale \ {t}
    /\ \/ atDoor' = atDoor \ {id[t]}
       \/ atDoor' = atDoor /\ Cardinality(Late) < MaxLate

FailEveryone ==
    /\ call' = [t \in Tasks |-> "resolved"]
    /\ answer' = [t \in Tasks |-> [to |-> id[t], status |-> "lost"]]
    /\ pending' = {}

\* _fail_pending.
FailPending ==
    /\ call' = [t \in Tasks |-> IF id[t] \in pending THEN "resolved" ELSE call[t]]
    /\ answer' = [t \in Tasks |-> IF id[t] \in pending
                                  THEN [to |-> id[t], status |-> "lost"]
                                  ELSE answer[t]]
    /\ pending' = {}

\* A task of the integration.  Without a socket async_command raises before
\* it changes anything.
CallerAsks(c) ==
    /\ call[c] = "idle"
    /\ NotClosed
    /\ Request(c)
    /\ UNCHANGED <<linkVars, keepalive, driverVars, stop, closing, noticeVars>>

\* It gets its answer or an exception, or is cancelled wherever it waits.
CallerReturns(c) ==
    /\ Succeeds(c) \/ Fails(c)
    /\ Finish(c)
    /\ UNCHANGED <<linkVars, keepalive, driverVars, stop, closing, noticeVars>>

CallerCancelled(c) ==
    /\ call[c] # "idle"
    /\ Finish(c)
    /\ UNCHANGED <<linkVars, keepalive, driverVars, stop, closing, noticeVars>>

-----------------------------------------------------------------------------
(* _async_close, run by the driver or by async_stop.                       *)

CloseSocket ==
    \/ /\ NotClosed
       /\ ws' = "closing"
       /\ closing' = "socket"
    \/ /\ ~NotClosed
       /\ closing' = "receiver"
       /\ UNCHANGED ws

BeginCloseForgetful ==
    /\ loggedIn' = FALSE
    /\ CloseSocket
    /\ UNCHANGED <<keepalive, silent, receiver>>

\* Up to its first wait: for the cancelled keepalive, or else for the socket.
BeginClose ==
    /\ loggedIn' = FALSE
    /\ \/ /\ keepalive # "none"
          /\ keepalive' = IF keepalive = "ended" THEN "ended" ELSE "cancelling"
          /\ closing' = "keepalive"
          /\ UNCHANGED ws
       \/ /\ keepalive = "none"
          /\ CloseSocket
          /\ UNCHANGED keepalive
    /\ UNCHANGED <<silent, receiver>>

KeepaliveJoined ==
    /\ closing = "keepalive"
    /\ keepalive = "ended"
    /\ keepalive' = "none"
    /\ CloseSocket
    /\ UNCHANGED <<silent, receiver, driverVars, stop, noticeVars, callVars>>

\* aiohttp wakes the receive loop and waits until it has left before it
\* marks the socket closed; the close handshake is part of the same wait.
SocketClosed ==
    /\ closing = "socket"
    /\ receiver # "running"
    /\ ws' = "closed"
    /\ closing' = "receiver"
    /\ atDoor' = {}
    /\ UNCHANGED <<silent, receiver, keepalive, driverVars, stop, noticeVars,
                   call, id, answer, pending, lock, stale>>

WaitAgain == IF starting THEN "failed" ELSE "watch"

\* After a failed attempt: async_start raises, the supervisor retries.
TryAgain == IF starting THEN "failed" ELSE "backoff"

\* The receive loop is gone: the rest of _async_close, and what its caller
\* does next.
CloseDone ==
    /\ closing = "receiver"
    /\ receiver # "running"
    /\ receiver' = "none"
    /\ ws' = "none"
    /\ silent' = FALSE
    /\ FailPending
    /\ stale' = stale \cup {t \in Tasks : call[t] = "queued"}
    /\ closed' = TRUE
    /\ closing' = "no"
    /\ \/ /\ stop = "closing"
          /\ stop' = "done"
          /\ UNCHANGED driverVars
       \/ /\ stop # "closing"
          /\ driver' = IF Stopping THEN "done" ELSE TryAgain
          /\ starting' = FALSE
          /\ UNCHANGED stop
    /\ UNCHANGED <<keepalive, loggedIn, announced, id, lock, atDoor>>

-----------------------------------------------------------------------------
(* The receive loop.                                                       *)

Listening == receiver = "running" /\ ws = "open" /\ ~silent

AwaitsAnything(t, i) == i \in atDoor /\ call[t] = "waiting"
Awaits(t, i) == i \in pending /\ id[t] = i

\* _handle_message for an answer.  The waiter is served before a takeover is
\* acted on; an answer nobody waits for any more is dropped.
Reply(i, status) ==
    /\ Listening
    /\ i \in atDoor
    /\ atDoor' = atDoor \ {i}
    /\ call' = [t \in Tasks |-> IF Awaits(t, i) THEN "resolved" ELSE call[t]]
    /\ answer' = [t \in Tasks |-> IF Awaits(t, i)
                                  THEN [to |-> i, status |-> status]
                                  ELSE answer[t]]
    /\ pending' = pending \ {i}
    /\ \/ /\ status = "session_occupied"
          /\ loggedIn' = FALSE
          /\ closed' = TRUE
       \/ /\ status # "session_occupied"
          /\ UNCHANGED <<loggedIn, closed>>
    /\ UNCHANGED <<linkVars, keepalive, driverVars, stop, closing, announced,
                   id, lock, stale>>

\* _handle_message for `session_occupied` with id -1: the socket stays open.
Takeover ==
    /\ Listening
    /\ loggedIn' = FALSE
    /\ closed' = TRUE
    /\ UNCHANGED <<linkVars, keepalive, driverVars, stop, closing, announced,
                   callVars>>

\* The door closes the socket, or the connection breaks with an error.
Drop ==
    /\ receiver = "running" /\ ws = "open"
    /\ ws' = "closed"
    /\ atDoor' = {}
    /\ UNCHANGED <<silent, receiver, keepalive, driverVars, stop, closing,
                   noticeVars, call, id, answer, pending, lock, stale>>

\* The peer is gone and nothing says so.
Silence ==
    /\ Listening
    /\ silent' = TRUE
    /\ UNCHANGED <<ws, receiver, keepalive, driverVars, stop, closing,
                   noticeVars, callVars>>

LeaveUnnoticed ==
    /\ loggedIn' = FALSE
    /\ FailPending
    /\ UNCHANGED closed

Leave ==
    /\ loggedIn' = FALSE
    /\ FailPending
    /\ closed' = TRUE

\* The `finally` of _async_receive_loop, at the end of the socket or when
\* _async_close cancels the loop on a closed one.
ReceiverEnds ==
    /\ receiver = "running"
    /\ ws # "open"
    /\ receiver' = "ended"
    /\ Leave
    /\ UNCHANGED <<ws, silent, keepalive, driverVars, stop, closing, announced,
                   id, lock, stale, atDoor>>

-----------------------------------------------------------------------------
(* _async_keepalive_loop.                                                  *)

KeepaliveTick ==
    /\ keepalive = "sleep"
    /\ \/ /\ NotClosed
          /\ keepalive' = "command"
          /\ Request("keepalive")
       \/ /\ ~NotClosed
          /\ keepalive' = "ended"
          /\ UNCHANGED callVars
    /\ UNCHANGED <<linkVars, driverVars, stop, closing, noticeVars>>

KeepaliveSucceeds ==
    /\ keepalive = "command"
    /\ Succeeds("keepalive")
    /\ Finish("keepalive")
    /\ keepalive' = "sleep"
    /\ UNCHANGED <<linkVars, driverVars, stop, closing, noticeVars>>

GiveUpQuietly ==
    /\ keepalive' = "ended"
    /\ UNCHANGED ws

\* "A failure here means the link is dead."
GiveUp ==
    \/ /\ NotClosed
       /\ ws' = "closing"
       /\ keepalive' = "close"
    \/ /\ ~NotClosed
       /\ keepalive' = "ended"
       /\ UNCHANGED ws

KeepaliveFails ==
    /\ keepalive = "command"
    /\ Fails("keepalive")
    /\ Finish("keepalive")
    /\ GiveUp
    /\ UNCHANGED <<silent, receiver, driverVars, stop, closing, noticeVars>>

KeepaliveCloses ==
    /\ keepalive = "close"
    /\ receiver # "running"
    /\ ws' = "closed"
    /\ keepalive' = "ended"
    /\ atDoor' = {}
    /\ UNCHANGED <<silent, receiver, driverVars, stop, closing, noticeVars,
                   call, id, answer, pending, lock, stale>>

\* The cancellation by _async_close arrives.
KeepaliveCancelled ==
    /\ keepalive = "cancelling"
    /\ keepalive' = "ended"
    /\ \/ call["keepalive"] # "idle" /\ Finish("keepalive")
       \/ call["keepalive"] = "idle" /\ UNCHANGED callVars
    /\ UNCHANGED <<linkVars, driverVars, stop, closing, noticeVars>>

-----------------------------------------------------------------------------
(* _async_connect, in async_start and in the supervisor.                   *)

Start ==
    /\ driver = "off"
    /\ ~Stopping
    /\ driver' = "opening"
    /\ starting' = TRUE
    /\ closed' = FALSE
    /\ UNCHANGED <<linkVars, keepalive, stop, closing, loggedIn, announced,
                   callVars>>

\* The supervisor retries "rather than falling back to the outer wait: a
\* failed attempt leaves the closed event cleared".
ConnectFails ==
    /\ driver = "opening"
    /\ driver' = TryAgain
    /\ starting' = FALSE
    /\ UNCHANGED <<linkVars, keepalive, stop, closing, noticeVars, callVars>>

\* There is no wait between ws_connect and the login's place in the queue.
ConnectSucceeds ==
    /\ driver = "opening"
    /\ ws' = "open"
    /\ silent' = FALSE
    /\ receiver' = "running"
    /\ driver' = "login"
    /\ Request("login")
    /\ UNCHANGED <<keepalive, starting, stop, closing, noticeVars>>

\* The end of _async_login and of _async_connect, then of async_start (which
\* creates the supervisor) or of the supervisor's retry loop.
LoginSucceeds ==
    /\ driver = "login"
    /\ Succeeds("login")
    /\ Finish("login")
    /\ loggedIn' = TRUE
    /\ keepalive' = "sleep"
    /\ announced' = "up"
    /\ driver' = "watch"
    /\ starting' = FALSE
    /\ UNCHANGED <<linkVars, stop, closing, closed>>

LoginFails ==
    /\ driver = "login"
    /\ Fails("login")
    /\ Finish("login")
    /\ driver' = "loginClosing"
    /\ BeginClose
    /\ UNCHANGED <<starting, stop, closed, announced>>

-----------------------------------------------------------------------------
(* _async_supervise.                                                       *)

AlwaysWoken == TRUE
Woken == closed

SessionLostUnsaid == BeginClose /\ UNCHANGED announced
SessionLost == BeginClose /\ announced' = "down"

\* The returns on `self._stopping` after a wait are guards: async_stop cancels
\* a supervisor that waits here (see StopInterrupts), so they have no step.
SupervisorWakes ==
    /\ driver = "watch"
    /\ Woken
    /\ ~Stopping
    /\ driver' = "closing"
    /\ SessionLost
    /\ UNCHANGED <<starting, stop, closed, callVars>>

BackoffElapsed ==
    /\ driver = "backoff"
    /\ ~Stopping
    /\ driver' = "opening"
    /\ closed' = FALSE
    /\ UNCHANGED <<linkVars, keepalive, starting, stop, closing, loggedIn,
                   announced, callVars>>

-----------------------------------------------------------------------------
(* async_stop.                                                             *)

\* A cancellation that reaches the supervisor while _async_close awaits one
\* of the helper tasks is swallowed by the `suppress` there.
Swallowed == driver \in {"closing", "loginClosing"} /\ closing \in {"keepalive", "receiver"}

Stop ==
    /\ stop = "no"
    /\ ~starting
    /\ closed' = TRUE
    /\ \/ /\ driver \in {"off", "failed"}
          /\ stop' = "closing"
          /\ BeginClose
          /\ UNCHANGED driver
       \/ /\ driver \notin {"off", "failed"}
          /\ stop' = "joining"
          /\ \/ Swallowed /\ UNCHANGED <<driver, closing>>
             \/ ~Swallowed /\ driver' = "cancelled" /\ closing' = "no"
          /\ UNCHANGED <<linkVars, keepalive, loggedIn>>
    /\ UNCHANGED <<starting, announced, callVars>>

DriverCancelled ==
    /\ driver = "cancelled"
    /\ driver' = "done"
    /\ \/ call["login"] # "idle" /\ Finish("login")
       \/ call["login"] = "idle" /\ UNCHANGED callVars
    /\ UNCHANGED <<linkVars, keepalive, starting, stop, closing, noticeVars>>

NoNeedToWait == TRUE
SupervisorOut == driver = "done"

StopJoined ==
    /\ stop = "joining"
    /\ SupervisorOut
    /\ stop' = "closing"
    /\ BeginClose
    /\ UNCHANGED <<driverVars, closed, announced, callVars>>

-----------------------------------------------------------------------------

Door ==
    \/ \E i \in Ids, s \in Statuses : Reply(i, s)
    \/ Takeover \/ Drop \/ Silence

Caller(c) == CallerAsks(c) \/ CallerReturns(c) \/ CallerCancelled(c)

Keepalive ==
    \/ KeepaliveTick \/ KeepaliveSucceeds \/ KeepaliveFails
    \/ KeepaliveCloses \/ KeepaliveCancelled

Driver ==
    \/ Start \/ ConnectFails \/ ConnectSucceeds \/ LoginSucceeds \/ LoginFails
    \/ SupervisorWakes \/ BackoffElapsed \/ DriverCancelled

Close == KeepaliveJoined \/ SocketClosed \/ CloseDone

Next ==
    \/ Door
    \/ \E t \in Tasks : Acquire(t)
    \/ \E c \in Callers : Caller(c)
    \/ ReceiverEnds
    \/ Keepalive
    \/ Driver
    \/ Close
    \/ Stop \/ StopJoined

Spec == Init /\ [][Next]_vars

\* The event loop runs every task that can go on, and every timer fires: the
\* 10 s of a response, the interval of keepalive, the backoff.  Nothing makes
\* the integration start, stop or ask.
LoopFairness ==
    /\ WF_vars(ReceiverEnds)
    /\ \A t \in Tasks : WF_vars(Acquire(t))
    /\ \A c \in Callers : WF_vars(CallerReturns(c))
    /\ WF_vars(Keepalive)
    /\ WF_vars(Close)
    /\ WF_vars(ConnectFails \/ ConnectSucceeds)
    /\ WF_vars(LoginSucceeds \/ LoginFails)
    /\ WF_vars(SupervisorWakes)
    /\ WF_vars(BackoffElapsed)
    /\ WF_vars(DriverCancelled)
    /\ WF_vars(StopJoined)

\* A door that is not out of reach for ever: connections are made again and
\* again, from some time on a connection lasts until its login is answered,
\* and of logins without end one is answered with ok and in time.
DoorFairness ==
    /\ SF_vars(ConnectSucceeds)
    /\ <>[](driver = "login" => Listening)
    /\ SF_vars(Reply(id["login"], "ok"))
    /\ SF_vars(LoginSucceeds)

LoopSpec == Spec /\ LoopFairness

-----------------------------------------------------------------------------
(* Safety.                                                                 *)

\* No wakeup is lost: while the supervisor waits for the event, either it is
\* set, or the receive loop still runs and will set it; and as long as the
\* socket looks open, a keepalive is there to find out that it is dead.
Watched ==
    driver = "watch" /\ ~closed =>
        /\ receiver = "running"
        /\ ws = "open" => keepalive \in {"sleep", "command"}

\* "Commands are serialised": one task at most has a request out, the holder
\* of the lock, and its future is the only one anybody could resolve.
Serialised ==
    /\ \A t \in Tasks : call[t] \in {"waiting", "resolved"} =>
                             lock # <<>> /\ t = Head(lock)
    /\ pending = {id[t] : t \in {u \in Tasks : call[u] = "waiting"}}

\* A command gets the answer to its own request, never the late answer to
\* one that was given up before.
OwnAnswer ==
    \A t \in Tasks : call[t] = "resolved" => answer[t].to = id[t]

\* While the login is out on a new socket, it is all that the door has to
\* answer there and all that waits for an answer.  Nothing is said of the time
\* after it: a command may be sent when the login has failed, while the socket
\* closes, or after a takeover.
LoginFirst ==
    call["login"] = "waiting" /\ driver = "login" =>
        atDoor \subseteq {id["login"]} /\ pending = {id["login"]}

\* A pending future always has someone who will resolve it: the receive loop
\* or, once that has ended, the close that the set event brings about.
PendingNotForgotten ==
    pending # {} => ws # "none" /\ (receiver = "running" \/ closed)

\* _async_open never overwrites a socket or a task of the session before, so
\* no socket leaks and no old keepalive can close the new one.
FreshStart ==
    driver \in {"backoff", "opening"} /\ stop = "no" =>
        /\ ws = "none" /\ receiver = "none" /\ keepalive = "none"
        /\ pending = {} /\ atDoor = {}

\* What the coordinator was told last agrees with what the supervisor does,
\* so that notices alternate: up after a login, down before a reconnect.
AnnouncedIsCurrent ==
    stop = "no" =>
        /\ driver = "watch" => announced = "up"
        /\ driver # "watch" => announced = IF driver = "off" \/ starting \/ driver = "failed"
                                            THEN "nothing" ELSE "down"

\* _async_close is never run by two tasks at once.
OneCloser ==
    closing # "no" <=>
        \/ stop = "closing"
        \/ stop # "closing" /\ driver \in {"closing", "loginClosing"}

\* Once async_stop has run, the supervisor is out or on its way out through
\* a close whose cancellation was swallowed; it never waits again.
StopInterrupts ==
    stop # "no" => driver \notin {"watch", "backoff", "opening", "login"}

\* After async_stop nothing of the session is left.
StoppedIsClean ==
    stop = "done" =>
        /\ ws = "none" /\ receiver = "none" /\ keepalive = "none"
        /\ driver \in {"off", "failed", "done"}
        /\ pending = {} /\ atDoor = {} /\ ~loggedIn

\* The coordinator hears nothing more from a client it has stopped.
QuietAfterStop == [][stop # "no" => announced' = announced]_vars

-----------------------------------------------------------------------------
(* Liveness.                                                               *)

\* A session that is over, or whose peer has vanished, is noticed.
DeadLinkNoticed ==
    driver = "watch" /\ (silent \/ ws # "open" \/ closed)
        ~> announced = "down" \/ stop # "no"

\* A lost session is established again once the door lets it.
Recovers == announced = "down" ~> announced = "up" \/ stop # "no"
RecoversIfFair == DoorFairness => Recovers

\* "So no caller waits forever."
CallsReturn == \A c \in Callers : call[c] # "idle" ~> call[c] = "idle"

\* async_stop returns, whatever the supervisor was doing.
StopFinishes == stop # "no" ~> stop = "done"

-----------------------------------------------------------------------------
(* The client implements Session.                                          *)

Dead == announced = "up" /\ stop = "no" /\ (closed \/ silent \/ ws # "open")
Asking == {c \in Callers : call[c] # "idle"}
Halting == CASE stop = "no" -> "no" [] stop = "done" -> "done" [] OTHER -> "running"

Service == INSTANCE Session WITH notice <- announced, dead <- Dead,
                                 halt <- Halting, asking <- Asking

\* Every step of the client is a step of Session or leaves it alone.
ServiceSafety == Service!Safety

\* And with a door that lets it the client keeps what Session promises about
\* progress.
ServiceProgress == Service!Fairness
ProgressIfFair == DoorFairness => ServiceProgress
=============================================================================
