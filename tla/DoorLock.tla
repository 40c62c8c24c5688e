------------------------------ MODULE DoorLock ------------------------------
(***************************************************************************)
(* What the user sees of the door: the coordinator that polls it and takes *)
(* its pushes (coordinator.py) and the lock entity that shows a command    *)
(* optimistically until the door confirms it (lock.py), over a session     *)
(* that SiegeniaClient keeps.                                              *)
(*                                                                         *)
(* Time passes in units.  A timer fires when it is due and a task that was *)
(* woken runs before time goes on; answers and pushes take as long as they *)
(* like.  DataUpdateCoordinator, the timers of Home Assistant and the door *)
(* are modelled from how this code uses them.                              *)
(***************************************************************************)
EXTENDS Integers, Sequences

CONSTANTS
    Polls,           \* refreshes that may be in progress at a time
    Callers,         \* service calls to the lock that may be open at a time
    Moving, Default, Relaxed,   \* POLL_INTERVAL_MOVING, _DEFAULT and _PUSH
    PushIdle,        \* PUSH_IDLE_TIMEOUT
    FastFor,         \* how long a command makes polling fast
    TransitionFor,   \* TRANSITION_TIMEOUT
    OpenFor,         \* OPEN_TRANSITION_TIMEOUT
    MaxMoves,        \* changes that people make at the door
    MaxCommands,     \* service calls
    MaxTroubles,     \* lost sessions, takeovers, timeouts and rejected refreshes
    MaxEnrollments,  \* fingerprints that are enrolled
    MaxFrames        \* frames on their way from the door

ASSUME IntervalAssumption ==
    /\ Moving \in Nat \ {0} /\ Default \in Nat /\ Relaxed \in Nat
    /\ Moving < Default /\ Default < Relaxed
    /\ PushIdle \in Nat \ {0}
    /\ FastFor \in Nat \ {0} /\ TransitionFor \in Nat \ {0} /\ OpenFor \in Nat \ {0}
ASSUME BoundsAssumption ==
    /\ MaxMoves \in Nat /\ MaxCommands \in Nat /\ MaxTroubles \in Nat
    /\ MaxEnrollments \in Nat /\ MaxFrames \in Nat

VARIABLES
    door,       \* daymode and state, as the door has them
    want,       \* the daymode it has accepted and not yet turned to
    inbox,      \* frames from the door
    enrollment, \* none, running, or aborting: the door still refuses polls
    link,       \* up; taken or lost, which nobody has been told yet; closing; down
    polls,      \* the refreshes in progress
    requested,  \* async_request_refresh has been called
    refresh,    \* time until the next scheduled refresh
    interval,   \* update_interval
    fast,       \* time until _fast_poll_until
    pushAge,    \* time since _last_push, up to PushIdle
    data,       \* self.data of the coordinator
    available,  \* last_update_success
    reauth,     \* a re-authentication was started since the session came up
    calls,      \* the service calls
    target,     \* _target_daymode
    opening,    \* _opening
    timer,      \* time until _transition_timer fires
    moves, commands, troubles, enrollments

doorVars == <<door, want, enrollment>>
paceVars == <<requested, refresh, interval, fast, pushAge>>
shownVars == <<data, available, reauth>>
transition == <<target, opening, timer>>
boundVars == <<moves, commands, troubles, enrollments>>
vars == <<doorVars, inbox, link, polls, paceVars, shownVars, calls, transition, boundVars>>

Off == -1
Daymodes == {"day", "night"}
Params == [daymode : Daymodes \cup {"unknown"}, state : {"OPEN", "CLOSED"}]
NoPoll == [at |-> "idle"]
NoCall == [at |-> "idle"]
Refused == "refused"
\* What makes SiegeniaAuthError: session_occupied, and the _AUTH_STATUSES.
AuthStatuses == {"occupied", "denied"}
Rejection == AuthStatuses \cup {Refused}
Failure == Rejection \cup {"down"}
Failed(reason) == [at |-> "answered", failed |-> reason]
Notice == [taken |-> TRUE]   \* of a takeover, asked by nobody
Whats == {"lock", "unlock", "open"}
Longest == IF TransitionFor > OpenFor THEN TransitionFor ELSE OpenFor

TypeOK ==
    /\ door \in Params
    /\ want \in Daymodes \cup {"none"}
    /\ \A i \in 1..Len(inbox) :
          inbox[i] \in [push : {"OPEN", "CLOSED"}] \cup [poll : Polls, ok : Params]
                           \cup [poll : Polls, failed : Rejection] \cup {Notice}
    /\ Len(inbox) <= MaxFrames
    /\ enrollment \in {"none", "running", "aborting"}
    /\ link \in {"up", "taken", "lost", "closing", "down"}
    /\ polls \in [Polls -> [at : {"idle", "waiting", "cut", "sent", "replied"}]
                             \cup [at : {"answered"}, ok : Params]
                             \cup [at : {"answered"}, failed : Failure]]
    /\ requested \in BOOLEAN
    /\ refresh \in Off..Relaxed
    /\ interval \in {Moving, Default, Relaxed}
    /\ fast \in 0..FastFor
    /\ pushAge \in 0..PushIdle
    /\ data \in Params
    /\ available \in BOOLEAN /\ reauth \in BOOLEAN
    /\ calls \in [Callers -> [at : {"idle"}]
                               \cup [at : {"waiting", "sent", "failed"}, what : Whats]]
    /\ target \in Daymodes \cup {"none"}
    /\ opening \in BOOLEAN
    /\ timer \in Off..Longest
    /\ moves \in 0..MaxMoves /\ commands \in 0..MaxCommands
    /\ troubles \in 0..MaxTroubles /\ enrollments \in 0..MaxEnrollments

\* The entry has been set up: its first refresh is done, the next is scheduled.
Init ==
    /\ door \in [daymode : {"night", "unknown"}, state : {"CLOSED"}]
    /\ want = "none"
    /\ inbox = <<>>
    /\ enrollment = "none"
    /\ link = "up"
    /\ polls = [p \in Polls |-> NoPoll]
    /\ requested = FALSE
    /\ refresh = Default
    /\ interval = Default
    /\ fast = 0
    /\ pushAge = PushIdle
    /\ data = door
    /\ available = TRUE /\ reauth = FALSE
    /\ calls = [c \in Callers |-> NoCall]
    /\ target = "none" /\ opening = FALSE /\ timer = Off
    /\ moves = 0 /\ commands = 0 /\ troubles = 0 /\ enrollments = 0

-----------------------------------------------------------------------------
(* The entity.                                                             *)

InTransition == timer # Off

\* Only the timer is replaced: the caller has recorded what it drives towards.
ResetTransition == target' = "none" /\ opening' = FALSE /\ timer' = Off

\* _device_reached_target
Reached(d) == IF target # "none" THEN d.daymode = target ELSE opening /\ d.state = "OPEN"

ExtendTransition(d) ==
    IF InTransition /\ Reached(d)
    THEN ResetTransition
    ELSE /\ timer' = IF InTransition THEN TransitionFor ELSE Off
         /\ UNCHANGED <<target, opening>>

\* _handle_coordinator_update
Notify(d) ==
    IF InTransition /\ Reached(d) THEN ResetTransition ELSE UNCHANGED transition

\* is_locked
Shown == IF InTransition /\ target # "none" THEN target ELSE data.daymode

-----------------------------------------------------------------------------
(* The pace of polling.                                                    *)

IntervalPushOnly(f, age) ==
    IF f > 0 THEN Moving ELSE IF age < PushIdle THEN Off ELSE Default

\* _reschedule: the interval, not the timer that is already set.
Interval(f, age) ==
    IF f > 0 THEN Moving ELSE IF age < PushIdle THEN Relaxed ELSE Default

\* _begin_transition with async_expect_change.
BeginCleared(daymode, open, timeout) ==
    /\ target' = "none" /\ opening' = FALSE /\ timer' = timeout
    /\ fast' = FastFor
    /\ interval' = Interval(FastFor, pushAge)
    /\ UNCHANGED <<requested, refresh, pushAge>>

BeginTransition(daymode, open, timeout) ==
    /\ target' = daymode /\ opening' = open /\ timer' = timeout
    /\ fast' = FastFor
    /\ interval' = Interval(FastFor, pushAge)
    /\ UNCHANGED <<requested, refresh, pushAge>>

\* Timers that are due fire, and tasks that are woken run, first.
Settled ==
    /\ refresh # 0 /\ timer # 0
    /\ link \in {"up", "down"}
    /\ \A p \in Polls : polls[p].at \notin {"answered", "cut"}
    /\ \A c \in Callers : calls[c].at # "failed"

Down(n) == IF n > 0 THEN n - 1 ELSE n

Tick ==
    /\ Settled
    /\ refresh' = Down(refresh)
    /\ fast' = Down(fast)
    /\ timer' = Down(timer)
    /\ pushAge' = IF pushAge < PushIdle THEN pushAge + 1 ELSE pushAge
    /\ UNCHANGED <<doorVars, inbox, link, polls, requested, interval, shownVars,
                   calls, target, opening, boundVars>>

\* _async_transition_timeout
TransitionTimeout ==
    /\ timer = 0
    /\ ResetTransition
    /\ UNCHANGED <<doorVars, inbox, link, polls, paceVars, shownVars, calls, boundVars>>

-----------------------------------------------------------------------------
(* Refreshes.                                                              *)

\* The client sends one command at a time.
TurnFree ==
    /\ \A p \in Polls : polls[p].at \notin {"sent", "replied"}
    /\ \A c \in Callers : calls[c].at # "sent"

\* The socket is open and the receive loop reads it, in a session or not any more.
Open == link \in {"up", "taken", "closing"}

\* A refresh begins, scheduled or requested, and takes both back.
PollBegins(p) ==
    /\ polls[p].at = "idle"
    /\ refresh = 0 \/ requested
    /\ polls' = [polls EXCEPT ![p] = IF Open THEN [at |-> "waiting"] ELSE Failed("down")]
    /\ refresh' = Off
    /\ requested' = FALSE
    /\ UNCHANGED <<doorVars, inbox, link, interval, fast, pushAge, shownVars, calls,
                   transition, boundVars>>

\* It gets its turn: it sends, unless its socket was closed while it waited.
PollSends(p) ==
    /\ polls[p].at \in {"waiting", "cut"}
    /\ TurnFree
    /\ polls' = [polls EXCEPT ![p] = IF polls[p].at = "waiting" THEN [at |-> "sent"]
                                     ELSE Failed("down")]
    /\ UNCHANGED <<doorVars, inbox, link, paceVars, shownVars, calls, transition, boundVars>>

\* The door reads itself; while it enrolls it refuses.
PollHandled(p) ==
    /\ polls[p].at = "sent"
    /\ Len(inbox) < MaxFrames
    /\ polls' = [polls EXCEPT ![p] = [at |-> "replied"]]
    /\ inbox' = Append(inbox, IF enrollment = "none" THEN [poll |-> p, ok |-> door]
                              ELSE [poll |-> p, failed |-> Refused])
    /\ UNCHANGED <<doorVars, link, paceVars, shownVars, calls, transition, boundVars>>

\* Or it rejects the refresh, which may be how it tells of a takeover.
PollRejected(p) ==
    /\ troubles < MaxTroubles
    /\ polls[p].at = "sent"
    /\ Len(inbox) < MaxFrames
    /\ polls' = [polls EXCEPT ![p] = [at |-> "replied"]]
    /\ \E status \in Rejection : inbox' = Append(inbox, [poll |-> p, failed |-> status])
    /\ troubles' = troubles + 1
    /\ UNCHANGED <<doorVars, link, paceVars, shownVars, calls, transition,
                   moves, commands, enrollments>>

\* _handle_takeover: the supervisor is woken; socket and receive loop go on.
TakenOver == link' = IF link = "up" THEN "taken" ELSE link

\* The reply resolves the future: the refresh goes on when its task runs.
ReplyArrives ==
    /\ inbox # <<>>
    /\ LET r == Head(inbox) IN
        /\ "poll" \in DOMAIN r
        /\ polls' = [polls EXCEPT ![r.poll] =
                        IF "ok" \in DOMAIN r THEN [at |-> "answered", ok |-> r.ok]
                        ELSE Failed(r.failed)]
        /\ IF "failed" \in DOMAIN r /\ r.failed = "occupied" THEN TakenOver ELSE UNCHANGED link
    /\ inbox' = Tail(inbox)
    /\ UNCHANGED <<doorVars, paceVars, shownVars, calls, transition, boundVars>>

PollTimesOut(p) ==
    /\ troubles < MaxTroubles
    /\ polls[p].at = "sent"
    /\ polls' = [polls EXCEPT ![p] = Failed("down")]
    /\ troubles' = troubles + 1
    /\ UNCHANGED <<doorVars, inbox, link, paceVars, shownVars, calls, transition,
                   moves, commands, enrollments>>

\* _async_update_data returned parameters.
PollSucceeds(p) ==
    /\ polls[p].at = "answered" /\ "ok" \in DOMAIN polls[p]
    /\ data' = polls[p].ok
    /\ available' = TRUE
    /\ interval' = Interval(fast, pushAge)
    /\ refresh' = interval'
    /\ Notify(polls[p].ok)
    /\ polls' = [polls EXCEPT ![p] = NoPoll]
    /\ UNCHANGED <<doorVars, inbox, link, requested, fast, pushAge, reauth, calls, boundVars>>

\* While the flow says that it enrolls, the last data stand for an answer.
RidesOutAll == TRUE
RidesOut == enrollment = "running"

\* It failed.  An authentication error starts a re-authentication, and nothing
\* is scheduled.
PollFails(p) ==
    /\ polls[p].at = "answered" /\ "failed" \in DOMAIN polls[p]
    /\ LET auth == polls[p].failed \in AuthStatuses IN
        /\ available' = (~auth /\ RidesOut)
        /\ refresh' = IF auth THEN refresh ELSE interval
        /\ reauth' = (reauth \/ auth)
    /\ IF available \/ available' THEN Notify(data) ELSE UNCHANGED transition
    /\ polls' = [polls EXCEPT ![p] = NoPoll]
    /\ UNCHANGED <<doorVars, inbox, link, requested, interval, fast, pushAge, data,
                   calls, boundVars>>

\* handle_push: a delta is merged and the timer is set again.
HandlePush ==
    /\ inbox # <<>>
    /\ "push" \in DOMAIN Head(inbox)
    /\ LET merged == [data EXCEPT !.state = Head(inbox).push] IN
        /\ data' = merged
        /\ Notify(merged)
    /\ inbox' = Tail(inbox)
    /\ available' = TRUE
    /\ pushAge' = 0
    /\ interval' = Interval(fast, 0)
    /\ refresh' = interval'
    /\ requested' = FALSE
    /\ UNCHANGED <<doorVars, link, polls, fast, reauth, calls, boundVars>>

-----------------------------------------------------------------------------
(* The session.                                                            *)

\* The receive loop has ended.  What it has not read is lost, who waits for an
\* answer fails, and who waits for its turn will when it gets it.
CutOff ==
    /\ inbox' = <<>>
    /\ polls' = [p \in Polls |-> CASE polls[p].at \in {"sent", "replied"} -> Failed("down")
                                   [] polls[p].at = "waiting"             -> [at |-> "cut"]
                                   [] OTHER                               -> polls[p]]
    /\ calls' = [c \in Callers |-> IF calls[c].at \in {"waiting", "sent"}
                                   THEN [calls[c] EXCEPT !.at = "failed"] ELSE calls[c]]

SessionDrops ==
    /\ troubles < MaxTroubles
    /\ link \in {"up", "taken"}
    /\ troubles' = troubles + 1
    /\ link' = "lost"
    /\ CutOff
    /\ UNCHANGED <<doorVars, paceVars, shownVars, transition, moves, commands, enrollments>>

\* Another client logs in, and the door says so.
SessionTaken ==
    /\ troubles < MaxTroubles
    /\ link = "up"
    /\ Len(inbox) < MaxFrames
    /\ troubles' = troubles + 1
    /\ inbox' = Append(inbox, Notice)
    /\ UNCHANGED <<doorVars, link, polls, paceVars, shownVars, calls, transition,
                   moves, commands, enrollments>>

NoticeArrives ==
    /\ inbox # <<>>
    /\ Head(inbox) = Notice
    /\ TakenOver
    /\ inbox' = Tail(inbox)
    /\ UNCHANGED <<doorVars, polls, paceVars, shownVars, calls, transition, boundVars>>

\* A task that was woken before runs before: none has an answer in hand.
NoAnswer == \A p \in Polls : polls[p].at # "answered"

\* handle_availability(False), and then _async_close: until that has closed the
\* socket the receive loop goes on reading.
AvailabilityLost ==
    /\ link \in {"taken", "lost"}
    /\ NoAnswer
    /\ link' = IF link = "taken" THEN "closing" ELSE "down"
    /\ available' = FALSE
    /\ IF available THEN Notify(data) ELSE UNCHANGED transition
    /\ UNCHANGED <<doorVars, inbox, polls, paceVars, data, reauth, calls, boundVars>>

SessionCloses ==
    /\ link = "closing"
    /\ NoAnswer
    /\ link' = "down"
    /\ CutOff
    /\ UNCHANGED <<doorVars, paceVars, shownVars, transition, boundVars>>

\* handle_availability(True)
RequestNothing == UNCHANGED requested
RequestRefresh == requested' = TRUE

AvailabilityBack ==
    /\ link = "down"
    /\ link' = "up"
    /\ RequestRefresh
    /\ reauth' = FALSE
    /\ UNCHANGED <<doorVars, inbox, polls, refresh, interval, fast, pushAge, data, available,
                   calls, transition, boundVars>>

-----------------------------------------------------------------------------
(* lock, unlock and open.                                                  *)

DaymodeOf(what) == CASE what = "lock" -> "night" [] what = "unlock" -> "day"
                     [] what = "open" -> "none"

\* PARALLEL_UPDATES = 1.
MayBeginAny == TRUE
MayBegin == \A c \in Callers : calls[c].at = "idle"

\* The daymode of a door that has none cannot be set.
Command(c, what) ==
    /\ commands < MaxCommands
    /\ calls[c].at = "idle"
    /\ MayBegin
    /\ what = "open" \/ data.daymode # "unknown"
    /\ commands' = commands + 1
    /\ calls' = [calls EXCEPT ![c] = [at |-> IF Open THEN "waiting" ELSE "failed",
                                      what |-> what]]
    /\ BeginTransition(DaymodeOf(what), what = "open",
                       IF what = "open" THEN OpenFor ELSE TransitionFor)
    /\ UNCHANGED <<doorVars, inbox, link, polls, shownVars, moves, troubles, enrollments>>

CommandSends(c) ==
    /\ calls[c].at = "waiting"
    /\ TurnFree
    /\ calls' = [calls EXCEPT ![c].at = "sent"]
    /\ UNCHANGED <<doorVars, inbox, link, polls, paceVars, shownVars, transition, boundVars>>

\* "A successful reply means the device accepted the change."
CommandAccepted(c) ==
    /\ calls[c].at = "sent"
    /\ want' = IF calls[c].what = "open" THEN want ELSE DaymodeOf(calls[c].what)
    /\ calls' = [calls EXCEPT ![c] = NoCall]
    /\ UNCHANGED <<door, enrollment, inbox, link, polls, paceVars, shownVars, transition,
                   boundVars>>

\* It is refused, or its answer does not come in time.
CommandRefused(c) ==
    /\ calls[c].at = "sent"
    /\ want' \in {want} \cup ({DaymodeOf(calls[c].what)} \cap Daymodes)
    /\ calls' = [calls EXCEPT ![c].at = "failed"]
    /\ UNCHANGED <<door, enrollment, inbox, link, polls, paceVars, shownVars, transition,
                   boundVars>>

\* _end_transition
CommandFails(c) ==
    /\ calls[c].at = "failed"
    /\ calls' = [calls EXCEPT ![c] = NoCall]
    /\ ResetTransition
    /\ UNCHANGED <<doorVars, inbox, link, polls, paceVars, shownVars, boundVars>>

\* async_press of the button: a command of its own, whose turn is that of this
\* step, and a refresh.  If the command fails, nothing changes.
Press ==
    /\ commands < MaxCommands
    /\ link = "up" /\ TurnFree
    /\ commands' = commands + 1
    /\ RequestRefresh
    /\ UNCHANGED <<doorVars, inbox, link, polls, refresh, interval, fast, pushAge, shownVars,
                   calls, transition, moves, troubles, enrollments>>

-----------------------------------------------------------------------------
(* The door, and the people at it.  Only the state is pushed.              *)

DoorTurns ==
    /\ want # "none"
    /\ door' = [door EXCEPT !.daymode = want]
    /\ want' = "none"
    /\ UNCHANGED <<enrollment, inbox, link, polls, paceVars, shownVars, calls, transition,
                   boundVars>>

SomebodyTurns ==
    /\ moves < MaxMoves
    /\ door.daymode # "unknown"
    /\ door' = [door EXCEPT !.daymode = IF @ = "day" THEN "night" ELSE "day"]
    /\ moves' = moves + 1
    /\ UNCHANGED <<want, enrollment, inbox, link, polls, paceVars, shownVars, calls,
                   transition, commands, troubles, enrollments>>

SomebodyMoves ==
    /\ moves < MaxMoves
    /\ Len(inbox) < MaxFrames
    /\ LET state == IF door.state = "OPEN" THEN "CLOSED" ELSE "OPEN" IN
        /\ door' = [door EXCEPT !.state = state]
        /\ inbox' = IF Open THEN Append(inbox, [push |-> state]) ELSE inbox
    /\ moves' = moves + 1
    /\ UNCHANGED <<want, enrollment, link, polls, paceVars, shownVars, calls, transition,
                   commands, troubles, enrollments>>

\* enrollment_active is set while the enrollment runs, and cleared before an
\* abort reaches the door.
EnrollmentStarts ==
    /\ enrollments < MaxEnrollments
    /\ enrollment = "none"
    /\ enrollment' = "running"
    /\ enrollments' = enrollments + 1
    /\ UNCHANGED <<door, want, inbox, link, polls, paceVars, shownVars, calls, transition,
                   moves, commands, troubles>>

EnrollmentEnds ==
    /\ \/ enrollment = "running" /\ enrollment' \in {"none", "aborting"}
       \/ enrollment = "aborting" /\ enrollment' = "none"
    /\ UNCHANGED <<door, want, inbox, link, polls, paceVars, shownVars, calls, transition,
                   boundVars>>

-----------------------------------------------------------------------------

Poll(p) ==
    \/ PollBegins(p) \/ PollSends(p) \/ PollHandled(p) \/ PollRejected(p) \/ PollTimesOut(p)
    \/ PollSucceeds(p) \/ PollFails(p)

Call(c) ==
    \/ \E what \in Whats : Command(c, what)
    \/ CommandSends(c) \/ CommandAccepted(c) \/ CommandRefused(c) \/ CommandFails(c)

Next ==
    \/ Tick \/ TransitionTimeout
    \/ ReplyArrives \/ HandlePush
    \/ SessionDrops \/ SessionTaken \/ NoticeArrives
    \/ AvailabilityLost \/ SessionCloses \/ AvailabilityBack
    \/ \E p \in Polls : Poll(p)
    \/ \E c \in Callers : Call(c)
    \/ Press
    \/ DoorTurns \/ SomebodyTurns \/ SomebodyMoves \/ EnrollmentStarts \/ EnrollmentEnds

\* Time goes on, tasks run, the client's lock is fair, frames arrive, the
\* door answers and does what it accepted, an enrollment ends, and the
\* supervisor gets the session back.
Fairness ==
    /\ WF_vars(Tick) /\ WF_vars(TransitionTimeout)
    /\ WF_vars(ReplyArrives) /\ WF_vars(HandlePush) /\ WF_vars(NoticeArrives)
    /\ WF_vars(AvailabilityLost) /\ WF_vars(SessionCloses) /\ WF_vars(AvailabilityBack)
    /\ WF_vars(DoorTurns) /\ WF_vars(EnrollmentEnds)
    /\ \A p \in Polls :
          /\ WF_vars(PollBegins(p)) /\ SF_vars(PollSends(p)) /\ WF_vars(PollHandled(p))
          /\ WF_vars(PollSucceeds(p)) /\ WF_vars(PollFails(p))
    /\ \A c \in Callers :
          /\ SF_vars(CommandSends(c)) /\ WF_vars(CommandAccepted(c))
          /\ WF_vars(CommandFails(c))

Spec == Init /\ [][Next]_vars
FairSpec == Spec /\ Fairness

-----------------------------------------------------------------------------
(* Properties.                                                             *)

\* An optimistic state is always backed by a timer ("this must always
\* expire"), and a timer by the one state it stands for: after any order of
\* commands, confirmations, failures and timeouts.
TransitionIsTimed ==
    /\ InTransition <=> target # "none" \/ opening
    /\ ~(target # "none" /\ opening)

\* What the lock shows while a command is out is that command's transition or
\* the door's own state: so a failing command gives up nobody else's
\* transition.
OwnTransition ==
    \A c \in Callers : calls[c].at # "idle" /\ InTransition =>
        target = DaymodeOf(calls[c].what) /\ opening = (calls[c].what = "open")

\* "Polling stays as the backstop": a refresh is in progress, requested or
\* scheduled, as long as the door is shown as available, also by the last frames
\* of a session that is over, and in every session until a refresh of that
\* session is rejected for authentication, which Home Assistant takes to the
\* user and never follows by another refresh.
Armed == refresh # Off \/ requested \/ \E p \in Polls : polls[p].at # "idle"

BackstopArmed == available \/ (link = "up" /\ ~reauth) => Armed

\* Once the socket is closed only an enrollment makes the door look available
\* again.  Before, between the loss that was told and the close, a push that was
\* still read may; BackstopArmed says that the next refresh then finds out.
UnreachableIsShown ==
    [][link = "down" /\ ~available /\ available' => enrollment = "running"]_vars

\* Every optimistic transition ends, however often the coordinator updates.
TransitionEnds == InTransition ~> ~InTransition

\* When people leave the door alone, it is shown as it is in the end, or the
\* user has been asked for credentials that the door accepts.
Converges ==
    <>[](reauth \/ (available /\ data = door /\ Shown = door.daymode /\ ~InTransition))

\* "Poll rapidly for a while after issuing a command": while a command makes
\* polling fast, the next refresh is not further away than a whole such while.
FastPolling ==
    fast > 0 /\ link = "up" => refresh <= FastFor
=============================================================================
