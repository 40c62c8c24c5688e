----------------------------- MODULE Enrollment -----------------------------
(***************************************************************************)
(* Enrolling a fingerprint: the options flow of config_flow.py, one per    *)
(* open dialog, and the door's enrollment machine.                         *)
(*                                                                         *)
(* A dialog is one task at a time: the step that handles the submitted     *)
(* form, then the worker it starts.  Closing the dialog may start another  *)
(* one, the cleanup.  Each has at most one command out.  The commands are  *)
(* those of SiegeniaClient: they wait for the client's lock, are sent, and *)
(* are answered or fail; here the lock may be in use by a poll or a        *)
(* keepalive at any time.                                                  *)
(*                                                                         *)
(* START, ENROLL and SYNC are one state, RUNNING, as everywhere in the     *)
(* code.  In ACCEPTED the door has taken an enrollment and does not yet    *)
(* report START, but what it reported before: NO_ENROLL_ACTIVE, or the     *)
(* terminal state "a firmware that left a terminal state lying around"     *)
(* would still show.                                                       *)
(* A definition that is preceded by a faulty variant of itself is one the  *)
(* README lists.                                                           *)
(***************************************************************************)
EXTENDS Naturals, Sequences, Queues

CONSTANTS
    Dialogs,      \* options flows a user may open
    MaxTimeouts,  \* commands that time out while the socket stays open
    MaxDrops,     \* times the session is lost
    MaxCloses     \* dialogs the user closes before they end

ASSUME BoundsAssumption ==
    MaxTimeouts \in Nat /\ MaxDrops \in Nat /\ MaxCloses \in Nat

Nobody == "nobody"
ASSUME NobodyAssumption == Nobody \notin Dialogs

VARIABLES
    door,       \* the machine, the dialog it enrolls for, and what is left over
    reported,   \* the terminal state of the machine has been read
    captured,   \* dialogs whose finger the door has captured
    up,         \* the client has a session
    wire,       \* requests the door has not handled yet
    line,       \* tasks that wait for the client's lock, in order
    ask,        \* the command of each task
    at,         \* where the task of each dialog is
    started,    \* its local `started`
    enrolling,  \* self._enrolling
    outcome,    \* what the dialog told its user in the end
    active,     \* coordinator.enrollment_active
    timeouts, drops, closes

doorVars == <<door, reported, captured>>
flowVars == <<at, started, enrolling, outcome, active>>
boundVars == <<timeouts, drops, closes>>
vars == <<doorVars, up, wire, line, ask, flowVars, boundVars>>

Main(d) == <<d, "main">>
Cleanup(d) == <<d, "cleanup">>
Procs == Dialogs \X {"main", "cleanup"}

Idle == [cmd |-> "none", at |-> "idle", got |-> "nothing"]
DoorStates == {"NONE", "ACCEPTED", "RUNNING", "FINISH", "ABORT"}
Busy == door.state \in {"ACCEPTED", "RUNNING"}
AtPeace == [state |-> "NONE", owner |-> Nobody, left |-> "NONE"]

TypeOK ==
    /\ door \in [state : DoorStates, owner : Dialogs \cup {Nobody},
                 left : {"NONE", "FINISH", "ABORT"}]
    /\ reported \in BOOLEAN
    /\ captured \in SUBSET Dialogs
    /\ up \in BOOLEAN
    /\ wire \in Seq([from : Procs, awaited : BOOLEAN,
                     cmd : {"get", "create", "abort"}])
    /\ line \in Seq(Procs)
    /\ ask \in [Procs -> [cmd : {"none", "get", "create", "abort"},
                          at : {"idle", "queued", "sent", "done"},
                          got : DoorStates \cup {"nothing", "ok", "failed"}]]
    /\ at \in [Dialogs -> {"form", "checking", "clearing", "rechecking",
                           "creating", "sleeping", "polling", "failing", "ended"}]
    /\ started \in [Dialogs -> BOOLEAN]
    /\ enrolling \in [Dialogs -> BOOLEAN]
    /\ outcome \in [Dialogs -> {"open", "success", "refused", "cannot_start",
                                "failed", "closed"}]
    /\ active \in BOOLEAN
    /\ timeouts \in 0..MaxTimeouts /\ drops \in 0..MaxDrops
    /\ closes \in 0..MaxCloses

Init ==
    /\ door \in [state : {"NONE", "RUNNING", "FINISH"}, owner : {Nobody}, left : {"NONE"}]
    /\ reported = FALSE
    /\ captured = {}
    /\ up = TRUE
    /\ wire = <<>>
    /\ line = <<>>
    /\ ask = [p \in Procs |-> Idle]
    /\ at = [d \in Dialogs |-> "form"]
    /\ started = [d \in Dialogs |-> FALSE]
    /\ enrolling = [d \in Dialogs |-> FALSE]
    /\ outcome = [d \in Dialogs |-> "open"]
    /\ active = FALSE
    /\ timeouts = 0 /\ drops = 0 /\ closes = 0

-----------------------------------------------------------------------------
(* Commands, as the client carries them out.                               *)

Queued(cmd) == [cmd |-> cmd, at |-> "queued", got |-> "nothing"]
Answered(p, got) == [ask[p] EXCEPT !.at = "done", !.got = got]
Got(p) == IF ask[p].at = "done" THEN ask[p].got ELSE "nothing"

\* A task asks for the lock with its next command, or has none.
Post(p, cmd) ==
    /\ ask' = [ask EXCEPT ![p] = Queued(cmd)]
    /\ line' = Append(line, p)
    /\ UNCHANGED wire

NoMore(p) ==
    /\ ask' = [ask EXCEPT ![p] = Idle]
    /\ UNCHANGED <<line, wire>>

\* The lock is free: p sends, or fails because there is no session.
Send(p) ==
    /\ line # <<>> /\ Head(line) = p
    /\ line' = Tail(line)
    /\ \A q \in Procs : ask[q].at # "sent"
    /\ \/ /\ up
          /\ wire' = Append(wire, [from |-> p, awaited |-> TRUE, cmd |-> ask[p].cmd])
          /\ ask' = [ask EXCEPT ![p].at = "sent"]
       \/ /\ ~up
          /\ ask' = [ask EXCEPT ![p] = Answered(p, "failed")]
          /\ UNCHANGED wire
    /\ UNCHANGED <<doorVars, up, flowVars, boundVars>>

\* Requests of p that nobody waits for any more are still on the wire.
Orphaned(p) ==
    [i \in 1..Len(wire) |-> IF wire[i].from = p
                            THEN [wire[i] EXCEPT !.awaited = FALSE] ELSE wire[i]]

\* RESPONSE_TIMEOUT, with the socket still open.
TimesOut(p) ==
    /\ timeouts < MaxTimeouts
    /\ ask[p].at = "sent"
    /\ timeouts' = timeouts + 1
    /\ ask' = [ask EXCEPT ![p] = Answered(p, "failed")]
    /\ wire' = Orphaned(p)
    /\ UNCHANGED <<doorVars, up, line, flowVars, drops, closes>>

\* The session is lost: every command fails, and "the door drops the
\* enrollment when the socket closes".
SessionDrops ==
    /\ drops < MaxDrops
    /\ up
    /\ drops' = drops + 1
    /\ up' = FALSE
    /\ wire' = <<>>
    /\ line' = <<>>
    /\ ask' = [p \in Procs |-> IF ask[p].at \in {"queued", "sent"}
                               THEN Answered(p, "failed") ELSE ask[p]]
    /\ door' = IF Busy THEN AtPeace ELSE door
    /\ UNCHANGED <<reported, captured, flowVars, timeouts, closes>>

SessionBack ==
    /\ ~up
    /\ up' = TRUE
    /\ UNCHANGED <<doorVars, wire, line, ask, flowVars, boundVars>>

-----------------------------------------------------------------------------
(* The door.                                                               *)

Reading == IF door.state = "ACCEPTED" THEN door.left ELSE door.state

\* Starting an enrollment aborts the one that runs.
Handle ==
    /\ wire # <<>>
    /\ LET r == Head(wire) IN
        /\ wire' = Tail(wire)
        /\ ask' = IF ~r.awaited THEN ask
                  ELSE [ask EXCEPT ![r.from] =
                           Answered(r.from, IF r.cmd = "get" THEN Reading ELSE "ok")]
        /\ door' = CASE r.cmd = "get" -> door
                     [] r.cmd = "create" ->
                            [state |-> "ACCEPTED", owner |-> r.from[1],
                             left |-> IF Reading = "RUNNING" THEN "NONE" ELSE Reading]
                     [] r.cmd = "abort" -> AtPeace
        /\ reported' = IF r.cmd = "get" THEN reported \/ ~Busy ELSE FALSE
    /\ UNCHANGED <<captured, up, line, flowVars, boundVars>>

\* It reaches START, captures the finger or gives up; it rests again once
\* its last state has been read.
DoorStarts ==
    /\ door.state = "ACCEPTED"
    /\ door' = [door EXCEPT !.state = "RUNNING", !.left = "NONE"]
    /\ UNCHANGED <<reported, captured, up, wire, line, ask, flowVars, boundVars>>

DoorEnds(state) ==
    /\ door.state = "RUNNING"
    /\ door' = [door EXCEPT !.state = state]
    /\ reported' = FALSE
    /\ captured' = captured \cup ({door.owner} \cap (IF state = "FINISH" THEN Dialogs ELSE {}))
    /\ UNCHANGED <<up, wire, line, ask, flowVars, boundVars>>

DoorRests ==
    /\ door.state \in {"FINISH", "ABORT"}
    /\ reported
    /\ door' = AtPeace
    /\ UNCHANGED <<reported, captured, up, wire, line, ask, flowVars, boundVars>>

-----------------------------------------------------------------------------
(* _async_start_enrollment.                                                *)

\* _async_set_enrolling.
SetEnrollingForGood(d, value) ==
    /\ enrolling' = [enrolling EXCEPT ![d] = value]
    /\ active' = (active \/ value)

SetEnrolling(d, value) ==
    /\ enrolling' = [enrolling EXCEPT ![d] = value]
    /\ active' = value

KeepFlag == UNCHANGED <<enrolling, active>>

\* A dialog that is closed already tells nobody anything.
End(d, result) ==
    /\ at' = [at EXCEPT ![d] = "ended"]
    /\ outcome' = IF outcome[d] = "open" THEN [outcome EXCEPT ![d] = result] ELSE outcome
    /\ NoMore(Main(d))
    /\ UNCHANGED started

Ask(d, where, cmd) ==
    /\ at' = [at EXCEPT ![d] = where]
    /\ Post(Main(d), cmd)
    /\ UNCHANGED outcome

Submit(d) ==
    /\ at[d] = "form"
    /\ Ask(d, "checking", "get")
    /\ KeepFlag
    /\ UNCHANGED <<started, doorVars, up, boundVars>>

\* `except SiegeniaError`: whatever failed, the flag is cleared.
CannotStart(d) ==
    /\ at[d] \in {"checking", "clearing", "rechecking", "creating"}
    /\ Got(Main(d)) = "failed"
    /\ SetEnrolling(d, FALSE)
    /\ End(d, "cannot_start")
    /\ UNCHANGED <<doorVars, up, boundVars>>

InProgress(d) == Got(Main(d)) = "RUNNING"

\* "Starting another would abort theirs", and a machine that does not come
\* to rest cannot be trusted.
Refuse(d) ==
    /\ \/ at[d] = "checking" /\ InProgress(d)
       \/ at[d] = "rechecking" /\ Got(Main(d)) \in {"RUNNING", "FINISH", "ABORT"}
    /\ KeepFlag
    /\ End(d, "refused")
    /\ UNCHANGED <<doorVars, up, boundVars>>

LeftOver(d) == Got(Main(d)) \in {"FINISH", "ABORT"}

ClearLeftOver(d) ==
    /\ at[d] = "checking"
    /\ LeftOver(d)
    /\ KeepFlag
    /\ Ask(d, "clearing", "abort")
    /\ UNCHANGED <<started, doorVars, up, boundVars>>

CheckAgain(d) ==
    /\ at[d] = "clearing"
    /\ Got(Main(d)) = "ok"
    /\ KeepFlag
    /\ Ask(d, "rechecking", "get")
    /\ UNCHANGED <<started, doorVars, up, boundVars>>

AtRestTrusting(d) == Got(Main(d)) \in {"NONE", "FINISH", "ABORT"}
AtRest(d) == Got(Main(d)) = "NONE"

\* "Flagged before the command lands."
FlagNothing(d) == KeepFlag
FlagEnrollment(d) == SetEnrolling(d, TRUE)

Create(d) ==
    /\ at[d] \in {"checking", "rechecking"}
    /\ AtRest(d)
    /\ FlagEnrollment(d)
    /\ Ask(d, "creating", "create")
    /\ UNCHANGED <<started, doorVars, up, boundVars>>

\* The door accepted: async_step_enroll starts the worker.
StartWorker(d) ==
    /\ at[d] = "creating"
    /\ Got(Main(d)) = "ok"
    /\ at' = [at EXCEPT ![d] = "sleeping"]
    /\ started' = [started EXCEPT ![d] = FALSE]
    /\ NoMore(Main(d))
    /\ KeepFlag
    /\ UNCHANGED <<outcome, doorVars, up, boundVars>>

-----------------------------------------------------------------------------
(* _async_run_enrollment and _async_poll_enrollment.                       *)

Poll(d) ==
    /\ at[d] = "sleeping"
    /\ Ask(d, "polling", "get")
    /\ KeepFlag
    /\ UNCHANGED <<started, doorVars, up, boundVars>>

Succeed(d) ==
    /\ at[d] = "polling"
    /\ Got(Main(d)) = "FINISH"
    /\ SetEnrolling(d, FALSE)
    /\ End(d, "success")
    /\ UNCHANGED <<doorVars, up, boundVars>>

\* The machine runs, or has not been seen to run yet.
GoesOn(d) == Got(Main(d)) = "RUNNING" \/ (Got(Main(d)) = "NONE" /\ ~started[d])

SeenRunning(d) == started[d] \/ Got(Main(d)) = "RUNNING"

PollAgain(d) ==
    /\ at[d] = "polling"
    /\ GoesOn(d)
    /\ started' = [started EXCEPT ![d] = SeenRunning(d)]
    /\ at' = [at EXCEPT ![d] = "sleeping"]
    /\ NoMore(Main(d))
    /\ KeepFlag
    /\ UNCHANGED <<outcome, doorVars, up, boundVars>>

FailSilently(d) ==
    /\ SetEnrolling(d, FALSE)
    /\ End(d, "failed")

\* "Every unsuccessful exit owes it an abort."
Fail(d) ==
    /\ SetEnrolling(d, FALSE)
    /\ Ask(d, "failing", "abort")
    /\ UNCHANGED started

\* The command failed, or the machine is in a state it should not be in.
PollFails(d) ==
    /\ at[d] = "polling"
    /\ Got(Main(d)) # "nothing" /\ Got(Main(d)) # "FINISH" /\ ~GoesOn(d)
    /\ Fail(d)
    /\ UNCHANGED <<doorVars, up, boundVars>>

NoDeadline(d) == FALSE

\* ENROLLMENT_TIMEOUT is over when the next round would begin.
DeadlinePasses(d) ==
    /\ at[d] = "polling"
    /\ GoesOn(d)
    /\ Fail(d)
    /\ UNCHANGED <<doorVars, up, boundVars>>

\* _async_abort_at_door is over, whether the door heard it or not.
Failed(d) ==
    /\ at[d] = "failing"
    /\ Got(Main(d)) # "nothing"
    /\ KeepFlag
    /\ End(d, "failed")
    /\ UNCHANGED <<doorVars, up, boundVars>>

-----------------------------------------------------------------------------
(* async_remove.  The manager cancels the worker first; a step that is     *)
(* still handling the form goes on.                                        *)

Cancelled(d) == at[d] \in {"form", "sleeping", "polling", "failing"}

\* The lock's queue without a cancelled worker.
InLine(d) ==
    IF Cancelled(d) /\ ask[Main(d)].at = "queued" THEN Without(line, Main(d)) ELSE line

WorkerLeftWaiting(d) ==
    [ask EXCEPT ![Main(d)].at = IF Cancelled(d) THEN "cancelled" ELSE @]
WithoutWorker(d) == [ask EXCEPT ![Main(d)] = IF Cancelled(d) THEN Idle ELSE @]

RemoveForgetful(d) ==
    /\ IF enrolling[d] THEN SetEnrolling(d, FALSE) ELSE KeepFlag
    /\ line' = InLine(d)
    /\ ask' = WithoutWorker(d)

Remove(d) ==
    IF enrolling[d]
    THEN /\ SetEnrolling(d, FALSE)
         /\ line' = Append(InLine(d), Cleanup(d))
         /\ ask' = [WithoutWorker(d) EXCEPT ![Cleanup(d)] = Queued("abort")]
    ELSE /\ KeepFlag
         /\ line' = InLine(d)
         /\ ask' = WithoutWorker(d)

Close(d) ==
    /\ closes < MaxCloses
    /\ outcome[d] = "open"
    /\ closes' = closes + 1
    /\ outcome' = [outcome EXCEPT ![d] = IF at[d] = "failing" THEN "failed" ELSE "closed"]
    /\ at' = [at EXCEPT ![d] = IF Cancelled(d) THEN "ended" ELSE @]
    /\ wire' = IF Cancelled(d) THEN Orphaned(Main(d)) ELSE wire
    /\ Remove(d)
    /\ UNCHANGED <<started, doorVars, up, timeouts, drops>>

CleanedUp(d) ==
    /\ Got(Cleanup(d)) # "nothing"
    /\ NoMore(Cleanup(d))
    /\ UNCHANGED <<doorVars, up, flowVars, boundVars>>

-----------------------------------------------------------------------------

Door == Handle \/ DoorStarts \/ DoorEnds("FINISH") \/ DoorEnds("ABORT") \/ DoorRests

Starting(d) ==
    \/ Submit(d) \/ CannotStart(d) \/ Refuse(d) \/ ClearLeftOver(d)
    \/ CheckAgain(d) \/ Create(d) \/ StartWorker(d)

Worker(d) ==
    \/ Poll(d) \/ Succeed(d) \/ PollAgain(d) \/ PollFails(d)
    \/ DeadlinePasses(d) \/ Failed(d)

Next ==
    \/ Door
    \/ SessionDrops \/ SessionBack
    \/ \E p \in Procs : Send(p) \/ TimesOut(p)
    \/ \E d \in Dialogs : Starting(d) \/ Worker(d) \/ Close(d) \/ CleanedUp(d)

\* Tasks go on, the door answers, the deadline comes.  No finger is ever
\* presented for sure: "the door waits for a finger indefinitely".
Fairness ==
    /\ WF_vars(Handle) /\ WF_vars(DoorStarts) /\ WF_vars(SessionBack)
    /\ \A p \in Procs : WF_vars(Send(p))
    /\ \A d \in Dialogs :
          /\ WF_vars(at[d] # "form" /\ Starting(d))
          /\ WF_vars(Worker(d))
          /\ SF_vars(DeadlinePasses(d))
          /\ WF_vars(CleanedUp(d))

Spec == Init /\ [][Next]_vars
FairSpec == Spec /\ Fairness

-----------------------------------------------------------------------------
(* Properties.                                                             *)

\* Someone will still end what the door does for d: its task, or an abort
\* that is out.
Attended(d) ==
    \/ at[d] \in {"creating", "sleeping", "polling", "failing"}
    \/ ask[Cleanup(d)].at \in {"queued", "sent"}
    \/ \E i \in 1..Len(wire) : wire[i].from[1] = d /\ wire[i].cmd = "abort"

Holds(d) == Busy /\ door.owner = d

\* "The door waits for a finger indefinitely, so every unsuccessful exit owes
\* it an abort or the slot stays half open."
NoOrphan == \A d \in Dialogs : Holds(d) => Attended(d)

\* The ways an enrollment can be orphaned after all: a reply or an abort that
\* timed out on an open socket, or a dialog closed while its failed worker
\* waited for the lock with the abort.
OrphanOnlyKnownWays ==
    \A d \in Dialogs : Holds(d) /\ ~Attended(d) =>
        timeouts > 0 \/ (outcome[d] = "failed" /\ closes > 0)

\* A dialog that reports success has had its finger captured.
SuccessIsReal == \A d \in Dialogs : outcome[d] = "success" => d \in captured

\* With rivals, success still means that some dialog's finger was captured.
SomebodySucceeded ==
    (\E d \in Dialogs : outcome[d] = "success") => captured # {}

\* While a dialog follows its enrollment, refused polls are ridden out.
PollsAreRiddenOut ==
    \A d \in Dialogs : Holds(d) /\ at[d] \in {"creating", "sleeping", "polling"}
                           /\ outcome[d] = "open" => active

\* The flag cannot get stuck: it would hide every later failure of a poll.
FlagNotStuck ==
    /\ active => \E d \in Dialogs : enrolling[d]
    /\ \A d \in Dialogs : enrolling[d] =>
           at[d] \in {"creating", "sleeping", "polling"}

\* Every enrollment that is started comes to an end, finger or not.
DialogEnds == \A d \in Dialogs : at[d] = "checking" ~> at[d] = "ended"

\* The door is let go, unless a command timed out or the dialog was closed
\* while it failed.
DoorIsReleased ==
    \A d \in Dialogs :
        Holds(d) ~> ~Holds(d) \/ timeouts > 0 \/ (outcome[d] = "failed" /\ closes > 0)
=============================================================================
