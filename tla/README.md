# A TLA+ model of the SIEGENIA door integration

These modules model the Home Assistant integration in
`src/custom_components/siegenia_door/`: the session it keeps with a SIEGENIA ACS
door, what it shows of the door, how it enrolls fingerprints and manages the door's
users, and how a config entry is set up, repaired and unloaded. TLC checks them on
small instances; TLAPS proves every invariant and every action property of the
passing runs for every value of the constants.

## The system

Everything runs on one asyncio loop. A task is interrupted only where it awaits,
so an action of a module is what one task does between two awaits, and what can
go wrong lies between the awaits.

| Part | State it keeps | Operations | What makes it correct |
|---|---|---|---|
| **Session client** (`api.py`) | the WebSocket, the receive loop, the keepalive, the supervisor, `_closed`, `_logged_in`, `_pending`, the command lock | `async_start`, `async_stop`, `async_command`; reconnect, keepalive, dispatch, takeover | every command returns, with its own answer; a lost session is noticed, announced once, and replaced; nothing is left after a stop |
| **Coordinator** (`coordinator.py`) | the cached parameters, `update_interval`, the fast-poll window, the age of the last push, `enrollment_active` | poll, push, availability, `async_expect_change` | what is shown becomes what the door has; polling goes on; a refused poll during an enrollment does not hide the lock, and nothing else does hide that the door is away |
| **Lock entity** (`lock.py`) | the target, `_opening`, the transition timer | lock, unlock, open, coordinator update, timeout | an optimistic state belongs to the command that is out, and ends |
| **Fingerprint enrollment** (`config_flow.py`) | `_enrolling`, the worker, the dialog | start, poll to the end, abort, close the dialog | success is real; the door is let go; the flag is not left behind |
| **User dialogs** (`config_flow.py`, `api.py`) | the chosen user, the form's options | list, create and delete users, remove credentials | a dialog acts on what the user saw |
| **Config flow** (`config_flow.py`, `async_probe`) | none between steps | user, re-authentication, reconfiguration | a second session is always closed again; no dialog leads the entry away from its door |
| **Set-up and unload** (`__init__.py`, `coordinator.py`) | `runtime_data` | set up, first refresh, unload | a failed set-up leaves no session; it is tried again, or the user is asked |
| Button (`button.py`) | none | one command, one requested refresh | |
| Diagnostics, constants | none | one read | |
| `tools/diagnostic_script.py` | a socket of its own | log in, query, report | it takes the session and gives it back |

How they interact. The client calls the coordinator back synchronously:
`handle_push` from the receive loop, `handle_availability` from the supervisor
and from the login. The coordinator, the lock, the button and the dialogs await
`async_command`, one at a time because of the command lock. The dialogs set
`enrollment_active` on the coordinator. The lock entity listens to the
coordinator and shortens its interval. Home Assistant (the `DataUpdateCoordinator`
base class, timers, the flow manager, `PARALLEL_UPDATES`), aiohttp and the door
are not part of the repository; they are modelled from how this code uses them.

What is hard to test here: a task that is cancelled, or a session that is lost,
at any one of the awaits; frames that arrive together; a timeout that races a late
answer; state that is read before an await and used after it. `PROJECT.json`
lists each such hazard at its line, with the properties that cover it.

## Modules

| Module | Models |
|---|---|
| `Session` | abstract: what the client promises. Notices of availability alternate, only a session that is over is announced as lost, everyone who asks is answered, a stop is final. |
| `SiegeniaClient` | `api.py`: the session, in full detail; `ServiceSafety` and `ServiceProgress` say that it implements `Session`. |
| `Queues` | the queue of an `asyncio.Lock`, in the client and in `Enrollment`. |
| `DoorLock` | `coordinator.py` and `lock.py` together, over a session, with the door and the people at it. |
| `Enrollment` | the enrollment part of the options flow, one instance per open dialog, with the door's enrollment machine. |
| `UserDialogs` | the other steps of the options flow and the commands of `api.py` they use, over the door's store of users and credentials, which the phone app and other flows change too. |
| `EntrySetup` | a config entry from set-up to unload, the config flow, the diagnostic script, and what else wants the session of the account. |
| `MC...` | the symmetry sets of the instances that have them. |
| `QueueProofs` | lemmas: what joining, leaving and being taken out of a queue does. |
| `SiegeniaClientProofs`, `CommandProofs`, `SessionProofs` | the theorems about `SiegeniaClient`: the session; its commands; that it implements `Session`. Each extends the one before. |
| `DoorLockProofs`, `EnrollmentProofs`, `UserDialogsProofs`, `EntrySetupProofs` | the theorems about the module of that name. |

### SiegeniaClient

`driver` is the task in `async_start` and then the supervisor that it creates: its
values are the awaits of `_async_open`, `_async_login`, `_async_close` and
`_async_supervise`. `keepalive` and `receiver` are the two other tasks of a
connection, `stop` is the task in `async_stop`, and `closing` says where the task
that runs `_async_close` (the driver or `async_stop`) is waiting. For every task that
sends commands, `call` says where it is in `async_command`; `lock` is the queue of
`_command_lock`, whose head holds it (`Without` takes a task out of it, wherever it is), `pending` the keys of `_pending`, `stale` the
tasks whose local `ws` is a socket that has been given up, and `atDoor` the requests
the door may still answer.

Points the model is careful about:

- `Event.set` wakes the supervisor later, so `SupervisorWakes` is a step of its
  own and the login, a takeover and a drop interleave with it.
- `_async_close` awaits the keepalive and the receive loop under
  `suppress(CancelledError)`. A cancellation that hits it there is swallowed
  (`Swallowed`), and only `_stopping` stops the supervisor.
- A request that was given up may be answered late or never (`Late`), and a
  timeout may win over an answer that its task has not been resumed with yet.
- A socket can die silently: only a keepalive finds out.

The door may delay a frame as it likes, so handling a frame and choosing it are one
step. `count(1)` never repeats an id; the model reuses the ids nobody knows any
more, which `IdsAssumption` and `BoundAssumption` make enough, so that the state
space is finite. The close handshake of aiohttp is part of `SocketClosed`.

### DoorLock

Time passes in units (`Tick`). Timers that are due fire and tasks that are woken
run before time goes on (`Settled`); frames take as long as they like. The intervals
keep the order of `const.py`: moving < default < push. A refresh is begun, waits for the client's lock,
is answered by the door, resolved by the receive loop (`ReplyArrives`) and stored
when its task runs (`PollSucceeds`): a push can be handled between the last two,
when both frames came in one read. `refresh` is the timer that Home Assistant has
scheduled and `interval` is `update_interval`; they differ after `_reschedule`,
because assigning the interval does not move the timer. After a
`ConfigEntryAuthFailed`, which a refresh raises when it is answered
`session_occupied` or with one of `_AUTH_STATUSES`, Home Assistant starts a
re-authentication (`reauth`, until the next session) and schedules nothing, whether or
not the session is over. A takeover ends nothing at once: `_handle_takeover` wakes the
supervisor (`taken`), the supervisor tells the loss and begins to close (`closing`), and
until the socket is closed frames are still read and commands still sent. So `link` is
`up`, `taken`, `closing` and `down`, or `lost` between the end of the receive loop and
the notice. A task that waited for its turn when its socket closed (`cut`) fails when it
gets it. The debouncer of `async_request_refresh` is abstracted to a request that is
served at some time, unless a push cancels it. `Press` is the button, whose command waits
and is answered in one step.

### Enrollment

`at` is where the task of a dialog is: the submitted step, then the worker.
Commands go through the lock of the client, which a poll or a keepalive may hold
at any time, so a queued command may stay queued for a while. `ACCEPTED` is the
door between taking `createAccessProperty` and reporting `START`: it reports what
it reported before, which may be a terminal state of an earlier enrollment, the
firmware that the comment at `config_flow.py:648` defends against. The
states `START`, `ENROLL` and `SYNC` are one, `RUNNING`, as in the code's
`ENROLLMENT_IN_PROGRESS`.

### UserDialogs

`flow[d].at` is the form, menu or enumeration a dialog is at, `userid` is `_userid`,
`title` is whom the open form names and `options` is what it offers; `scan` is
`async_list_users` between two `getUser`s. A command and the door's handling of it are one step, because what can go
wrong here lies between reading a form's options and submitting them, with all the
time in the world. A command that fails may all the same be carried out later
(`late`), once, unless the entry is unloaded, which closes the socket. While an
enrollment runs the door answers `getUser` and polls with an error. Users and
credentials carry the number of their birth, which no id of the code says: `wrong`
collects whom a request was meant for that hit somebody else, because the door had
handed the id out again. `FINISH` does not mean that the credential can be read
(docs/acs-user-protocol.md:284): it is `hidden` from `getUser` until `Appears`. The door has an administrator and may have another user, so it
has two ids at least (`SizesAssumption`). A dialog whose entry has been unloaded raises
`AttributeError` in `_client` and stays where it is.

### EntrySetup

A client is abstracted to what `SiegeniaClient` establishes: a login succeeds, is
rejected, finds the session occupied or fails; a session can be taken away; a
supervisor tries again and again. `conn` says for the entry, the open dialog, the
script and the phone app what it is connected to. `entry` follows `_async_setup` and
the first refresh await by await: `setting_up` (`async_start`), `identifying`
(`getDevice`), `refreshing` (the first `getDeviceParams`), `loaded`; and where Home
Assistant takes the entry for an exception: `retry` for `ConfigEntryNotReady`,
`auth_error` with a re-authentication (`asked`) for `ConfigEntryAuthFailed`. It runs
`async_shutdown` also for a set-up that fails, and reloads after a dialog has changed
`entry.data`. The dialog's validation is three steps, `Probes`, `FlowLogin` and
`FlowReads`, between which devices may change places. What it knows a door by is
`UniqueId`: the serial number that the probe read, else the MAC address of what it
logged in to, else the address. `marks` is which of them doors tell. Ids of different
kinds are never the same, so it is enough that all doors tell alike. A login that is
refused for any reason counts as rejected credentials (`api.py:504`).

## What TLC checks

| Run | Instance | Shows |
|---|---|---|
| `client` | two callers, five ids, one late answer, loop fairness | The safety of the session: nobody loses a wakeup (`Watched`), commands are serialised and get their own answers, nothing else is out while the login is, nothing pending is forgotten, no connection overwrites another, the notices agree with the supervisor, a stop is clean and quiet. Each step is a step of `Session`. A dead link is noticed, every command returns, `async_stop` returns: whatever the door does. If besides the door is fair (`RecoversIfFair`, `ProgressIfFair`), a lost session comes back, with the progress of `Session`. |
| `enrollment_solo` | one dialog; one timeout, one lost session, one closed dialog | Success is real, polls are ridden out, the dialog ends, the door is let go. |
| `enrollment_rivals` | two dialogs, same bounds | No success without a capture; the shared flag is not left behind. |
| `enrollment_orphan` | one dialog that is closed | **Violation**: the door is left enrolling for nobody. |
| `lock_safety` | two refreshes, two service calls, one move, trouble and enrollment each | Transitions are timed and belong to the command that is out; polling goes on while the door is shown as available and in every session, until a refresh is rejected for authentication (`BackstopArmed`); only an enrollment hides that the door is away. |
| `lock_live` | one of each, no enrollment | Transitions end; what is shown becomes what the door has, unless the user is asked for credentials. |
| `lock_pace` | one push, one command | **Violation**: no fast polling after a push. |
| `users_safety` | two dialogs, two slots, three ids, one change with the phone app, one trouble | Who is still there is never mistaken for another (`WrongOnlyIfGone`); the enumeration misses people only for a known reason (`ListedUnlessOvertaken`); no credential is enrolled over that could be read when the slot was submitted (`NoKnownSlotOverwritten`). |
| `users_created` | one dialog | **Violation**: a new user is not listed. |
| `users_mistaken` | one dialog, two changes with the phone app | **Violation**: a removal hits another user's credential. |
| `entry_life` | two addresses, two passwords, two changes, one trouble, one form, one visitor | No session is left open; dialogs log in to doors; a dialog changes the entry's address only to where its door is, as far as it can tell (`StaysOnDoor`); a set-up ends connected, or waits for something that passes, or asks the user (`Settles`). |
| `entry_asked` | the phone app logs in once | **Violation**: the user is asked for credentials that are right. |

The bounds. Callers are alike, and two suffice for one that holds the lock and one
that waits while a third, the keepalive or the login, contends; reconnects are not
bounded, since all counters of the client are abstracted away. `MaxLate` bounds how
many abandoned requests the door may still answer, `MaxTimeouts`, `MaxDrops` and
`MaxCloses` what may go wrong in an enrollment, `MaxMoves`, `MaxCommands`,
`MaxTroubles`, `MaxEnrollments` and `MaxFrames` what may happen around the lock,
`MaxBirths`, `MaxOthers` and `MaxTroubles` what happens to the store of users: with
two births after the first three, somebody can be deleted and his id handed out again
while a form is open. `ScanLimit` is all three ids, so that a gap has somebody behind
it. Two `MaxChanges` let a device go and come back, or the door move, and one
`MaxVisits` lets the app or the script take the session; the entry, the dialog and
the visitor then compete for it.
Each is large enough for every action to fire and for the interesting pairs to
race: a timeout and a late answer, a close and an abort, a push and a poll.
`Converges` needs them: it speaks of a door that people leave alone in the end.

Deadlock is checked for `DoorLock`, which never stops. A client that has been
stopped and dialogs that have ended do stop, and an entry that is loaded has nothing
to do in `EntrySetup`, where polls that succeed change nothing; so those runs do not
check it.

Fairness. `LoopFairness` (client): tasks that can run do run, timers that are armed
fire (a keepalive, a response timeout, a connect timeout, a backoff) and nothing
else; the peer need not do anything. `DoorFairness` adds that a connection attempt
succeeds if attempts go on and that from some time on the session stays up while
the login waits for its answer, which is then positive: a reconnect cannot
succeed otherwise. `Enrollment`: tasks run, the door answers, the deadline comes;
never that a finger is presented. `DoorLock`: time goes on, tasks run, the lock of
the client is fair (asyncio's is first-in first-out), frames arrive, the session comes
back. `EntrySetup`: commands are answered or fail, Home Assistant tries a set-up again
after `ConfigEntryNotReady`, the supervisor reconnects, and a door whose session
others leave alone lets a right login in eventually; never that a user opens or submits a form or that the app leaves.

A definition that is preceded by a faulty variant of itself (`HasTurnUnlocked` before
`HasTurn`) is a sensitivity test: with the variant in its place, the property named
beside it in `PROJECT.json` is violated. The variants are plausible mistakes, such
as a dropped lock, a wakeup that is not sent, a flag that is set too late.

### Findings

1. **A dialog closed while its failed worker waits leaves the door enrolling.** The
   worker clears `_enrolling` (`config_flow.py:694`) before it awaits the abort; a
   close then cancels the worker, and `async_remove` returns early.
2. **No fast polling after a push.** `_reschedule` assigns `update_interval`, but the
   refresh that is scheduled stays where it is: up to 60 s away, and the window is 30 s.
3. **A new user is not listed.** `async_list_users` stops at the `usercount` of the last
   poll (`api.py:350`, `config_flow.py:391`), and nothing polls after `createUser`.
4. **A removal hits another user's credential.** The form sends the `apid` that it read
   when it was shown (`config_flow.py:548`). The door hands an `apid` out again once its
   credential is gone (docs/acs-user-protocol.md:329), which can happen while the form
   is open. A test says that removal by `apid` cannot (`tests/test_options_flow.py:175`).
   `WrongOnlyIfGone` says that nothing worse happens: what is still there is not hit
   instead of something else.
5. **The user is asked for right credentials.** A login or poll that is answered
   `session_occupied` counts as an authentication failure (`api.py:78`,
   `coordinator.py:116`, `138`).

Orders the models contain that are no separate runs:

- Two dialogs that both find the door at rest both start, and the second replaces the
  first (`config_flow.py:642` and 666 are separated by awaits); `SomebodySucceeded` says
  what still holds.
- A poll whose reply was read before a push is stored after it, so that the older
  position is shown until the next poll; `Converges` says that it does not stay.
- A push that is read after a takeover, between the notice of the loss (`api.py:592`) and
  the close of the socket (593), makes the coordinator show the door as available
  although the session is over. `BackstopArmed` says that a refresh is scheduled then,
  and `UnreachableIsShown` starts with the close.
- A refresh that is rejected with an authentication status in the middle of a session
  ends the polling of that session: `BackstopArmed` and `Converges` exempt `reauth`.
- A finger that was captured and cannot be read yet, or was enrolled between the
  submission of a slot and the start of the enrollment, is enrolled over.
  `tests/test_options_flow.py:231` says that a race cannot overwrite a slot, and the
  repository's README (line 99) that a slot that somebody else has claimed while the
  form was open is rejected; `NoKnownSlotOverwritten` says how far that goes.
- With the fallback to the address, a dialog accepts whatever door answers at the
  address the entry was made for, and a re-authentication accepts any door at the
  entry's address. With a serial number a door that takes the place of the one that was
  probed, before the login, is accepted too. `StaysOnDoor` leaves these out.

What the properties exempt on purpose. `OrphanOnlyKnownWays` and `DoorIsReleased` say
nothing of a behaviour with a timeout: the flow cannot know then what the door has done.
`Settles` accepts a running session whose reconnect is rejected for ever, of which the
supervisor tells nobody, and a question to the user whose credentials are right.
`ListedUnlessOvertaken` accepts a `usercount` that is too low or filled by newcomers.
`LoginFirst` does not speak of commands after a login that failed. `PROJECT.json` notes
this at the hazards concerned.

`OrphanOnlyKnownWays` lists the ways the first can happen together with the
timeouts after which the flow cannot know whether the door has started.

## What is proved

Every invariant and every action property that a passing run checks is a theorem: it
holds for every value of the constants that satisfies the assumptions, which TLC
evaluates on the instances. The assumptions are those of the modules: tasks of callers
are not named like the client's own and there are enough ids (`SiegeniaClient`, see
below); the intervals keep their order (`DoorLock`); what stands for nobody or for the
phone app is not a dialog (`Enrollment`, `UserDialogs`); the entry's address is an address
(`EntrySetup`); bounds are natural numbers.

None of the properties is inductive. Each proof module has an invariant `IInv` that is,
or two together (`IInv` and `CommandInv`), states it as theorem `Invariance`, and
concludes the properties from it. TLC has checked each on the instance of its run
(`lock_safety`: 4.8 million states; `entry_life`: 1.9 million; `users_safety`: 1.8
million; `enrollment_rivals`: 439 thousand; `client`: 135 thousand). The proofs
go action by action, or, where many actions move a part of the state the same way, over
a lemma that says how it moves (`CallMoves`, `PollsMove`, `AskMoves`, `Moves`).

**The session** (`SiegeniaClientProofs`). `WatchedAlways`, `NobodyForgotten`,
`NothingOverwritten`, `RolesKept`, `StopLeavesNothing` and `StopIsQuiet` prove
`Watched`, `PendingNotForgotten`, `FreshStart`, `AnnouncedIsCurrent`, `StoppedIsClean`
and `QuietAfterStop`. That the supervisor's wakeup is not lost depends on which tasks
are alive, which depends on how far a close has come, which depends on who runs it:
`IInv` is the types and `Roles` (the driver, the stop and the close), `Socket` (the
socket, its receive loop and the event), `KeepaliveLife`, `Requests` (who may be waiting
for what while the socket is in which state) and `Login`.

**Its commands** (`CommandProofs`). `OneAtATime`, `AnswersAreOwn` and `LoginIsFirst`
prove `Serialised`, `OwnAnswer` and `LoginFirst`. `CommandInv` says that the lock's queue
is exactly the tasks in `async_command`, each once, that their ids differ, that the
client's own tasks post only what their place asks for, and (`LoginLeads`) that whoever is
in front of the login in the queue will not send on the new socket any more: this is
what keeps a command that waited through the reconnect behind the login. It does not keep
commands off a socket whose login has failed, until that is closed, nor off one that was
taken over. `AlwaysAnId`
shows that the finite pool of ids, which stands for `count(1)`, never runs out under
`BoundAssumption`, so that it restricts nothing.

**The refinement** (`SessionProofs`). `ImplementsSession` proves `ServiceSafety`: with
the mapping at the end of `SiegeniaClient`, every step of the client is a step of
`Session` or leaves what it speaks of alone. `StepSimulation` goes through the actions
and names the abstract step of each.

**The lock entity and the coordinator** (`DoorLockProofs`). `AlwaysExpires`,
`GivesUpItsOwn`, `PollingContinues` and `StaysUnavailable` prove `TransitionIsTimed`,
`OwnTransition`, `BackstopArmed` and `UnreachableIsShown`, for any number of refreshes and
service calls. Besides the types the proof needs that nothing that is on its way outlives
its socket (`SessionOK`): otherwise a late answer could show a door as available after the
close. That polling goes on rests on who may leave no refresh behind: only one that is
rejected for authentication, and that one makes the door unavailable and sets `reauth`;
each step that shows the door as available again, a push too, schedules the next refresh.

**Enrollment** (`EnrollmentProofs`). For any number of dialogs, `FlagIsLowered` and
`SuccessIsSomebodys` prove `FlagNotStuck` and `SomebodySucceeded`. The second needs
`Hopeful`: as long as nothing was captured, a `FINISH` that can be read is that of
somebody at the door itself, and then no dialog has found the machine at rest. For
a dialog without a rival (`Alone`, at most one options flow is open)
`SuccessIsItsOwn`, `PollsRiddenOut` and `DoorIsAttended` prove `SuccessIsReal`,
`PollsAreRiddenOut` and `OrphanOnlyKnownWays`. With a rival they are false: two dialogs
that both find the door at rest both start, the second replaces the first, and each reads
the other's end and lowers the flag they share. `InOrder` is what they rest on: without a
timeout, what a dialog has last read or commanded is what the door is at.

**The users' dialogs** (`UserDialogsProofs`). For any number of dialogs, slots and ids,
`OnlyTheGoneAreMistaken`, `NobodyElseIsMissed` and `SlotIsRespected` prove
`WrongOnlyIfGone`, `ListedUnlessOvertaken` and `NoKnownSlotOverwritten`. The argument has
two halves. The store of the door only goes on (`Moves`): a step keeps who is there under
his id, removes him, or adds somebody with a higher number; nobody comes back. And what a
form, an enumeration or a request remembers is true of whatever is still there (`Named`,
`Kept`, `Scanned`, `Means`), and what is in a submitted slot is not what could be read
there at its submission (`Clear`, `Spared`); both are kept by every step that only goes on (`SoundStays`,
`LateStays`). `OverIsListed` is a counting argument: if as many were found as were there,
and nobody else, everybody was.

**The entry** (`EntrySetupProofs`). `ClosesWhatItOpened`, `LogsInToDoors` and
`KeepsTheDoor` prove `NothingLeftOpen`, `OnlyToDoors` and `StaysOnDoor`. `ConnOK` says
that at most one party has the door's session, `FlowOK` what a dialog has examined when
it logs in and writes, `PlaceOK` that a dialog with the door's session reads at the
address it was given, and that an entry known by its address has never moved.

`TypeCorrect` proves `TypeOK` in each module.

Only model-checked is what needs fairness: `DeadLinkNoticed`, `CallsReturn`,
`StopFinishes`, `RecoversIfFair` and `ProgressIfFair` of the client, `DialogEnds` and
`DoorIsReleased` of an enrollment, `TransitionEnds` and `Converges` of the lock, `Settles`
of the entry; fairness and `ENABLED` are beyond the prover. Nothing here computes by
recursion.

## What is not modelled

- Splitting a frame into several JSON objects (`iter_json_objects`) and malformed
  answers; a reply is what the client makes of it: ok, occupied or refused.
- The late answer of a poll that is taken for a push because it names its command.
- An entry that is unloaded while an enrollment runs: the branches of `config_flow.py:335`,
  `626` and `684` that find it gone. Its session is closed with it, and the door drops an
  enrollment with its session.
- An enrollment at the phone app that starts between the check and the start of the flow's.
- A set-up that Home Assistant cancels; more than one entry: a user step that finds
  another door makes an entry that is not followed further.
- Access levels of users, their validity and other fields; the `...MultiUser` command
  family, which the flow refuses.
- The removal of the lock entity, which cancels its timer.
- Diagnostics, translations, constants: no behaviour over time.
- The frames, the analysis and the report of `tools/diagnostic_script.py`.
- What a door does with a command beyond accepting it, turning and pushing its state.

## Plan

Done: `Session`, `SiegeniaClient`, `DoorLock`, `Enrollment`, `UserDialogs`, `EntrySetup`,
and the proofs of their invariants, of their action properties and of the refinement.
Left:

1. Theorems beyond the runs' properties: for how many dialogs, and under which order of
   their steps, the three results about an enrollment survive a rival.
2. `Frames`: `iter_json_objects` and the routing of `_handle_message`, against a
   reference definition over bounded frames.
