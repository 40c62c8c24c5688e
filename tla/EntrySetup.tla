----------------------------- MODULE EntrySetup -----------------------------
(***************************************************************************)
(* The life of a config entry, from its set-up to its unload (__init__.py, *)
(* coordinator.py), the dialogs that make and repair it (config_flow.py),  *)
(* and the others who want the one session that a door gives an account:   *)
(* the phone app and the diagnostic script.                                *)
(*                                                                         *)
(* A client is what SiegeniaClient promises: a login that works or fails,  *)
(* a session that may be taken away, and a supervisor that tries again.    *)
(* Connecting and logging in are one step.  What Home Assistant does with  *)
(* an exception of a set-up or a poll is modelled from how this code uses  *)
(* it.                                                                     *)
(* A definition that is preceded by a faulty variant of itself is one the  *)
(* README lists.                                                           *)
(***************************************************************************)
EXTENDS Naturals

CONSTANTS
    Addresses,    \* of the network
    Home,         \* where the door is in the beginning
    Passwords,    \* that the door may have, or a user may type
    MaxChanges,   \* changes of the network or the door's password, unloads
    MaxTroubles,  \* commands that fail at a device that is there
    MaxSubmits,   \* forms that a user submits
    MaxVisits     \* logins of the app, runs of the script

ASSUME HomeAssumption == Home \in Addresses
ASSUME BoundsAssumption ==
    MaxChanges \in Nat /\ MaxTroubles \in Nat /\ MaxSubmits \in Nat /\ MaxVisits \in Nat

VARIABLES
    network,    \* what answers at an address
    password,   \* of the account that the entry uses, at the door
    marks,      \* what doors tell of themselves that no other door has
    conn,       \* the connection of each party: what it is to, and its state
    entry,      \* where the set-up is
    stored,     \* entry.data
    reload,     \* a reload is scheduled
    asked,      \* a re-authentication flow waits for the user
    flow,       \* the dialog
    script,     \* where the script is, with its exit code
    changes, troubles, submits, visits

world == <<network, password, marks>>
entryVars == <<entry, stored, reload, asked>>
bounds == <<changes, troubles, submits, visits>>
vars == <<world, conn, entryVars, flow, script, bounds>>

Parties == {"entry", "flow", "script", "app"}
Devices == {"door", "other", "drive"}
ACS == {"door", "other"}     \* DEVICE_TYPE_ACS; the entry belongs to "door"
Nothing == "nothing"

None == [to |-> Nothing, at |-> "none"]
NoFlow == [kind |-> "none", at |-> "none", data |-> [addr |-> Home, pw |-> 0], probed |-> Nothing]
NotRun == [at |-> "idle", exit |-> "none"]

TypeOK ==
    /\ network \in [Addresses -> Devices \cup {Nothing}]
    /\ password \in Passwords /\ marks \in {"serial", "mac", "nothing"}
    /\ conn \in [Parties -> [to : Devices \cup {Nothing}, at : {"none", "in", "evicted", "gone"}]]
    /\ \A p, q \in Parties : conn[p] = conn[q] /\ conn[p] = [to |-> "door", at |-> "in"] => p = q
    /\ entry \in {"setting_up", "identifying", "refreshing", "loaded",
                  "retry", "auth_error", "not_loaded"}
    /\ stored \in [addr : Addresses, pw : Passwords]
    /\ reload \in BOOLEAN /\ asked \in BOOLEAN
    /\ flow.kind \in {"none", "user", "reauth", "reconfigure"}
    /\ flow.at \in {"none", "form", "probing", "logging_in", "reading"}
    /\ flow.probed \in IF flow.at \in {"logging_in", "reading"} THEN Devices ELSE {Nothing}
    /\ script \in [at : {"idle", "connected", "in", "done"},
                   exit : {"none", "ok", "connect_failed", "auth_failed", "session_occupied"}]
    /\ changes \in 0..MaxChanges /\ troubles \in 0..MaxTroubles
    /\ submits \in 0..MaxSubmits /\ visits \in 0..MaxVisits

\* The entry was made for the door; passwords are alike, so it has any.  There
\* may be a second door, of the same kind; a drive comes later, if it comes.
Init ==
    /\ network \in {n \in [Addresses -> ACS \cup {Nothing}] : \A a \in Addresses :
                        n[a] = "door" <=> a = Home}
    /\ password = CHOOSE pw \in Passwords : TRUE
    /\ marks \in {"serial", "mac", "nothing"}
    /\ conn = [p \in Parties |-> None]
    /\ entry = "setting_up"
    /\ stored \in [addr : {Home}, pw : Passwords]
    /\ reload = FALSE /\ asked = FALSE
    /\ flow = NoFlow
    /\ script = NotRun
    /\ changes = 0 /\ troubles = 0 /\ submits = 0 /\ visits = 0

-----------------------------------------------------------------------------
(* The devices.                                                            *)

In(p) == conn[p].at = "in"
Busy(p) == \E q \in Parties \ {p} : conn[q] = [to |-> "door", at |-> "in"]

\* The new holder evicts the old one.
LetIn(p, dev) ==
    conn' = [q \in Parties |-> IF q = p THEN [to |-> dev, at |-> "in"]
                               ELSE IF dev = "door" /\ conn[q] = [to |-> "door", at |-> "in"]
                               THEN [to |-> "door", at |-> "evicted"] ELSE conn[q]]

Disconnect(p) == conn' = [conn EXCEPT ![p] = None]

\* A trouble: the command, or the connection, fails.
Trouble == troubles < MaxTroubles /\ troubles' = troubles + 1

\* What comes of a login: the door knows its password, and may refuse a login
\* for another reason, which the client takes for the same; of other devices
\* this code knows nothing.
Login(p, dev, pw, outcome) ==
    CASE outcome = "ok"       -> dev # Nothing /\ (dev = "door" => pw = password)
                                 /\ UNCHANGED troubles
      [] outcome = "occupied" -> dev = "door" /\ pw = password /\ Busy(p) /\ UNCHANGED troubles
      [] outcome = "rejected" -> /\ dev # Nothing
                                 /\ IF dev = "door" /\ pw = password THEN Trouble
                                    ELSE UNCHANGED troubles
      [] outcome = "failed"   -> IF dev = Nothing THEN UNCHANGED troubles ELSE Trouble

\* People change the door's password, or what is at an address; whoever was
\* connected to a device that goes is cut off.
Changed == changes < MaxChanges /\ changes' = changes + 1

PasswordChanges ==
    /\ Changed
    /\ password' \in Passwords \ {password}
    /\ UNCHANGED <<network, marks, conn, entryVars, flow, script, troubles, submits, visits>>

DeviceChanges ==
    /\ Changed
    /\ \E a \in Addresses, dev \in Devices \cup {Nothing} :
          /\ network[a] # dev
          /\ dev = "door" => \A b \in Addresses : network[b] # "door"
          /\ network' = [network EXCEPT ![a] = dev]
          /\ conn' = [p \in Parties |-> IF conn[p].at # "none" /\ conn[p].to = network[a]
                                        THEN [conn[p] EXCEPT !.at = "gone"] ELSE conn[p]]
    /\ UNCHANGED <<password, marks, entryVars, flow, script, troubles, submits, visits>>

AppLogsIn ==
    /\ visits < MaxVisits
    /\ ~In("app") /\ \E a \in Addresses : network[a] = "door"
    /\ visits' = visits + 1
    /\ LetIn("app", "door")
    /\ UNCHANGED <<world, entryVars, flow, script, changes, troubles, submits>>

AppLeaves ==
    /\ conn["app"].at # "none"
    /\ Disconnect("app")
    /\ UNCHANGED <<world, entryVars, flow, script, bounds>>

-----------------------------------------------------------------------------
(* async_setup_entry and _async_setup.  A set-up that fails stops the      *)
(* client, itself or through the async_shutdown that the entry runs.       *)

NotReady == entry' = "retry" /\ UNCHANGED asked
AuthFailed == entry' = "auth_error" /\ asked' = TRUE

SetupLogin ==
    /\ entry = "setting_up"
    /\ \E outcome \in {"ok", "occupied", "rejected", "failed"} :
          /\ Login("entry", network[stored.addr], stored.pw, outcome)
          /\ CASE outcome = "ok"     -> /\ LetIn("entry", network[stored.addr])
                                        /\ entry' = "identifying" /\ UNCHANGED asked
               [] outcome = "failed" -> NotReady /\ UNCHANGED conn
               [] OTHER              -> AuthFailed /\ UNCHANGED conn
    /\ UNCHANGED <<world, stored, reload, flow, script, changes, submits, visits>>

\* A command of a client: answered, failed, or answered as one who is not
\* logged in, which the door does to one who has lost the session.
Fails(p) == IF In(p) THEN Trouble ELSE UNCHANGED troubles
Refused(p) == \/ conn[p].at = "evicted" /\ UNCHANGED troubles
              \/ In(p) /\ Trouble

GaveUpOnType == entry' = "auth_error" /\ UNCHANGED asked
WrongType == NotReady

Identify ==
    /\ entry = "identifying"
    /\ \/ /\ In("entry") /\ conn["entry"].to \in ACS
          /\ entry' = "refreshing"
          /\ UNCHANGED <<conn, asked, troubles>>
       \/ /\ In("entry") /\ conn["entry"].to \notin ACS
          /\ WrongType
          /\ Disconnect("entry")
          /\ UNCHANGED troubles
       \/ Fails("entry") /\ NotReady /\ Disconnect("entry")
       \/ Refused("entry") /\ AuthFailed /\ Disconnect("entry")
    /\ UNCHANGED <<world, stored, reload, flow, script, changes, submits, visits>>

\* async_shutdown
ShutdownForgetful == UNCHANGED conn
Shutdown == Disconnect("entry")

FirstRefresh ==
    /\ entry = "refreshing"
    /\ \/ /\ In("entry")
          /\ entry' = "loaded"
          /\ UNCHANGED <<conn, asked, troubles>>
       \/ Fails("entry") /\ NotReady /\ Shutdown
       \/ Refused("entry") /\ AuthFailed /\ Shutdown
    /\ UNCHANGED <<world, stored, reload, flow, script, changes, submits, visits>>

\* Home Assistant tries again after ConfigEntryNotReady.
RetrySetup ==
    /\ entry = "retry" \/ entry = "not_loaded"
    /\ entry' = "setting_up"
    /\ UNCHANGED <<world, conn, stored, reload, asked, flow, script, bounds>>

Reload ==
    /\ reload
    /\ entry \in {"loaded", "retry", "auth_error", "not_loaded"}
    /\ reload' = FALSE
    /\ entry' = "setting_up"
    /\ Shutdown
    /\ UNCHANGED <<world, stored, asked, flow, script, bounds>>

Unload ==
    /\ Changed
    /\ entry = "loaded"
    /\ entry' = "not_loaded"
    /\ Shutdown
    /\ UNCHANGED <<world, stored, reload, asked, flow, script, troubles, submits, visits>>

\* A poll of the running entry that is answered with an authentication status,
\* as is one before the client has read the notice of a takeover.
PollRefused ==
    /\ entry = "loaded"
    /\ Refused("entry")
    /\ asked' = TRUE
    /\ UNCHANGED <<world, conn, entry, stored, reload, flow, script, changes, submits, visits>>

NoticesLoss ==
    /\ entry = "loaded"
    /\ conn["entry"].at = "evicted"
    /\ conn' = [conn EXCEPT !["entry"].at = "gone"]
    /\ UNCHANGED <<world, entryVars, flow, script, bounds>>

\* The supervisor: whatever fails, it tries again.
Reconnect ==
    /\ entry = "loaded"
    /\ conn["entry"].at = "gone"
    /\ \E outcome \in {"ok", "occupied", "rejected", "failed"} :
          /\ Login("entry", network[stored.addr], stored.pw, outcome)
          /\ IF outcome = "ok" THEN LetIn("entry", network[stored.addr]) ELSE UNCHANGED conn
    /\ UNCHANGED <<world, entryVars, flow, script, changes, submits, visits>>

-----------------------------------------------------------------------------
(* The config flow.                                                        *)

Opens ==
    /\ flow = NoFlow
    /\ submits < MaxSubmits
    /\ \E kind \in {"user", "reconfigure"} \cup IF asked THEN {"reauth"} ELSE {} :
          flow' = [NoFlow EXCEPT !.kind = kind, !.at = "form"]
    /\ UNCHANGED <<world, conn, entryVars, script, bounds>>

Closes ==
    /\ flow.at = "form"
    /\ flow' = NoFlow
    /\ UNCHANGED <<world, conn, entryVars, script, bounds>>

\* Re-authentication takes the address from the entry.
Submits ==
    /\ flow.at = "form"
    /\ submits < MaxSubmits
    /\ submits' = submits + 1
    /\ \E pw \in Passwords, a \in IF flow.kind = "reauth" THEN {stored.addr} ELSE Addresses :
          flow' = [flow EXCEPT !.at = "probing", !.data = [addr |-> a, pw |-> pw]]
    /\ UNCHANGED <<world, conn, entryVars, script, changes, troubles, visits>>

BackKeepingDevice == flow' = [flow EXCEPT !.at = "form"]
BackToForm == flow' = [flow EXCEPT !.at = "form", !.probed = Nothing]

ProceedsToAny(dev) == dev # Nothing
Proceeds(dev) == dev \in ACS

\* async_probe, a connection that is closed again, and the check of the type.
Probes ==
    /\ flow.at = "probing"
    /\ LET dev == network[flow.data.addr] IN
        IF Proceeds(dev)
        THEN \/ flow' = [flow EXCEPT !.at = "logging_in", !.probed = dev] /\ UNCHANGED troubles
             \/ Trouble /\ BackToForm
        ELSE BackToForm /\ UNCHANGED troubles
    /\ UNCHANGED <<world, conn, entryVars, script, changes, submits, visits>>

FlowLogin ==
    /\ flow.at = "logging_in"
    /\ \E outcome \in {"ok", "occupied", "rejected", "failed"} :
          /\ Login("flow", network[flow.data.addr], flow.data.pw, outcome)
          /\ IF outcome = "ok"
             THEN /\ LetIn("flow", network[flow.data.addr])
                  /\ flow' = [flow EXCEPT !.at = "reading"]
             ELSE BackToForm /\ UNCHANGED conn
    /\ UNCHANGED <<world, entryVars, script, changes, submits, visits>>

\* The unique id that the dialog gives the door: the serial number that the
\* probe read, else the MAC address of what it has logged in to, else the
\* address; and the id of the entry, from when it was made.  Devices that do
\* not tell the same kind of mark never have the same id.
UniqueId(probed, device, addr) ==
    CASE marks = "serial" -> <<"serial", probed>>
      [] marks = "mac"    -> <<"mac", device>>
      [] OTHER            -> <<"address", addr>>
Identity == UniqueId(flow.probed, conn["flow"].to, flow.data.addr)
EntryId == UniqueId("door", "door", Home)

KeepsAnyDoor == TRUE
\* _abort_if_unique_id_mismatch; "user" goes on with the entry that has the id,
\* or makes an entry of its own, which is not this one.  Re-authentication
\* compares nothing.
KeepsDoor == flow.kind \in {"reconfigure", "user"} => Identity = EntryId

\* The steps after _async_validate; "user" reloads what runs.
Accepted ==
    IF KeepsDoor
    THEN /\ stored' = flow.data
         /\ reload' = (reload \/ flow.kind # "user"
                          \/ (stored # flow.data /\ entry \in {"loaded", "retry"}))
         /\ asked' = (asked /\ flow.kind # "reauth")
    ELSE UNCHANGED <<stored, reload, asked>>

LeaveOpen(p) == UNCHANGED conn
Leave(p) == Disconnect(p)

\* getDeviceParams, and async_stop whatever comes of it.
FlowReads ==
    /\ flow.at = "reading"
    /\ Leave("flow")
    /\ \/ /\ In("flow")
          /\ Accepted
          /\ flow' = NoFlow
          /\ UNCHANGED troubles
       \/ /\ Fails("flow")
          /\ BackToForm
          /\ UNCHANGED <<stored, reload, asked>>
    /\ UNCHANGED <<world, entry, script, changes, submits, visits>>

-----------------------------------------------------------------------------
(* diagnostic_script.py, with the account of the entry.                    *)

ScriptConnects ==
    /\ script = NotRun
    /\ visits < MaxVisits
    /\ visits' = visits + 1
    /\ LET dev == network[stored.addr] IN
        script' = IF dev = Nothing THEN [at |-> "done", exit |-> "connect_failed"]
                  ELSE [at |-> "connected", exit |-> "none"]
    /\ UNCHANGED <<world, conn, entryVars, flow, changes, troubles, submits>>

ScriptLogin ==
    /\ script.at = "connected"
    /\ \E outcome \in {"ok", "occupied", "rejected", "failed"} :
          /\ Login("script", network[stored.addr], stored.pw, outcome)
          /\ IF outcome = "ok" THEN LetIn("script", network[stored.addr]) ELSE UNCHANGED conn
          /\ script' = CASE outcome = "ok"       -> [at |-> "in", exit |-> "none"]
                         [] outcome = "occupied" -> [at |-> "done", exit |-> "session_occupied"]
                         [] OTHER                -> [at |-> "done", exit |-> "auth_failed"]
    /\ UNCHANGED <<world, entryVars, flow, changes, submits, visits>>

\* Every query is "best effort": its failure does not end the report.
ScriptReports ==
    /\ script.at = "in"
    /\ script' = [at |-> "done", exit |-> "ok"]
    /\ Leave("script")
    /\ UNCHANGED <<world, entryVars, flow, bounds>>

-----------------------------------------------------------------------------

World == PasswordChanges \/ DeviceChanges \/ AppLogsIn \/ AppLeaves
Setup == SetupLogin \/ Identify \/ FirstRefresh \/ Reload
Running == NoticesLoss \/ Reconnect
Validation == Probes \/ FlowLogin \/ FlowReads
Script == ScriptLogin \/ ScriptReports

Next ==
    \/ World \/ Setup \/ RetrySetup \/ Unload \/ PollRefused \/ Running
    \/ Opens \/ Closes \/ Submits \/ Validation
    \/ ScriptConnects \/ Script

\* Home Assistant and the supervisor try again, commands are answered or fail.
Fairness ==
    /\ WF_vars(Setup) /\ WF_vars(entry = "retry" /\ RetrySetup)
    /\ WF_vars(Running) /\ WF_vars(Validation) /\ WF_vars(Script)

Spec == Init /\ [][Next]_vars
FairSpec == Spec /\ Fairness

-----------------------------------------------------------------------------
(* Properties.                                                             *)

\* A set-up that fails, an unload, a dialog however it goes on and a run of
\* the script leave no session behind that would keep others out.
NothingLeftOpen ==
    /\ conn["entry"].at # "none" => entry \in {"identifying", "refreshing", "loaded"}
    /\ conn["flow"].at # "none" => flow.at = "reading"
    /\ conn["script"].at # "none" => script.at = "in"

\* "The device family is checked first": a dialog logs in to something that is
\* no door only when it has taken the door's place since.
OnlyToDoors ==
    [][In("flow")' /\ ~In("flow") =>
          conn'["flow"].to \in ACS \/ flow.probed # conn'["flow"].to]_vars

\* "Keep the entry pointed at the same physical door": a dialog changes the
\* address of an entry only to where its door is, as the MAC address of what
\* was logged in to tells, or was when it told its serial number to the probe;
\* a door that tells neither keeps its entry at the address it was made for.
\* What answers at the address that the entry has already is not compared.
StaysOnDoor ==
    [][stored'.addr # stored.addr =>
          \/ marks # "nothing" /\ network[stored'.addr] = "door"
          \/ marks = "serial" /\ flow.probed = "door"]_vars

\* What an entry comes to when nothing changes any more: it is connected, or
\* the user has been asked for credentials, or has unloaded it, or there is
\* a reason that passes by itself; or a running session was rejected, which
\* the supervisor tells nobody.
Settled ==
    \/ entry = "loaded" /\ In("entry")
    \/ asked \/ entry = "not_loaded"
    \/ network[stored.addr] # "door" \/ In("app")
    \/ entry = "loaded" /\ stored.pw # password

Settles == <>[]Settled

\* "The door at {host} rejected the stored credentials": the user is asked for
\* them only when they are wrong.
AskedOnlyAfterRejection ==
    [][asked' /\ ~asked /\ network[stored.addr] = "door" => stored.pw # password]_vars
=============================================================================
