--------------------------- MODULE EntrySetupProofs ---------------------------
(***************************************************************************)
(* Proofs about EntrySetup, for every network, every set of passwords and  *)
(* every bound: sessions are closed again, at most one party has the       *)
(* door's, and no dialog leads the entry away from its door.               *)
(***************************************************************************)
EXTENDS EntrySetup, TLAPS

-----------------------------------------------------------------------------
(* The inductive invariant.                                                *)

Holding == [to |-> "door", at |-> "in"]
Under(f) == f.at \in {"probing", "logging_in", "reading"}

ConnOK ==
    /\ conn \in [Parties -> [to : Devices \cup {Nothing}, at : {"none", "in", "evicted", "gone"}]]
    /\ \A p, q \in Parties : conn[p] = conn[q] /\ conn[p] = Holding => p = q

WorldOK ==
    /\ network \in [Addresses -> Devices \cup {Nothing}]
    /\ password \in Passwords
    /\ marks \in {"serial", "mac", "nothing"}

EntryOK ==
    /\ entry \in {"setting_up", "identifying", "refreshing", "loaded",
                  "retry", "auth_error", "not_loaded"}
    /\ stored \in [addr : Addresses, pw : Passwords]
    /\ reload \in BOOLEAN /\ asked \in BOOLEAN

ScriptOK ==
    script \in [at : {"idle", "connected", "in", "done"},
                exit : {"none", "ok", "connect_failed", "auth_failed", "session_occupied"}]

BoundsOK ==
    /\ changes \in 0..MaxChanges /\ troubles \in 0..MaxTroubles
    /\ submits \in 0..MaxSubmits /\ visits \in 0..MaxVisits

\* A dialog has the data of its form while it examines them, has examined what
\* it logs in to and found a door there, and a re-authentication keeps the
\* address of the entry.
FlowOK ==
    /\ flow \in [kind : {"none", "user", "reauth", "reconfigure"},
                 at : {"none", "form", "probing", "logging_in", "reading"},
                 data : [addr : Addresses, pw : Passwords \cup {0}],
                 probed : Devices \cup {Nothing}]
    /\ flow.at \notin {"logging_in", "reading"} => flow.probed = Nothing
    /\ flow.at \in {"logging_in", "reading"} => flow.probed \in ACS
    /\ Under(flow) => flow.kind # "none" /\ flow.data.pw \in Passwords
    /\ Under(flow) /\ flow.kind = "reauth" => flow.data.addr = stored.addr
    /\ flow.at = "form" => flow.kind # "none"

\* A dialog that reads a door's parameters reads them at the address it was
\* given, and an entry that only its address tells has never moved.
PlaceOK ==
    /\ conn["flow"] = Holding => network[flow.data.addr] = "door"
    /\ marks = "nothing" => stored.addr = Home

IInv ==
    /\ ConnOK
    /\ WorldOK
    /\ EntryOK
    /\ ScriptOK
    /\ BoundsOK
    /\ FlowOK
    /\ PlaceOK
    /\ NothingLeftOpen

LEMMA TypeParts == IInv => TypeOK
BY DEF IInv, ConnOK, WorldOK, EntryOK, ScriptOK, BoundsOK, FlowOK, TypeOK, Holding, ACS, Devices

-----------------------------------------------------------------------------
(* What the helpers of the model do.                                       *)

Outcomes == {"ok", "occupied", "rejected", "failed"}

\* A login works only at something that is there.
LEMMA LoginOutcome ==
    ASSUME NEW p, NEW dev, NEW pw, NEW outcome \in Outcomes, Login(p, dev, pw, outcome)
    PROVE  /\ outcome = "ok" => dev # Nothing
           /\ UNCHANGED troubles \/ Trouble
BY DEF Login, Outcomes

\* The device that is let in is the only one with the door's session.
LEMMA LetInConn ==
    ASSUME ConnOK, NEW p \in Parties, NEW dev \in Devices, LetIn(p, dev)
    PROVE  /\ ConnOK'
           /\ conn'[p] = [to |-> dev, at |-> "in"]
           /\ \A q \in Parties : q # p =>
                  conn'[q] = conn[q] \/ (conn[q] = Holding /\ conn'[q].at = "evicted")
<1> USE DEF ConnOK, Holding
<1>1. conn' = [q \in Parties |-> IF q = p THEN [to |-> dev, at |-> "in"]
                  ELSE IF dev = "door" /\ conn[q] = [to |-> "door", at |-> "in"]
                       THEN [to |-> "door", at |-> "evicted"] ELSE conn[q]]
  BY DEF LetIn
<1>2. conn' \in [Parties -> [to : Devices \cup {Nothing}, at : {"none", "in", "evicted", "gone"}]]
  BY <1>1 DEF Devices
<1>3. /\ conn'[p] = [to |-> dev, at |-> "in"]
      /\ \A q \in Parties : q # p =>
             conn'[q] = IF dev = "door" /\ conn[q] = [to |-> "door", at |-> "in"]
                        THEN [to |-> "door", at |-> "evicted"] ELSE conn[q]
  BY <1>1
<1>4. \A q \in Parties : conn'[q] = [to |-> "door", at |-> "in"] =>
          q = p \/ (dev # "door" /\ conn[q] = [to |-> "door", at |-> "in"])
  BY <1>3
<1>5. \A q, r \in Parties : conn'[q] = conn'[r] /\ conn'[q] = [to |-> "door", at |-> "in"] => q = r
  <2>1. CASE dev = "door"
    BY <1>4, <2>1
  <2>2. CASE dev # "door"
    <3>1. [to |-> dev, at |-> "in"] # [to |-> "door", at |-> "in"]
      BY <2>2
    <3> QED BY <1>3, <1>4, <3>1
  <2> QED BY <2>1, <2>2
<1> QED BY <1>2, <1>3, <1>5

LEMMA DisconnectConn ==
    ASSUME ConnOK, NEW p \in Parties, Disconnect(p)
    PROVE  /\ ConnOK'
           /\ conn'[p].at = "none"
           /\ \A q \in Parties : q # p => conn'[q] = conn[q]
<1> USE DEF ConnOK, Holding
<1>1. conn' = [conn EXCEPT ![p] = [to |-> "nothing", at |-> "none"]]
  BY DEF Disconnect, None, Nothing
<1>2. /\ conn'[p] = [to |-> "nothing", at |-> "none"]
      /\ \A q \in Parties : q # p => conn'[q] = conn[q]
  BY <1>1
<1>3. conn' \in [Parties -> [to : Devices \cup {Nothing}, at : {"none", "in", "evicted", "gone"}]]
  BY <1>1 DEF Nothing
<1>4. \A q \in Parties : conn'[q] = [to |-> "door", at |-> "in"] => conn[q] = conn'[q]
  BY <1>2
<1>5. \A q, r \in Parties : conn'[q] = conn'[r] /\ conn'[q] = [to |-> "door", at |-> "in"] => q = r
  BY <1>4
<1> QED BY <1>2, <1>3, <1>5

\* Whoever was connected to a device that goes is cut off, nobody else.
LEMMA DeviceChangesConn ==
    ASSUME ConnOK, DeviceChanges
    PROVE  /\ ConnOK'
           /\ \A p \in Parties : conn'[p] = conn[p]
                  \/ (conn[p].at # "none" /\ conn'[p].at = "gone")
<1> USE DEF ConnOK, Holding
<1>1. PICK a \in Addresses : \A p \in Parties :
          conn'[p] = IF conn[p].at # "none" /\ conn[p].to = network[a]
                     THEN [conn[p] EXCEPT !.at = "gone"] ELSE conn[p]
  BY DEF DeviceChanges
<1>2. \A p \in Parties : conn'[p] = conn[p] \/ (conn[p].at # "none" /\ conn'[p].at = "gone")
  BY <1>1
<1>3. conn' \in [Parties -> [to : Devices \cup {Nothing}, at : {"none", "in", "evicted", "gone"}]]
  BY DEF DeviceChanges
<1>4. \A q \in Parties : conn'[q] = [to |-> "door", at |-> "in"] => conn[q] = conn'[q]
  BY <1>2
<1>5. \A q, r \in Parties : conn'[q] = conn'[r] /\ conn'[q] = [to |-> "door", at |-> "in"] => q = r
  BY <1>4
<1> QED BY <1>2, <1>3, <1>5

-----------------------------------------------------------------------------
(* Every step keeps the invariant, part by part.                           *)

LEMMA ConnStep == IInv /\ Next => ConnOK'
<1> SUFFICES ASSUME IInv, Next PROVE ConnOK'
  OBVIOUS
<1> USE DEF IInv
<1>a. {"entry", "flow", "script", "app"} \subseteq Parties /\ "door" \in Devices
  BY DEF Parties, Devices
<1>b. ASSUME UNCHANGED conn PROVE ConnOK'
  BY <1>b DEF ConnOK
<1>c. ASSUME NEW x, x \in Addresses, network[x] # Nothing PROVE network[x] \in Devices
  BY <1>c DEF WorldOK
<1>d. stored.addr \in Addresses /\ flow.data.addr \in Addresses
  BY DEF EntryOK, FlowOK
<1>1. CASE World
  BY <1>1, <1>a, <1>b, LetInConn, DisconnectConn, DeviceChangesConn
     DEF World, PasswordChanges, AppLogsIn, AppLeaves
<1>2. CASE SetupLogin
  BY <1>2, <1>a, <1>b, <1>c, <1>d, LoginOutcome, LetInConn DEF SetupLogin, Outcomes
<1>3. CASE Identify \/ FirstRefresh \/ Reload \/ Unload
  BY <1>3, <1>a, <1>b, DisconnectConn DEF Identify, FirstRefresh, Reload, Unload, Shutdown
<1>4. CASE NoticesLoss
  <2>1. conn' = [conn EXCEPT !["entry"].at = "gone"] /\ conn["entry"].at = "evicted"
    BY <1>4 DEF NoticesLoss
  <2>2. conn'["entry"].at = "gone" /\ \A q \in Parties : q # "entry" => conn'[q] = conn[q]
    BY <1>a, <2>1 DEF ConnOK
  <2>3. \A q \in Parties : conn'[q] = Holding => conn[q] = conn'[q]
    BY <2>2 DEF Holding
  <2>4. \A q, r \in Parties : conn'[q] = conn'[r] /\ conn'[q] = Holding => q = r
    BY <2>3 DEF ConnOK
  <2> QED BY <1>a, <2>1, <2>4 DEF ConnOK
<1>5. CASE Reconnect
  BY <1>5, <1>a, <1>b, <1>c, <1>d, LoginOutcome, LetInConn DEF Reconnect, Outcomes
<1>6. CASE RetrySetup \/ PollRefused \/ Opens \/ Closes \/ Submits \/ Probes \/ ScriptConnects
  BY <1>6, <1>b DEF RetrySetup, PollRefused, Opens, Closes, Submits, Probes, ScriptConnects
<1>7. CASE FlowLogin
  BY <1>7, <1>a, <1>b, <1>c, <1>d, LoginOutcome, LetInConn DEF FlowLogin, Outcomes
<1>8. CASE FlowReads \/ ScriptReports
  BY <1>8, <1>a, DisconnectConn DEF FlowReads, ScriptReports, Leave
<1>9. CASE ScriptLogin
  BY <1>9, <1>a, <1>b, <1>c, <1>d, LoginOutcome, LetInConn DEF ScriptLogin, Outcomes
<1> QED BY <1>1, <1>2, <1>3, <1>4, <1>5, <1>6, <1>7, <1>8, <1>9
        DEF Next, Setup, Running, Validation, Script

LEMMA WorldStep == IInv /\ Next => WorldOK'
<1> SUFFICES ASSUME WorldOK, Next PROVE WorldOK'
  BY DEF IInv
<1>1. CASE PasswordChanges \/ DeviceChanges
  BY <1>1 DEF PasswordChanges, DeviceChanges, WorldOK
<1>2. CASE ~(PasswordChanges \/ DeviceChanges)
  <2>1. UNCHANGED <<network, password, marks>>
    BY <1>2 DEF Next, World, AppLogsIn, AppLeaves, Setup, SetupLogin, Identify, FirstRefresh,
                Reload, RetrySetup, Unload, PollRefused, Running, NoticesLoss, Reconnect,
                Opens, Closes, Submits, Validation, Probes, FlowLogin, FlowReads,
                ScriptConnects, Script, ScriptLogin, ScriptReports, world
  <2> QED BY <2>1 DEF WorldOK
<1> QED BY <1>1, <1>2

LEMMA BoundsStep == IInv /\ Next => BoundsOK'
<1> SUFFICES ASSUME BoundsOK, Next PROVE BoundsOK'
  BY DEF IInv
<1> USE BoundsAssumption DEF BoundsOK
<1>a. ASSUME Trouble PROVE troubles' \in 0..MaxTroubles
  BY <1>a DEF Trouble
<1>1. CASE World
  BY <1>1 DEF World, PasswordChanges, DeviceChanges, AppLogsIn, AppLeaves, Changed, bounds
<1>2. CASE SetupLogin \/ Reconnect \/ FlowLogin \/ ScriptLogin
  BY <1>2, <1>a, LoginOutcome DEF SetupLogin, Reconnect, FlowLogin, ScriptLogin, Outcomes
<1>3. CASE Identify \/ FirstRefresh \/ FlowReads
  BY <1>3, <1>a DEF Identify, FirstRefresh, FlowReads, Fails, Refused
<1>4. CASE Reload \/ RetrySetup \/ Unload \/ NoticesLoss
  BY <1>4 DEF Reload, RetrySetup, Unload, NoticesLoss, Changed, bounds
<1>9. CASE PollRefused
  BY <1>9, <1>a DEF PollRefused, Refused
<1>5. CASE Opens \/ Closes \/ ScriptReports
  BY <1>5 DEF Opens, Closes, ScriptReports, bounds
<1>7. CASE Submits
  <2>1. submits < MaxSubmits /\ submits' = submits + 1 /\ UNCHANGED <<changes, troubles, visits>>
    BY <1>7 DEF Submits
  <2> QED BY <2>1
<1>8. CASE ScriptConnects
  <2>1. visits < MaxVisits /\ visits' = visits + 1 /\ UNCHANGED <<changes, troubles, submits>>
    BY <1>8 DEF ScriptConnects
  <2> QED BY <2>1
<1>6. CASE Probes
  BY <1>6, <1>a DEF Probes
<1> QED BY <1>1, <1>2, <1>3, <1>4, <1>5, <1>6, <1>7, <1>8, <1>9
        DEF Next, Setup, Running, Validation, Script

LEMMA EntryStep == IInv /\ Next => EntryOK'
<1> SUFFICES ASSUME EntryOK, FlowOK, Next PROVE EntryOK'
  BY DEF IInv
<1> USE DEF EntryOK
<1>a. ASSUME UNCHANGED entryVars PROVE EntryOK'
  BY <1>a DEF entryVars
<1>1. CASE World
  BY <1>1, <1>a DEF World, PasswordChanges, DeviceChanges, AppLogsIn, AppLeaves
<1>2. CASE SetupLogin
  <2>1. entry' \in {"identifying", "retry", "auth_error"} /\ asked' \in BOOLEAN
    BY <1>2 DEF SetupLogin, NotReady, AuthFailed
  <2> QED BY <1>2, <2>1 DEF SetupLogin
<1>3. CASE Identify \/ FirstRefresh
  <2>1. entry' \in {"refreshing", "loaded", "retry", "auth_error"} /\ asked' \in BOOLEAN
    BY <1>3 DEF Identify, FirstRefresh, NotReady, AuthFailed, WrongType
  <2> QED BY <1>3, <2>1 DEF Identify, FirstRefresh
<1>4. CASE Reload \/ RetrySetup \/ Unload \/ PollRefused
  BY <1>4 DEF Reload, RetrySetup, Unload, PollRefused
<1>5. CASE Running \/ Opens \/ Closes \/ Submits \/ Probes \/ FlowLogin \/ ScriptConnects \/ Script
  BY <1>5, <1>a DEF Running, NoticesLoss, Reconnect, Opens, Closes, Submits, Probes, FlowLogin,
                    ScriptConnects, Script, ScriptLogin, ScriptReports
<1>6. CASE FlowReads
  <2>1. flow.data \in [addr : Addresses, pw : Passwords]
    BY <1>6 DEF FlowReads, FlowOK, Under
  <2>2. entry' = entry
    BY <1>6 DEF FlowReads
  <2>3. CASE Accepted
    BY <2>1, <2>2, <2>3 DEF Accepted
  <2>4. CASE UNCHANGED <<stored, reload, asked>>
    BY <2>2, <2>4
  <2> QED BY <1>6, <2>3, <2>4 DEF FlowReads
<1> QED BY <1>1, <1>2, <1>3, <1>4, <1>5, <1>6 DEF Next, Setup, Validation

LEMMA ScriptStep == IInv /\ Next => ScriptOK'
<1> SUFFICES ASSUME ScriptOK, Next PROVE ScriptOK'
  BY DEF IInv
<1> USE DEF ScriptOK
<1>1. CASE ScriptConnects \/ ScriptReports
  BY <1>1 DEF ScriptConnects, ScriptReports
<1>2. CASE ScriptLogin
  BY <1>2 DEF ScriptLogin
<1>3. CASE ~(ScriptConnects \/ Script)
  <2>1. UNCHANGED script
    BY <1>3 DEF Next, World, PasswordChanges, DeviceChanges, AppLogsIn, AppLeaves, Setup,
                SetupLogin, Identify, FirstRefresh, Reload, RetrySetup, Unload, PollRefused,
                Running, NoticesLoss, Reconnect, Opens, Closes, Submits, Validation, Probes,
                FlowLogin, FlowReads
  <2> QED BY <2>1
<1> QED BY <1>1, <1>2, <1>3 DEF Script

\* Only the last step of a dialog writes the entry's data.
LEMMA StoredByDialogs == Next /\ ~FlowReads => UNCHANGED stored
BY DEF Next, World, PasswordChanges, DeviceChanges, AppLogsIn, AppLeaves, Setup, SetupLogin,
       Identify, FirstRefresh, Reload, RetrySetup, Unload, PollRefused, Running, NoticesLoss,
       Reconnect, Opens, Closes, Submits, Validation, Probes, FlowLogin, ScriptConnects, Script,
       ScriptLogin, ScriptReports, entryVars

\* Only the user and the dialog itself move the dialog.
LEMMA FlowByDialogs ==
    Next /\ ~(Opens \/ Closes \/ Submits \/ Validation) => UNCHANGED <<flow, stored>>
BY DEF Next, World, PasswordChanges, DeviceChanges, AppLogsIn, AppLeaves, Setup, SetupLogin,
       Identify, FirstRefresh, Reload, RetrySetup, Unload, PollRefused, Running, NoticesLoss,
       Reconnect, ScriptConnects, Script, ScriptLogin, ScriptReports, entryVars

LEMMA EmptyFlow == ASSUME flow = NoFlow PROVE FlowOK
BY HomeAssumption DEF FlowOK, NoFlow, Under, Nothing, ACS, Devices

LEMMA FlowStep == IInv /\ Next => FlowOK'
<1> SUFFICES ASSUME FlowOK, EntryOK, Next PROVE FlowOK'
  BY DEF IInv
<1> DEFINE Empty == [kind |-> "none", at |-> "none", data |-> [addr |-> Home, pw |-> 0],
                     probed |-> "nothing"]
<1>n. NoFlow = Empty
  BY DEF NoFlow, Nothing
<1>s. ~FlowReads => stored' = stored
  BY StoredByDialogs
<1>b. ASSUME BackToForm, stored' = stored \/ FlowReads, flow.kind # "none" PROVE FlowOK'
  <2>1. flow' = [flow EXCEPT !.at = "form", !.probed = "nothing"]
    BY <1>b DEF BackToForm, Nothing
  <2> QED BY <2>1, <1>b DEF FlowOK, Under, Nothing, Devices, ACS
<1>c. ASSUME flow' = NoFlow PROVE FlowOK'
  BY <1>c, HomeAssumption DEF FlowOK, NoFlow, Under, Nothing, ACS, Devices
<1>1. CASE Opens
  <2>1. PICK kind \in {"user", "reconfigure", "reauth"} :
            flow' = [NoFlow EXCEPT !.kind = kind, !.at = "form"]
    BY <1>1 DEF Opens
  <2>2. flow' = [kind |-> kind, at |-> "form", data |-> [addr |-> Home, pw |-> 0],
                 probed |-> "nothing"]
    BY <2>1 DEF NoFlow, Nothing
  <2> QED BY <2>2, HomeAssumption DEF FlowOK, Under, Nothing, ACS, Devices
<1>2. CASE Closes
  BY <1>2, <1>c DEF Closes
<1>3. CASE Submits
  <2>1. PICK pw \in Passwords, a \in Addresses :
            /\ flow' = [flow EXCEPT !.at = "probing", !.data = [addr |-> a, pw |-> pw]]
            /\ flow.kind = "reauth" => a = stored.addr
    BY <1>3 DEF Submits, EntryOK
  <2>2. flow.at = "form" /\ stored' = stored
    BY <1>3, <1>s DEF Submits, entryVars
  <2> QED BY <2>1, <2>2 DEF FlowOK, Under, Nothing, ACS, Devices
<1>4. CASE Probes
  <2>1. flow.at = "probing" /\ stored' = stored
    BY <1>4, <1>s DEF Probes, entryVars
  <2>2. CASE BackToForm
    BY <1>b, <2>1, <2>2 DEF FlowOK, Under
  <2>3. CASE ~BackToForm
    <3>1. PICK dev \in ACS : flow' = [flow EXCEPT !.at = "logging_in", !.probed = dev]
      BY <1>4, <2>3 DEF Probes, Proceeds
    <3> QED BY <2>1, <3>1 DEF FlowOK, Under, Nothing, ACS, Devices
  <2> QED BY <2>2, <2>3
<1>5. CASE FlowLogin
  <2>1. flow.at = "logging_in" /\ stored' = stored
    BY <1>5, <1>s DEF FlowLogin, entryVars
  <2>2. CASE BackToForm
    BY <1>b, <2>1, <2>2 DEF FlowOK, Under
  <2>3. CASE flow' = [flow EXCEPT !.at = "reading"]
    BY <2>1, <2>3 DEF FlowOK, Under, Nothing, ACS, Devices
  <2> QED BY <1>5, <2>2, <2>3 DEF FlowLogin
<1>6. CASE FlowReads
  BY <1>6, <1>b, <1>c DEF FlowReads, FlowOK, Under
<1>7. CASE ~(Opens \/ Closes \/ Submits \/ Validation)
  BY <1>7, FlowByDialogs DEF FlowOK, Under
<1> QED BY <1>1, <1>2, <1>3, <1>4, <1>5, <1>6, <1>7 DEF Validation

\* A party's connection that was closed stays closed unless it is let in.
LEMMA StaysClosed ==
    ASSUME IInv, NEW p \in Parties, conn[p].at = "none",
           \/ UNCHANGED conn
           \/ DeviceChanges
           \/ \E q \in Parties \ {p} : Disconnect(q)
           \/ \E q \in Parties \ {p}, dev \in Devices : LetIn(q, dev)
    PROVE  conn'[p].at = "none"
<1> ConnOK
  BY DEF IInv
<1>1. CASE UNCHANGED conn
  BY <1>1
<1>2. CASE DeviceChanges
  BY <1>2, DeviceChangesConn
<1>3. ASSUME NEW q \in Parties \ {p}, Disconnect(q) PROVE conn'[p].at = "none"
  BY <1>3, DisconnectConn
<1>4. ASSUME NEW q \in Parties \ {p}, NEW dev \in Devices, LetIn(q, dev)
      PROVE  conn'[p].at = "none"
  <2>1. conn[p] # Holding
    BY DEF Holding
  <2>2. p # q /\ q \in Parties
    OBVIOUS
  <2>3. conn'[p] = conn[p] \/ (conn[p] = Holding /\ conn'[p].at = "evicted")
    BY <1>4, <2>2, LetInConn
  <2> QED BY <2>1, <2>3
<1> QED BY <1>1, <1>2, <1>3, <1>4

LEMMA LeftOpenStep == IInv /\ Next => NothingLeftOpen'
<1> SUFFICES ASSUME IInv, Next PROVE NothingLeftOpen'
  OBVIOUS
<1> USE DEF IInv
<1>a. {"entry", "flow", "script", "app"} \subseteq Parties /\ "door" \in Devices
  BY DEF Parties, Devices
<1>c. \A x \in Addresses : network[x] # Nothing => network[x] \in Devices
  BY DEF WorldOK
<1>d. stored.addr \in Addresses /\ flow.data.addr \in Addresses
  BY DEF EntryOK, FlowOK
<1> DEFINE Quiet(p) == \/ UNCHANGED conn \/ DeviceChanges
                       \/ \E q \in Parties \ {p} : Disconnect(q)
                       \/ \E q \in Parties \ {p}, dev \in Devices : LetIn(q, dev)
<1>q. ASSUME NEW p \in Parties, Quiet(p), conn[p].at = "none" PROVE conn'[p].at = "none"
  BY <1>q, StaysClosed
<1>p. "entry" # "flow" /\ "entry" # "script" /\ "flow" # "script"
       /\ "app" # "entry" /\ "app" # "flow" /\ "app" # "script"
  OBVIOUS
<1>1. CASE World
  <2>1. Quiet("entry") /\ Quiet("flow") /\ Quiet("script")
    BY <1>1, <1>a, <1>p DEF World, PasswordChanges, AppLogsIn, AppLeaves
  <2>2. UNCHANGED <<entry, flow, script>>
    BY <1>1 DEF World, PasswordChanges, DeviceChanges, AppLogsIn, AppLeaves, entryVars
  <2> HIDE DEF Quiet
  <2> QED BY <2>1, <2>2, <1>q, <1>a DEF NothingLeftOpen
<1>2. CASE SetupLogin \/ Identify \/ FirstRefresh \/ Reload \/ Unload
  <2>1. Quiet("flow") /\ Quiet("script")
    BY <1>2, <1>a, <1>c, <1>d, <1>p, LoginOutcome
       DEF SetupLogin, Outcomes, Identify, FirstRefresh, Reload, Unload, Shutdown
  <2>2. UNCHANGED <<flow, script>>
    BY <1>2 DEF SetupLogin, Identify, FirstRefresh, Reload, Unload
  <2>3. conn'["entry"].at # "none" => entry' \in {"identifying", "refreshing", "loaded"}
    <3>1. CASE SetupLogin
      BY <3>1, <1>a DEF SetupLogin, NothingLeftOpen
    <3>2. CASE Identify \/ FirstRefresh
      BY <3>2, <1>a, DisconnectConn DEF Identify, FirstRefresh, Shutdown
    <3>3. CASE Reload \/ Unload
      BY <3>3, <1>a, DisconnectConn DEF Reload, Unload, Shutdown
    <3> QED BY <1>2, <3>1, <3>2, <3>3
  <2> HIDE DEF Quiet
  <2> QED BY <2>1, <2>2, <2>3, <1>q, <1>a DEF NothingLeftOpen
<1>3. CASE RetrySetup \/ PollRefused \/ Opens \/ Closes \/ Submits \/ Probes \/ ScriptConnects
  <2>1. conn' = conn
    BY <1>3 DEF RetrySetup, PollRefused, Opens, Closes, Submits, Probes, ScriptConnects
  <2>2. CASE RetrySetup
    BY <2>1, <2>2 DEF RetrySetup, NothingLeftOpen
  <2>3. CASE PollRefused
    BY <2>1, <2>3 DEF PollRefused, NothingLeftOpen
  <2>4. CASE Opens \/ Closes \/ Submits \/ Probes
    <3>1. flow.at # "reading" /\ UNCHANGED <<entry, script>>
      <4>1. CASE Opens
        BY <4>1 DEF Opens, NoFlow, entryVars
      <4>2. CASE Closes
        BY <4>2 DEF Closes, entryVars
      <4>3. CASE Submits
        BY <4>3 DEF Submits, entryVars
      <4>4. CASE Probes
        BY <4>4 DEF Probes, entryVars
      <4> QED BY <2>4, <4>1, <4>2, <4>3, <4>4
    <3> QED BY <2>1, <3>1 DEF NothingLeftOpen
  <2>5. CASE ScriptConnects
    BY <2>1, <2>5 DEF ScriptConnects, NothingLeftOpen, NotRun, entryVars
  <2> QED BY <1>3, <2>2, <2>3, <2>4, <2>5
<1>4. CASE Running
  <2>1. entry = "loaded" /\ UNCHANGED <<entry, flow, script>>
    BY <1>4 DEF Running, NoticesLoss, Reconnect, entryVars
  <2>2. conn'["flow"].at # "none" => conn["flow"].at # "none"
    <3>1. CASE NoticesLoss
      BY <3>1, <1>a DEF NoticesLoss, ConnOK
    <3>2. CASE Reconnect
      <4>1. Quiet("flow")
        BY <3>2, <1>a, <1>c, <1>d, <1>p, LoginOutcome DEF Reconnect, Outcomes
      <4> HIDE DEF Quiet
      <4> QED BY <4>1, <1>q, <1>a
    <3> QED BY <1>4, <3>1, <3>2 DEF Running
  <2>3. conn'["script"].at # "none" => conn["script"].at # "none"
    <3>1. CASE NoticesLoss
      BY <3>1, <1>a DEF NoticesLoss, ConnOK
    <3>2. CASE Reconnect
      <4>1. Quiet("script")
        BY <3>2, <1>a, <1>c, <1>d, <1>p, LoginOutcome DEF Reconnect, Outcomes
      <4> HIDE DEF Quiet
      <4> QED BY <4>1, <1>q, <1>a
    <3> QED BY <1>4, <3>1, <3>2 DEF Running
  <2> QED BY <2>1, <2>2, <2>3 DEF NothingLeftOpen
<1>5. CASE FlowLogin \/ FlowReads
  <2>1. Quiet("entry") /\ Quiet("script")
    BY <1>5, <1>a, <1>c, <1>d, <1>p, LoginOutcome DEF FlowLogin, FlowReads, Outcomes, Leave
  <2>2. UNCHANGED <<entry, script>>
    BY <1>5 DEF FlowLogin, FlowReads, entryVars
  <2>3. conn'["flow"].at # "none" => flow'.at = "reading"
    <3>1. CASE FlowReads
      BY <3>1, <1>a, DisconnectConn DEF FlowReads, Leave
    <3>2. CASE FlowLogin
      <4>1. flow.at = "logging_in" /\ conn["flow"].at = "none"
        BY <3>2 DEF FlowLogin, NothingLeftOpen
      <4>2. flow' = [flow EXCEPT !.at = "reading"] \/ UNCHANGED conn
        BY <3>2 DEF FlowLogin
      <4> QED BY <4>1, <4>2 DEF FlowOK
    <3> QED BY <1>5, <3>1, <3>2
  <2> HIDE DEF Quiet
  <2> QED BY <2>1, <2>2, <2>3, <1>q, <1>a DEF NothingLeftOpen
<1>6. CASE ScriptLogin \/ ScriptReports
  <2>1. Quiet("entry") /\ Quiet("flow")
    BY <1>6, <1>a, <1>c, <1>d, <1>p, LoginOutcome DEF ScriptLogin, ScriptReports, Outcomes, Leave
  <2>2. UNCHANGED <<entry, flow>>
    BY <1>6 DEF ScriptLogin, ScriptReports, entryVars
  <2>3. conn'["script"].at # "none" => script'.at = "in"
    <3>1. CASE ScriptReports
      BY <3>1, <1>a, DisconnectConn DEF ScriptReports, Leave
    <3>2. CASE ScriptLogin
      BY <3>2 DEF ScriptLogin, NothingLeftOpen
    <3> QED BY <1>6, <3>1, <3>2
  <2> HIDE DEF Quiet
  <2> QED BY <2>1, <2>2, <2>3, <1>q, <1>a DEF NothingLeftOpen
<1> QED BY <1>1, <1>2, <1>3, <1>4, <1>5, <1>6 DEF Next, Setup, Validation, Script

\* What the dialog accepts has the entry's identity, but for re-authentication.
LEMMA AcceptedPlace ==
    ASSUME IInv, In("flow"), flow.at = "reading", Accepted, stored' # stored
    PROVE  \/ stored'.addr = stored.addr
           \/ marks # "nothing" /\ network[stored'.addr] = "door"
           \/ marks = "serial" /\ flow.probed = "door"
<1> USE DEF IInv
<1>1. stored' = flow.data /\ KeepsDoor
  BY DEF Accepted
<1>2. flow.kind \in {"user", "reauth", "reconfigure"}
  BY DEF FlowOK, Under
<1>3. CASE flow.kind = "reauth"
  BY <1>1, <1>3 DEF FlowOK, Under
<1>4. CASE flow.kind # "reauth"
  <2>1. Identity = EntryId
    BY <1>1, <1>2, <1>4 DEF KeepsDoor
  <2>2. CASE marks = "serial"
    BY <2>1, <2>2 DEF Identity, EntryId, UniqueId
  <2>3. CASE marks = "mac"
    <3>1. conn["flow"].to = "door" /\ conn["flow"].at = "in"
      BY <2>1, <2>3 DEF Identity, EntryId, UniqueId, In
    <3>2. conn["flow"] = [to |-> "door", at |-> "in"]
      BY <3>1 DEF ConnOK, Parties
    <3> QED BY <1>1, <2>3, <3>2 DEF PlaceOK, Holding
  <2>4. CASE marks = "nothing"
    <3>1. flow.data.addr = Home
      BY <2>1, <2>4 DEF Identity, EntryId, UniqueId
    <3> QED BY <1>1, <2>4, <3>1 DEF PlaceOK
  <2> QED BY <2>2, <2>3, <2>4 DEF WorldOK
<1> QED BY <1>3, <1>4

LEMMA PlaceStep == IInv /\ Next => PlaceOK'
<1> SUFFICES ASSUME IInv, Next PROVE PlaceOK'
  OBVIOUS
<1> USE DEF IInv
<1>a. {"entry", "flow", "script", "app"} \subseteq Parties /\ "door" \in Devices
  BY DEF Parties, Devices
<1>c. \A x \in Addresses : network[x] # Nothing => network[x] \in Devices
  BY DEF WorldOK
<1>d. stored.addr \in Addresses /\ flow.data.addr \in Addresses
  BY DEF EntryOK, FlowOK
<1>h. conn["flow"] = Holding => flow.at = "reading"
  BY DEF NothingLeftOpen, Holding
<1>m. marks' = marks
  BY DEF Next, World, PasswordChanges, DeviceChanges, AppLogsIn, AppLeaves, Setup, SetupLogin,
         Identify, FirstRefresh, Reload, RetrySetup, Unload, PollRefused, Running, NoticesLoss,
         Reconnect, Opens, Closes, Submits, Validation, Probes, FlowLogin, FlowReads,
         ScriptConnects, Script, ScriptLogin, ScriptReports, world
<1> DEFINE Quiet == \/ UNCHANGED conn
                    \/ \E q \in Parties \ {"flow"} : Disconnect(q)
                    \/ \E q \in Parties \ {"flow"}, dev \in Devices : LetIn(q, dev)
<1>q. ASSUME Quiet PROVE conn'["flow"] = Holding => conn["flow"] = Holding
  <2>1. CASE UNCHANGED conn
    BY <2>1
  <2>2. ASSUME NEW q \in Parties \ {"flow"}, Disconnect(q) PROVE conn'["flow"] = conn["flow"]
    BY <2>2, <1>a, DisconnectConn
  <2>3. ASSUME NEW q \in Parties \ {"flow"}, NEW dev \in Devices, LetIn(q, dev)
        PROVE  conn'["flow"] = conn["flow"] \/ conn'["flow"].at = "evicted"
    BY <2>3, <1>a, LetInConn
  <2> QED BY <1>q, <2>1, <2>2, <2>3 DEF Holding
<1>p. "entry" # "flow" /\ "script" # "flow" /\ "app" # "flow"
  OBVIOUS
<1> HIDE DEF Quiet
<1>s. ASSUME Quiet, network' = network, flow' = flow
      PROVE  conn'["flow"] = Holding => network'[flow'.data.addr] = "door"
  BY <1>s, <1>q DEF PlaceOK
<1>1. conn'["flow"] = Holding => network'[flow'.data.addr] = "door"
  <2>1. CASE DeviceChanges
    <3>1. PICK a \in Addresses, dev \in Devices \cup {Nothing} :
              /\ network' = [network EXCEPT ![a] = dev]
              /\ conn' = [p \in Parties |-> IF conn[p].at # "none" /\ conn[p].to = network[a]
                                            THEN [conn[p] EXCEPT !.at = "gone"] ELSE conn[p]]
      BY <2>1 DEF DeviceChanges
    <3>2. flow' = flow
      BY <2>1 DEF DeviceChanges
    <3>3. SUFFICES ASSUME conn'["flow"] = Holding PROVE network'[flow.data.addr] = "door"
      BY <3>2
    <3>4. ~(conn["flow"].at # "none" /\ conn["flow"].to = network[a]) /\ conn["flow"] = Holding
      BY <3>1, <3>3, <1>a DEF Holding, ConnOK
    <3>5. network[flow.data.addr] = "door" /\ network[a] # "door"
      BY <3>4 DEF PlaceOK, Holding
    <3> QED BY <3>1, <3>5, <1>d DEF WorldOK
  <2>2. CASE FlowLogin
    <3>1. flow.at = "logging_in" /\ network' = network
      BY <2>2 DEF FlowLogin, world
    <3>2. CASE UNCHANGED conn
      BY <3>1, <3>2, <1>h
    <3>3. CASE ~UNCHANGED conn
      <4>1. /\ LetIn("flow", network[flow.data.addr]) /\ network[flow.data.addr] # Nothing
            /\ flow' = [flow EXCEPT !.at = "reading"]
        BY <2>2, <3>3, LoginOutcome DEF FlowLogin, Outcomes
      <4>2. network[flow.data.addr] \in Devices /\ ConnOK
        BY <4>1, <1>c, <1>d
      <4>4. conn'["flow"] = [to |-> network[flow.data.addr], at |-> "in"]
        BY <4>1, <4>2, <1>a, LetInConn
      <4>3. flow'.data = flow.data
        BY <4>1 DEF FlowOK
      <4> QED BY <3>1, <4>3, <4>4 DEF Holding
    <3> QED BY <3>2, <3>3
  <2>3. CASE FlowReads
    BY <2>3, <1>a, DisconnectConn DEF FlowReads, Leave, Holding
  <2>4. CASE Opens \/ Closes \/ Submits \/ Probes
    <3>1. CASE Opens
      BY <3>1, <1>h DEF Opens, NoFlow
    <3>2. CASE Closes \/ Submits \/ Probes
      BY <3>2, <1>h DEF Closes, Submits, Probes
    <3> QED BY <2>4, <3>1, <3>2
  <2>5. CASE PasswordChanges \/ AppLogsIn \/ AppLeaves
    BY <2>5, <1>a, <1>p, <1>s DEF PasswordChanges, AppLogsIn, AppLeaves, Quiet, world
  <2>6. CASE SetupLogin \/ Reconnect \/ ScriptLogin
    <3>1. Quiet
      BY <2>6, <1>a, <1>c, <1>d, <1>p, LoginOutcome
         DEF SetupLogin, Reconnect, ScriptLogin, Outcomes, Quiet
    <3>2. network' = network /\ flow' = flow
      BY <2>6 DEF SetupLogin, Reconnect, ScriptLogin, world
    <3> QED BY <3>1, <3>2, <1>s
  <2>7. CASE Identify \/ FirstRefresh \/ Reload \/ Unload \/ ScriptReports
    <3>1. Quiet
      BY <2>7, <1>a, <1>p DEF Identify, FirstRefresh, Reload, Unload, Shutdown, ScriptReports,
                              Leave, Quiet
    <3>2. network' = network /\ flow' = flow
      BY <2>7 DEF Identify, FirstRefresh, Reload, Unload, ScriptReports, world
    <3> QED BY <3>1, <3>2, <1>s
  <2>8. CASE RetrySetup \/ PollRefused \/ ScriptConnects
    <3>1. UNCHANGED <<conn, network, flow>>
      BY <2>8 DEF RetrySetup, PollRefused, ScriptConnects, world
    <3> QED BY <3>1 DEF PlaceOK
  <2>9. CASE NoticesLoss
    <3>1. UNCHANGED <<network, flow>> /\ conn'["flow"] = conn["flow"]
      BY <2>9, <1>a DEF NoticesLoss, world, ConnOK
    <3> QED BY <3>1 DEF PlaceOK
  <2> QED BY <2>1, <2>2, <2>3, <2>4, <2>5, <2>6, <2>7, <2>8, <2>9
          DEF Next, World, Setup, Running, Validation, Script
<1>2. marks' = "nothing" => stored'.addr = Home
  <2>1. CASE stored' = stored
    BY <2>1, <1>m DEF PlaceOK
  <2>2. CASE stored' # stored
    <3>1. FlowReads
      BY <2>2, StoredByDialogs
    <3>2. In("flow") /\ flow.at = "reading" /\ Accepted
      BY <2>2, <3>1 DEF FlowReads
    <3>3. marks = "nothing" => stored'.addr = stored.addr
      BY <2>2, <3>2, AcceptedPlace
    <3> QED BY <1>m, <3>3 DEF PlaceOK
  <2> QED BY <2>1, <2>2
<1> QED BY <1>1, <1>2 DEF PlaceOK

-----------------------------------------------------------------------------
(* The results.                                                            *)

LEMMA IInvInit == Init => IInv
<1> SUFFICES ASSUME Init PROVE IInv
  OBVIOUS
<1>1. conn = [p \in Parties |-> [to |-> "nothing", at |-> "none"]]
  BY DEF Init, None, Nothing
<1>2. ConnOK /\ NothingLeftOpen
  BY <1>1 DEF ConnOK, NothingLeftOpen, Holding, Parties, Nothing
<1>3. stored.pw \in Passwords /\ stored \in [addr : Addresses, pw : Passwords]
  BY HomeAssumption DEF Init
<1>4. WorldOK
  <2>1. network \in [Addresses -> Devices \cup {Nothing}]
    BY DEF Init, ACS, Devices
  <2> QED BY <1>3, <2>1 DEF Init, WorldOK
<1>5. EntryOK /\ ScriptOK
  BY <1>3 DEF Init, EntryOK, ScriptOK, NotRun
<1>6. BoundsOK
  BY BoundsAssumption DEF Init, BoundsOK
<1>7. FlowOK
  BY EmptyFlow DEF Init
<1>8. PlaceOK
  BY <1>1, <1>3 DEF Init, PlaceOK, Holding, Parties
<1> QED BY <1>2, <1>4, <1>5, <1>6, <1>7, <1>8 DEF IInv

LEMMA IInvStep == IInv /\ [Next]_vars => IInv'
<1>1. IInv /\ Next => IInv'
  BY ConnStep, WorldStep, EntryStep, ScriptStep, BoundsStep, FlowStep, PlaceStep,
     LeftOpenStep DEF IInv
<1>2. IInv /\ UNCHANGED vars => IInv'
  BY DEF IInv, ConnOK, WorldOK, EntryOK, ScriptOK, BoundsOK, FlowOK, PlaceOK,
         NothingLeftOpen, Under, vars, world, entryVars, bounds
<1> QED BY <1>1, <1>2

THEOREM Invariance == Spec => []IInv
BY IInvInit, IInvStep, PTL DEF Spec

\* The state is what the code's variables can be, and at most one of the
\* entry's client, the dialog, the script and the app holds the door's session.
THEOREM TypeCorrect == Spec => []TypeOK
BY Invariance, TypeParts, PTL

\* A set-up that fails, an unload, a dialog and a run of the script close what
\* they opened (async_shutdown, async_stop), however many of them there are.
THEOREM ClosesWhatItOpened == Spec => []NothingLeftOpen
<1>1. IInv => NothingLeftOpen
  BY DEF IInv
<1> QED BY <1>1, Invariance, PTL

\* A dialog that _async_validate leads to a login has seen a door there
\* (async_probe, DEVICE_TYPE_ACS).
THEOREM LogsInToDoors == Spec => OnlyToDoors
<1> DEFINE A == In("flow")' /\ ~In("flow") =>
                    conn'["flow"].to \in ACS \/ flow.probed # conn'["flow"].to
<1>1. IInv /\ [Next]_vars => A
  <2> SUFFICES ASSUME IInv, [Next]_vars, In("flow")', ~In("flow")
               PROVE  conn'["flow"].to \in ACS \/ flow.probed # conn'["flow"].to
    OBVIOUS
  <2>1. flow.at = "logging_in"
    <3>1. "flow" \in Parties /\ conn'["flow"].at = "in" /\ conn["flow"].at # "in"
      BY DEF In, Parties
    <3>2. ~UNCHANGED conn /\ ~DeviceChanges /\ ~(\E q \in Parties : Disconnect(q))
      BY <3>1, DisconnectConn, DeviceChangesConn DEF IInv
    <3>3. \A q \in Parties \ {"flow"}, dev \in Devices : ~LetIn(q, dev)
      BY <3>1, LetInConn DEF IInv
    <3>4. {"entry", "flow", "script", "app"} \subseteq Parties /\ "door" \in Devices
      BY DEF Parties, Devices
    <3>5. \A x \in Addresses : network[x] # Nothing => network[x] \in Devices
      BY DEF IInv, WorldOK
    <3>6. stored.addr \in Addresses
      BY DEF IInv, EntryOK
    <3>7. ~World
      BY <3>2, <3>3, <3>4 DEF World, PasswordChanges, AppLogsIn, AppLeaves
    <3>8. ~SetupLogin /\ ~Reconnect /\ ~ScriptLogin
      BY <3>2, <3>3, <3>4, <3>5, <3>6, LoginOutcome DEF SetupLogin, Reconnect, ScriptLogin, Outcomes
    <3>9. ~NoticesLoss
      BY <3>1 DEF NoticesLoss, IInv, ConnOK
    <3>10. FlowLogin
      BY <3>2, <3>4, <3>7, <3>8, <3>9
         DEF Next, vars, Setup, Identify, FirstRefresh, Reload, RetrySetup, Unload, PollRefused,
             Shutdown, Running, Opens, Closes, Submits, Validation, Probes, FlowReads, Leave,
             ScriptConnects, Script, ScriptReports
    <3> QED BY <3>10 DEF FlowLogin
  <2> QED BY <2>1 DEF IInv, FlowOK
<1> QED BY <1>1, Invariance, PTL DEF Spec, OnlyToDoors

\* A dialog that changes an entry's address has compared the unique id that
\* _async_validate made of what it read: where the entry now points there is
\* the entry's door, if the id is a MAC address; the door was there when it was
\* probed, if the id is a serial number, though another may have taken its
\* place before the login; and with the fallback, the address for an id, the
\* entry is never led away.  What has the entry's own address already is
\* outside the statement: there the fallback and re-authentication take any door.
THEOREM KeepsTheDoor == Spec => StaysOnDoor
<1> DEFINE A == stored'.addr # stored.addr =>
                    \/ marks # "nothing" /\ network[stored'.addr] = "door"
                    \/ marks = "serial" /\ flow.probed = "door"
<1>1. IInv /\ [Next]_vars => A
  <2> SUFFICES ASSUME IInv, [Next]_vars, stored'.addr # stored.addr
               PROVE  \/ marks # "nothing" /\ network[stored'.addr] = "door"
                      \/ marks = "serial" /\ flow.probed = "door"
    OBVIOUS
  <2>1. FlowReads
    BY StoredByDialogs DEF vars, entryVars
  <2>2. In("flow") /\ flow.at = "reading" /\ Accepted /\ stored' # stored
    BY <2>1 DEF FlowReads
  <2> QED BY <2>2, AcceptedPlace
<1> QED BY <1>1, Invariance, PTL DEF Spec, StaysOnDoor
=============================================================================
