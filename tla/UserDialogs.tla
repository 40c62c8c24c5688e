----------------------------- MODULE UserDialogs -----------------------------
(***************************************************************************)
(* The users that the door itself stores, and the options flows of         *)
(* config_flow.py that manage them through the commands of api.py, while   *)
(* the phone app and other dialogs change the same store.                  *)
(*                                                                         *)
(* A command is one step: the door carries it out, and the dialog goes on  *)
(* to its next form or command.  Forms stay open as long as the user       *)
(* likes, so what others do between reading and acting falls between two   *)
(* steps.  A command may also fail before the door sees it, or be carried  *)
(* out although its answer never came, then or later (`late`).  How an     *)
(* enrollment is followed and aborted is the module Enrollment; here it    *)
(* runs, occupies the door, and ends.  "FINISH does not mean the           *)
(* credential is readable yet": what was captured can be read later.       *)
(*                                                                         *)
(* Users and credentials are numbered as they come into being.  The number *)
(* says who somebody is; a userid or an apid says so only while it is not  *)
(* handed out again.                                                       *)
(* A definition that is preceded by a faulty variant of itself is one the  *)
(* README lists.                                                           *)
(***************************************************************************)
EXTENDS Naturals, FiniteSets

CONSTANTS
    Dialogs,     \* options flows
    Slots,       \* fingerprint slots of a user, APTYPE_FINGERPRINTS
    ScanLimit,   \* USER_ID_SCAN_LIMIT
    LastId,      \* the highest userid and apid of the door
    MaxBirths,   \* users and credentials that ever come into being
    MaxOthers,   \* changes made with the phone app
    MaxTroubles  \* commands that fail, or reloads of the entry

Ids == 0..LastId
Nobody == 0
Unknown == LastId + 2   \* no usercount in the parameters
Phone == "phone"

ASSUME SizesAssumption ==
    /\ LastId \in Nat \ {0} /\ ScanLimit \in 1..LastId + 1
    /\ MaxBirths \in Nat /\ 3 <= MaxBirths
    /\ MaxOthers \in Nat /\ MaxTroubles \in Nat
    /\ Slots \subseteq Nat /\ Slots # {}
    /\ Dialogs \cap {Phone, "none"} = {}

VARIABLES
    users,      \* who has which userid
    creds,      \* the credentials
    hidden,     \* those that were captured and cannot be read yet
    enrolling,  \* the enrollment that the door runs
    births,     \* users and credentials so far
    family,     \* the user model of the door
    count,      \* usercount in coordinator.data
    loaded,     \* the entry has runtime_data
    late,       \* a request that was given up and that the door still has
    flow,       \* the dialogs
    wrong,      \* whom a request was meant for that hit somebody else
    others, troubles

store == <<users, creds, hidden, enrolling, births>>
link == <<family, count, loaded, late>>
bounds == <<others, troubles>>
vars == <<store, link, flow, wrong, bounds>>

NoEnrollment == [by |-> "none", id |-> 0, slot |-> 0]
Request(d, cmd, target, slot, meant) ==
    [by |-> d, cmd |-> cmd, target |-> target, slot |-> slot, meant |-> meant]
NoRequest == Request(Phone, "none", 0, 0, Nobody)

\* The enumeration: the next id, who was found, usercount, and who was there.
NoScan == [next |-> 0, found |-> {}, limit |-> Unknown, there |-> {}]

\* A flow: its step, _userid, whom its open form names and what it offers,
\* the enumeration, whom it has created, and the credentials of the user that
\* it read when its slot was submitted.
NoFlow == [at |-> "start", userid |-> 0, title |-> Nobody, options |-> {},
           scan |-> NoScan, made |-> Nobody, known |-> {}]

Present == {users[i] : i \in Ids} \ {Nobody}
Of(i) == {c \in creds : c.id = i}
Read(i) == {c \in Of(i) : c.print \notin hidden}   \* what getUser answers
Free(i) == Slots \ {c.slot : c \in Read(i)}
Running == enrolling # NoEnrollment

Places == {"start", "menu", "listing", "select_user", "user_menu", "slots",
           "checking", "starting", "enrolling", "remove_credential", "ended"}

Options == [id : Ids, who : 1..births] \cup [slot : Slots]
               \cup [apid : Ids, id : Ids, slot : Slots, print : 1..births]

TypeOK ==
    /\ births \in 0..MaxBirths
    /\ users \in [Ids -> 0..births]
    /\ creds \in SUBSET [apid : Ids, id : Ids, slot : Slots, print : 1..births]
    /\ \A b, c \in creds : b.apid = c.apid \/ (b.id = c.id /\ b.slot = c.slot) => b = c
    /\ \A c \in creds : users[c.id] # Nobody
    /\ hidden \subseteq 1..births
    /\ Running => enrolling \in [by : Dialogs \cup {Phone}, id : Ids, slot : Slots]
    /\ family \in {"plain", "io_smart"}
    /\ count \in {Unknown} \cup 0..LastId + 1
    /\ loaded \in BOOLEAN
    /\ late = NoRequest \/ late \in
          [by : Dialogs, cmd : {"createUser", "deleteUser", "deleteAp", "enroll"},
           target : Ids, slot : Slots \cup {0}, meant : 0..births]
    /\ \A d \in Dialogs :
          /\ flow[d].at \in Places
          /\ flow[d].userid \in Ids
          /\ {flow[d].title, flow[d].made} \cup flow[d].known \subseteq 0..births
          /\ flow[d].options \subseteq Options
          /\ flow[d].at \in {"select_user", "slots", "remove_credential"} => flow[d].options # {}
          /\ flow[d].scan.next \in 0..ScanLimit
          /\ flow[d].scan.found \subseteq [id : Ids, who : 1..births]
    /\ wrong \subseteq 0..births
    /\ others \in 0..MaxOthers /\ troubles \in 0..MaxTroubles

\* The door has its administrator, who has a credential, and perhaps another
\* user; the coordinator has polled it.  Slots are alike, so it is any slot.
Init ==
    /\ \E n \in 1..2 :
          /\ users = [i \in Ids |-> IF i < n THEN i + 1 ELSE Nobody]
          /\ count \in {n, Unknown}
    /\ creds = {[apid |-> 0, id |-> 0, slot |-> CHOOSE s \in Slots : TRUE, print |-> 3]}
    /\ hidden = {}
    /\ enrolling = NoEnrollment
    /\ births = 3
    /\ family \in {"plain", "io_smart"}
    /\ loaded = TRUE
    /\ late = NoRequest
    /\ flow = [d \in Dialogs |-> NoFlow]
    /\ wrong = {}
    /\ others = 0 /\ troubles = 0

-----------------------------------------------------------------------------
(* The door.                                                               *)

\* While an enrollment runs, the door answers "almost nothing else".
Accepts(r) ==
    CASE r.cmd = "createUser" -> ~Running /\ births < MaxBirths /\ \E i \in Ids : users[i] = Nobody
      [] r.cmd = "enroll"     -> users[r.target] # Nobody
      [] r.cmd = "deleteUser" -> ~Running /\ users[r.target] # Nobody
      [] r.cmd = "deleteAp"   -> ~Running

\* What a request does to the store: a new user gets the lowest free id, a
\* deleted one takes its credentials along.
Effect(r) ==
    CASE r.cmd = "createUser" ->
            /\ \E i \in Ids : /\ users[i] = Nobody /\ \A j \in 0..i - 1 : users[j] # Nobody
                              /\ users' = [users EXCEPT ![i] = births + 1]
            /\ births' = births + 1
            /\ UNCHANGED <<creds, hidden, enrolling>>
      [] r.cmd = "deleteUser" ->
            /\ users' = [users EXCEPT ![r.target] = Nobody]
            /\ creds' = creds \ Of(r.target)
            /\ UNCHANGED <<births, hidden, enrolling>>
      [] r.cmd = "deleteAp" ->
            /\ creds' = {c \in creds : c.apid # r.target}
            /\ UNCHANGED <<users, births, hidden, enrolling>>
      [] r.cmd = "enroll" ->
            /\ enrolling' = [by |-> r.by, id |-> r.target, slot |-> r.slot]
            /\ UNCHANGED <<users, births, creds, hidden>>

\* Whom or what it changes.
Hit(r) ==
    CASE r.cmd = "createUser" -> {}
      [] r.cmd = "deleteAp"   -> {c.print : c \in {b \in creds : b.apid = r.target}}
      [] OTHER                -> {users[r.target]}

CarryOut(r) ==
    /\ Accepts(r)
    /\ Effect(r)
    /\ wrong' = IF Hit(r) \subseteq {r.meant} THEN wrong ELSE wrong \cup {r.meant}

\* A request whose sender has given up.
LateArrives ==
    /\ late # NoRequest
    /\ late' = NoRequest
    /\ CarryOut(late) \/ (~Accepts(late) /\ UNCHANGED <<store, wrong>>)
    /\ UNCHANGED <<family, count, loaded, flow, bounds>>

\* The finger is captured; what the slot held before is gone, and what it holds
\* now cannot be read yet.
Captures ==
    /\ Running
    /\ births < MaxBirths
    /\ births' = births + 1
    /\ \E a \in Ids \ {c.apid : c \in creds} :
          creds' = {c \in creds : c.id # enrolling.id \/ c.slot # enrolling.slot} \cup
                   {[apid |-> a, id |-> enrolling.id, slot |-> enrolling.slot, print |-> births + 1]}
    /\ hidden' = hidden \cup {births'}
    /\ enrolling' = NoEnrollment
    /\ UNCHANGED <<users, link, flow, wrong, bounds>>

\* The record of the user is brought up to date.
Appears ==
    /\ \E n \in hidden : hidden' = hidden \ {n}
    /\ UNCHANGED <<users, births, creds, enrolling, link, flow, wrong, bounds>>

GivesUp ==
    /\ Running
    /\ enrolling' = NoEnrollment
    /\ UNCHANGED <<users, births, creds, hidden, link, flow, wrong, bounds>>

\* Somebody at the phone app.
Other ==
    /\ others < MaxOthers
    /\ ~Running
    /\ others' = others + 1
    /\ \E cmd \in {"createUser", "deleteUser", "deleteAp", "enroll"}, i \in Ids :
       \E s \in IF cmd = "enroll" THEN Free(i) ELSE {0} :
          LET r == Request(Phone, cmd, i, s, Nobody) IN Accepts(r) /\ Effect(r)
    /\ UNCHANGED <<link, flow, wrong, troubles>>

-----------------------------------------------------------------------------
(* The entry.                                                              *)

\* A flow that is over; what it has submitted may still arrive.
Ended(d) == [NoFlow EXCEPT !.at = "ended", !.known = flow[d].known]

\* The number that a poll brings, if the door reports it at all.
Counted == IF count = Unknown THEN Unknown ELSE Cardinality(Present)

Poll ==
    /\ loaded /\ late = NoRequest
    /\ ~Running
    /\ count' = Counted
    /\ UNCHANGED <<store, family, loaded, late, flow, wrong, bounds>>

\* A step that holds the client of an entry that is unloaded gets no further:
\* a new set-up has a new one.  What the door has received it still carries out.
Unload ==
    /\ troubles < MaxTroubles
    /\ loaded
    /\ troubles' = troubles + 1
    /\ loaded' = FALSE
    /\ late' \in {late, NoRequest}
    /\ flow' = [d \in Dialogs |-> IF flow[d].at \in {"listing", "checking", "starting"}
                                  THEN Ended(d) ELSE flow[d]]
    /\ UNCHANGED <<store, family, count, wrong, others>>

Load ==
    /\ ~loaded
    /\ ~Running
    /\ loaded' = TRUE
    /\ count' = Counted
    /\ UNCHANGED <<store, family, late, flow, wrong, bounds>>

-----------------------------------------------------------------------------
(* The steps of a dialog.  Without runtime_data a step raises              *)
(* AttributeError, and the dialog stays where it is.                       *)

In(d, place) == flow[d].at = place
Become(d, f) == flow' = [flow EXCEPT ![d] = f]
End(d) == Become(d, Ended(d))
Selected(d) == users[flow[d].userid]

\* A form or menu about the selected user.
Form(d, place, offered) ==
    [flow[d] EXCEPT !.at = place, !.title = Selected(d), !.options = offered]

\* A command that the door answers.
Connected == loaded /\ late = NoRequest
Readable == Connected /\ ~Running

Open(d) ==
    /\ In(d, "start")
    /\ IF loaded /\ family = "plain"
       THEN Become(d, [NoFlow EXCEPT !.at = "menu"])
       ELSE End(d)
    /\ UNCHANGED <<store, link, wrong, bounds>>

AddUser(d) ==
    /\ In(d, "menu")
    /\ Connected
    /\ CarryOut(Request(d, "createUser", 0, 0, Nobody))
    /\ Become(d, [flow[d] EXCEPT !.made = births'])
    /\ UNCHANGED <<link, bounds>>

\* create_user_failed, and the form is shown again.
AddUserFails(d) ==
    /\ In(d, "menu")
    /\ Connected
    /\ troubles < MaxTroubles
    /\ troubles' = troubles + 1
    /\ late' \in {NoRequest, Request(d, "createUser", 0, 0, Nobody)}
    /\ UNCHANGED <<store, family, count, loaded, flow, wrong, others>>

List(d) ==
    /\ In(d, "menu")
    /\ loaded
    /\ Become(d, [flow[d] EXCEPT !.at = "listing",
                                 !.scan = [NoScan EXCEPT !.limit = count, !.there = Present]])
    /\ UNCHANGED <<store, link, wrong, bounds>>

AllFound(s) == s.limit # Unknown /\ Cardinality(s.found) >= s.limit

ScanOverAtGap(s) == AllFound(s) \/ s.next = ScanLimit
                        \/ (s.next > 0 /\ \A u \in s.found : u.id # s.next - 1)
ScanOver(s) == AllFound(s) \/ s.next = ScanLimit

\* async_get_user: an id that holds no user is no failure.
ReadNext(d) ==
    /\ In(d, "listing")
    /\ ~ScanOver(flow[d].scan)
    /\ Readable
    /\ LET i == flow[d].scan.next
           there == IF users[i] = Nobody THEN {} ELSE {[id |-> i, who |-> users[i]]}
       IN Become(d, [flow[d] EXCEPT !.scan.next = i + 1, !.scan.found = @ \cup there])
    /\ UNCHANGED <<store, link, wrong, bounds>>

ListedEvenIfNone(d) ==
    /\ In(d, "listing")
    /\ ScanOver(flow[d].scan)
    /\ Become(d, [flow[d] EXCEPT !.at = "select_user", !.options = flow[d].scan.found])
    /\ UNCHANGED <<store, link, wrong, bounds>>

Listed(d) ==
    /\ In(d, "listing")
    /\ ScanOver(flow[d].scan)
    /\ IF flow[d].scan.found = {}
       THEN End(d)
       ELSE Become(d, [flow[d] EXCEPT !.at = "select_user", !.options = flow[d].scan.found])
    /\ UNCHANGED <<store, link, wrong, bounds>>

\* async_step_user_menu
Select(d) ==
    /\ In(d, "select_user")
    /\ Readable
    /\ \E u \in flow[d].options :
          IF users[u.id] = Nobody
          THEN End(d)
          ELSE Become(d, [NoFlow EXCEPT !.at = "user_menu", !.userid = u.id,
                                        !.title = users[u.id]])
    /\ UNCHANGED <<store, link, wrong, bounds>>

\* async_step_enroll_fingerprint, first without and then with a slot.
OfferedOnForm(d) == flow[d].options
OfferedNow(d) == {[slot |-> s] : s \in Free(flow[d].userid)}

OpenSlots(d) ==
    /\ In(d, "user_menu")
    /\ Readable
    /\ IF Selected(d) = Nobody \/ Free(flow[d].userid) = {}
       THEN End(d)
       ELSE Become(d, Form(d, "slots", {[slot |-> s] : s \in Free(flow[d].userid)}))
    /\ UNCHANGED <<store, link, wrong, bounds>>

SubmitSlot(d) ==
    /\ In(d, "slots")
    /\ Readable
    /\ IF Selected(d) = Nobody \/ OfferedNow(d) = {}
       THEN End(d)
       ELSE \E o \in flow[d].options :
               Become(d, IF o \in OfferedNow(d)
                         THEN [flow[d] EXCEPT !.at = "checking", !.options = {o},
                                              !.known = {c.print : c \in Read(flow[d].userid)}]
                         ELSE Form(d, "slots", OfferedNow(d)))
    /\ UNCHANGED <<store, link, wrong, bounds>>

\* _async_start_enrollment: whether the door is enrolling, then the command.
Check(d) ==
    /\ In(d, "checking")
    /\ Connected
    /\ IF Running THEN End(d) ELSE Become(d, [flow[d] EXCEPT !.at = "starting"])
    /\ UNCHANGED <<store, link, wrong, bounds>>

EnrollRequests(d) ==
    {Request(d, "enroll", flow[d].userid, o.slot, flow[d].title) : o \in flow[d].options}

StartEnrollment(d) ==
    /\ In(d, "starting")
    /\ Connected
    /\ \E r \in EnrollRequests(d) :
          IF Accepts(r)
          THEN CarryOut(r) /\ Become(d, [Ended(d) EXCEPT !.at = "enrolling"])
          ELSE End(d) /\ UNCHANGED <<store, wrong>>
    /\ UNCHANGED <<link, bounds>>

\* The dialog has seen an end of the enrollment, or aborts whichever the door
\* runs, if the abort reaches it.
EnrollmentOver(d) ==
    /\ In(d, "enrolling")
    /\ End(d)
    /\ enrolling' \in {enrolling, NoEnrollment}
    /\ UNCHANGED <<users, births, creds, hidden, link, wrong, bounds>>

OpenRemove(d) ==
    /\ In(d, "user_menu")
    /\ Readable
    /\ IF Read(flow[d].userid) = {}
       THEN End(d)
       ELSE Become(d, Form(d, "remove_credential", Read(flow[d].userid)))
    /\ UNCHANGED <<store, link, wrong, bounds>>

RemoveBySlot(d) ==
    {Request(d, "deleteAp", c.slot, 0, c.print) : c \in flow[d].options}
RemoveRequests(d) ==
    {Request(d, "deleteAp", c.apid, 0, c.print) : c \in flow[d].options}

RemoveCredential(d) ==
    /\ In(d, "remove_credential")
    /\ Connected
    /\ \E r \in RemoveRequests(d) : CarryOut(r)
    /\ End(d)
    /\ UNCHANGED <<link, bounds>>

DeleteRequest(d) == Request(d, "deleteUser", flow[d].userid, 0, flow[d].title)

DeleteUser(d) ==
    /\ In(d, "user_menu")
    /\ Connected
    /\ CarryOut(DeleteRequest(d))
    /\ End(d)
    /\ UNCHANGED <<link, bounds>>

\* What the dialog could have out in the step where it is.
Requests(d) ==
    CASE In(d, "starting")          -> EnrollRequests(d)
      [] In(d, "remove_credential") -> RemoveRequests(d)
      [] In(d, "user_menu")         -> {DeleteRequest(d)}
      [] OTHER                      -> {}

\* cannot_connect: a command failed, or was refused.
CannotConnect(d) ==
    /\ flow[d].at \notin {"start", "menu", "enrolling", "ended"}
    /\ Connected
    /\ \/ /\ Running /\ flow[d].at \notin {"checking", "starting"}
          /\ UNCHANGED <<late, troubles>>
       \/ /\ troubles < MaxTroubles
          /\ troubles' = troubles + 1
          /\ late' \in {NoRequest} \cup Requests(d)
       \/ /\ In(d, "user_menu") /\ ~Accepts(DeleteRequest(d))
          /\ UNCHANGED <<late, troubles>>
    /\ End(d)
    /\ UNCHANGED <<store, family, count, loaded, wrong, others>>

-----------------------------------------------------------------------------

Door == LateArrives \/ Captures \/ Appears \/ GivesUp \/ Other
Entry == Poll \/ Unload \/ Load

Dialog(d) ==
    \/ Open(d) \/ AddUser(d) \/ AddUserFails(d) \/ List(d) \/ ReadNext(d)
    \/ Listed(d) \/ Select(d) \/ OpenSlots(d) \/ SubmitSlot(d) \/ Check(d)
    \/ StartEnrollment(d) \/ EnrollmentOver(d) \/ OpenRemove(d)
    \/ RemoveCredential(d) \/ DeleteUser(d) \/ CannotConnect(d)

Next == Door \/ Entry \/ \E d \in Dialogs : Dialog(d)

Spec == Init /\ [][Next]_vars

-----------------------------------------------------------------------------
(* Properties.                                                             *)

\* "Deleting by slot number would hit another user's credential".  An id can do
\* so as well, as RemovedWasOwn shows, but no more than that: whatever a form
\* names and is still there is never mistaken for another, by no dialog and no
\* request that arrives late.
WrongOnlyIfGone == wrong \cap (Present \cup {c.print : c \in creds}) = {}

\* "A deleted user must not hide everyone behind it": who was there when the
\* enumeration began and still is has been found, unless it stopped at a
\* usercount that was too low already or that newcomers have filled.
ListedUnlessOvertaken ==
    \A d \in Dialogs : In(d, "select_user") =>
        LET s == flow[d].scan
            found == {u.who : u \in s.found}
        IN \A i \in 0..ScanLimit - 1 :
              users[i] \in s.there /\ users[i] \notin found =>
                 /\ AllFound(s)
                 /\ \/ s.limit < Cardinality(s.there)
                    \/ ~(found \subseteq s.there)

\* "A slot claimed by somebody else while your form was open is rejected
\* rather than overwritten": as far as the door could tell.  No dialog, and no
\* request of it that arrives late, has the door enroll over a credential that
\* could be read when the slot was submitted.
NoKnownSlotOverwritten ==
    [][\A d \in Dialogs : enrolling'.by = d /\ enrolling.by # d =>
          \A c \in Of(enrolling'.id) :
              c.slot = enrolling'.slot => c.print \notin flow[d].known]_vars

\* "Removal goes by `apid`, so it cannot hit another user's credential": what a
\* dialog has the door remove belonged to the user it was opened for.
RemovedWasOwn ==
    [][\A d \in Dialogs : RemoveCredential(d) =>
          {c.id : c \in creds \ creds'} \subseteq {flow[d].userid}]_vars

\* "Its fingerprints, tags and codes are enrolled afterwards, from the menu of
\* the user you just created": who a dialog has created is offered by it.
NewUserListed ==
    \A d \in Dialogs : In(d, "select_user") /\ flow[d].made \in Present =>
        \E u \in flow[d].options : u.who = flow[d].made
=============================================================================
