-------------------------- MODULE EnrollmentProofs --------------------------
(***************************************************************************)
(* Proofs about Enrollment, for any number of dialogs and every bound: the *)
(* flag that hides failed polls is not left behind, and somebody's finger  *)
(* is captured when a dialog says so.  For a dialog that has no rival: it  *)
(* is its own finger, its polls are ridden out, and the door is left       *)
(* enrolling only in the ways that the README lists.                       *)
(***************************************************************************)
EXTENDS Enrollment, QueueProofs, TLAPS

-----------------------------------------------------------------------------
(* The inductive invariant.                                                *)

Sent == [from : Procs, awaited : BOOLEAN, cmd : {"get", "create", "abort"}]
Command == [cmd : {"none", "get", "create", "abort"},
            at : {"idle", "queued", "sent", "done"},
            got : DoorStates \cup {"nothing", "ok", "failed"}]
Places == {"form", "checking", "clearing", "rechecking", "creating", "sleeping",
           "polling", "failing", "ended"}
Outcomes == {"open", "success", "refused", "cannot_start", "failed", "closed"}

DoorOK ==
    /\ door \in [state : DoorStates, owner : Dialogs \cup {Nobody}, left : {"NONE", "FINISH", "ABORT"}]
    /\ reported \in BOOLEAN /\ captured \in SUBSET Dialogs
    /\ door.state = "ACCEPTED" => door.owner \in Dialogs
LineOK == up \in BOOLEAN /\ wire \in Seq(Sent) /\ line \in Seq(Procs)
AskOK == ask \in [Procs -> Command]
FlowsOK ==
    /\ at \in [Dialogs -> Places] /\ outcome \in [Dialogs -> Outcomes]
    /\ started \in [Dialogs -> BOOLEAN] /\ enrolling \in [Dialogs -> BOOLEAN]
    /\ active \in BOOLEAN
BoundsOK == timeouts \in 0..MaxTimeouts /\ drops \in 0..MaxDrops /\ closes \in 0..MaxCloses

Types ==
    /\ DoorOK
    /\ LineOK
    /\ AskOK
    /\ FlowsOK
    /\ BoundsOK

\* A dialog that follows its enrollment has raised the flag.
Flagged ==
    \A d \in Dialogs : at[d] \in {"creating", "sleeping", "polling"} /\ outcome[d] = "open" =>
        enrolling[d]

\* Nobody else lowers the flag of a dialog without a rival.
Raised == (\A d, e \in Dialogs : d = e) => \A d \in Dialogs : enrolling[d] => active

\* The queue of the lock is that of the tasks that wait for it.
QueueOK ==
    /\ Distinct(line)
    /\ Members(line) = {p \in Procs : ask[p].at = "queued"}
    /\ \A p \in Procs : ask[p].cmd = "none" <=> ask[p].at = "idle"

\* A task has out the command of the place where it is; a dialog is cleaned up
\* after once.
Fits(d) ==
    /\ at[d] \in {"checking", "rechecking", "polling"} => ask[Main(d)].cmd = "get"
    /\ at[d] \in {"clearing", "failing"} => ask[Main(d)].cmd = "abort"
    /\ at[d] = "creating" => ask[Main(d)].cmd = "create"
    /\ at[d] \in {"form", "sleeping", "ended"} => ask[Main(d)] = Idle
    /\ ask[Cleanup(d)].cmd \in {"none", "abort"}
    /\ outcome[d] = "open" => ask[Cleanup(d)] = Idle
Commands == \A d \in Dialogs : Fits(d)

\* What is awaited on the wire is the command that is out; a lost session
\* leaves neither requests nor an enrollment.
Awaited ==
    /\ \A i \in 1..Len(wire) : wire[i].awaited =>
           ask[wire[i].from].at = "sent" /\ ask[wire[i].from].cmd = wire[i].cmd
    /\ \A i, j \in 1..Len(wire) :
           wire[i].awaited /\ wire[j].awaited /\ wire[i].from = wire[j].from => i = j
NoSession == ~up => wire = <<>> /\ ~Busy

\* While nothing was captured, the end of an enrollment that can be read is
\* that of somebody at the door itself, and no dialog has found it at rest.
Foreign == door.state = "FINISH" \/ (door.state = "RUNNING" /\ door.owner = Nobody)
Hopeful ==
    captured = {} =>
        /\ door.left # "FINISH"
        /\ \A d \in Dialogs : /\ outcome[d] # "success"
                              /\ at[d] = "polling" => ask[Main(d)].got # "FINISH"
        /\ Foreign =>
              /\ \A p \in Procs : ask[p].cmd # "create" /\ ask[p].got # "NONE"
              /\ \A i \in 1..Len(wire) : wire[i].cmd # "create"
              /\ \A d \in Dialogs :
                    at[d] \in {"form", "checking", "clearing", "rechecking", "ended"}

\* A dialog without a rival, as long as nothing timed out.
Alone == \A d, e \in Dialogs : d = e
Early == {"form", "checking", "clearing", "rechecking"}
Aborting(d) ==
    \/ ask[Cleanup(d)].at \in {"queued", "sent"}
    \/ \E i \in 1..Len(wire) : wire[i].from[1] = d /\ wire[i].cmd = "abort"
Ordered(d) ==
    /\ at[d] \in Early => door.state # "ACCEPTED" /\ door.owner # d
    /\ at[d] \in {"checking", "rechecking"} /\ Got(Main(d)) = "NONE" => door.state = "NONE"
    /\ at[d] = "creating" /\ ask[Main(d)].at \in {"queued", "sent"} => door.state = "NONE"
    /\ at[d] = "creating" /\ ask[Main(d)].at = "done" /\ Got(Main(d)) # "ok" => ~Busy
    /\ at[d] = "polling" /\ Got(Main(d)) = "FINISH" => ~Busy
    /\ at[d] = "failing" /\ ask[Main(d)].at = "done" => ~Busy
    /\ at[d] = "ended" /\ Holds(d) => Aborting(d) \/ (outcome[d] = "failed" /\ closes > 0)
InOrder ==
    Alone /\ timeouts = 0 =>
        /\ door.left = "NONE"
        /\ \A i \in 1..Len(wire) : wire[i].cmd = "create" => wire[i].awaited
        /\ \A d \in Dialogs : Ordered(d)

IInv ==
    /\ Types
    /\ FlagNotStuck
    /\ Flagged
    /\ Raised
    /\ QueueOK
    /\ Commands
    /\ Awaited
    /\ NoSession
    /\ Hopeful
    /\ InOrder

-----------------------------------------------------------------------------
(* Tasks, the queue of the lock, and the wire.                             *)

LEMMA ProcFacts ==
    /\ \A d \in Dialogs : Main(d) \in Procs /\ Cleanup(d) \in Procs
    /\ \A d, e \in Dialogs : Main(d) # Cleanup(e)
    /\ \A d, e \in Dialogs : (Main(d) = Main(e) => d = e) /\ (Cleanup(d) = Cleanup(e) => d = e)
    /\ \A d \in Dialogs : Main(d)[1] = d /\ Cleanup(d)[1] = d
    /\ \A p \in Procs : p[1] \in Dialogs /\ (p = Main(p[1]) \/ p = Cleanup(p[1]))
BY DEF Main, Cleanup, Procs

\* The wire without its first request.
LEMMA WireTail ==
    ASSUME LineOK, wire # <<>>, wire' = Tail(wire)
    PROVE  /\ wire' \in Seq(Sent) /\ Head(wire) \in Sent /\ Head(wire) = wire[1]
           /\ 1 \in 1..Len(wire)
           /\ \A i \in 1..Len(wire') : i + 1 \in 1..Len(wire) /\ wire'[i] = wire[i + 1]
           /\ \A i \in 1..Len(wire) : i # 1 => i - 1 \in 1..Len(wire') /\ wire'[i - 1] = wire[i]
<1>1. /\ Tail(wire) \in Seq(Sent) /\ Len(Tail(wire)) = Len(wire) - 1
      /\ \A i \in 1..Len(wire) - 1 : Tail(wire)[i] = wire[i + 1]
  BY DEF LineOK
<1>2. Len(wire) \in Nat /\ Len(wire) # 0 /\ Head(wire) = wire[1]
  BY DEF LineOK
<1>3. Head(wire) \in Sent
  BY <1>2 DEF LineOK
<1> QED BY <1>1, <1>2, <1>3

LEMMA WireGrows ==
    ASSUME LineOK, NEW r \in Sent, wire' = Append(wire, r)
    PROVE  /\ wire' \in Seq(Sent)
           /\ Len(wire') = Len(wire) + 1 /\ wire'[Len(wire')] = r /\ Len(wire') \in 1..Len(wire')
           /\ \A i \in 1..Len(wire') : i = Len(wire') \/ (i \in 1..Len(wire) /\ wire'[i] = wire[i])
           /\ \A i \in 1..Len(wire) : i \in 1..Len(wire') /\ i # Len(wire') /\ wire'[i] = wire[i]
<1>1. /\ wire' \in Seq(Sent) /\ Len(wire') = Len(wire) + 1 /\ wire'[Len(wire) + 1] = r
      /\ \A i \in 1..Len(wire) : wire'[i] = wire[i]
  BY DEF LineOK
<1>2. Len(wire) \in Nat
  BY DEF LineOK
<1> QED BY <1>1, <1>2

LEMMA WireOrphaned ==
    ASSUME LineOK, NEW p, wire' = Orphaned(p)
    PROVE  /\ wire' \in Seq(Sent) /\ Len(wire') = Len(wire)
           /\ \A i \in 1..Len(wire) :
                  /\ wire'[i].from = wire[i].from /\ wire'[i].cmd = wire[i].cmd
                  /\ wire'[i].awaited => wire[i].awaited /\ wire[i].from # p
                  /\ wire[i].awaited /\ wire[i].from # p => wire'[i].awaited
<1>1. Len(wire) \in Nat /\ \A i \in 1..Len(wire) : wire[i] \in Sent
  BY DEF LineOK
<1>2. wire' = [i \in 1..Len(wire) |-> IF wire[i].from = p
                   THEN [wire[i] EXCEPT !.awaited = FALSE] ELSE wire[i]]
  BY DEF Orphaned
<1>3. \A i \in 1..Len(wire) : (IF wire[i].from = p
                   THEN [wire[i] EXCEPT !.awaited = FALSE] ELSE wire[i]) \in Sent
  BY <1>1 DEF Sent
<1>4. wire' \in Seq(Sent) /\ Len(wire') = Len(wire)
  BY <1>1, <1>2, <1>3
<1> QED BY <1>1, <1>2, <1>4 DEF Sent

-----------------------------------------------------------------------------
(* What the steps of a dialog do.                                          *)

\* What is out when a dialog has come to a place.
CommandAt(place) ==
    CASE place \in {"checking", "rechecking", "polling"} -> Queued("get")
      [] place \in {"clearing", "failing"}               -> Queued("abort")
      [] place = "creating"                              -> Queued("create")
      [] OTHER                                           -> Idle

GoesTo(d, to) ==
    /\ at' = [at EXCEPT ![d] = to]
    /\ ask' = [ask EXCEPT ![Main(d)] = CommandAt(to)]
    /\ line' = IF to \in {"sleeping", "ended"} THEN line ELSE Append(line, Main(d))
    /\ UNCHANGED wire

\* A dialog asks for its next command, or has none for a while.
LEMMA AskGoes ==
    ASSUME NEW d
    PROVE  /\ \A to \in {"checking", "rechecking", "polling"} : Ask(d, to, "get") => GoesTo(d, to)
           /\ \A to \in {"clearing", "failing"} : Ask(d, to, "abort") => GoesTo(d, to)
           /\ Ask(d, "creating", "create") => GoesTo(d, "creating")
           /\ \A result : End(d, result) => GoesTo(d, "ended")
           /\ at' = [at EXCEPT ![d] = "sleeping"] /\ NoMore(Main(d)) => GoesTo(d, "sleeping")
<1>1. \A to \in {"checking", "rechecking", "polling"} : CommandAt(to) = Queued("get")
  BY DEF CommandAt
<1>2. \A to \in {"clearing", "failing"} : CommandAt(to) = Queued("abort")
  BY DEF CommandAt
<1>3. CommandAt("creating") = Queued("create")
  BY DEF CommandAt
<1>4. CommandAt("sleeping") = Idle /\ CommandAt("ended") = Idle
  BY DEF CommandAt
<1>5. \A to \in {"checking", "rechecking", "polling"} : Ask(d, to, "get") => GoesTo(d, to)
  BY <1>1 DEF Ask, Post, GoesTo
<1>6. \A to \in {"clearing", "failing"} : Ask(d, to, "abort") => GoesTo(d, to)
  BY <1>2 DEF Ask, Post, GoesTo
<1>7. Ask(d, "creating", "create") => GoesTo(d, "creating")
  BY <1>3 DEF Ask, Post, GoesTo
<1>8. \A result : End(d, result) => GoesTo(d, "ended")
  BY <1>4 DEF End, NoMore, GoesTo
<1>9. at' = [at EXCEPT ![d] = "sleeping"] /\ NoMore(Main(d)) => GoesTo(d, "sleeping")
  BY <1>4 DEF NoMore, GoesTo
<1> QED BY <1>5, <1>6, <1>7, <1>8, <1>9

\* Its command is over, or the next one is in the queue.
LEMMA FlowMoves ==
    ASSUME NEW d \in Dialogs, Starting(d) \/ Worker(d)
    PROVE  /\ UNCHANGED <<doorVars, up, boundVars, wire>>
           /\ \E to \in Places \ {"form"} :
                 /\ at' = [at EXCEPT ![d] = to]
                 /\ ask' = [ask EXCEPT ![Main(d)] = CommandAt(to)]
                 /\ line' = IF to \in {"sleeping", "ended"} THEN line ELSE Append(line, Main(d))
           /\ started' = started \/ \E b \in BOOLEAN : started' = [started EXCEPT ![d] = b]
           /\ outcome' = outcome \/ \E o \in Outcomes : outcome' = [outcome EXCEPT ![d] = o]
           /\ \/ UNCHANGED <<enrolling, active>>
              \/ \E b \in BOOLEAN : SetEnrolling(d, b)
<1>1. UNCHANGED <<doorVars, up, boundVars>>
  BY DEF Starting, Worker, Submit, CannotStart, Refuse, ClearLeftOver, CheckAgain, Create,
         StartWorker, Poll, Succeed, PollAgain, PollFails, DeadlinePasses, Failed
<1>2. \E to \in Places \ {"form"} : GoesTo(d, to)
  <2>1. Ask(d, "creating", "create") \/ (\E result : End(d, result))
        \/ (\E to \in {"checking", "rechecking", "polling"} : Ask(d, to, "get"))
        \/ (\E to \in {"clearing", "failing"} : Ask(d, to, "abort"))
        \/ (at' = [at EXCEPT ![d] = "sleeping"] /\ NoMore(Main(d)))
    <3>1. CASE Submit(d) \/ CheckAgain(d) \/ Poll(d)
      BY <3>1 DEF Submit, CheckAgain, Poll
    <3>2. CASE ClearLeftOver(d) \/ PollFails(d) \/ DeadlinePasses(d)
      BY <3>2 DEF ClearLeftOver, PollFails, DeadlinePasses, Fail
    <3>3. CASE Create(d)
      BY <3>3 DEF Create
    <3>4. CASE StartWorker(d) \/ PollAgain(d)
      BY <3>4 DEF StartWorker, PollAgain
    <3>5. CASE CannotStart(d) \/ Succeed(d) \/ Refuse(d) \/ Failed(d)
      BY <3>5 DEF CannotStart, Succeed, Refuse, Failed
    <3> QED BY <3>1, <3>2, <3>3, <3>4, <3>5 DEF Starting, Worker
  <2> QED BY <2>1, AskGoes DEF Places
<1>3. started' = started \/ \E b \in BOOLEAN : started' = [started EXCEPT ![d] = b]
  <2>1. SeenRunning(d) \in BOOLEAN
    BY DEF SeenRunning
  <2> QED BY <2>1 DEF Starting, Worker, Submit, CannotStart, Refuse, ClearLeftOver, CheckAgain,
         Create, StartWorker, Poll, Succeed, PollAgain, PollFails, DeadlinePasses, Failed, Fail, End
<1>4. outcome' = outcome \/ \E o \in Outcomes : outcome' = [outcome EXCEPT ![d] = o]
  BY DEF Starting, Worker, Submit, CannotStart, Refuse, ClearLeftOver, CheckAgain, Create,
         StartWorker, Poll, Succeed, PollAgain, PollFails, DeadlinePasses, Failed, Fail, End, Ask,
         Outcomes
<1>5. UNCHANGED <<enrolling, active>> \/ \E b \in BOOLEAN : SetEnrolling(d, b)
  BY DEF Starting, Worker, Submit, CannotStart, Refuse, ClearLeftOver, CheckAgain, Create,
         FlagEnrollment, StartWorker, Poll, Succeed, PollAgain, PollFails, DeadlinePasses, Failed,
         Fail, KeepFlag
<1> QED BY <1>1, <1>2, <1>3, <1>4, <1>5 DEF GoesTo

-----------------------------------------------------------------------------
(* Every step keeps the types.                                             *)

\* What the door answers is no state that it never reports.
LEMMA ReadingType ==
    ASSUME DoorOK
    PROVE  Reading \in {"NONE", "RUNNING", "FINISH", "ABORT"}
BY DEF DoorOK, Reading, DoorStates

LEMMA AtPeaceType == AtPeace \in [state : DoorStates, owner : Dialogs \cup {Nobody},
                                  left : {"NONE", "FINISH", "ABORT"}]
BY DEF AtPeace, DoorStates

LEMMA DoorStep == Types /\ Next => DoorOK'
<1> SUFFICES ASSUME Types, Next PROVE DoorOK'
  OBVIOUS
<1> DoorOK /\ LineOK
  BY DEF Types
<1> USE ProcFacts
<1>a. ASSUME UNCHANGED doorVars PROVE DoorOK'
  BY <1>a DEF doorVars, DoorOK
<1>1. CASE Handle
  <2> DEFINE r == Head(wire)
  <2>1. r \in Sent
    BY <1>1, WireTail DEF Handle
  <2>2. r.from[1] \in Dialogs
    BY <2>1 DEF Sent
  <2>3. CASE r.cmd = "create"
    <3>1. door' = [state |-> "ACCEPTED", owner |-> r.from[1],
                   left |-> IF Reading = "RUNNING" THEN "NONE" ELSE Reading]
      BY <1>1, <2>3 DEF Handle
    <3>2. reported' = FALSE /\ captured' = captured
      BY <1>1, <2>3 DEF Handle
    <3>3. (IF Reading = "RUNNING" THEN "NONE" ELSE Reading) \in {"NONE", "FINISH", "ABORT"}
      BY ReadingType
    <3> HIDE DEF r
    <3> QED BY <3>1, <3>2, <3>3, <2>2 DEF DoorOK, DoorStates
  <2>4. CASE r.cmd = "get"
    <3>1. door' = door /\ captured' = captured /\ reported' = (reported \/ ~Busy)
      BY <1>1, <2>4 DEF Handle
    <3> QED BY <3>1 DEF DoorOK
  <2>5. CASE r.cmd = "abort"
    <3>1. door' = AtPeace /\ captured' = captured /\ reported' = FALSE
      BY <1>1, <2>5 DEF Handle
    <3> QED BY <3>1, AtPeaceType DEF DoorOK, AtPeace
  <2> QED BY <2>1, <2>3, <2>4, <2>5 DEF Sent
<1>2. CASE DoorStarts
  BY <1>2 DEF DoorStarts, DoorOK, DoorStates
<1>3. ASSUME NEW s \in {"FINISH", "ABORT"}, DoorEnds(s) PROVE DoorOK'
  <2>1. door' = [door EXCEPT !.state = s] /\ reported' = FALSE /\ captured' \subseteq captured \cup Dialogs
    BY <1>3 DEF DoorEnds
  <2> QED BY <2>1 DEF DoorOK, DoorStates
<1>4. CASE DoorRests
  BY <1>4, AtPeaceType DEF DoorRests, DoorOK, AtPeace
<1>5. CASE SessionDrops
  BY <1>5, AtPeaceType DEF SessionDrops, DoorOK, AtPeace
<1>6. CASE SessionBack
  BY <1>6, <1>a DEF SessionBack
<1>7. ASSUME NEW p \in Procs, Send(p) \/ TimesOut(p) PROVE DoorOK'
  BY <1>7, <1>a DEF Send, TimesOut
<1>8. ASSUME NEW d \in Dialogs, Starting(d) \/ Worker(d) \/ Close(d) \/ CleanedUp(d) PROVE DoorOK'
  BY <1>8, <1>a, FlowMoves DEF Close, CleanedUp
<1> QED BY <1>1, <1>2, <1>3, <1>4, <1>5, <1>6, <1>7, <1>8 DEF Next, Door

LEMMA LineStep == Types /\ QueueOK /\ Next => LineOK'
<1> SUFFICES ASSUME Types, QueueOK, Next PROVE LineOK'
  OBVIOUS
<1> LineOK /\ AskOK
  BY DEF Types
<1> USE ProcFacts
<1>a. ASSUME UNCHANGED <<up, wire, line>> PROVE LineOK'
  BY <1>a DEF LineOK
<1>b. ASSUME NEW p \in Procs PROVE Append(line, p) \in Seq(Procs)
  BY DEF LineOK
<1>1. CASE Handle
  BY <1>1, WireTail DEF Handle, LineOK
<1>2. CASE DoorStarts \/ DoorEnds("FINISH") \/ DoorEnds("ABORT") \/ DoorRests
  BY <1>2, <1>a DEF DoorStarts, DoorEnds, DoorRests
<1>3. CASE SessionDrops
  <2>1. up' = FALSE /\ wire' = <<>> /\ line' = <<>>
    BY <1>3 DEF SessionDrops
  <2>2. <<>> \in Seq(Sent) /\ <<>> \in Seq(Procs)
    OBVIOUS
  <2> QED BY <2>1, <2>2 DEF LineOK
<1>4. CASE SessionBack
  BY <1>4 DEF SessionBack, LineOK
<1>5. ASSUME NEW p \in Procs, Send(p) PROVE LineOK'
  <2>0. line # <<>> /\ Head(line) = p /\ line' = Tail(line) /\ up' = up
    BY <1>5 DEF Send
  <2>1. line' \in Seq(Procs) /\ up' = up /\ p \in Members(line)
    BY <2>0, TailQueue DEF LineOK, QueueOK
  <2>2. CASE up
    <3>1. ask[p].cmd # "none"
      BY <2>1 DEF QueueOK
    <3>2. [from |-> p, awaited |-> TRUE, cmd |-> ask[p].cmd] \in Sent
      BY <3>1 DEF Sent, AskOK, Command
    <3>3. wire' = Append(wire, [from |-> p, awaited |-> TRUE, cmd |-> ask[p].cmd])
      BY <1>5, <2>2 DEF Send
    <3> QED BY <3>2, <3>3, <2>1, WireGrows DEF LineOK
  <2>3. CASE ~up
    BY <1>5, <2>1, <2>3 DEF Send, LineOK
  <2> QED BY <2>2, <2>3
<1>6. ASSUME NEW p \in Procs, TimesOut(p) PROVE LineOK'
  BY <1>6, WireOrphaned DEF TimesOut, LineOK
<1>7. ASSUME NEW d \in Dialogs, Starting(d) \/ Worker(d) PROVE LineOK'
  <2>1. UNCHANGED <<up, wire>> /\ (line' = line \/ line' = Append(line, Main(d)))
    BY <1>7, FlowMoves
  <2>2. line' \in Seq(Procs)
    BY <2>1, <1>b DEF LineOK
  <2> QED BY <2>1, <2>2 DEF LineOK
<1>8. ASSUME NEW d \in Dialogs, Close(d) PROVE LineOK'
  <2>1. InLine(d) \in Seq(Procs)
    BY WithoutType DEF InLine, LineOK
  <2>2. line' \in Seq(Procs)
    <3>1. line' = InLine(d) \/ line' = Append(InLine(d), Cleanup(d))
      BY <1>8 DEF Close, Remove
    <3> QED BY <2>1, <3>1
  <2>3. wire' \in Seq(Sent) /\ up' = up
    BY <1>8, WireOrphaned DEF Close, LineOK
  <2> QED BY <2>2, <2>3 DEF LineOK
<1>9. ASSUME NEW d \in Dialogs, CleanedUp(d) PROVE LineOK'
  BY <1>9, <1>a DEF CleanedUp, NoMore
<1> QED BY <1>1, <1>2, <1>3, <1>4, <1>5, <1>6, <1>7, <1>8, <1>9 DEF Next, Door

LEMMA CommandType ==
    /\ {Idle, Queued("get"), Queued("create"), Queued("abort")} \subseteq Command
    /\ \A c \in Command : [c EXCEPT !.at = "sent"] \in Command
    /\ \A c \in Command, got \in DoorStates \cup {"ok", "failed"} :
          [c EXCEPT !.at = "done", !.got = got] \in Command
<1>1. Idle \in Command
  BY DEF Idle, Command
<1>2. Queued("get") \in Command /\ Queued("create") \in Command /\ Queued("abort") \in Command
  BY DEF Queued, Command
<1>3. ASSUME NEW c \in Command PROVE [c EXCEPT !.at = "sent"] \in Command
  BY DEF Command
<1>4. ASSUME NEW c \in Command, NEW got \in DoorStates \cup {"ok", "failed"}
      PROVE  [c EXCEPT !.at = "done", !.got = got] \in Command
  BY DEF Command
<1> QED BY <1>1, <1>2, <1>3, <1>4

LEMMA AskStep == Types /\ Next => AskOK'
<1> SUFFICES ASSUME Types, Next PROVE AskOK'
  OBVIOUS
<1> DoorOK /\ LineOK /\ AskOK
  BY DEF Types
<1> USE ProcFacts
<1>a. ASSUME UNCHANGED ask PROVE AskOK'
  BY <1>a DEF AskOK
<1>b. ASSUME NEW p \in Procs, NEW c \in Command, ask' = [ask EXCEPT ![p] = c] PROVE AskOK'
  BY <1>b DEF AskOK
<1>c. ASSUME NEW p \in Procs, NEW got \in DoorStates \cup {"ok", "failed"}
      PROVE  Answered(p, got) \in Command
  BY CommandType DEF Answered, AskOK
<1>1. CASE Handle
  <2> DEFINE r == Head(wire)
  <2>1. r \in Sent
    BY <1>1, WireTail DEF Handle
  <2>2. (IF r.cmd = "get" THEN Reading ELSE "ok") \in DoorStates \cup {"ok", "failed"}
    BY ReadingType DEF DoorStates
  <2>3. ask' = ask \/ ask' = [ask EXCEPT ![r.from] =
                                 Answered(r.from, IF r.cmd = "get" THEN Reading ELSE "ok")]
    BY <1>1 DEF Handle
  <2>4. r.from \in Procs
    BY <2>1 DEF Sent
  <2> HIDE DEF r
  <2> QED BY <2>2, <2>3, <2>4, <1>a, <1>b, <1>c
<1>2. CASE DoorStarts \/ DoorEnds("FINISH") \/ DoorEnds("ABORT") \/ DoorRests \/ SessionBack
  BY <1>2, <1>a DEF DoorStarts, DoorEnds, DoorRests, SessionBack
<1>3. CASE SessionDrops
  <2>1. ask' = [p \in Procs |-> IF ask[p].at \in {"queued", "sent"}
                                THEN Answered(p, "failed") ELSE ask[p]]
    BY <1>3 DEF SessionDrops
  <2> QED BY <2>1, <1>c DEF AskOK
<1>4. ASSUME NEW p \in Procs, Send(p) \/ TimesOut(p) PROVE AskOK'
  <2>1. ask' = [ask EXCEPT ![p].at = "sent"] \/ ask' = [ask EXCEPT ![p] = Answered(p, "failed")]
    BY <1>4 DEF Send, TimesOut
  <2>2. [ask[p] EXCEPT !.at = "sent"] \in Command
    BY CommandType DEF AskOK
  <2> QED BY <2>1, <2>2, <1>b, <1>c
<1>5. ASSUME NEW d \in Dialogs, Starting(d) \/ Worker(d) PROVE AskOK'
  <2>1. \A to : CommandAt(to) \in Command
    BY CommandType DEF CommandAt
  <2> QED BY <1>5, <1>b, <2>1, FlowMoves
<1>6. ASSUME NEW d \in Dialogs, Close(d) PROVE AskOK'
  <2>1. WithoutWorker(d) \in [Procs -> Command]
    BY CommandType DEF WithoutWorker, AskOK
  <2>2. ask' = WithoutWorker(d)
        \/ ask' = [WithoutWorker(d) EXCEPT ![Cleanup(d)] = Queued("abort")]
    BY <1>6 DEF Close, Remove
  <2> QED BY <2>1, <2>2, CommandType DEF AskOK
<1>7. ASSUME NEW d \in Dialogs, CleanedUp(d) PROVE AskOK'
  BY <1>7, <1>b, CommandType DEF CleanedUp, NoMore
<1> QED BY <1>1, <1>2, <1>3, <1>4, <1>5, <1>6, <1>7 DEF Next, Door

\* A task of the client or the door leaves the dialogs as they are.
LEMMA OthersMove ==
    ASSUME Next, ~\E d \in Dialogs : Starting(d) \/ Worker(d) \/ Close(d)
    PROVE  UNCHANGED flowVars
BY DEF Next, Door, Handle, DoorStarts, DoorEnds, DoorRests, SessionDrops, SessionBack, Send,
       TimesOut, CleanedUp

LEMMA FlowsStep == Types /\ Next => FlowsOK'
<1> SUFFICES ASSUME Types, Next PROVE FlowsOK'
  OBVIOUS
<1> FlowsOK
  BY DEF Types
<1>s. ASSUME NEW d \in Dialogs, NEW b \in BOOLEAN, SetEnrolling(d, b)
      PROVE  enrolling' \in [Dialogs -> BOOLEAN] /\ active' \in BOOLEAN
  BY <1>s DEF SetEnrolling, FlowsOK
<1>1. ASSUME NEW d \in Dialogs, Starting(d) \/ Worker(d) PROVE FlowsOK'
  <2>1. at' \in [Dialogs -> Places] /\ outcome' \in [Dialogs -> Outcomes]
    BY <1>1, FlowMoves DEF FlowsOK
  <2>2. started' \in [Dialogs -> BOOLEAN]
    BY <1>1, FlowMoves DEF FlowsOK
  <2>3. enrolling' \in [Dialogs -> BOOLEAN] /\ active' \in BOOLEAN
    BY <1>1, <1>s, FlowMoves DEF FlowsOK
  <2> QED BY <2>1, <2>2, <2>3 DEF FlowsOK
<1>2. ASSUME NEW d \in Dialogs, Close(d) PROVE FlowsOK'
  <2>1. at' \in [Dialogs -> Places] /\ outcome' \in [Dialogs -> Outcomes] /\ started' = started
    BY <1>2 DEF Close, FlowsOK, Places, Outcomes
  <2>2. enrolling' \in [Dialogs -> BOOLEAN] /\ active' \in BOOLEAN
    BY <1>2, <1>s DEF Close, Remove, KeepFlag, FlowsOK
  <2> QED BY <2>1, <2>2 DEF FlowsOK
<1>3. CASE ~\E d \in Dialogs : Starting(d) \/ Worker(d) \/ Close(d)
  BY <1>3, OthersMove DEF flowVars, FlowsOK
<1> QED BY <1>1, <1>2, <1>3

LEMMA BoundsMove ==
    ASSUME Next
    PROVE  /\ timeouts' = timeouts \/ (timeouts < MaxTimeouts /\ timeouts' = timeouts + 1)
           /\ drops' = drops \/ (drops < MaxDrops /\ drops' = drops + 1)
           /\ closes' = closes \/ (closes < MaxCloses /\ closes' = closes + 1)
<1>1. CASE Door \/ SessionDrops \/ SessionBack
  BY <1>1 DEF Door, Handle, DoorStarts, DoorEnds, DoorRests, SessionDrops, SessionBack, boundVars
<1>2. ASSUME NEW p \in Procs, Send(p) PROVE UNCHANGED boundVars
  BY <1>2 DEF Send
<1>3. ASSUME NEW p \in Procs, TimesOut(p)
      PROVE  timeouts < MaxTimeouts /\ timeouts' = timeouts + 1 /\ UNCHANGED <<drops, closes>>
  BY <1>3 DEF TimesOut
<1>4. ASSUME NEW d \in Dialogs, Starting(d) \/ Worker(d) \/ CleanedUp(d)
      PROVE  UNCHANGED boundVars
  BY <1>4, FlowMoves DEF CleanedUp
<1>5. ASSUME NEW d \in Dialogs, Close(d)
      PROVE  closes < MaxCloses /\ closes' = closes + 1 /\ UNCHANGED <<timeouts, drops>>
  BY <1>5 DEF Close
<1> QED BY <1>1, <1>2, <1>3, <1>4, <1>5 DEF Next, boundVars

LEMMA BoundsStep == Types /\ Next => BoundsOK'
<1> SUFFICES ASSUME BoundsOK, Next PROVE BoundsOK'
  BY DEF Types
<1>1. \A m, n \in Nat : n \in 0..m /\ n < m => n + 1 \in 0..m
  OBVIOUS
<1> QED BY <1>1, BoundsMove, BoundsAssumption DEF BoundsOK

LEMMA TypesStep == Types /\ QueueOK /\ Next => Types'
BY DoorStep, LineStep, AskStep, FlowsStep, BoundsStep DEF Types

-----------------------------------------------------------------------------
(* The commands, their queue, and the wire.                                *)

\* A task that goes on has no command out.
LEMMA NotWaiting ==
    ASSUME Commands, NEW d \in Dialogs, Starting(d) \/ Worker(d)
    PROVE  ask[Main(d)].at \in {"idle", "done"}
<1>1. at[d] \in {"form", "sleeping"} => ask[Main(d)].at = "idle"
  BY DEF Commands, Fits, Idle
<1>2. Got(Main(d)) # "nothing" => ask[Main(d)].at = "done"
  BY DEF Got
<1>3. at[d] \in {"form", "sleeping"} \/ Got(Main(d)) # "nothing"
  BY DEF Starting, Worker, Submit, CannotStart, Refuse, InProgress, ClearLeftOver, LeftOver,
         CheckAgain, Create, AtRest, StartWorker, Poll, Succeed, PollAgain, GoesOn, PollFails,
         DeadlinePasses, Failed
<1> QED BY <1>1, <1>2, <1>3

\* The client and the door move a command on that is out, and no other.
LEMMA AskMoves ==
    ASSUME Types, QueueOK, Awaited,
           \/ Handle \/ SessionDrops
           \/ \E p \in Procs : Send(p) \/ TimesOut(p)
    PROVE  \A p \in Procs :
              \/ ask'[p] = ask[p]
              \/ /\ ask[p].at \in {"queued", "sent"} /\ ask'[p].cmd = ask[p].cmd
                 /\ ask'[p].at = "done" \/ (ask[p].at = "queued" /\ ask'[p].at = "sent")
<1> LineOK /\ AskOK
  BY DEF Types
<1> DEFINE Moved(p) == /\ ask[p].at \in {"queued", "sent"} /\ ask'[p].cmd = ask[p].cmd
                       /\ ask'[p].at = "done" \/ (ask[p].at = "queued" /\ ask'[p].at = "sent")
<1>a. ASSUME NEW p \in Procs, NEW got
      PROVE  Answered(p, got).at = "done" /\ Answered(p, got).cmd = ask[p].cmd
  BY DEF Answered, AskOK, Command
<1>b. ASSUME NEW p \in Procs, NEW got, ask[p].at \in {"queued", "sent"},
             ask' = [ask EXCEPT ![p] = Answered(p, got)]
      PROVE  \A q \in Procs : ask'[q] = ask[q] \/ Moved(q)
  <2>1. ask'[p] = Answered(p, got) /\ \A q \in Procs \ {p} : ask'[q] = ask[q]
    BY <1>b DEF AskOK
  <2> QED BY <2>1, <1>a, <1>b
<1>1. ASSUME Handle PROVE \A q \in Procs : ask'[q] = ask[q] \/ Moved(q)
  <2> DEFINE r == Head(wire)
             g == IF r.cmd = "get" THEN Reading ELSE "ok"
  <2>1. r = wire[1] /\ 1 \in 1..Len(wire) /\ r.from \in Procs
    BY <1>1, WireTail DEF Handle, Sent
  <2>2. ask' = IF ~r.awaited THEN ask ELSE [ask EXCEPT ![r.from] = Answered(r.from, g)]
    BY <1>1 DEF Handle
  <2>3. r.awaited => ask[r.from].at = "sent"
    BY <2>1 DEF Awaited
  <2> HIDE DEF r, g, Moved
  <2> QED BY <2>1, <2>2, <2>3, <1>b
<1>2. ASSUME SessionDrops PROVE \A q \in Procs : ask'[q] = ask[q] \/ Moved(q)
  <2>1. \A p \in Procs : ask'[p] = IF ask[p].at \in {"queued", "sent"}
                                   THEN Answered(p, "failed") ELSE ask[p]
    BY <1>2 DEF SessionDrops
  <2> QED BY <2>1, <1>a
<1>3. ASSUME NEW p \in Procs, Send(p) PROVE \A q \in Procs : ask'[q] = ask[q] \/ Moved(q)
  <2>1. ask[p].at = "queued"
    BY <1>3, TailQueue DEF Send, LineOK, QueueOK
  <2>2. CASE ask' = [ask EXCEPT ![p].at = "sent"]
    <3>1. ask'[p] = [ask[p] EXCEPT !.at = "sent"] /\ \A q \in Procs \ {p} : ask'[q] = ask[q]
      BY <2>2 DEF AskOK
    <3>2. ask'[p].at = "sent" /\ ask'[p].cmd = ask[p].cmd
      BY <3>1 DEF AskOK, Command
    <3> QED BY <2>1, <3>1, <3>2
  <2>3. CASE ask' = [ask EXCEPT ![p] = Answered(p, "failed")]
    <3>1. ask'[p] = Answered(p, "failed") /\ \A q \in Procs \ {p} : ask'[q] = ask[q]
      BY <2>3 DEF AskOK
    <3> QED BY <2>1, <3>1, <1>a
  <2> QED BY <1>3, <2>2, <2>3 DEF Send
<1>4. ASSUME NEW p \in Procs, TimesOut(p) PROVE \A q \in Procs : ask'[q] = ask[q] \/ Moved(q)
  <2>1. ask[p].at = "sent" /\ ask' = [ask EXCEPT ![p] = Answered(p, "failed")]
    BY <1>4 DEF TimesOut
  <2>2. ask'[p] = Answered(p, "failed") /\ \A q \in Procs \ {p} : ask'[q] = ask[q]
    BY <2>1 DEF AskOK
  <2> QED BY <2>1, <2>2, <1>a
<1> QED BY <1>1, <1>2, <1>3, <1>4

\* What is left moves no command at all.
LEMMA AskStays ==
    ASSUME \/ DoorStarts \/ DoorEnds("FINISH") \/ DoorEnds("ABORT") \/ DoorRests \/ SessionBack
    PROVE  UNCHANGED <<ask, line, wire, flowVars, boundVars>>
BY DEF DoorStarts, DoorEnds, DoorRests, SessionBack

\* Closing a dialog takes its worker back, and may send the cleanup.
LEMMA CloseMoves ==
    ASSUME Types, Commands, NEW d \in Dialogs, Close(d)
    PROVE  /\ UNCHANGED <<doorVars, up>>
           /\ ask[Cleanup(d)] = Idle /\ outcome[d] = "open" /\ outcome'[d] \in {"failed", "closed"}
           /\ at'[d] = IF Cancelled(d) THEN "ended" ELSE at[d]
           /\ \A e \in Dialogs \ {d} : at'[e] = at[e] /\ outcome'[e] = outcome[e]
           /\ ask'[Main(d)] = IF Cancelled(d) THEN Idle ELSE ask[Main(d)]
           /\ ask'[Cleanup(d)] = IF enrolling[d] THEN Queued("abort") ELSE Idle
           /\ \A p \in Procs \ {Main(d), Cleanup(d)} : ask'[p] = ask[p]
           /\ line' = IF enrolling[d] THEN Append(InLine(d), Cleanup(d)) ELSE InLine(d)
<1> USE ProcFacts
<1>1. AskOK /\ FlowsOK /\ ask[Cleanup(d)] = Idle
  BY DEF Types, Commands, Fits, Close
<1>2. /\ WithoutWorker(d) = [ask EXCEPT ![Main(d)] = IF Cancelled(d) THEN Idle ELSE ask[Main(d)]]
      /\ DOMAIN ask = Procs
  BY <1>1 DEF WithoutWorker, AskOK
<1>3. CASE enrolling[d]
  <2>1. /\ line' = Append(InLine(d), Cleanup(d))
        /\ ask' = [WithoutWorker(d) EXCEPT ![Cleanup(d)] = Queued("abort")]
    BY <1>3 DEF Close, Remove
  <2> QED BY <1>1, <1>2, <1>3, <2>1 DEF Close, FlowsOK
<1>4. CASE ~enrolling[d]
  <2>1. line' = InLine(d) /\ ask' = WithoutWorker(d)
    BY <1>4 DEF Close, Remove
  <2> QED BY <1>1, <1>2, <1>4, <2>1 DEF Close, FlowsOK
<1> QED BY <1>3, <1>4

LEMMA CommandsStep ==
    Types /\ QueueOK /\ Commands /\ Awaited /\ Next => Commands'
<1> SUFFICES ASSUME Types, QueueOK, Commands, Awaited, Next PROVE Commands'
  OBVIOUS
<1> AskOK /\ FlowsOK
  BY DEF Types
<1> USE ProcFacts
<1>i. Idle.cmd = "none" /\ Idle.at = "idle" /\ \A cmd : Queued(cmd).cmd = cmd
  BY DEF Idle, Queued
<1>1. CASE \/ Handle \/ SessionDrops \/ \E p \in Procs : Send(p) \/ TimesOut(p)
  <2>1. UNCHANGED <<at, outcome>>
    BY <1>1 DEF Handle, SessionDrops, Send, TimesOut, flowVars
  <2>2. \A p \in Procs : /\ ask'[p].cmd = ask[p].cmd
                         /\ ask[p] = Idle => ask'[p] = Idle
    BY <1>1, <1>i, AskMoves
  <2> QED BY <2>1, <2>2 DEF Commands, Fits
<1>2. CASE \/ DoorStarts \/ DoorEnds("FINISH") \/ DoorEnds("ABORT") \/ DoorRests \/ SessionBack
  BY <1>2, AskStays DEF Commands, Fits, flowVars
<1>3. ASSUME NEW d \in Dialogs, Starting(d) \/ Worker(d) PROVE Commands'
  <2>1. PICK to \in Places : /\ at' = [at EXCEPT ![d] = to]
                             /\ ask' = [ask EXCEPT ![Main(d)] = CommandAt(to)]
                             /\ to # "form"
    BY <1>3, FlowMoves
  <2>2. /\ at'[d] = to /\ ask'[Main(d)] = CommandAt(to)
        /\ \A e \in Dialogs \ {d} : at'[e] = at[e] /\ ask'[Main(e)] = ask[Main(e)]
        /\ \A e \in Dialogs : ask'[Cleanup(e)] = ask[Cleanup(e)]
    BY <2>1 DEF AskOK, FlowsOK
  <2>3. \A e \in Dialogs : outcome'[e] = "open" => outcome[e] = "open"
    BY <1>3 DEF Starting, Worker, Submit, CannotStart, Refuse, ClearLeftOver, CheckAgain, Create,
                StartWorker, Poll, Succeed, PollAgain, PollFails, DeadlinePasses, Failed, Fail,
                End, Ask, FlowsOK
  <2>4. Fits(d)'
    BY <2>1, <2>2, <2>3, <1>i DEF Commands, Fits, CommandAt
  <2>5. \A e \in Dialogs \ {d} : Fits(e)'
    BY <2>2, <2>3 DEF Commands, Fits
  <2> QED BY <2>4, <2>5 DEF Commands
<1>4. ASSUME NEW d \in Dialogs, Close(d) PROVE Commands'
  <2>1. Fits(d)'
    BY <1>4, <1>i, CloseMoves DEF Commands, Fits
  <2>2. \A e \in Dialogs \ {d} : Fits(e)'
    <3> TAKE e \in Dialogs \ {d}
    <3>1. /\ at'[e] = at[e] /\ outcome'[e] = outcome[e] /\ ask'[Main(e)] = ask[Main(e)]
          /\ ask'[Cleanup(e)] = ask[Cleanup(e)]
      BY <1>4, CloseMoves
    <3> QED BY <3>1 DEF Commands, Fits
  <2> QED BY <2>1, <2>2 DEF Commands
<1>5. ASSUME NEW d \in Dialogs, CleanedUp(d) PROVE Commands'
  <2>1. ask' = [ask EXCEPT ![Cleanup(d)] = Idle] /\ UNCHANGED <<at, outcome>>
    BY <1>5 DEF CleanedUp, NoMore, flowVars
  <2>2. /\ ask'[Cleanup(d)] = Idle
        /\ \A p \in Procs \ {Cleanup(d)} : ask'[p] = ask[p]
    BY <2>1 DEF AskOK
  <2>3. \A e \in Dialogs : ask'[Main(e)] = ask[Main(e)]
                           /\ (ask'[Cleanup(e)] = ask[Cleanup(e)] \/ ask'[Cleanup(e)] = Idle)
    BY <2>2
  <2> QED BY <2>1, <2>3, <1>i DEF Commands, Fits
<1> QED BY <1>1, <1>2, <1>3, <1>4, <1>5 DEF Next, Door

LEMMA QueueStep ==
    Types /\ QueueOK /\ Commands /\ Awaited /\ Next => QueueOK'
<1> SUFFICES ASSUME Types, QueueOK, Commands, Awaited, Next PROVE QueueOK'
  OBVIOUS
<1> AskOK /\ FlowsOK /\ LineOK
  BY DEF Types
<1> USE ProcFacts
<1>i. /\ Idle.cmd = "none" /\ Idle.at = "idle"
      /\ \A cmd : Queued(cmd).cmd = cmd /\ Queued(cmd).at = "queued"
  BY DEF Idle, Queued
<1>c. ASSUME \/ Handle \/ SessionDrops \/ \E p \in Procs : Send(p) \/ TimesOut(p)
      PROVE  \A p \in Procs : ask'[p].cmd = "none" <=> ask'[p].at = "idle"
  BY <1>c, AskMoves DEF QueueOK
<1>1. CASE Handle \/ \E p \in Procs : TimesOut(p)
  <2>1. \A p \in Procs : ask'[p].at = "queued" <=> ask[p].at = "queued"
    <3>1. CASE Handle
      <4> DEFINE r == Head(wire)
                 g == IF r.cmd = "get" THEN Reading ELSE "ok"
      <4>1. r = wire[1] /\ 1 \in 1..Len(wire) /\ r.from \in Procs
        BY <3>1, WireTail DEF Handle, Sent
      <4>2. ask' = IF ~r.awaited THEN ask ELSE [ask EXCEPT ![r.from] = Answered(r.from, g)]
        BY <3>1 DEF Handle
      <4>3. r.awaited => ask[r.from].at = "sent"
        BY <4>1 DEF Awaited
      <4> HIDE DEF r, g
      <4>4. Answered(r.from, g).at = "done"
        BY <4>1 DEF Answered, AskOK, Command
      <4> QED BY <4>1, <4>2, <4>3, <4>4 DEF AskOK
    <3>2. ASSUME NEW q \in Procs, TimesOut(q)
          PROVE  \A p \in Procs : ask'[p].at = "queued" <=> ask[p].at = "queued"
      <4>1. Answered(q, "failed").at = "done"
        BY DEF Answered, AskOK, Command
      <4> QED BY <3>2, <4>1 DEF TimesOut, AskOK
    <3> QED BY <1>1, <3>1, <3>2
  <2>2. line' = line
    BY <1>1 DEF Handle, TimesOut
  <2> QED BY <1>1, <1>c, <2>1, <2>2 DEF QueueOK
<1>2. CASE SessionDrops
  <2>1. line' = <<>> /\ \A p \in Procs : ask'[p].at # "queued"
    <3>1. \A p \in Procs : ask'[p] = IF ask[p].at \in {"queued", "sent"}
                                     THEN Answered(p, "failed") ELSE ask[p]
      BY <1>2 DEF SessionDrops
    <3>2. \A p \in Procs : Answered(p, "failed").at = "done"
      BY DEF Answered, AskOK, Command
    <3> QED BY <1>2, <3>1, <3>2 DEF SessionDrops
  <2> QED BY <1>2, <1>c, <2>1 DEF QueueOK, Distinct, Members
<1>3. ASSUME NEW p \in Procs, Send(p) PROVE QueueOK'
  <2>1. line # <<>> /\ Head(line) = p /\ line' = Tail(line)
    BY <1>3 DEF Send
  <2>2. Distinct(line') /\ Members(line') = Members(line) \ {p}
    BY <2>1, TailQueue DEF QueueOK, LineOK
  <2>3. ask'[p].at \in {"sent", "done"} /\ \A q \in Procs \ {p} : ask'[q] = ask[q]
    <3>1. Answered(p, "failed").at = "done" /\ [ask[p] EXCEPT !.at = "sent"].at = "sent"
      BY DEF Answered, AskOK, Command
    <3> QED BY <1>3, <3>1 DEF Send, AskOK
  <2> QED BY <1>3, <1>c, <2>2, <2>3 DEF QueueOK
<1>4. CASE \/ DoorStarts \/ DoorEnds("FINISH") \/ DoorEnds("ABORT") \/ DoorRests \/ SessionBack
  BY <1>4, AskStays DEF QueueOK
<1>5. ASSUME NEW d \in Dialogs, Starting(d) \/ Worker(d) PROVE QueueOK'
  <2>1. PICK to \in Places :
            /\ ask' = [ask EXCEPT ![Main(d)] = CommandAt(to)]
            /\ to # "form"
            /\ line' = IF to \in {"sleeping", "ended"} THEN line ELSE Append(line, Main(d))
    BY <1>5, FlowMoves
  <2>2. Main(d) \notin Members(line)
    BY <1>5, NotWaiting DEF QueueOK
  <2>3. ask'[Main(d)] = CommandAt(to) /\ \A p \in Procs \ {Main(d)} : ask'[p] = ask[p]
    BY <2>1 DEF AskOK
  <2>4. /\ CommandAt(to).at = "queued" <=> to \notin {"sleeping", "ended"}
        /\ CommandAt(to).cmd = "none" <=> CommandAt(to).at = "idle"
    BY <2>1, <1>i DEF CommandAt, Places
  <2>5. Distinct(Append(line, Main(d)))
        /\ Members(Append(line, Main(d))) = Members(line) \cup {Main(d)}
    BY <2>2, AppendQueue DEF QueueOK, LineOK
  <2> HIDE DEF CommandAt
  <2> QED BY <2>1, <2>2, <2>3, <2>4, <2>5 DEF QueueOK
<1>6. ASSUME NEW d \in Dialogs, Close(d) PROVE QueueOK'
  <2>1. /\ InLine(d) \in Seq(Procs) /\ Distinct(InLine(d))
        /\ Members(InLine(d)) = Members(line) \ (IF Cancelled(d) THEN {Main(d)} ELSE {})
    <3>1. CASE Cancelled(d) /\ ask[Main(d)].at = "queued"
      BY <3>1, WithoutType, WithoutQueue DEF InLine, QueueOK, LineOK
    <3>2. CASE ~(Cancelled(d) /\ ask[Main(d)].at = "queued")
      BY <3>2 DEF InLine, QueueOK, LineOK
    <3> QED BY <3>1, <3>2
  <2>2. Cleanup(d) \notin Members(InLine(d))
    BY <2>1, <1>6, <1>i, CloseMoves DEF QueueOK
  <2>3. \A p \in Procs \ {Main(d), Cleanup(d)} : ask'[p] = ask[p]
    BY <1>6, CloseMoves
  <2>4. /\ ask'[Main(d)] = IF Cancelled(d) THEN Idle ELSE ask[Main(d)]
        /\ ask'[Cleanup(d)] = IF enrolling[d] THEN Queued("abort") ELSE Idle
        /\ line' = IF enrolling[d] THEN Append(InLine(d), Cleanup(d)) ELSE InLine(d)
    BY <1>6, CloseMoves
  <2>5. Distinct(line')
        /\ Members(line') = Members(InLine(d)) \cup (IF enrolling[d] THEN {Cleanup(d)} ELSE {})
    BY <2>1, <2>2, <2>4, AppendQueue
  <2>6. \A p \in Procs : ask'[p].cmd = "none" <=> ask'[p].at = "idle"
    BY <2>3, <2>4, <1>i DEF QueueOK
  <2>7. Members(line') = {p \in Procs : ask'[p].at = "queued"}
    <3>1. \A p \in Procs \ {Main(d), Cleanup(d)} :
              p \in Members(line') <=> ask'[p].at = "queued"
      BY <2>1, <2>3, <2>5 DEF QueueOK
    <3>2. Main(d) \in Members(line') <=> ask'[Main(d)].at = "queued"
      BY <2>1, <2>4, <2>5, <1>i DEF QueueOK
    <3>3. Cleanup(d) \in Members(line') <=> ask'[Cleanup(d)].at = "queued"
      BY <2>2, <2>4, <2>5, <1>i
    <3>4. Members(line') \subseteq Procs
      BY <2>1, <2>5 DEF QueueOK
    <3> QED BY <3>1, <3>2, <3>3, <3>4
  <2> QED BY <2>5, <2>6, <2>7 DEF QueueOK
<1>7. ASSUME NEW d \in Dialogs, CleanedUp(d) PROVE QueueOK'
  <2>1. ask' = [ask EXCEPT ![Cleanup(d)] = Idle] /\ line' = line /\ ask[Cleanup(d)].at = "done"
    BY <1>7 DEF CleanedUp, NoMore, Got
  <2>2. /\ ask'[Cleanup(d)] = Idle
        /\ \A p \in Procs \ {Cleanup(d)} : ask'[p] = ask[p]
    BY <2>1 DEF AskOK
  <2> QED BY <2>1, <2>2, <1>i DEF QueueOK
<1> QED BY <1>1, <1>2, <1>3, <1>4, <1>5, <1>6, <1>7 DEF Next, Door

-----------------------------------------------------------------------------
(* The flag that an enrollment raises.                                     *)

\* A dialog's next place, as far as the flag is concerned.
LEMMA FlagMoves ==
    ASSUME FlowsOK, NEW d \in Dialogs, Starting(d) \/ Worker(d)
    PROVE  \/ SetEnrolling(d, FALSE) /\ at'[d] \in {"ended", "failing"}
           \/ Create(d) /\ at'[d] = "creating" /\ outcome' = outcome /\ SetEnrolling(d, TRUE)
           \/ /\ KeepFlag
              /\ at[d] \in {"creating", "sleeping", "polling"}
              /\ at'[d] \in {"sleeping", "polling"} /\ outcome' = outcome
           \/ /\ KeepFlag
              /\ at[d] \notin {"creating", "sleeping", "polling"}
              /\ at'[d] \notin {"creating", "sleeping", "polling"}
<1> USE DEF FlowsOK
<1>1. CASE Submit(d) \/ ClearLeftOver(d) \/ CheckAgain(d)
  BY <1>1 DEF Submit, ClearLeftOver, CheckAgain, Ask
<1>2. CASE CannotStart(d) \/ Succeed(d)
  BY <1>2 DEF CannotStart, Succeed, End
<1>3. CASE Refuse(d) \/ Failed(d)
  BY <1>3 DEF Refuse, Failed, End
<1>4. CASE Create(d)
  BY <1>4 DEF Create, FlagEnrollment, Ask
<1>5. CASE StartWorker(d) \/ PollAgain(d)
  BY <1>5 DEF StartWorker, PollAgain
<1>6. CASE Poll(d)
  BY <1>6 DEF Poll, Ask
<1>7. CASE PollFails(d) \/ DeadlinePasses(d)
  BY <1>7 DEF PollFails, DeadlinePasses, Fail, Ask
<1> QED BY <1>1, <1>2, <1>3, <1>4, <1>5, <1>6, <1>7 DEF Starting, Worker

LEMMA FlagStep == Types /\ FlagNotStuck /\ Flagged /\ Next => FlagNotStuck' /\ Flagged'
<1> SUFFICES ASSUME Types, FlagNotStuck, Flagged, Next PROVE FlagNotStuck' /\ Flagged'
  OBVIOUS
<1> FlowsOK
  BY DEF Types
<1> DEFINE Following == {"creating", "sleeping", "polling"}
<1>0. (\A d \in Dialogs : enrolling[d] => at[d] \in Following)
      /\ (active => \E d \in Dialogs : enrolling[d])
      /\ (\A d \in Dialogs : at[d] \in Following /\ outcome[d] = "open" => enrolling[d])
  BY DEF FlagNotStuck, Flagged
<1>q. ASSUME NEW d \in Dialogs, NEW b \in BOOLEAN, SetEnrolling(d, b)
      PROVE  /\ enrolling'[d] = b /\ active' = b
             /\ \A e \in Dialogs \ {d} : enrolling'[e] = enrolling[e]
  BY <1>q DEF SetEnrolling, FlowsOK
<1>1. ASSUME NEW d \in Dialogs, Starting(d) \/ Worker(d) PROVE FlagNotStuck' /\ Flagged'
  <2>1. \A e \in Dialogs \ {d} : at'[e] = at[e] /\ outcome'[e] = outcome[e]
    BY <1>1, FlowMoves DEF FlowsOK
  <2>2. CASE SetEnrolling(d, FALSE) /\ at'[d] \in {"ended", "failing"}
    <3>1. /\ ~enrolling'[d] /\ ~active'
          /\ \A e \in Dialogs \ {d} : enrolling'[e] = enrolling[e]
      BY <2>2, <1>q
    <3> QED BY <2>1, <2>2, <3>1, <1>0 DEF FlagNotStuck, Flagged
  <2>3. CASE at'[d] = "creating" /\ SetEnrolling(d, TRUE)
    <3>1. /\ enrolling'[d]
          /\ \A e \in Dialogs \ {d} : enrolling'[e] = enrolling[e]
      BY <2>3, <1>q
    <3> QED BY <2>1, <2>3, <3>1, <1>0 DEF FlagNotStuck, Flagged
  <2>4. CASE /\ KeepFlag
             /\ at[d] \in Following /\ at'[d] \in {"sleeping", "polling"} /\ outcome' = outcome
    BY <2>1, <2>4, <1>0 DEF KeepFlag, FlagNotStuck, Flagged
  <2>5. CASE KeepFlag /\ at[d] \notin Following /\ at'[d] \notin Following
    BY <2>1, <2>5, <1>0 DEF KeepFlag, FlagNotStuck, Flagged
  <2> QED BY <1>1, <2>2, <2>3, <2>4, <2>5, FlagMoves
<1>2. ASSUME NEW d \in Dialogs, Close(d) PROVE FlagNotStuck' /\ Flagged'
  <2>1. \A e \in Dialogs \ {d} : at'[e] = at[e] /\ outcome'[e] = outcome[e]
    BY <1>2 DEF Close, FlowsOK
  <2>2. outcome'[d] # "open"
    BY <1>2 DEF Close, FlowsOK
  <2>3. CASE enrolling[d]
    <3>1. SetEnrolling(d, FALSE)
      BY <1>2, <2>3 DEF Close, Remove
    <3>2. /\ ~enrolling'[d] /\ ~active'
          /\ \A e \in Dialogs \ {d} : enrolling'[e] = enrolling[e]
      BY <3>1, <1>q
    <3> QED BY <2>1, <2>2, <3>2, <1>0 DEF FlagNotStuck, Flagged
  <2>4. CASE ~enrolling[d]
    <3>1. UNCHANGED <<enrolling, active>>
      BY <1>2, <2>4 DEF Close, Remove, KeepFlag
    <3> QED BY <2>1, <2>2, <2>4, <3>1, <1>0 DEF FlagNotStuck, Flagged
  <2> QED BY <2>3, <2>4
<1>3. CASE ~\E d \in Dialogs : Starting(d) \/ Worker(d) \/ Close(d)
  BY <1>3, OthersMove DEF flowVars, FlagNotStuck, Flagged
<1> QED BY <1>1, <1>2, <1>3

-----------------------------------------------------------------------------
(* What is awaited on the wire.                                            *)

\* The door answers the first request, if somebody awaits it.
LEMMA HandleAnswers ==
    ASSUME Types, Awaited, Handle
    PROVE  /\ Head(wire) \in Sent /\ Head(wire) = wire[1]
           /\ Head(wire).awaited =>
                 /\ ask[Head(wire).from].at = "sent" /\ ask[Head(wire).from].cmd = Head(wire).cmd
                 /\ ask'[Head(wire).from] = Answered(Head(wire).from,
                        IF Head(wire).cmd = "get" THEN Reading ELSE "ok")
                 /\ ask'[Head(wire).from].at = "done"
                 /\ ask'[Head(wire).from].cmd = Head(wire).cmd
                 /\ ask'[Head(wire).from].got = IF Head(wire).cmd = "get" THEN Reading ELSE "ok"
           /\ \A p \in Procs : p # Head(wire).from \/ ~Head(wire).awaited => ask'[p] = ask[p]
<1> DEFINE r == Head(wire)
           g == IF r.cmd = "get" THEN Reading ELSE "ok"
<1> AskOK /\ LineOK
  BY DEF Types
<1>1. r \in Sent /\ r = wire[1] /\ 1 \in 1..Len(wire) /\ r.from \in Procs
  BY WireTail DEF Handle, Sent
<1>2. ask' = IF ~r.awaited THEN ask ELSE [ask EXCEPT ![r.from] = Answered(r.from, g)]
  BY DEF Handle
<1>3. r.awaited => ask[r.from].at = "sent" /\ ask[r.from].cmd = r.cmd
  BY <1>1 DEF Awaited
<1> HIDE DEF r, g
<1>4. /\ Answered(r.from, g).at = "done" /\ Answered(r.from, g).cmd = ask[r.from].cmd
      /\ Answered(r.from, g).got = g
  BY <1>1 DEF Answered, AskOK, Command
<1>5. /\ r.awaited => ask'[r.from] = Answered(r.from, g)
      /\ \A p \in Procs : p # r.from \/ ~r.awaited => ask'[p] = ask[p]
  BY <1>1, <1>2 DEF AskOK
<1> QED BY <1>1, <1>3, <1>4, <1>5 DEF r, g

\* A task sends its request, or fails without a session.
LEMMA SendMoves ==
    ASSUME Types, QueueOK, NEW p \in Procs, Send(p)
    PROVE  /\ ask[p].at = "queued" /\ \A q \in Procs \ {p} : ask'[q] = ask[q]
           /\ ask'[p].cmd = ask[p].cmd /\ ask[p].cmd # "none"
           /\ \A q \in Procs : ask[q].at # "sent"
           /\ \/ /\ up /\ ask'[p].at = "sent" /\ ask'[p].got = ask[p].got
                 /\ wire' = Append(wire, [from |-> p, awaited |-> TRUE, cmd |-> ask[p].cmd])
                 /\ [from |-> p, awaited |-> TRUE, cmd |-> ask[p].cmd] \in Sent
              \/ ~up /\ ask'[p].at = "done" /\ ask'[p].got = "failed" /\ wire' = wire
<1> AskOK /\ LineOK
  BY DEF Types
<1>1. ask[p].at = "queued"
  BY TailQueue DEF Send, LineOK, QueueOK
<1>2. ask[p].cmd # "none"
  BY <1>1 DEF QueueOK
<1>3. \/ /\ up /\ wire' = Append(wire, [from |-> p, awaited |-> TRUE, cmd |-> ask[p].cmd])
         /\ ask' = [ask EXCEPT ![p].at = "sent"]
      \/ ~up /\ ask' = [ask EXCEPT ![p] = Answered(p, "failed")] /\ wire' = wire
  BY DEF Send
<1>4. /\ [ask[p] EXCEPT !.at = "sent"].at = "sent"
      /\ [ask[p] EXCEPT !.at = "sent"].cmd = ask[p].cmd
      /\ [ask[p] EXCEPT !.at = "sent"].got = ask[p].got
      /\ Answered(p, "failed").at = "done" /\ Answered(p, "failed").cmd = ask[p].cmd
      /\ Answered(p, "failed").got = "failed"
  BY DEF Answered, AskOK, Command
<1>5. [from |-> p, awaited |-> TRUE, cmd |-> ask[p].cmd] \in Sent
  BY <1>2 DEF AskOK, Command, Sent
<1>6. \A q \in Procs : ask[q].at # "sent"
  BY DEF Send
<1>7. CASE up
  BY <1>1, <1>2, <1>3, <1>4, <1>5, <1>6, <1>7 DEF AskOK
<1>8. CASE ~up
  BY <1>1, <1>2, <1>3, <1>4, <1>5, <1>6, <1>8 DEF AskOK
<1> QED BY <1>7, <1>8

LEMMA TimesOutMoves ==
    ASSUME Types, NEW p \in Procs, TimesOut(p)
    PROVE  /\ ask[p].at = "sent" /\ \A q \in Procs \ {p} : ask'[q] = ask[q]
           /\ ask'[p].cmd = ask[p].cmd /\ ask'[p].at = "done" /\ ask'[p].got = "failed"
<1>1. /\ Answered(p, "failed").at = "done" /\ Answered(p, "failed").cmd = ask[p].cmd
      /\ Answered(p, "failed").got = "failed"
  BY DEF Types, Answered, AskOK, Command
<1> QED BY <1>1 DEF TimesOut, Types, AskOK

LEMMA AwaitedStep ==
    Types /\ QueueOK /\ Commands /\ Awaited /\ Next => Awaited'
<1> SUFFICES ASSUME Types, QueueOK, Commands, Awaited, Next PROVE Awaited'
  OBVIOUS
<1> AskOK /\ FlowsOK /\ LineOK
  BY DEF Types
<1> USE ProcFacts
<1>w. /\ \A i \in 1..Len(wire) : wire[i] \in Sent
      /\ \A i \in 1..Len(wire) : wire[i].from \in Procs
  <2>1. \A i \in 1..Len(wire) : wire[i] \in Sent
    BY DEF LineOK
  <2> QED BY <2>1 DEF Sent
<1>u. ASSUME wire' = wire,
             \A i \in 1..Len(wire) : wire[i].awaited =>
                 ask'[wire[i].from] = ask[wire[i].from]
      PROVE  Awaited'
  BY <1>u DEF Awaited
<1>s. ASSUME NEW q \in Procs, NEW i \in 1..Len(wire), wire[i].awaited, ask[q].at # "sent"
      PROVE  wire[i].from # q
  BY <1>s DEF Awaited
<1>1. CASE Handle
  <2> DEFINE r == Head(wire)
  <2>1. r = wire[1] /\ \A p \in Procs : p # r.from \/ ~r.awaited => ask'[p] = ask[p]
    BY <1>1, HandleAnswers
  <2>2. /\ \A i \in 1..Len(wire') : i + 1 \in 1..Len(wire) /\ wire'[i] = wire[i + 1]
        /\ 1 \in 1..Len(wire)
    BY <1>1, WireTail DEF Handle
  <2>3. \A i \in 1..Len(wire') : i + 1 # 1 /\ i \in Nat
    <3>1. Len(wire') \in Nat
      BY <1>1, WireTail DEF Handle
    <3> QED BY <3>1
  <2> HIDE DEF r
  <2>4. ASSUME NEW i \in 1..Len(wire'), wire'[i].awaited
        PROVE  ask'[wire'[i].from].at = "sent" /\ ask'[wire'[i].from].cmd = wire'[i].cmd
    <3>1. wire[i + 1].awaited /\ wire'[i] = wire[i + 1] /\ i + 1 \in 1..Len(wire) /\ i + 1 # 1
      BY <2>2, <2>3, <2>4
    <3>2. r.awaited => wire[i + 1].from # r.from
      BY <2>1, <2>2, <3>1 DEF Awaited
    <3>3. ask'[wire[i + 1].from] = ask[wire[i + 1].from]
      BY <2>1, <3>1, <3>2, <1>w
    <3> QED BY <3>1, <3>3 DEF Awaited
  <2>5. ASSUME NEW i \in 1..Len(wire'), NEW j \in 1..Len(wire'),
               wire'[i].awaited, wire'[j].awaited, wire'[i].from = wire'[j].from
        PROVE  i = j
    <3>1. i + 1 = j + 1
      BY <2>2, <2>5 DEF Awaited
    <3> QED BY <3>1, <2>3
  <2> QED BY <2>4, <2>5 DEF Awaited
<1>2. CASE \/ DoorStarts \/ DoorEnds("FINISH") \/ DoorEnds("ABORT") \/ DoorRests \/ SessionBack
  BY <1>2, <1>u, AskStays
<1>3. CASE SessionDrops
  <2>1. wire' = <<>>
    BY <1>3 DEF SessionDrops
  <2>2. Len(wire') = 0
    BY <2>1
  <2> QED BY <2>2 DEF Awaited
<1>4. ASSUME NEW p \in Procs, Send(p) PROVE Awaited'
  <2>1. /\ ask[p].at = "queued" /\ \A q \in Procs \ {p} : ask'[q] = ask[q]
        /\ ask'[p].cmd = ask[p].cmd
    BY <1>4, SendMoves
  <2>2. \A i \in 1..Len(wire) : ~wire[i].awaited
    <3>1. \A q \in Procs : ask[q].at # "sent"
      BY <1>4 DEF Send
    <3> QED BY <3>1, <1>w DEF Awaited
  <2>3. CASE wire' = wire
    BY <2>2, <2>3, <1>u
  <2>4. CASE wire' # wire
    <3> DEFINE r == [from |-> p, awaited |-> TRUE, cmd |-> ask[p].cmd]
    <3>1. wire' = Append(wire, r) /\ r \in Sent /\ ask'[p].at = "sent"
      BY <1>4, <2>4, SendMoves
    <3>2. r.from = p /\ r.cmd = ask[p].cmd
      OBVIOUS
    <3> HIDE DEF r
    <3>3. /\ \A i \in 1..Len(wire') : i = Len(wire') \/ (i \in 1..Len(wire) /\ wire'[i] = wire[i])
          /\ wire'[Len(wire')] = r
      BY <3>1, WireGrows
    <3>4. \A i \in 1..Len(wire') : wire'[i].awaited => i = Len(wire') /\ wire'[i] = r
      BY <3>3, <2>2
    <3>5. \A i \in 1..Len(wire') : wire'[i].awaited =>
              ask'[wire'[i].from].at = "sent" /\ ask'[wire'[i].from].cmd = wire'[i].cmd
      BY <3>4, <3>1, <3>2, <2>1
    <3>6. \A i, j \in 1..Len(wire') : wire'[i].awaited /\ wire'[j].awaited => i = j
      BY <3>4
    <3> QED BY <3>5, <3>6 DEF Awaited
  <2> QED BY <2>3, <2>4
<1>o. ASSUME NEW p \in Procs, wire' = Orphaned(p),
             \A q \in Procs : q # p /\ ask[q].at = "sent" => ask'[q] = ask[q]
      PROVE  Awaited'
  <2>1. /\ Len(wire') = Len(wire)
        /\ \A i \in 1..Len(wire) :
              /\ wire'[i].from = wire[i].from /\ wire'[i].cmd = wire[i].cmd
              /\ wire'[i].awaited => wire[i].awaited /\ wire[i].from # p
    BY <1>o, WireOrphaned
  <2>2. \A i \in 1..Len(wire') : wire'[i].awaited =>
            ask'[wire'[i].from].at = "sent" /\ ask'[wire'[i].from].cmd = wire'[i].cmd
    BY <2>1, <1>o, <1>w DEF Awaited
  <2>3. \A i, j \in 1..Len(wire') :
            wire'[i].awaited /\ wire'[j].awaited /\ wire'[i].from = wire'[j].from => i = j
    BY <2>1 DEF Awaited
  <2> QED BY <2>2, <2>3 DEF Awaited
<1>5. ASSUME NEW p \in Procs, TimesOut(p) PROVE Awaited'
  BY <1>5, <1>o, TimesOutMoves DEF TimesOut
<1>6. ASSUME NEW d \in Dialogs, Starting(d) \/ Worker(d) PROVE Awaited'
  <2>1. ask[Main(d)].at # "sent" /\ wire' = wire
    BY <1>6, NotWaiting, FlowMoves
  <2>2. \A p \in Procs \ {Main(d)} : ask'[p] = ask[p]
    BY <1>6, FlowMoves DEF AskOK
  <2>3. \A i \in 1..Len(wire) : wire[i].awaited => wire[i].from # Main(d)
    BY <2>1, <1>s
  <2> QED BY <2>1, <2>2, <2>3, <1>u, <1>w
<1>7. ASSUME NEW d \in Dialogs, Close(d) PROVE Awaited'
  <2>1. ask[Cleanup(d)].at # "sent"
    BY <1>7, CloseMoves DEF Idle
  <2>2. \A p \in Procs \ {Main(d), Cleanup(d)} : ask'[p] = ask[p]
    BY <1>7, CloseMoves
  <2>3. CASE Cancelled(d)
    <3>1. wire' = Orphaned(Main(d))
      BY <1>7, <2>3 DEF Close
    <3>2. \A q \in Procs : q # Main(d) /\ ask[q].at = "sent" => ask'[q] = ask[q]
      BY <2>1, <2>2
    <3> QED BY <3>1, <3>2, <1>o
  <2>4. CASE ~Cancelled(d)
    <3>1. wire' = wire
      BY <1>7, <2>4 DEF Close
    <3>2. ask'[Main(d)] = ask[Main(d)]
      BY <1>7, <2>4, CloseMoves
    <3>3. \A i \in 1..Len(wire) : wire[i].awaited => wire[i].from # Cleanup(d)
      BY <2>1, <1>s
    <3> QED BY <3>1, <3>2, <3>3, <2>2, <1>u, <1>w
  <2> QED BY <2>3, <2>4
<1>8. ASSUME NEW d \in Dialogs, CleanedUp(d) PROVE Awaited'
  <2>1. /\ ask' = [ask EXCEPT ![Cleanup(d)] = Idle] /\ wire' = wire
        /\ ask[Cleanup(d)].at = "done"
    BY <1>8 DEF CleanedUp, NoMore, Got
  <2>2. \A p \in Procs \ {Cleanup(d)} : ask'[p] = ask[p]
    BY <2>1 DEF AskOK
  <2>3. \A i \in 1..Len(wire) : wire[i].awaited => wire[i].from # Cleanup(d)
    BY <2>1, <1>s
  <2> QED BY <2>1, <2>2, <2>3, <1>u, <1>w
<1> QED BY <1>1, <1>2, <1>3, <1>4, <1>5, <1>6, <1>7, <1>8 DEF Next, Door

\* Without a session nothing is on the wire, and no dialog holds the door.
LEMMA NoSessionStep == Types /\ NoSession /\ Next => NoSession'
<1> SUFFICES ASSUME Types, NoSession, Next, ~up' PROVE wire' = <<>> /\ ~Busy'
  BY DEF NoSession
<1> LineOK
  BY DEF Types
<1>o. ASSUME wire = <<>>, NEW p, wire' = Orphaned(p) PROVE wire' = <<>>
  BY <1>o, WireOrphaned DEF LineOK
<1>1. CASE Handle
  BY <1>1 DEF Handle, NoSession
<1>2. CASE DoorStarts \/ DoorEnds("FINISH") \/ DoorEnds("ABORT")
  BY <1>2 DEF DoorStarts, DoorEnds, NoSession, Busy
<1>3. CASE DoorRests
  BY <1>3 DEF DoorRests, NoSession, Busy, AtPeace
<1>4. CASE SessionDrops
  BY <1>4 DEF SessionDrops, Busy, AtPeace
<1>5. CASE SessionBack
  BY <1>5 DEF SessionBack
<1>6. ASSUME NEW p \in Procs, Send(p) PROVE wire' = <<>> /\ ~Busy'
  BY <1>6 DEF Send, NoSession, Busy, doorVars
<1>7. ASSUME NEW p \in Procs, TimesOut(p) PROVE wire' = <<>> /\ ~Busy'
  <2>1. wire' = Orphaned(p) /\ door' = door /\ up' = up
    BY <1>7 DEF TimesOut, doorVars
  <2> QED BY <2>1, <1>o DEF NoSession, Busy
<1>8. ASSUME NEW d \in Dialogs, Starting(d) \/ Worker(d) \/ CleanedUp(d)
      PROVE  wire' = <<>> /\ ~Busy'
  <2>1. UNCHANGED <<door, up, wire>>
    BY <1>8, FlowMoves DEF CleanedUp, NoMore, doorVars
  <2> QED BY <2>1 DEF NoSession, Busy
<1>9. ASSUME NEW d \in Dialogs, Close(d) PROVE wire' = <<>> /\ ~Busy'
  <2>1. (wire' = Orphaned(Main(d)) \/ wire' = wire) /\ door' = door /\ up' = up
    BY <1>9 DEF Close, doorVars
  <2> QED BY <2>1, <1>o DEF NoSession, Busy
<1> QED BY <1>1, <1>2, <1>3, <1>4, <1>5, <1>6, <1>7, <1>8, <1>9 DEF Next, Door

-----------------------------------------------------------------------------
(* An enrollment that ends well is somebody's.                             *)

\* What the parts of Hopeful say, as long as nothing was captured.
Unseen ==
    /\ door.left # "FINISH"
    /\ \A d \in Dialogs : outcome[d] # "success"
    /\ \A d \in Dialogs : at[d] = "polling" => ask[Main(d)].got # "FINISH"
Untouched ==
    /\ \A p \in Procs : ask[p].cmd # "create" /\ ask[p].got # "NONE"
    /\ \A i \in 1..Len(wire) : wire[i].cmd # "create"
    /\ \A d \in Dialogs : at[d] \in {"form", "checking", "clearing", "rechecking", "ended"}

LEMMA HopefulParts == Hopeful <=> (captured = {} => Unseen /\ (Foreign => Untouched))
BY DEF Hopeful, Unseen, Untouched

\* A command that fails, or is taken back, is no reading of the door.
LEMMA GotStays ==
    ASSUME Types, QueueOK, Commands,
           SessionDrops \/ \E p \in Procs : Send(p) \/ TimesOut(p)
    PROVE  /\ \A p \in Procs : /\ ask'[p].cmd = ask[p].cmd
                               /\ ask'[p].got = ask[p].got \/ ask'[p].got = "failed"
           /\ UNCHANGED <<at, outcome, captured>>
           /\ door' = door \/ door' = AtPeace
           /\ \A i \in 1..Len(wire') : \/ i \in 1..Len(wire) /\ wire'[i].cmd = wire[i].cmd
                                       \/ \E p \in Procs : wire'[i].cmd = ask[p].cmd
<1> AskOK /\ LineOK
  BY DEF Types
<1>1. CASE SessionDrops
  <2>1. \A p \in Procs : ask'[p] = IF ask[p].at \in {"queued", "sent"}
                                   THEN Answered(p, "failed") ELSE ask[p]
    BY <1>1 DEF SessionDrops
  <2>2. \A p \in Procs : Answered(p, "failed").cmd = ask[p].cmd /\ Answered(p, "failed").got = "failed"
    BY DEF Answered, AskOK, Command
  <2>3. wire' = <<>>
    BY <1>1 DEF SessionDrops
  <2>4. Len(wire') = 0
    BY <2>3
  <2>5. UNCHANGED <<at, outcome, captured>> /\ (door' = door \/ door' = AtPeace)
    BY <1>1 DEF SessionDrops, flowVars
  <2> QED BY <2>1, <2>2, <2>4, <2>5
<1>2. ASSUME NEW p \in Procs, Send(p)
      PROVE  /\ \A q \in Procs : /\ ask'[q].cmd = ask[q].cmd
                                 /\ ask'[q].got = ask[q].got \/ ask'[q].got = "failed"
             /\ UNCHANGED <<at, outcome, captured, door>>
             /\ \A i \in 1..Len(wire') : \/ i \in 1..Len(wire) /\ wire'[i].cmd = wire[i].cmd
                                         \/ \E q \in Procs : wire'[i].cmd = ask[q].cmd
  <2>1. UNCHANGED <<at, outcome, captured, door>>
    BY <1>2 DEF Send, flowVars, doorVars
  <2>2. \A q \in Procs : /\ ask'[q].cmd = ask[q].cmd
                         /\ ask'[q].got = ask[q].got \/ ask'[q].got = "failed"
    <3>1. /\ \A q \in Procs \ {p} : ask'[q] = ask[q]
          /\ ask'[p].cmd = ask[p].cmd /\ (ask'[p].got = ask[p].got \/ ask'[p].got = "failed")
      BY <1>2, SendMoves
    <3> QED BY <3>1
  <2>3. CASE wire' = wire
    BY <2>1, <2>2, <2>3
  <2>4. CASE wire' # wire
    <3> DEFINE r == [from |-> p, awaited |-> TRUE, cmd |-> ask[p].cmd]
    <3>1. wire' = Append(wire, r) /\ r \in Sent
      BY <1>2, <2>4, SendMoves
    <3>2. r.cmd = ask[p].cmd
      OBVIOUS
    <3> HIDE DEF r
    <3>3. /\ \A i \in 1..Len(wire') : i = Len(wire') \/ (i \in 1..Len(wire) /\ wire'[i] = wire[i])
          /\ wire'[Len(wire')] = r
      BY <3>1, WireGrows
    <3>4. \A i \in 1..Len(wire') : \/ i \in 1..Len(wire) /\ wire'[i].cmd = wire[i].cmd
                                   \/ wire'[i].cmd = ask[p].cmd
      BY <3>2, <3>3
    <3> QED BY <1>2, <2>1, <2>2, <3>4
  <2> QED BY <2>3, <2>4
<1>3. ASSUME NEW p \in Procs, TimesOut(p)
      PROVE  /\ \A q \in Procs : /\ ask'[q].cmd = ask[q].cmd
                                 /\ ask'[q].got = ask[q].got \/ ask'[q].got = "failed"
             /\ UNCHANGED <<at, outcome, captured, door>>
             /\ \A i \in 1..Len(wire') : i \in 1..Len(wire) /\ wire'[i].cmd = wire[i].cmd
  <2>1. UNCHANGED <<at, outcome, captured, door>> /\ wire' = Orphaned(p)
    BY <1>3 DEF TimesOut, flowVars, doorVars
  <2>2. \A q \in Procs : /\ ask'[q].cmd = ask[q].cmd
                         /\ ask'[q].got = ask[q].got \/ ask'[q].got = "failed"
    <3>1. /\ \A q \in Procs \ {p} : ask'[q] = ask[q]
          /\ ask'[p].cmd = ask[p].cmd /\ ask'[p].got = "failed"
      BY <1>3, TimesOutMoves
    <3> QED BY <3>1
  <2>3. \A i \in 1..Len(wire') : i \in 1..Len(wire) /\ wire'[i].cmd = wire[i].cmd
    BY <2>1, WireOrphaned
  <2> QED BY <2>1, <2>2, <2>3
<1> QED BY <1>1, <1>2, <1>3

\* Where a dialog goes from a place, and what it may have read there.
LEMMA PlaceMoves ==
    ASSUME FlowsOK, NEW d \in Dialogs, Starting(d) \/ Worker(d)
    PROVE  /\ at[d] \in {"form", "checking", "clearing", "rechecking", "ended"} =>
                \/ at'[d] \in {"checking", "clearing", "rechecking", "ended"}
                \/ Got(Main(d)) = "NONE" /\ at'[d] = "creating"
           /\ outcome'[d] = outcome[d]
              \/ (outcome'[d] = "success" => at[d] = "polling" /\ Got(Main(d)) = "FINISH")
<1>1. CASE Submit(d) \/ ClearLeftOver(d) \/ CheckAgain(d) \/ Poll(d)
  BY <1>1 DEF Submit, ClearLeftOver, CheckAgain, Poll, Ask, FlowsOK
<1>2. CASE CannotStart(d)
  BY <1>2 DEF CannotStart, End, FlowsOK
<1>3. CASE Refuse(d) \/ Failed(d)
  BY <1>3 DEF Refuse, Failed, End, FlowsOK
<1>4. CASE Create(d)
  BY <1>4 DEF Create, AtRest, Ask, FlowsOK
<1>5. CASE StartWorker(d) \/ PollAgain(d)
  BY <1>5 DEF StartWorker, PollAgain, FlowsOK
<1>6. CASE Succeed(d)
  BY <1>6 DEF Succeed, End, FlowsOK
<1>7. CASE PollFails(d) \/ DeadlinePasses(d)
  BY <1>7 DEF PollFails, DeadlinePasses, Fail, Ask, FlowsOK
<1> QED BY <1>1, <1>2, <1>3, <1>4, <1>5, <1>6, <1>7 DEF Starting, Worker

LEMMA HopefulStep ==
    Types /\ QueueOK /\ Commands /\ Awaited /\ Hopeful /\ Next => Hopeful'
<1> SUFFICES ASSUME Types, QueueOK, Commands, Awaited, Hopeful, Next, captured' = {}
             PROVE  Unseen' /\ (Foreign' => Untouched')
  BY HopefulParts DEF Hopeful, Unseen, Untouched
<1> DoorOK /\ AskOK /\ FlowsOK /\ LineOK
  BY DEF Types
<1> USE ProcFacts
<1>0. captured = {}
  <2>1. captured \subseteq captured'
    <3>1. ASSUME Door \/ SessionDrops \/ SessionBack PROVE captured \subseteq captured'
      <4>1. CASE DoorEnds("FINISH") \/ DoorEnds("ABORT")
        BY <4>1 DEF DoorEnds
      <4>2. CASE Handle \/ DoorStarts \/ DoorRests \/ SessionDrops \/ SessionBack
        BY <4>2 DEF Handle, DoorStarts, DoorRests, SessionDrops, SessionBack, doorVars
      <4> QED BY <3>1, <4>1, <4>2 DEF Door
    <3>2. ASSUME NEW p \in Procs, Send(p) \/ TimesOut(p) PROVE captured' = captured
      BY <3>2 DEF Send, TimesOut, doorVars
    <3>3. ASSUME NEW d \in Dialogs, Starting(d) \/ Worker(d) \/ Close(d) \/ CleanedUp(d)
          PROVE captured' = captured
      BY <3>3, FlowMoves DEF Close, CleanedUp, doorVars
    <3> QED BY <3>1, <3>2, <3>3 DEF Next
  <2> QED BY <2>1
<1>h. Unseen /\ (Foreign => Untouched)
  BY <1>0, HopefulParts
<1>g. AtPeace.state = "NONE" /\ AtPeace.left = "NONE"
  BY DEF AtPeace
<1>1. CASE Handle
  <2> DEFINE r == Head(wire)
  <2>1. /\ r \in Sent /\ r.from \in Procs /\ r = wire[1] /\ 1 \in 1..Len(wire)
        /\ UNCHANGED <<at, outcome>>
    BY <1>1, WireTail DEF Handle, Sent, flowVars
  <2>2. /\ \A p \in Procs : p # r.from \/ ~r.awaited => ask'[p] = ask[p]
        /\ r.awaited => /\ ask[r.from].cmd = r.cmd /\ ask'[r.from].cmd = r.cmd
                        /\ ask'[r.from].got = IF r.cmd = "get" THEN Reading ELSE "ok"
    BY <1>1, HandleAnswers
  <2>3. \A i \in 1..Len(wire') : i + 1 \in 1..Len(wire) /\ wire'[i] = wire[i + 1]
    BY <1>1, WireTail DEF Handle
  <2>4. /\ r.cmd = "get" => door' = door
        /\ r.cmd = "abort" => door' = AtPeace
        /\ r.cmd = "create" =>
              door' = [state |-> "ACCEPTED", owner |-> r.from[1],
                       left |-> IF Reading = "RUNNING" THEN "NONE" ELSE Reading]
    <3>1. door' = CASE r.cmd = "get" -> door
                    [] r.cmd = "create" ->
                            [state |-> "ACCEPTED", owner |-> r.from[1],
                             left |-> IF Reading = "RUNNING" THEN "NONE" ELSE Reading]
                    [] r.cmd = "abort" -> AtPeace
      BY <1>1 DEF Handle
    <3> HIDE DEF r
    <3> QED BY <3>1, <2>1 DEF Sent
  <2> HIDE DEF r
  <2>5. Reading = "FINISH" => door.state = "FINISH"
    BY <1>h DEF Reading, Unseen
  <2>6. Reading = "NONE" => ~Foreign
    BY DEF Reading, Foreign
  <2>7. r.cmd \in {"get", "create", "abort"}
    BY <2>1 DEF Sent
  <2>8. Unseen'
    <3>1. door'.left # "FINISH"
      <4>1. CASE r.cmd = "create"
        <5>1. Reading # "FINISH"
          BY <4>1, <2>1, <2>5, <1>h DEF Foreign, Untouched
        <5> QED BY <4>1, <5>1, <2>4
      <4> QED BY <4>1, <2>4, <2>7, <1>g, <1>h DEF Unseen
    <3>2. \A d \in Dialogs : at'[d] = "polling" => ask'[Main(d)].got # "FINISH"
      <4> SUFFICES ASSUME NEW d \in Dialogs, at[d] = "polling" PROVE ask'[Main(d)].got # "FINISH"
        BY <2>1
      <4>1. Reading # "FINISH"
        BY <2>5, <1>h DEF Foreign, Untouched
      <4>2. ask[Main(d)].got # "FINISH"
        BY <1>h DEF Unseen
      <4> QED BY <4>1, <4>2, <2>2
    <3> QED BY <3>1, <3>2, <2>1, <1>h DEF Unseen
  <2>9. ASSUME Foreign' PROVE Untouched'
    <3>1. r.cmd = "get" /\ door' = door
      <4>1. r.cmd # "create"
        BY <2>4, <2>9 DEF Foreign
      <4> QED BY <4>1, <2>4, <2>7, <2>9, <1>g DEF Foreign
    <3>2. Foreign /\ Untouched
      BY <3>1, <2>9, <1>h DEF Foreign
    <3>3. \A p \in Procs : ask'[p].cmd # "create" /\ ask'[p].got # "NONE"
      BY <3>1, <3>2, <2>2, <2>6 DEF Untouched
    <3> QED BY <3>2, <3>3, <2>1, <2>3 DEF Untouched
  <2> QED BY <2>8, <2>9
<1>2. CASE DoorStarts \/ DoorEnds("FINISH") \/ DoorEnds("ABORT") \/ DoorRests \/ SessionBack
  <2>1. UNCHANGED <<ask, wire, at, outcome>>
    BY <1>2, AskStays DEF flowVars
  <2>2. door'.left # "FINISH"
    <3>1. CASE DoorStarts
      BY <3>1 DEF DoorStarts, DoorOK
    <3>2. CASE DoorEnds("FINISH") \/ DoorEnds("ABORT")
      BY <3>2, <1>h DEF DoorEnds, DoorOK, Unseen
    <3>3. CASE DoorRests \/ SessionBack
      BY <3>3, <1>g, <1>h DEF DoorRests, SessionBack, Unseen, doorVars
    <3> QED BY <1>2, <3>1, <3>2, <3>3
  <2>3. Foreign' => Foreign
    <3>1. CASE DoorStarts
      <4>1. door.owner \in Dialogs /\ door'.owner = door.owner /\ door'.state = "RUNNING"
        BY <3>1 DEF DoorStarts, DoorOK
      <4> QED BY <4>1, NobodyAssumption DEF Foreign
    <3>2. CASE DoorEnds("FINISH")
      <4>1. door.state = "RUNNING" /\ door.owner \notin Dialogs
        BY <3>2 DEF DoorEnds
      <4> QED BY <4>1 DEF DoorOK, Foreign
    <3>3. CASE DoorEnds("ABORT")
      BY <3>3 DEF DoorEnds, DoorOK, Foreign
    <3>4. CASE DoorRests \/ SessionBack
      BY <3>4, <1>g DEF DoorRests, SessionBack, Foreign, doorVars
    <3> QED BY <1>2, <3>1, <3>2, <3>3, <3>4
  <2> QED BY <2>1, <2>2, <2>3, <1>h DEF Unseen, Untouched
<1>3. CASE SessionDrops \/ \E p \in Procs : Send(p) \/ TimesOut(p)
  <2>1. /\ \A p \in Procs : /\ ask'[p].cmd = ask[p].cmd
                            /\ ask'[p].got = ask[p].got \/ ask'[p].got = "failed"
        /\ UNCHANGED <<at, outcome>>
        /\ door' = door \/ door' = AtPeace
        /\ \A i \in 1..Len(wire') : \/ i \in 1..Len(wire) /\ wire'[i].cmd = wire[i].cmd
                                    \/ \E p \in Procs : wire'[i].cmd = ask[p].cmd
    BY <1>3, GotStays
  <2>2. Foreign' => Foreign
    BY <2>1, <1>g DEF Foreign
  <2>3. Unseen'
    <3>1. door'.left # "FINISH"
      BY <2>1, <1>g, <1>h DEF Unseen
    <3> QED BY <3>1, <2>1, <1>h DEF Unseen
  <2>4. Untouched => Untouched'
    BY <2>1 DEF Untouched
  <2> QED BY <2>2, <2>3, <2>4, <1>h
<1>4. ASSUME NEW d \in Dialogs, Starting(d) \/ Worker(d) PROVE Unseen' /\ (Foreign' => Untouched')
  <2>1. PICK to \in Places : /\ at' = [at EXCEPT ![d] = to]
                             /\ ask' = [ask EXCEPT ![Main(d)] = CommandAt(to)]
    BY <1>4, FlowMoves
  <2>2. /\ at'[d] = to /\ ask'[Main(d)] = CommandAt(to)
        /\ \A e \in Dialogs \ {d} : at'[e] = at[e] /\ outcome'[e] = outcome[e]
        /\ \A p \in Procs \ {Main(d)} : ask'[p] = ask[p]
        /\ UNCHANGED <<door, wire>>
    BY <2>1, <1>4, FlowMoves DEF AskOK, FlowsOK, doorVars
  <2>3. /\ CommandAt(to).got = "nothing"
        /\ CommandAt(to).cmd = "create" => to = "creating"
    BY <2>1 DEF CommandAt, Queued, Idle
  <2>4. /\ at[d] \in {"form", "checking", "clearing", "rechecking", "ended"} =>
                \/ to \in {"checking", "clearing", "rechecking", "ended"}
                \/ Got(Main(d)) = "NONE" /\ to = "creating"
        /\ outcome'[d] = outcome[d]
           \/ (outcome'[d] = "success" => at[d] = "polling" /\ Got(Main(d)) = "FINISH")
    BY <1>4, <2>2, PlaceMoves
  <2>5. Got(Main(d)) # "nothing" => Got(Main(d)) = ask[Main(d)].got
    BY DEF Got
  <2>6. Unseen'
    <3>1. outcome'[d] # "success"
      BY <2>4, <2>5, <1>h DEF Unseen
    <3>2. ask'[Main(d)].got # "FINISH"
      BY <2>2, <2>3
    <3>3. \A e \in Dialogs \ {d} : ask'[Main(e)] = ask[Main(e)]
      BY <2>2
    <3> QED BY <3>1, <3>2, <3>3, <2>2, <1>h DEF Unseen
  <2>7. ASSUME Foreign' PROVE Untouched'
    <3>1. Untouched
      BY <2>7, <2>2, <1>h DEF Foreign
    <3>2. to \in {"checking", "clearing", "rechecking", "ended"}
      BY <3>1, <2>4, <2>5 DEF Untouched
    <3>3. ask'[Main(d)].cmd # "create" /\ ask'[Main(d)].got # "NONE"
      BY <3>2, <2>2, <2>3
    <3> QED BY <3>1, <3>2, <3>3, <2>2 DEF Untouched
  <2> QED BY <2>6, <2>7
<1>5. ASSUME NEW d \in Dialogs, Close(d) PROVE Unseen' /\ (Foreign' => Untouched')
  <2>1. /\ door' = door
        /\ outcome'[d] \in {"failed", "closed"}
        /\ at'[d] = IF Cancelled(d) THEN "ended" ELSE at[d]
        /\ \A e \in Dialogs \ {d} : at'[e] = at[e] /\ outcome'[e] = outcome[e]
    BY <1>5, CloseMoves DEF doorVars
  <2>2. \A p \in Procs : ask'[p] = ask[p] \/ ask'[p] \in {Idle, Queued("abort")}
    <3>1. /\ ask'[Main(d)] = IF Cancelled(d) THEN Idle ELSE ask[Main(d)]
          /\ ask'[Cleanup(d)] = IF enrolling[d] THEN Queued("abort") ELSE Idle
          /\ \A p \in Procs \ {Main(d), Cleanup(d)} : ask'[p] = ask[p]
      BY <1>5, CloseMoves
    <3> QED BY <3>1
  <2>3. \A i \in 1..Len(wire') : i \in 1..Len(wire) /\ wire'[i].cmd = wire[i].cmd
    BY <1>5, WireOrphaned DEF Close
  <2>4. \A p \in Procs : \/ ask'[p] = ask[p]
                         \/ ask'[p].cmd \in {"none", "abort"} /\ ask'[p].got = "nothing"
    BY <2>2 DEF Idle, Queued
  <2>5. Unseen'
    BY <2>1, <2>4, <1>h DEF Unseen
  <2>6. Foreign' => Foreign
    BY <2>1 DEF Foreign
  <2>7. Untouched => Untouched'
    BY <2>1, <2>3, <2>4 DEF Untouched
  <2> QED BY <2>5, <2>6, <2>7, <1>h
<1>6. ASSUME NEW d \in Dialogs, CleanedUp(d) PROVE Unseen' /\ (Foreign' => Untouched')
  <2>1. /\ ask' = [ask EXCEPT ![Cleanup(d)] = Idle] /\ UNCHANGED <<wire, door, at, outcome>>
    BY <1>6 DEF CleanedUp, NoMore, flowVars, doorVars
  <2>2. ask'[Cleanup(d)] = Idle /\ \A p \in Procs \ {Cleanup(d)} : ask'[p] = ask[p]
    BY <2>1 DEF AskOK
  <2>3. Idle.cmd = "none" /\ Idle.got = "nothing"
    BY DEF Idle
  <2>4. \A p \in Procs : \/ ask'[p] = ask[p]
                         \/ ask'[p].cmd = "none" /\ ask'[p].got = "nothing"
    BY <2>2, <2>3
  <2>5. Foreign' => Foreign
    BY <2>1 DEF Foreign
  <2> QED BY <2>1, <2>4, <2>5, <1>h DEF Unseen, Untouched
<1> QED BY <1>1, <1>2, <1>3, <1>4, <1>5, <1>6 DEF Next, Door

-----------------------------------------------------------------------------
(* A dialog without a rival.                                               *)

LEMMA PeaceIsOrdered ==
    ASSUME NEW d \in Dialogs, door' = AtPeace
    PROVE  Ordered(d)' /\ door'.left = "NONE"
<1>1. /\ door'.state = "NONE" /\ door'.owner # d /\ ~Busy' /\ door'.left = "NONE"
  BY NobodyAssumption DEF AtPeace, Busy
<1> QED BY <1>1 DEF Ordered, Holds

\* A dialog ends, asks and goes on with the door as it is.
LEMMA FlowIsOrdered ==
    ASSUME FlowsOK, Commands, NEW d \in Dialogs, Starting(d) \/ Worker(d), Ordered(d)
    PROVE  /\ at'[d] \in Early => at[d] \in Early
           /\ at'[d] = "creating" => door.state = "NONE"
           /\ at'[d] = "ended" => ~Holds(d)
<1> USE DEF Early, FlowsOK
<1>g. Got(Main(d)) # "nothing" => ask[Main(d)].at = "done"
  BY DEF Got
<1>1. CASE Submit(d)
  BY <1>1 DEF Submit, Ask
<1>2. CASE ClearLeftOver(d) \/ CheckAgain(d)
  BY <1>2 DEF ClearLeftOver, CheckAgain, Ask
<1>3. CASE CannotStart(d)
  <2>1. at'[d] = "ended" /\ Got(Main(d)) = "failed"
    BY <1>3 DEF CannotStart, End
  <2>2. CASE at[d] \in {"checking", "clearing", "rechecking"}
    BY <2>1, <2>2 DEF Ordered, Holds
  <2>3. CASE at[d] = "creating"
    BY <2>1, <2>3, <1>g DEF Ordered, Holds
  <2> QED BY <1>3, <2>2, <2>3, <2>1 DEF CannotStart
<1>4. CASE Refuse(d)
  BY <1>4 DEF Refuse, End, Ordered, Holds
<1>5. CASE Create(d)
  BY <1>5 DEF Create, AtRest, Ask, Ordered
<1>6. CASE StartWorker(d) \/ PollAgain(d)
  BY <1>6 DEF StartWorker, PollAgain
<1>7. CASE Poll(d)
  BY <1>7 DEF Poll, Ask
<1>8. CASE Succeed(d)
  BY <1>8 DEF Succeed, End, Ordered, Holds
<1>9. CASE PollFails(d) \/ DeadlinePasses(d)
  BY <1>9 DEF PollFails, DeadlinePasses, Fail, Ask
<1>10. CASE Failed(d)
  BY <1>10, <1>g DEF Failed, End, Ordered, Holds
<1> QED BY <1>1, <1>2, <1>3, <1>4, <1>5, <1>6, <1>7, <1>8, <1>9, <1>10 DEF Starting, Worker

\* Only a dialog that starts an enrollment has a create out.
LEMMA CreatesAwaited ==
    ASSUME Types, Commands, NEW p \in Procs, ask[p].cmd = "create"
    PROVE  p = Main(p[1]) /\ at[p[1]] = "creating"
<1> DEFINE d == p[1]
<1>1. d \in Dialogs /\ (p = Main(d) \/ p = Cleanup(d))
  BY ProcFacts
<1> HIDE DEF d
<1>2. p = Main(d)
  BY <1>1 DEF Commands, Fits
<1>3. Idle.cmd = "none" /\ at[d] \in Places
  BY <1>1 DEF Idle, Types, FlowsOK
<1>4. at[d] = "creating"
  BY <1>1, <1>2, <1>3 DEF Commands, Fits, Places
<1> QED BY <1>2, <1>4 DEF d

LEMMA InOrderStep ==
    Types /\ Flagged /\ QueueOK /\ Commands /\ Awaited /\ NoSession /\ InOrder /\ Next => InOrder'
<1> SUFFICES ASSUME Types, Flagged, QueueOK, Commands, Awaited, NoSession, InOrder, Next,
                    Alone, timeouts' = 0
             PROVE  /\ door'.left = "NONE"
                    /\ \A i \in 1..Len(wire') : wire'[i].cmd = "create" => wire'[i].awaited
                    /\ \A d \in Dialogs : Ordered(d)'
  BY DEF InOrder, Alone
<1> DoorOK /\ AskOK /\ FlowsOK /\ LineOK /\ BoundsOK
  BY DEF Types
<1> USE ProcFacts
<1>t. timeouts = 0
  BY BoundsMove DEF BoundsOK
<1>h. /\ door.left = "NONE"
      /\ \A i \in 1..Len(wire) : wire[i].cmd = "create" => wire[i].awaited
      /\ \A d \in Dialogs : Ordered(d)
  BY <1>t DEF InOrder
<1>a. \A d, e \in Dialogs : d = e
  BY DEF Alone
<1> DEFINE Goal == /\ door'.left = "NONE"
                   /\ \A i \in 1..Len(wire') : wire'[i].cmd = "create" => wire'[i].awaited
                   /\ \A d \in Dialogs : Ordered(d)'
<1>1. CASE Handle
  <2> DEFINE r == Head(wire)
  <2>1. /\ r \in Sent /\ r.from \in Procs /\ r = wire[1] /\ 1 \in 1..Len(wire)
        /\ UNCHANGED <<at, outcome, closes>>
    BY <1>1, WireTail DEF Handle, Sent, flowVars, boundVars
  <2>2. /\ \A p \in Procs : p # r.from \/ ~r.awaited => ask'[p] = ask[p]
        /\ r.awaited => /\ ask[r.from].cmd = r.cmd /\ ask'[r.from].at = "done"
                        /\ ask'[r.from].got = IF r.cmd = "get" THEN Reading ELSE "ok"
    BY <1>1, HandleAnswers
  <2>3. /\ \A i \in 1..Len(wire') : i + 1 \in 1..Len(wire) /\ wire'[i] = wire[i + 1]
        /\ \A i \in 1..Len(wire) : i # 1 => i - 1 \in 1..Len(wire') /\ wire'[i - 1] = wire[i]
    BY <1>1, WireTail DEF Handle
  <2>4. /\ r.cmd = "get" => door' = door
        /\ r.cmd = "abort" => door' = AtPeace
        /\ r.cmd = "create" =>
              door' = [state |-> "ACCEPTED", owner |-> r.from[1],
                       left |-> IF Reading = "RUNNING" THEN "NONE" ELSE Reading]
    <3>1. door' = CASE r.cmd = "get" -> door
                    [] r.cmd = "create" ->
                            [state |-> "ACCEPTED", owner |-> r.from[1],
                             left |-> IF Reading = "RUNNING" THEN "NONE" ELSE Reading]
                    [] r.cmd = "abort" -> AtPeace
      BY <1>1 DEF Handle
    <3> HIDE DEF r
    <3> QED BY <3>1, <2>1 DEF Sent
  <2> HIDE DEF r
  <2>5. \A i \in 1..Len(wire') : wire'[i].cmd = "create" => wire'[i].awaited
    BY <2>3, <1>h
  <2>6. CASE r.cmd = "abort"
    BY <2>4, <2>5, <2>6, PeaceIsOrdered DEF AtPeace
  <2>7. CASE r.cmd = "create"
    <3>1. r.awaited
      BY <2>1, <2>7, <1>h
    <3>2. r.from = Main(r.from[1]) /\ at[r.from[1]] = "creating" /\ r.from[1] \in Dialogs
      BY <2>1, <2>2, <2>7, <3>1, CreatesAwaited
    <3>3. ask[r.from].at = "sent"
      BY <2>1, <3>1 DEF Awaited
    <3>4. door.state = "NONE"
      BY <1>h, <3>2, <3>3 DEF Ordered
    <3>5. door'.left = "NONE"
      BY <2>4, <2>7, <3>4 DEF Reading
    <3>6. ASSUME NEW d \in Dialogs PROVE Ordered(d)'
      <4>1. r.from[1] = d /\ r.from = Main(d) /\ at'[d] = "creating"
        BY <3>2, <1>a, <2>1
      <4>2. ask'[Main(d)].at = "done" /\ Got(Main(d))' = "ok"
        BY <2>2, <2>7, <3>1, <4>1 DEF Got
      <4> QED BY <4>1, <4>2 DEF Ordered, Early
    <3> QED BY <2>5, <3>5, <3>6
  <2>8. CASE r.cmd = "get"
    <3>1. door' = door
      BY <2>4, <2>8
    <3>2. ASSUME NEW d \in Dialogs PROVE Ordered(d)'
      <4>1. /\ Ordered(d)
            /\ ask'[Main(d)] = ask[Main(d)]
               \/ /\ ask[Main(d)].cmd = "get" /\ ask'[Main(d)].at = "done"
                  /\ ask'[Main(d)].got = Reading
        BY <1>h, <2>2, <2>8
      <4>2. /\ at[d] = "creating" => ask[Main(d)].cmd = "create"
            /\ at[d] = "failing" => ask[Main(d)].cmd = "abort"
        BY DEF Commands, Fits
      <4>3. ask'[Cleanup(d)] = ask[Cleanup(d)]
        BY <2>2, <2>8 DEF Commands, Fits
      <4>4. Aborting(d) => Aborting(d)'
        <5>1. CASE ask[Cleanup(d)].at \in {"queued", "sent"}
          BY <5>1, <4>3 DEF Aborting
        <5>2. ASSUME NEW i \in 1..Len(wire), wire[i].from[1] = d, wire[i].cmd = "abort"
              PROVE  Aborting(d)'
          <6>1. i - 1 \in 1..Len(wire') /\ wire'[i - 1] = wire[i]
            BY <2>1, <2>3, <2>8, <5>2
          <6> QED BY <5>2, <6>1 DEF Aborting
        <5> QED BY <5>1, <5>2 DEF Aborting
      <4>5. (at[d] \in Early => door.state # "ACCEPTED" /\ door.owner # d)'
        BY <2>1, <3>1, <4>1 DEF Ordered
      <4>6. (at[d] \in {"checking", "rechecking"} /\ Got(Main(d)) = "NONE" => door.state = "NONE")'
        BY <2>1, <3>1, <4>1 DEF Ordered, Got, Reading, Early
      <4>7. /\ (at[d] = "creating" /\ ask[Main(d)].at \in {"queued", "sent"} => door.state = "NONE")'
            /\ (at[d] = "creating" /\ ask[Main(d)].at = "done" /\ Got(Main(d)) # "ok" => ~Busy)'
            /\ (at[d] = "failing" /\ ask[Main(d)].at = "done" => ~Busy)'
        BY <2>1, <3>1, <4>1, <4>2 DEF Ordered, Got, Busy
      <4>8. (at[d] = "polling" /\ Got(Main(d)) = "FINISH" => ~Busy)'
        <5>1. Reading = "FINISH" => ~Busy
          BY <1>h DEF Reading, Busy
        <5> QED BY <2>1, <3>1, <4>1, <5>1 DEF Ordered, Got, Busy
      <4>9. (at[d] = "ended" /\ Holds(d) => Aborting(d) \/ (outcome[d] = "failed" /\ closes > 0))'
        BY <2>1, <3>1, <4>1, <4>4 DEF Ordered, Holds, Busy
      <4> QED BY <4>5, <4>6, <4>7, <4>8, <4>9 DEF Ordered
    <3> QED BY <2>5, <3>1, <3>2, <1>h
  <2> QED BY <2>1, <2>6, <2>7, <2>8 DEF Sent
<1>2. CASE DoorStarts \/ DoorEnds("FINISH") \/ DoorEnds("ABORT") \/ DoorRests \/ SessionBack
  <2>1. UNCHANGED <<ask, wire, at, outcome, closes>>
    BY <1>2, AskStays DEF flowVars, boundVars
  <2>2. \A d \in Dialogs : Aborting(d)' <=> Aborting(d)
    BY <2>1 DEF Aborting
  <2>3. CASE DoorStarts
    <3>1. /\ door.state = "ACCEPTED" /\ door'.state = "RUNNING" /\ door'.owner = door.owner
          /\ door'.left = "NONE"
      BY <2>3 DEF DoorStarts, DoorOK
    <3>2. Busy /\ Busy'
      BY <3>1 DEF Busy
    <3>3. \A d \in Dialogs : Ordered(d)'
      BY <1>h, <2>1, <2>2, <3>1, <3>2 DEF Ordered, Got, Holds, Early
    <3> QED BY <1>h, <2>1, <3>1, <3>3
  <2>4. CASE DoorEnds("FINISH") \/ DoorEnds("ABORT")
    <3>1. /\ door.state = "RUNNING" /\ door'.state \in {"FINISH", "ABORT"}
          /\ door'.owner = door.owner /\ door'.left = door.left
      BY <2>4 DEF DoorEnds, DoorOK
    <3>2. ~Busy'
      BY <3>1 DEF Busy
    <3>3. \A d \in Dialogs : Ordered(d)'
      BY <1>h, <2>1, <3>1, <3>2 DEF Ordered, Got, Holds, Early
    <3> QED BY <1>h, <2>1, <3>1, <3>3
  <2>5. CASE DoorRests
    <3>1. door' = AtPeace
      BY <2>5 DEF DoorRests
    <3>2. door'.left = "NONE" /\ \A d \in Dialogs : Ordered(d)'
      BY <3>1, PeaceIsOrdered DEF AtPeace
    <3> QED BY <1>h, <2>1, <3>2
  <2>6. CASE SessionBack
    <3>1. door' = door
      BY <2>6 DEF SessionBack, doorVars
    <3>2. \A d \in Dialogs : Ordered(d)'
      BY <1>h, <2>1, <2>2, <3>1 DEF Ordered, Got, Holds, Busy
    <3> QED BY <1>h, <2>1, <3>1, <3>2
  <2> QED BY <1>2, <2>3, <2>4, <2>5, <2>6
<1>3. CASE SessionDrops
  <2>1. /\ UNCHANGED <<at, outcome, closes>> /\ wire' = <<>>
        /\ (door' = door /\ ~Busy) \/ door' = AtPeace
    BY <1>3 DEF SessionDrops, flowVars
  <2>2. Len(wire') = 0
    BY <2>1
  <2>3. CASE door' = AtPeace
    <3>1. door'.left = "NONE" /\ \A d \in Dialogs : Ordered(d)'
      BY <2>3, PeaceIsOrdered DEF AtPeace
    <3> QED BY <2>2, <3>1
  <2>4. CASE door' = door /\ ~Busy
    <3>1. \A p \in Procs : \/ ask'[p] = ask[p] /\ ask[p].at \notin {"queued", "sent"}
                           \/ ask'[p].at = "done" /\ ask'[p].got = "failed"
      <4>1. \A p \in Procs : ask'[p] = IF ask[p].at \in {"queued", "sent"}
                                       THEN Answered(p, "failed") ELSE ask[p]
        BY <1>3 DEF SessionDrops
      <4>2. \A p \in Procs : Answered(p, "failed").at = "done" /\ Answered(p, "failed").got = "failed"
        BY DEF Answered, AskOK, Command
      <4> QED BY <4>1, <4>2
    <3>2. ~Busy'
      BY <2>4 DEF Busy
    <3>3. \A d \in Dialogs : Ordered(d)'
      BY <1>h, <2>1, <2>4, <3>1, <3>2 DEF Ordered, Got, Holds
    <3> QED BY <1>h, <2>2, <2>4, <3>3
  <2> QED BY <2>1, <2>3, <2>4
<1>4. ASSUME NEW p \in Procs, Send(p) PROVE Goal
  <2>1. UNCHANGED <<door, up, at, outcome, closes>>
    BY <1>4 DEF Send, doorVars, flowVars, boundVars
  <2>2. /\ ask[p].at = "queued" /\ \A q \in Procs \ {p} : ask'[q] = ask[q]
        /\ ask'[p].at = "sent" \/ (ask'[p].at = "done" /\ ask'[p].got = "failed" /\ ~up)
    BY <1>4, SendMoves
  <2>3. ~up => ~Busy
    BY DEF NoSession
  <2>4. /\ \A i \in 1..Len(wire') : wire'[i].cmd = "create" => wire'[i].awaited
        /\ \A i \in 1..Len(wire) : i \in 1..Len(wire') /\ wire'[i] = wire[i]
    <3>1. CASE wire' = wire
      BY <3>1, <1>h
    <3>2. CASE wire' # wire
      <4> DEFINE r == [from |-> p, awaited |-> TRUE, cmd |-> ask[p].cmd]
      <4>1. wire' = Append(wire, r) /\ r \in Sent
        BY <1>4, <3>2, SendMoves
      <4>2. r.awaited
        OBVIOUS
      <4> HIDE DEF r
      <4>3. /\ \A i \in 1..Len(wire') : i = Len(wire') \/ (i \in 1..Len(wire) /\ wire'[i] = wire[i])
            /\ wire'[Len(wire')] = r
            /\ \A i \in 1..Len(wire) : i \in 1..Len(wire') /\ wire'[i] = wire[i]
        BY <4>1, WireGrows
      <4> QED BY <4>2, <4>3, <1>h
    <3> QED BY <3>1, <3>2
  <2>5. ASSUME NEW d \in Dialogs PROVE Ordered(d)'
    <3>1. /\ Ordered(d)
          /\ \/ ask'[Main(d)] = ask[Main(d)]
             \/ ask[Main(d)].at = "queued" /\ ask'[Main(d)].at = "sent"
             \/ ask'[Main(d)].at = "done" /\ ask'[Main(d)].got = "failed" /\ ~Busy
      BY <1>h, <2>2, <2>3
    <3>2. Busy' <=> Busy
      BY <2>1 DEF Busy
    <3>3. Busy => (Aborting(d) => Aborting(d)')
      <4>1. Busy /\ ask[Cleanup(d)].at \in {"queued", "sent"} => ask'[Cleanup(d)].at \in {"queued", "sent"}
        BY <2>2, <2>3
      <4> QED BY <2>4, <4>1 DEF Aborting
    <3> QED BY <2>1, <3>1, <3>2, <3>3 DEF Ordered, Got, Holds
  <2> QED BY <1>h, <2>1, <2>4, <2>5
<1>5. ASSUME NEW p \in Procs, TimesOut(p) PROVE FALSE
  BY <1>5, <1>t DEF TimesOut
<1>6. ASSUME NEW d \in Dialogs, Starting(d) \/ Worker(d) PROVE Goal
  <2>1. UNCHANGED <<door, wire, closes>>
    BY <1>6, FlowMoves DEF doorVars, boundVars
  <2>2. PICK to \in Places : /\ at' = [at EXCEPT ![d] = to]
                             /\ ask' = [ask EXCEPT ![Main(d)] = CommandAt(to)]
    BY <1>6, FlowMoves
  <2>3. ask'[Main(d)] = CommandAt(to) /\ at'[d] = to
    BY <2>2 DEF AskOK, FlowsOK
  <2>4. CommandAt(to).at \in {"queued", "idle"}
    BY <2>2 DEF CommandAt, Queued, Idle
  <2>5. ask'[Main(d)].at # "done" /\ Got(Main(d))' = "nothing"
    BY <2>3, <2>4 DEF Got
  <2>6. /\ at'[d] \in Early => at[d] \in Early
        /\ at'[d] = "creating" => door.state = "NONE"
        /\ at'[d] = "ended" => ~Holds(d)
    BY <1>6, <1>h, FlowIsOrdered
  <2>7. Ordered(d)'
    BY <1>h, <2>1, <2>5, <2>6 DEF Ordered, Holds, Busy
  <2>8. \A e \in Dialogs : Ordered(e)'
    <3> TAKE e \in Dialogs
    <3>1. e = d
      BY <1>a
    <3> QED BY <2>7, <3>1
  <2> QED BY <1>h, <2>1, <2>8
<1>7. ASSUME NEW d \in Dialogs, Close(d) PROVE Goal
  <2>1. /\ door' = door /\ closes' = closes + 1 /\ outcome[d] = "open"
        /\ outcome'[d] = IF at[d] = "failing" THEN "failed" ELSE "closed"
    BY <1>7 DEF Close, doorVars, FlowsOK
  <2>2. /\ at'[d] = IF Cancelled(d) THEN "ended" ELSE at[d]
        /\ ask[Cleanup(d)] = Idle
        /\ ask'[Main(d)] = IF Cancelled(d) THEN Idle ELSE ask[Main(d)]
        /\ ask'[Cleanup(d)] = IF enrolling[d] THEN Queued("abort") ELSE Idle
    BY <1>7, CloseMoves
  <2>3. wire' = IF Cancelled(d) THEN Orphaned(Main(d)) ELSE wire
    BY <1>7 DEF Close
  <2>4. /\ Len(wire') = Len(wire)
        /\ \A i \in 1..Len(wire) :
              /\ wire'[i].from = wire[i].from /\ wire'[i].cmd = wire[i].cmd
              /\ wire[i].cmd = "create" => wire'[i].awaited
    <3>1. CASE Cancelled(d)
      <4>1. /\ Len(wire') = Len(wire)
            /\ \A i \in 1..Len(wire) :
                  /\ wire'[i].from = wire[i].from /\ wire'[i].cmd = wire[i].cmd
                  /\ wire[i].awaited /\ wire[i].from # Main(d) => wire'[i].awaited
        BY <2>3, <3>1, WireOrphaned
      <4>2. ask[Main(d)].cmd # "create"
        BY <3>1 DEF Cancelled, Commands, Fits, Idle
      <4>3. \A i \in 1..Len(wire) : wire[i].cmd = "create" =>
                wire[i].awaited /\ wire[i].from # Main(d)
        BY <4>2, <1>h DEF Awaited
      <4> QED BY <4>1, <4>3
    <3>2. CASE ~Cancelled(d)
      BY <2>3, <3>2, <1>h
    <3> QED BY <3>1, <3>2
  <2>5. Ordered(d)'
    <3>1. Ordered(d) /\ (Busy' <=> Busy) /\ (Holds(d)' <=> Holds(d))
      BY <1>h, <2>1 DEF Busy, Holds
    <3>2. CASE ~Cancelled(d)
      <4>1. at'[d] = at[d] /\ ask'[Main(d)] = ask[Main(d)]
        BY <2>2, <3>2
      <4>2. at[d] = "ended" /\ Holds(d) => Aborting(d)
        BY <2>1, <3>1 DEF Ordered
      <4>3. Aborting(d) => Aborting(d)'
        BY <2>2, <2>4 DEF Aborting, Idle
      <4> QED BY <2>1, <3>1, <4>1, <4>2, <4>3 DEF Ordered, Got
    <3>3. CASE Cancelled(d)
      <4>1. at'[d] = "ended" /\ at[d] \in {"form", "sleeping", "polling", "failing"}
        BY <2>2, <3>3 DEF Cancelled
      <4>2. CASE at[d] = "form"
        <5>1. ~Holds(d)
          BY <3>1, <4>2 DEF Ordered, Early, Holds
        <5> QED BY <4>1, <3>1, <5>1 DEF Ordered, Early
      <4>3. CASE at[d] \in {"sleeping", "polling"}
        <5>1. enrolling[d]
          BY <4>3, <2>1 DEF Flagged
        <5>2. Aborting(d)'
          BY <5>1, <2>2 DEF Aborting, Queued
        <5> QED BY <4>1, <5>2 DEF Ordered, Early
      <4>4. CASE at[d] = "failing"
        <5>1. outcome'[d] = "failed" /\ closes' > 0
          BY <4>4, <2>1 DEF BoundsOK
        <5> QED BY <4>1, <5>1 DEF Ordered, Early
      <4> QED BY <4>1, <4>2, <4>3, <4>4
    <3> QED BY <3>2, <3>3
  <2>6. \A e \in Dialogs : Ordered(e)'
    <3> TAKE e \in Dialogs
    <3>1. e = d
      BY <1>a
    <3> QED BY <2>5, <3>1
  <2> QED BY <1>h, <2>1, <2>4, <2>6
<1>8. ASSUME NEW d \in Dialogs, CleanedUp(d) PROVE Goal
  <2>1. /\ UNCHANGED <<wire, door, at, outcome, closes>>
        /\ ask' = [ask EXCEPT ![Cleanup(d)] = Idle] /\ ask[Cleanup(d)].at = "done"
    BY <1>8 DEF CleanedUp, NoMore, Got, flowVars, doorVars, boundVars
  <2>2. \A p \in Procs \ {Cleanup(d)} : ask'[p] = ask[p]
    BY <2>1 DEF AskOK
  <2>3. ASSUME NEW e \in Dialogs PROVE Ordered(e)'
    <3>1. ask'[Main(e)] = ask[Main(e)] /\ (Aborting(e) => Aborting(e)')
      BY <2>1, <2>2 DEF Aborting
    <3> QED BY <1>h, <2>1, <3>1 DEF Ordered, Got, Holds, Busy
  <2> QED BY <1>h, <2>1, <2>3
<1> QED BY <1>1, <1>2, <1>3, <1>4, <1>5, <1>6, <1>7, <1>8 DEF Next, Door

\* A dialog without a rival lowers no flag but its own.
LEMMA RaisedStep == Types /\ Raised /\ Next => Raised'
<1> SUFFICES ASSUME FlowsOK, Raised, Next, \A d, e \in Dialogs : d = e,
                    NEW d \in Dialogs, enrolling'[d]
             PROVE  active'
  BY DEF Types, Raised
<1>0. enrolling[d] => active
  BY DEF Raised
<1>s. ASSUME NEW b \in BOOLEAN, SetEnrolling(d, b) PROVE active'
  BY <1>s DEF SetEnrolling, FlowsOK
<1>1. ASSUME NEW e \in Dialogs, Starting(e) \/ Worker(e) PROVE active'
  <2>1. e = d
    OBVIOUS
  <2>2. UNCHANGED <<enrolling, active>> \/ \E b \in BOOLEAN : SetEnrolling(d, b)
    BY <1>1, <2>1, FlowMoves
  <2>3. CASE UNCHANGED <<enrolling, active>>
    BY <2>3, <1>0
  <2>4. CASE \E b \in BOOLEAN : SetEnrolling(d, b)
    BY <2>4, <1>s
  <2> QED BY <2>2, <2>3, <2>4
<1>2. ASSUME NEW e \in Dialogs, Close(e) PROVE active'
  <2>1. e = d
    OBVIOUS
  <2>2. UNCHANGED <<enrolling, active>> \/ SetEnrolling(d, FALSE)
    BY <1>2, <2>1 DEF Close, Remove, KeepFlag
  <2>3. CASE UNCHANGED <<enrolling, active>>
    BY <2>3, <1>0
  <2>4. CASE SetEnrolling(d, FALSE)
    BY <2>4 DEF SetEnrolling, FlowsOK
  <2> QED BY <2>2, <2>3, <2>4
<1>3. CASE ~\E e \in Dialogs : Starting(e) \/ Worker(e) \/ Close(e)
  BY <1>3, <1>0, OthersMove DEF flowVars
<1> QED BY <1>1, <1>2, <1>3

-----------------------------------------------------------------------------
(* The invariant, and what follows from it.                                *)

LEMMA IInvInit == Init => IInv
<1> SUFFICES ASSUME Init PROVE IInv
  OBVIOUS
<1> USE DEF Init
<1>e. <<>> \in Seq(Sent) /\ <<>> \in Seq(Procs) /\ Len(wire) = 0 /\ Len(line) = 0
  OBVIOUS
<1>i. Idle \in Command /\ Idle.cmd = "none" /\ Idle.at = "idle" /\ Idle.got = "nothing"
  BY CommandType DEF Idle
<1>m. \A d \in Dialogs : ask[Main(d)] = Idle /\ ask[Cleanup(d)] = Idle
  BY ProcFacts
<1>1. Types
  <2>1. DoorOK
    BY DEF DoorOK, DoorStates
  <2>2. LineOK
    BY <1>e DEF LineOK
  <2>3. AskOK
    BY <1>i DEF AskOK
  <2>4. FlowsOK
    BY DEF FlowsOK, Places, Outcomes
  <2>5. BoundsOK
    BY BoundsAssumption DEF BoundsOK
  <2> QED BY <2>1, <2>2, <2>3, <2>4, <2>5 DEF Types
<1>2. FlagNotStuck /\ Flagged /\ Raised
  BY DEF FlagNotStuck, Flagged, Raised
<1>3. QueueOK
  BY <1>e, <1>i DEF QueueOK, Distinct, Members
<1>4. Commands
  BY <1>i, <1>m DEF Commands, Fits
<1>5. Awaited
  BY <1>e DEF Awaited
<1>6. NoSession
  BY DEF NoSession
<1>7. Hopeful
  BY <1>e, <1>i DEF Hopeful
<1>8. InOrder
  BY <1>e, <1>i, <1>m, NobodyAssumption DEF InOrder, Ordered, Holds, Early, Got
<1> QED BY <1>1, <1>2, <1>3, <1>4, <1>5, <1>6, <1>7, <1>8 DEF IInv

LEMMA IInvStep == IInv /\ [Next]_vars => IInv'
<1> SUFFICES ASSUME IInv, [Next]_vars PROVE IInv'
  OBVIOUS
<1>1. CASE Next
  BY <1>1, TypesStep, FlagStep, RaisedStep, QueueStep, CommandsStep, AwaitedStep,
     NoSessionStep, HopefulStep, InOrderStep DEF IInv
<1>2. CASE UNCHANGED vars
  <2> USE <1>2 DEF vars, doorVars, flowVars, boundVars
  <2>1. Types'
    BY DEF IInv, Types, DoorOK, LineOK, AskOK, FlowsOK, BoundsOK
  <2>2. FlagNotStuck' /\ Flagged' /\ Raised'
    BY DEF IInv, FlagNotStuck, Flagged, Raised
  <2>3. QueueOK' /\ Commands'
    BY DEF IInv, QueueOK, Commands, Fits
  <2>4. Awaited' /\ NoSession'
    BY DEF IInv, Awaited, NoSession, Busy
  <2>5. Hopeful'
    BY DEF IInv, Hopeful, Foreign
  <2>6. InOrder'
    BY DEF IInv, InOrder, Ordered, Aborting, Holds, Busy, Got
  <2> QED BY <2>1, <2>2, <2>3, <2>4, <2>5, <2>6 DEF IInv
<1> QED BY <1>1, <1>2

\* Types, flags, the lock's queue, the commands of the tasks, what the door
\* may still show, and the order of a dialog's steps, in every state.
THEOREM Invariance == Spec => []IInv
<1>1. Init => IInv
  BY IInvInit
<1>2. IInv /\ [Next]_vars => IInv'
  BY IInvStep
<1> QED BY <1>1, <1>2, PTL DEF Spec

\* Every dialog is at one of its places, every task has one command out at
\* most, and the door is in a state that the code knows.
THEOREM TypeCorrect == Spec => []TypeOK
<1>1. IInv => TypeOK
  BY DEF IInv, Types, DoorOK, LineOK, AskOK, FlowsOK, BoundsOK, TypeOK, Sent, Command, Places,
         Outcomes
<1> QED BY <1>1, Invariance, PTL

\* coordinator.enrollment_active is set for a dialog that follows an
\* enrollment only: no way out of _async_start_enrollment,
\* _async_run_enrollment or async_remove leaves it behind.
THEOREM FlagIsLowered == Spec => []FlagNotStuck
<1>1. IInv => FlagNotStuck
  BY DEF IInv
<1> QED BY <1>1, Invariance, PTL

\* The FINISH that makes _async_poll_enrollment report success is that of an
\* enrollment made here, never what the machine showed before.
THEOREM SuccessIsSomebodys == Spec => []SomebodySucceeded
<1>1. IInv => SomebodySucceeded
  BY DEF IInv, Hopeful, SomebodySucceeded
<1> QED BY <1>1, Invariance, PTL

\* Of a dialog without a rival: the finger is its own, refused polls are
\* ridden out while it follows its enrollment, and the door is left enrolling
\* only after a time-out, or when it was closed while it failed.
LEMMA WithoutRival ==
    ASSUME Alone
    PROVE  IInv => SuccessIsReal /\ PollsAreRiddenOut /\ OrphanOnlyKnownWays
<1> SUFFICES ASSUME IInv PROVE SuccessIsReal /\ PollsAreRiddenOut /\ OrphanOnlyKnownWays
  OBVIOUS
<1>1. SuccessIsReal
  <2> SUFFICES ASSUME NEW d \in Dialogs, outcome[d] = "success" PROVE d \in captured
    BY DEF SuccessIsReal
  <2>1. captured # {}
    BY DEF IInv, Hopeful
  <2>2. captured \subseteq Dialogs
    BY DEF IInv, Types, DoorOK
  <2> QED BY <2>1, <2>2 DEF Alone
<1>2. PollsAreRiddenOut
  BY DEF IInv, Flagged, Raised, Alone, PollsAreRiddenOut
<1>3. OrphanOnlyKnownWays
  <2> SUFFICES ASSUME NEW d \in Dialogs, Holds(d), ~Attended(d), ~(timeouts > 0)
               PROVE  outcome[d] = "failed" /\ closes > 0
    BY DEF OrphanOnlyKnownWays
  <2>1. timeouts = 0
    BY DEF IInv, Types, BoundsOK
  <2>2. Ordered(d)
    BY <2>1 DEF IInv, InOrder
  <2>3. at[d] \in Places
    BY DEF IInv, Types, FlowsOK
  <2>4. at[d] = "ended"
    BY <2>2, <2>3 DEF Ordered, Early, Places, Holds, Attended
  <2>5. ~Aborting(d)
    BY DEF Attended, Aborting
  <2> QED BY <2>2, <2>4, <2>5 DEF Ordered
<1> QED BY <1>1, <1>2, <1>3

\* Without a rival: async_step_enroll_result says that the finger of this dialog is captured.
THEOREM SuccessIsItsOwn == ASSUME Alone PROVE Spec => []SuccessIsReal
<1>1. IInv => SuccessIsReal
  BY WithoutRival
<1> QED BY <1>1, Invariance, PTL

\* Without a rival: coordinator.enrollment_active is up as long as the dialog
\* starts or follows an enrollment, so _async_update_data rides refused polls
\* out.
THEOREM PollsRiddenOut == ASSUME Alone PROVE Spec => []PollsAreRiddenOut
<1>1. IInv => PollsAreRiddenOut
  BY WithoutRival
<1> QED BY <1>1, Invariance, PTL

\* Without a rival: the door is left enrolling for nobody only after a command
\* timed out, or when the dialog was closed while its failed worker waited
\* with the abort.
THEOREM DoorIsAttended == ASSUME Alone PROVE Spec => []OrphanOnlyKnownWays
<1>1. IInv => OrphanOnlyKnownWays
  BY WithoutRival
<1> QED BY <1>1, Invariance, PTL

=============================================================================
