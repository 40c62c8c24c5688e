--------------------------- MODULE DoorLockProofs ---------------------------
(***************************************************************************)
(* Proofs about DoorLock, for every number of refreshes and service calls, *)
(* every choice of the intervals that satisfies the assumption, and every  *)
(* bound: optimistic transitions are timed and have one owner, polling     *)
(* stays as the backstop, and a lost door is shown as lost.                *)
(***************************************************************************)
EXTENDS DoorLock, SequenceTheorems, TLAPS

-----------------------------------------------------------------------------
(* The inductive invariant.                                                *)

PushFrame == [push : {"OPEN", "CLOSED"}]
OkFrame == [poll : Polls, ok : Params]
RejectedFrame == [poll : Polls, failed : Rejection]
Frame == PushFrame \cup OkFrame \cup RejectedFrame \cup {Notice}

OkAnswer == [at : {"answered"}, ok : Params]
FailedAnswer == [at : {"answered"}, failed : Failure]
Refresh == [at : {"idle", "waiting", "cut", "sent", "replied"}] \cup OkAnswer \cup FailedAnswer

DoorOK ==
    /\ door \in Params /\ want \in Daymodes \cup {"none"}
    /\ enrollment \in {"none", "running", "aborting"}
    /\ link \in {"up", "taken", "lost", "closing", "down"}
InboxOK == inbox \in Seq(Frame) /\ Len(inbox) <= MaxFrames
PollsOK == polls \in [Polls -> Refresh]
PaceOK ==
    /\ requested \in BOOLEAN /\ refresh \in Off..Relaxed
    /\ interval \in {Moving, Default, Relaxed}
    /\ fast \in 0..FastFor /\ pushAge \in 0..PushIdle
ShownOK == data \in Params /\ available \in BOOLEAN /\ reauth \in BOOLEAN
CallsOK ==
    calls \in [Callers -> [at : {"idle"}] \cup [at : {"waiting", "sent", "failed"}, what : Whats]]
TransitionOK ==
    target \in Daymodes \cup {"none"} /\ opening \in BOOLEAN /\ timer \in Off..Longest
CountsOK ==
    /\ moves \in 0..MaxMoves /\ commands \in 0..MaxCommands
    /\ troubles \in 0..MaxTroubles /\ enrollments \in 0..MaxEnrollments

\* What is on its way ends with the socket: frames, and the refreshes that wait
\* for them; and when the socket has been closed, no answer of before is left.
SessionOK ==
    /\ ~Open => /\ inbox = <<>>
                /\ \A p \in Polls : polls[p].at \notin {"waiting", "sent", "replied"}
    /\ link = "down" => \A p \in Polls : polls[p] \notin OkAnswer

IInv ==
    /\ DoorOK
    /\ InboxOK
    /\ PollsOK
    /\ PaceOK
    /\ ShownOK
    /\ CallsOK
    /\ TransitionOK
    /\ CountsOK
    /\ SessionOK
    /\ TransitionIsTimed
    /\ OwnTransition
    /\ BackstopArmed

-----------------------------------------------------------------------------
(* Frames and answers.                                                     *)

\* The kinds of frames are told apart by their fields.
LEMMA FrameKinds ==
    ASSUME NEW r \in Frame
    PROVE  /\ "push" \in DOMAIN r => r \in PushFrame
           /\ "poll" \in DOMAIN r => r.poll \in Polls
           /\ "poll" \in DOMAIN r /\ "ok" \in DOMAIN r => r.ok \in Params
           /\ "poll" \in DOMAIN r /\ "ok" \notin DOMAIN r => r.failed \in Rejection
BY DEF Frame, PushFrame, OkFrame, RejectedFrame, Notice

LEMMA AnswerKinds ==
    ASSUME NEW r \in Refresh, r.at = "answered"
    PROVE  /\ "ok" \in DOMAIN r <=> r \in OkAnswer
           /\ "failed" \in DOMAIN r <=> r \in FailedAnswer
           /\ r \in OkAnswer => r.ok \in Params /\ r \notin FailedAnswer
           /\ r \in OkAnswer \/ r \in FailedAnswer
           /\ r \in FailedAnswer => r.failed \in Failure
BY DEF Refresh, OkAnswer, FailedAnswer

LEMMA InboxShrinks ==
    ASSUME InboxOK, inbox # <<>>, inbox' = Tail(inbox)
    PROVE  InboxOK' /\ Head(inbox) \in Frame
<1>1. Head(inbox) \in Frame /\ Tail(inbox) \in Seq(Frame) /\ Len(Tail(inbox)) = Len(inbox) - 1
  BY DEF InboxOK
<1>2. Len(inbox) \in Nat
  BY DEF InboxOK
<1> QED BY <1>1, <1>2, BoundsAssumption DEF InboxOK

LEMMA InboxGrows ==
    ASSUME InboxOK, Len(inbox) < MaxFrames, NEW f \in Frame, inbox' = Append(inbox, f)
    PROVE  InboxOK'
<1>1. inbox' \in Seq(Frame) /\ Len(inbox') = Len(inbox) + 1
  BY DEF InboxOK
<1> QED BY <1>1, BoundsAssumption DEF InboxOK

LEMMA TypeParts == IInv => TypeOK
<1> SUFFICES ASSUME IInv PROVE TypeOK
  OBVIOUS
<1>1. \A i \in 1..Len(inbox) : inbox[i] \in Frame
  BY DEF IInv, InboxOK
<1> QED BY <1>1 DEF IInv, DoorOK, InboxOK, PollsOK, PaceOK, ShownOK, CallsOK, TransitionOK,
        CountsOK, TypeOK, Frame, PushFrame, OkFrame, RejectedFrame, Refresh, OkAnswer, FailedAnswer

-----------------------------------------------------------------------------
(* The optimistic transition.                                              *)

\* What the coordinator tells the entity confirms its transition or leaves it.
LEMMA NotifyEffect ==
    ASSUME NEW d, Notify(d)
    PROVE  ResetTransition \/ UNCHANGED transition
BY DEF Notify

\* Only a command begins a transition, and only time moves its timer on.
LEMMA TransitionMoves ==
    ASSUME Next
    PROVE  \/ UNCHANGED transition
           \/ ResetTransition
           \/ Tick
           \/ \E c \in Callers, what \in Whats : Command(c, what)
<1>1. CASE Tick \/ TransitionTimeout
  BY <1>1 DEF TransitionTimeout
<1>2. CASE HandlePush \/ AvailabilityLost
  BY <1>2, NotifyEffect DEF HandlePush, AvailabilityLost
<1>3. CASE ReplyArrives \/ SessionDrops \/ SessionTaken \/ NoticeArrives \/ SessionCloses
           \/ AvailabilityBack \/ Press
  BY <1>3 DEF ReplyArrives, SessionDrops, SessionTaken, NoticeArrives, SessionCloses,
              AvailabilityBack, Press
<1>4. ASSUME NEW p \in Polls, Poll(p) PROVE UNCHANGED transition \/ ResetTransition
  <2>1. CASE PollSucceeds(p) \/ PollFails(p)
    BY <2>1, NotifyEffect DEF PollSucceeds, PollFails
  <2>2. CASE ~(PollSucceeds(p) \/ PollFails(p))
    BY <1>4, <2>2 DEF Poll, PollBegins, PollSends, PollHandled, PollRejected, PollTimesOut
  <2> QED BY <2>1, <2>2
<1>5. ASSUME NEW c \in Callers, Call(c)
      PROVE  UNCHANGED transition \/ ResetTransition \/ \E what \in Whats : Command(c, what)
  BY <1>5 DEF Call, CommandSends, CommandAccepted, CommandRefused, CommandFails
<1>6. CASE DoorTurns \/ SomebodyTurns \/ SomebodyMoves \/ EnrollmentStarts \/ EnrollmentEnds
  BY <1>6 DEF DoorTurns, SomebodyTurns, SomebodyMoves, EnrollmentStarts, EnrollmentEnds
<1> QED BY <1>1, <1>2, <1>3, <1>4, <1>5, <1>6 DEF Next

\* A command that is out stays what it is.
LEMMA CallMoves ==
    ASSUME CallsOK, Next
    PROVE  \/ \E c \in Callers, what \in Whats : Command(c, what)
           \/ \A c \in Callers : calls'[c].at # "idle" =>
                  calls[c].at # "idle" /\ calls'[c].what = calls[c].what
<1> DEFINE Kept == \A c \in Callers : calls'[c].at # "idle" =>
                       calls[c].at # "idle" /\ calls'[c].what = calls[c].what
<1>1. CASE UNCHANGED calls
  BY <1>1
<1>2. CASE CutOff
  <2>1. \A c \in Callers : calls'[c] = IF calls[c].at \in {"waiting", "sent"}
                                       THEN [calls[c] EXCEPT !.at = "failed"] ELSE calls[c]
    BY <1>2 DEF CutOff
  <2>2. \A c \in Callers : calls[c].at \in {"waiting", "sent"} =>
            calls[c] \in [at : {"waiting", "sent", "failed"}, what : Whats]
    BY DEF CallsOK
  <2> QED BY <2>1, <2>2
<1>3. ASSUME NEW c \in Callers, CommandSends(c) \/ CommandRefused(c) PROVE Kept
  <2>1. calls[c].at \in {"waiting", "sent"}
        /\ calls[c] \in [at : {"waiting", "sent", "failed"}, what : Whats]
    BY <1>3 DEF CommandSends, CommandRefused, CallsOK
  <2>2. PICK s : calls' = [calls EXCEPT ![c].at = s]
    BY <1>3 DEF CommandSends, CommandRefused
  <2>3. calls'[c].what = calls[c].what /\ \A b \in Callers \ {c} : calls'[b] = calls[b]
    BY <2>1, <2>2 DEF CallsOK
  <2> QED BY <2>1, <2>3
<1>4. ASSUME NEW c \in Callers, CommandAccepted(c) \/ CommandFails(c) PROVE Kept
  BY <1>4 DEF CommandAccepted, CommandFails, NoCall, CallsOK
<1>5. UNCHANGED calls \/ CutOff \/ \E c \in Callers : Call(c)
  <2>1. CASE Tick \/ TransitionTimeout \/ ReplyArrives \/ HandlePush \/ SessionTaken
             \/ NoticeArrives \/ AvailabilityLost \/ AvailabilityBack \/ Press
    BY <2>1 DEF Tick, TransitionTimeout, ReplyArrives, HandlePush, SessionTaken, NoticeArrives,
                AvailabilityLost, AvailabilityBack, Press
  <2>2. ASSUME NEW p \in Polls, Poll(p) PROVE UNCHANGED calls
    BY <2>2 DEF Poll, PollBegins, PollSends, PollHandled, PollRejected, PollTimesOut, PollSucceeds, PollFails
  <2>3. CASE DoorTurns \/ SomebodyTurns \/ SomebodyMoves \/ EnrollmentStarts \/ EnrollmentEnds
    BY <2>3 DEF DoorTurns, SomebodyTurns, SomebodyMoves, EnrollmentStarts, EnrollmentEnds
  <2> QED BY <2>1, <2>2, <2>3 DEF Next, SessionDrops, SessionCloses
<1> QED BY <1>1, <1>2, <1>3, <1>4, <1>5 DEF Call

LEMMA TransitionStep ==
    IInv /\ Next => TransitionOK' /\ TransitionIsTimed' /\ OwnTransition'
<1> SUFFICES ASSUME IInv, Next PROVE TransitionOK' /\ TransitionIsTimed' /\ OwnTransition'
  OBVIOUS
<1> TransitionOK /\ CallsOK /\ TransitionIsTimed /\ OwnTransition
  BY DEF IInv
<1>t. Longest \in Nat /\ TransitionFor <= Longest /\ OpenFor <= Longest
  BY IntervalAssumption DEF Longest
<1>1. ASSUME NEW c \in Callers, NEW what \in Whats, Command(c, what)
      PROVE  TransitionOK' /\ TransitionIsTimed' /\ OwnTransition'
  <2>1. /\ target' = DaymodeOf(what) /\ opening' = (what = "open")
        /\ timer' = IF what = "open" THEN OpenFor ELSE TransitionFor
    BY <1>1 DEF Command, BeginTransition
  <2>2. DaymodeOf(what) \in Daymodes \cup {"none"} /\ (DaymodeOf(what) = "none" <=> what = "open")
    BY DEF DaymodeOf, Whats, Daymodes
  <2>3. timer' \in Nat \ {0} /\ timer' <= Longest
    BY <2>1, <1>t, IntervalAssumption
  <2>4. calls'[c].what = what
        /\ \A b \in Callers \ {c} : calls'[b].at = "idle"
    BY <1>1 DEF Command, MayBegin, CallsOK
  <2>5. TransitionOK' /\ TransitionIsTimed'
    <3>1. timer' \in Off..Longest /\ timer' # Off
      BY <2>3, <1>t DEF Off
    <3>2. CASE what = "open"
      BY <2>1, <2>2, <3>1, <3>2 DEF TransitionOK, TransitionIsTimed, InTransition
    <3>3. CASE what # "open"
      BY <2>1, <2>2, <3>1, <3>3 DEF TransitionOK, TransitionIsTimed, InTransition
    <3> QED BY <3>2, <3>3
  <2>6. OwnTransition'
    BY <2>1, <2>4 DEF OwnTransition
  <2> QED BY <2>5, <2>6
<1>2. CASE ~\E c \in Callers, what \in Whats : Command(c, what)
  <2>1. \A c \in Callers : calls'[c].at # "idle" =>
            calls[c].at # "idle" /\ calls'[c].what = calls[c].what
    BY <1>2, CallMoves
  <2>2. CASE UNCHANGED transition
    BY <2>1, <2>2 DEF transition, TransitionOK, TransitionIsTimed, OwnTransition, InTransition
  <2>3. CASE ResetTransition
    <3>1. target' = "none" /\ opening' = FALSE /\ timer' = Off /\ Off \in Off..Longest
      BY <2>3, <1>t DEF ResetTransition, Off
    <3> QED BY <3>1 DEF TransitionOK, TransitionIsTimed, OwnTransition, InTransition
  <2>4. CASE Tick
    <3>1. UNCHANGED <<target, opening, calls>> /\ timer # 0 /\ timer' = Down(timer)
      BY <2>4 DEF Tick, Settled
    <3>2. timer' \in Off..Longest /\ (timer' = Off <=> timer = Off)
      BY <3>1, <1>t DEF Down, TransitionOK, Off
    <3> QED BY <3>1, <3>2 DEF TransitionOK, TransitionIsTimed, OwnTransition, InTransition
  <2> QED BY <1>2, <2>2, <2>3, <2>4, TransitionMoves
<1> QED BY <1>1, <1>2

-----------------------------------------------------------------------------
(* Every step keeps the other parts of the invariant.                      *)

LEMMA DoorStep == IInv /\ Next => DoorOK'
<1> SUFFICES ASSUME IInv, Next PROVE DoorOK'
  OBVIOUS
<1> USE DEF IInv, DoorOK
<1>a. ASSUME UNCHANGED <<doorVars, link>> PROVE DoorOK'
  BY <1>a DEF doorVars
<1>1. CASE Tick \/ TransitionTimeout \/ HandlePush \/ SessionTaken \/ Press
  BY <1>1, <1>a DEF Tick, TransitionTimeout, HandlePush, SessionTaken, Press
<1>2. CASE ReplyArrives \/ SessionDrops \/ NoticeArrives \/ AvailabilityLost \/ SessionCloses
           \/ AvailabilityBack
  <2>1. UNCHANGED doorVars /\ link' \in {link, "taken", "lost", "closing", "down", "up"}
    BY <1>2 DEF ReplyArrives, TakenOver, SessionDrops, NoticeArrives, AvailabilityLost,
                SessionCloses, AvailabilityBack
  <2> QED BY <2>1 DEF doorVars
<1>3. ASSUME NEW p \in Polls, Poll(p) PROVE DoorOK'
  BY <1>3, <1>a DEF Poll, PollBegins, PollSends, PollHandled, PollRejected, PollTimesOut, PollSucceeds, PollFails
<1>4. ASSUME NEW c \in Callers, Call(c) PROVE DoorOK'
  <2>1. CASE CommandAccepted(c) \/ CommandRefused(c)
    <3>1. calls[c].what \in Whats
      BY <2>1 DEF CommandAccepted, CommandRefused, CallsOK
    <3>2. calls[c].what # "open" => DaymodeOf(calls[c].what) \in Daymodes
      BY <3>1 DEF DaymodeOf, Whats, Daymodes
    <3> QED BY <2>1, <3>2 DEF CommandAccepted, CommandRefused
  <2>2. CASE ~(CommandAccepted(c) \/ CommandRefused(c))
    BY <1>4, <2>2, <1>a DEF Call, Command, CommandSends, CommandFails
  <2> QED BY <2>1, <2>2
<1>5. CASE DoorTurns \/ SomebodyTurns
  BY <1>5 DEF DoorTurns, SomebodyTurns, Params, Daymodes
<1>6. CASE SomebodyMoves
  BY <1>6 DEF SomebodyMoves, Params
<1>7. CASE EnrollmentStarts \/ EnrollmentEnds
  BY <1>7 DEF EnrollmentStarts, EnrollmentEnds
<1> QED BY <1>1, <1>2, <1>3, <1>4, <1>5, <1>6, <1>7 DEF Next

LEMMA InboxStep == IInv /\ Next => InboxOK'
<1> SUFFICES ASSUME InboxOK, DoorOK, Next PROVE InboxOK'
  BY DEF IInv
<1>a. ASSUME UNCHANGED inbox PROVE InboxOK'
  BY <1>a DEF InboxOK
<1>1. CASE Tick \/ TransitionTimeout \/ AvailabilityLost \/ AvailabilityBack \/ Press
  BY <1>1, <1>a DEF Tick, TransitionTimeout, AvailabilityLost, AvailabilityBack, Press
<1>2. CASE ReplyArrives \/ HandlePush \/ NoticeArrives
  BY <1>2, InboxShrinks DEF ReplyArrives, HandlePush, NoticeArrives
<1>3. CASE SessionDrops \/ SessionCloses
  <2>1. inbox' = <<>>
    BY <1>3 DEF SessionDrops, SessionCloses, CutOff
  <2> QED BY <2>1, BoundsAssumption DEF InboxOK
<1>8. CASE SessionTaken
  <2>1. Notice \in Frame
    BY DEF Frame
  <2> QED BY <1>8, <2>1, InboxGrows DEF SessionTaken
<1>4. ASSUME NEW p \in Polls, Poll(p) PROVE InboxOK'
  <2>1. CASE PollHandled(p) \/ PollRejected(p)
    <3>1. PICK f \in Frame : inbox' = Append(inbox, f)
      BY <2>1 DEF PollHandled, PollRejected, Frame, OkFrame, RejectedFrame, Rejection, DoorOK
    <3> QED BY <2>1, <3>1, InboxGrows DEF PollHandled, PollRejected
  <2>2. CASE ~(PollHandled(p) \/ PollRejected(p))
    BY <1>4, <2>2, <1>a DEF Poll, PollBegins, PollSends, PollTimesOut, PollSucceeds, PollFails
  <2> QED BY <2>1, <2>2
<1>5. ASSUME NEW c \in Callers, Call(c) PROVE InboxOK'
  BY <1>5, <1>a DEF Call, Command, CommandSends, CommandAccepted, CommandRefused, CommandFails
<1>6. CASE DoorTurns \/ SomebodyTurns \/ EnrollmentStarts \/ EnrollmentEnds
  BY <1>6, <1>a DEF DoorTurns, SomebodyTurns, EnrollmentStarts, EnrollmentEnds
<1>7. CASE SomebodyMoves
  <2>1. Len(inbox) < MaxFrames /\ (UNCHANGED inbox \/ \E f \in Frame : inbox' = Append(inbox, f))
    BY <1>7 DEF SomebodyMoves, Frame, PushFrame
  <2> QED BY <2>1, <1>a, InboxGrows
<1> QED BY <1>1, <1>2, <1>3, <1>4, <1>5, <1>6, <1>7, <1>8 DEF Next

\* What a step may do to the refreshes in progress.
PollMoves ==
    \/ UNCHANGED polls
    \/ \E p \in Polls :
          \/ polls' = [polls EXCEPT ![p] = NoPoll]
          \/ polls' = [polls EXCEPT ![p] = [at |-> "waiting"]] /\ Open
          \/ polls' = [polls EXCEPT ![p] = [at |-> "sent"]] /\ Open
          \/ polls' = [polls EXCEPT ![p] = [at |-> "replied"]] /\ Open
          \/ \E reason \in Failure : polls' = [polls EXCEPT ![p] = Failed(reason)]
          \/ \E ok \in Params : polls' = [polls EXCEPT ![p] = [at |-> "answered", ok |-> ok]]
                                /\ Open
    \/ CutOff

LEMMA PollsMove == IInv /\ Next => PollMoves
<1> SUFFICES ASSUME IInv, Next PROVE PollMoves
  OBVIOUS
<1>s. SessionOK /\ InboxOK /\ DoorOK /\ PollsOK
  BY DEF IInv
<1>1. CASE Tick \/ TransitionTimeout \/ HandlePush \/ SessionTaken \/ NoticeArrives
           \/ AvailabilityLost \/ AvailabilityBack \/ Press
  BY <1>1 DEF Tick, TransitionTimeout, HandlePush, SessionTaken, NoticeArrives, AvailabilityLost,
              AvailabilityBack, Press, PollMoves
<1>2. CASE ReplyArrives
  <2> DEFINE r == Head(inbox)
  <2>1. /\ inbox # <<>> /\ "poll" \in DOMAIN r
        /\ polls' = [polls EXCEPT ![r.poll] =
                        IF "ok" \in DOMAIN r THEN [at |-> "answered", ok |-> r.ok]
                        ELSE Failed(r.failed)]
    BY <1>2 DEF ReplyArrives
  <2>2. Open
    BY <1>s, <2>1 DEF SessionOK
  <2>3. r \in Frame
    BY <1>s, <2>1 DEF InboxOK
  <2>4. r.poll \in Polls /\ ("ok" \in DOMAIN r => r.ok \in Params)
        /\ ("ok" \notin DOMAIN r => r.failed \in Failure)
    BY <2>1, <2>3, FrameKinds DEF Failure
  <2> HIDE DEF r
  <2> QED BY <2>1, <2>2, <2>4 DEF PollMoves
<1>3. ASSUME NEW p \in Polls, Poll(p) PROVE PollMoves
  <2>0. "down" \in Failure
    BY DEF Failure
  <2>1. CASE PollBegins(p)
    BY <2>0, <2>1 DEF PollBegins, PollMoves
  <2>2. CASE PollSends(p)
    <3>1. polls[p].at = "waiting" => Open
      BY <1>s DEF SessionOK
    <3> QED BY <2>0, <2>2, <3>1 DEF PollSends, PollMoves
  <2>3. CASE PollHandled(p) \/ PollRejected(p)
    <3>1. polls[p].at = "sent" /\ polls' = [polls EXCEPT ![p] = [at |-> "replied"]]
      BY <2>3 DEF PollHandled, PollRejected
    <3>2. Open
      BY <3>1, <1>s DEF SessionOK
    <3> QED BY <3>1, <3>2 DEF PollMoves
  <2>4. CASE PollTimesOut(p)
    BY <2>0, <2>4 DEF PollTimesOut, PollMoves
  <2>5. CASE PollSucceeds(p) \/ PollFails(p)
    BY <2>5 DEF PollSucceeds, PollFails, PollMoves
  <2> QED BY <1>3, <2>1, <2>2, <2>3, <2>4, <2>5 DEF Poll
<1>4. ASSUME NEW c \in Callers, Call(c) PROVE PollMoves
  BY <1>4 DEF Call, Command, CommandSends, CommandAccepted, CommandRefused, CommandFails, PollMoves
<1>5. CASE SessionDrops \/ SessionCloses
  BY <1>5 DEF SessionDrops, SessionCloses, PollMoves
<1>6. CASE DoorTurns \/ SomebodyTurns \/ SomebodyMoves \/ EnrollmentStarts \/ EnrollmentEnds
  BY <1>6 DEF DoorTurns, SomebodyTurns, SomebodyMoves, EnrollmentStarts, EnrollmentEnds, PollMoves
<1> QED BY <1>1, <1>2, <1>3, <1>4, <1>5, <1>6 DEF Next

LEMMA PollsStep == IInv /\ Next => PollsOK'
<1> SUFFICES ASSUME IInv, PollMoves PROVE PollsOK'
  BY PollsMove
<1> USE DEF PollsOK, IInv
<1>1. CASE CutOff
  <2>1. \A p \in Polls : Failed("down") \in Refresh /\ [at |-> "cut"] \in Refresh
    BY DEF Refresh, FailedAnswer, Failed, Failure
  <2>2. polls' = [p \in Polls |->
                     CASE polls[p].at \in {"sent", "replied"} -> Failed("down")
                       [] polls[p].at = "waiting"             -> [at |-> "cut"]
                       [] OTHER                               -> polls[p]]
    BY <1>1 DEF CutOff
  <2> QED BY <2>1, <2>2
<1>2. CASE ~CutOff
  <2>1. UNCHANGED polls \/ \E p \in Polls, r \in Refresh : polls' = [polls EXCEPT ![p] = r]
    BY <1>2 DEF PollMoves, Refresh, NoPoll, Failed, FailedAnswer, OkAnswer
  <2> QED BY <2>1
<1> QED BY <1>1, <1>2

LEMMA PaceStep == IInv /\ Next => PaceOK'
<1> SUFFICES ASSUME IInv, Next PROVE PaceOK'
  OBVIOUS
<1> PaceOK
  BY DEF IInv
<1> USE IntervalAssumption
<1>a. ASSUME UNCHANGED paceVars PROVE PaceOK'
  BY <1>a DEF paceVars, PaceOK
<1>i. \A f, age : Interval(f, age) \in {Moving, Default, Relaxed}
  BY DEF Interval
<1>r. \A n \in {Moving, Default, Relaxed} : n \in Off..Relaxed
  BY DEF Off
<1>o. Off \in Off..Relaxed /\ 0 \in 0..PushIdle /\ FastFor \in 0..FastFor
  BY DEF Off
<1>1. CASE Tick
  <2>1. /\ refresh' = Down(refresh) /\ fast' = Down(fast)
        /\ pushAge' = IF pushAge < PushIdle THEN pushAge + 1 ELSE pushAge
        /\ UNCHANGED <<requested, interval>>
    BY <1>1 DEF Tick
  <2>2. refresh' \in Off..Relaxed /\ fast' \in 0..FastFor
    BY <2>1 DEF PaceOK, Down, Off
  <2>3. pushAge' \in 0..PushIdle
    BY <2>1 DEF PaceOK
  <2> QED BY <2>1, <2>2, <2>3 DEF PaceOK
<1>2. CASE TransitionTimeout \/ ReplyArrives \/ SessionDrops \/ SessionTaken \/ NoticeArrives
           \/ AvailabilityLost \/ SessionCloses
  BY <1>2, <1>a DEF TransitionTimeout, ReplyArrives, SessionDrops, SessionTaken, NoticeArrives,
                    AvailabilityLost, SessionCloses
<1>3. CASE AvailabilityBack \/ Press
  BY <1>3 DEF AvailabilityBack, Press, RequestRefresh, PaceOK
<1>4. CASE HandlePush
  <2>1. /\ pushAge' = 0 /\ interval' = Interval(fast, 0) /\ refresh' = interval'
        /\ requested' = FALSE /\ UNCHANGED fast
    BY <1>4 DEF HandlePush
  <2>2. interval' \in {Moving, Default, Relaxed}
    BY <2>1, <1>i
  <2>3. refresh' \in Off..Relaxed
    BY <2>1, <2>2, <1>r
  <2> QED BY <2>1, <2>2, <2>3, <1>o DEF PaceOK
<1>5. ASSUME NEW p \in Polls, Poll(p) PROVE PaceOK'
  <2>1. CASE PollBegins(p)
    <3>1. refresh' = Off /\ requested' = FALSE /\ UNCHANGED <<interval, fast, pushAge>>
      BY <2>1 DEF PollBegins
    <3> QED BY <3>1, <1>o DEF PaceOK
  <2>2. CASE PollSucceeds(p)
    BY <2>2, <1>i, <1>r DEF PollSucceeds, PaceOK
  <2>3. CASE PollFails(p)
    BY <2>3, <1>r DEF PollFails, PaceOK
  <2>4. CASE PollSends(p) \/ PollHandled(p) \/ PollRejected(p) \/ PollTimesOut(p)
    BY <2>4, <1>a DEF PollSends, PollHandled, PollRejected, PollTimesOut
  <2> QED BY <1>5, <2>1, <2>2, <2>3, <2>4 DEF Poll
<1>6. ASSUME NEW c \in Callers, Call(c) PROVE PaceOK'
  <2>1. ASSUME NEW what \in Whats, Command(c, what) PROVE PaceOK'
    <3>1. fast' = FastFor /\ interval' = Interval(FastFor, pushAge)
          /\ UNCHANGED <<requested, refresh, pushAge>>
      BY <2>1 DEF Command, BeginTransition
    <3> QED BY <3>1, <1>i DEF PaceOK
  <2> QED BY <1>6, <2>1, <1>a DEF Call, CommandSends, CommandAccepted, CommandRefused, CommandFails
<1>7. CASE DoorTurns \/ SomebodyTurns \/ SomebodyMoves \/ EnrollmentStarts \/ EnrollmentEnds
  BY <1>7, <1>a DEF DoorTurns, SomebodyTurns, SomebodyMoves, EnrollmentStarts, EnrollmentEnds
<1> QED BY <1>1, <1>2, <1>3, <1>4, <1>5, <1>6, <1>7 DEF Next

LEMMA ShownStep == IInv /\ Next => ShownOK'
<1> SUFFICES ASSUME IInv, Next PROVE ShownOK'
  OBVIOUS
<1> USE DEF IInv, ShownOK
<1>a. ASSUME UNCHANGED shownVars PROVE ShownOK'
  BY <1>a DEF shownVars
<1>1. CASE Tick \/ TransitionTimeout \/ ReplyArrives \/ SessionDrops \/ SessionTaken
           \/ NoticeArrives \/ SessionCloses \/ AvailabilityBack \/ Press
  BY <1>1, <1>a DEF Tick, TransitionTimeout, ReplyArrives, SessionDrops, SessionTaken,
                    NoticeArrives, SessionCloses, AvailabilityBack, Press
<1>2. CASE HandlePush
  <2>1. Head(inbox) \in Frame /\ "push" \in DOMAIN Head(inbox)
    BY <1>2, InboxShrinks DEF HandlePush
  <2>2. Head(inbox).push \in {"OPEN", "CLOSED"}
    BY <2>1, FrameKinds DEF PushFrame
  <2>3. data' = [data EXCEPT !.state = Head(inbox).push] /\ available' = TRUE
        /\ UNCHANGED reauth
    BY <1>2 DEF HandlePush
  <2> QED BY <2>2, <2>3 DEF Params
<1>3. CASE AvailabilityLost
  BY <1>3 DEF AvailabilityLost
<1>4. ASSUME NEW p \in Polls, Poll(p) PROVE ShownOK'
  <2>1. CASE PollSucceeds(p)
    <3>1. polls[p] \in Refresh /\ polls[p].at = "answered" /\ "ok" \in DOMAIN polls[p]
      BY <2>1 DEF PollSucceeds, PollsOK
    <3>2. polls[p].ok \in Params
      BY <3>1, AnswerKinds
    <3> QED BY <2>1, <3>2 DEF PollSucceeds
  <2>2. CASE PollFails(p)
    <3>1. data' = data /\ available' \in BOOLEAN
      BY <2>2 DEF PollFails, RidesOut
    <3>2. reauth' \in BOOLEAN
      BY <2>2 DEF PollFails
    <3> QED BY <3>1, <3>2
  <2>3. CASE ~(PollSucceeds(p) \/ PollFails(p))
    BY <1>4, <2>3, <1>a DEF Poll, PollBegins, PollSends, PollHandled, PollRejected, PollTimesOut
  <2> QED BY <2>1, <2>2, <2>3
<1>5. ASSUME NEW c \in Callers, Call(c) PROVE ShownOK'
  BY <1>5, <1>a DEF Call, Command, CommandSends, CommandAccepted, CommandRefused, CommandFails
<1>6. CASE DoorTurns \/ SomebodyTurns \/ SomebodyMoves \/ EnrollmentStarts \/ EnrollmentEnds
  BY <1>6, <1>a DEF DoorTurns, SomebodyTurns, SomebodyMoves, EnrollmentStarts, EnrollmentEnds
<1> QED BY <1>1, <1>2, <1>3, <1>4, <1>5, <1>6 DEF Next

LEMMA CallsStep == IInv /\ Next => CallsOK'
<1> SUFFICES ASSUME CallsOK, Next PROVE CallsOK'
  BY DEF IInv
<1> DEFINE InProgress == [at : {"waiting", "sent", "failed"}, what : Whats]
<1>a. ASSUME UNCHANGED calls PROVE CallsOK'
  BY <1>a DEF CallsOK
<1>1. CASE Tick \/ TransitionTimeout \/ ReplyArrives \/ HandlePush \/ SessionTaken
           \/ NoticeArrives \/ AvailabilityLost \/ AvailabilityBack \/ Press
  BY <1>1, <1>a DEF Tick, TransitionTimeout, ReplyArrives, HandlePush, SessionTaken,
                    NoticeArrives, AvailabilityLost, AvailabilityBack, Press
<1>2. CASE SessionDrops \/ SessionCloses
  <2>1. calls' = [c \in Callers |-> IF calls[c].at \in {"waiting", "sent"}
                                    THEN [calls[c] EXCEPT !.at = "failed"] ELSE calls[c]]
    BY <1>2 DEF SessionDrops, SessionCloses, CutOff
  <2>2. \A c \in Callers : calls[c].at \in {"waiting", "sent"} => calls[c] \in InProgress
    BY DEF CallsOK
  <2> QED BY <2>1, <2>2 DEF CallsOK
<1>3. ASSUME NEW p \in Polls, Poll(p) PROVE CallsOK'
  BY <1>3, <1>a DEF Poll, PollBegins, PollSends, PollHandled, PollRejected, PollTimesOut, PollSucceeds, PollFails
<1>4. ASSUME NEW c \in Callers, Call(c) PROVE CallsOK'
  <2>1. CASE CommandSends(c) \/ CommandRefused(c)
    <3>1. calls[c] \in InProgress
      BY <2>1 DEF CommandSends, CommandRefused, CallsOK
    <3>2. PICK s \in {"sent", "failed"} : calls' = [calls EXCEPT ![c].at = s]
      BY <2>1 DEF CommandSends, CommandRefused
    <3> QED BY <3>1, <3>2 DEF CallsOK
  <2>2. CASE ~(CommandSends(c) \/ CommandRefused(c))
    BY <1>4, <2>2 DEF Call, Command, CommandAccepted, CommandFails, CallsOK, NoCall
  <2> QED BY <2>1, <2>2
<1>5. CASE DoorTurns \/ SomebodyTurns \/ SomebodyMoves \/ EnrollmentStarts \/ EnrollmentEnds
  BY <1>5, <1>a DEF DoorTurns, SomebodyTurns, SomebodyMoves, EnrollmentStarts, EnrollmentEnds
<1> QED BY <1>1, <1>2, <1>3, <1>4, <1>5 DEF Next

\* Each counter counts what its bound allows.
LEMMA CountsMove ==
    ASSUME Next
    PROVE  /\ moves' = moves \/ (moves < MaxMoves /\ moves' = moves + 1)
           /\ commands' = commands \/ (commands < MaxCommands /\ commands' = commands + 1)
           /\ troubles' = troubles \/ (troubles < MaxTroubles /\ troubles' = troubles + 1)
           /\ enrollments' = enrollments
              \/ (enrollments < MaxEnrollments /\ enrollments' = enrollments + 1)
<1> USE DEF boundVars
<1>1. CASE Tick \/ TransitionTimeout \/ ReplyArrives \/ HandlePush \/ NoticeArrives
           \/ AvailabilityLost \/ SessionCloses \/ AvailabilityBack
  BY <1>1 DEF Tick, TransitionTimeout, ReplyArrives, HandlePush, NoticeArrives, AvailabilityLost,
              SessionCloses, AvailabilityBack
<1>2. CASE SessionDrops \/ SessionTaken \/ Press
  BY <1>2 DEF SessionDrops, SessionTaken, Press
<1>3. ASSUME NEW p \in Polls, Poll(p), ~(PollRejected(p) \/ PollTimesOut(p))
      PROVE  UNCHANGED boundVars
  BY <1>3 DEF Poll, PollBegins, PollSends, PollHandled, PollSucceeds, PollFails
<1>4. ASSUME NEW p \in Polls, PollRejected(p) \/ PollTimesOut(p)
      PROVE  /\ troubles < MaxTroubles /\ troubles' = troubles + 1
             /\ UNCHANGED <<moves, commands, enrollments>>
  BY <1>4 DEF PollRejected, PollTimesOut
<1>5. ASSUME NEW c \in Callers, Call(c), ~\E what \in Whats : Command(c, what)
      PROVE  UNCHANGED boundVars
  BY <1>5 DEF Call, CommandSends, CommandAccepted, CommandRefused, CommandFails
<1>6. ASSUME NEW c \in Callers, NEW what \in Whats, Command(c, what)
      PROVE  /\ commands < MaxCommands /\ commands' = commands + 1
             /\ UNCHANGED <<moves, troubles, enrollments>>
  BY <1>6 DEF Command
<1>7. CASE DoorTurns \/ SomebodyTurns \/ SomebodyMoves \/ EnrollmentStarts \/ EnrollmentEnds
  BY <1>7 DEF DoorTurns, SomebodyTurns, SomebodyMoves, EnrollmentStarts, EnrollmentEnds
<1> QED BY <1>1, <1>2, <1>3, <1>4, <1>5, <1>6, <1>7 DEF Next

LEMMA CountsStep == IInv /\ Next => CountsOK'
<1> SUFFICES ASSUME CountsOK, Next PROVE CountsOK'
  BY DEF IInv
<1>1. \A m, n \in Nat : n \in 0..m /\ n < m => n + 1 \in 0..m
  OBVIOUS
<1> QED BY <1>1, CountsMove, BoundsAssumption DEF CountsOK

-----------------------------------------------------------------------------
(* A session and what is on its way in it.                                 *)

LEMMA LinkMoves ==
    ASSUME Next
    PROVE  \/ UNCHANGED link
           \/ ReplyArrives \/ SessionDrops \/ NoticeArrives \/ AvailabilityLost \/ SessionCloses
           \/ AvailabilityBack
<1>1. CASE Tick \/ TransitionTimeout \/ HandlePush \/ SessionTaken \/ Press
  BY <1>1 DEF Tick, TransitionTimeout, HandlePush, SessionTaken, Press
<1>2. ASSUME NEW p \in Polls, Poll(p) PROVE UNCHANGED link
  BY <1>2 DEF Poll, PollBegins, PollSends, PollHandled, PollRejected, PollTimesOut,
              PollSucceeds, PollFails
<1>3. ASSUME NEW c \in Callers, Call(c) PROVE UNCHANGED link
  BY <1>3 DEF Call, Command, CommandSends, CommandAccepted, CommandRefused, CommandFails
<1>4. CASE DoorTurns \/ SomebodyTurns \/ SomebodyMoves \/ EnrollmentStarts \/ EnrollmentEnds
  BY <1>4 DEF DoorTurns, SomebodyTurns, SomebodyMoves, EnrollmentStarts, EnrollmentEnds
<1> QED BY <1>1, <1>2, <1>3, <1>4 DEF Next

\* Only the socket's end closes it, and only the next session opens one.
LEMMA SocketMoves ==
    ASSUME DoorOK, Next
    PROVE  Open' = Open \/ SessionDrops \/ SessionCloses \/ AvailabilityBack
<1>1. CASE ReplyArrives \/ NoticeArrives
  BY <1>1 DEF ReplyArrives, NoticeArrives, TakenOver, Open
<1>2. CASE AvailabilityLost
  BY <1>2 DEF AvailabilityLost, Open
<1>3. CASE UNCHANGED link
  BY <1>3 DEF Open
<1> QED BY <1>1, <1>2, <1>3, LinkMoves

\* Without a socket no frame comes.
LEMMA NoFrames ==
    ASSUME IInv, Next, ~Open, ~SessionCloses
    PROVE  inbox' = <<>>
<1>s. /\ inbox = <<>> /\ \A p \in Polls : polls[p].at # "sent"
      /\ link \notin {"up", "taken", "closing"}
  BY DEF IInv, SessionOK, Open
<1>1. CASE Tick \/ TransitionTimeout \/ AvailabilityLost \/ AvailabilityBack \/ Press
  BY <1>1, <1>s DEF Tick, TransitionTimeout, AvailabilityLost, AvailabilityBack, Press
<1>2. CASE ReplyArrives \/ HandlePush \/ NoticeArrives \/ SessionDrops \/ SessionTaken
  BY <1>2, <1>s DEF ReplyArrives, HandlePush, NoticeArrives, SessionDrops, SessionTaken
<1>3. ASSUME NEW p \in Polls, Poll(p) PROVE inbox' = <<>>
  BY <1>3, <1>s DEF Poll, PollBegins, PollSends, PollHandled, PollRejected, PollTimesOut,
                    PollSucceeds, PollFails
<1>4. ASSUME NEW c \in Callers, Call(c) PROVE inbox' = <<>>
  BY <1>4, <1>s DEF Call, Command, CommandSends, CommandAccepted, CommandRefused, CommandFails
<1>5. CASE DoorTurns \/ SomebodyTurns \/ SomebodyMoves \/ EnrollmentStarts \/ EnrollmentEnds
  BY <1>5, <1>s DEF DoorTurns, SomebodyTurns, SomebodyMoves, Open, EnrollmentStarts,
                    EnrollmentEnds
<1> QED BY <1>1, <1>2, <1>3, <1>4, <1>5 DEF Next

LEMMA SessionStep == IInv /\ Next => SessionOK'
<1> SUFFICES ASSUME IInv, Next PROVE SessionOK'
  OBVIOUS
<1>s. SessionOK /\ PollsOK /\ DoorOK
  BY DEF IInv
<1>a. \A r \in OkAnswer : r.at = "answered"
  BY DEF OkAnswer
<1>1. CASE SessionDrops \/ SessionCloses
  <2>1. /\ CutOff
        /\ link' = "lost" \/ (link' = "down" /\ \A p \in Polls : polls[p].at # "answered")
    BY <1>1 DEF SessionDrops, SessionCloses, NoAnswer
  <2>2. inbox' = <<>> /\ \A p \in Polls : polls'[p] =
            CASE polls[p].at \in {"sent", "replied"} -> Failed("down")
              [] polls[p].at = "waiting"             -> [at |-> "cut"]
              [] OTHER                               -> polls[p]
    BY <2>1 DEF CutOff
  <2>3. \A p \in Polls : polls'[p].at \notin {"waiting", "sent", "replied"}
    BY <2>2 DEF Failed
  <2>4. link' = "down" => \A p \in Polls : polls'[p] \notin OkAnswer
    <3>1. Failed("down") \notin OkAnswer /\ [at |-> "cut"] \notin OkAnswer
      BY DEF Failed, OkAnswer
    <3> QED BY <2>1, <2>2, <3>1, <1>a
  <2> QED BY <2>2, <2>3, <2>4 DEF SessionOK
<1>2. CASE AvailabilityLost
  <2>1. /\ Open' = Open /\ UNCHANGED <<polls, inbox>>
        /\ \A p \in Polls : polls[p].at # "answered"
    BY <1>2 DEF AvailabilityLost, NoAnswer, Open
  <2>2. \A p \in Polls : polls[p] \notin OkAnswer
    BY <2>1, <1>a
  <2> QED BY <2>1, <2>2, <1>s DEF SessionOK
<1>3. CASE AvailabilityBack
  <2>1. Open' /\ link' # "down"
    BY <1>3 DEF AvailabilityBack, Open
  <2> QED BY <2>1 DEF SessionOK
<1>4. CASE ~(SessionDrops \/ SessionCloses \/ AvailabilityLost \/ AvailabilityBack)
  <2>1. Open' = Open /\ (link' = "down" => link = "down")
    BY <1>4, <1>s, SocketMoves, LinkMoves DEF ReplyArrives, NoticeArrives, TakenOver
  <2>2. CASE Open
    <3>1. Open' /\ link' # "down"
      BY <2>1, <2>2 DEF Open
    <3> QED BY <3>1 DEF SessionOK
  <2>3. CASE ~Open
    <3>1. inbox' = <<>>
      BY <2>3, <1>4, NoFrames
    <3>2. UNCHANGED polls \/ \E p \in Polls, r \in [at : {"idle"}] \cup FailedAnswer :
                                 polls' = [polls EXCEPT ![p] = r]
      <4>1. PollMoves
        BY PollsMove
      <4>2. CASE CutOff
        <5>1. \A p \in Polls : polls'[p] = polls[p]
          BY <4>2, <2>3, <1>s DEF CutOff, SessionOK
        <5>2. polls' = [p \in Polls |-> polls'[p]] /\ polls = [p \in Polls |-> polls[p]]
          BY <4>2, <1>s DEF CutOff, PollsOK
        <5> QED BY <5>1, <5>2
      <4>3. CASE ~CutOff
        BY <4>1, <4>3, <2>3 DEF PollMoves, NoPoll, Failed, FailedAnswer
      <4> QED BY <4>2, <4>3
    <3>3. \A r \in [at : {"idle"}] \cup FailedAnswer :
              r.at \notin {"waiting", "sent", "replied"} /\ r \notin OkAnswer
      BY DEF FailedAnswer, OkAnswer
    <3>4. \A p \in Polls :
              \/ polls'[p] = polls[p]
              \/ polls'[p].at \notin {"waiting", "sent", "replied"} /\ polls'[p] \notin OkAnswer
      BY <3>2, <3>3, <1>s DEF PollsOK
    <3> QED BY <2>1, <2>3, <3>1, <3>4, <1>s DEF SessionOK
  <2> QED BY <2>2, <2>3
<1> QED BY <1>1, <1>2, <1>3, <1>4

-----------------------------------------------------------------------------
(* A refresh that ends leaves another one behind, or asks the user.        *)

LEMMA RearmsItself ==
    ASSUME IInv, Next, Armed
    PROVE  Armed' \/ (reauth' /\ ~available')
<1>s. InboxOK /\ PollsOK /\ PaceOK
  BY DEF IInv
<1>i. \A f, age : Interval(f, age) # Off
  BY IntervalAssumption DEF Interval, Off
<1>j. interval # Off
  BY <1>s, IntervalAssumption DEF PaceOK, Off
<1>b. ASSUME UNCHANGED <<refresh, requested, polls>> PROVE Armed'
  BY <1>b DEF Armed
<1>1. CASE Tick
  <2>1. UNCHANGED <<requested, polls>> /\ refresh' = Down(refresh)
    BY <1>1 DEF Tick
  <2>2. refresh # Off => refresh' # Off
    BY <2>1, <1>s DEF PaceOK, Down, Off
  <2> QED BY <2>1, <2>2 DEF Armed
<1>2. CASE TransitionTimeout \/ SessionTaken \/ NoticeArrives \/ AvailabilityLost
  BY <1>2, <1>b DEF TransitionTimeout, SessionTaken, NoticeArrives, AvailabilityLost, paceVars
<1>3. CASE HandlePush
  BY <1>3, <1>i DEF HandlePush, Armed
<1>4. CASE SessionDrops \/ SessionCloses
  <2>1. UNCHANGED <<refresh, requested>> /\ CutOff
    BY <1>4 DEF SessionDrops, SessionCloses, paceVars
  <2>2. \A p \in Polls : polls[p].at # "idle" => polls'[p].at # "idle"
    BY <2>1 DEF CutOff, Failed
  <2> QED BY <2>1, <2>2 DEF Armed
<1>5. CASE AvailabilityBack \/ Press
  BY <1>5 DEF AvailabilityBack, Press, RequestRefresh, Armed
<1>6. CASE ReplyArrives
  <2>1. Head(inbox) \in Frame /\ "poll" \in DOMAIN Head(inbox)
    BY <1>6, <1>s, InboxShrinks DEF ReplyArrives
  <2>2. Head(inbox).poll \in Polls
    BY <2>1, FrameKinds
  <2>3. polls'[Head(inbox).poll].at = "answered"
    BY <1>6, <2>2, <1>s DEF ReplyArrives, PollsOK, Failed
  <2> QED BY <2>2, <2>3 DEF Armed
<1>7. ASSUME NEW p \in Polls, Poll(p)
      PROVE  Armed' \/ (reauth' /\ ~available')
  <2>1. CASE PollBegins(p) \/ PollSends(p) \/ PollHandled(p) \/ PollRejected(p) \/ PollTimesOut(p)
    <3>1. polls'[p].at # "idle"
      BY <2>1, <1>s DEF PollBegins, PollSends, PollHandled, PollRejected, PollTimesOut, PollsOK,
                        Failed
    <3> QED BY <3>1 DEF Armed
  <2>2. CASE PollSucceeds(p)
    BY <2>2, <1>i DEF PollSucceeds, Armed
  <2>3. CASE PollFails(p)
    BY <2>3, <1>j DEF PollFails, Armed
  <2> QED BY <1>7, <2>1, <2>2, <2>3 DEF Poll
<1>8. ASSUME NEW c \in Callers, Call(c) PROVE Armed'
  BY <1>8, <1>b DEF Call, Command, BeginTransition, CommandSends, CommandAccepted, CommandRefused,
                    CommandFails, paceVars
<1>9. CASE DoorTurns \/ SomebodyTurns \/ SomebodyMoves \/ EnrollmentStarts \/ EnrollmentEnds
  BY <1>9, <1>b DEF DoorTurns, SomebodyTurns, SomebodyMoves, EnrollmentStarts, EnrollmentEnds,
                    paceVars
<1> QED BY <1>1, <1>2, <1>3, <1>4, <1>5, <1>6, <1>7, <1>8, <1>9 DEF Next

\* Only a push, read before the socket is closed, or a new session ends the
\* rest that follows a rejection; and both set off the next refresh.
LEMMA RestIsKept ==
    ASSUME IInv, Next, ~Armed, ~HandlePush, ~AvailabilityBack
    PROVE  /\ available' => available
           /\ link' = "up" => link = "up"
           /\ reauth' = reauth
<1>1. link' = "up" => link = "up"
  BY LinkMoves DEF ReplyArrives, SessionDrops, NoticeArrives, TakenOver, AvailabilityLost,
                   SessionCloses
<1>2. \A p \in Polls : polls[p].at = "idle"
  BY DEF Armed
<1>3. CASE Tick \/ TransitionTimeout \/ ReplyArrives \/ SessionDrops \/ SessionTaken
           \/ NoticeArrives \/ AvailabilityLost \/ SessionCloses \/ Press
  BY <1>1, <1>3 DEF Tick, TransitionTimeout, ReplyArrives, SessionDrops, SessionTaken,
                    NoticeArrives, AvailabilityLost, SessionCloses, Press, shownVars
<1>4. ASSUME NEW p \in Polls, Poll(p) PROVE UNCHANGED <<available, reauth>>
  BY <1>2, <1>4 DEF Poll, PollBegins, PollSends, PollHandled, PollRejected, PollTimesOut,
                    PollSucceeds, PollFails, shownVars
<1>5. ASSUME NEW c \in Callers, Call(c) PROVE UNCHANGED <<available, reauth>>
  BY <1>5 DEF Call, Command, CommandSends, CommandAccepted, CommandRefused, CommandFails, shownVars
<1>6. CASE DoorTurns \/ SomebodyTurns \/ SomebodyMoves \/ EnrollmentStarts \/ EnrollmentEnds
  BY <1>1, <1>6 DEF DoorTurns, SomebodyTurns, SomebodyMoves, EnrollmentStarts, EnrollmentEnds,
                    shownVars
<1> QED BY <1>1, <1>3, <1>4, <1>5, <1>6 DEF Next

LEMMA BackstopStep == IInv /\ Next => BackstopArmed'
<1> SUFFICES ASSUME IInv, Next PROVE BackstopArmed'
  OBVIOUS
<1>1. CASE Armed
  BY <1>1, RearmsItself DEF BackstopArmed
<1>2. CASE HandlePush
  <2>1. refresh' # Off
    BY <1>2, IntervalAssumption DEF HandlePush, Interval, Off
  <2> QED BY <2>1 DEF BackstopArmed, Armed
<1>3. CASE AvailabilityBack
  BY <1>3 DEF AvailabilityBack, RequestRefresh, BackstopArmed, Armed
<1>4. CASE ~Armed /\ ~HandlePush /\ ~AvailabilityBack
  BY <1>4, RestIsKept DEF IInv, BackstopArmed
<1> QED BY <1>1, <1>2, <1>3, <1>4

-----------------------------------------------------------------------------
(* The results.                                                            *)

LEMMA IInvInit == Init => IInv
<1> SUFFICES ASSUME Init PROVE IInv
  OBVIOUS
<1> USE IntervalAssumption, BoundsAssumption
<1>1. \A p \in Polls : polls[p] = [at |-> "idle"]
  BY DEF Init, NoPoll
<1>2. \A c \in Callers : calls[c] = [at |-> "idle"]
  BY DEF Init, NoCall
<1>3. DoorOK /\ ShownOK
  BY DEF Init, DoorOK, ShownOK, Params, Daymodes
<1>4. InboxOK
  BY DEF Init, InboxOK
<1>5. PollsOK
  BY DEF Init, NoPoll, PollsOK, Refresh
<1>6. PaceOK
  <2>1. Default \in Off..Relaxed /\ 0 \in 0..FastFor /\ PushIdle \in 0..PushIdle
    BY DEF Off
  <2> QED BY <2>1 DEF Init, PaceOK
<1>7. CallsOK
  BY DEF Init, NoCall, CallsOK
<1>8. Longest \in Nat /\ Off \in Off..Longest
  BY DEF Longest, Off
<1>9. TransitionOK /\ TransitionIsTimed
  BY <1>8 DEF Init, TransitionOK, TransitionIsTimed, InTransition
<1>10. CountsOK
  BY DEF Init, CountsOK
<1>11. SessionOK
  BY DEF Init, SessionOK, Open
<1>12. OwnTransition
  BY <1>2 DEF OwnTransition
<1>13. BackstopArmed
  BY DEF Init, BackstopArmed, Armed, Off
<1> QED BY <1>3, <1>4, <1>5, <1>6, <1>7, <1>9, <1>10, <1>11, <1>12, <1>13 DEF IInv

LEMMA IInvStep == IInv /\ [Next]_vars => IInv'
<1>1. IInv /\ Next => IInv'
  BY DoorStep, InboxStep, PollsStep, PaceStep, ShownStep, CallsStep, TransitionStep, CountsStep,
     SessionStep, BackstopStep DEF IInv
<1>2. IInv /\ UNCHANGED vars => IInv'
  BY DEF IInv, DoorOK, InboxOK, PollsOK, PaceOK, ShownOK, CallsOK, TransitionOK, CountsOK,
         SessionOK, Open, TransitionIsTimed, InTransition, OwnTransition, BackstopArmed, Armed,
         vars, doorVars, paceVars, shownVars, transition, boundVars
<1> QED BY <1>1, <1>2

THEOREM Invariance == Spec => []IInv
BY IInvInit, IInvStep, PTL DEF Spec

\* The state is what the code's variables can be, for every timing.
THEOREM TypeCorrect == Spec => []TypeOK
BY Invariance, TypeParts, PTL

\* lock.py: "this must always expire": an optimistic state has a timer, for
\* every order of commands, updates, failures and timeouts.
THEOREM AlwaysExpires == Spec => []TransitionIsTimed
<1>1. IInv => TransitionIsTimed
  BY DEF IInv
<1> QED BY <1>1, Invariance, PTL

\* The transition that _end_transition gives up is the failing command's own,
\* however many callers there are, because of PARALLEL_UPDATES.
THEOREM GivesUpItsOwn == Spec => []OwnTransition
<1>1. IInv => OwnTransition
  BY DEF IInv
<1> QED BY <1>1, Invariance, PTL

\* coordinator.py: "polling stays as the backstop".  Whatever ends a refresh, and
\* in every session, until a refresh is rejected for authentication; and after
\* that too, as long as the last frames of that session show the door.
THEOREM PollingContinues == Spec => []BackstopArmed
<1>1. IInv => BackstopArmed
  BY DEF IInv
<1> QED BY <1>1, Invariance, PTL

\* Once the socket is closed, handle_availability(False) is final until the
\* session is back, unless an enrollment rides out the failure: no late answer
\* and no push undoes it.
THEOREM StaysUnavailable == Spec => UnreachableIsShown
<1> DEFINE A == link = "down" /\ ~available /\ available' => enrollment = "running"
<1>1. IInv /\ [Next]_vars => A
  <2> SUFFICES ASSUME IInv, [Next]_vars, link = "down", ~available, available',
                      enrollment # "running"
               PROVE  FALSE
    OBVIOUS
  <2>s. /\ inbox = <<>> /\ PollsOK
        /\ \A p \in Polls : polls[p] \notin OkAnswer
    BY DEF IInv, SessionOK, Open
  <2>1. ~UNCHANGED available
    OBVIOUS
  <2>2. ~(Tick \/ TransitionTimeout \/ ReplyArrives \/ SessionDrops \/ SessionTaken
            \/ NoticeArrives \/ SessionCloses \/ AvailabilityBack \/ Press)
    BY <2>1 DEF Tick, TransitionTimeout, ReplyArrives, SessionDrops, SessionTaken,
                NoticeArrives, SessionCloses, AvailabilityBack, Press, shownVars
  <2>3. ~HandlePush /\ ~AvailabilityLost
    BY <2>s DEF HandlePush, AvailabilityLost
  <2>4. ASSUME NEW p \in Polls PROVE ~Poll(p)
    <3>1. ~PollSucceeds(p)
      BY <2>s, AnswerKinds DEF PollSucceeds, PollsOK
    <3>2. ~PollFails(p)
      BY DEF PollFails, RidesOut
    <3> QED BY <2>1, <3>1, <3>2
            DEF Poll, PollBegins, PollSends, PollHandled, PollRejected, PollTimesOut, shownVars
  <2>5. ASSUME NEW c \in Callers PROVE ~Call(c)
    BY <2>1 DEF Call, Command, CommandSends, CommandAccepted, CommandRefused, CommandFails,
                shownVars
  <2>6. ~(DoorTurns \/ SomebodyTurns \/ SomebodyMoves \/ EnrollmentStarts \/ EnrollmentEnds)
    BY <2>1 DEF DoorTurns, SomebodyTurns, SomebodyMoves, EnrollmentStarts, EnrollmentEnds,
                shownVars
  <2>7. ~UNCHANGED vars
    BY <2>1 DEF vars, shownVars
  <2> QED BY <2>2, <2>3, <2>4, <2>5, <2>6, <2>7 DEF Next
<1> QED BY <1>1, Invariance, PTL DEF Spec, UnreachableIsShown

=============================================================================
