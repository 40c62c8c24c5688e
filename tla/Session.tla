------------------------------ MODULE Session -------------------------------
(***************************************************************************)
(* What the session client of api.py promises the integration, without     *)
(* sockets and tasks: notices of availability that alternate and are       *)
(* never wrong about a loss, an answer for everyone who asks, and silence  *)
(* after a stop.  SiegeniaClient implements it.                            *)
(***************************************************************************)
CONSTANT Callers

VARIABLES
    notice,   \* the last value given to on_availability
    dead,     \* the announced session is over and this is not announced yet
    halt,     \* async_stop: not called, running, returned
    asking    \* callers that wait for the outcome of a command

vars == <<notice, dead, halt, asking>>

TypeOK ==
    /\ notice \in {"nothing", "up", "down"}
    /\ dead \in BOOLEAN
    /\ halt \in {"no", "running", "done"}
    /\ asking \in SUBSET Callers

Init ==
    /\ notice = "nothing"
    /\ dead = FALSE
    /\ halt = "no"
    /\ asking = {}

\* A session is announced.  It may be lost in the moment it is won: the
\* answer to the login and a takeover can arrive together.
Up ==
    /\ halt = "no"
    /\ notice # "up"
    /\ notice' = "up"
    /\ dead' \in BOOLEAN
    /\ UNCHANGED <<halt, asking>>

Die ==
    /\ halt = "no"
    /\ notice = "up" /\ ~dead
    /\ dead' = TRUE
    /\ UNCHANGED <<notice, halt, asking>>

\* Only a session that is over is announced as lost.
Down ==
    /\ halt = "no"
    /\ notice = "up" /\ dead
    /\ notice' = "down"
    /\ dead' = FALSE
    /\ UNCHANGED <<halt, asking>>

Ask(c) ==
    /\ halt # "done"
    /\ c \notin asking
    /\ asking' = asking \cup {c}
    /\ UNCHANGED <<notice, dead, halt>>

Answer(c) ==
    /\ c \in asking
    /\ asking' = asking \ {c}
    /\ UNCHANGED <<notice, dead, halt>>

Halt ==
    /\ halt = "no"
    /\ halt' = "running"
    /\ dead' = FALSE
    /\ UNCHANGED <<notice, asking>>

Halted ==
    /\ halt = "running"
    /\ halt' = "done"
    /\ UNCHANGED <<notice, dead, asking>>

Next ==
    \/ Up \/ Die \/ Down \/ Halt \/ Halted
    \/ \E c \in Callers : Ask(c) \/ Answer(c)

Safety == Init /\ [][Next]_vars

Fairness ==
    /\ WF_vars(Down)
    /\ WF_vars(notice = "down" /\ Up)
    /\ WF_vars(Halted)
    /\ \A c \in Callers : WF_vars(Answer(c))

Spec == Safety /\ Fairness
=============================================================================
