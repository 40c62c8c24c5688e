------------------------------- MODULE Queues -------------------------------
(***************************************************************************)
(* The queue of an asyncio.Lock: its holder, or who is next, and those who *)
(* wait for it in order.  A task is in it at most once.                    *)
(***************************************************************************)
EXTENDS Naturals, Sequences

Members(q) == {q[i] : i \in 1..Len(q)}
Distinct(q) == \A i, j \in 1..Len(q) : q[i] = q[j] => i = j
Before(q, t, u) == \E i, j \in 1..Len(q) : i < j /\ q[i] = t /\ q[j] = u

\* The queue without one of its members: `async with` on its way out, for
\* the holder, or asyncio.Lock dropping a cancelled waiter.
Without(q, t) ==
    LET place == CHOOSE i \in 1..Len(q) : q[i] = t
    IN  [i \in 1..(Len(q) - 1) |-> IF i < place THEN q[i] ELSE q[i + 1]]
=============================================================================
