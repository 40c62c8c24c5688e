----------------------------- MODULE MCDoorLock -----------------------------
(* Instances of DoorLock for TLC. *)
EXTENDS DoorLock, TLC

\* Refreshes are interchangeable, and so are service calls.
Symmetry == Permutations(Polls) \cup Permutations(Callers)
=============================================================================
