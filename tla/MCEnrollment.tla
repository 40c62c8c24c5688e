---------------------------- MODULE MCEnrollment ----------------------------
(* Instances of Enrollment for TLC. *)
EXTENDS Enrollment, TLC

\* Two dialogs are interchangeable.
Symmetry == Permutations(Dialogs)
=============================================================================
