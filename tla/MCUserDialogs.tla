---------------------------- MODULE MCUserDialogs ----------------------------
(* Instances of UserDialogs for TLC. *)
EXTENDS UserDialogs, TLC

\* Dialogs are interchangeable.
Symmetry == Permutations(Dialogs)
=============================================================================
