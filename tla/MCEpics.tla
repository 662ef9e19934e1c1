------------------------------ MODULE MCEpics ------------------------------
(* The children of an epic are interchangeable. *)
EXTENDS Epics, TLC

Symmetry == Permutations(Child)
=============================================================================
