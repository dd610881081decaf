---------------------------- MODULE MCSupervision -----------------------------
(* Instances of Supervision for TLC: see the .cfg file for the values.     *)
EXTENDS Supervision, TLC

\* Copies are interchangeable.
Symmetry == Permutations(Copies)
=============================================================================
