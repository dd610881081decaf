-------------------------------- MODULE MCUser ---------------------------------
(* Instances of UserService for TLC: see the .cfg file for the values.     *)
EXTENDS UserService, TLC

\* Threads are interchangeable.
Symmetry == Permutations(Workers)
=============================================================================
