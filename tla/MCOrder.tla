------------------------------- MODULE MCOrder --------------------------------
(* Instances of OrderService for TLC: see the .cfg files for the values.   *)
EXTENDS OrderService, TLC

\* Threads are interchangeable when all of them may create.
Symmetry == Permutations(Workers)
=============================================================================
