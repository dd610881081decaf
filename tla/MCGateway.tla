------------------------------ MODULE MCGateway ------------------------------
(* Instances of Gateway for TLC: see the .cfg files for the values.        *)
EXTENDS GatewayClaims, TLC

\* Copies and threads are interchangeable: sound for the safety runs.
Symmetry == Permutations(Copies) \cup Permutations(Workers)
=============================================================================
