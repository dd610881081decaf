------------------------------ MODULE MCChatOps ------------------------------
(* Instances of ChatOps for TLC: see the .cfg files for the values.        *)
EXTENDS ChatOpsClaims

\* Connections are interchangeable: sound for the safety runs.
Symmetry == Permutations(Conns)
=============================================================================
