------------------------------- MODULE MCProduct -------------------------------
(* Instances of ProductService for TLC: see the .cfg file for the values.  *)
EXTENDS ProductService, TLC

\* A quantity may be negative, and one outside -1..1 may make a total overflow.
Units == {-2, 1}

\* Threads are interchangeable.
Symmetry == Permutations(Workers)
=============================================================================
