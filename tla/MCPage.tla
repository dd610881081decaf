-------------------------------- MODULE MCPage ---------------------------------
(* Instances of Page for TLC: see the .cfg file for the values.            *)
EXTENDS Page
=============================================================================
