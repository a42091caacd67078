------------------------------ MODULE MCRunner ------------------------------
(* Instances of Runner for TLC. *)
EXTENDS Runner
CONSTANTS s1, p1
=============================================================================
