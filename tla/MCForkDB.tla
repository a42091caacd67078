------------------------------ MODULE MCForkDB ------------------------------
(* Instances of ForkDB for TLC. *)
EXTENDS ForkDB, TLC
CONSTANTS f1, g1, g2, weth, dance, slot, num
MCInitialNone == {}
FactorySymmetry == Permutations(Factories)
=============================================================================
