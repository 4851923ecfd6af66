--------------------------- MODULE MCModuleCache ---------------------------
(* Instances of ModuleCache for TLC.                                       *)
EXTENDS ModuleCache, TLC

Symmetry == Permutations(Threads) \cup Permutations(Modules) \cup Permutations(Keys)
=============================================================================
