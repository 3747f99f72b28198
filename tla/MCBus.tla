-------------------------------- MODULE MCBus --------------------------------
(* Small instances of Bus for TLC. *)
EXTENDS Bus, TLC

CONSTANTS a1, a2

Symmetry == Permutations(Agent)
=============================================================================
