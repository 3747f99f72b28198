------------------------------- MODULE MCSlot -------------------------------
(* A small instance of Slot for TLC. *)
EXTENDS Slot, TLC

CONSTANTS a1, a2, a3

Symmetry == Permutations(Agent)
=============================================================================
