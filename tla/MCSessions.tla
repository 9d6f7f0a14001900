----------------------------- MODULE MCSessions -----------------------------
(* Sessions on a small instance: interchangeable request slots.             *)
EXTENDS Sessions, TLC

SlotSymmetry == Permutations(Slots)
=============================================================================
