---------------------------- MODULE MCSettlement ----------------------------
(* Settlement with interchangeable request slots, for TLC. *)
EXTENDS Settlement, TLC

SlotSymmetry == Permutations(Slots)

=============================================================================
