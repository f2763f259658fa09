---------------------------- MODULE MCVirtualCards ----------------------------
(* VirtualCards for TLC. *)
EXTENDS VirtualCards, TLC

SlotAndSudoSymmetry ==
    Permutations(Procs) \cup Permutations(Customers) \cup Permutations(Cards)

=============================================================================
