------------------------------ MODULE MCPayouts ------------------------------
(* Payouts for TLC: the slots are interchangeable, and so are the rows. *)
EXTENDS Payouts, TLC

SlotSymmetry == Permutations(Procs)
SlotAndRowSymmetry == Permutations(Procs) \cup Permutations(PayoutIds)

=============================================================================
