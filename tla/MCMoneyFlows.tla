---------------------------- MODULE MCMoneyFlows ----------------------------
(* MoneyFlows for TLC: one user, one row of each table. *)
EXTENDS MoneyFlows, TLC

CONSTANT u1

OneOwner == [card \in Cards |-> u1]

\* What a session collects: a config file holds no negative numbers.
AnySign == {-1, 0, 1}

SlotSymmetry == Permutations(Procs)

=============================================================================
