--------------------------- MODULE MCBankAccounts ---------------------------
(* BankAccounts for TLC. *)
EXTENDS BankAccounts, TLC

SlotAndRowSymmetry ==
    Permutations(Procs) \cup Permutations(AccountIds)
        \cup Permutations(Codes) \cup Permutations(Numbers)

=============================================================================
