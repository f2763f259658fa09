---------------------------- MODULE MCBackoffice ----------------------------
(* Backoffice for TLC.  A behaviour has one topic, so sets that belong to  *)
(* different topics may be permuted together: the values of each are       *)
(* interchangeable, and a smaller group is quicker to apply.               *)
EXTENDS Backoffice, TLC

Swap(S) == CHOOSE f \in Permutations(S) : \A x \in S : f[x] # x

BackofficeSymmetry ==
    Permutations(Procs) \cup
    {Swap(Administrators) @@ Swap(Rows) @@ Swap(Conversations) @@ Swap(Recipients),
     Swap(Otps) @@ Swap(Keys) @@ Swap(Messages) @@ Swap(Notes)}

=============================================================================
