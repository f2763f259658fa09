---------------------------- MODULE MCOnboarding ----------------------------
(* Auth and Onboarding for TLC. *)
EXTENDS Onboarding, TLC

PeopleSymmetry ==
    Permutations(Procs) \cup Permutations(Users) \cup Permutations(Emails)
      \cup Permutations(OpenIds) \cup Permutations(Codes) \cup Permutations(Requests)

=============================================================================
