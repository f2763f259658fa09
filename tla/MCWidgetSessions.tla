-------------------------- MODULE MCWidgetSessions --------------------------
(* WidgetSessions for TLC. *)
EXTENDS WidgetSessions, TLC

SlotSymmetry == Permutations(Procs)

=============================================================================
