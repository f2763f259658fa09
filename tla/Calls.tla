------------------------------- MODULE Calls -------------------------------
(***************************************************************************)
(* Requests that are counted.  The components that mail codes, open        *)
(* conversations or make rows on every request have no bound of their own, *)
(* so a behaviour is cut after MaxCalls requests.  Every handler is        *)
(* short: what goes wrong needs a few requests that overlap, not many.     *)
(***************************************************************************)
EXTENDS Requests, Naturals

CONSTANT MaxCalls       \* bound: requests in one behaviour

ASSUME CallsAssumption == MaxCalls \in Nat

VARIABLE calls          \* requests so far

CallsStart == RequestsInit /\ calls = 0

\* One more request arrives.
Arrives == calls < MaxCalls /\ calls' = calls + 1

=============================================================================
