----------------------------- MODULE PayoutBook -----------------------------
(***************************************************************************)
(* What withdrawals promise, without handlers, awaits or an external API:  *)
(* a user has at most one open payout, it is decided once, completing it   *)
(* takes its amount from the owner's earnings, and rejecting it takes      *)
(* nothing.  Other services add to the earnings and take from them, but    *)
(* never in the same step as a payout.                                     *)
(***************************************************************************)
EXTENDS Integers

CONSTANTS Users, NoUser, Payouts, Amounts, OpeningEarnings

VARIABLES phase, owner, amount, earnings

bookVars == <<phase, owner, amount, earnings>>

Init ==
    /\ phase = [pay \in Payouts |-> "none"]
    /\ owner = [pay \in Payouts |-> NoUser]
    /\ amount = [pay \in Payouts |-> 0]
    /\ earnings \in [Users -> OpeningEarnings]

Open(u) == {pay \in Payouts : phase[pay] = "pending" /\ owner[pay] = u}

Ask(pay, u, a) ==
    /\ phase[pay] = "none"
    /\ Open(u) = {}
    /\ a <= earnings[u]
    /\ phase' = [phase EXCEPT ![pay] = "pending"]
    /\ owner' = [owner EXCEPT ![pay] = u]
    /\ amount' = [amount EXCEPT ![pay] = a]
    /\ UNCHANGED earnings

Complete(pay) ==
    /\ phase[pay] = "pending"
    /\ amount[pay] <= earnings[owner[pay]]
    /\ phase' = [phase EXCEPT ![pay] = "completed"]
    /\ earnings' = [earnings EXCEPT ![owner[pay]] = @ - amount[pay]]
    /\ UNCHANGED <<owner, amount>>

Reject(pay) ==
    /\ phase[pay] = "pending"
    /\ phase' = [phase EXCEPT ![pay] = "rejected"]
    /\ UNCHANGED <<owner, amount, earnings>>

\* Credits, transfers and widget deposits.
Elsewhere ==
    /\ earnings' \in [Users -> Int]
    /\ UNCHANGED <<phase, owner, amount>>

Next ==
    \/ Elsewhere
    \/ \E pay \in Payouts :
          \/ \E u \in Users, a \in Amounts : Ask(pay, u, a)
          \/ Complete(pay)
          \/ Reject(pay)

Spec == Init /\ [][Next]_bookVars

=============================================================================
