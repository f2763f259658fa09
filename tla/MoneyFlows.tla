----------------------------- MODULE MoneyFlows -----------------------------
(***************************************************************************)
(* Everything that moves money, on the same user rows: payouts, widget     *)
(* sessions, credit requests, deposits and transfers, card funding.  The   *)
(* components share the tables of Accounts and the request slots, and      *)
(* nothing else; a slot runs one handler at a time, with the payout        *)
(* handler that a widget handler calls.                                    *)
(***************************************************************************)
EXTENDS WidgetSessions, CreditRequests, Payments, CardFunding

moneyVars == <<pc, accountVars, payoutState, widgetState, creditState, payState, fundState>>

MoneyInit ==
    /\ RequestsInit /\ AccountsInit
    /\ PayoutsInit /\ WidgetInit /\ CreditsInit /\ PaymentsInit /\ FundingInit

PayoutWork(p) ==
    /\ WidgetRequest(p) \/ WidgetStep(p) \/ DirectPayout(p)
    /\ UNCHANGED <<creditState, payState, fundState>>

CreditWork(p) ==
    /\ (Free(p) /\ CreditRequest(p)) \/ CreditStep(p)
    /\ UNCHANGED <<payoutState, widgetState, payState, fundState>>

PaymentWork(p) ==
    /\ (Free(p) /\ PaymentRequest(p)) \/ PaymentStep(p)
    /\ UNCHANGED <<payoutState, widgetState, creditState, fundState>>

FundingWork(p) ==
    /\ (Free(p) /\ FundRequest(p)) \/ FundStep(p)
    /\ UNCHANGED <<payoutState, widgetState, creditState, payState>>

Outside ==
    \/ /\ \E s \in Sessions : HourPasses(s)
       /\ UNCHANGED <<creditState, payState, fundState>>
    \/ Paystack /\ UNCHANGED <<payoutState, widgetState, creditState, fundState>>
    \/ /\ \E card \in Cards : Purchase(card)
       /\ UNCHANGED <<payoutState, widgetState, creditState, payState>>

MoneyNext ==
    \/ \E p \in Procs : PayoutWork(p) \/ CreditWork(p) \/ PaymentWork(p) \/ FundingWork(p)
    \/ Outside

MoneyWorksOn(p) == WidgetWorksOn(p) \cup CreditWorksOn(p) \cup PaymentWorksOn(p)

SharedRows == Shared(MoneyWorksOn)

MoneySpec ==
    /\ MoneyInit
    /\ [][MoneyNext /\ raced' = raced \cup SharedRows']_<<moneyVars, raced>>

-----------------------------------------------------------------------------
(* Fairness: as in CardFunding, a handler is resumed unless it waits for a *)
(* row lock, and Postgres grants row locks in the order of the requests.   *)

\* The steps that wait for the lock of a user row or of a payment row.
WaitsForRow(p) ==
    \/ at[p] = "commit"
    \/ pc[p] \in CommitLabels \cup {"approve_balance", "transfer_commit", "fund_begin",
                                    "verify_failed", "verify_begin", "verify_commit"}

Resumed(p) ==
    \/ (WidgetStep(p) \/ DirectPayoutStep(p)) /\ UNCHANGED <<creditState, payState, fundState>>
    \/ CreditStep(p) /\ UNCHANGED <<payoutState, widgetState, payState, fundState>>
    \/ PaymentStep(p) /\ UNCHANGED <<payoutState, widgetState, creditState, fundState>>
    \/ FundStep(p) /\ UNCHANGED <<payoutState, widgetState, creditState, payState>>

RowGranted(p) ==
    \/ DepositCommit(p) /\ UNCHANGED <<creditState, payState, fundState>>
    \/ ApplyPayoutCompletion(p) /\ UNCHANGED <<widgetState, creditState, payState, fundState>>
    \/ ApproveCommit(p) /\ UNCHANGED <<payoutState, widgetState, payState, fundState>>
    \/ /\ VerifySaveFailed(p) \/ VerifyBegin(p) \/ VerifyCommit(p)
       /\ UNCHANGED <<payoutState, widgetState, creditState, fundState>>
    \/ TransferCommit(p) /\ UNCHANGED <<payoutState, widgetState, creditState, fundState>>
    \/ FundBegin(p) /\ UNCHANGED <<payoutState, widgetState, creditState, payState>>

MoneyFairSpec ==
    /\ MoneySpec
    /\ \A p \in Procs : /\ WF_moneyVars(~WaitsForRow(p) /\ Resumed(p))
                        /\ SF_moneyVars(RowGranted(p))

-----------------------------------------------------------------------------
(* Properties *)

\* One request at a time, the columns hold what the rows say, whatever sign a
\* deposit has, and none is negative that no negative deposit made so.
BooksAddUp == Reconciled /\ NoNegativeBalance

\* Every request is answered, although fundCardFromWallet keeps the user row
\* locked while it talks to Sudo: a deposit holds its payment row and waits
\* for the user row, and no handler waits the other way round.
EveryRequestAnswered == \A p \in Procs : ~Free(p) ~> Free(p)

=============================================================================
