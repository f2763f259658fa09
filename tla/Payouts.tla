------------------------------- MODULE Payouts -------------------------------
(***************************************************************************)
(* Withdrawals of earnings: PayoutsService.createPayout, which users call, *)
(* and processPayout, completeManualPayout and rejectPayout of             *)
(* AdminsService, which administrators call.                               *)
(*                                                                         *)
(* Processing sends the money with the external Sudo API between two       *)
(* database steps.  Its payment reference contains Date.now(), so every    *)
(* call is a new transfer for Sudo.  Sudo may accept, refuse, or accept    *)
(* and have its answer lost (axios gives up after 30 s), which the code    *)
(* cannot tell from a refusal.                                             *)
(***************************************************************************)
EXTENDS Accounts, FiniteSets

CONSTANTS
    PayoutIds,      \* rows the payouts table may come to have
    NoPayout,       \* a handler that works on no payout
    Rates, Fees,    \* exchange rates and processing fees settings may hold
    MaxTransfers    \* bound: transfers that Sudo accepts for one payout

ASSUME PayoutsAssumption ==
    /\ NoPayout \notin PayoutIds
    /\ Rates \subseteq Nat /\ Fees \subseteq Nat
    /\ MaxTransfers \in Nat

VARIABLES
    payoutStatus,   \* payouts.status, or "none": the row does not exist yet
    payoutOwner,    \* payouts.user_id
    payoutAmount,   \* payouts.amount, in USD
    payoutNet,      \* payouts.net_amount, in NGN
    payoutRows,     \* payoutRows[pay]: PAYOUT transactions with this reference
    transfers,      \* transfers[pay]: bank transfers that Sudo carried out
    unbooked,       \* unbooked[pay]: those whose handler failed before commit
    target,         \* target[p]: the payout a handler works on
    asked           \* asked[p]: the amount a createPayout was called with

payoutTable == <<payoutStatus, payoutOwner, payoutAmount, payoutNet, payoutRows>>
sudoVars == <<transfers, unbooked>>
payoutState == <<payoutTable, sudoVars, target, asked>>
payoutVars == <<pc, accountVars, payoutState>>

\* "processing" is in the enum, but no code sets it.
Statuses == {"none", "pending", "completed", "rejected"}

PayoutsInit ==
    /\ payoutStatus = [pay \in PayoutIds |-> "none"]
    /\ payoutOwner = [pay \in PayoutIds |-> NoUser]
    /\ payoutAmount = [pay \in PayoutIds |-> 0]
    /\ payoutNet = [pay \in PayoutIds |-> 0]
    /\ payoutRows = [pay \in PayoutIds |-> 0]
    /\ transfers = [pay \in PayoutIds |-> 0]
    /\ unbooked = [pay \in PayoutIds |-> 0]
    /\ target = [p \in Procs |-> NoPayout]
    /\ asked = [p \in Procs |-> 0]

-----------------------------------------------------------------------------
(* PayoutsService.createPayout *)

HasEarnings(u, amount) == balance[u]["earnings"] >= amount

\* The user exists, is onboarded and has the amount in earnings.
CreatePayout(p, u, amount) ==
    /\ Idle(p)
    /\ u \in Onboarded
    /\ HasEarnings(u, amount)
    /\ ReadUser(p, u)
    /\ asked' = [asked EXCEPT ![p] = amount]
    /\ Goto(p, "create_pending")
    /\ UNCHANGED <<payoutTable, sudoVars, target>>

\* Mutant: the query asks for the status that no code sets.
PendingPayoutsProcessing(u) ==
    {pay \in PayoutIds : payoutStatus[pay] = "processing" /\ payoutOwner[pay] = u}

PendingPayouts(u) ==
    {pay \in PayoutIds : payoutStatus[pay] = "pending" /\ payoutOwner[pay] = u}

\* Payout.findOne({userId, status: PENDING}) finds nothing.
CreatePayoutCheckPending(p) ==
    /\ pc[p] = "create_pending"
    /\ PendingPayouts(holds[p]) = {}
    /\ Goto(p, "create_insert")
    /\ UNCHANGED <<accountVars, payoutState>>

Payable(net) == net > 0

\* A verified bank account was found and the quote leaves something to pay;
\* rate and fee come from two reads of the settings, so any pair may occur.
CreatePayoutInsert(p) ==
    /\ pc[p] = "create_insert"
    /\ \E pay \in PayoutIds, rate \in Rates, fee \in Fees :
          /\ payoutStatus[pay] = "none"
          /\ Payable(asked[p] * rate - fee)
          /\ payoutStatus' = [payoutStatus EXCEPT ![pay] = "pending"]
          /\ payoutOwner' = [payoutOwner EXCEPT ![pay] = holds[p]]
          /\ payoutAmount' = [payoutAmount EXCEPT ![pay] = asked[p]]
          /\ payoutNet' = [payoutNet EXCEPT ![pay] = asked[p] * rate - fee]
    /\ asked' = [asked EXCEPT ![p] = 0]
    /\ DropUser(p)
    /\ Goto(p, "idle")
    /\ UNCHANGED <<payoutRows, sudoVars, target>>

-----------------------------------------------------------------------------
(* AdminsService.processPayout, completeManualPayout, rejectPayout *)

\* Mutant: the status is not checked.
ReadPendingPayoutAny(p, pay, label) ==
    /\ Idle(p)
    /\ payoutStatus[pay] # "none"
    /\ target' = [target EXCEPT ![p] = pay]
    /\ Goto(p, label)
    /\ UNCHANGED <<accountVars, payoutTable, sudoVars, asked>>

\* Payout.findByPk finds a pending row; anything else is refused at once.
ReadPendingPayout(p, pay, label) ==
    /\ Idle(p)
    /\ payoutStatus[pay] = "pending"
    /\ target' = [target EXCEPT ![p] = pay]
    /\ Goto(p, label)
    /\ UNCHANGED <<accountVars, payoutTable, sudoVars, asked>>

ProcessPayout(p, pay) == ReadPendingPayout(p, pay, "process_user")
CompleteManualPayout(p, pay) == ReadPendingPayout(p, pay, "manual_user")
RejectPayout(p, pay) == ReadPendingPayout(p, pay, "reject_save")

\* User.findByPk(payout.userId) and the check of the earnings it returned.
ReadPayer(p, from, to) ==
    LET u == payoutOwner[target[p]] IN
    /\ pc[p] = from
    /\ HasEarnings(u, payoutAmount[target[p]])
    /\ ReadUser(p, u)
    /\ Goto(p, to)
    /\ UNCHANGED payoutState

ProcessPayoutReadUser(p) == ReadPayer(p, "process_user", "process_transfer")
ManualPayoutReadUser(p) == ReadPayer(p, "manual_user", "manual_commit")

\* sudoApiService.fundTransfer returns: the bank transfer was carried out.
SudoAccepts(p) ==
    /\ pc[p] = "process_transfer"
    /\ transfers[target[p]] < MaxTransfers
    /\ transfers' = [transfers EXCEPT ![target[p]] = @ + 1]
    /\ Goto(p, "process_commit")
    /\ UNCHANGED <<accountVars, payoutTable, unbooked, target, asked>>

\* The transfer was carried out, but fundTransfer throws (timeout, lost
\* connection): the administrator is told SUDO_TRANSFER_FAILED.
SudoAnswerLost(p) ==
    /\ pc[p] = "process_transfer"
    /\ transfers[target[p]] < MaxTransfers
    /\ transfers' = [transfers EXCEPT ![target[p]] = @ + 1]
    /\ unbooked' = [unbooked EXCEPT ![target[p]] = @ + 1]
    /\ target' = [target EXCEPT ![p] = NoPayout]
    /\ DropUser(p)
    /\ Goto(p, "idle")
    /\ UNCHANGED <<payoutTable, asked>>

\* Mutant: the amount in NGN is taken from the earnings, which are in USD.
ApplyPayoutCompletionInNgn(p) ==
    LET pay == target[p] IN
    /\ pc[p] \in {"process_commit", "manual_commit"}
    /\ Post(p, "payout", payoutNet[pay])
    /\ payoutStatus' = [payoutStatus EXCEPT ![pay] = "completed"]
    /\ payoutRows' = [payoutRows EXCEPT ![pay] = @ + 1]
    /\ target' = [target EXCEPT ![p] = NoPayout]
    /\ Goto(p, "idle")
    /\ UNCHANGED <<payoutOwner, payoutAmount, payoutNet, sudoVars, asked>>

\* Mutant: a payout that is no longer pending is skipped without a word.
ApplyPayoutCompletionIfPending(p) ==
    LET pay == target[p] IN
    /\ pc[p] \in {"process_commit", "manual_commit"}
    /\ IF payoutStatus[pay] = "pending"
         THEN /\ Post(p, "payout", payoutAmount[pay])
              /\ payoutStatus' = [payoutStatus EXCEPT ![pay] = "completed"]
              /\ payoutRows' = [payoutRows EXCEPT ![pay] = @ + 1]
         ELSE DropUser(p) /\ UNCHANGED <<payoutStatus, payoutRows>>
    /\ target' = [target EXCEPT ![p] = NoPayout]
    /\ Goto(p, "idle")
    /\ UNCHANGED <<payoutOwner, payoutAmount, payoutNet, sudoVars, asked>>

\* applyPayoutCompletion: the payout, the payer's earnings and the PAYOUT row
\* in one transaction.  Neither row is read again.
ApplyPayoutCompletion(p) ==
    LET pay == target[p] IN
    /\ pc[p] \in {"process_commit", "manual_commit"}
    /\ Post(p, "payout", payoutAmount[pay])
    /\ payoutStatus' = [payoutStatus EXCEPT ![pay] = "completed"]
    /\ payoutRows' = [payoutRows EXCEPT ![pay] = @ + 1]
    /\ target' = [target EXCEPT ![p] = NoPayout]
    /\ Goto(p, "idle")
    /\ UNCHANGED <<payoutOwner, payoutAmount, payoutNet, sudoVars, asked>>

\* rejectPayout's payout.save(), outside any transaction.
RejectPayoutSave(p) ==
    /\ pc[p] = "reject_save"
    /\ payoutStatus' = [payoutStatus EXCEPT ![target[p]] = "rejected"]
    /\ target' = [target EXCEPT ![p] = NoPayout]
    /\ Goto(p, "idle")
    /\ UNCHANGED <<accountVars, payoutOwner, payoutAmount, payoutNet, payoutRows,
                   sudoVars, asked>>

-----------------------------------------------------------------------------
PayoutLabels == {"create_pending", "create_insert", "process_user",
                 "process_transfer", "process_commit", "manual_user",
                 "manual_commit", "reject_save"}

\* Where a handler that ends with an error leaves what it had.
Abandon(p) ==
    /\ unbooked' = IF pc[p] = "process_commit"
                     THEN [unbooked EXCEPT ![target[p]] = @ + 1]
                     ELSE unbooked
    /\ target' = [target EXCEPT ![p] = NoPayout]
    /\ asked' = [asked EXCEPT ![p] = 0]
    /\ DropUser(p)
    /\ Goto(p, "idle")

\* Mutant: the status is saved outside the transaction and not rolled back.
PayoutHandlerFailsLate(p) ==
    /\ pc[p] \in PayoutLabels
    /\ Abandon(p)
    /\ payoutStatus' = IF pc[p] = "process_commit"
                         THEN [payoutStatus EXCEPT ![target[p]] = "completed"]
                         ELSE payoutStatus
    /\ UNCHANGED <<payoutOwner, payoutAmount, payoutNet, payoutRows, transfers>>

\* Mutant: the error path puts the payout back to pending.
PayoutHandlerFailsReopening(p) ==
    /\ pc[p] \in PayoutLabels
    /\ Abandon(p)
    /\ payoutStatus' = IF pc[p] = "process_commit"
                         THEN [payoutStatus EXCEPT ![target[p]] = "pending"]
                         ELSE payoutStatus
    /\ UNCHANGED <<payoutOwner, payoutAmount, payoutNet, payoutRows, transfers>>

\* The handler ends with an error where it is: a pending payout exists, no
\* verified bank account, the fee exceeds the amount, too little earnings,
\* Sudo refuses, a query fails (the transaction is rolled back), or the
\* process dies.  After an accepted transfer, nothing records that it was.
PayoutHandlerFails(p) ==
    /\ pc[p] \in PayoutLabels
    /\ Abandon(p)
    /\ UNCHANGED <<payoutTable, transfers>>

\* A request of a user or an administrator arrives at slot p.
PayoutRequest(p) ==
    \/ \E u \in Users, amount \in Amounts : CreatePayout(p, u, amount)
    \/ \E pay \in PayoutIds :
          ProcessPayout(p, pay) \/ CompleteManualPayout(p, pay) \/ RejectPayout(p, pay)

\* The handler of slot p runs on to its next await.
PayoutStep(p) ==
    \/ CreatePayoutCheckPending(p) \/ CreatePayoutInsert(p)
    \/ ProcessPayoutReadUser(p) \/ ManualPayoutReadUser(p)
    \/ SudoAccepts(p) \/ SudoAnswerLost(p)
    \/ ApplyPayoutCompletion(p) \/ RejectPayoutSave(p)
    \/ PayoutHandlerFails(p)

PayoutsNext == \E p \in Procs : PayoutRequest(p) \/ PayoutStep(p)

\* The payout a handler decides on, or the user it creates one for.
PayoutWorksOn(p) ==
    ({target[p]} \ {NoPayout})
      \cup {<<"createPayout", u>> : u \in {u \in Users : holds[p] = u
                                        /\ pc[p] \in {"create_pending", "create_insert"}}}

SharedPayouts == Shared(PayoutWorksOn)

PayoutsStart == RequestsInit /\ AccountsInit /\ PayoutsInit

PayoutsSpec ==
    /\ PayoutsStart
    /\ [][PayoutsNext /\ raced' = raced \cup SharedPayouts']_<<payoutVars, raced>>

-----------------------------------------------------------------------------
(* Properties *)

\* Types, and what a handler has in memory at each await: the payout it
\* decides on, and the instance of that payout's owner once it has read it.
PayoutsTypeOK ==
    /\ AccountsTypeOK
    /\ pc \in [Procs -> PayoutLabels \cup {"idle"}]
    /\ payoutStatus \in [PayoutIds -> Statuses]
    /\ payoutOwner \in [PayoutIds -> Users \cup {NoUser}]
    /\ payoutAmount \in [PayoutIds -> Amounts \cup {0}]
    /\ payoutNet \in [PayoutIds -> Nat]
    /\ payoutRows \in [PayoutIds -> Nat]
    /\ transfers \in [PayoutIds -> 0..MaxTransfers]
    /\ unbooked \in [PayoutIds -> Nat]
    /\ target \in [Procs -> PayoutIds \cup {NoPayout}]
    /\ asked \in [Procs -> Amounts \cup Collected \cup {0}]

CommitLabels == {"process_commit", "manual_commit"}
PayerLabels == CommitLabels \cup {"process_transfer"}
DecisionLabels == PayerLabels \cup {"process_user", "manual_user", "reject_save"}

\* Every payout row has an owner and an amount that a DTO would have let
\* through, although createPayout is also called with what a session collected.
PayoutRowsOwned ==
    \A pay \in PayoutIds :
        payoutStatus[pay] # "none" =>
            payoutOwner[pay] \in Users /\ payoutAmount[pay] \in Amounts

\* Past its check of the earnings, a handler holds an instance of the owner
\* of an existing payout that covers the payout.
PayoutHandlersCovered ==
    \A p \in Procs :
        /\ pc[p] \in {"create_pending", "create_insert"} =>
              holds[p] \in Users /\ asked[p] \in Amounts \cup Collected
        /\ pc[p] \in DecisionLabels =>
              /\ target[p] \in PayoutIds
              /\ payoutStatus[target[p]] # "none"
        /\ pc[p] \in PayerLabels =>
              /\ holds[p] = payoutOwner[target[p]]
              /\ payoutAmount[target[p]] <= seen[p]["earnings"]

\* A payout that was decided is never pending again, and one that exists
\* never disappears: no late or repeated handler can reopen it.
NeverReopened ==
    [][\A pay \in PayoutIds :
          payoutStatus[pay] # "none" /\ payoutStatus'[pay] # payoutStatus[pay]
            => payoutStatus'[pay] \in {"completed", "rejected"}]_payoutStatus

\* A pending payout has not been charged, and a completed one has: the
\* status, the debit and the PAYOUT row of applyPayoutCompletion commit
\* together or not at all, whatever fails between them.
ChargedWithDecision ==
    \A pay \in PayoutIds :
        /\ payoutStatus[pay] \in {"none", "pending"} => payoutRows[pay] = 0
        /\ payoutStatus[pay] = "completed" => payoutRows[pay] > 0

\* The inductive invariant of this component.
PayoutsInv ==
    /\ AccountsInv
    /\ PayoutsTypeOK
    /\ PayoutRowsOwned
    /\ PayoutHandlersCovered
    /\ ChargedWithDecision

\* Money that Sudo sent is charged to the user by a PAYOUT row, is about to
\* be, or was lost sight of when a handler failed after the transfer.
TransfersAccountedFor ==
    \A pay \in PayoutIds :
        LET inFlight == {p \in Procs : pc[p] = "process_commit" /\ target[p] = pay}
        IN  transfers[pay] <= payoutRows[pay] + unbooked[pay] + Cardinality(inFlight)

\* createPayout, payouts.service.ts: "You already have a pending payout
\* request. Please wait for it to be processed."  That holds of every user
\* for whom no two createPayout handlers ever ran at once.
OnePendingUnlessRaced ==
    \A pay, other \in PayoutIds :
        payoutStatus[pay] = "pending" /\ payoutStatus[other] = "pending"
          /\ payoutOwner[pay] = payoutOwner[other]
          /\ <<"createPayout", payoutOwner[pay]>> \notin raced => pay = other

\* rejectPayout, admins.service.ts: "Only pending payouts can be rejected."
\* So a payout on which no two handlers ever worked at once is charged once,
\* and not at all if it ends rejected.
ChargedOnceUnlessRaced ==
    \A pay \in PayoutIds \ raced :
        payoutRows[pay] <= IF payoutStatus[pay] = "rejected" THEN 0 ELSE 1

\* processPayout, admins.service.ts: "Only pending payouts can be processed."
\* So the bank transfer of a payout whose handlers all ended well is made once.
SentOnce == \A pay \in PayoutIds : transfers[pay] <= 1 + unbooked[pay]

\* The same of the payouts on which no two handlers ever worked at once.
SentOnceUnlessRaced ==
    \A pay \in PayoutIds \ raced : transfers[pay] <= 1 + unbooked[pay]

\* A payout is paid once: what Sudo sends and what the user is charged for
\* agree with the one decision that was taken, for the payouts on which no
\* two handlers ever worked at once.
PaidOnceUnlessRaced == ChargedOnceUnlessRaced /\ SentOnceUnlessRaced

\* One request at a time, the handlers implement the payout book.
Book == INSTANCE PayoutBook WITH
            Payouts <- PayoutIds,
            phase <- payoutStatus, owner <- payoutOwner, amount <- payoutAmount,
            earnings <- [u \in Users |-> balance[u]["earnings"]]

PayoutBookSpec == Book!Spec

=============================================================================
