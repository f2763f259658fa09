------------------------------ MODULE Payments ------------------------------
(***************************************************************************)
(* PaymentsService: deposits to the wallet that customers pay at Paystack  *)
(* (initializePayment, verifyPayment, the webhook) and the transfer of     *)
(* earnings to the wallet (transferEarningsToWallet).                      *)
(*                                                                         *)
(* verifyPayment may run any number of times for a reference and in any    *)
(* number of requests at once.  It reads the payment row, asks Paystack,   *)
(* and then updates the row first and reads the user after that, inside    *)
(* the transaction: the row lock makes concurrent calls take turns, but    *)
(* none of them looks at the status again.                                 *)
(***************************************************************************)
EXTENDS Accounts

CONSTANTS
    References,     \* Paystack references that may come to exist
    NoReference     \* a handler that works on no payment

ASSUME PaymentsAssumption == NoReference \notin References

VARIABLES
    charge,         \* Paystack's side: "none", "open" or "paid"
    notice,         \* the charge.success webhook: "none" or "refused"
    payStatus,      \* payment_transactions.status, or "none": no such row
    payOwner,       \* payment_transactions.user_id
    payAmount,      \* payment_transactions.amount
    payRows,        \* DEPOSIT transactions with this payment as reference
    payLock,        \* slot whose open transaction updated the payment row
    payTarget,      \* payTarget[p]: the reference a handler works on
    paySeen,        \* paySeen[p]: status of the instance that it holds
    moving          \* moving[p]: the amount of a transferEarningsToWallet

paystackVars == <<charge, notice>>
payTable == <<payStatus, payOwner, payAmount, payRows>>
payLocals == <<payTarget, paySeen, moving>>
payState == <<paystackVars, payTable, payLock, payLocals>>
payVars == <<pc, accountVars, payState>>

PayStatuses == {"none", "pending", "success", "failed"}

PaymentsInit ==
    /\ charge = [ref \in References |-> "none"]
    /\ notice = [ref \in References |-> "none"]
    /\ payStatus = [ref \in References |-> "none"]
    /\ payOwner = [ref \in References |-> NoUser]
    /\ payAmount = [ref \in References |-> 0]
    /\ payRows = [ref \in References |-> 0]
    /\ payLock = [ref \in References |-> NoProc]
    /\ payTarget = [p \in Procs |-> NoReference]
    /\ paySeen = [p \in Procs |-> "none"]
    /\ moving = [p \in Procs |-> 0]

\* What a handler forgets when it answers; its open transaction, if any, ends.
PaymentDone(p) ==
    /\ payTarget' = [payTarget EXCEPT ![p] = NoReference]
    /\ paySeen' = [paySeen EXCEPT ![p] = "none"]
    /\ moving' = [moving EXCEPT ![p] = 0]
    /\ payLock' = [ref \in References |-> IF payLock[ref] = p THEN NoProc ELSE payLock[ref]]
    /\ Goto(p, "idle")

-----------------------------------------------------------------------------
(* initializePayment *)

\* Mutant: the reference is derived from the request and may come again.
InitializePaymentReusing(p, u, amount) ==
    /\ Idle(p)
    /\ ReadUser(p, u)
    /\ \E ref \in References :
          /\ charge[ref] # "open"
          /\ charge' = [charge EXCEPT ![ref] = "open"]
          /\ payTarget' = [payTarget EXCEPT ![p] = ref]
    /\ moving' = [moving EXCEPT ![p] = amount]
    /\ Goto(p, "pay_insert")
    /\ UNCHANGED <<notice, payTable, payLock, paySeen>>

\* Paystack opens a charge under a fresh reference.
InitializePayment(p, u, amount) ==
    /\ Idle(p)
    /\ ReadUser(p, u)
    /\ \E ref \in References :
          /\ charge[ref] = "none"
          /\ charge' = [charge EXCEPT ![ref] = "open"]
          /\ payTarget' = [payTarget EXCEPT ![p] = ref]
    /\ moving' = [moving EXCEPT ![p] = amount]
    /\ Goto(p, "pay_insert")
    /\ UNCHANGED <<notice, payTable, payLock, paySeen>>

\* The pending row is created and the customer gets the authorization URL.
InitializePaymentInsert(p) ==
    /\ pc[p] = "pay_insert"
    /\ payStatus' = [payStatus EXCEPT ![payTarget[p]] = "pending"]
    /\ payOwner' = [payOwner EXCEPT ![payTarget[p]] = holds[p]]
    /\ payAmount' = [payAmount EXCEPT ![payTarget[p]] = moving[p]]
    /\ DropUser(p)
    /\ PaymentDone(p)
    /\ UNCHANGED <<paystackVars, payRows>>

-----------------------------------------------------------------------------
(* Paystack *)

\* The customer pays; only one who has the URL, so the row exists.
CustomerPays(ref) ==
    /\ charge[ref] = "open"
    /\ payStatus[ref] # "none"
    /\ charge' = [charge EXCEPT ![ref] = "paid"]
    /\ UNCHANGED <<pc, accountVars, notice, payTable, payLock, payLocals>>

\* Paystack posts charge.success to /payments/webhook.  The controller is
\* behind JwtAuthGuard and the route is not marked @Public: a call without a
\* user's token is answered 401 and handleWebhook does not run.
PaystackWebhook(ref) ==
    /\ charge[ref] = "paid"
    /\ notice[ref] = "none"
    /\ notice' = [notice EXCEPT ![ref] = "refused"]
    /\ UNCHANGED <<pc, accountVars, charge, payTable, payLock, payLocals>>

-----------------------------------------------------------------------------
(* verifyPayment *)

\* The row is read; a payment that succeeded is returned as it is.
VerifyPayment(p, ref) ==
    /\ Idle(p)
    /\ payStatus[ref] \notin {"none", "success"}
    /\ payTarget' = [payTarget EXCEPT ![p] = ref]
    /\ paySeen' = [paySeen EXCEPT ![p] = payStatus[ref]]
    /\ Goto(p, "verify_ask")
    /\ UNCHANGED <<accountVars, paystackVars, payTable, payLock, moving>>

\* Paystack answers with the state of the charge at this moment.
VerifyAskPaystack(p) ==
    /\ pc[p] = "verify_ask"
    /\ Goto(p, IF charge[payTarget[p]] = "paid" THEN "verify_begin" ELSE "verify_failed")
    /\ UNCHANGED <<accountVars, payState>>

\* Not successful: the row is saved as failed, outside any transaction.
\* save() writes the status only if the instance had another one.
VerifySaveFailed(p) ==
    LET ref == payTarget[p] IN
    /\ pc[p] = "verify_failed"
    /\ payLock[ref] = NoProc
    /\ payStatus' = IF paySeen[p] = "failed" THEN payStatus
                    ELSE [payStatus EXCEPT ![ref] = "failed"]
    /\ PaymentDone(p)
    /\ UNCHANGED <<accountVars, paystackVars, payOwner, payAmount, payRows>>

\* Mutant: the payment row is saved without the transaction it belongs to.
VerifyBeginUnprotected(p) ==
    LET ref == payTarget[p] IN
    /\ pc[p] = "verify_begin"
    /\ payStatus' = [payStatus EXCEPT ![ref] = "success"]
    /\ ReadUser(p, payOwner[ref])
    /\ Goto(p, "verify_commit")
    /\ UNCHANGED <<paystackVars, payOwner, payAmount, payRows, payLock, payLocals>>

\* Successful: BEGIN, the row is updated (and locked), the user is read.
VerifyBegin(p) ==
    LET ref == payTarget[p] IN
    /\ pc[p] = "verify_begin"
    /\ payLock[ref] = NoProc
    /\ payLock' = [payLock EXCEPT ![ref] = p]
    /\ ReadUser(p, payOwner[ref])
    /\ Goto(p, "verify_commit")
    /\ UNCHANGED <<paystackVars, payTable, payLocals>>

\* Mutant: the deposit is the amount as Paystack counts it, in subunits.
VerifyCommitInSubunits(p) ==
    LET ref == payTarget[p] IN
    /\ pc[p] = "verify_commit"
    /\ Post(p, "deposit", 100 * payAmount[ref])
    /\ payStatus' = [payStatus EXCEPT ![ref] = "success"]
    /\ payRows' = [payRows EXCEPT ![ref] = @ + 1]
    /\ PaymentDone(p)
    /\ UNCHANGED <<paystackVars, payOwner, payAmount>>

\* The wallet is saved, the DEPOSIT row created, and all of it committed.
VerifyCommit(p) ==
    LET ref == payTarget[p] IN
    /\ pc[p] = "verify_commit"
    /\ Post(p, "deposit", payAmount[ref])
    /\ payStatus' = [payStatus EXCEPT ![ref] = "success"]
    /\ payRows' = [payRows EXCEPT ![ref] = @ + 1]
    /\ PaymentDone(p)
    /\ UNCHANGED <<paystackVars, payOwner, payAmount>>

-----------------------------------------------------------------------------
(* transferEarningsToWallet *)

\* The user exists and has the amount in earnings.
TransferEarnings(p, u, amount) ==
    /\ Idle(p)
    /\ balance[u]["earnings"] >= amount
    /\ ReadUser(p, u)
    /\ moving' = [moving EXCEPT ![p] = amount]
    /\ Goto(p, "transfer_commit")
    /\ UNCHANGED <<paystackVars, payTable, payLock, payTarget, paySeen>>

\* Both columns and the TRANSFER_EARNINGS_TO_WALLET row in one transaction.
TransferCommit(p) ==
    /\ pc[p] = "transfer_commit"
    /\ Post(p, "transfer", moving[p])
    /\ PaymentDone(p)
    /\ UNCHANGED <<paystackVars, payTable>>

-----------------------------------------------------------------------------
PaymentLabels == {"pay_insert", "verify_ask", "verify_failed", "verify_begin",
                  "verify_commit", "transfer_commit"}

\* The handler ends with an error, its transaction rolled back, where it is.
PaymentHandlerFails(p) ==
    /\ pc[p] \in PaymentLabels
    /\ DropUser(p)
    /\ PaymentDone(p)
    /\ UNCHANGED <<paystackVars, payTable>>

PaymentRequest(p) ==
    \/ \E u \in Users, amount \in Amounts :
          InitializePayment(p, u, amount) \/ TransferEarnings(p, u, amount)
    \/ \E ref \in References : VerifyPayment(p, ref)

PaymentStep(p) ==
    \/ InitializePaymentInsert(p)
    \/ VerifyAskPaystack(p) \/ VerifySaveFailed(p) \/ VerifyBegin(p) \/ VerifyCommit(p)
    \/ TransferCommit(p)
    \/ PaymentHandlerFails(p)

Paystack == \E ref \in References : CustomerPays(ref) \/ PaystackWebhook(ref)

PaymentsNext == Paystack \/ \E p \in Procs : PaymentRequest(p) \/ PaymentStep(p)

\* The payment that a handler works on.
PaymentWorksOn(p) == {payTarget[p]} \ {NoReference}

SharedPayments == Shared(PaymentWorksOn)

PaymentsStart == RequestsInit /\ AccountsInit /\ PaymentsInit

PaymentsSpec ==
    /\ PaymentsStart
    /\ [][PaymentsNext /\ raced' = raced \cup SharedPayments']_<<payVars, raced>>

-----------------------------------------------------------------------------
(* Properties *)

VerifyLabels == {"verify_ask", "verify_failed", "verify_begin", "verify_commit"}

\* Types, and what a handler has in memory: the row it verifies exists, its
\* transaction holds that row and an instance of its owner, and a transfer
\* is covered by the instance it was checked against.
PaymentsTypeOK ==
    /\ AccountsTypeOK
    /\ charge \in [References -> {"none", "open", "paid"}]
    /\ notice \in [References -> {"none", "refused"}]
    /\ payStatus \in [References -> PayStatuses]
    /\ payOwner \in [References -> Users \cup {NoUser}]
    /\ payAmount \in [References -> Amounts \cup {0}]
    /\ payRows \in [References -> Nat]
    /\ payLock \in [References -> Procs \cup {NoProc}]
    /\ payTarget \in [Procs -> References \cup {NoReference}]
    /\ paySeen \in [Procs -> PayStatuses]
    /\ moving \in [Procs -> Amounts \cup {0}]
    /\ \A ref \in References :
          payStatus[ref] # "none" => payOwner[ref] \in Users /\ payAmount[ref] \in Amounts
    /\ \A p \in Procs :
          /\ pc[p] = "pay_insert" =>
                payTarget[p] \in References /\ holds[p] \in Users /\ moving[p] \in Amounts
          /\ pc[p] \in VerifyLabels =>
                payTarget[p] \in References /\ payStatus[payTarget[p]] # "none"
          /\ pc[p] = "verify_commit" =>
                payLock[payTarget[p]] = p /\ holds[p] = payOwner[payTarget[p]]
          /\ pc[p] = "transfer_commit" =>
                holds[p] \in Users /\ moving[p] \in Amounts /\ moving[p] <= seen[p]["earnings"]

\* A wallet is credited only for a charge the customer paid, and a payment
\* recorded as a success was credited: Paystack, the payment row and the
\* DEPOSIT row agree whatever fails between the calls.
DepositsArePaid ==
    \A ref \in References :
        /\ payRows[ref] > 0 => charge[ref] = "paid"
        /\ payStatus[ref] = "success" => payRows[ref] > 0

\* verifyPayment, payments.service.ts: "If already processed, return
\* existing".  So a payment that no two handlers ever verified at once is
\* credited once, whatever Paystack answers and however often it is asked.
DepositedOnceUnlessRaced == \A ref \in References \ raced : payRows[ref] <= 1

\* A deposit is worth what the customer paid, once.
DepositsInv == PaymentsTypeOK /\ DepositsArePaid /\ DepositedOnceUnlessRaced

\* A payment that succeeded stays a success: the "failed" of a verification
\* hides a deposit only if another handler verified the payment meanwhile.
SuccessIsFinalUnlessRaced ==
    [][\A ref \in References \ raced :
          payStatus[ref] = "success" => payStatus'[ref] = "success"]_payStatus

=============================================================================
