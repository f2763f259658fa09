--------------------------- MODULE CreditRequests ---------------------------
(***************************************************************************)
(* Requests to be credited for TikTok earnings: createCreditRequest of     *)
(* CreditRequestsService, which users call with a proof of the earnings,   *)
(* and approveCreditRequest and rejectCreditRequest of AdminsService.  An  *)
(* approval either adds to the user's earnings ("balance") or records that *)
(* the money went straight to the user's bank account ("direct").          *)
(***************************************************************************)
EXTENDS Accounts

CONSTANTS
    CreditIds,          \* rows the credit_requests table may come to have
    NoCredit            \* a handler that works on no credit request

ASSUME CreditRequestsAssumption == NoCredit \notin CreditIds

VARIABLES
    creditStatus,       \* credit_requests.status, or "none": no such row
    creditOwner,        \* credit_requests.user_id
    creditRows,         \* CREDIT transactions with this request as reference
    creditTarget,       \* creditTarget[p]: the request a handler works on
    creditAmount        \* creditAmount[p]: what an approval will credit

creditTable == <<creditStatus, creditOwner, creditRows>>
creditState == <<creditTable, creditTarget, creditAmount>>
creditVars == <<pc, accountVars, creditState>>

CreditStatuses == {"none", "pending", "approved", "rejected"}

CreditsInit ==
    /\ creditStatus = [cr \in CreditIds |-> "none"]
    /\ creditOwner = [cr \in CreditIds |-> NoUser]
    /\ creditRows = [cr \in CreditIds |-> 0]
    /\ creditTarget = [p \in Procs |-> NoCredit]
    /\ creditAmount = [p \in Procs |-> 0]

-----------------------------------------------------------------------------
(* CreditRequestsService.createCreditRequest *)

\* The proof is a valid file and the user is onboarded.
CreateCreditRequest(p, u) ==
    /\ Idle(p)
    /\ u \in Onboarded
    /\ ReadUser(p, u)
    /\ Goto(p, "credit_pending")
    /\ UNCHANGED creditState

\* Mutant: the query asks for the approved requests.
PendingCreditsApproved(u) ==
    {cr \in CreditIds : creditStatus[cr] = "approved" /\ creditOwner[cr] = u}

PendingCredits(u) ==
    {cr \in CreditIds : creditStatus[cr] = "pending" /\ creditOwner[cr] = u}

\* No pending request is found; the upload of the proof to S3 follows.
CreateCreditCheckPending(p) ==
    /\ pc[p] = "credit_pending"
    /\ PendingCredits(holds[p]) = {}
    /\ Goto(p, "credit_insert")
    /\ UNCHANGED <<accountVars, creditState>>

CreateCreditInsert(p) ==
    /\ pc[p] = "credit_insert"
    /\ \E cr \in CreditIds :
          /\ creditStatus[cr] = "none"
          /\ creditStatus' = [creditStatus EXCEPT ![cr] = "pending"]
          /\ creditOwner' = [creditOwner EXCEPT ![cr] = holds[p]]
    /\ DropUser(p)
    /\ Goto(p, "idle")
    /\ UNCHANGED <<creditRows, creditTarget, creditAmount>>

-----------------------------------------------------------------------------
(* AdminsService.approveCreditRequest and rejectCreditRequest *)

\* Mutant: the status is not checked.
ReadPendingCreditAny(p, cr, amount, label) ==
    /\ Idle(p)
    /\ creditStatus[cr] # "none"
    /\ creditTarget' = [creditTarget EXCEPT ![p] = cr]
    /\ creditAmount' = [creditAmount EXCEPT ![p] = amount]
    /\ Goto(p, label)
    /\ UNCHANGED <<accountVars, creditTable>>

\* CreditRequest.findByPk finds a pending row; approve works with the amount
\* of the request or the one the administrator gives instead.
ReadPendingCredit(p, cr, amount, label) ==
    /\ Idle(p)
    /\ creditStatus[cr] = "pending"
    /\ creditTarget' = [creditTarget EXCEPT ![p] = cr]
    /\ creditAmount' = [creditAmount EXCEPT ![p] = amount]
    /\ Goto(p, label)
    /\ UNCHANGED <<accountVars, creditTable>>

ApproveCreditRequest(p, cr, amount) == ReadPendingCredit(p, cr, amount, "approve_user")
RejectCreditRequest(p, cr) == ReadPendingCredit(p, cr, 0, "reject_credit")

\* The user is read; for a direct remittance a verified primary bank account
\* was found; the administrator's proof, if any, is uploaded.
ApproveReadUser(p) ==
    /\ pc[p] = "approve_user"
    /\ ReadUser(p, creditOwner[creditTarget[p]])
    /\ \E method \in {"approve_balance", "approve_direct"} : Goto(p, method)
    /\ UNCHANGED creditState

\* Mutant: the direct remittance is added to the earnings as well.
ApproveCommitAlwaysCrediting(p) ==
    LET cr == creditTarget[p]
        u == holds[p] IN
    /\ pc[p] \in {"approve_balance", "approve_direct"}
    /\ balance' = [balance EXCEPT ![u] =
                     [@ EXCEPT !["earnings"] = seen[p]["earnings"] + creditAmount[p]]]
    /\ posted' = [posted EXCEPT ![u] =
                     [@ EXCEPT ![IF pc[p] = "approve_direct" THEN "direct" ELSE "credit"]
                         = @ + creditAmount[p]]]
    /\ holds' = [holds EXCEPT ![p] = NoUser]
    /\ seen' = [seen EXCEPT ![p] = Nothing]
    /\ stale' = [stale EXCEPT ![p] = {}]
    /\ creditStatus' = [creditStatus EXCEPT ![cr] = "approved"]
    /\ creditRows' = [creditRows EXCEPT ![cr] = @ + 1]
    /\ creditTarget' = [creditTarget EXCEPT ![p] = NoCredit]
    /\ creditAmount' = [creditAmount EXCEPT ![p] = 0]
    /\ Goto(p, "idle")
    /\ UNCHANGED <<creditOwner, rowLock, overwrote>>

\* The request, the earnings and the CREDIT row in one transaction.
ApproveCommit(p) ==
    LET cr == creditTarget[p] IN
    /\ \/ pc[p] = "approve_balance" /\ Post(p, "credit", creditAmount[p])
       \/ pc[p] = "approve_direct" /\ Post(p, "direct", creditAmount[p])
    /\ creditStatus' = [creditStatus EXCEPT ![cr] = "approved"]
    /\ creditRows' = [creditRows EXCEPT ![cr] = @ + 1]
    /\ creditTarget' = [creditTarget EXCEPT ![p] = NoCredit]
    /\ creditAmount' = [creditAmount EXCEPT ![p] = 0]
    /\ Goto(p, "idle")
    /\ UNCHANGED creditOwner

\* creditRequest.save(), outside any transaction.
RejectCreditSave(p) ==
    /\ pc[p] = "reject_credit"
    /\ creditStatus' = [creditStatus EXCEPT ![creditTarget[p]] = "rejected"]
    /\ creditTarget' = [creditTarget EXCEPT ![p] = NoCredit]
    /\ Goto(p, "idle")
    /\ UNCHANGED <<accountVars, creditOwner, creditRows, creditAmount>>

-----------------------------------------------------------------------------
CreditLabels == {"credit_pending", "credit_insert", "approve_user",
                 "approve_balance", "approve_direct", "reject_credit"}

\* The handler ends with an error: a request is pending, an upload fails, no
\* primary bank account, a query fails (with a rollback), the process dies.
CreditHandlerFails(p) ==
    /\ pc[p] \in CreditLabels
    /\ creditTarget' = [creditTarget EXCEPT ![p] = NoCredit]
    /\ creditAmount' = [creditAmount EXCEPT ![p] = 0]
    /\ DropUser(p)
    /\ Goto(p, "idle")
    /\ UNCHANGED creditTable

CreditRequest(p) ==
    \/ \E u \in Users : CreateCreditRequest(p, u)
    \/ \E cr \in CreditIds :
          \/ \E amount \in Amounts : ApproveCreditRequest(p, cr, amount)
          \/ RejectCreditRequest(p, cr)

CreditStep(p) ==
    \/ CreateCreditCheckPending(p) \/ CreateCreditInsert(p)
    \/ ApproveReadUser(p) \/ ApproveCommit(p) \/ RejectCreditSave(p)
    \/ CreditHandlerFails(p)

CreditsNext == \E p \in Procs : CreditRequest(p) \/ CreditStep(p)

\* The request a handler decides on, or the user it creates one for.
CreditWorksOn(p) ==
    ({creditTarget[p]} \ {NoCredit})
      \cup {<<"createCreditRequest", u>> : u \in {u \in Users : holds[p] = u
                                        /\ pc[p] \in {"credit_pending", "credit_insert"}}}

SharedCredits == Shared(CreditWorksOn)

CreditsStart == RequestsInit /\ AccountsInit /\ CreditsInit

CreditsSpec ==
    /\ CreditsStart
    /\ [][CreditsNext /\ raced' = raced \cup SharedCredits']_<<creditVars, raced>>

-----------------------------------------------------------------------------
(* Properties *)

DecidingLabels == {"approve_user", "approve_balance", "approve_direct", "reject_credit"}

\* Types, and the request that a deciding handler has in memory: a row
\* that exists, and the instance of its owner.
CreditsTypeOK ==
    /\ AccountsTypeOK
    /\ creditStatus \in [CreditIds -> CreditStatuses]
    /\ creditOwner \in [CreditIds -> Users \cup {NoUser}]
    /\ creditRows \in [CreditIds -> Nat]
    /\ creditTarget \in [Procs -> CreditIds \cup {NoCredit}]
    /\ creditAmount \in [Procs -> Amounts \cup {0}]
    /\ \A cr \in CreditIds : creditStatus[cr] # "none" => creditOwner[cr] \in Users
    /\ \A p \in Procs :
          /\ pc[p] \in {"credit_pending", "credit_insert"} => holds[p] \in Users
          /\ pc[p] \in DecidingLabels =>
                creditTarget[p] \in CreditIds /\ creditStatus[creditTarget[p]] # "none"
          /\ pc[p] \in {"approve_balance", "approve_direct"} =>
                holds[p] = creditOwner[creditTarget[p]]

\* A pending request has no CREDIT row and an approved one has: approval,
\* credit and row commit together, whatever fails between them.
CreditedWithApproval ==
    \A cr \in CreditIds :
        /\ creditStatus[cr] \in {"none", "pending"} => creditRows[cr] = 0
        /\ creditStatus[cr] = "approved" => creditRows[cr] > 0

\* approveCreditRequest, admins.service.ts: "Only pending requests can be
\* approved."  rejectCreditRequest: "Only pending requests can be rejected."
\* So a request on which no two handlers ever worked at once is credited
\* once, and not at all if it ends rejected.
CreditedOnceUnlessRaced ==
    \A cr \in CreditIds \ raced :
        creditRows[cr] <= IF creditStatus[cr] = "rejected" THEN 0 ELSE 1

\* A credit request is worth one credit, given with its approval.
CreditsInv == CreditsTypeOK /\ CreditedWithApproval /\ CreditedOnceUnlessRaced

\* createCreditRequest, credit-requests.service.ts: "You already have a
\* pending credit request. Please wait for it to be processed."  That holds
\* of every user for whom no two createCreditRequest handlers ran at once.
OnePendingCreditUnlessRaced ==
    \A cr, other \in CreditIds :
        creditStatus[cr] = "pending" /\ creditStatus[other] = "pending"
          /\ creditOwner[cr] = creditOwner[other]
          /\ <<"createCreditRequest", creditOwner[cr]>> \notin raced => cr = other

=============================================================================
