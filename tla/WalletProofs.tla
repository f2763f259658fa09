----------------------------- MODULE WalletProofs -----------------------------
(***************************************************************************)
(* Proofs about the handlers that put money into the accounts of a user    *)
(* and move it on to the wallet and the cards: credit requests, payments,  *)
(* card funding.  For each of the three, its inductive invariant, the      *)
(* steps of its handlers, and the theorems.                                *)
(*                                                                         *)
(* Each component is a specification of its own, and a part of MoneyFlows. *)
(* So the invariant of a component says nothing of slots that run other    *)
(* handlers, and its lemmas ask of the history variable only that it keeps *)
(* what it has and gains what the component shares; the lemmas named       *)
(* ...Elsewhere say what the steps of one component leave to the others.   *)
(***************************************************************************)
EXTENDS CreditRequests, Payments, CardFunding, AccountsProofs, FiniteSetTheorems

-----------------------------------------------------------------------------
(* Credit requests: their handlers do to the money tables what the abstract*)
(* specification allows, and a request that no two handlers worked on at   *)
(* once is credited once, or rejected and not credited: a handler that     *)
(* decides on such a request still finds it pending when it saves.         *)

CreditCreatingLabels == {"credit_pending", "credit_insert"}

\* What createCreditRequest for user u is noted under in raced.
CreditCreatingFor(u) == <<"createCreditRequest", u>>

\* What the handler of a slot knows where it is suspended.  The last two parts
\* are what a check of the status, or of pending requests, is still worth when
\* nobody else worked on the same.
CreditHandlerSound(p) ==
    /\ pc[p] \in CreditCreatingLabels => holds[p] \in Users
    /\ pc[p] \notin DecidingLabels => creditTarget[p] = NoCredit
    /\ pc[p] \in DecidingLabels =>
          creditTarget[p] \in CreditIds /\ creditStatus[creditTarget[p]] # "none"
    /\ pc[p] \in {"approve_user", "approve_balance", "approve_direct"} =>
          creditAmount[p] \in Amounts
    /\ pc[p] \in {"approve_balance", "approve_direct"} =>
          holds[p] = creditOwner[creditTarget[p]]
    /\ creditTarget[p] \in CreditIds \ raced => creditStatus[creditTarget[p]] = "pending"
    /\ pc[p] = "credit_insert" /\ CreditCreatingFor(holds[p]) \notin raced =>
          PendingCredits(holds[p]) = {}

CreditTablesOK ==
    /\ creditStatus \in [CreditIds -> CreditStatuses]
    /\ creditOwner \in [CreditIds -> Users \cup {NoUser}]
    /\ creditRows \in [CreditIds -> Nat]
    /\ \A cr \in CreditIds : creditStatus[cr] # "none" => creditOwner[cr] \in Users

CreditMemoryOK ==
    /\ SlotsOK
    /\ creditTarget \in [Procs -> CreditIds \cup {NoCredit}]
    /\ creditAmount \in [Procs -> Amounts \cup {0}]

\* The inductive invariant.
CreditsSound ==
    /\ AccountsInv /\ CreditTablesOK /\ CreditMemoryOK
    /\ CreditedWithApproval /\ CreditedOnceUnlessRaced /\ OnePendingCreditUnlessRaced
    /\ SharedCredits \subseteq raced
    /\ \A p \in Procs : CreditHandlerSound(p)

\* The inductive invariant is as strong as the properties.
LEMMA CreditsSoundInv == CreditsSound => CreditsInv /\ OnePendingCreditUnlessRaced
  BY DEF CreditsSound, CreditsInv, CreditsTypeOK, AccountsInv, CreditTablesOK,
         CreditMemoryOK, CreditHandlerSound, CreditCreatingLabels

\* No request exists at first, and no handler.
LEMMA CreditsStartSound == CreditsStart => CreditsSound
  <1> SUFFICES ASSUME RequestsInit, AccountsInit, CreditsInit
               PROVE  CreditsSound
    BY DEF CreditsStart
  <1> USE DEF RequestsInit, CreditsInit
  <1>1. AccountsInv
    BY AccountsInitInv
  <1>2. CreditTablesOK /\ CreditMemoryOK
    BY DEF CreditTablesOK, CreditMemoryOK, CreditStatuses, SlotsOK
  <1>3. CreditedWithApproval /\ CreditedOnceUnlessRaced /\ OnePendingCreditUnlessRaced
    BY DEF CreditedWithApproval, CreditedOnceUnlessRaced, OnePendingCreditUnlessRaced
  <1>4. \A p \in Procs : CreditHandlerSound(p)
    BY CreditRequestsAssumption
       DEF CreditHandlerSound, CreditCreatingLabels, DecidingLabels
  <1>5. \A p \in Procs : CreditWorksOn(p) = {}
    BY AccountsAssumption DEF AccountsInit, CreditWorksOn
  <1>6. SharedCredits \subseteq raced
    BY <1>5 DEF SharedCredits, Shared
  <1> QED
    BY <1>1, <1>2, <1>3, <1>4, <1>6 DEF CreditsSound

-----------------------------------------------------------------------------
(* What the handlers do to the money tables *)

\* An approval posts one row and takes nothing from anybody.
LEMMA CreditWorkAccounts ==
    ASSUME CreditsSound, NEW p \in Procs, CreditRequest(p) \/ CreditStep(p)
    PROVE  AccountsNext \/ UNCHANGED accountVars
  <1>1. CASE CreditRequest(p)
    BY <1>1 DEF CreditRequest, CreateCreditRequest, ApproveCreditRequest,
                RejectCreditRequest, ReadPendingCredit, AccountsNext
  <1>2. CASE CreditStep(p)
    <2>1. CASE CreateCreditCheckPending(p) \/ RejectCreditSave(p)
      BY <2>1 DEF CreateCreditCheckPending, RejectCreditSave
    <2>2. CASE CreateCreditInsert(p) \/ CreditHandlerFails(p)
      BY <2>2 DEF CreateCreditInsert, CreditHandlerFails, AccountsNext
    <2>3. CASE ApproveReadUser(p)
      <3>1. creditOwner[creditTarget[p]] \in Users
        BY <2>3 DEF CreditsSound, CreditHandlerSound, CreditTablesOK, ApproveReadUser,
                    DecidingLabels
      <3> QED
        BY <2>3, <3>1 DEF ApproveReadUser, AccountsNext
    <2>4. CASE ApproveCommit(p)
      <3>1. holds[p] \in Users /\ creditAmount[p] \in Amounts
        BY <2>4 DEF CreditsSound, CreditHandlerSound, CreditTablesOK, ApproveCommit,
                    DecidingLabels
      <3>2. PICK kind \in {"credit", "direct"} : Post(p, kind, creditAmount[p])
        BY <2>4 DEF ApproveCommit
      <3>3. Covered(p, kind, creditAmount[p])
        BY DEF Covered, Writes, Adds, Takes, Columns
      <3> QED
        BY <3>1, <3>2, <3>3 DEF PostCovered, Kinds, AccountsNext
    <2> QED
      BY <1>2, <2>1, <2>2, <2>3, <2>4 DEF CreditStep
  <1> QED
    BY <1>1, <1>2

-----------------------------------------------------------------------------
(* A step as the other handlers see it *)

\* Two handlers at work on the same are noted.
LEMMA TwoCreditsShared ==
    ASSUME CreditsSound, NEW p \in Procs, NEW q \in Procs, p # q
    PROVE  /\ creditTarget[p] = creditTarget[q] /\ creditTarget[p] # NoCredit
                => creditTarget[p] \in raced
           /\ pc[p] \in CreditCreatingLabels /\ pc[q] \in CreditCreatingLabels /\ holds[p] = holds[q]
                => CreditCreatingFor(holds[p]) \in raced
  <1>1. \A x : x \in CreditWorksOn(p) /\ x \in CreditWorksOn(q) => x \in SharedCredits
    BY DEF SharedCredits, Shared
  <1>2. SharedCredits \subseteq raced
    BY DEF CreditsSound
  <1>3. pc[p] \in CreditCreatingLabels => holds[p] \in Users
    BY DEF CreditsSound, CreditHandlerSound
  <1> QED
    BY <1>1, <1>2, <1>3 DEF CreditWorksOn, CreditCreatingFor, CreditCreatingLabels

\* Rows change their status when the handler that holds them decides, or when
\* they are inserted by the handler of their owner.
CreditMovesBy(p) ==
    \A cr \in CreditIds :
        \/ creditStatus'[cr] = creditStatus[cr] /\ creditOwner'[cr] = creditOwner[cr]
        \/ /\ cr = creditTarget[p]
           /\ creditStatus'[cr] \in {"approved", "rejected"}
           /\ creditOwner'[cr] = creditOwner[cr]
        \/ /\ pc[p] = "credit_insert"
           /\ creditStatus[cr] = "none" /\ creditStatus'[cr] = "pending"
           /\ creditOwner'[cr] = holds[p]

\* What the other handlers know stays true.
LEMMA OtherCreditsSound ==
    ASSUME CreditsSound, NEW p \in Procs, CreditMovesBy(p), raced \subseteq raced',
           NEW q \in Procs, q # p,
           pc'[q] = pc[q], holds'[q] = holds[q],
           creditTarget'[q] = creditTarget[q], creditAmount'[q] = creditAmount[q]
    PROVE  CreditHandlerSound(q)'
  <1>1. CreditHandlerSound(q) /\ CreditTablesOK /\ CreditHandlerSound(p)
    BY DEF CreditsSound
  <1>2. ASSUME creditTarget[q] \in CreditIds \ raced
        PROVE  creditStatus'[creditTarget[q]] = "pending"
    <2>1. creditTarget[q] # creditTarget[p]
      BY <1>2, TwoCreditsShared, CreditRequestsAssumption
    <2>2. creditStatus[creditTarget[q]] = "pending"
      BY <1>1, <1>2 DEF CreditHandlerSound
    <2> QED
      BY <1>2, <2>1, <2>2 DEF CreditMovesBy
  <1>3. ASSUME pc[q] = "credit_insert", CreditCreatingFor(holds[q]) \notin raced
        PROVE  PendingCredits(holds[q])' = {}
    <2>1. PendingCredits(holds[q]) = {}
      BY <1>1, <1>3 DEF CreditHandlerSound
    <2>2. pc[p] = "credit_insert" => holds[p] # holds[q]
      BY <1>3, TwoCreditsShared DEF CreditCreatingLabels
    <2> QED
      BY <2>1, <2>2 DEF PendingCredits, CreditMovesBy
  <1>4. creditTarget[q] \in CreditIds /\ creditStatus[creditTarget[q]] # "none" =>
           /\ creditStatus'[creditTarget[q]] # "none"
           /\ creditOwner'[creditTarget[q]] = creditOwner[creditTarget[q]]
    BY DEF CreditMovesBy
  <1>5. pc[q] \in DecidingLabels =>
           creditTarget[q] \in CreditIds /\ creditStatus[creditTarget[q]] # "none"
    BY <1>1 DEF CreditHandlerSound
  <1> QED
    BY <1>1, <1>2, <1>3, <1>4, <1>5 DEF CreditHandlerSound, DecidingLabels

\* What is left to show of a step: what it writes, and what its handler knows.
LEMMA CreditsStepSound ==
    ASSUME CreditsSound, NEW p \in Procs, CreditMovesBy(p),
           raced \subseteq raced', SharedCredits' \subseteq raced',
           AccountsInv', CreditTablesOK', CreditMemoryOK',
           CreditedWithApproval', CreditedOnceUnlessRaced', OnePendingCreditUnlessRaced',
           \A q \in Procs \ {p} :
              /\ pc'[q] = pc[q] /\ holds'[q] = holds[q]
              /\ creditTarget'[q] = creditTarget[q] /\ creditAmount'[q] = creditAmount[q],
           CreditHandlerSound(p)'
    PROVE  CreditsSound'
  <1>1. \A q \in Procs : CreditHandlerSound(q)'
    BY OtherCreditsSound
  <1>2. (SharedCredits \subseteq raced)'
    OBVIOUS
  <1> QED
    BY <1>1, <1>2 DEF CreditsSound

-----------------------------------------------------------------------------
(* The handlers, step by step *)

\* A step that leaves the requests alone.
LEMMA CreditTableKept ==
    ASSUME CreditsSound, NEW p \in Procs, UNCHANGED creditTable,
           raced \subseteq raced', SharedCredits' \subseteq raced', AccountsInv', CreditMemoryOK',
           \A q \in Procs \ {p} :
              /\ pc'[q] = pc[q] /\ holds'[q] = holds[q]
              /\ creditTarget'[q] = creditTarget[q] /\ creditAmount'[q] = creditAmount[q],
           CreditHandlerSound(p)'
    PROVE  CreditsSound'
  <1>1. CreditMovesBy(p) /\ CreditTablesOK' /\ CreditedWithApproval'
        /\ CreditedOnceUnlessRaced' /\ OnePendingCreditUnlessRaced'
    BY DEF CreditsSound, CreditTablesOK, CreditedWithApproval, CreditedOnceUnlessRaced,
           OnePendingCreditUnlessRaced, CreditMovesBy, creditTable
  <1> QED
    BY <1>1, CreditsStepSound

\* A user asks, or an administrator starts to decide.
LEMMA CreditRequestSound ==
    ASSUME CreditsSound, AccountsInv', raced \subseteq raced', SharedCredits' \subseteq raced',
           NEW p \in Procs, CreditRequest(p)
    PROVE  CreditsSound'
  <1> USE DEF CreditsSound, CreditMemoryOK, SlotsOK, AccountsInv, AccountsTypeOK, Idle, Goto,
              CreditLabels, DecidingLabels, CreditCreatingLabels
  <1>1. ASSUME NEW u \in Users, CreateCreditRequest(p, u)
        PROVE  CreditsSound'
    <2> USE <1>1 DEF CreateCreditRequest, ReadUser, creditState, creditTable
    <2>1. CreditMemoryOK' /\ UNCHANGED creditTable
      OBVIOUS
    <2>2. pc'[p] = "credit_pending" /\ holds'[p] = u /\ creditTarget'[p] = NoCredit
      BY DEF CreditHandlerSound
    <2>3. CreditHandlerSound(p)'
      BY <2>2, CreditRequestsAssumption DEF CreditHandlerSound
    <2>4. \A q \in Procs \ {p} :
             /\ pc'[q] = pc[q] /\ holds'[q] = holds[q]
             /\ creditTarget'[q] = creditTarget[q] /\ creditAmount'[q] = creditAmount[q]
      OBVIOUS
    <2> QED
      BY <2>1, <2>3, <2>4, CreditTableKept
  <1>2. ASSUME NEW cr \in CreditIds, NEW amount \in Amounts \cup {0},
               NEW label \in {"approve_user", "reject_credit"},
               label = "approve_user" => amount \in Amounts,
               ReadPendingCredit(p, cr, amount, label)
        PROVE  CreditsSound'
    <2> USE <1>2 DEF ReadPendingCredit, accountVars, creditTable
    <2>1. CreditMemoryOK' /\ UNCHANGED creditTable
      OBVIOUS
    <2>2. /\ pc'[p] = label /\ creditTarget'[p] = cr /\ creditAmount'[p] = amount
          /\ creditStatus'[cr] = "pending"
      OBVIOUS
    <2>3. CreditHandlerSound(p)'
      BY <2>2 DEF CreditHandlerSound
    <2>4. \A q \in Procs \ {p} :
             /\ pc'[q] = pc[q] /\ holds'[q] = holds[q]
             /\ creditTarget'[q] = creditTarget[q] /\ creditAmount'[q] = creditAmount[q]
      OBVIOUS
    <2> QED
      BY <2>1, <2>3, <2>4, CreditTableKept
  <1> QED
    BY <1>1, <1>2 DEF CreditRequest, ApproveCreditRequest, RejectCreditRequest

\* A handler runs on to its next await.
LEMMA CreditStepSound ==
    ASSUME CreditsSound, AccountsInv', raced \subseteq raced', SharedCredits' \subseteq raced',
           NEW p \in Procs, CreditStep(p)
    PROVE  CreditsSound'
  <1> DEFINE cr == creditTarget[p]
  <1> USE DEF CreditsSound, CreditMemoryOK, SlotsOK, AccountsInv, AccountsTypeOK, Idle, Goto,
              CreditLabels, DecidingLabels, CreditCreatingLabels
  <1>1. CreditHandlerSound(p) /\ CreditTablesOK
    OBVIOUS
  <1>2. CASE CreateCreditCheckPending(p)
    <2> USE <1>2 DEF CreateCreditCheckPending, accountVars, creditState, creditTable
    <2>1. CreditMemoryOK' /\ UNCHANGED creditTable
      OBVIOUS
    <2>2. /\ pc'[p] = "credit_insert" /\ holds'[p] = holds[p] /\ holds[p] \in Users
          /\ creditTarget'[p] = NoCredit /\ PendingCredits(holds[p])' = {}
      BY <1>1 DEF CreditHandlerSound, PendingCredits
    <2>3. CreditHandlerSound(p)'
      BY <2>2, CreditRequestsAssumption DEF CreditHandlerSound
    <2>4. \A q \in Procs \ {p} :
             /\ pc'[q] = pc[q] /\ holds'[q] = holds[q]
             /\ creditTarget'[q] = creditTarget[q] /\ creditAmount'[q] = creditAmount[q]
      OBVIOUS
    <2> QED
      BY <2>1, <2>3, <2>4, CreditTableKept
  <1>3. CASE ApproveReadUser(p)
    <2> USE <1>3 DEF ApproveReadUser, ReadUser, creditState, creditTable
    <2>1. CreditMemoryOK' /\ UNCHANGED creditTable
      OBVIOUS
    <2>2. /\ pc'[p] \in {"approve_balance", "approve_direct"}
          /\ creditTarget'[p] = cr /\ creditAmount'[p] = creditAmount[p]
          /\ cr \in CreditIds /\ holds'[p] = creditOwner[cr]
      BY <1>1 DEF CreditHandlerSound
    <2>3. CreditHandlerSound(p)'
      BY <1>1, <2>2 DEF CreditHandlerSound
    <2>4. \A q \in Procs \ {p} :
             /\ pc'[q] = pc[q] /\ holds'[q] = holds[q]
             /\ creditTarget'[q] = creditTarget[q] /\ creditAmount'[q] = creditAmount[q]
      OBVIOUS
    <2> QED
      BY <2>1, <2>3, <2>4, CreditTableKept
  <1>4. CASE CreditHandlerFails(p)
    <2> USE <1>4 DEF CreditHandlerFails, DropUser, creditTable
    <2>1. CreditMemoryOK' /\ UNCHANGED creditTable
      OBVIOUS
    <2>2. pc'[p] = "idle" /\ creditTarget'[p] = NoCredit
      OBVIOUS
    <2>3. CreditHandlerSound(p)'
      BY <2>2, CreditRequestsAssumption DEF CreditHandlerSound
    <2>4. \A q \in Procs \ {p} :
             /\ pc'[q] = pc[q] /\ holds'[q] = holds[q]
             /\ creditTarget'[q] = creditTarget[q] /\ creditAmount'[q] = creditAmount[q]
      OBVIOUS
    <2> QED
      BY <2>1, <2>3, <2>4, CreditTableKept
  <1>5. CASE CreateCreditInsert(p)
    <2> USE <1>5 DEF CreateCreditInsert, DropUser
    <2>1. PICK new \in CreditIds :
             /\ creditStatus[new] = "none"
             /\ creditStatus' = [creditStatus EXCEPT ![new] = "pending"]
             /\ creditOwner' = [creditOwner EXCEPT ![new] = holds[p]]
      OBVIOUS
    <2>2. holds[p] \in Users
      BY <1>1 DEF CreditHandlerSound
    <2>3. CreditMemoryOK'
      OBVIOUS
    <2>4. CreditTablesOK'
      BY <1>1, <2>1, <2>2 DEF CreditTablesOK, CreditStatuses
    <2>5. CreditedWithApproval' /\ CreditedOnceUnlessRaced'
      BY <1>1, <2>1 DEF CreditTablesOK, CreditedWithApproval, CreditedOnceUnlessRaced
    <2>6. OnePendingCreditUnlessRaced'
      <3> SUFFICES ASSUME NEW one \in CreditIds, NEW other \in CreditIds,
                          creditStatus'[one] = "pending", creditStatus'[other] = "pending",
                          creditOwner'[one] = creditOwner'[other],
                          CreditCreatingFor(creditOwner'[one]) \notin raced
                   PROVE  one = other
        BY DEF OnePendingCreditUnlessRaced, CreditCreatingFor
      <3>1. \A old \in CreditIds \ {new} :
               creditStatus'[old] = creditStatus[old] /\ creditOwner'[old] = creditOwner[old]
        BY <1>1, <2>1 DEF CreditTablesOK
      <3>2. creditOwner'[new] = holds[p]
        BY <1>1, <2>1 DEF CreditTablesOK
      <3>3. CreditCreatingFor(holds[p]) \notin raced => PendingCredits(holds[p]) = {}
        BY <1>1 DEF CreditHandlerSound
      <3>4. CASE one # new /\ other # new
        BY <3>1, <3>4 DEF OnePendingCreditUnlessRaced, CreditCreatingFor
      <3>5. CASE one = new \/ other = new
        BY <3>1, <3>2, <3>3, <3>5 DEF PendingCredits
      <3> QED
        BY <3>4, <3>5
    <2>7. CreditMovesBy(p)
      BY <1>1, <2>1 DEF CreditMovesBy, CreditTablesOK
    <2>8. pc'[p] = "idle" /\ creditTarget'[p] = NoCredit
      BY <1>1 DEF CreditHandlerSound
    <2>9. CreditHandlerSound(p)'
      BY <2>8, CreditRequestsAssumption DEF CreditHandlerSound
    <2>10. \A q \in Procs \ {p} :
             /\ pc'[q] = pc[q] /\ holds'[q] = holds[q]
             /\ creditTarget'[q] = creditTarget[q] /\ creditAmount'[q] = creditAmount[q]
      OBVIOUS
    <2> QED
      BY <2>3, <2>4, <2>5, <2>6, <2>7, <2>9, <2>10, CreditsStepSound
  <1>6. cr \in CreditIds => creditStatus[cr] # "none"
    BY <1>1, CreditRequestsAssumption DEF CreditHandlerSound
  <1>7. ASSUME NEW status \in {"approved", "rejected"},
               NEW rows \in Nat,
               creditStatus' = [creditStatus EXCEPT ![cr] = status],
               creditRows' = [creditRows EXCEPT ![cr] = rows],
               rows = IF status = "approved" THEN creditRows[cr] + 1 ELSE creditRows[cr],
               creditOwner' = creditOwner, cr \in CreditIds, CreditMemoryOK',
               pc'[p] = "idle", creditTarget'[p] = NoCredit,
               \A q \in Procs \ {p} :
                  /\ pc'[q] = pc[q] /\ holds'[q] = holds[q]
                  /\ creditTarget'[q] = creditTarget[q] /\ creditAmount'[q] = creditAmount[q]
        PROVE  CreditsSound'
    <2>1. \A other \in CreditIds :
             /\ creditStatus'[other] = IF other = cr THEN status ELSE creditStatus[other]
             /\ creditRows'[other] = IF other = cr THEN rows ELSE creditRows[other]
      BY <1>1, <1>7 DEF CreditTablesOK
    <2>2. CreditMovesBy(p)
      BY <1>7, <2>1 DEF CreditMovesBy
    <2>3. CreditTablesOK'
      BY <1>1, <1>7, <2>1, <1>6 DEF CreditTablesOK, CreditStatuses
    <2>4. CreditedWithApproval'
      BY <1>1, <1>7, <2>1 DEF CreditTablesOK, CreditedWithApproval
    <2>5. CreditedOnceUnlessRaced'
      <3> SUFFICES ASSUME NEW other \in CreditIds \ raced
                   PROVE  creditRows'[other] <=
                             IF creditStatus'[other] = "rejected" THEN 0 ELSE 1
        BY DEF CreditedOnceUnlessRaced
      <3>1. CASE other # cr
        BY <2>1, <3>1 DEF CreditedOnceUnlessRaced
      <3>2. CASE other = cr
        <4>1. creditRows[cr] = 0
          BY <1>1, <1>7, <3>2 DEF CreditHandlerSound, CreditedWithApproval
        <4> QED
          BY <1>7, <2>1, <3>2, <4>1
      <3> QED
        BY <3>1, <3>2
    <2>6. OnePendingCreditUnlessRaced'
      BY <1>7, <2>1 DEF OnePendingCreditUnlessRaced
    <2>7. CreditHandlerSound(p)'
      BY <1>7, CreditRequestsAssumption DEF CreditHandlerSound
    <2> QED
      BY <1>7, <2>2, <2>3, <2>4, <2>5, <2>6, <2>7, CreditsStepSound
  <1>8. CASE ApproveCommit(p)
    <2> USE <1>8 DEF ApproveCommit
    <2>1. cr \in CreditIds /\ creditRows[cr] + 1 \in Nat
      BY <1>1 DEF CreditHandlerSound, CreditTablesOK
    <2>2. PICK kind \in Kinds : Post(p, kind, creditAmount[p])
      BY DEF Kinds
    <2>3. /\ holds' = [holds EXCEPT ![p] = NoUser]
          /\ CreditMemoryOK' /\ pc'[p] = "idle" /\ creditTarget'[p] = NoCredit
      BY <2>2 DEF Post
    <2>4. creditRows' = [creditRows EXCEPT ![cr] = creditRows[cr] + 1]
      OBVIOUS
    <2>5. \A q \in Procs \ {p} :
             /\ pc'[q] = pc[q] /\ holds'[q] = holds[q]
             /\ creditTarget'[q] = creditTarget[q] /\ creditAmount'[q] = creditAmount[q]
      BY <2>3
    <2> QED
      BY <1>7, <2>1, <2>3, <2>4, <2>5
  <1>9. CASE RejectCreditSave(p)
    <2> USE <1>9 DEF RejectCreditSave, accountVars
    <2>1. cr \in CreditIds /\ creditRows[cr] \in Nat
      BY <1>1 DEF CreditHandlerSound, CreditTablesOK
    <2>2. CreditMemoryOK' /\ pc'[p] = "idle" /\ creditTarget'[p] = NoCredit
      OBVIOUS
    <2>3. creditRows' = [creditRows EXCEPT ![cr] = creditRows[cr]]
      BY <1>1 DEF CreditTablesOK
    <2>4. \A q \in Procs \ {p} :
             /\ pc'[q] = pc[q] /\ holds'[q] = holds[q]
             /\ creditTarget'[q] = creditTarget[q] /\ creditAmount'[q] = creditAmount[q]
      OBVIOUS
    <2> QED
      BY <1>7, <2>1, <2>2, <2>3, <2>4
  <1> QED
    BY <1>2, <1>3, <1>4, <1>5, <1>8, <1>9 DEF CreditStep

\* Meanwhile the slots run other handlers.
LEMMA CreditsElsewhere ==
    ASSUME CreditsSound, AccountsInv', SlotsOK', UNCHANGED creditState,
           raced \subseteq raced', SharedCredits' \subseteq raced',
           NEW p \in Procs, pc[p] \notin CreditLabels, pc'[p] \notin CreditLabels,
           OthersUntouched(p)
    PROVE  CreditsSound'
  <1> USE DEF creditState, creditTable
  <1>1. CreditMemoryOK'
    BY DEF CreditsSound, CreditMemoryOK
  <1>2. CreditHandlerSound(p)'
    BY CreditRequestsAssumption
       DEF CreditsSound, CreditHandlerSound, CreditLabels, DecidingLabels,
           CreditCreatingLabels
  <1>3. \A q \in Procs \ {p} :
           /\ pc'[q] = pc[q] /\ holds'[q] = holds[q]
           /\ creditTarget'[q] = creditTarget[q] /\ creditAmount'[q] = creditAmount[q]
    BY DEF OthersUntouched
  <1> QED
    BY <1>1, <1>2, <1>3, CreditTableKept

\* What a step leaves alone of the other slots and of their locks.
LEMMA CreditWorkElsewhere ==
    ASSUME CreditsSound, NEW p \in Procs, CreditRequest(p) \/ CreditStep(p)
    PROVE  /\ SlotsOK' /\ OthersUntouched(p) /\ rowLock' \in {rowLock, Unlocked(p)}
           /\ \A u \in Users : posted'[u]["card_funding"] = posted[u]["card_funding"]
           /\ pc[p] \in CreditLabels \cup {"idle"}
           /\ pc'[p] \in CreditLabels \cup {"idle"}
  <1>1. AccountsTypeOK /\ SlotsOK
    BY DEF CreditsSound, CreditMemoryOK, AccountsInv
  <1>2. PICK from \in CreditLabels \cup {"idle"}, to \in CreditLabels \cup {"idle"} :
           pc[p] = from /\ pc' = [pc EXCEPT ![p] = to]
    BY DEF CreditRequest, CreateCreditRequest, ApproveCreditRequest, RejectCreditRequest,
           ReadPendingCredit, CreditStep, CreateCreditCheckPending, CreateCreditInsert,
           ApproveReadUser, ApproveCommit, RejectCreditSave, CreditHandlerFails, Idle, Goto,
           CreditLabels
  <1>3. \/ UNCHANGED accountVars
        \/ \E u : ReadUser(p, u)
        \/ DropUser(p)
        \/ \E kind \in {"credit", "direct"} : Post(p, kind, creditAmount[p])
    BY DEF CreditRequest, CreateCreditRequest, ApproveCreditRequest, RejectCreditRequest,
           ReadPendingCredit, CreditStep, CreateCreditCheckPending, CreateCreditInsert,
           ApproveReadUser, ApproveCommit, RejectCreditSave, CreditHandlerFails
  <1> DEFINE kinds == {"credit", "direct"}
  <1>4. "card_funding" \notin kinds
    OBVIOUS
  <1>5. \/ UNCHANGED accountVars
        \/ \E u : ReadUser(p, u)
        \/ DropUser(p)
        \/ \E kind \in kinds : Post(p, kind, creditAmount[p])
    BY <1>3
  <1> HIDE DEF kinds
  <1>6. /\ SlotsOK' /\ OthersUntouched(p) /\ pc'[p] = to
        /\ rowLock' \in {rowLock, Unlocked(p)}
        /\ \A u \in Users : posted'[u]["card_funding"] = posted[u]["card_funding"]
    BY <1>1, <1>2, <1>4, <1>5, TouchesOwnSlot
  <1> QED
    BY <1>2, <1>6

-----------------------------------------------------------------------------
(* Theorems *)

\* A step is a step that the abstract specification of the tables allows.
LEMMA CreditsNextAccounts ==
    ASSUME CreditsSound, [CreditsNext]_creditVars
    PROVE  [AccountsNext]_accountVars
  BY CreditWorkAccounts DEF CreditsNext, creditVars

\* What touches neither the credit requests nor the slots changes nothing for them.
LEMMA CreditsStill ==
    ASSUME CreditsSound, UNCHANGED creditVars, raced \subseteq raced'
    PROVE  CreditsSound'
  <1> USE DEF creditVars, creditState, creditTable, accountVars, CreditsSound
  <1>1. AccountsInv'
    BY AccountsStepInv
  <1>2. CreditTablesOK' /\ CreditMemoryOK'
    BY DEF CreditTablesOK, CreditMemoryOK, SlotsOK
  <1>3. CreditedWithApproval' /\ CreditedOnceUnlessRaced' /\ OnePendingCreditUnlessRaced'
    BY DEF CreditedWithApproval, CreditedOnceUnlessRaced, OnePendingCreditUnlessRaced
  <1>4. (SharedCredits \subseteq raced)'
    BY DEF SharedCredits, Shared, CreditWorksOn
  <1>5. \A p \in Procs : CreditHandlerSound(p)'
    BY DEF CreditHandlerSound, PendingCredits
  <1> QED
    BY <1>1, <1>2, <1>3, <1>4, <1>5

\* Every step of the specification keeps the inductive invariant.
LEMMA CreditsNextSound ==
    ASSUME CreditsSound,
           [CreditsNext /\ raced' = raced \cup SharedCredits']_<<creditVars, raced>>
    PROVE  CreditsSound'
  <1>1. AccountsInv'
    BY CreditsNextAccounts, AccountsStepInv DEF CreditsSound
  <1>2. CASE UNCHANGED <<creditVars, raced>>
    BY <1>2, CreditsStill
  <1>3. CASE CreditsNext /\ raced' = raced \cup SharedCredits'
    <2>1. raced \subseteq raced' /\ SharedCredits' \subseteq raced'
      BY <1>3
    <2> QED
      BY <1>1, <1>3, <2>1, CreditRequestSound, CreditStepSound DEF CreditsNext
  <1> QED
    BY <1>2, <1>3

\* However createCreditRequest, approveCreditRequest and rejectCreditRequest
\* interleave and wherever they fail: approval, credit and row come together,
\* and a request that no two handlers worked on at once is credited once, or
\* rejected and not credited.
THEOREM CreditsInvariant == CreditsSpec => []CreditsInv
  <1>1. CreditsStart => CreditsSound
    BY CreditsStartSound
  <1>2. CreditsSound
        /\ [CreditsNext /\ raced' = raced \cup SharedCredits']_<<creditVars, raced>>
          => CreditsSound'
    BY CreditsNextSound
  <1>3. CreditsSound => CreditsInv
    BY CreditsSoundInv
  <1> QED
    BY <1>1, <1>2, <1>3, PTL DEF CreditsSpec

\* A user for whom no two createCreditRequest handlers ran at once has one
\* pending request at most.
THEOREM CreditsOnePending == CreditsSpec => []OnePendingCreditUnlessRaced
  <1>1. CreditsStart => CreditsSound
    BY CreditsStartSound
  <1>2. CreditsSound
        /\ [CreditsNext /\ raced' = raced \cup SharedCredits']_<<creditVars, raced>>
          => CreditsSound'
    BY CreditsNextSound
  <1>3. CreditsSound => OnePendingCreditUnlessRaced
    BY CreditsSoundInv
  <1> QED
    BY <1>1, <1>2, <1>3, PTL DEF CreditsSpec

\* The handlers of credit requests implement the abstract specification of
\* the money tables: an approval posts one row, nothing else moves money.
THEOREM CreditsImplementAccounts == CreditsSpec => AccountsSpec
  <1>1. CreditsStart => CreditsSound /\ AccountsInit
    BY CreditsStartSound DEF CreditsStart
  <1>2. CreditsSound
        /\ [CreditsNext /\ raced' = raced \cup SharedCredits']_<<creditVars, raced>>
          => CreditsSound' /\ [AccountsNext]_accountVars
    <2>1. [CreditsNext /\ raced' = raced \cup SharedCredits']_<<creditVars, raced>>
             => [CreditsNext]_creditVars
      OBVIOUS
    <2> QED
      BY <2>1, CreditsNextSound, CreditsNextAccounts
  <1> QED
    BY <1>1, <1>2, PTL DEF CreditsSpec, AccountsSpec

-----------------------------------------------------------------------------
(* Payments: a wallet is credited only for a charge that was paid, and a   *)
(* payment that no two handlers verified at once is credited once and      *)
(* stays a success: its handler still finds it unsuccessful when it saves. *)

\* Where a handler works on a payment.
TargetLabels == {"pay_insert"} \cup VerifyLabels

\* What the handler of a slot knows where it is suspended.  A fresh reference
\* is its handler's alone until the row exists.  The last part is what the
\* check "already processed" is still worth when nobody else worked on the row.
PaymentHandlerSound(p) ==
    /\ pc[p] \notin TargetLabels => payTarget[p] = NoReference
    /\ pc[p] \in TargetLabels =>
          payTarget[p] \in References /\ charge[payTarget[p]] # "none"
    /\ pc[p] = "pay_insert" =>
          /\ holds[p] \in Users /\ moving[p] \in Amounts
          /\ payStatus[payTarget[p]] = "none"
          /\ \A q \in Procs : payTarget[q] = payTarget[p] => q = p
    /\ pc[p] \in VerifyLabels => payStatus[payTarget[p]] # "none"
    /\ pc[p] \in {"verify_begin", "verify_commit"} => charge[payTarget[p]] = "paid"
    /\ pc[p] = "verify_commit" =>
          payLock[payTarget[p]] = p /\ holds[p] = payOwner[payTarget[p]]
    /\ pc[p] = "transfer_commit" =>
          holds[p] \in Users /\ moving[p] \in Amounts /\ moving[p] <= seen[p]["earnings"]
    /\ payTarget[p] \in References \ raced => payStatus[payTarget[p]] # "success"

PaymentTablesOK ==
    /\ charge \in [References -> {"none", "open", "paid"}]
    /\ notice \in [References -> {"none", "refused"}]
    /\ payStatus \in [References -> PayStatuses]
    /\ payOwner \in [References -> Users \cup {NoUser}]
    /\ payAmount \in [References -> Amounts \cup {0}]
    /\ payRows \in [References -> Nat]
    /\ payLock \in [References -> Procs \cup {NoProc}]
    /\ \A ref \in References :
          payStatus[ref] # "none" => payOwner[ref] \in Users /\ payAmount[ref] \in Amounts

PaymentMemoryOK ==
    /\ SlotsOK
    /\ payTarget \in [Procs -> References \cup {NoReference}]
    /\ paySeen \in [Procs -> PayStatuses]
    /\ moving \in [Procs -> Amounts \cup {0}]

\* Paystack and the row: a row needs a charge, and nobody pays without a row.
RowsHaveCharges ==
    \A ref \in References :
        /\ payStatus[ref] # "none" => charge[ref] # "none"
        /\ charge[ref] = "paid" => payStatus[ref] # "none"

\* A payment that no two handlers worked on is credited with its success.
CreditedWithSuccess ==
    \A ref \in References \ raced : payRows[ref] > 0 => payStatus[ref] = "success"

\* The inductive invariant.
PaymentsSound ==
    /\ AccountsInv /\ PaymentTablesOK /\ PaymentMemoryOK
    /\ RowsHaveCharges /\ CreditedWithSuccess
    /\ DepositsArePaid /\ DepositedOnceUnlessRaced
    /\ SharedPayments \subseteq raced
    /\ \A p \in Procs : PaymentHandlerSound(p)

\* The inductive invariant is as strong as the properties.
LEMMA PaymentsSoundInv == PaymentsSound => DepositsInv
  BY DEF PaymentsSound, DepositsInv, PaymentsTypeOK, AccountsInv, PaymentTablesOK,
         PaymentMemoryOK, SlotsOK, PaymentHandlerSound, TargetLabels, VerifyLabels

\* No payment exists at first, and no handler.
LEMMA PaymentsStartSound == PaymentsStart => PaymentsSound
  <1> SUFFICES ASSUME RequestsInit, AccountsInit, PaymentsInit
               PROVE  PaymentsSound
    BY DEF PaymentsStart
  <1> USE DEF RequestsInit, PaymentsInit
  <1>1. AccountsInv
    BY AccountsInitInv
  <1>2. PaymentTablesOK /\ PaymentMemoryOK
    BY DEF PaymentTablesOK, PaymentMemoryOK, SlotsOK, PayStatuses
  <1>3. RowsHaveCharges /\ CreditedWithSuccess /\ DepositsArePaid /\ DepositedOnceUnlessRaced
    BY DEF RowsHaveCharges, CreditedWithSuccess, DepositsArePaid, DepositedOnceUnlessRaced
  <1>4. \A p \in Procs : PaymentHandlerSound(p)
    BY PaymentsAssumption DEF PaymentHandlerSound, TargetLabels, VerifyLabels
  <1>5. \A p \in Procs : PaymentWorksOn(p) = {}
    BY DEF PaymentWorksOn
  <1>6. SharedPayments \subseteq raced
    BY <1>5 DEF SharedPayments, Shared
  <1> QED
    BY <1>1, <1>2, <1>3, <1>4, <1>6 DEF PaymentsSound

-----------------------------------------------------------------------------
(* What the handlers do to the money tables *)

\* A deposit posts one row and takes nothing; a transfer takes what its
\* handler checked.
LEMMA PaymentWorkAccounts ==
    ASSUME PaymentsSound, NEW p \in Procs, PaymentRequest(p) \/ PaymentStep(p)
    PROVE  AccountsNext \/ UNCHANGED accountVars
  <1>1. CASE PaymentRequest(p)
    BY <1>1 DEF PaymentRequest, InitializePayment, TransferEarnings, VerifyPayment,
                AccountsNext
  <1>2. CASE PaymentStep(p)
    <2>1. CASE VerifyAskPaystack(p) \/ VerifySaveFailed(p)
      BY <2>1 DEF VerifyAskPaystack, VerifySaveFailed
    <2>2. CASE InitializePaymentInsert(p) \/ PaymentHandlerFails(p)
      BY <2>2 DEF InitializePaymentInsert, PaymentHandlerFails, AccountsNext
    <2>3. CASE VerifyBegin(p)
      <3>1. payOwner[payTarget[p]] \in Users
        BY <2>3 DEF PaymentsSound, PaymentHandlerSound, PaymentTablesOK, VerifyBegin,
                    TargetLabels, VerifyLabels
      <3> QED
        BY <2>3, <3>1 DEF VerifyBegin, AccountsNext
    <2>4. CASE VerifyCommit(p)
      <3>1. holds[p] \in Users /\ payAmount[payTarget[p]] \in Amounts
        BY <2>4 DEF PaymentsSound, PaymentHandlerSound, PaymentTablesOK, VerifyCommit,
                    TargetLabels, VerifyLabels
      <3>2. Covered(p, "deposit", payAmount[payTarget[p]])
        BY DEF Covered, Writes, Adds, Takes, Columns
      <3>3. Post(p, "deposit", payAmount[payTarget[p]])
        BY <2>4 DEF VerifyCommit
      <3> QED
        BY <3>1, <3>2, <3>3 DEF PostCovered, Kinds, AccountsNext
    <2>5. CASE TransferCommit(p)
      <3>1. holds[p] \in Users /\ moving[p] \in Amounts /\ moving[p] <= seen[p]["earnings"]
        BY <2>5 DEF PaymentsSound, PaymentHandlerSound, TransferCommit
      <3>2. Covered(p, "transfer", moving[p])
        BY <3>1 DEF Covered, Writes, Adds, Takes, Columns
      <3>3. Post(p, "transfer", moving[p])
        BY <2>5 DEF TransferCommit
      <3> QED
        BY <3>1, <3>2, <3>3 DEF PostCovered, Kinds, AccountsNext
    <2> QED
      BY <1>2, <2>1, <2>2, <2>3, <2>4, <2>5 DEF PaymentStep
  <1> QED
    BY <1>1, <1>2

-----------------------------------------------------------------------------
(* A step as the other handlers see it *)

\* Two handlers at work on the same payment are noted.
LEMMA TwoVerifyShared ==
    ASSUME PaymentsSound, NEW p \in Procs, NEW q \in Procs, p # q,
           payTarget[p] = payTarget[q], payTarget[p] # NoReference
    PROVE  payTarget[p] \in raced
  <1>1. \A x : x \in PaymentWorksOn(p) /\ x \in PaymentWorksOn(q) => x \in SharedPayments
    BY DEF SharedPayments, Shared
  <1>2. SharedPayments \subseteq raced
    BY DEF PaymentsSound
  <1> QED
    BY <1>1, <1>2 DEF PaymentWorksOn

\* The memory of the other handlers is theirs.
OtherPaymentsKept(p) ==
    \A q \in Procs \ {p} :
        /\ pc'[q] = pc[q] /\ holds'[q] = holds[q] /\ seen'[q] = seen[q]
        /\ payTarget'[q] = payTarget[q] /\ moving'[q] = moving[q]

\* A handler writes the row it works on, opens fresh charges, and takes and
\* gives up its own locks; and it turns to a payment that has a row, or to one
\* that had no charge.
PaymentsMoveBy(p) ==
    /\ \A ref \in References :
          /\ ref # payTarget[p] =>
                payStatus'[ref] = payStatus[ref] /\ payOwner'[ref] = payOwner[ref]
          /\ payStatus[ref] # "none" =>
                payStatus'[ref] # "none" /\ payOwner'[ref] = payOwner[ref]
          /\ charge[ref] # "none" => charge'[ref] = charge[ref]
          /\ \A q \in Procs \ {p} : payLock[ref] = q => payLock'[ref] = q
    /\ payTarget'[p] \in {payTarget[p], NoReference}
          \cup {ref \in References : payStatus[ref] # "none" \/ charge[ref] = "none"}

\* What the other handlers know stays true.
LEMMA OtherPaymentsSound ==
    ASSUME PaymentsSound, NEW p \in Procs, PaymentsMoveBy(p), OtherPaymentsKept(p),
           raced \subseteq raced', NEW q \in Procs, q # p
    PROVE  PaymentHandlerSound(q)'
  <1> DEFINE ref == payTarget[q]
  <1>1. PaymentHandlerSound(q) /\ PaymentHandlerSound(p) /\ PaymentTablesOK
    BY DEF PaymentsSound
  <1>2. /\ pc'[q] = pc[q] /\ holds'[q] = holds[q] /\ seen'[q] = seen[q]
        /\ payTarget'[q] = ref /\ moving'[q] = moving[q]
    BY DEF OtherPaymentsKept
  <1>3. ASSUME ref \in References \ raced'
        PROVE  payStatus'[ref] # "success"
    <2>1. ref # payTarget[p]
      BY <1>3, TwoVerifyShared, PaymentsAssumption
    <2> QED
      BY <1>1, <1>3, <2>1 DEF PaymentHandlerSound, PaymentsMoveBy
  <1>4. ASSUME pc[q] = "pay_insert"
        PROVE  /\ payStatus'[ref] = "none"
               /\ \A r \in Procs : payTarget'[r] = ref => r = q
    <2>1. /\ ref \in References /\ charge[ref] # "none" /\ payStatus[ref] = "none"
          /\ \A r \in Procs : payTarget[r] = ref => r = q
      BY <1>1, <1>4 DEF PaymentHandlerSound, TargetLabels
    <2>2. ref # payTarget[p]
      BY <2>1
    <2>3. payTarget'[p] # ref
      BY <2>1, <2>2, PaymentsAssumption DEF PaymentsMoveBy
    <2>4. \A r \in Procs \ {p} : payTarget'[r] = payTarget[r]
      BY DEF OtherPaymentsKept
    <2> QED
      BY <2>1, <2>2, <2>3, <2>4 DEF PaymentsMoveBy
  <1>5. pc[q] \in TargetLabels => ref \in References /\ charge'[ref] = charge[ref]
    BY <1>1 DEF PaymentHandlerSound, PaymentsMoveBy
  <1>6. pc[q] \in VerifyLabels =>
           /\ payStatus[ref] # "none" /\ payStatus'[ref] # "none"
           /\ payOwner'[ref] = payOwner[ref]
    BY <1>1, <1>5 DEF PaymentHandlerSound, PaymentsMoveBy, TargetLabels
  <1>7. pc[q] = "verify_commit" => payLock'[ref] = q
    BY <1>1, <1>5 DEF PaymentHandlerSound, PaymentsMoveBy, TargetLabels, VerifyLabels
  <1> HIDE DEF ref
  <1>8. \A x : x = payTarget[q] <=> x = ref
    BY DEF ref
  <1> QED
    BY <1>1, <1>2, <1>3, <1>4, <1>5, <1>6, <1>7, <1>8
       DEF PaymentHandlerSound, TargetLabels, VerifyLabels

\* What is left to show of a step: what it writes, and what its handler knows.
LEMMA PaymentsStepSound ==
    ASSUME PaymentsSound, NEW p \in Procs, PaymentsMoveBy(p), OtherPaymentsKept(p),
           raced \subseteq raced', SharedPayments' \subseteq raced',
           AccountsInv', PaymentTablesOK', PaymentMemoryOK',
           RowsHaveCharges', CreditedWithSuccess',
           DepositsArePaid', DepositedOnceUnlessRaced',
           PaymentHandlerSound(p)'
    PROVE  PaymentsSound'
  <1>1. \A q \in Procs : PaymentHandlerSound(q)'
    BY OtherPaymentsSound
  <1>2. (SharedPayments \subseteq raced)'
    OBVIOUS
  <1> QED
    BY <1>1, <1>2 DEF PaymentsSound

-----------------------------------------------------------------------------
(* The handlers, step by step *)

\* A step that leaves Paystack and the payments alone, but for its own lock.
LEMMA PaymentTableKept ==
    ASSUME PaymentsSound, NEW p \in Procs, OtherPaymentsKept(p),
           UNCHANGED <<paystackVars, payTable>>,
           payLock' \in [References -> Procs \cup {NoProc}],
           \A ref \in References, q \in Procs \ {p} : payLock[ref] = q => payLock'[ref] = q,
           payTarget'[p] \in {payTarget[p], NoReference}
              \cup {ref \in References : payStatus[ref] # "none"},
           raced \subseteq raced', SharedPayments' \subseteq raced', AccountsInv', PaymentMemoryOK',
           PaymentHandlerSound(p)'
    PROVE  PaymentsSound'
  <1>1. PaymentsMoveBy(p)
    BY DEF PaymentsMoveBy, paystackVars, payTable
  <1>2. PaymentTablesOK' /\ RowsHaveCharges' /\ CreditedWithSuccess'
        /\ DepositsArePaid' /\ DepositedOnceUnlessRaced'
    BY DEF PaymentsSound, PaymentTablesOK, RowsHaveCharges, CreditedWithSuccess,
           DepositsArePaid, DepositedOnceUnlessRaced, paystackVars, payTable
  <1> QED
    BY <1>1, <1>2, PaymentsStepSound

\* A handler that answers forgets its payment and gives up its lock.
LEMMA PaymentDoneForgets ==
    ASSUME PaymentsSound, NEW p \in Procs, PaymentDone(p),
           \A q \in Procs \ {p} : holds'[q] = holds[q] /\ seen'[q] = seen[q]
    PROVE  /\ PaymentMemoryOK' /\ OtherPaymentsKept(p) /\ PaymentHandlerSound(p)'
           /\ payTarget'[p] = NoReference
           /\ payLock' \in [References -> Procs \cup {NoProc}]
           /\ \A ref \in References, q \in Procs \ {p} :
                 payLock[ref] = q => payLock'[ref] = q
  <1> USE DEF PaymentsSound, PaymentMemoryOK, SlotsOK, PaymentTablesOK, PaymentDone, Goto
  <1>1. PaymentMemoryOK' /\ OtherPaymentsKept(p) /\ pc'[p] = "idle" /\ payTarget'[p] = NoReference
    BY DEF PayStatuses, OtherPaymentsKept
  <1>2. PaymentHandlerSound(p)'
    BY <1>1, PaymentsAssumption DEF PaymentHandlerSound, TargetLabels, VerifyLabels
  <1> QED
    BY <1>1, <1>2

\* A customer wants to pay, or to move earnings, or asks about a payment.
LEMMA PaymentRequestSound ==
    ASSUME PaymentsSound, AccountsInv', raced \subseteq raced', SharedPayments' \subseteq raced',
           NEW p \in Procs, PaymentRequest(p)
    PROVE  PaymentsSound'
  <1> USE DEF PaymentsSound, PaymentMemoryOK, SlotsOK, PaymentTablesOK, AccountsInv, AccountsTypeOK,
              Idle, Goto, PaymentLabels, TargetLabels, VerifyLabels, paystackVars, payTable
  <1>1. ASSUME NEW u \in Users, NEW amount \in Amounts, InitializePayment(p, u, amount)
        PROVE  PaymentsSound'
    <2> USE <1>1 DEF InitializePayment, ReadUser
    <2>1. PICK ref \in References :
             /\ charge[ref] = "none"
             /\ charge' = [charge EXCEPT ![ref] = "open"]
             /\ payTarget' = [payTarget EXCEPT ![p] = ref]
      OBVIOUS
    <2>2. PaymentMemoryOK' /\ PaymentTablesOK'
      BY <2>1
    <2>3. OtherPaymentsKept(p)
      BY <2>1 DEF OtherPaymentsKept
    <2>4. payStatus[ref] = "none"
      BY <2>1 DEF RowsHaveCharges
    <2>5. \A q \in Procs : payTarget[q] # ref
      BY <2>1, PaymentsAssumption DEF PaymentHandlerSound
    <2>6. /\ pc'[p] = "pay_insert" /\ payTarget'[p] = ref /\ charge'[ref] = "open"
          /\ holds'[p] = u /\ moving'[p] = amount /\ payStatus'[ref] = "none"
          /\ \A q \in Procs : payTarget'[q] = ref => q = p
      BY <2>1, <2>4, <2>5
    <2>7. PaymentHandlerSound(p)'
      BY <2>6 DEF PaymentHandlerSound
    <2>8. PaymentsMoveBy(p)
      BY <2>1 DEF PaymentsMoveBy
    <2>9. RowsHaveCharges' /\ CreditedWithSuccess' /\ DepositsArePaid'
          /\ DepositedOnceUnlessRaced'
      BY <2>1 DEF RowsHaveCharges, CreditedWithSuccess, DepositsArePaid,
                  DepositedOnceUnlessRaced
    <2> QED
      BY <2>2, <2>3, <2>7, <2>8, <2>9, PaymentsStepSound
  <1>2. ASSUME NEW u \in Users, NEW amount \in Amounts, TransferEarnings(p, u, amount)
        PROVE  PaymentsSound'
    <2> USE <1>2 DEF TransferEarnings, ReadUser
    <2>1. PaymentMemoryOK' /\ OtherPaymentsKept(p)
      BY DEF OtherPaymentsKept
    <2>2. /\ pc'[p] = "transfer_commit" /\ payTarget'[p] = NoReference
          /\ holds'[p] = u /\ moving'[p] = amount /\ amount <= seen'[p]["earnings"]
      <3>1. seen'[p]["earnings"] = balance[u]["earnings"]
        OBVIOUS
      <3>2. balance[u]["earnings"] \in Int /\ amount \in Int
        BY AccountsAssumption DEF Columns
      <3>3. amount <= balance[u]["earnings"]
        BY <3>2
      <3> QED
        BY <3>1, <3>3 DEF PaymentHandlerSound
    <2>3. PaymentHandlerSound(p)'
      BY <2>2, PaymentsAssumption DEF PaymentHandlerSound
    <2> QED
      BY <2>1, <2>2, <2>3, PaymentTableKept
  <1>3. ASSUME NEW ref \in References, VerifyPayment(p, ref)
        PROVE  PaymentsSound'
    <2> USE <1>3 DEF VerifyPayment, accountVars
    <2>1. PaymentMemoryOK' /\ OtherPaymentsKept(p)
      BY DEF OtherPaymentsKept
    <2>2. /\ pc'[p] = "verify_ask" /\ payTarget'[p] = ref
          /\ payStatus'[ref] \notin {"none", "success"} /\ charge'[ref] # "none"
      BY DEF RowsHaveCharges
    <2>3. PaymentHandlerSound(p)'
      BY <2>2 DEF PaymentHandlerSound
    <2> QED
      BY <2>1, <2>2, <2>3, PaymentTableKept
  <1> QED
    BY <1>1, <1>2, <1>3 DEF PaymentRequest

\* A handler runs on to its next await.
LEMMA PaymentStepSound ==
    ASSUME PaymentsSound, AccountsInv', raced \subseteq raced', SharedPayments' \subseteq raced',
           NEW p \in Procs, PaymentStep(p)
    PROVE  PaymentsSound'
  <1> DEFINE ref == payTarget[p]
  <1>1. PaymentHandlerSound(p) /\ PaymentTablesOK /\ PaymentMemoryOK /\ AccountsTypeOK
    BY DEF PaymentsSound, AccountsInv
  <1>2. CASE VerifyAskPaystack(p)
    <2> USE <1>2 DEF VerifyAskPaystack, accountVars, payState, paystackVars, payTable,
                     payLocals, Goto
    <2>1. PaymentMemoryOK' /\ OtherPaymentsKept(p) /\ payLock' \in [References -> Procs \cup {NoProc}]
      BY <1>1 DEF OtherPaymentsKept, PaymentMemoryOK, SlotsOK, PaymentTablesOK, PaymentLabels
    <2>2. /\ pc'[p] \in {"verify_begin", "verify_failed"} /\ payTarget'[p] = ref
          /\ pc'[p] = "verify_begin" => charge'[ref] = "paid"
      BY <1>1 DEF PaymentMemoryOK, SlotsOK
    <2>3. PaymentHandlerSound(p)'
      BY <1>1, <2>2 DEF PaymentHandlerSound, TargetLabels, VerifyLabels
    <2> QED
      BY <2>1, <2>2, <2>3, PaymentTableKept
  <1>3. CASE VerifyBegin(p)
    <2> USE <1>3 DEF VerifyBegin, ReadUser, paystackVars, payTable, payLocals, Goto
    <2>1. PaymentMemoryOK' /\ OtherPaymentsKept(p)
      <3>1. PaymentMemoryOK'
        BY <1>1 DEF PaymentMemoryOK, SlotsOK
      <3>2. OtherPaymentsKept(p)
        BY <1>1 DEF OtherPaymentsKept, SlotsOK, PaymentMemoryOK, AccountsTypeOK
      <3> QED
        BY <3>1, <3>2
    <2>2. ref \in References /\ payLock[ref] = NoProc /\ payLock' = [payLock EXCEPT ![ref] = p]
      BY <1>1 DEF PaymentHandlerSound, TargetLabels, VerifyLabels
    <2>3. /\ payLock' \in [References -> Procs \cup {NoProc}]
          /\ \A r \in References, q \in Procs \ {p} : payLock[r] = q => payLock'[r] = q
      BY <1>1, <2>2, AccountsAssumption DEF PaymentTablesOK
    <2>4. /\ pc'[p] = "verify_commit" /\ payTarget'[p] = ref
          /\ payLock'[ref] = p /\ holds'[p] = payOwner'[ref]
      BY <1>1, <2>2 DEF PaymentMemoryOK, SlotsOK, PaymentTablesOK, AccountsTypeOK
    <2>5. PaymentHandlerSound(p)'
      BY <1>1, <2>4 DEF PaymentHandlerSound, TargetLabels, VerifyLabels
    <2> QED
      BY <2>1, <2>3, <2>4, <2>5, PaymentTableKept
  <1>4. CASE PaymentHandlerFails(p)
    <2> USE <1>4 DEF PaymentHandlerFails, DropUser
    <2>1. \A q \in Procs \ {p} : holds'[q] = holds[q] /\ seen'[q] = seen[q]
      BY <1>1 DEF AccountsTypeOK
    <2> QED
      BY <2>1, PaymentDoneForgets, PaymentTableKept
  <1>5. CASE TransferCommit(p)
    <2> USE <1>5 DEF TransferCommit
    <2>1. \A q \in Procs \ {p} : holds'[q] = holds[q] /\ seen'[q] = seen[q]
      BY <1>1 DEF AccountsTypeOK, Post
    <2> QED
      BY <2>1, PaymentDoneForgets, PaymentTableKept
  <1>6. CASE InitializePaymentInsert(p)
    <2> USE <1>6 DEF InitializePaymentInsert, DropUser, paystackVars
    <2>1. /\ ref \in References /\ payStatus[ref] = "none" /\ charge[ref] # "none"
          /\ holds[p] \in Users /\ moving[p] \in Amounts
      BY <1>1 DEF PaymentHandlerSound, TargetLabels
    <2>2. PaymentMemoryOK' /\ OtherPaymentsKept(p) /\ PaymentHandlerSound(p)'
          /\ payTarget'[p] = NoReference
          /\ payLock' \in [References -> Procs \cup {NoProc}]
          /\ \A r \in References, q \in Procs \ {p} : payLock[r] = q => payLock'[r] = q
      <3>1. \A q \in Procs \ {p} : holds'[q] = holds[q] /\ seen'[q] = seen[q]
        BY <1>1 DEF AccountsTypeOK
      <3> QED
        BY <3>1, PaymentDoneForgets
    <2>3. /\ payStatus' = [payStatus EXCEPT ![ref] = "pending"]
          /\ payOwner' = [payOwner EXCEPT ![ref] = holds[p]]
          /\ payAmount' = [payAmount EXCEPT ![ref] = moving[p]]
      OBVIOUS
    <2>4. PaymentTablesOK'
      BY <1>1, <2>1, <2>2, <2>3 DEF PaymentTablesOK, PayStatuses
    <2>5. PaymentsMoveBy(p)
      BY <1>1, <2>1, <2>2, <2>3 DEF PaymentsMoveBy, PaymentTablesOK
    <2>6. payRows[ref] = 0
      BY <1>1, <2>1 DEF PaymentsSound, RowsHaveCharges, DepositsArePaid, PaymentTablesOK
    <2>7. RowsHaveCharges' /\ CreditedWithSuccess' /\ DepositsArePaid'
          /\ DepositedOnceUnlessRaced'
      BY <1>1, <2>1, <2>3, <2>6
         DEF PaymentsSound, PaymentTablesOK, RowsHaveCharges, CreditedWithSuccess,
             DepositsArePaid, DepositedOnceUnlessRaced
    <2> QED
      BY <2>2, <2>4, <2>5, <2>7, PaymentsStepSound
  <1>7. CASE VerifySaveFailed(p)
    <2> USE <1>7 DEF VerifySaveFailed, accountVars, paystackVars
    <2>1. ref \in References /\ payStatus[ref] # "none"
      BY <1>1 DEF PaymentHandlerSound, TargetLabels, VerifyLabels
    <2>2. PaymentMemoryOK' /\ OtherPaymentsKept(p) /\ PaymentHandlerSound(p)'
          /\ payTarget'[p] = NoReference
          /\ payLock' \in [References -> Procs \cup {NoProc}]
          /\ \A r \in References, q \in Procs \ {p} : payLock[r] = q => payLock'[r] = q
      BY PaymentDoneForgets
    <2>3. payStatus' \in {payStatus, [payStatus EXCEPT ![ref] = "failed"]}
      OBVIOUS
    <2>4. PaymentTablesOK'
      BY <1>1, <2>1, <2>2, <2>3 DEF PaymentTablesOK, PayStatuses
    <2>5. PaymentsMoveBy(p)
      BY <1>1, <2>1, <2>2, <2>3 DEF PaymentsMoveBy, PaymentTablesOK
    <2>6. ref \notin raced => payStatus[ref] # "success" /\ ~(payRows[ref] > 0)
      BY <1>1, <2>1 DEF PaymentsSound, PaymentHandlerSound, CreditedWithSuccess
    <2>7. RowsHaveCharges' /\ CreditedWithSuccess' /\ DepositsArePaid'
          /\ DepositedOnceUnlessRaced'
      BY <1>1, <2>1, <2>3, <2>6
         DEF PaymentsSound, PaymentTablesOK, RowsHaveCharges, CreditedWithSuccess,
             DepositsArePaid, DepositedOnceUnlessRaced
    <2> QED
      BY <2>2, <2>4, <2>5, <2>7, PaymentsStepSound
  <1>8. CASE VerifyCommit(p)
    <2> USE <1>8 DEF VerifyCommit, paystackVars
    <2>1. ref \in References /\ payStatus[ref] # "none" /\ charge[ref] = "paid"
      BY <1>1 DEF PaymentHandlerSound, TargetLabels, VerifyLabels
    <2>2. PaymentMemoryOK' /\ OtherPaymentsKept(p) /\ PaymentHandlerSound(p)'
          /\ payTarget'[p] = NoReference
          /\ payLock' \in [References -> Procs \cup {NoProc}]
          /\ \A r \in References, q \in Procs \ {p} : payLock[r] = q => payLock'[r] = q
      <3>1. \A q \in Procs \ {p} : holds'[q] = holds[q] /\ seen'[q] = seen[q]
        BY <1>1 DEF AccountsTypeOK, Post
      <3> QED
        BY <3>1, PaymentDoneForgets
    <2>3. /\ payStatus' = [payStatus EXCEPT ![ref] = "success"]
          /\ payRows' = [payRows EXCEPT ![ref] = payRows[ref] + 1]
      OBVIOUS
    <2>4. PaymentTablesOK'
      BY <1>1, <2>1, <2>2, <2>3 DEF PaymentTablesOK, PayStatuses
    <2>5. PaymentsMoveBy(p)
      BY <1>1, <2>1, <2>2, <2>3 DEF PaymentsMoveBy, PaymentTablesOK
    <2>6. ref \notin raced => payRows[ref] = 0
      BY <1>1, <2>1
         DEF PaymentsSound, PaymentHandlerSound, CreditedWithSuccess, PaymentTablesOK
    <2>7. RowsHaveCharges' /\ CreditedWithSuccess' /\ DepositsArePaid'
          /\ DepositedOnceUnlessRaced'
      BY <1>1, <2>1, <2>3, <2>6
         DEF PaymentsSound, PaymentTablesOK, RowsHaveCharges, CreditedWithSuccess,
             DepositsArePaid, DepositedOnceUnlessRaced
    <2> QED
      BY <2>2, <2>4, <2>5, <2>7, PaymentsStepSound
  <1> QED
    BY <1>2, <1>3, <1>4, <1>5, <1>6, <1>7, <1>8 DEF PaymentStep

\* A customer pays, or Paystack calls the webhook: no handler runs, and what
\* the handlers know of a charge can only become truer.
LEMMA PaystackSound ==
    ASSUME PaymentsSound, AccountsInv', raced \subseteq raced', SharedPayments' \subseteq raced', Paystack
    PROVE  PaymentsSound'
  <1> USE DEF PaymentsSound
  <1>1. PICK ref \in References : CustomerPays(ref) \/ PaystackWebhook(ref)
    BY DEF Paystack
  <1>2. UNCHANGED <<pc, holds, seen, payTable, payLock, payTarget, paySeen, moving>>
    BY <1>1 DEF CustomerPays, PaystackWebhook, accountVars, payLocals
  <1>3. /\ charge' \in [References -> {"none", "open", "paid"}]
        /\ notice' \in [References -> {"none", "refused"}]
        /\ \A r \in References :
              /\ charge'[r] \in {charge[r], "paid"}
              /\ charge'[r] # charge[r] => charge[r] = "open" /\ payStatus[r] # "none"
    BY <1>1 DEF CustomerPays, PaystackWebhook, PaymentTablesOK
  <1>4. PaymentTablesOK' /\ PaymentMemoryOK'
    BY <1>2, <1>3 DEF PaymentTablesOK, PaymentMemoryOK, SlotsOK, payTable
  <1>5. RowsHaveCharges' /\ CreditedWithSuccess' /\ DepositsArePaid'
        /\ DepositedOnceUnlessRaced'
    BY <1>2, <1>3 DEF RowsHaveCharges, CreditedWithSuccess, DepositsArePaid,
                      DepositedOnceUnlessRaced, payTable
  <1>6. \A p \in Procs : PaymentHandlerSound(p)'
    BY <1>2, <1>3 DEF PaymentHandlerSound, TargetLabels, VerifyLabels, payTable
  <1>7. (SharedPayments \subseteq raced)'
    OBVIOUS
  <1> QED
    BY <1>4, <1>5, <1>6, <1>7

\* Meanwhile the slots run other handlers.
LEMMA PaymentsElsewhere ==
    ASSUME PaymentsSound, AccountsInv', SlotsOK', UNCHANGED payState,
           raced \subseteq raced', SharedPayments' \subseteq raced',
           NEW p \in Procs, pc[p] \notin PaymentLabels, pc'[p] \notin PaymentLabels,
           OthersUntouched(p)
    PROVE  PaymentsSound'
  <1> USE DEF payState, payLocals
  <1>1. PaymentMemoryOK' /\ payLock' \in [References -> Procs \cup {NoProc}]
    BY DEF PaymentsSound, PaymentMemoryOK, PaymentTablesOK
  <1>2. payTarget'[p] = NoReference
    BY DEF PaymentsSound, PaymentHandlerSound, PaymentLabels, TargetLabels, VerifyLabels
  <1>3. PaymentHandlerSound(p)'
    BY <1>2, PaymentsAssumption
       DEF PaymentHandlerSound, PaymentLabels, TargetLabels, VerifyLabels
  <1>4. OtherPaymentsKept(p)
    BY DEF OtherPaymentsKept, OthersUntouched
  <1> QED
    BY <1>1, <1>2, <1>3, <1>4, PaymentTableKept

\* What a step leaves alone of the other slots and of their locks.
LEMMA PaymentWorkElsewhere ==
    ASSUME PaymentsSound, NEW p \in Procs, PaymentRequest(p) \/ PaymentStep(p)
    PROVE  /\ SlotsOK' /\ OthersUntouched(p) /\ rowLock' \in {rowLock, Unlocked(p)}
           /\ \A u \in Users : posted'[u]["card_funding"] = posted[u]["card_funding"]
           /\ pc[p] \in PaymentLabels \cup {"idle"}
           /\ pc'[p] \in PaymentLabels \cup {"idle"}
  <1>1. AccountsTypeOK /\ SlotsOK
    BY DEF PaymentsSound, PaymentMemoryOK, AccountsInv
  <1>2. PICK from \in PaymentLabels \cup {"idle"}, to \in PaymentLabels \cup {"idle"} :
           pc[p] = from /\ pc' = [pc EXCEPT ![p] = to]
    BY DEF PaymentRequest, InitializePayment, TransferEarnings, VerifyPayment, PaymentStep,
           InitializePaymentInsert, VerifyAskPaystack, VerifySaveFailed, VerifyBegin,
           VerifyCommit, TransferCommit, PaymentHandlerFails, PaymentDone, Idle, Goto,
           PaymentLabels
  <1>3. \/ UNCHANGED accountVars
        \/ \E u : ReadUser(p, u)
        \/ DropUser(p)
        \/ \E amount : Post(p, "deposit", amount) \/ Post(p, "transfer", amount)
    BY DEF PaymentRequest, InitializePayment, TransferEarnings, VerifyPayment, PaymentStep,
           InitializePaymentInsert, VerifyAskPaystack, VerifySaveFailed, VerifyBegin,
           VerifyCommit, TransferCommit, PaymentHandlerFails
  <1>4. PICK amount : \/ UNCHANGED accountVars
                      \/ \E u : ReadUser(p, u)
                      \/ DropUser(p)
                      \/ Post(p, "deposit", amount) \/ Post(p, "transfer", amount)
    BY <1>3
  <1> DEFINE kinds == {"deposit", "transfer"}
  <1>5. "card_funding" \notin kinds
    OBVIOUS
  <1>6. \/ UNCHANGED accountVars
        \/ \E u : ReadUser(p, u)
        \/ DropUser(p)
        \/ \E kind \in kinds : Post(p, kind, amount)
    BY <1>4
  <1> HIDE DEF kinds
  <1>7. /\ SlotsOK' /\ OthersUntouched(p) /\ pc'[p] = to
        /\ rowLock' \in {rowLock, Unlocked(p)}
        /\ \A u \in Users : posted'[u]["card_funding"] = posted[u]["card_funding"]
    BY <1>1, <1>2, <1>5, <1>6, TouchesOwnSlot
  <1> QED
    BY <1>2, <1>7

-----------------------------------------------------------------------------
(* Theorems *)

\* A step is a step that the abstract specification of the tables allows.
LEMMA PaymentsNextAccounts ==
    ASSUME PaymentsSound, [PaymentsNext]_payVars
    PROVE  [AccountsNext]_accountVars
  <1>1. CASE Paystack
    BY <1>1 DEF Paystack, CustomerPays, PaystackWebhook
  <1> QED
    BY <1>1, PaymentWorkAccounts DEF PaymentsNext, payVars

\* What touches neither the payments nor the slots changes nothing for them.
LEMMA PaymentsStill ==
    ASSUME PaymentsSound, UNCHANGED payVars, raced \subseteq raced'
    PROVE  PaymentsSound'
  <1> USE DEF payVars, payState, paystackVars, payTable, payLocals, accountVars, PaymentsSound
  <1>1. AccountsInv'
    BY AccountsStepInv
  <1>2. PaymentTablesOK' /\ PaymentMemoryOK'
    BY DEF PaymentTablesOK, PaymentMemoryOK, SlotsOK
  <1>3. /\ RowsHaveCharges' /\ CreditedWithSuccess' /\ DepositsArePaid'
        /\ DepositedOnceUnlessRaced'
    BY DEF RowsHaveCharges, CreditedWithSuccess, DepositsArePaid, DepositedOnceUnlessRaced
  <1>4. (SharedPayments \subseteq raced)'
    BY DEF SharedPayments, Shared, PaymentWorksOn
  <1>5. \A p \in Procs : PaymentHandlerSound(p)'
    BY DEF PaymentHandlerSound, TargetLabels, VerifyLabels
  <1> QED
    BY <1>1, <1>2, <1>3, <1>4, <1>5

\* Every step of the specification keeps the inductive invariant.
LEMMA PaymentsNextSound ==
    ASSUME PaymentsSound,
           [PaymentsNext /\ raced' = raced \cup SharedPayments']_<<payVars, raced>>
    PROVE  PaymentsSound'
  <1>1. AccountsInv'
    BY PaymentsNextAccounts, AccountsStepInv DEF PaymentsSound
  <1>2. CASE UNCHANGED <<payVars, raced>>
    BY <1>2, PaymentsStill
  <1>3. CASE PaymentsNext /\ raced' = raced \cup SharedPayments'
    <2>1. raced \subseteq raced' /\ SharedPayments' \subseteq raced'
      BY <1>3
    <2> QED
      BY <1>1, <1>3, <2>1, PaymentRequestSound, PaymentStepSound, PaystackSound
         DEF PaymentsNext
  <1> QED
    BY <1>2, <1>3

\* However payments are opened, paid and verified, by any number of handlers
\* at once and wherever they fail: a wallet is credited only for a charge that
\* was paid, a success was credited, and a payment that no two handlers
\* verified at once was credited once.
THEOREM PaymentsInvariant == PaymentsSpec => []DepositsInv
  <1>1. PaymentsStart => PaymentsSound
    BY PaymentsStartSound
  <1>2. PaymentsSound
        /\ [PaymentsNext /\ raced' = raced \cup SharedPayments']_<<payVars, raced>>
          => PaymentsSound'
    BY PaymentsNextSound
  <1>3. PaymentsSound => DepositsInv
    BY PaymentsSoundInv
  <1> QED
    BY <1>1, <1>2, <1>3, PTL DEF PaymentsSpec

\* A step takes a success away only from a payment that was verified twice.
LEMMA PaymentsStepFinal ==
    ASSUME PaymentsSound, [PaymentsNext]_payVars,
           NEW ref \in References \ raced, payStatus[ref] = "success"
    PROVE  payStatus'[ref] = "success"
  <1> USE DEF PaymentsSound
  <1>1. PaymentTablesOK /\ \A p \in Procs : PaymentHandlerSound(p)
    OBVIOUS
  <1>2. CASE UNCHANGED payVars \/ Paystack
    BY <1>2 DEF payVars, payState, payTable, Paystack, CustomerPays, PaystackWebhook
  <1>3. ASSUME NEW p \in Procs, PaymentRequest(p)
        PROVE  payStatus'[ref] = "success"
    BY <1>3 DEF PaymentRequest, InitializePayment, TransferEarnings, VerifyPayment, payTable
  <1>4. ASSUME NEW p \in Procs, PaymentStep(p)
        PROVE  payStatus'[ref] = "success"
    <2>1. CASE InitializePaymentInsert(p)
      <3>1. payTarget[p] # ref
        BY <1>1, <2>1 DEF PaymentHandlerSound
      <3> QED
        BY <1>1, <2>1, <3>1 DEF InitializePaymentInsert, PaymentTablesOK
    <2>2. CASE VerifySaveFailed(p)
      <3>1. payTarget[p] # ref
        BY <1>1 DEF PaymentHandlerSound
      <3> QED
        BY <1>1, <2>2, <3>1 DEF VerifySaveFailed, PaymentTablesOK
    <2>3. CASE VerifyCommit(p)
      BY <1>1, <2>3 DEF VerifyCommit, PaymentTablesOK
    <2>4. CASE VerifyAskPaystack(p) \/ VerifyBegin(p) \/ TransferCommit(p)
               \/ PaymentHandlerFails(p)
      BY <2>4 DEF VerifyAskPaystack, VerifyBegin, TransferCommit, PaymentHandlerFails,
                  payState, payTable
    <2> QED
      BY <1>4, <2>1, <2>2, <2>3, <2>4 DEF PaymentStep
  <1> QED
    BY <1>2, <1>3, <1>4 DEF PaymentsNext

\* verifyPayment returns a payment that succeeded as it is, and no handler
\* that began before can record it as failed unless two worked on it at once.
THEOREM PaymentsSuccessIsFinal == PaymentsSpec => SuccessIsFinalUnlessRaced
  <1>1. PaymentsStart => PaymentsSound
    BY PaymentsStartSound
  <1>2. PaymentsSound
        /\ [PaymentsNext /\ raced' = raced \cup SharedPayments']_<<payVars, raced>>
          => /\ PaymentsSound'
             /\ [\A ref \in References \ raced :
                    payStatus[ref] = "success" => payStatus'[ref] = "success"]_payStatus
    <2> SUFFICES ASSUME PaymentsSound,
                        [PaymentsNext /\ raced' = raced \cup SharedPayments']_<<payVars, raced>>
                 PROVE  /\ PaymentsSound'
                        /\ \A ref \in References \ raced :
                              payStatus[ref] = "success" => payStatus'[ref] = "success"
      OBVIOUS
    <2>1. [PaymentsNext]_payVars
      OBVIOUS
    <2> QED
      BY <2>1, PaymentsNextSound, PaymentsStepFinal
  <1> QED
    BY <1>1, <1>2, PTL DEF PaymentsSpec, SuccessIsFinalUnlessRaced

\* The handlers of payments implement the abstract specification of the money
\* tables: a deposit posts one row and a transfer takes what is covered.
THEOREM PaymentsImplementAccounts == PaymentsSpec => AccountsSpec
  <1>1. PaymentsStart => PaymentsSound /\ AccountsInit
    BY PaymentsStartSound DEF PaymentsStart
  <1>2. PaymentsSound
        /\ [PaymentsNext /\ raced' = raced \cup SharedPayments']_<<payVars, raced>>
          => PaymentsSound' /\ [AccountsNext]_accountVars
    <2>1. [PaymentsNext /\ raced' = raced \cup SharedPayments']_<<payVars, raced>>
             => [PaymentsNext]_payVars
      OBVIOUS
    <2> QED
      BY <2>1, PaymentsNextSound, PaymentsNextAccounts
  <1> QED
    BY <1>1, <1>2, PTL DEF PaymentsSpec, AccountsSpec

-----------------------------------------------------------------------------
(* Card funding: the handler keeps the row of the owner locked while it    *)
(* talks to Sudo, so for one owner, and hence for one card, one transfer   *)
(* at most is under way; what Sudo put on a card was booked, is about to   *)
(* be, or belongs to a handler that failed after its transfer.             *)

\* The transaction of the handler is open, with the row of the owner locked.
LockingLabels == {"fund_transfer"} \cup MovedLabels

\* Sudo has moved money onto this card for this handler, and the books do not
\* know yet.
InFlightOn(p, card) == fundTarget[p] = card /\ pc[p] \in MovedLabels

\* FundingAccountedFor, said of each handler.
FundingBooked ==
    \A card \in Cards :
        /\ (\A p \in Procs : ~InFlightOn(p, card)) =>
              funded[card] = cardRows[card] + forgotten[card]
        /\ \A p \in Procs : InFlightOn(p, card) =>
              funded[card] = cardRows[card] + forgotten[card] + fundAmount[p]

\* The owner cannot spend what Sudo never put on the card.
OnCardWasFunded == \A card \in Cards : onCard[card] <= funded[card]

\* The inductive invariant.
FundingSound ==
    /\ AccountsInv
    /\ SlotsOK /\ FundingTypeOK
    /\ LockedWhileFunding /\ FundingRowsAgree
    /\ FundingBooked /\ OnCardWasFunded

\* Two handlers in an open transaction never work for one owner: the row lock
\* keeps them apart.
LEMMA OneLocksTheOwner ==
    ASSUME FundingSound, NEW p \in Procs, NEW q \in Procs,
           pc[p] \in LockingLabels, pc[q] \in LockingLabels,
           CardOwner[fundTarget[p]] = CardOwner[fundTarget[q]]
    PROVE  p = q
  <1>1. /\ holds[p] = CardOwner[fundTarget[p]] /\ fundTarget[p] \in Cards
        /\ holds[q] = CardOwner[fundTarget[q]] /\ fundTarget[q] \in Cards
    BY DEF FundingSound, FundingTypeOK, LockingLabels, MovedLabels, FundLabels
  <1>2. CardOwner[fundTarget[p]] \in Users
    BY <1>1, CardFundingAssumption
  <1> QED
    BY <1>1, <1>2 DEF FundingSound, LockedWhileFunding, LockingLabels

\* The inductive invariant is as strong as the property.
LEMMA FundingSoundInv == FundingSound => FundingInv
  <1> SUFFICES ASSUME FundingSound PROVE FundingAccountedFor
    BY DEF FundingSound, FundingInv
  <1> SUFFICES ASSUME NEW card \in Cards
               PROVE  LET booked == cardRows[card] + forgotten[card]
                          underWay == {p \in Procs : fundTarget[p] = card /\ pc[p] \in MovedLabels}
                      IN  \/ underWay = {} /\ funded[card] = booked
                          \/ \E p \in Procs : /\ underWay = {p}
                                              /\ funded[card] = booked + fundAmount[p]
    BY DEF FundingAccountedFor
  <1>1. CASE \A p \in Procs : ~InFlightOn(p, card)
    BY <1>1 DEF FundingSound, FundingBooked, InFlightOn
  <1>2. ASSUME NEW p \in Procs, InFlightOn(p, card)
        PROVE  /\ {q \in Procs : fundTarget[q] = card /\ pc[q] \in MovedLabels} = {p}
               /\ funded[card] = cardRows[card] + forgotten[card] + fundAmount[p]
    <2>1. \A q \in Procs : InFlightOn(q, card) => q = p
      BY <1>2, OneLocksTheOwner DEF InFlightOn, LockingLabels
    <2> QED
      BY <1>2, <2>1 DEF FundingSound, FundingBooked, InFlightOn
  <1> QED
    BY <1>1, <1>2

-----------------------------------------------------------------------------
(* Sums of rows, as numbers of units *)

\* The rows of a user's cards are finitely many units.
LEMMA UnitsFinite ==
    ASSUME NEW u, cardRows \in [Cards -> Nat]
    PROVE  IsFiniteSet(FundedUnits(u)) /\ Cardinality(FundedUnits(u)) \in Nat
  <1> DEFINE own == {c \in Cards : CardOwner[c] = u}
             Units(card) == {card} \X (1..cardRows[card])
             all == UNION {Units(card) : card \in own}
  <1>1. IsFiniteSet(Cards) /\ own \in SUBSET Cards
    BY CardFundingAssumption
  <1>2. IsFiniteSet(own)
    BY <1>1, FS_Subset
  <1>3. \A card \in own : IsFiniteSet(Units(card))
    <2> SUFFICES ASSUME NEW card \in own PROVE IsFiniteSet(Units(card))
      OBVIOUS
    <2>1. cardRows[card] \in Int
      OBVIOUS
    <2>2. IsFiniteSet(1..cardRows[card])
      BY <2>1, FS_Interval
    <2>3. IsFiniteSet({card})
      BY FS_Singleton
    <2> QED
      BY <2>2, <2>3, FS_Product
  <1>4. IsFiniteSet({Units(card) : card \in own})
    <2> DEFINE f == [card \in own |-> Units(card)]
    <2>1. {Units(card) : card \in own} = {f[card] : card \in own}
      OBVIOUS
    <2>2. f \in Surjection(own, {Units(card) : card \in own})
      BY DEF Surjection
    <2> QED
      BY <1>2, <2>2, FS_Surjection
  <1> HIDE DEF Units
  <1>5. \A T \in {Units(card) : card \in own} : IsFiniteSet(T)
    BY <1>3
  <1>6. IsFiniteSet(all)
    BY <1>4, <1>5, FS_UNION
  <1> USE DEF Units
  <1>7. FundedUnits(u) = all
    BY DEF FundedUnits
  <1> QED
    BY <1>6, <1>7, FS_CardinalityType

\* A FUNDING row adds its amount to the sum of its owner's rows.
LEMMA UnitsAdded ==
    ASSUME NEW card \in Cards, NEW amount \in Nat,
           cardRows \in [Cards -> Nat],
           cardRows' = [cardRows EXCEPT ![card] = cardRows[card] + amount],
           NEW u
    PROVE  Cardinality(FundedUnits(u)') =
              IF u = CardOwner[card] THEN Cardinality(FundedUnits(u)) + amount
                                     ELSE Cardinality(FundedUnits(u))
  <1> DEFINE new == {card} \X ((cardRows[card] + 1)..(cardRows[card] + amount))
             Listed(c, i) == c \in Cards /\ CardOwner[c] = u /\ i \in 1..cardRows[c]
             ListedNow(c, i) == c \in Cards /\ CardOwner[c] = u /\ i \in 1..cardRows'[c]
  <1>1. \A x : x \in FundedUnits(u) <=> \E c, i : x = <<c, i>> /\ Listed(c, i)
    BY DEF FundedUnits
  <1>2. \A x : x \in FundedUnits(u)' <=> \E c, i : x = <<c, i>> /\ ListedNow(c, i)
    BY DEF FundedUnits
  <1>3. \A c, i : ListedNow(c, i) <=>
            \/ Listed(c, i)
            \/ /\ c = card /\ CardOwner[card] = u
               /\ i \in (cardRows[card] + 1)..(cardRows[card] + amount)
    OBVIOUS
  <1>4. \A x : x \in new <=>
            \E i \in (cardRows[card] + 1)..(cardRows[card] + amount) : x = <<card, i>>
    OBVIOUS
  <1>5. \A x \in new : x \notin FundedUnits(u)
    BY <1>1, <1>4
  <1>6. IsFiniteSet(FundedUnits(u)) /\ Cardinality(FundedUnits(u)) \in Nat
    BY UnitsFinite
  <1>7. IsFiniteSet(new) /\ Cardinality(new) = amount
    <2> DEFINE span == (cardRows[card] + 1)..(cardRows[card] + amount)
    <2>1. cardRows[card] + 1 \in Int /\ cardRows[card] + amount \in Int
      OBVIOUS
    <2>2. /\ IsFiniteSet(span)
          /\ Cardinality(span) =
                IF cardRows[card] + 1 > cardRows[card] + amount THEN 0
                ELSE (cardRows[card] + amount) - (cardRows[card] + 1) + 1
      BY <2>1, FS_Interval
    <2>3. Cardinality(span) = amount
      BY <2>2
    <2>4. IsFiniteSet({card}) /\ Cardinality({card}) = 1
      BY FS_Singleton
    <2> HIDE DEF span
    <2>5. IsFiniteSet({card} \X span) /\ Cardinality({card} \X span) = 1 * amount
      BY <2>2, <2>3, <2>4, FS_Product
    <2> QED
      BY <2>5 DEF span
  <1> HIDE DEF new
  <1>8. CASE u = CardOwner[card]
    <2>1. FundedUnits(u)' = FundedUnits(u) \cup new
      BY <1>1, <1>2, <1>3, <1>4, <1>8
    <2>2. FundedUnits(u) \cap new = {}
      BY <1>5
    <2>3. Cardinality(FundedUnits(u) \cup new)
            = Cardinality(FundedUnits(u)) + Cardinality(new) - Cardinality({})
      BY <1>6, <1>7, <2>2, FS_Union
    <2>4. Cardinality({}) = 0
      BY FS_EmptySet
    <2> QED
      BY <1>6, <1>7, <1>8, <2>1, <2>3, <2>4
  <1>9. CASE u # CardOwner[card]
    <2>1. FundedUnits(u)' = FundedUnits(u)
      BY <1>1, <1>2, <1>3, <1>9
    <2> QED
      BY <1>9, <2>1
  <1> QED
    BY <1>8, <1>9

\* At first no row lists a unit.
LEMMA NoUnitsAtFirst ==
    ASSUME cardRows = [card \in Cards |-> 0], NEW u
    PROVE  Cardinality(FundedUnits(u)) = 0
  <1>1. FundedUnits(u) = {}
    BY DEF FundedUnits
  <1> QED
    BY <1>1, FS_EmptySet

-----------------------------------------------------------------------------
(* What the handlers do to the money tables *)

\* A funding takes what its handler saw in the wallet, and posts it.
LEMMA FundStepAccounts ==
    ASSUME FundingSound, NEW p \in Procs, FundRequest(p) \/ FundStep(p)
    PROVE  AccountsNext \/ UNCHANGED accountVars
  <1> USE DEF FundingSound, FundingTypeOK, FundLabels
  <1>1. CASE FundRequest(p) \/ FundSyncCard(p) \/ FundTransfer(p) \/ FundRefresh(p)
    BY <1>1 DEF FundRequest, FundCard, FundSyncCard, FundTransfer, FundRefresh
  <1>2. CASE FundAnswerLost(p) \/ FundFails(p)
    BY <1>2 DEF FundAnswerLost, FundFails, AccountsNext
  <1>3. CASE FundReadUser(p)
    <2>1. CardOwner[fundTarget[p]] \in Users
      BY <1>3, CardFundingAssumption DEF FundReadUser
    <2> QED
      BY <1>3, <2>1 DEF FundReadUser, AccountsNext
  <1>4. CASE FundBegin(p)
    <2>1. holds[p] \in Users
      BY <1>4, CardFundingAssumption DEF FundBegin
    <2> QED
      BY <1>4, <2>1 DEF FundBegin, AccountsNext
  <1>5. CASE FundCommit(p)
    <2>1. holds[p] \in Users /\ fundAmount[p] \in Amounts /\ fundAmount[p] <= seen[p]["wallet"]
      BY <1>5, CardFundingAssumption DEF FundCommit
    <2>2. Post(p, "card_funding", fundAmount[p])
      BY <1>5 DEF FundCommit
    <2>3. Covered(p, "card_funding", fundAmount[p])
      BY <2>1 DEF Covered, Writes, Adds, Takes, Columns
    <2>4. "card_funding" \in Kinds
      BY DEF Kinds
    <2>5. PostCovered(p)
      BY <2>1, <2>2, <2>3, <2>4 DEF PostCovered
    <2> QED
      BY <2>5 DEF AccountsNext
  <1> QED
    BY <1>1, <1>2, <1>3, <1>4, <1>5 DEF FundStep

-----------------------------------------------------------------------------
(* A step as the other handlers see it *)

\* The memory of the other handlers, and their locks, are theirs alone.
OtherFundersKept(p) ==
    /\ \A q \in Procs \ {p} :
          /\ pc'[q] = pc[q] /\ holds'[q] = holds[q] /\ seen'[q] = seen[q]
          /\ fundTarget'[q] = fundTarget[q] /\ fundAmount'[q] = fundAmount[q]
    /\ \A u \in Users, q \in Procs \ {p} : rowLock'[u] = q <=> rowLock[u] = q

\* What the slot of a step knows and has locked.
FunderSound(p) ==
    /\ pc[p] \in FundLabels => fundTarget[p] \in Cards /\ fundAmount[p] \in Amounts
    /\ pc[p] \in FundLabels \ {"fund_sync", "fund_user"} =>
          /\ holds[p] = CardOwner[fundTarget[p]]
          /\ fundAmount[p] <= seen[p]["wallet"]
    /\ \A u \in Users : rowLock[u] = p <=> holds[p] = u /\ pc[p] \in LockingLabels

FundingTablesOK ==
    /\ onCard \in [Cards -> 0..MaxFunded]
    /\ funded \in [Cards -> 0..MaxFunded]
    /\ cardBalance \in [Cards -> Nat]
    /\ cardRows \in [Cards -> Nat]
    /\ forgotten \in [Cards -> Nat]

FundingMemoryOK ==
    /\ SlotsOK
    /\ fundTarget \in [Procs -> Cards \cup {NoCard}]
    /\ fundAmount \in [Procs -> Amounts \cup {0}]
    /\ cardSeen \in [Procs -> Nat]
    /\ cardClean \in [Procs -> BOOLEAN]

\* What is left to show of a step: what it writes, and what its handler knows.
LEMMA FundingStepSound ==
    ASSUME FundingSound, NEW p \in Procs, AccountsInv', FundingTablesOK', FundingMemoryOK',
           OtherFundersKept(p), FunderSound(p)',
           FundingRowsAgree', FundingBooked', OnCardWasFunded'
    PROVE  FundingSound'
  <1>1. \A q \in Procs : FunderSound(q)
    BY DEF FundingSound, FundingTypeOK, LockedWhileFunding, FunderSound, LockingLabels
  <1>2. \A q \in Procs : FunderSound(q)'
    BY <1>1 DEF FunderSound, OtherFundersKept
  <1>3. LockedWhileFunding'
    BY <1>2 DEF LockedWhileFunding, FunderSound, LockingLabels
  <1>4. FundingTypeOK'
    BY <1>2 DEF FundingTypeOK, FunderSound, FundingTablesOK, FundingMemoryOK, AccountsInv
  <1> QED
    BY <1>3, <1>4 DEF FundingSound, FundingMemoryOK

\* The same of the state before a step.
LEMMA FundersAreSound ==
    ASSUME FundingSound, NEW p \in Procs
    PROVE  FundingTablesOK /\ FundingMemoryOK /\ FunderSound(p) /\ AccountsTypeOK
  BY DEF FundingSound, FundingTypeOK, LockedWhileFunding, FundingTablesOK, FundingMemoryOK,
         FunderSound, LockingLabels

\* A step that leaves Sudo's transfers and the rows of card_transactions alone,
\* of a handler that neither was nor is between the transfer and its commit,
\* or was and is.
FundingStill(p) ==
    /\ UNCHANGED <<funded, cardRows, forgotten>>
    /\ \A u \in Users : posted'[u]["card_funding"] = posted[u]["card_funding"]
    /\ onCard' \in [Cards -> 0..MaxFunded] /\ cardBalance' \in [Cards -> Nat]
    /\ \A card \in Cards : onCard'[card] <= onCard[card]
    /\ \/ pc[p] \notin MovedLabels /\ pc'[p] \notin MovedLabels
       \/ /\ pc[p] \in MovedLabels /\ pc'[p] \in MovedLabels
          /\ fundTarget'[p] = fundTarget[p] /\ fundAmount'[p] = fundAmount[p]

\* Such a step keeps the three books as they are.
LEMMA FundingBooksKept ==
    ASSUME FundingSound, NEW p \in Procs, AccountsInv', FundingMemoryOK',
           OtherFundersKept(p), FunderSound(p)', FundingStill(p)
    PROVE  FundingSound'
  <1>1. FundingTablesOK'
    BY DEF FundingSound, FundingTypeOK, FundingTablesOK, FundingStill
  <1>2. FundingRowsAgree'
    <2>1. \A u \in Users : FundedUnits(u)' = FundedUnits(u)
      BY DEF FundedUnits, FundingStill
    <2> QED
      BY <2>1 DEF FundingSound, FundingRowsAgree, FundingStill
  <1>3. OnCardWasFunded'
    BY <1>1 DEF FundingSound, FundingTypeOK, FundingTablesOK, OnCardWasFunded, FundingStill
  <1>4. FundingBooked'
    <2>1. \A card \in Cards, q \in Procs :
             /\ InFlightOn(q, card)' <=> InFlightOn(q, card)
             /\ InFlightOn(q, card) => fundAmount'[q] = fundAmount[q]
      BY DEF InFlightOn, OtherFundersKept, FundingStill
    <2> QED
      BY <2>1 DEF FundingSound, FundingBooked, FundingStill
  <1> QED
    BY <1>1, <1>2, <1>3, <1>4, FundingStepSound

\* Before a step of the one handler that has the owner locked, the books of
\* its card differ by what Sudo moved for it.
LEMMA FundingBooksBefore ==
    ASSUME FundingSound, NEW p \in Procs, pc[p] \in LockingLabels
    PROVE  /\ \A q \in Procs \ {p} : ~InFlightOn(q, fundTarget[p])
           /\ fundTarget[p] \in Cards /\ fundAmount[p] \in Amounts
           /\ funded[fundTarget[p]]
                = cardRows[fundTarget[p]] + forgotten[fundTarget[p]]
                    + (IF pc[p] \in MovedLabels THEN fundAmount[p] ELSE 0)
  <1>1. fundTarget[p] \in Cards /\ fundAmount[p] \in Amounts
    BY DEF FundingSound, FundingTypeOK, LockingLabels, MovedLabels, FundLabels
  <1>2. \A q \in Procs \ {p} : ~InFlightOn(q, fundTarget[p])
    BY OneLocksTheOwner DEF InFlightOn, LockingLabels
  <1>3. /\ funded[fundTarget[p]] \in Nat /\ cardRows[fundTarget[p]] \in Nat
        /\ forgotten[fundTarget[p]] \in Nat
    BY <1>1, CardFundingAssumption DEF FundingSound, FundingTypeOK
  <1>4. CASE pc[p] \in MovedLabels
    <2>1. InFlightOn(p, fundTarget[p])
      BY <1>4 DEF InFlightOn
    <2>2. funded[fundTarget[p]]
            = cardRows[fundTarget[p]] + forgotten[fundTarget[p]] + fundAmount[p]
      BY <1>1, <2>1 DEF FundingSound, FundingBooked
    <2> QED
      BY <1>1, <1>2, <1>4, <2>2
  <1>5. CASE pc[p] \notin MovedLabels
    <2>1. \A q \in Procs : ~InFlightOn(q, fundTarget[p])
      BY <1>2, <1>5 DEF InFlightOn
    <2>2. funded[fundTarget[p]] = cardRows[fundTarget[p]] + forgotten[fundTarget[p]]
      BY <1>1, <2>1 DEF FundingSound, FundingBooked
    <2> QED
      BY <1>1, <1>2, <1>3, <1>5, <2>2
  <1> QED
    BY <1>4, <1>5

\* After its step, they differ by what the books still do not know.
LEMMA FundingBooksAfter ==
    ASSUME FundingSound, NEW p \in Procs, pc[p] \in LockingLabels,
           OtherFundersKept(p),
           \A card \in Cards \ {fundTarget[p]} :
              /\ funded'[card] = funded[card] /\ cardRows'[card] = cardRows[card]
              /\ forgotten'[card] = forgotten[card],
           pc'[p] \in MovedLabels => fundTarget'[p] = fundTarget[p],
           funded'[fundTarget[p]] \in Nat,
           cardRows'[fundTarget[p]] \in Nat, forgotten'[fundTarget[p]] \in Nat,
           funded'[fundTarget[p]]
              = cardRows'[fundTarget[p]] + forgotten'[fundTarget[p]]
                  + (IF pc'[p] \in MovedLabels THEN fundAmount'[p] ELSE 0)
    PROVE  FundingBooked'
  <1> DEFINE mine == fundTarget[p]
  <1>1. \A q \in Procs \ {p} : ~InFlightOn(q, mine)
    BY FundingBooksBefore
  <1>2. \A q \in Procs \ {p}, card \in Cards :
           /\ InFlightOn(q, card)' <=> InFlightOn(q, card)
           /\ fundAmount'[q] = fundAmount[q]
    BY DEF InFlightOn, OtherFundersKept
  <1>3. \A card \in Cards \ {mine} : ~InFlightOn(p, card) /\ ~InFlightOn(p, card)'
    BY DEF InFlightOn
  <1> SUFFICES ASSUME NEW card \in Cards
               PROVE  /\ (\A q \in Procs : ~InFlightOn(q, card)')
                            => funded'[card] = cardRows'[card] + forgotten'[card]
                      /\ \A q \in Procs : InFlightOn(q, card)' =>
                            funded'[card] = cardRows'[card] + forgotten'[card] + fundAmount'[q]
    BY DEF FundingBooked
  <1>4. CASE card = mine
    <2>1. InFlightOn(p, card)' <=> pc'[p] \in MovedLabels
      BY <1>4 DEF InFlightOn
    <2>2. CASE pc'[p] \in MovedLabels
      <3>1. funded'[mine] = cardRows'[mine] + forgotten'[mine] + fundAmount'[p]
        BY <2>2
      <3>2. \A q \in Procs : InFlightOn(q, card)' <=> q = p
        BY <1>1, <1>2, <1>4, <2>1, <2>2
      <3> QED
        BY <1>4, <3>1, <3>2
    <2>3. CASE pc'[p] \notin MovedLabels
      <3>1. funded'[mine] = cardRows'[mine] + forgotten'[mine]
        BY <2>3
      <3>2. \A q \in Procs : ~InFlightOn(q, card)'
        BY <1>1, <1>2, <1>4, <2>1, <2>3
      <3> QED
        BY <1>4, <3>1, <3>2
    <2> QED
      BY <2>2, <2>3
  <1>5. CASE card # mine
    BY <1>2, <1>3, <1>5 DEF FundingSound, FundingBooked
  <1> QED
    BY <1>4, <1>5

-----------------------------------------------------------------------------
(* The handlers, step by step *)

\* A funding is asked for.
LEMMA FundRequestSound ==
    ASSUME FundingSound, AccountsInv', NEW p \in Procs, FundRequest(p)
    PROVE  FundingSound'
  <1>1. PICK card \in Cards, amount \in Amounts : FundCard(p, card, amount)
    BY DEF FundRequest
  <1>2. /\ FundingTablesOK /\ FundingMemoryOK /\ FunderSound(p)
        /\ AccountsTypeOK
    BY FundersAreSound
  <1>3. onCard[card] \in Nat /\ cardBalance[card] \in Nat
    BY <1>2, CardFundingAssumption DEF FundingTablesOK
  <1>4. /\ UNCHANGED <<accountVars, sudoCardVars, cardTables, forgotten, cardClean>>
        /\ fundTarget' = [fundTarget EXCEPT ![p] = card]
        /\ fundAmount' = [fundAmount EXCEPT ![p] = amount]
        /\ pc[p] = "idle"
    BY <1>1 DEF FundCard, Idle
  <1>5. PICK label \in {"fund_sync", "fund_user"}, now \in Nat :
           pc' = [pc EXCEPT ![p] = label] /\ cardSeen' = [cardSeen EXCEPT ![p] = now]
    BY <1>1, <1>3 DEF FundCard, Goto
  <1>6. FundingMemoryOK'
    BY <1>2, <1>4, <1>5 DEF FundingMemoryOK, SlotsOK
  <1>7. OtherFundersKept(p)
    BY <1>2, <1>4, <1>5 DEF OtherFundersKept, FundingMemoryOK, SlotsOK, accountVars
  <1>8. pc'[p] = label /\ fundTarget'[p] = card /\ fundAmount'[p] = amount
    BY <1>2, <1>4, <1>5 DEF FundingMemoryOK, SlotsOK
  <1>9. FunderSound(p)'
    BY <1>2, <1>4, <1>8 DEF FunderSound, LockingLabels, MovedLabels, FundLabels, accountVars
  <1>10. FundingStill(p)
    BY <1>2, <1>4, <1>8
       DEF FundingStill, FundingTablesOK, MovedLabels, accountVars, sudoCardVars, cardTables
  <1> QED
    BY <1>6, <1>7, <1>9, <1>10, FundingBooksKept

\* Before Sudo is asked for the transfer.
LEMMA FundPrepareSound ==
    ASSUME FundingSound, AccountsInv', NEW p \in Procs,
           FundSyncCard(p) \/ FundReadUser(p) \/ FundBegin(p)
    PROVE  FundingSound'
  <1>1. FundingTablesOK /\ FundingMemoryOK /\ FunderSound(p) /\ AccountsTypeOK
    BY FundersAreSound
  <1> USE DEF FundingMemoryOK, SlotsOK, Goto
  <1>2. CASE FundSyncCard(p)
    <2> USE <1>2 DEF FundSyncCard
    <2>1. FundingMemoryOK' /\ OtherFundersKept(p)
      BY <1>1 DEF OtherFundersKept, accountVars
    <2>2. pc[p] = "fund_sync" /\ pc'[p] = "fund_user"
      BY <1>1
    <2>3. FunderSound(p)'
      BY <1>1, <2>2 DEF FunderSound, LockingLabels, MovedLabels, FundLabels, accountVars
    <2>4. cardBalance' \in [Cards -> Nat] /\ UNCHANGED <<onCard, funded, posted>>
      BY <1>1 DEF FundingTablesOK, accountVars, sudoCardVars
    <2>5. \A card \in Cards : onCard[card] \in Int
      BY <1>1, CardFundingAssumption DEF FundingTablesOK
    <2>6. FundingStill(p)
      BY <1>1, <2>2, <2>4, <2>5 DEF FundingStill, FundingTablesOK, MovedLabels
    <2> QED
      BY <2>1, <2>3, <2>6, FundingBooksKept
  <1>3. CASE FundReadUser(p)
    <2> USE <1>3 DEF FundReadUser, ReadUser, fundState, sudoCardVars, cardTables, fundLocals
    <2>1. FundingMemoryOK' /\ OtherFundersKept(p)
      BY <1>1 DEF OtherFundersKept, AccountsTypeOK
    <2>2. pc[p] = "fund_user" /\ pc'[p] = "fund_begin"
      BY <1>1
    <2>3. /\ holds'[p] = CardOwner[fundTarget[p]]
          /\ seen'[p] = balance[CardOwner[fundTarget[p]]]
      BY <1>1 DEF AccountsTypeOK
    <2>4. FunderSound(p)'
      BY <1>1, <2>2, <2>3 DEF FunderSound, LockingLabels, MovedLabels, FundLabels
    <2>5. FundingStill(p)
      BY <1>1, <2>2 DEF FundingStill, FundingTablesOK, MovedLabels
    <2> QED
      BY <2>1, <2>4, <2>5, FundingBooksKept
  <1>4. CASE FundBegin(p)
    <2> USE <1>4 DEF FundBegin, LockUser, fundState, sudoCardVars, cardTables, fundLocals
    <2>1. FundingMemoryOK'
      BY <1>1
    <2>2. pc[p] = "fund_begin" /\ pc'[p] = "fund_transfer"
      BY <1>1
    <2>3. holds[p] = CardOwner[fundTarget[p]] /\ holds[p] \in Users
      BY <1>1, <2>2, CardFundingAssumption DEF FunderSound, FundLabels
    <2>4. \A u \in Users : rowLock'[u] = IF u = holds[p] THEN p ELSE rowLock[u]
      BY <1>1, <2>3 DEF AccountsTypeOK
    <2>5. OtherFundersKept(p)
      BY <1>1, <2>3, <2>4, AccountsAssumption DEF OtherFundersKept
    <2>6. FunderSound(p)'
      BY <1>1, <2>2, <2>3, <2>4 DEF FunderSound, LockingLabels, MovedLabels, FundLabels
    <2>7. FundingStill(p)
      BY <1>1, <2>2 DEF FundingStill, FundingTablesOK, MovedLabels
    <2> QED
      BY <2>1, <2>5, <2>6, <2>7, FundingBooksKept
  <1> QED
    BY <1>2, <1>3, <1>4

\* The handler asks Sudo for the balance again, between transfer and commit.
LEMMA FundRefreshSound ==
    ASSUME FundingSound, AccountsInv', NEW p \in Procs, FundRefresh(p)
    PROVE  FundingSound'
  <1>1. FundingTablesOK /\ FundingMemoryOK /\ FunderSound(p) /\ AccountsTypeOK
    BY FundersAreSound
  <1> USE DEF FundingMemoryOK, SlotsOK, Goto, FundRefresh
  <1>2. pc[p] = "fund_refresh" /\ pc'[p] = "fund_commit"
    BY <1>1
  <1>3. fundTarget[p] \in Cards /\ fundAmount[p] \in Nat
    BY <1>1, <1>2, AccountsAssumption DEF FunderSound, FundLabels
  <1>4. onCard[fundTarget[p]] \in Nat /\ cardSeen[p] + fundAmount[p] \in Nat
    BY <1>1, <1>3, CardFundingAssumption DEF FundingTablesOK
  <1>5. PICK now \in Nat :
           /\ cardSeen' = [cardSeen EXCEPT ![p] = now]
           /\ cardClean' = [cardClean EXCEPT ![p] = cardClean[p] /\ now = cardSeen[p]]
    BY <1>4
  <1>6. FundingMemoryOK'
    <2>1. cardSeen' \in [Procs -> Nat] /\ cardClean' \in [Procs -> BOOLEAN]
      BY <1>1, <1>5
    <2> QED
      BY <1>1, <2>1
  <1>7. OtherFundersKept(p)
    BY <1>1 DEF OtherFundersKept, accountVars
  <1>8. FunderSound(p)'
    BY <1>1, <1>2 DEF FunderSound, LockingLabels, MovedLabels, FundLabels, accountVars
  <1>9. FundingStill(p)
    BY <1>1, <1>2
       DEF FundingStill, FundingTablesOK, MovedLabels, accountVars, sudoCardVars, cardTables
  <1> QED
    BY <1>6, <1>7, <1>8, <1>9, FundingBooksKept

\* What a handler that ends leaves: its locks are given up, it knows nothing.
LEMMA FunderGone ==
    ASSUME FundingSound, NEW p \in Procs, FundDone(p),
           holds' = [holds EXCEPT ![p] = NoUser], seen' = [seen EXCEPT ![p] = Nothing],
           rowLock' = Unlocked(p)
    PROVE  /\ FundingMemoryOK' /\ OtherFundersKept(p) /\ FunderSound(p)'
           /\ pc'[p] = "idle"
  <1>1. FundingMemoryOK /\ AccountsTypeOK
    BY FundersAreSound
  <1>2. FundingMemoryOK' /\ pc'[p] = "idle"
    BY <1>1 DEF FundDone, FundingMemoryOK, SlotsOK, Goto
  <1>3. \A u \in Users : rowLock'[u] = IF rowLock[u] = p THEN NoProc ELSE rowLock[u]
    BY DEF Unlocked
  <1>4. OtherFundersKept(p)
    BY <1>1, <1>3, AccountsAssumption
       DEF OtherFundersKept, FundDone, FundingMemoryOK, AccountsTypeOK, SlotsOK, Goto
  <1>5. FunderSound(p)'
    BY <1>2, <1>3, AccountsAssumption DEF FunderSound, LockingLabels, MovedLabels, FundLabels
  <1> QED
    BY <1>2, <1>4, <1>5

\* Sudo carries the transfer out, and the handler learns of it.
LEMMA FundTransferSound ==
    ASSUME FundingSound, AccountsInv', NEW p \in Procs, FundTransfer(p)
    PROVE  FundingSound'
  <1> DEFINE card == fundTarget[p]
             amount == fundAmount[p]
  <1>1. FundingTablesOK /\ FundingMemoryOK /\ FunderSound(p) /\ AccountsTypeOK
    BY FundersAreSound
  <1>2. pc[p] = "fund_transfer" /\ pc[p] \in LockingLabels /\ pc[p] \notin MovedLabels
    BY DEF FundTransfer, LockingLabels, MovedLabels
  <1>3. card \in Cards /\ amount \in Nat /\ funded[card] = cardRows[card] + forgotten[card]
    <2>1. /\ card \in Cards /\ amount \in Amounts
          /\ funded[card] = cardRows[card] + forgotten[card]
                              + (IF pc[p] \in MovedLabels THEN amount ELSE 0)
      BY <1>2, FundingBooksBefore
    <2>2. cardRows[card] \in Nat /\ forgotten[card] \in Nat /\ amount \in Nat
      BY <1>1, <2>1, AccountsAssumption DEF FundingTablesOK
    <2> QED
      BY <1>2, <2>1, <2>2
  <1>4. /\ funded[card] + amount <= MaxFunded
        /\ onCard' = [onCard EXCEPT ![card] = onCard[card] + amount]
        /\ funded' = [funded EXCEPT ![card] = funded[card] + amount]
        /\ pc' = [pc EXCEPT ![p] = "fund_refresh"]
        /\ UNCHANGED <<accountVars, cardTables, forgotten, fundLocals>>
    BY DEF FundTransfer, SudoMoves, Goto
  <1>5. \A c \in Cards : /\ onCard[c] \in Nat /\ funded[c] \in Nat /\ onCard[c] <= funded[c]
                         /\ cardRows[c] \in Nat /\ forgotten[c] \in Nat
    BY <1>1, CardFundingAssumption DEF FundingTablesOK, FundingSound, OnCardWasFunded
  <1>6. \A c \in Cards :
           /\ onCard'[c] = IF c = card THEN onCard[c] + amount ELSE onCard[c]
           /\ funded'[c] = IF c = card THEN funded[c] + amount ELSE funded[c]
    BY <1>1, <1>4 DEF FundingTablesOK
  <1>7. onCard[card] + amount \in 0..MaxFunded /\ funded[card] + amount \in 0..MaxFunded
    BY <1>3, <1>4, <1>5, CardFundingAssumption
  <1>8. FundingTablesOK'
    BY <1>1, <1>4, <1>7 DEF FundingTablesOK, cardTables
  <1>9. FundingMemoryOK' /\ OtherFundersKept(p) /\ pc'[p] = "fund_refresh"
    BY <1>1, <1>4 DEF FundingMemoryOK, SlotsOK, OtherFundersKept, accountVars, fundLocals
  <1>10. FunderSound(p)'
    BY <1>1, <1>2, <1>4, <1>9
       DEF FunderSound, LockingLabels, MovedLabels, FundLabels, accountVars, fundLocals
  <1>11. FundingRowsAgree'
    BY <1>4 DEF FundingSound, FundingRowsAgree, FundedUnits, accountVars, cardTables
  <1>12. OnCardWasFunded'
    BY <1>3, <1>5, <1>6 DEF OnCardWasFunded
  <1>13. FundingBooked'
    <2>1. UNCHANGED <<cardRows, forgotten, fundTarget, fundAmount>> /\ pc'[p] \in MovedLabels
      BY <1>4, <1>9 DEF cardTables, fundLocals, MovedLabels
    <2>2. funded'[card] = cardRows'[card] + forgotten'[card] + fundAmount'[p]
      BY <1>3, <1>5, <1>6, <2>1
    <2> QED
      BY <1>2, <1>3, <1>5, <1>6, <1>9, <2>1, <2>2, FundingBooksAfter
  <1> QED
    BY <1>8, <1>9, <1>10, <1>11, <1>12, <1>13, FundingStepSound

\* Sudo carries the transfer out, and the handler never learns of it.
LEMMA FundAnswerLostSound ==
    ASSUME FundingSound, AccountsInv', NEW p \in Procs, FundAnswerLost(p)
    PROVE  FundingSound'
  <1> DEFINE card == fundTarget[p]
             amount == fundAmount[p]
  <1>1. FundingTablesOK
    BY FundersAreSound
  <1>2. pc[p] = "fund_transfer" /\ pc[p] \in LockingLabels /\ pc[p] \notin MovedLabels
    BY DEF FundAnswerLost, LockingLabels, MovedLabels
  <1>3. card \in Cards /\ amount \in Nat /\ funded[card] = cardRows[card] + forgotten[card]
    <2>1. /\ card \in Cards /\ amount \in Amounts
          /\ funded[card] = cardRows[card] + forgotten[card]
                              + (IF pc[p] \in MovedLabels THEN amount ELSE 0)
      BY <1>2, FundingBooksBefore
    <2>2. cardRows[card] \in Nat /\ forgotten[card] \in Nat /\ amount \in Nat
      BY <1>1, <2>1, AccountsAssumption DEF FundingTablesOK
    <2> QED
      BY <1>2, <2>1, <2>2
  <1>4. /\ funded[card] + amount <= MaxFunded
        /\ onCard' = [onCard EXCEPT ![card] = onCard[card] + amount]
        /\ funded' = [funded EXCEPT ![card] = funded[card] + amount]
        /\ forgotten' = [forgotten EXCEPT ![card] = forgotten[card] + amount]
        /\ UNCHANGED <<posted, cardBalance, cardRows>>
    BY DEF FundAnswerLost, SudoMoves, DropUser, cardTables
  <1>5. \A c \in Cards : /\ onCard[c] \in Nat /\ funded[c] \in Nat /\ onCard[c] <= funded[c]
                         /\ cardRows[c] \in Nat /\ forgotten[c] \in Nat
    BY <1>1, CardFundingAssumption DEF FundingTablesOK, FundingSound, OnCardWasFunded
  <1>6. \A c \in Cards :
           /\ onCard'[c] = IF c = card THEN onCard[c] + amount ELSE onCard[c]
           /\ funded'[c] = IF c = card THEN funded[c] + amount ELSE funded[c]
           /\ forgotten'[c] = IF c = card THEN forgotten[c] + amount ELSE forgotten[c]
    BY <1>1, <1>4 DEF FundingTablesOK
  <1>7. /\ onCard[card] + amount \in 0..MaxFunded /\ funded[card] + amount \in 0..MaxFunded
        /\ forgotten[card] + amount \in Nat
    BY <1>3, <1>4, <1>5, CardFundingAssumption
  <1>8. FundingTablesOK'
    BY <1>1, <1>4, <1>7 DEF FundingTablesOK
  <1>9. FundingMemoryOK' /\ OtherFundersKept(p) /\ FunderSound(p)' /\ pc'[p] = "idle"
    BY FunderGone DEF FundAnswerLost, DropUser
  <1>10. FundingRowsAgree'
    BY <1>4 DEF FundingSound, FundingRowsAgree, FundedUnits
  <1>11. OnCardWasFunded'
    BY <1>3, <1>5, <1>6 DEF OnCardWasFunded
  <1>12. FundingBooked'
    <2>1. pc'[p] \notin MovedLabels
      BY <1>9 DEF MovedLabels
    <2>2. /\ funded'[card] \in Nat /\ cardRows'[card] \in Nat /\ forgotten'[card] \in Nat
          /\ funded'[card] = cardRows'[card] + forgotten'[card] + 0
      BY <1>3, <1>4, <1>5, <1>6
    <2>3. \A c \in Cards \ {card} :
             /\ funded'[c] = funded[c] /\ cardRows'[c] = cardRows[c]
             /\ forgotten'[c] = forgotten[c]
      BY <1>4, <1>6
    <2> QED
      BY <1>2, <1>9, <2>1, <2>2, <2>3, FundingBooksAfter
  <1> QED
    BY <1>8, <1>9, <1>10, <1>11, <1>12, FundingStepSound

\* What Sudo moved is booked, in both tables of rows at once.
LEMMA FundCommitSound ==
    ASSUME FundingSound, AccountsInv', NEW p \in Procs, FundCommit(p)
    PROVE  FundingSound'
  <1> DEFINE card == fundTarget[p]
             amount == fundAmount[p]
             u == holds[p]
  <1>1. FundingTablesOK /\ FundingMemoryOK /\ FunderSound(p) /\ AccountsTypeOK
    BY FundersAreSound
  <1>2. pc[p] = "fund_commit" /\ pc[p] \in LockingLabels /\ pc[p] \in MovedLabels
    BY DEF FundCommit, LockingLabels, MovedLabels
  <1>3. /\ card \in Cards /\ amount \in Nat
        /\ funded[card] = cardRows[card] + forgotten[card] + amount
    <2>1. /\ card \in Cards /\ amount \in Amounts
          /\ funded[card] = cardRows[card] + forgotten[card]
                              + (IF pc[p] \in MovedLabels THEN amount ELSE 0)
      BY <1>2, FundingBooksBefore
    <2> QED
      BY <1>2, <2>1, AccountsAssumption
  <1>4. u = CardOwner[card] /\ u \in Users
    BY <1>1, <1>2, <1>3, CardFundingAssumption DEF FunderSound, FundLabels
  <1>5. /\ posted' = [posted EXCEPT ![u]["card_funding"] = posted[u]["card_funding"] + amount]
        /\ holds' = [holds EXCEPT ![p] = NoUser]
        /\ seen' = [seen EXCEPT ![p] = Nothing]
        /\ rowLock' = Unlocked(p)
    BY DEF FundCommit, Post
  <1>6. /\ cardRows' = [cardRows EXCEPT ![card] = cardRows[card] + amount]
        /\ UNCHANGED <<onCard, funded, forgotten>>
        /\ FundDone(p)
        /\ cardBalance' = IF cardClean[p] THEN cardBalance
                          ELSE [cardBalance EXCEPT ![card] = cardSeen[p]]
    BY DEF FundCommit, sudoCardVars
  <1>7. FundingMemoryOK' /\ OtherFundersKept(p) /\ FunderSound(p)' /\ pc'[p] = "idle"
    BY <1>5, <1>6, FunderGone
  <1>8. FundingTablesOK'
    <2>1. cardBalance' \in [Cards -> Nat]
      BY <1>1, <1>6 DEF FundingTablesOK, FundingMemoryOK
    <2>2. cardRows' \in [Cards -> Nat]
      BY <1>1, <1>3, <1>6 DEF FundingTablesOK
    <2> QED
      BY <1>1, <1>6, <2>1, <2>2 DEF FundingTablesOK
  <1>9. FundingRowsAgree'
    <2> SUFFICES ASSUME NEW v \in Users
                 PROVE  posted'[v]["card_funding"] = Cardinality(FundedUnits(v)')
      BY DEF FundingRowsAgree
    <2>1. posted'[v]["card_funding"]
            = IF v = u THEN posted[v]["card_funding"] + amount ELSE posted[v]["card_funding"]
      BY <1>1, <1>4, <1>5 DEF AccountsTypeOK, Kinds
    <2>2. posted[v]["card_funding"] = Cardinality(FundedUnits(v))
      BY DEF FundingSound, FundingRowsAgree
    <2>3. Cardinality(FundedUnits(v)')
            = IF v = CardOwner[card] THEN Cardinality(FundedUnits(v)) + amount
                                     ELSE Cardinality(FundedUnits(v))
      BY <1>1, <1>3, <1>6, UnitsAdded DEF FundingTablesOK
    <2> QED
      BY <1>4, <2>1, <2>2, <2>3
  <1>10. OnCardWasFunded'
    BY <1>6 DEF FundingSound, OnCardWasFunded
  <1>11. FundingBooked'
    <2>1. pc'[p] \notin MovedLabels
      BY <1>7 DEF MovedLabels
    <2>2. \A c \in Cards :
             /\ cardRows'[c] = IF c = card THEN cardRows[c] + amount ELSE cardRows[c]
             /\ funded[c] \in Nat /\ cardRows[c] \in Nat /\ forgotten[c] \in Nat
      BY <1>1, <1>6, CardFundingAssumption DEF FundingTablesOK
    <2>3. /\ funded'[card] \in Nat /\ cardRows'[card] \in Nat /\ forgotten'[card] \in Nat
          /\ funded'[card] = cardRows'[card] + forgotten'[card] + 0
      BY <1>3, <1>6, <2>2
    <2>4. \A c \in Cards \ {card} :
             /\ funded'[c] = funded[c] /\ cardRows'[c] = cardRows[c]
             /\ forgotten'[c] = forgotten[c]
      BY <1>6, <2>2
    <2> QED
      BY <1>2, <1>7, <2>1, <2>3, <2>4, FundingBooksAfter
  <1> QED
    BY <1>7, <1>8, <1>9, <1>10, <1>11, FundingStepSound

\* An error: the debit is rolled back, and what Sudo moved is forgotten.
LEMMA FundFailsSound ==
    ASSUME FundingSound, AccountsInv', NEW p \in Procs, FundFails(p)
    PROVE  FundingSound'
  <1> DEFINE card == fundTarget[p]
             amount == fundAmount[p]
  <1>1. FundingTablesOK
    BY FundersAreSound
  <1>2. /\ UNCHANGED <<posted, onCard, funded, cardBalance, cardRows>>
        /\ forgotten' = Forgets(p)
    BY DEF FundFails, DropUser, sudoCardVars, cardTables
  <1>3. FundingMemoryOK' /\ OtherFundersKept(p) /\ FunderSound(p)' /\ pc'[p] = "idle"
    BY FunderGone DEF FundFails, DropUser
  <1>4. pc'[p] \notin MovedLabels
    BY <1>3 DEF MovedLabels
  <1>5. \A c \in Cards : /\ onCard[c] \in Nat /\ funded[c] \in Nat
                         /\ cardRows[c] \in Nat /\ forgotten[c] \in Nat
    BY <1>1, CardFundingAssumption DEF FundingTablesOK
  <1>6. CASE pc[p] \notin MovedLabels
    <2>1. FundingStill(p)
      BY <1>1, <1>2, <1>4, <1>5, <1>6 DEF FundingStill, FundingTablesOK, Forgets
    <2> QED
      BY <1>3, <2>1, FundingBooksKept
  <1>7. CASE pc[p] \in MovedLabels
    <2>1. pc[p] \in LockingLabels
      BY <1>7 DEF LockingLabels
    <2>2. /\ card \in Cards /\ amount \in Nat
          /\ funded[card] = cardRows[card] + forgotten[card] + amount
      <3>1. /\ card \in Cards /\ amount \in Amounts
            /\ funded[card] = cardRows[card] + forgotten[card]
                                + (IF pc[p] \in MovedLabels THEN amount ELSE 0)
        BY <2>1, FundingBooksBefore
      <3> QED
        BY <1>7, <3>1, AccountsAssumption
    <2>3. forgotten' = [forgotten EXCEPT ![card] = forgotten[card] + amount]
      BY <1>2, <1>7 DEF Forgets
    <2>4. /\ forgotten' \in [Cards -> Nat]
          /\ \A c \in Cards : forgotten'[c] =
                IF c = card THEN forgotten[c] + amount ELSE forgotten[c]
      BY <1>1, <1>5, <2>2, <2>3 DEF FundingTablesOK
    <2>5. FundingTablesOK'
      BY <1>1, <1>2, <2>4 DEF FundingTablesOK
    <2>6. FundingRowsAgree'
      BY <1>2 DEF FundingSound, FundingRowsAgree, FundedUnits
    <2>7. OnCardWasFunded'
      BY <1>2 DEF FundingSound, OnCardWasFunded
    <2>8. /\ funded'[card] \in Nat /\ cardRows'[card] \in Nat /\ forgotten'[card] \in Nat
          /\ funded'[card] = cardRows'[card] + forgotten'[card] + 0
      BY <1>2, <1>5, <2>2, <2>4
    <2>9. \A c \in Cards \ {card} :
             /\ funded'[c] = funded[c] /\ cardRows'[c] = cardRows[c]
             /\ forgotten'[c] = forgotten[c]
      BY <1>2, <2>4
    <2>10. FundingBooked'
      BY <1>3, <1>4, <2>1, <2>8, <2>9, FundingBooksAfter
    <2> QED
      BY <1>3, <2>5, <2>6, <2>7, <2>10, FundingStepSound
  <1> QED
    BY <1>6, <1>7

\* The owner pays with the card.
LEMMA PurchaseSound ==
    ASSUME FundingSound, AccountsInv', NEW card \in Cards, Purchase(card)
    PROVE  FundingSound'
  <1>1. FundingTypeOK /\ SlotsOK /\ OnCardWasFunded
    BY DEF FundingSound
  <1>2. /\ onCard[card] > 0 /\ onCard' = [onCard EXCEPT ![card] = onCard[card] - 1]
        /\ UNCHANGED <<pc, balance, posted, rowLock, holds, seen, funded, cardBalance,
                       cardRows, forgotten, fundTarget, fundAmount, cardSeen, cardClean>>
    BY DEF Purchase, accountVars, cardTables, fundLocals
  <1>3. \A c \in Cards : onCard[c] \in 0..MaxFunded /\ funded[c] \in 0..MaxFunded
    BY <1>1 DEF FundingTypeOK
  <1>4. onCard[card] - 1 \in 0..MaxFunded
    BY <1>2, <1>3, CardFundingAssumption
  <1>5. \A c \in Cards : onCard'[c] = IF c = card THEN onCard[c] - 1 ELSE onCard[c]
    BY <1>1, <1>2 DEF FundingTypeOK
  <1>6. onCard' \in [Cards -> 0..MaxFunded]
    BY <1>1, <1>2, <1>4 DEF FundingTypeOK
  <1>7. FundingTypeOK' /\ SlotsOK'
    BY <1>1, <1>2, <1>6 DEF FundingTypeOK, SlotsOK, AccountsInv
  <1>8. OnCardWasFunded'
    BY <1>1, <1>2, <1>3, <1>5, CardFundingAssumption DEF OnCardWasFunded
  <1>9. FundingBooked'
    BY <1>2 DEF FundingSound, FundingBooked, InFlightOn
  <1>10. FundingRowsAgree'
    BY <1>2 DEF FundingSound, FundingRowsAgree, FundedUnits
  <1>11. LockedWhileFunding'
    BY <1>2 DEF FundingSound, LockedWhileFunding
  <1> QED
    BY <1>7, <1>8, <1>9, <1>10, <1>11 DEF FundingSound

\* Meanwhile the slots run other handlers, which give up no lock but their own
\* and post no CARD_FUNDING row.
LEMMA FundingElsewhere ==
    ASSUME FundingSound, AccountsInv', SlotsOK', UNCHANGED fundState, NEW p \in Procs,
           pc[p] \notin FundLabels, pc'[p] \notin FundLabels, OthersUntouched(p),
           rowLock' \in {rowLock, Unlocked(p)},
           \A u \in Users : posted'[u]["card_funding"] = posted[u]["card_funding"]
    PROVE  FundingSound'
  <1>1. FundingTablesOK /\ FundingMemoryOK /\ FunderSound(p) /\ AccountsTypeOK
    BY FundersAreSound
  <1> USE DEF fundState, sudoCardVars, cardTables, fundLocals
  <1>2. FundingMemoryOK'
    BY <1>1 DEF FundingMemoryOK
  <1>3. \A u \in Users : /\ rowLock[u] # p /\ rowLock'[u] # p
                         /\ \A q \in Procs \ {p} : rowLock'[u] = q <=> rowLock[u] = q
    BY <1>1, AccountsAssumption
       DEF FunderSound, Unlocked, LockingLabels, MovedLabels, FundLabels
  <1>4. OtherFundersKept(p)
    BY <1>3 DEF OtherFundersKept, OthersUntouched
  <1>5. FunderSound(p)'
    BY <1>3 DEF FunderSound, LockingLabels, MovedLabels, FundLabels
  <1>6. \A c \in Cards : onCard[c] \in Int
    BY <1>1, CardFundingAssumption DEF FundingTablesOK
  <1>7. FundingStill(p)
    BY <1>1, <1>6 DEF FundingStill, FundingTablesOK, MovedLabels, FundLabels
  <1> QED
    BY <1>2, <1>4, <1>5, <1>7, FundingBooksKept

\* A handler of fundings runs on, however the others do.
LEMMA FundWorkSound ==
    ASSUME FundingSound, AccountsInv', NEW p \in Procs, FundRequest(p) \/ FundStep(p)
    PROVE  FundingSound'
  BY FundRequestSound, FundPrepareSound, FundTransferSound, FundAnswerLostSound,
     FundRefreshSound, FundCommitSound, FundFailsSound DEF FundStep

\* What a step leaves alone of the other slots.
LEMMA FundWorkElsewhere ==
    ASSUME FundingSound, NEW p \in Procs, FundRequest(p) \/ FundStep(p)
    PROVE  /\ SlotsOK' /\ OthersUntouched(p)
           /\ pc[p] \in FundLabels \cup {"idle"}
           /\ pc'[p] \in FundLabels \cup {"idle"}
  <1>1. AccountsTypeOK /\ SlotsOK
    BY DEF FundingSound, AccountsInv
  <1>2. PICK from \in FundLabels \cup {"idle"}, to \in FundLabels \cup {"idle"} :
           pc[p] = from /\ pc' = [pc EXCEPT ![p] = to]
    <2>1. CASE FundRequest(p)
      BY <2>1 DEF FundRequest, FundCard, Idle, Goto, FundLabels
    <2>2. CASE FundStep(p)
      BY <2>2 DEF FundStep, FundSyncCard, FundReadUser, FundBegin, FundTransfer,
                  FundAnswerLost, FundRefresh, FundCommit, FundFails, FundDone, Goto,
                  FundLabels
    <2> QED
      BY <2>1, <2>2
  <1>3. CASE LockUser(p)
    BY <1>1, <1>2, <1>3 DEF LockUser, OthersUntouched, SlotsOK
  <1>4. \/ UNCHANGED accountVars
        \/ \E u : ReadUser(p, u)
        \/ DropUser(p)
        \/ LockUser(p)
        \/ Post(p, "card_funding", fundAmount[p])
    BY DEF FundRequest, FundCard, FundStep, FundSyncCard, FundReadUser, FundBegin,
           FundTransfer, FundAnswerLost, FundRefresh, FundCommit, FundFails
  <1>5. CASE UNCHANGED accountVars \/ DropUser(p) \/ \E u : ReadUser(p, u)
    BY <1>1, <1>2, <1>5 DEF accountVars, DropUser, ReadUser, OthersUntouched,
                            AccountsTypeOK, SlotsOK
  <1>6. CASE Post(p, "card_funding", fundAmount[p])
    <2>1. holds' = [holds EXCEPT ![p] = NoUser] /\ seen' = [seen EXCEPT ![p] = Nothing]
      BY <1>6 DEF Post
    <2> QED
      BY <1>1, <1>2, <2>1 DEF OthersUntouched, AccountsTypeOK, SlotsOK
  <1> QED
    BY <1>3, <1>4, <1>5, <1>6

\* No funding at first.
LEMMA FundingStartSound ==
    ASSUME RequestsInit, AccountsInit, FundingInit
    PROVE  FundingSound
  <1> USE DEF FundingInit, RequestsInit
  <1>1. AccountsInv /\ AccountsTypeOK
    BY AccountsInitInv DEF AccountsInv
  <1>2. FundingTypeOK /\ SlotsOK
    BY <1>1, CardFundingAssumption DEF FundingTypeOK, SlotsOK, FundLabels
  <1>3. LockedWhileFunding
    BY AccountsAssumption DEF AccountsInit, LockedWhileFunding, MovedLabels
  <1>4. FundingRowsAgree
    <2>1. \A u \in Users : posted[u]["card_funding"] = 0
      BY DEF AccountsInit, Kinds
    <2>2. \A u \in Users : Cardinality(FundedUnits(u)) = 0
      BY NoUnitsAtFirst
    <2> QED
      BY <2>1, <2>2 DEF FundingRowsAgree
  <1>5. FundingBooked /\ OnCardWasFunded
    BY DEF FundingBooked, OnCardWasFunded, InFlightOn, MovedLabels
  <1> QED
    BY <1>1, <1>2, <1>3, <1>4, <1>5 DEF FundingSound

-----------------------------------------------------------------------------
(* Theorems *)

\* A step is a step that the abstract specification of the tables allows.
LEMMA FundingNextAccounts ==
    ASSUME FundingSound, [FundingNext]_fundVars
    PROVE  [AccountsNext]_accountVars
  <1>1. ASSUME NEW card \in Cards, Purchase(card) PROVE UNCHANGED accountVars
    BY <1>1 DEF Purchase
  <1> QED
    BY <1>1, FundStepAccounts DEF FundingNext, fundVars

\* Every step of the specification keeps the inductive invariant.
LEMMA FundingNextSound ==
    ASSUME FundingSound, [FundingNext]_fundVars
    PROVE  FundingSound'
  <1>1. AccountsInv'
    BY FundingNextAccounts, AccountsStepInv DEF FundingSound
  <1>2. CASE UNCHANGED fundVars
    <2> USE <1>2 DEF fundVars, fundState, sudoCardVars, cardTables, fundLocals, accountVars,
                     FundingSound
    <2>1. FundingTypeOK' /\ SlotsOK'
      BY <1>1 DEF FundingTypeOK, SlotsOK, AccountsInv
    <2>2. LockedWhileFunding' /\ OnCardWasFunded'
      BY DEF LockedWhileFunding, OnCardWasFunded
    <2>3. FundingRowsAgree'
      BY DEF FundingRowsAgree, FundedUnits
    <2>4. FundingBooked'
      BY DEF FundingBooked, InFlightOn
    <2> QED
      BY <1>1, <2>1, <2>2, <2>3, <2>4
  <1> QED
    BY <1>1, <1>2, FundWorkSound, PurchaseSound DEF FundingNext

\* While fundCardFromWallet talks to Sudo, the row of the owner is locked; what
\* transactions and card_transactions say of a wallet's cards is the same sum;
\* and what Sudo put on a card was booked, belongs to the one handler under
\* way, or to handlers that failed after the transfer.
THEOREM FundingInvariant == FundingSpec => []FundingInv
  <1>1. FundingStart => FundingSound
    BY FundingStartSound DEF FundingStart
  <1>2. FundingSound /\ [FundingNext /\ UNCHANGED raced]_<<fundVars, raced>> => FundingSound'
    BY FundingNextSound
  <1>3. FundingSound => FundingInv
    BY FundingSoundInv
  <1> QED
    BY <1>1, <1>2, <1>3, PTL DEF FundingSpec

\* A funding takes from a wallet what its handler saw there, and posts it.
THEOREM FundingImplementsAccounts == FundingSpec => AccountsSpec
  <1>1. FundingStart => FundingSound /\ AccountsInit
    BY FundingStartSound DEF FundingStart
  <1>2. FundingSound /\ [FundingNext /\ UNCHANGED raced]_<<fundVars, raced>>
          => FundingSound' /\ [AccountsNext]_accountVars
    BY FundingNextSound, FundingNextAccounts
  <1> QED
    BY <1>1, <1>2, PTL DEF FundingSpec, AccountsSpec

=============================================================================
