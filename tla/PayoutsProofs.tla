---------------------------- MODULE PayoutsProofs ----------------------------
(***************************************************************************)
(* Proofs about withdrawals.  Every step of a payout handler is a step     *)
(* that the abstract specification of the money tables allows, so the      *)
(* handlers inherit the invariant of those tables; on top of it, status,   *)
(* debit and PAYOUT row change together, and no payout is ever reopened.   *)
(*                                                                         *)
(* Withdrawals that no two handlers worked on at once are charged once and *)
(* sent once: a handler that decides on one still finds it pending when it *)
(* commits, and no transfer of another handler is under way.  And of all   *)
(* withdrawals: no transfer is lost sight of except by a handler that      *)
(* failed.                                                                 *)
(*                                                                         *)
(* The inductive invariants say nothing of slots that run other handlers,  *)
(* so that they hold in WidgetSessions and in MoneyFlows as well.          *)
(***************************************************************************)
EXTENDS Payouts, AccountsProofs, FiniteSetTheorems

PayoutMemoryOK ==
    /\ SlotsOK
    /\ payoutStatus \in [PayoutIds -> Statuses]
    /\ payoutOwner \in [PayoutIds -> Users \cup {NoUser}]
    /\ payoutAmount \in [PayoutIds -> Amounts \cup {0}]
    /\ payoutNet \in [PayoutIds -> Nat]
    /\ payoutRows \in [PayoutIds -> Nat]
    /\ transfers \in [PayoutIds -> 0..MaxTransfers]
    /\ unbooked \in [PayoutIds -> Nat]
    /\ target \in [Procs -> PayoutIds \cup {NoPayout}]
    /\ asked \in [Procs -> Amounts \cup Collected \cup {0}]

\* PayoutsInv, but for the labels that slots may be at.
PayoutsSound ==
    /\ AccountsInv
    /\ PayoutMemoryOK
    /\ PayoutRowsOwned
    /\ PayoutHandlersCovered
    /\ ChargedWithDecision

\* No row and no handler exists at first.
LEMMA PayoutsStartSound ==
    ASSUME RequestsInit, AccountsInit, PayoutsInit
    PROVE  PayoutsSound
  <1>1. AccountsInv
    BY AccountsInitInv
  <1> USE PayoutsAssumption DEF RequestsInit, PayoutsInit
  <1>2. PayoutMemoryOK
    BY DEF PayoutMemoryOK, SlotsOK, Statuses
  <1>3. PayoutRowsOwned /\ ChargedWithDecision
    BY DEF PayoutRowsOwned, ChargedWithDecision
  <1>4. PayoutHandlersCovered
    BY DEF PayoutHandlersCovered, DecisionLabels, PayerLabels, CommitLabels
  <1> QED
    BY <1>1, <1>2, <1>3, <1>4 DEF PayoutsSound

-----------------------------------------------------------------------------
(* What the handlers do to the money tables *)

\* What may start a payout handler in a slot: a user's or an administrator's
\* request, or a widget handler that calls createPayout with what it collected.
PayoutCall(p) ==
    \/ PayoutRequest(p)
    \/ \E u \in Users, amount \in Collected : CreatePayout(p, u, amount)

\* A handler that decides on a payout reads a user, posts a covered row, or
\* leaves the tables alone: what AccountsNext allows.
LEMMA PayoutWorkAccounts ==
    ASSUME PayoutsSound, NEW p \in Procs, PayoutCall(p) \/ PayoutStep(p)
    PROVE  AccountsNext \/ UNCHANGED accountVars
  <1> USE DEF PayoutsSound
  <1>1. ASSUME NEW u \in Users, ReadUser(p, u)
        PROVE  AccountsNext
    BY <1>1 DEF AccountsNext
  <1>2. CASE DropUser(p)
    BY <1>2 DEF AccountsNext
  <1>3. ASSUME NEW u \in Users, NEW amount \in Amounts \cup Collected,
               CreatePayout(p, u, amount)
        PROVE  AccountsNext
    BY <1>1, <1>3 DEF CreatePayout
  <1>4. ASSUME NEW from, NEW to, ReadPayer(p, from, to),
               from \in {"process_user", "manual_user"}
        PROVE  AccountsNext
    <2>1. payoutOwner[target[p]] \in Users
      BY <1>4 DEF ReadPayer, PayoutHandlersCovered, DecisionLabels, PayoutRowsOwned
    <2> QED
      BY <1>1, <1>4, <2>1 DEF ReadPayer
  <1>5. CASE ApplyPayoutCompletion(p)
    <2> DEFINE amount == payoutAmount[target[p]]
    <2>1. /\ target[p] \in PayoutIds
          /\ payoutStatus[target[p]] # "none"
          /\ holds[p] = payoutOwner[target[p]]
          /\ amount <= seen[p]["earnings"]
      BY <1>5 DEF ApplyPayoutCompletion, PayoutHandlersCovered, DecisionLabels,
                  PayerLabels, CommitLabels
    <2>2. holds[p] \in Users /\ amount \in Amounts
      BY <2>1 DEF PayoutRowsOwned
    <2>3. Post(p, "payout", amount)
      BY <1>5 DEF ApplyPayoutCompletion
    <2>4. Covered(p, "payout", amount)
      BY <2>1 DEF Covered, Writes, Adds, Takes, Columns
    <2> HIDE DEF amount
    <2>5. PostCovered(p)
      BY <2>2, <2>3, <2>4 DEF PostCovered, Kinds
    <2> QED
      BY <2>5 DEF AccountsNext
  <1>6. CASE PayoutCall(p)
    BY <1>3, <1>6 DEF PayoutCall, PayoutRequest, ProcessPayout, CompleteManualPayout, RejectPayout,
                      ReadPendingPayout
  <1>7. CASE PayoutStep(p)
    <2>1. CASE CreatePayoutCheckPending(p) \/ SudoAccepts(p) \/ RejectPayoutSave(p)
      BY <2>1 DEF CreatePayoutCheckPending, SudoAccepts, RejectPayoutSave
    <2>2. CASE CreatePayoutInsert(p) \/ SudoAnswerLost(p) \/ PayoutHandlerFails(p)
      BY <1>2, <2>2 DEF CreatePayoutInsert, SudoAnswerLost, PayoutHandlerFails, Abandon
    <2>3. CASE ProcessPayoutReadUser(p) \/ ManualPayoutReadUser(p)
      BY <1>4, <2>3 DEF ProcessPayoutReadUser, ManualPayoutReadUser
    <2>4. CASE ApplyPayoutCompletion(p)
      BY <1>5, <2>4
    <2> QED
      BY <1>7, <2>1, <2>2, <2>3, <2>4 DEF PayoutStep
  <1> QED
    BY <1>6, <1>7

\* A step is a step that the abstract specification of the tables allows.
LEMMA PayoutsNextAccounts ==
    ASSUME PayoutsSound, [PayoutsNext]_payoutVars
    PROVE  [AccountsNext]_accountVars
  BY PayoutWorkAccounts DEF PayoutsNext, PayoutCall, payoutVars

-----------------------------------------------------------------------------
(* What the handlers do to the payouts table *)

\* A net amount that createPayout accepts is an amount of money, and so is the
\* amount it is called with, which need not have been validated.
LEMMA PayableIsNat ==
    ASSUME NEW amount \in Amounts \cup Collected, NEW rate \in Rates, NEW fee \in Fees,
           Payable(amount * rate - fee)
    PROVE  amount * rate - fee \in Nat /\ amount \in Amounts
  <1>1. amount \in Int /\ rate \in Nat /\ fee \in Nat
    BY AccountsAssumption, PayoutsAssumption
  <1>2. amount * rate \in Int /\ amount * rate > 0
    BY <1>1 DEF Payable
  <1>3. amount > 0
    BY <1>1, <1>2
  <1> QED
    BY <1>1, <1>2, <1>3, AccountsAssumption DEF Payable

\* The request that a user makes or an administrator decides.
LEMMA PayoutCallSound ==
    ASSUME PayoutsSound, AccountsInv', NEW p \in Procs, PayoutCall(p)
    PROVE  PayoutsSound'
  <1> USE DEF PayoutsSound, PayoutMemoryOK, SlotsOK, AccountsInv, AccountsTypeOK, Idle, Goto,
              PayoutLabels, DecisionLabels, PayerLabels, CommitLabels
  <1>1. ASSUME NEW u \in Users, NEW amount \in Amounts \cup Collected,
               CreatePayout(p, u, amount)
        PROVE  PayoutsSound'
    <2> USE <1>1 DEF CreatePayout, ReadUser, payoutTable, sudoVars
    <2>1. PayoutMemoryOK'
      OBVIOUS
    <2>2. PayoutRowsOwned' /\ ChargedWithDecision'
      BY DEF PayoutRowsOwned, ChargedWithDecision
    <2>3. PayoutHandlersCovered'
      BY DEF PayoutHandlersCovered
    <2> QED
      BY <2>1, <2>2, <2>3
  <1>2. ASSUME NEW pay \in PayoutIds,
               NEW label \in {"process_user", "manual_user", "reject_save"},
               ReadPendingPayout(p, pay, label)
        PROVE  PayoutsSound'
    <2> USE <1>2 DEF ReadPendingPayout, accountVars, payoutTable, sudoVars
    <2>1. PayoutMemoryOK'
      OBVIOUS
    <2>2. PayoutRowsOwned' /\ ChargedWithDecision'
      BY DEF PayoutRowsOwned, ChargedWithDecision
    <2>3. PayoutHandlersCovered'
      BY DEF PayoutHandlersCovered
    <2> QED
      BY <2>1, <2>2, <2>3
  <1> QED
    BY <1>1, <1>2 DEF PayoutCall, PayoutRequest, ProcessPayout, CompleteManualPayout, RejectPayout

\* Every step of a handler keeps its memory and the payouts table sound.
LEMMA PayoutStepSound ==
    ASSUME PayoutsSound, AccountsInv', NEW p \in Procs, PayoutStep(p)
    PROVE  PayoutsSound'
  <1> USE DEF PayoutsSound, PayoutMemoryOK, SlotsOK, AccountsInv, AccountsTypeOK, Idle, Goto,
              PayoutLabels, DecisionLabels, PayerLabels, CommitLabels
  <1>1. CASE CreatePayoutCheckPending(p)
    <2> USE <1>1 DEF CreatePayoutCheckPending, accountVars, payoutState, payoutTable, sudoVars
    <2>1. PayoutMemoryOK'
      OBVIOUS
    <2>2. PayoutRowsOwned' /\ PayoutHandlersCovered' /\ ChargedWithDecision'
      BY DEF PayoutRowsOwned, PayoutHandlersCovered, ChargedWithDecision
    <2> QED
      BY <2>1, <2>2
  <1>2. CASE CreatePayoutInsert(p)
    <2> USE <1>2 DEF CreatePayoutInsert, DropUser, sudoVars
    <2>1. PICK pay \in PayoutIds, rate \in Rates, fee \in Fees :
             /\ payoutStatus[pay] = "none"
             /\ Payable(asked[p] * rate - fee)
             /\ payoutStatus' = [payoutStatus EXCEPT ![pay] = "pending"]
             /\ payoutOwner' = [payoutOwner EXCEPT ![pay] = holds[p]]
             /\ payoutAmount' = [payoutAmount EXCEPT ![pay] = asked[p]]
             /\ payoutNet' = [payoutNet EXCEPT ![pay] = asked[p] * rate - fee]
      BY Zenon
    <2>2. holds[p] \in Users /\ asked[p] \in Amounts \cup Collected
      BY DEF PayoutHandlersCovered
    <2>3. asked[p] * rate - fee \in Nat /\ asked[p] \in Amounts
      BY <2>1, <2>2, PayableIsNat
    <2>4. PayoutMemoryOK'
      BY <2>1, <2>2, <2>3 DEF Statuses
    <2>5. PayoutRowsOwned' /\ ChargedWithDecision'
      BY <2>1, <2>2, <2>3 DEF PayoutRowsOwned, ChargedWithDecision
    <2>6. PayoutHandlersCovered'
      <3>1. \A q \in Procs : q # p => /\ pc'[q] = pc[q] /\ holds'[q] = holds[q]
                                     /\ seen'[q] = seen[q] /\ asked'[q] = asked[q]
        OBVIOUS
      <3>2. pc'[p] = "idle" /\ target' = target
        OBVIOUS
      <3>3. \A other \in PayoutIds : payoutStatus[other] # "none" =>
               /\ payoutStatus'[other] = payoutStatus[other]
               /\ payoutOwner'[other] = payoutOwner[other]
               /\ payoutAmount'[other] = payoutAmount[other]
        BY <2>1
      <3> QED
        BY <3>1, <3>2, <3>3 DEF PayoutHandlersCovered
    <2> QED
      BY <2>4, <2>5, <2>6
  <1>3. ASSUME NEW from \in {"process_user", "manual_user"},
               NEW to \in {"process_transfer", "manual_commit"}, ReadPayer(p, from, to)
        PROVE  PayoutsSound'
    <2> USE <1>3 DEF ReadPayer, ReadUser, HasEarnings, payoutState, payoutTable, sudoVars
    <2>1. PayoutMemoryOK'
      OBVIOUS
    <2>2. PayoutRowsOwned' /\ ChargedWithDecision'
      BY DEF PayoutRowsOwned, ChargedWithDecision
    <2>3. PayoutHandlersCovered'
      BY AccountsAssumption DEF PayoutHandlersCovered, PayoutRowsOwned, Columns
    <2> QED
      BY <2>1, <2>2, <2>3
  <1>4. CASE SudoAccepts(p)
    <2> USE <1>4 DEF SudoAccepts, accountVars, payoutTable
    <2>1. PayoutMemoryOK'
      <3>1. target[p] \in PayoutIds
        BY DEF PayoutHandlersCovered
      <3>2. transfers' \in [PayoutIds -> 0..MaxTransfers]
        BY <3>1, PayoutsAssumption
      <3>3. SlotsOK'
        BY DEF SlotsOK
      <3> QED
        BY <3>2, <3>3
    <2>2. PayoutRowsOwned' /\ PayoutHandlersCovered' /\ ChargedWithDecision'
      BY DEF PayoutRowsOwned, PayoutHandlersCovered, ChargedWithDecision
    <2> QED
      BY <2>1, <2>2
  <1>5. CASE SudoAnswerLost(p)
    <2> USE <1>5 DEF SudoAnswerLost, DropUser, payoutTable
    <2>1. PayoutMemoryOK'
      BY PayoutsAssumption DEF PayoutHandlersCovered
    <2>2. PayoutRowsOwned' /\ ChargedWithDecision'
      BY DEF PayoutRowsOwned, ChargedWithDecision
    <2>3. PayoutHandlersCovered'
      BY DEF PayoutHandlersCovered
    <2> QED
      BY <2>1, <2>2, <2>3
  <1>6. CASE ApplyPayoutCompletion(p)
    <2> USE <1>6 DEF ApplyPayoutCompletion, sudoVars
    <2>1. target[p] \in PayoutIds /\ payoutStatus[target[p]] # "none"
      BY DEF PayoutHandlersCovered
    <2>2. PayoutMemoryOK'
      <3>1. payoutStatus' \in [PayoutIds -> Statuses] /\ payoutRows' \in [PayoutIds -> Nat]
        BY <2>1 DEF Statuses
      <3>2. SlotsOK'
        BY DEF SlotsOK
      <3> QED
        BY <3>1, <3>2
    <2>3. PayoutRowsOwned'
      BY <2>1 DEF PayoutRowsOwned
    <2>4. ChargedWithDecision'
      BY <2>1 DEF ChargedWithDecision
    <2>5. PayoutHandlersCovered'
      BY <2>1 DEF PayoutHandlersCovered, Post
    <2> QED
      BY <2>2, <2>3, <2>4, <2>5
  <1>7. CASE RejectPayoutSave(p)
    <2> USE <1>7 DEF RejectPayoutSave, accountVars, sudoVars
    <2>1. target[p] \in PayoutIds /\ payoutStatus[target[p]] # "none"
      BY DEF PayoutHandlersCovered
    <2>2. PayoutMemoryOK'
      BY <2>1 DEF Statuses
    <2>3. PayoutRowsOwned' /\ ChargedWithDecision'
      BY <2>1 DEF PayoutRowsOwned, ChargedWithDecision
    <2>4. PayoutHandlersCovered'
      BY <2>1 DEF PayoutHandlersCovered
    <2> QED
      BY <2>2, <2>3, <2>4
  <1>8. CASE PayoutHandlerFails(p)
    <2> USE <1>8 DEF PayoutHandlerFails, Abandon, DropUser, payoutTable
    <2>1. PayoutMemoryOK'
      <3>1. pc[p] = "process_commit" => target[p] \in PayoutIds
        BY DEF PayoutHandlersCovered
      <3>2. unbooked' \in [PayoutIds -> Nat]
        BY <3>1
      <3>3. SlotsOK'
        BY DEF SlotsOK
      <3> QED
        BY <3>2, <3>3
    <2>2. PayoutRowsOwned' /\ ChargedWithDecision'
      BY DEF PayoutRowsOwned, ChargedWithDecision
    <2>3. PayoutHandlersCovered'
      BY DEF PayoutHandlersCovered
    <2> QED
      BY <2>1, <2>2, <2>3
  <1> QED
    BY <1>1, <1>2, <1>3, <1>4, <1>5, <1>6, <1>7, <1>8
       DEF PayoutStep, ProcessPayoutReadUser, ManualPayoutReadUser

\* Every step of the component keeps the invariant.
LEMMA PayoutsNextSound == PayoutsSound /\ [PayoutsNext]_payoutVars => PayoutsSound'
  <1> SUFFICES ASSUME PayoutsSound, [PayoutsNext]_payoutVars
               PROVE  PayoutsSound'
    OBVIOUS
  <1>1. AccountsInv'
    BY PayoutsNextAccounts, AccountsStepInv DEF PayoutsSound
  <1>2. CASE UNCHANGED payoutVars
    BY <1>1, <1>2 DEF payoutVars, payoutState, payoutTable, sudoVars, PayoutsSound,
                      AccountsInv, PayoutMemoryOK, SlotsOK, PayoutRowsOwned,
                      PayoutHandlersCovered, ChargedWithDecision, accountVars
  <1> QED
    BY <1>1, <1>2, PayoutCallSound, PayoutStepSound DEF PayoutsNext, PayoutCall

\* The history variable raced changes nothing else.
LEMMA PayoutsStepPlain ==
    ASSUME [PayoutsNext /\ raced' = raced \cup SharedPayouts']_<<payoutVars, raced>>
    PROVE  [PayoutsNext]_payoutVars
  OBVIOUS

PayoutCreatingLabels == {"create_pending", "create_insert"}

\* What createPayout for user u is noted under in raced.
PayoutCreatingFor(u) == <<"createPayout", u>>

\* Handlers between Sudo's answer and their commit.
TransferInFlight(pay) == {p \in Procs : pc[p] = "process_commit" /\ target[p] = pay}

\* What a check is still worth when nobody else worked on the same.
PayoutHandlerAlone(p) ==
    /\ pc[p] \notin DecisionLabels => target[p] = NoPayout
    /\ target[p] \in PayoutIds \ raced => payoutStatus[target[p]] = "pending"
    /\ pc[p] = "create_insert" /\ PayoutCreatingFor(holds[p]) \notin raced =>
          PendingPayouts(holds[p]) = {}

\* A transfer that counts is that of the completion, or of the one handler
\* that is about to complete.
SentForDecision ==
    \A pay \in PayoutIds \ raced :
        /\ transfers[pay] <= 1 + unbooked[pay]
        /\ payoutStatus[pay] # "completed" /\ TransferInFlight(pay) = {} =>
              transfers[pay] <= unbooked[pay]

\* The inductive invariant, on top of PayoutsSound.
PayoutsAlone ==
    /\ PayoutsSound
    /\ ChargedOnceUnlessRaced /\ SentForDecision /\ OnePendingUnlessRaced
    /\ SharedPayouts \subseteq raced
    /\ \A p \in Procs : PayoutHandlerAlone(p)

\* No payout exists at first.
LEMMA PayoutsStartAlone ==
    ASSUME RequestsInit, AccountsInit, PayoutsInit
    PROVE  PayoutsAlone
  <1> USE DEF RequestsInit, PayoutsInit
  <1>1. PayoutsSound
    BY PayoutsStartSound
  <1>2. ChargedOnceUnlessRaced /\ SentForDecision /\ OnePendingUnlessRaced
    BY DEF ChargedOnceUnlessRaced, SentForDecision, OnePendingUnlessRaced
  <1>3. \A p \in Procs : PayoutHandlerAlone(p)
    BY PayoutsAssumption DEF PayoutHandlerAlone, DecisionLabels, PayerLabels, CommitLabels
  <1>4. \A p \in Procs : PayoutWorksOn(p) = {}
    BY AccountsAssumption DEF AccountsInit, PayoutWorksOn
  <1>5. SharedPayouts \subseteq raced
    BY <1>4 DEF SharedPayouts, Shared
  <1> QED
    BY <1>1, <1>2, <1>3, <1>5 DEF PayoutsAlone

-----------------------------------------------------------------------------
(* A step as the other handlers see it *)

\* Two handlers at work on the same are noted.
LEMMA TwoPayoutsShared ==
    ASSUME PayoutsAlone, NEW p \in Procs, NEW q \in Procs, p # q
    PROVE  /\ target[p] = target[q] /\ target[p] # NoPayout => target[p] \in raced
           /\ pc[p] \in PayoutCreatingLabels /\ pc[q] \in PayoutCreatingLabels /\ holds[p] = holds[q]
                => PayoutCreatingFor(holds[p]) \in raced
  <1>1. \A x : x \in PayoutWorksOn(p) /\ x \in PayoutWorksOn(q) => x \in SharedPayouts
    BY DEF SharedPayouts, Shared
  <1>2. SharedPayouts \subseteq raced
    BY DEF PayoutsAlone
  <1>3. pc[p] \in PayoutCreatingLabels => holds[p] \in Users
    BY DEF PayoutsAlone, PayoutsSound, PayoutHandlersCovered, PayoutCreatingLabels
  <1> QED
    BY <1>1, <1>2, <1>3 DEF PayoutWorksOn, PayoutCreatingFor, PayoutCreatingLabels

\* The memory of the other handlers is theirs alone.
OtherPayoutsKept(p) ==
    \A q \in Procs \ {p} : pc'[q] = pc[q] /\ holds'[q] = holds[q] /\ target'[q] = target[q]

\* Rows change their status when the handler that holds them decides, or when
\* they are inserted by the handler of their owner.
PayoutMovesBy(p) ==
    \A pay \in PayoutIds :
        \/ payoutStatus'[pay] = payoutStatus[pay] /\ payoutOwner'[pay] = payoutOwner[pay]
        \/ /\ pay = target[p]
           /\ payoutStatus'[pay] \in {"completed", "rejected"}
           /\ payoutOwner'[pay] = payoutOwner[pay]
        \/ /\ pc[p] = "create_insert"
           /\ payoutStatus[pay] = "none" /\ payoutStatus'[pay] = "pending"
           /\ payoutOwner'[pay] = holds[p]

\* What the other handlers know stays true.
LEMMA OtherPayoutHandlersAlone ==
    ASSUME PayoutsAlone, NEW p \in Procs, PayoutMovesBy(p), OtherPayoutsKept(p),
           raced \subseteq raced', NEW q \in Procs, q # p
    PROVE  PayoutHandlerAlone(q)'
  <1>1. PayoutHandlerAlone(q)
    BY DEF PayoutsAlone
  <1>2. pc'[q] = pc[q] /\ holds'[q] = holds[q] /\ target'[q] = target[q]
    BY DEF OtherPayoutsKept
  <1>3. ASSUME target[q] \in PayoutIds \ raced
        PROVE  payoutStatus'[target[q]] = "pending"
    <2>1. target[q] # target[p]
      BY <1>3, TwoPayoutsShared, PayoutsAssumption
    <2>2. payoutStatus[target[q]] = "pending"
      BY <1>1, <1>3 DEF PayoutHandlerAlone
    <2> QED
      BY <1>3, <2>1, <2>2 DEF PayoutMovesBy
  <1>4. ASSUME pc[q] = "create_insert", PayoutCreatingFor(holds[q]) \notin raced
        PROVE  PendingPayouts(holds[q])' = {}
    <2>1. PendingPayouts(holds[q]) = {}
      BY <1>1, <1>4 DEF PayoutHandlerAlone
    <2>2. pc[p] = "create_insert" => holds[p] # holds[q]
      BY <1>4, TwoPayoutsShared DEF PayoutCreatingLabels
    <2> QED
      BY <1>2, <2>1, <2>2 DEF PendingPayouts, PayoutMovesBy
  <1> QED
    BY <1>1, <1>2, <1>3, <1>4 DEF PayoutHandlerAlone

\* What is left to show of a step.
LEMMA PayoutStepAlone ==
    ASSUME PayoutsAlone, NEW p \in Procs, PayoutMovesBy(p), OtherPayoutsKept(p),
           raced \subseteq raced', SharedPayouts' \subseteq raced', PayoutsSound',
           ChargedOnceUnlessRaced', SentForDecision', OnePendingUnlessRaced',
           PayoutHandlerAlone(p)'
    PROVE  PayoutsAlone'
  <1>1. \A q \in Procs : PayoutHandlerAlone(q)'
    BY OtherPayoutHandlersAlone
  <1>2. (SharedPayouts \subseteq raced)'
    OBVIOUS
  <1> QED
    BY <1>1, <1>2 DEF PayoutsAlone

\* A step that changes neither rows nor transfers, of a handler that neither
\* was about to complete nor is.
LEMMA PayoutTableKept ==
    ASSUME PayoutsAlone, NEW p \in Procs, UNCHANGED <<payoutTable, sudoVars>>,
           OtherPayoutsKept(p), raced \subseteq raced', SharedPayouts' \subseteq raced', PayoutsSound',
           pc[p] # "process_commit", pc'[p] # "process_commit", PayoutHandlerAlone(p)'
    PROVE  PayoutsAlone'
  <1>1. \A pay \in PayoutIds : TransferInFlight(pay)' = TransferInFlight(pay)
    BY DEF TransferInFlight, OtherPayoutsKept
  <1>2. SentForDecision'
    BY <1>1 DEF PayoutsAlone, SentForDecision, payoutTable, sudoVars
  <1>3. PayoutMovesBy(p) /\ ChargedOnceUnlessRaced' /\ OnePendingUnlessRaced'
    BY DEF PayoutsAlone, PayoutMovesBy, ChargedOnceUnlessRaced, OnePendingUnlessRaced,
           payoutTable
  <1> QED
    BY <1>2, <1>3, PayoutStepAlone

-----------------------------------------------------------------------------
(* The handlers, step by step *)

\* A user asks, or an administrator starts to decide.
LEMMA PayoutCallAlone ==
    ASSUME PayoutsAlone, PayoutsSound', raced \subseteq raced', SharedPayouts' \subseteq raced',
           NEW p \in Procs, PayoutCall(p)
    PROVE  PayoutsAlone'
  <1> USE DEF PayoutsAlone, PayoutsSound, PayoutMemoryOK, SlotsOK, AccountsInv, AccountsTypeOK, Idle,
              Goto, PayoutLabels, DecisionLabels, PayerLabels, CommitLabels
  <1>1. ASSUME NEW u \in Users, NEW amount \in Amounts \cup Collected,
               CreatePayout(p, u, amount)
        PROVE  PayoutsAlone'
    <2> USE <1>1 DEF CreatePayout, ReadUser
    <2>1. UNCHANGED <<payoutTable, sudoVars>> /\ OtherPayoutsKept(p)
      BY DEF OtherPayoutsKept
    <2>2. pc[p] = "idle" /\ pc'[p] = "create_pending" /\ target'[p] = NoPayout
      BY DEF PayoutHandlerAlone
    <2>3. PayoutHandlerAlone(p)'
      BY <2>2, PayoutsAssumption DEF PayoutHandlerAlone
    <2> QED
      BY <2>1, <2>2, <2>3, PayoutTableKept
  <1>2. ASSUME NEW pay \in PayoutIds,
               NEW label \in {"process_user", "manual_user", "reject_save"},
               ReadPendingPayout(p, pay, label)
        PROVE  PayoutsAlone'
    <2> USE <1>2 DEF ReadPendingPayout, accountVars
    <2>1. UNCHANGED <<payoutTable, sudoVars>> /\ OtherPayoutsKept(p)
      BY DEF OtherPayoutsKept
    <2>2. /\ pc[p] = "idle" /\ pc'[p] = label /\ target'[p] = pay
          /\ payoutStatus'[pay] = "pending"
      BY DEF payoutTable
    <2>3. PayoutHandlerAlone(p)'
      BY <2>2 DEF PayoutHandlerAlone
    <2> QED
      BY <2>1, <2>2, <2>3, PayoutTableKept
  <1> QED
    BY <1>1, <1>2 DEF PayoutCall, PayoutRequest, ProcessPayout, CompleteManualPayout, RejectPayout

\* createPayout goes on.
LEMMA CreateStepAlone ==
    ASSUME PayoutsAlone, PayoutsSound', raced \subseteq raced', SharedPayouts' \subseteq raced',
           NEW p \in Procs, CreatePayoutCheckPending(p) \/ CreatePayoutInsert(p)
    PROVE  PayoutsAlone'
  <1>1. target[p] = NoPayout
    BY DEF PayoutsAlone, PayoutHandlerAlone, DecisionLabels, PayerLabels, CommitLabels,
           CreatePayoutCheckPending, CreatePayoutInsert
  <1> USE DEF PayoutsAlone, PayoutsSound, PayoutMemoryOK, SlotsOK, AccountsInv, AccountsTypeOK, Idle,
              Goto, PayoutLabels, DecisionLabels, PayerLabels, CommitLabels
  <1>2. CASE CreatePayoutCheckPending(p)
    <2> USE <1>2 DEF CreatePayoutCheckPending, accountVars, payoutState, payoutTable
    <2>1. UNCHANGED <<payoutTable, sudoVars>> /\ OtherPayoutsKept(p)
      BY DEF OtherPayoutsKept
    <2>2. /\ pc[p] = "create_pending" /\ pc'[p] = "create_insert"
          /\ target'[p] = NoPayout /\ PendingPayouts(holds[p])' = {} /\ holds' = holds
      BY <1>1 DEF PendingPayouts
    <2>3. PayoutHandlerAlone(p)'
      BY <2>2, PayoutsAssumption DEF PayoutHandlerAlone
    <2> QED
      BY <2>1, <2>2, <2>3, PayoutTableKept
  <1>3. CASE CreatePayoutInsert(p)
    <2> USE <1>3 DEF CreatePayoutInsert, DropUser, sudoVars
    <2>1. PICK new \in PayoutIds :
             /\ payoutStatus[new] = "none"
             /\ payoutStatus' = [payoutStatus EXCEPT ![new] = "pending"]
             /\ payoutOwner' = [payoutOwner EXCEPT ![new] = holds[p]]
      OBVIOUS
    <2>2. /\ \A old \in PayoutIds \ {new} :
                payoutStatus'[old] = payoutStatus[old] /\ payoutOwner'[old] = payoutOwner[old]
          /\ payoutStatus'[new] = "pending" /\ payoutOwner'[new] = holds[p]
      BY <2>1
    <2>3. OtherPayoutsKept(p) /\ pc'[p] = "idle" /\ target'[p] = NoPayout
      BY <1>1 DEF OtherPayoutsKept
    <2>4. ChargedOnceUnlessRaced'
      BY <2>1, <2>2 DEF ChargedOnceUnlessRaced, ChargedWithDecision
    <2>5. SentForDecision'
      <3>1. \A pay \in PayoutIds : TransferInFlight(pay)' = TransferInFlight(pay)
        BY <2>3 DEF TransferInFlight, OtherPayoutsKept
      <3> QED
        BY <2>1, <2>2, <3>1 DEF SentForDecision
    <2>6. OnePendingUnlessRaced'
      <3> SUFFICES ASSUME NEW one \in PayoutIds, NEW other \in PayoutIds,
                          payoutStatus'[one] = "pending", payoutStatus'[other] = "pending",
                          payoutOwner'[one] = payoutOwner'[other],
                          PayoutCreatingFor(payoutOwner'[one]) \notin raced
                   PROVE  one = other
        BY DEF OnePendingUnlessRaced, PayoutCreatingFor
      <3>1. PayoutCreatingFor(holds[p]) \notin raced => PendingPayouts(holds[p]) = {}
        BY DEF PayoutHandlerAlone
      <3>2. CASE one # new /\ other # new
        BY <2>2, <3>2 DEF OnePendingUnlessRaced, PayoutCreatingFor
      <3>3. CASE one = new \/ other = new
        BY <2>2, <3>1, <3>3 DEF PendingPayouts
      <3> QED
        BY <3>2, <3>3
    <2>7. PayoutMovesBy(p)
      BY <2>1, <2>2 DEF PayoutMovesBy
    <2>8. PayoutHandlerAlone(p)'
      BY <2>3, PayoutsAssumption DEF PayoutHandlerAlone
    <2> QED
      BY <2>3, <2>4, <2>5, <2>6, <2>7, <2>8, PayoutStepAlone
  <1> QED
    BY <1>2, <1>3

\* The transfer of a payout that nobody else works on is under way at most once.
LEMMA AloneInFlight ==
    ASSUME PayoutsAlone, NEW p \in Procs, target[p] \in PayoutIds \ raced
    PROVE  TransferInFlight(target[p]) = IF pc[p] = "process_commit" THEN {p} ELSE {}
  BY TwoPayoutsShared, PayoutsAssumption DEF TransferInFlight

\* processPayout, completeManualPayout and rejectPayout go on.
LEMMA DecideStepAlone ==
    ASSUME PayoutsAlone, PayoutsSound', raced \subseteq raced', SharedPayouts' \subseteq raced',
           NEW p \in Procs, PayoutStep(p),
           ~CreatePayoutCheckPending(p), ~CreatePayoutInsert(p)
    PROVE  PayoutsAlone'
  <1> DEFINE pay == target[p]
  <1> USE DEF PayoutsAlone, PayoutsSound, PayoutMemoryOK, SlotsOK, AccountsInv, AccountsTypeOK, Idle,
              Goto, PayoutLabels, DecisionLabels, PayerLabels, CommitLabels
  <1>1. pc[p] \in DecisionLabels =>
           pay \in PayoutIds /\ payoutStatus[pay] # "none"
    BY DEF PayoutHandlersCovered
  <1>2. PayoutHandlerAlone(p)
    OBVIOUS
  <1>3. ASSUME NEW from \in {"process_user", "manual_user"},
               NEW to \in {"process_transfer", "manual_commit"}, ReadPayer(p, from, to)
        PROVE  PayoutsAlone'
    <2> USE <1>3 DEF ReadPayer, ReadUser, payoutState
    <2>1. UNCHANGED <<payoutTable, sudoVars>> /\ OtherPayoutsKept(p)
      BY DEF OtherPayoutsKept
    <2>2. pc[p] = from /\ pc'[p] = to /\ target'[p] = target[p]
      OBVIOUS
    <2>3. PayoutHandlerAlone(p)'
      BY <1>2, <2>2 DEF PayoutHandlerAlone, payoutTable
    <2> QED
      BY <2>1, <2>2, <2>3, PayoutTableKept
  \* All other steps touch the transfers and the row of one payout.
  <1>4. ASSUME pc[p] \in DecisionLabels, OtherPayoutsKept(p), UNCHANGED payoutOwner,
               \A other \in PayoutIds \ {pay} :
                  /\ payoutStatus'[other] = payoutStatus[other]
                  /\ payoutRows'[other] = payoutRows[other]
                  /\ transfers'[other] = transfers[other]
                  /\ unbooked'[other] = unbooked[other],
               payoutStatus'[pay] \in {payoutStatus[pay], "completed", "rejected"},
               pay \notin raced =>
                  /\ payoutRows'[pay] <= IF payoutStatus'[pay] = "rejected" THEN 0 ELSE 1
                  /\ transfers'[pay] <= 1 + unbooked'[pay]
                  /\ payoutStatus'[pay] # "completed" /\ pc'[p] # "process_commit" =>
                        transfers'[pay] <= unbooked'[pay],
               pc'[p] \in DecisionLabels => target'[p] = pay,
               pc'[p] \notin DecisionLabels => target'[p] = NoPayout,
               target'[p] # NoPayout => payoutStatus'[pay] = payoutStatus[pay],
               pc'[p] # "create_insert"
        PROVE  PayoutsAlone'
    <2>1. PayoutMovesBy(p)
      BY <1>1, <1>4 DEF PayoutMovesBy
    <2>2. PayoutHandlerAlone(p)'
      <3>1. target'[p] \in PayoutIds \ raced' => payoutStatus'[target'[p]] = "pending"
        <4> SUFFICES ASSUME target'[p] \in PayoutIds \ raced'
                     PROVE  payoutStatus'[target'[p]] = "pending"
          OBVIOUS
        <4>1. target'[p] = pay /\ pay \notin raced
          BY <1>4, PayoutsAssumption
        <4>2. payoutStatus[pay] = "pending" /\ payoutStatus'[pay] = payoutStatus[pay]
          BY <1>2, <1>4, <4>1, PayoutsAssumption DEF PayoutHandlerAlone
        <4> QED
          BY <4>1, <4>2
      <3>2. pc'[p] \notin DecisionLabels => target'[p] = NoPayout
        BY <1>4
      <3> QED
        BY <1>4, <3>1, <3>2 DEF PayoutHandlerAlone
    <2>3. ChargedOnceUnlessRaced'
      BY <1>4 DEF ChargedOnceUnlessRaced
    <2>4. OnePendingUnlessRaced'
      <3>1. \A other \in PayoutIds :
               payoutStatus'[other] = "pending" => payoutStatus[other] = "pending"
        BY <1>4
      <3> QED
        BY <1>4, <3>1 DEF OnePendingUnlessRaced
    <2>5. SentForDecision'
      <3> SUFFICES ASSUME NEW other \in PayoutIds, other \notin raced
                   PROVE  /\ transfers'[other] <= 1 + unbooked'[other]
                          /\ payoutStatus'[other] # "completed" /\ TransferInFlight(other)' = {} =>
                                transfers'[other] <= unbooked'[other]
        BY DEF SentForDecision
      <3>1. CASE other = pay
        BY <1>1, <1>4, <3>1 DEF TransferInFlight
      <3>2. CASE other # pay
        <4>1. p \notin TransferInFlight(other) /\ p \notin TransferInFlight(other)'
          BY <1>1, <1>4, <3>2 DEF TransferInFlight
        <4>2. TransferInFlight(other)' = TransferInFlight(other)
          BY <1>4, <4>1 DEF TransferInFlight, OtherPayoutsKept
        <4> QED
          BY <1>4, <3>2, <4>2 DEF SentForDecision
      <3> QED
        BY <3>1, <3>2
    <2> QED
      BY <1>4, <2>1, <2>2, <2>3, <2>4, <2>5, PayoutStepAlone
  <1>5. ASSUME pc[p] \in DecisionLabels, pay \notin raced
        PROVE  /\ payoutStatus[pay] = "pending" /\ payoutRows[pay] = 0
               /\ transfers[pay] <= 1 + unbooked[pay]
               /\ pc[p] # "process_commit" => transfers[pay] <= unbooked[pay]
    <2>1. payoutStatus[pay] = "pending" /\ payoutRows[pay] = 0
      BY <1>1, <1>2, <1>5 DEF PayoutHandlerAlone, ChargedWithDecision
    <2>2. pc[p] # "process_commit" => TransferInFlight(pay) = {}
      BY <1>1, <1>5, AloneInFlight
    <2> QED
      BY <1>1, <1>5, <2>1, <2>2 DEF SentForDecision
  <1>6. CASE SudoAccepts(p)
    <2> USE <1>6 DEF SudoAccepts, accountVars, payoutTable
    <2>1. OtherPayoutsKept(p)
      BY DEF OtherPayoutsKept
    <2>2. /\ pay \in PayoutIds /\ transfers'[pay] = transfers[pay] + 1
          /\ pc'[p] = "process_commit" /\ target'[p] = pay
      BY <1>1
    <2> QED
      BY <1>4, <1>5, <2>1, <2>2
  <1>7. CASE SudoAnswerLost(p)
    <2> USE <1>7 DEF SudoAnswerLost, DropUser, payoutTable
    <2>1. OtherPayoutsKept(p)
      BY DEF OtherPayoutsKept
    <2>2. /\ pay \in PayoutIds /\ transfers'[pay] = transfers[pay] + 1
          /\ unbooked'[pay] = unbooked[pay] + 1
          /\ pc'[p] = "idle" /\ target'[p] = NoPayout
      BY <1>1
    <2> QED
      BY <1>4, <1>5, <2>1, <2>2
  <1>8. CASE ApplyPayoutCompletion(p)
    <2> USE <1>8 DEF ApplyPayoutCompletion, sudoVars
    <2>1. OtherPayoutsKept(p)
      BY DEF OtherPayoutsKept, Post
    <2>2. /\ pay \in PayoutIds /\ payoutRows'[pay] = payoutRows[pay] + 1
          /\ payoutStatus'[pay] = "completed"
          /\ pc'[p] = "idle" /\ target'[p] = NoPayout
      BY <1>1
    <2> QED
      BY <1>4, <1>5, <2>1, <2>2
  <1>9. CASE RejectPayoutSave(p)
    <2> USE <1>9 DEF RejectPayoutSave, accountVars, sudoVars
    <2>1. OtherPayoutsKept(p)
      BY DEF OtherPayoutsKept
    <2>2. /\ pay \in PayoutIds /\ payoutStatus'[pay] = "rejected"
          /\ pc'[p] = "idle" /\ target'[p] = NoPayout
      BY <1>1
    <2> QED
      BY <1>4, <1>5, <2>1, <2>2
  <1>10. CASE PayoutHandlerFails(p)
    <2> USE <1>10 DEF PayoutHandlerFails, Abandon, DropUser
    <2>1. OtherPayoutsKept(p) /\ pc'[p] = "idle" /\ target'[p] = NoPayout
      BY DEF OtherPayoutsKept
    <2>2. CASE pc[p] \in DecisionLabels
      <3>1. /\ pay \in PayoutIds
            /\ unbooked'[pay] = IF pc[p] = "process_commit" THEN unbooked[pay] + 1
                                                            ELSE unbooked[pay]
            /\ \A other \in PayoutIds \ {pay} : unbooked'[other] = unbooked[other]
        BY <1>1, <2>2
      <3> QED
        BY <1>4, <1>5, <2>1, <2>2, <3>1 DEF payoutTable
    <2>3. CASE pc[p] \notin DecisionLabels
      <3>1. UNCHANGED <<payoutTable, sudoVars>> /\ pc[p] # "process_commit"
        BY <2>3 DEF sudoVars
      <3>2. PayoutHandlerAlone(p)'
        BY <2>1, PayoutsAssumption DEF PayoutHandlerAlone
      <3> QED
        BY <2>1, <3>1, <3>2, PayoutTableKept
    <2> QED
      BY <2>2, <2>3
  <1> QED
    BY <1>3, <1>6, <1>7, <1>8, <1>9, <1>10
       DEF PayoutStep, ProcessPayoutReadUser, ManualPayoutReadUser

\* A step of a payout handler goes on to an await of a payout handler.
LEMMA PayoutWorkGoes ==
    ASSUME NEW p \in Procs, PayoutCall(p) \/ PayoutStep(p)
    PROVE  \E from, to \in PayoutLabels \cup {"idle"} :
              pc[p] = from /\ pc' = [pc EXCEPT ![p] = to]
  <1>1. CASE PayoutCall(p)
    BY <1>1 DEF PayoutCall, PayoutRequest, CreatePayout, ProcessPayout, CompleteManualPayout,
                RejectPayout, ReadPendingPayout, Idle, Goto, PayoutLabels
  <1>2. CASE PayoutStep(p)
    BY <1>2 DEF PayoutStep, CreatePayoutCheckPending, CreatePayoutInsert,
                ProcessPayoutReadUser, ManualPayoutReadUser, ReadPayer, SudoAccepts,
                SudoAnswerLost, ApplyPayoutCompletion, RejectPayoutSave,
                PayoutHandlerFails, Abandon, Goto, PayoutLabels
  <1> QED
    BY <1>1, <1>2

\* What a step leaves alone of the other slots and of their locks.
LEMMA PayoutWorkElsewhere ==
    ASSUME PayoutsSound, NEW p \in Procs, PayoutCall(p) \/ PayoutStep(p)
    PROVE  /\ SlotsOK' /\ OthersUntouched(p) /\ rowLock' \in {rowLock, Unlocked(p)}
           /\ \A u \in Users : posted'[u]["card_funding"] = posted[u]["card_funding"]
           /\ pc[p] \in PayoutLabels \cup {"idle"}
           /\ pc'[p] \in PayoutLabels \cup {"idle"}
  <1>1. AccountsTypeOK /\ SlotsOK
    BY DEF PayoutsSound, PayoutMemoryOK, AccountsInv
  <1>2. PICK from \in PayoutLabels \cup {"idle"}, to \in PayoutLabels \cup {"idle"} :
           pc[p] = from /\ pc' = [pc EXCEPT ![p] = to]
    BY PayoutWorkGoes
  <1> DEFINE kinds == {"payout"}
             amount == payoutAmount[target[p]]
  <1>3. \/ UNCHANGED accountVars
        \/ \E u : ReadUser(p, u)
        \/ DropUser(p)
        \/ Post(p, "payout", amount)
    BY DEF PayoutCall, PayoutRequest, CreatePayout, ProcessPayout, CompleteManualPayout,
           RejectPayout, ReadPendingPayout, PayoutStep, CreatePayoutCheckPending,
           CreatePayoutInsert, ProcessPayoutReadUser, ManualPayoutReadUser, ReadPayer,
           SudoAccepts, SudoAnswerLost, ApplyPayoutCompletion, RejectPayoutSave,
           PayoutHandlerFails, Abandon
  <1> HIDE DEF amount
  <1>4. "card_funding" \notin kinds
    OBVIOUS
  <1>5. \/ UNCHANGED accountVars
        \/ \E u : ReadUser(p, u)
        \/ DropUser(p)
        \/ \E kind \in kinds : Post(p, kind, amount)
    BY <1>3
  <1> HIDE DEF kinds
  <1>6. /\ SlotsOK' /\ OthersUntouched(p) /\ pc'[p] = to
        /\ rowLock' \in {rowLock, Unlocked(p)}
        /\ \A u \in Users : posted'[u]["card_funding"] = posted[u]["card_funding"]
    BY <1>1, <1>2, <1>4, <1>5, TouchesOwnSlot
  <1> QED
    BY <1>2, <1>6

\* Meanwhile the slots run other handlers.
LEMMA PayoutsElsewhere ==
    ASSUME PayoutsAlone, AccountsInv', SlotsOK', UNCHANGED payoutState,
           raced \subseteq raced', SharedPayouts' \subseteq raced',
           NEW p \in Procs, pc[p] \notin PayoutLabels, pc'[p] \notin PayoutLabels,
           OthersUntouched(p)
    PROVE  PayoutsAlone'
  <1> USE DEF payoutState, PayoutLabels, DecisionLabels, PayerLabels, CommitLabels
  <1>1. /\ PayoutsSound /\ PayoutHandlerAlone(p) /\ OtherPayoutsKept(p)
        /\ \A q \in Procs \ {p} : seen'[q] = seen[q]
    BY DEF PayoutsAlone, OtherPayoutsKept, OthersUntouched
  <1>2. PayoutMemoryOK' /\ PayoutRowsOwned' /\ ChargedWithDecision'
    BY <1>1 DEF PayoutsSound, PayoutMemoryOK, PayoutRowsOwned, ChargedWithDecision, payoutTable,
                sudoVars
  <1>3. PayoutHandlersCovered'
    BY <1>1 DEF PayoutsSound, PayoutHandlersCovered, OtherPayoutsKept, payoutTable
  <1>4. PayoutHandlerAlone(p)'
    BY <1>1, PayoutsAssumption DEF PayoutHandlerAlone
  <1>5. PayoutsSound'
    BY <1>2, <1>3 DEF PayoutsSound
  <1> QED
    BY <1>1, <1>4, <1>5, PayoutTableKept

\* No step reopens a payout that was decided.
LEMMA PayoutWorkReopensNone ==
    ASSUME PayoutsSound, NEW p \in Procs, PayoutCall(p) \/ PayoutStep(p),
           NEW pay \in PayoutIds,
           payoutStatus[pay] # "none", payoutStatus'[pay] # payoutStatus[pay]
    PROVE  payoutStatus'[pay] \in {"completed", "rejected"}
  <1> USE DEF PayoutsSound, PayoutMemoryOK
  <1>1. ~PayoutCall(p)
    BY DEF PayoutCall, PayoutRequest, CreatePayout, ProcessPayout, CompleteManualPayout,
           RejectPayout, ReadPendingPayout, payoutTable
  <1>2. CASE CreatePayoutInsert(p)
    BY <1>2 DEF CreatePayoutInsert
  <1>3. CASE ApplyPayoutCompletion(p)
    BY <1>3 DEF ApplyPayoutCompletion
  <1>4. CASE RejectPayoutSave(p)
    BY <1>4 DEF RejectPayoutSave
  <1> QED
    BY <1>1, <1>2, <1>3, <1>4
       DEF PayoutStep, CreatePayoutCheckPending, ProcessPayoutReadUser,
           ManualPayoutReadUser, ReadPayer, SudoAccepts, SudoAnswerLost,
           PayoutHandlerFails, payoutState, payoutTable

\* Every request and every step of a handler keeps the inductive invariant.
LEMMA PayoutWorkAlone ==
    ASSUME PayoutsAlone, raced \subseteq raced', SharedPayouts' \subseteq raced',
           NEW p \in Procs, PayoutCall(p) \/ PayoutStep(p)
    PROVE  PayoutsAlone'
  <1>1. AccountsInv'
    BY PayoutWorkAccounts, AccountsStepInv DEF PayoutsAlone, PayoutsSound
  <1>2. PayoutsSound'
    BY <1>1, PayoutCallSound, PayoutStepSound DEF PayoutsAlone
  <1> QED
    BY <1>2, PayoutCallAlone, CreateStepAlone, DecideStepAlone

\* What touches neither the payouts nor the slots changes nothing for them.
LEMMA PayoutsStill ==
    ASSUME PayoutsAlone, UNCHANGED payoutVars, raced \subseteq raced'
    PROVE  PayoutsAlone'
  <1> USE DEF payoutVars, payoutState, payoutTable, sudoVars, accountVars, PayoutsAlone
  <1>1. PayoutsSound'
    BY PayoutsNextSound
  <1>2. ChargedOnceUnlessRaced' /\ OnePendingUnlessRaced'
    BY DEF ChargedOnceUnlessRaced, OnePendingUnlessRaced
  <1>3. SentForDecision'
    BY DEF SentForDecision, TransferInFlight
  <1>4. (SharedPayouts \subseteq raced)'
    BY DEF SharedPayouts, Shared, PayoutWorksOn
  <1>5. \A p \in Procs : PayoutHandlerAlone(p)'
    BY DEF PayoutHandlerAlone, PendingPayouts
  <1> QED
    BY <1>1, <1>2, <1>3, <1>4, <1>5

\* The inductive invariant is as strong as the properties.
LEMMA PayoutsAlonePaidOnce == PayoutsAlone => PaidOnceUnlessRaced /\ OnePendingUnlessRaced
  BY DEF PayoutsAlone, PaidOnceUnlessRaced, SentForDecision, SentOnceUnlessRaced

\* And so does every step of the specification.
LEMMA PayoutsNextAlone ==
    ASSUME PayoutsAlone,
           [PayoutsNext /\ raced' = raced \cup SharedPayouts']_<<payoutVars, raced>>
    PROVE  PayoutsAlone'
  <1>1. CASE UNCHANGED <<payoutVars, raced>>
    BY <1>1, PayoutsStill
  <1>2. CASE PayoutsNext /\ raced' = raced \cup SharedPayouts'
    <2>1. raced \subseteq raced' /\ SharedPayouts' \subseteq raced'
      BY <1>2
    <2> QED
      BY <1>2, <2>1, PayoutWorkAlone DEF PayoutsNext, PayoutCall
  <1> QED
    BY <1>1, <1>2

-----------------------------------------------------------------------------
(* Transfers that Sudo made, of all payouts *)

\* TransfersAccountedFor, and what it needs: that the handlers about to complete
\* can be counted.
TransfersCounted ==
    \A pay \in PayoutIds :
        /\ IsFiniteSet(TransferInFlight(pay))
        /\ transfers[pay] <= payoutRows[pay] + unbooked[pay] + Cardinality(TransferInFlight(pay))

\* One step of a handler moves a transfer from one place to the next.
LEMMA TransfersStepCounted ==
    ASSUME PayoutsSound, TransfersCounted, [PayoutsNext]_payoutVars
    PROVE  TransfersCounted'
  <1> USE DEF PayoutsSound, PayoutMemoryOK, SlotsOK, AccountsInv, AccountsTypeOK, Idle, Goto,
              PayoutLabels, DecisionLabels, PayerLabels, CommitLabels
  <1> DEFINE NoneLost(pay) ==
               /\ \/ transfers'[pay] = transfers[pay] /\ unbooked'[pay] = unbooked[pay]
                  \/ transfers'[pay] = transfers[pay] + 1 /\ unbooked'[pay] = unbooked[pay] + 1
               /\ payoutRows'[pay] \in {payoutRows[pay], payoutRows[pay] + 1}
  <1>1. \A pay \in PayoutIds :
           /\ transfers[pay] \in Nat /\ unbooked[pay] \in Nat /\ payoutRows[pay] \in Nat
    BY PayoutsAssumption
  \* A step that begins or ends no wait for a commit after a transfer.
  <1>2. ASSUME \A pay \in PayoutIds : TransferInFlight(pay)' = TransferInFlight(pay) /\ NoneLost(pay)
        PROVE  TransfersCounted'
    <2> SUFFICES ASSUME NEW pay \in PayoutIds
                 PROVE  /\ IsFiniteSet(TransferInFlight(pay))
                        /\ transfers'[pay] <=
                              payoutRows'[pay] + unbooked'[pay] + Cardinality(TransferInFlight(pay))
      BY <1>2 DEF TransfersCounted
    <2>1. Cardinality(TransferInFlight(pay)) \in Nat
      BY FS_CardinalityType DEF TransfersCounted
    <2>2. transfers[pay] <= payoutRows[pay] + unbooked[pay] + Cardinality(TransferInFlight(pay))
      BY DEF TransfersCounted
    <2>3. /\ transfers[pay] \in Nat /\ unbooked[pay] \in Nat /\ payoutRows[pay] \in Nat
          /\ NoneLost(pay)
      BY <1>1, <1>2
    <2>4. transfers'[pay] <= payoutRows'[pay] + unbooked'[pay] + Cardinality(TransferInFlight(pay))
      BY <2>1, <2>2, <2>3
    <2> QED
      BY <2>4 DEF TransfersCounted
  <1>3. CASE UNCHANGED payoutVars
    BY <1>2, <1>3
       DEF payoutVars, payoutState, payoutTable, sudoVars, TransferInFlight
  <1>4. ASSUME NEW p \in Procs, pc[p] # "process_commit", pc'[p] # "process_commit",
               \A q \in Procs \ {p} : pc'[q] = pc[q] /\ target'[q] = target[q],
               \A pay \in PayoutIds : NoneLost(pay)
        PROVE  TransfersCounted'
    <2>1. \A pay \in PayoutIds : TransferInFlight(pay)' = TransferInFlight(pay)
      BY <1>4 DEF TransferInFlight
    <2> QED
      BY <1>2, <1>4, <2>1
  <1>5. ASSUME NEW p \in Procs, PayoutCall(p)
        PROVE  TransfersCounted'
    BY <1>4, <1>5
       DEF PayoutCall, PayoutRequest, CreatePayout, ProcessPayout, CompleteManualPayout, RejectPayout,
           ReadPendingPayout, payoutTable, sudoVars
  <1>6. ASSUME NEW p \in Procs, PayoutStep(p)
        PROVE  TransfersCounted'
    <2> DEFINE pay == target[p]
    <2>1. pc[p] \in DecisionLabels => pay \in PayoutIds
      BY DEF PayoutHandlersCovered
    <2>2. CASE CreatePayoutCheckPending(p) \/ CreatePayoutInsert(p) \/ RejectPayoutSave(p)
      BY <1>4, <2>2
         DEF CreatePayoutCheckPending, CreatePayoutInsert, RejectPayoutSave, payoutState,
             payoutTable, sudoVars
    <2>3. CASE ProcessPayoutReadUser(p) \/ ManualPayoutReadUser(p)
      BY <1>4, <2>3
         DEF ProcessPayoutReadUser, ManualPayoutReadUser, ReadPayer, payoutState, payoutTable,
             sudoVars
    <2>4. CASE SudoAnswerLost(p)
      <3>1. /\ pc[p] # "process_commit" /\ pc'[p] # "process_commit"
            /\ \A q \in Procs \ {p} : pc'[q] = pc[q] /\ target'[q] = target[q]
            /\ payoutRows' = payoutRows
            /\ pay \in PayoutIds
            /\ transfers'[pay] = transfers[pay] + 1 /\ unbooked'[pay] = unbooked[pay] + 1
            /\ \A other \in PayoutIds \ {pay} :
                  transfers'[other] = transfers[other] /\ unbooked'[other] = unbooked[other]
        BY <2>1, <2>4 DEF SudoAnswerLost, payoutTable
      <3> QED
        BY <1>4, <3>1
    <2>5. CASE SudoAccepts(p)
      <3>1. /\ pay \in PayoutIds /\ p \notin TransferInFlight(pay)
            /\ payoutRows' = payoutRows /\ unbooked' = unbooked
            /\ \A other \in PayoutIds :
                  transfers'[other] = IF other = pay THEN transfers[other] + 1
                                                     ELSE transfers[other]
        BY <2>1, <2>5 DEF SudoAccepts, payoutTable, TransferInFlight
      <3>2. \A other \in PayoutIds :
               TransferInFlight(other)' = IF other = pay THEN TransferInFlight(other) \cup {p}
                                                 ELSE TransferInFlight(other)
        BY <2>5 DEF SudoAccepts, TransferInFlight
      <3> SUFFICES ASSUME NEW other \in PayoutIds
                   PROVE  /\ IsFiniteSet(TransferInFlight(other)')
                          /\ transfers'[other] <= payoutRows[other] + unbooked[other]
                                                    + Cardinality(TransferInFlight(other)')
        BY <3>1 DEF TransfersCounted
      <3>3. /\ IsFiniteSet(TransferInFlight(other)) /\ Cardinality(TransferInFlight(other)) \in Nat
            /\ transfers[other] <= payoutRows[other] + unbooked[other]
                                     + Cardinality(TransferInFlight(other))
            /\ transfers[other] \in Nat /\ unbooked[other] \in Nat /\ payoutRows[other] \in Nat
        BY <1>1, FS_CardinalityType DEF TransfersCounted
      <3>4. other = pay =>
               /\ IsFiniteSet(TransferInFlight(other)')
               /\ Cardinality(TransferInFlight(other)') = Cardinality(TransferInFlight(other)) + 1
        <4>1. other = pay => /\ TransferInFlight(other)' = TransferInFlight(other) \cup {p}
                             /\ p \notin TransferInFlight(other)
          BY <3>1, <3>2
        <4>2. /\ IsFiniteSet(TransferInFlight(other) \cup {p})
              /\ p \notin TransferInFlight(other) =>
                    Cardinality(TransferInFlight(other) \cup {p})
                      = Cardinality(TransferInFlight(other)) + 1
          BY <3>3, FS_AddElement
        <4> QED
          BY <4>1, <4>2
      <3> QED
        BY <3>1, <3>2, <3>3, <3>4
    \* The wait ends with a row, or with a transfer that nobody booked.
    <2>6. ASSUME pc[p] = "process_commit",
                 pc'[p] = "idle", \A q \in Procs \ {p} : pc'[q] = pc[q] /\ target'[q] = target[q],
                 transfers' = transfers,
                 \A other \in PayoutIds :
                    IF other # pay
                      THEN payoutRows'[other] = payoutRows[other] /\ unbooked'[other] = unbooked[other]
                      ELSE \/ /\ payoutRows'[other] = payoutRows[other] + 1
                              /\ unbooked'[other] = unbooked[other]
                           \/ /\ payoutRows'[other] = payoutRows[other]
                              /\ unbooked'[other] = unbooked[other] + 1
          PROVE  TransfersCounted'
      <3>1. pay \in PayoutIds /\ p \in TransferInFlight(pay)
        BY <2>1, <2>6 DEF TransferInFlight
      <3>2. \A other \in PayoutIds :
               TransferInFlight(other)' = IF other = pay THEN TransferInFlight(other) \ {p} ELSE TransferInFlight(other)
        BY <2>6 DEF TransferInFlight
      <3> SUFFICES ASSUME NEW other \in PayoutIds
                   PROVE  /\ IsFiniteSet(TransferInFlight(other)')
                          /\ transfers[other] <= payoutRows'[other] + unbooked'[other]
                                                   + Cardinality(TransferInFlight(other)')
        BY <2>6 DEF TransfersCounted
      <3>3. /\ IsFiniteSet(TransferInFlight(other)) /\ Cardinality(TransferInFlight(other)) \in Nat
            /\ transfers[other] <= payoutRows[other] + unbooked[other]
                                     + Cardinality(TransferInFlight(other))
            /\ transfers[other] \in Nat /\ unbooked[other] \in Nat /\ payoutRows[other] \in Nat
        BY <1>1, FS_CardinalityType DEF TransfersCounted
      <3>4. other = pay =>
               /\ IsFiniteSet(TransferInFlight(other)')
               /\ Cardinality(TransferInFlight(other)') = Cardinality(TransferInFlight(other)) - 1
        <4>1. other = pay => TransferInFlight(other)' = TransferInFlight(other) \ {p} /\ p \in TransferInFlight(other)
          BY <3>1, <3>2
        <4> QED
          BY <3>3, <4>1, FS_RemoveElement
      <3> QED
        BY <2>6, <3>2, <3>3, <3>4
    <2>7. CASE ApplyPayoutCompletion(p)
      <3>1. /\ pay \in PayoutIds /\ pc'[p] = "idle"
            /\ \A q \in Procs \ {p} : pc'[q] = pc[q] /\ target'[q] = target[q]
            /\ transfers' = transfers /\ unbooked' = unbooked
            /\ \A other \in PayoutIds :
                  payoutRows'[other] = IF other = pay THEN payoutRows[other] + 1
                                                      ELSE payoutRows[other]
        BY <2>1, <2>7 DEF ApplyPayoutCompletion, sudoVars
      <3>2. CASE pc[p] = "process_commit"
        BY <2>6, <3>1, <3>2
      <3>3. CASE pc[p] # "process_commit"
        BY <1>4, <3>1, <3>3
      <3> QED
        BY <3>2, <3>3
    <2>8. CASE PayoutHandlerFails(p)
      <3>1. /\ pc'[p] = "idle"
            /\ \A q \in Procs \ {p} : pc'[q] = pc[q] /\ target'[q] = target[q]
            /\ transfers' = transfers /\ payoutRows' = payoutRows
            /\ pc[p] # "process_commit" => unbooked' = unbooked
            /\ pc[p] = "process_commit" =>
                  \A other \in PayoutIds :
                     unbooked'[other] = IF other = pay THEN unbooked[other] + 1
                                                       ELSE unbooked[other]
        BY <2>1, <2>8 DEF PayoutHandlerFails, Abandon, payoutTable
      <3>2. CASE pc[p] = "process_commit"
        BY <2>6, <3>1, <3>2
      <3>3. CASE pc[p] # "process_commit"
        BY <1>4, <3>1, <3>3
      <3> QED
        BY <3>2, <3>3
    <2> QED
      BY <1>6, <2>2, <2>3, <2>4, <2>5, <2>7, <2>8 DEF PayoutStep
  <1> QED
    BY <1>3, <1>5, <1>6 DEF PayoutsNext, PayoutCall

-----------------------------------------------------------------------------
(* One request at a time, the handlers implement the payout book *)

\* createPayout goes on with an amount that its instance covers.
AskedCovered ==
    \A p \in Procs : pc[p] \in PayoutCreatingLabels => asked[p] <= seen[p]["earnings"]

\* What the refinement of the payout book needs to know.
BookKept ==
    /\ PayoutsAlone /\ NothingStale /\ AskedCovered
    /\ raced = {}

\* With one slot nothing is shared, whatever a slot works on.
LEMMA OneSlotSharesNothing ==
    ASSUME OneRequestAtATime PROVE SharedPayouts' = {}
  BY DEF OneRequestAtATime, SharedPayouts, Shared

\* A step of a payout handler keeps the covered amount covered.
LEMMA AskedStaysCovered ==
    ASSUME OneRequestAtATime, PayoutsAlone, AskedCovered, NEW p \in Procs,
           PayoutCall(p) \/ PayoutStep(p)
    PROVE  AskedCovered'
  <1> USE DEF PayoutsAlone, PayoutsSound, PayoutMemoryOK, SlotsOK, AccountsInv, AccountsTypeOK,
              Goto, PayoutCreatingLabels
  <1>1. \A q \in Procs : q = p
    BY DEF OneRequestAtATime
  <1>2. ASSUME NEW u \in Users, NEW amount \in Amounts \cup Collected,
               CreatePayout(p, u, amount)
        PROVE  AskedCovered'
    <2>1. asked'[p] = amount /\ seen'[p] = balance[u]
      BY <1>2 DEF CreatePayout, ReadUser
    <2>2. balance[u]["earnings"] >= amount /\ balance[u]["earnings"] \in Int /\ amount \in Int
      BY <1>2, AccountsAssumption DEF CreatePayout, HasEarnings, Columns
    <2> QED
      BY <1>1, <2>1, <2>2 DEF AskedCovered
  <1>3. CASE CreatePayoutCheckPending(p)
    <2>1. pc[p] = "create_pending" /\ asked' = asked /\ seen' = seen
      BY <1>3 DEF CreatePayoutCheckPending, accountVars, payoutState
    <2> QED
      BY <1>1, <2>1 DEF AskedCovered
  <1>4. CASE PayoutCall(p)
            /\ ~\E u \in Users, amount \in Amounts \cup Collected : CreatePayout(p, u, amount)
    <2>1. pc'[p] \notin PayoutCreatingLabels
      BY <1>4 DEF PayoutCall, PayoutRequest, ProcessPayout, CompleteManualPayout, RejectPayout,
                  ReadPendingPayout
    <2> QED
      BY <1>1, <2>1 DEF AskedCovered
  <1>5. CASE PayoutStep(p) /\ ~CreatePayoutCheckPending(p)
    <2>1. pc'[p] \notin PayoutCreatingLabels
      BY <1>5 DEF PayoutStep, CreatePayoutInsert, ProcessPayoutReadUser, ManualPayoutReadUser,
                  ReadPayer, SudoAccepts, SudoAnswerLost, ApplyPayoutCompletion,
                  RejectPayoutSave, PayoutHandlerFails, Abandon
    <2> QED
      BY <1>1, <2>1 DEF AskedCovered
  <1> QED
    BY <1>2, <1>3, <1>4, <1>5

\* What leaves the payouts alone is a step of another service for the book.
LEMMA BookElsewhere ==
    ASSUME AccountsInv', UNCHANGED payoutTable
    PROVE  Book!Elsewhere
  <1>1. \A u \in Users : balance'[u]["earnings"] \in Int
    BY DEF AccountsInv, AccountsTypeOK, Columns
  <1>2. [u \in Users |-> balance'[u]["earnings"]] \in [Users -> Int]
    BY <1>1
  <1> QED
    BY <1>2 DEF Book!Elsewhere, payoutTable

\* Inserting a payout is asking for one: there is no open one of this user, and
\* the earnings cover it.
LEMMA InsertAsks ==
    ASSUME BookKept, NEW p \in Procs, CreatePayoutInsert(p)
    PROVE  Book!Next
  <1> DEFINE u == holds[p]
             a == asked[p]
  <1> USE DEF BookKept, PayoutsAlone, PayoutsSound, AccountsInv
  <1>1. PICK pay \in PayoutIds, rate \in Rates, fee \in Fees :
           /\ payoutStatus[pay] = "none"
           /\ Payable(a * rate - fee)
           /\ payoutStatus' = [payoutStatus EXCEPT ![pay] = "pending"]
           /\ payoutOwner' = [payoutOwner EXCEPT ![pay] = u]
           /\ payoutAmount' = [payoutAmount EXCEPT ![pay] = a]
    BY Zenon DEF CreatePayoutInsert
  <1>2. pc[p] = "create_insert" /\ UNCHANGED balance
    BY DEF CreatePayoutInsert, DropUser
  <1>3. u \in Users /\ a \in Amounts /\ PendingPayouts(u) = {}
    BY <1>1, <1>2, PayableIsNat DEF PayoutHandlersCovered, PayoutHandlerAlone
  <1>4. a <= balance[u]["earnings"]
    BY <1>2, <1>3 DEF AskedCovered, PayoutCreatingLabels, NothingStale, SeenWasCommitted, Columns
  <1> HIDE DEF u, a
  <1>5. Book!Ask(pay, u, a)
    BY <1>1, <1>2, <1>3, <1>4 DEF Book!Ask, Book!Open, PendingPayouts
  <1> QED
    BY <1>3, <1>5 DEF Book!Next

\* The transaction of applyPayoutCompletion completes an open payout.
LEMMA CompletionCompletes ==
    ASSUME BookKept, NEW p \in Procs, ApplyPayoutCompletion(p)
    PROVE  Book!Next
  <1> DEFINE row == target[p]
             u == holds[p]
             a == payoutAmount[row]
  <1> USE DEF BookKept, PayoutsAlone, PayoutsSound, AccountsInv
  <1>1. /\ pc[p] \in CommitLabels /\ Post(p, "payout", a)
        /\ payoutStatus' = [payoutStatus EXCEPT ![row] = "completed"]
        /\ UNCHANGED <<payoutOwner, payoutAmount>>
    BY DEF ApplyPayoutCompletion, CommitLabels
  <1>2. /\ row \in PayoutIds /\ payoutStatus[row] = "pending"
        /\ u = payoutOwner[row] /\ u \in Users /\ a \in Amounts
        /\ a <= seen[p]["earnings"]
    BY <1>1 DEF PayoutHandlersCovered, PayoutHandlerAlone, PayoutRowsOwned, DecisionLabels,
                PayerLabels, CommitLabels
  <1>3. seen[p]["earnings"] = balance[u]["earnings"]
    BY <1>2 DEF NothingStale, SeenWasCommitted, Columns
  <1>4. \A v \in Users : balance'[v]["earnings"] =
            IF v = u THEN balance[u]["earnings"] - a ELSE balance[v]["earnings"]
    <2>1. "earnings" \in Writes("payout") /\ Computed(p, "payout", a, "earnings")
                                               = seen[p]["earnings"] - a
      BY DEF Writes, Computed, Adds, Takes, Columns
    <2>2. balance' = [balance EXCEPT ![u] =
                        [c \in Columns |-> IF c \in Writes("payout")
                                             THEN Computed(p, "payout", a, c)
                                             ELSE balance[u][c]]]
      BY <1>1 DEF Post
    <2> HIDE DEF u, a
    <2> QED
      BY <1>2, <1>3, <2>1, <2>2 DEF AccountsTypeOK, Columns
  <1> HIDE DEF u, a, row
  <1> DEFINE before == [v \in Users |-> balance[v]["earnings"]]
             after == [v \in Users |-> balance'[v]["earnings"]]
  <1>5. after = [before EXCEPT ![u] = before[u] - a]
    BY <1>2, <1>4
  <1>6. before[u] = balance[u]["earnings"]
    BY <1>2
  <1>7. Book!Complete(row)
    BY <1>1, <1>2, <1>3, <1>5, <1>6 DEF Book!Complete, a
  <1>8. PICK pay \in PayoutIds : pay = row
    BY <1>2
  <1>9. Book!Complete(pay)
    BY <1>7, <1>8 DEF Book!Complete
  <1> QED
    BY <1>9 DEF Book!Next

\* Every step of a payout handler is a step of the book.
LEMMA PayoutWorkBook ==
    ASSUME BookKept, AccountsInv', NEW p \in Procs, PayoutCall(p) \/ PayoutStep(p)
    PROVE  Book!Next
  <1>1. CASE UNCHANGED payoutTable
    BY <1>1, BookElsewhere DEF Book!Next
  <1>2. CASE RejectPayoutSave(p)
    <2>1. /\ target[p] \in PayoutIds /\ payoutStatus[target[p]] = "pending"
          /\ payoutStatus' = [payoutStatus EXCEPT ![target[p]] = "rejected"]
          /\ UNCHANGED <<payoutOwner, payoutAmount, balance>>
      BY <1>2 DEF RejectPayoutSave, BookKept, PayoutsAlone, PayoutsSound, PayoutHandlersCovered,
                  PayoutHandlerAlone, DecisionLabels, accountVars
    <2>2. Book!Reject(target[p])
      BY <2>1 DEF Book!Reject
    <2> QED
      BY <2>1, <2>2 DEF Book!Next
  <1>3. CASE PayoutCall(p)
    BY <1>1, <1>3 DEF PayoutCall, PayoutRequest, CreatePayout, ProcessPayout, CompleteManualPayout,
                      RejectPayout, ReadPendingPayout, payoutTable
  <1>4. CASE PayoutStep(p)
    BY <1>1, <1>2, <1>4, InsertAsks, CompletionCompletes
       DEF PayoutStep, CreatePayoutCheckPending, ProcessPayoutReadUser, ManualPayoutReadUser,
           ReadPayer, SudoAccepts, SudoAnswerLost, PayoutHandlerFails, Abandon,
           payoutState, payoutTable
  <1> QED
    BY <1>3, <1>4

\* The book starts empty, with the same earnings.
LEMMA BookStarts == AccountsInit /\ PayoutsInit => Book!Init
  <1> SUFFICES ASSUME AccountsInit, PayoutsInit
               PROVE  Book!Init
    OBVIOUS
  <1>1. PICK e \in [Users -> OpeningEarnings] :
           \A u \in Users : balance[u]["earnings"] = e[u]
    BY DEF AccountsInit, Columns
  <1>2. [u \in Users |-> balance[u]["earnings"]] \in [Users -> OpeningEarnings]
    BY <1>1
  <1> QED
    BY <1>2 DEF PayoutsInit, Book!Init

-----------------------------------------------------------------------------
(* Theorems *)

\* The inductive invariant holds in every reachable state.
LEMMA PayoutsAlwaysAlone == PayoutsSpec => []PayoutsAlone
  <1>1. PayoutsStart => PayoutsAlone
    BY PayoutsStartAlone DEF PayoutsStart
  <1>2. PayoutsAlone
        /\ [PayoutsNext /\ raced' = raced \cup SharedPayouts']_<<payoutVars, raced>>
          => PayoutsAlone'
    BY PayoutsNextAlone
  <1> QED
    BY <1>1, <1>2, PTL DEF PayoutsSpec

\* The tables, the memory of the handlers and the link between a decision and
\* its debit are sound in every reachable state.
THEOREM PayoutsInvariant == PayoutsSpec => []PayoutsInv
  <1> DEFINE Labelled == pc \in [Procs -> PayoutLabels \cup {"idle"}]
  <1>1. PayoutsStart => Labelled
    BY DEF PayoutsStart, RequestsInit
  <1>2. Labelled
        /\ [PayoutsNext /\ raced' = raced \cup SharedPayouts']_<<payoutVars, raced>>
          => Labelled'
    <2>1. ASSUME Labelled, NEW p \in Procs, PayoutCall(p) \/ PayoutStep(p)
          PROVE  Labelled'
      <3>1. PICK to \in PayoutLabels \cup {"idle"} : pc' = [pc EXCEPT ![p] = to]
        BY <2>1, PayoutWorkGoes
      <3> QED
        BY <2>1, <3>1
    <2> QED
      BY <2>1 DEF PayoutsNext, PayoutCall, payoutVars
  <1>3. PayoutsAlone /\ Labelled => PayoutsInv
    BY DEF PayoutsAlone, PayoutsSound, PayoutsInv, PayoutsTypeOK, PayoutMemoryOK, AccountsInv
  <1> QED
    BY <1>1, <1>2, <1>3, PayoutsAlwaysAlone, PTL DEF PayoutsSpec

\* The type invariant of createPayout, processPayout, completeManualPayout
\* and rejectPayout.
THEOREM PayoutsTypeCorrect == PayoutsSpec => []PayoutsTypeOK
  <1>1. PayoutsInv => PayoutsTypeOK
    BY DEF PayoutsInv
  <1> QED
    BY <1>1, PayoutsInvariant, PTL

\* A handler that may commit a debit holds an instance of the owner of its
\* payout that covers the amount, whatever the other handlers do meanwhile.
THEOREM PayoutsCovered == PayoutsSpec => []PayoutHandlersCovered
  <1>1. PayoutsInv => PayoutHandlersCovered
    BY DEF PayoutsInv
  <1> QED
    BY <1>1, PayoutsInvariant, PTL

\* applyPayoutCompletion changes the status, the earnings and the PAYOUT row
\* together, so a pending payout is never charged and a completed one is.
THEOREM PayoutsCharged == PayoutsSpec => []ChargedWithDecision
  <1>1. PayoutsInv => ChargedWithDecision
    BY DEF PayoutsInv
  <1> QED
    BY <1>1, PayoutsInvariant, PTL

\* No negative amount was ever credited to anybody.
NoNegativeDeposits == \A u \in Users : posted[u]["negative_credit"] = 0

\* Payout handlers post PAYOUT rows and nothing else.
LEMMA PayoutsPostNoCredit ==
    ASSUME PayoutsSound, NoNegativeDeposits, [PayoutsNext]_payoutVars
    PROVE  NoNegativeDeposits'
  <1>1. CASE UNCHANGED posted
    BY <1>1 DEF NoNegativeDeposits
  <1>2. ASSUME NEW p \in Procs, ApplyPayoutCompletion(p)
        PROVE  NoNegativeDeposits'
    <2>1. PICK amount : posted' = [posted EXCEPT ![holds[p]]["payout"] =
                                      posted[holds[p]]["payout"] + amount]
      BY <1>2 DEF ApplyPayoutCompletion, Post
    <2> QED
      BY <2>1 DEF NoNegativeDeposits, PayoutsSound, AccountsInv, AccountsTypeOK, Kinds
  <1>3. ASSUME NEW p \in Procs, PayoutRequest(p) \/ PayoutStep(p), ~ApplyPayoutCompletion(p)
        PROVE  UNCHANGED posted
    BY <1>3 DEF PayoutRequest, CreatePayout, ProcessPayout, CompleteManualPayout, RejectPayout,
                ReadPendingPayout, PayoutStep, CreatePayoutCheckPending, CreatePayoutInsert,
                ProcessPayoutReadUser, ManualPayoutReadUser, ReadPayer, SudoAccepts,
                SudoAnswerLost, RejectPayoutSave, PayoutHandlerFails, Abandon, DropUser,
                ReadUser, accountVars
  <1> QED
    BY <1>1, <1>2, <1>3 DEF PayoutsNext, payoutVars, accountVars

\* No interleaving of the payout handlers makes a balance negative: they credit
\* nobody, so the exception that NoNegativeBalance makes does not occur.
THEOREM PayoutsNeverOverdraw ==
    PayoutsSpec => [](NoNegativeBalance /\ NoNegativeDeposits)
  <1>1. PayoutsStart => NoNegativeDeposits
    BY DEF PayoutsStart, AccountsInit, NoNegativeDeposits, Kinds
  <1>2. PayoutsAlone /\ NoNegativeDeposits
        /\ [PayoutsNext /\ raced' = raced \cup SharedPayouts']_<<payoutVars, raced>>
          => NoNegativeDeposits'
    BY PayoutsPostNoCredit DEF PayoutsAlone, payoutVars
  <1>3. PayoutsAlone => NoNegativeBalance
    BY DEF PayoutsAlone, PayoutsSound, AccountsInv
  <1> QED
    BY <1>1, <1>2, <1>3, PayoutsAlwaysAlone, PTL DEF PayoutsSpec

\* The books and the earnings differ only where a stale instance was saved.
THEOREM PayoutsReconciled == PayoutsSpec => []ReconciledUnlessOverwritten
  <1>1. PayoutsInv => ReconciledUnlessOverwritten
    BY DEF PayoutsInv, AccountsInv
  <1> QED
    BY <1>1, PayoutsInvariant, PTL

\* The payout handlers implement the abstract specification of the money
\* tables: every step posts one covered row or leaves the balances alone.
THEOREM PayoutsImplementAccounts == PayoutsSpec => AccountsSpec
  <1>1. PayoutsAlone
        /\ [PayoutsNext /\ raced' = raced \cup SharedPayouts']_<<payoutVars, raced>>
          => [AccountsNext]_accountVars
    BY PayoutsStepPlain, PayoutsNextAccounts DEF PayoutsAlone
  <1>2. PayoutsStart => AccountsInit
    BY DEF PayoutsStart
  <1> QED
    BY <1>1, <1>2, PayoutsAlwaysAlone, PTL DEF PayoutsSpec, AccountsSpec

\* A payout that was decided is never pending again.
THEOREM PayoutsNeverReopened == PayoutsSpec => NeverReopened
  <1> DEFINE Kept == \A pay \in PayoutIds :
                        payoutStatus[pay] # "none" /\ payoutStatus'[pay] # payoutStatus[pay]
                          => payoutStatus'[pay] \in {"completed", "rejected"}
  <1>1. PayoutsAlone
        /\ [PayoutsNext /\ raced' = raced \cup SharedPayouts']_<<payoutVars, raced>>
          => Kept \/ UNCHANGED payoutStatus
    BY PayoutWorkReopensNone
       DEF PayoutsAlone, PayoutsNext, PayoutCall, payoutVars, payoutState, payoutTable
  <1> QED
    BY <1>1, PayoutsAlwaysAlone, PTL DEF PayoutsSpec, NeverReopened

\* A payout on which no two handlers ever worked at once is charged once and
\* sent once, and not charged if it ends rejected: the status that processPayout,
\* completeManualPayout or rejectPayout checked is still the status they replace.
THEOREM PayoutsPaidOnce == PayoutsSpec => []PaidOnceUnlessRaced
  <1>1. PayoutsAlone => PaidOnceUnlessRaced
    BY PayoutsAlonePaidOnce
  <1> QED
    BY <1>1, PayoutsAlwaysAlone, PTL

\* A user for whom no two createPayout handlers ever ran at once has one
\* pending payout at most.
THEOREM PayoutsOnePending == PayoutsSpec => []OnePendingUnlessRaced
  <1>1. PayoutsAlone => OnePendingUnlessRaced
    BY PayoutsAlonePaidOnce
  <1> QED
    BY <1>1, PayoutsAlwaysAlone, PTL

\* Every transfer that Sudo made is charged to the user, is about to be, or was
\* made for a handler that failed after it: of any payout, raced or not.
THEOREM PayoutsTransfersCounted == PayoutsSpec => []TransfersAccountedFor
  <1>1. PayoutsStart => TransfersCounted
    <2> SUFFICES ASSUME PayoutsStart
                 PROVE  TransfersCounted
      OBVIOUS
    <2>1. \A pay \in PayoutIds : TransferInFlight(pay) = {}
      BY DEF PayoutsStart, RequestsInit, TransferInFlight
    <2> QED
      BY <2>1, FS_EmptySet DEF TransfersCounted, PayoutsStart, PayoutsInit
  <1>2. PayoutsAlone /\ TransfersCounted
        /\ [PayoutsNext /\ raced' = raced \cup SharedPayouts']_<<payoutVars, raced>>
          => TransfersCounted'
    BY PayoutsStepPlain, TransfersStepCounted DEF PayoutsAlone
  <1>3. TransfersCounted => TransfersAccountedFor
    BY DEF TransfersCounted, TransfersAccountedFor, TransferInFlight
  <1> QED
    BY <1>1, <1>2, <1>3, PayoutsAlwaysAlone, PTL DEF PayoutsSpec

=============================================================================
