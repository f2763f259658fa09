--------------------------- MODULE WidgetSessions ---------------------------
(***************************************************************************)
(* WidgetService: a session leads a user through the steps of an           *)
(* onboarding, a withdrawal or a deposit.  submitStep stores what a step   *)
(* collected and moves on; completeSession moves the money and closes the  *)
(* session; a session nobody used for an hour is abandoned by the next     *)
(* call that looks at it.  The controller and the socket gateway call the  *)
(* same handlers.                                                          *)
(*                                                                         *)
(* A withdrawal session calls PayoutsService.createPayout, so a slot has   *)
(* two frames: at[p] is where the widget handler is, and pc[p] where the   *)
(* payout handler is that it called.  Nobody validates the amount that a   *)
(* session collects: it may be missing, zero or negative.  The onboarding  *)
(* request that an onboarding session inserts moves no money: Onboarding   *)
(* models it, on the tables it is about.                                   *)
(***************************************************************************)
EXTENDS Payouts, Sequences

CONSTANTS
    Sessions,       \* rows the widget_sessions table may come to have
    NoSession,      \* a handler that works on no session
    NoAmount,       \* a session that collected no amount, or the number 0
    MaxMoves        \* bound: times a deposit session credits its user

ASSUME WidgetAssumption ==
    /\ NoSession \notin Sessions
    /\ NoAmount \notin Collected
    /\ MaxMoves \in Nat

VARIABLES
    sesStatus,      \* widget_sessions.status, or "none": no such row yet
    sesKind,        \* trigger_type
    sesOwner,       \* user_id
    sesStep,        \* current_step, as its position in Steps[kind]
    sesAmount,      \* collected_data["collecting-amount"].amount
    sesIdle,        \* sesIdle[s]: last_activity_at is over an hour ago
    at,             \* at[p]: the await a widget handler is suspended at
    session,        \* session[p]: the session it works on
    draft,          \* draft[p]: step and amount in its instance of the row
    moved,          \* moved[s]: credits and payout requests made for s
    unclosed       \* unclosed[s]: those whose handler failed to close s

(* moved and unclosed are history variables: no guard reads them. *)
sessionTable == <<sesStatus, sesKind, sesOwner, sesStep, sesAmount, sesIdle>>
widgetLocals == <<at, session, draft>>
sessionHistory == <<moved, unclosed>>
widgetState == <<sessionTable, widgetLocals, sessionHistory>>
widgetVars == <<payoutVars, widgetState>>

MoneySteps == <<"collecting-amount", "collecting-proof", "confirming-paypal",
                "pending-admin", "processing", "completed">>

\* getNextStep: each step leads to the one after it.
Steps == [onboarding |-> <<"request-credentials", "waiting-for-admin",
                           "tiktok-setup-instructions", "confirm-setup",
                           "pending-verification", "completed">>,
          withdrawal |-> MoneySteps,
          deposit |-> MoneySteps]

SessionKinds == DOMAIN Steps
SessionStatuses == {"none", "active", "completed", "abandoned"}

\* The position of "completed".
LastStep == Len(MoneySteps)

NoDraft == [step |-> 0, amount |-> NoAmount]

WidgetInit ==
    /\ sesStatus = [s \in Sessions |-> "none"]
    /\ sesKind = [s \in Sessions |-> "onboarding"]
    /\ sesOwner = [s \in Sessions |-> NoUser]
    /\ sesStep = [s \in Sessions |-> 1]
    /\ sesAmount = [s \in Sessions |-> NoAmount]
    /\ sesIdle = [s \in Sessions |-> FALSE]
    /\ at = [p \in Procs |-> "no"]
    /\ session = [p \in Procs |-> NoSession]
    /\ draft = [p \in Procs |-> NoDraft]
    /\ moved = [s \in Sessions |-> 0]
    /\ unclosed = [s \in Sessions |-> 0]

Free(p) == Idle(p) /\ at[p] = "no"
GoAt(p, label) == at' = [at EXCEPT ![p] = label]

\* The handler has read the row of s, holds d of it, and goes on at label.
OpenSession(p, s, d, label) ==
    /\ session' = [session EXCEPT ![p] = s]
    /\ draft' = [draft EXCEPT ![p] = d]
    /\ GoAt(p, label)

\* The widget handler answers, with a result or with an error.
WidgetDone(p) == OpenSession(p, NoSession, NoDraft, "no")

-----------------------------------------------------------------------------
(* initSession, getSession, submitStep *)

\* WidgetSession.create; users are never deleted.
InitSession(p, u, kind) ==
    /\ Free(p)
    /\ \E s \in Sessions :
          /\ sesStatus[s] = "none"
          /\ sesStatus' = [sesStatus EXCEPT ![s] = "active"]
          /\ sesKind' = [sesKind EXCEPT ![s] = kind]
          /\ sesOwner' = [sesOwner EXCEPT ![s] = u]
    /\ UNCHANGED <<payoutVars, sesStep, sesAmount, sesIdle, widgetLocals, sessionHistory>>

\* An hour has passed since last_activity_at.
HourPasses(s) ==
    /\ sesStatus[s] # "none" /\ ~sesIdle[s]
    /\ sesIdle' = [sesIdle EXCEPT ![s] = TRUE]
    /\ UNCHANGED <<payoutVars, sesStatus, sesKind, sesOwner, sesStep, sesAmount,
                   widgetLocals, sessionHistory>>

\* getSession, which every handler starts with, finds the session idle and
\* sets it abandoned, whatever it was; an abandoned one has nothing to save.
GetIdleSession(p, s) ==
    /\ Free(p)
    /\ sesStatus[s] \in {"active", "completed"} /\ sesIdle[s]
    /\ OpenSession(p, s, NoDraft, "abandon")
    /\ UNCHANGED <<payoutVars, sessionTable, sessionHistory>>

SessionAbandon(p) ==
    /\ at[p] = "abandon"
    /\ sesStatus' = [sesStatus EXCEPT ![session[p]] = "abandoned"]
    /\ WidgetDone(p)
    /\ UNCHANGED <<payoutVars, sesKind, sesOwner, sesStep, sesAmount, sesIdle,
                   sessionHistory>>

\* The session is active and the step submitted is the current one.  The
\* collected data, whatever they are, are merged in memory with those read.
SubmitStep(p, s, amount) ==
    LET collects == Steps[sesKind[s]][sesStep[s]] = "collecting-amount" IN
    /\ Free(p)
    /\ sesStatus[s] = "active" /\ ~sesIdle[s]
    /\ OpenSession(p, s, [step |-> sesStep[s] + 1,
                          amount |-> IF collects THEN amount ELSE sesAmount[s]], "save")
    /\ UNCHANGED <<payoutVars, sessionTable, sessionHistory>>

\* Mutant: save() writes all columns of the instance, the status included.
SubmitStepSaveAll(p) ==
    LET s == session[p] IN
    /\ at[p] = "save"
    /\ sesStep' = [sesStep EXCEPT ![s] = draft[p].step]
    /\ sesAmount' = [sesAmount EXCEPT ![s] = draft[p].amount]
    /\ sesIdle' = [sesIdle EXCEPT ![s] = FALSE]
    /\ sesStatus' = [sesStatus EXCEPT ![s] =
                        IF draft[p].step = LastStep THEN "completed" ELSE "active"]
    /\ WidgetDone(p)
    /\ UNCHANGED <<payoutVars, sesKind, sesOwner, sessionHistory>>

\* session.save(): step, collected data and activity, and the status only if
\* the step is the last one.
SubmitStepSave(p) ==
    LET s == session[p] IN
    /\ at[p] = "save"
    /\ sesStep' = [sesStep EXCEPT ![s] = draft[p].step]
    /\ sesAmount' = [sesAmount EXCEPT ![s] = draft[p].amount]
    /\ sesIdle' = [sesIdle EXCEPT ![s] = FALSE]
    /\ sesStatus' = IF draft[p].step = LastStep
                      THEN [sesStatus EXCEPT ![s] = "completed"] ELSE sesStatus
    /\ WidgetDone(p)
    /\ UNCHANGED <<payoutVars, sesKind, sesOwner, sessionHistory>>

-----------------------------------------------------------------------------
(* completeSession, with completeWithdrawal and completeDeposit *)

FirstAwait(kind) ==
    CASE kind = "onboarding" -> "close"
      [] kind = "withdrawal" -> "call"
      [] kind = "deposit" -> "user"

\* Mutant: a completed session is completed again.
CompleteSessionAgain(p, s) ==
    /\ Free(p)
    /\ sesStatus[s] # "none" /\ ~sesIdle[s]
    /\ sesKind[s] # "onboarding" => sesAmount[s] # NoAmount
    /\ OpenSession(p, s, [step |-> LastStep, amount |-> sesAmount[s]],
                   FirstAwait(sesKind[s]))
    /\ UNCHANGED <<payoutVars, sessionTable, sessionHistory>>

\* A completed session is returned as it is; whether it is at its last step,
\* or abandoned, is not asked.  Money needs an amount.
CompleteSession(p, s) ==
    /\ Free(p)
    /\ sesStatus[s] \in {"active", "abandoned"} /\ ~sesIdle[s]
    /\ sesKind[s] # "onboarding" => sesAmount[s] # NoAmount
    /\ OpenSession(p, s, [step |-> LastStep, amount |-> sesAmount[s]],
                   FirstAwait(sesKind[s]))
    /\ UNCHANGED <<payoutVars, sessionTable, sessionHistory>>

\* completeWithdrawal calls createPayout, which runs in the same slot.
CallCreatePayout(p) ==
    /\ at[p] = "call"
    /\ CreatePayout(p, sesOwner[session[p]], draft[p].amount)
    /\ GoAt(p, "called")
    /\ UNCHANGED <<sessionTable, session, draft, sessionHistory>>

\* createPayout goes on to its next await.
PayoutCallRuns(p) ==
    /\ at[p] = "called"
    /\ CreatePayoutCheckPending(p)
    /\ UNCHANGED widgetState

\* createPayout inserts its row and returns.
PayoutCallReturns(p) ==
    /\ at[p] = "called"
    /\ CreatePayoutInsert(p)
    /\ moved' = [moved EXCEPT ![session[p]] = @ + 1]
    /\ GoAt(p, "close")
    /\ UNCHANGED <<sessionTable, session, draft, unclosed>>

\* completeDeposit: User.findByPk.
DepositReadUser(p) ==
    /\ at[p] = "user"
    /\ ReadUser(p, sesOwner[session[p]])
    /\ GoAt(p, "commit")
    /\ UNCHANGED <<pc, payoutState, sessionTable, session, draft, sessionHistory>>

\* completeDeposit's transaction: earnings and a CREDIT row, of any amount.
DepositCommit(p) ==
    /\ at[p] = "commit"
    /\ moved[session[p]] < MaxMoves
    /\ PostCollected(p, draft[p].amount)
    /\ moved' = [moved EXCEPT ![session[p]] = @ + 1]
    /\ GoAt(p, "close")
    /\ UNCHANGED <<pc, payoutState, sessionTable, session, draft, unclosed>>

\* completeSession's own save(), after the money has moved.
SessionClose(p) ==
    LET s == session[p] IN
    /\ at[p] = "close"
    /\ sesStatus' = [sesStatus EXCEPT ![s] = "completed"]
    /\ sesStep' = [sesStep EXCEPT ![s] = LastStep]
    /\ WidgetDone(p)
    /\ UNCHANGED <<payoutVars, sesKind, sesOwner, sesAmount, sesIdle, sessionHistory>>

-----------------------------------------------------------------------------
WidgetLabels == {"abandon", "save", "call", "called", "user", "commit", "close"}

\* What a failing handler does not record: that the money has moved.
LeavesUnclosed(p) ==
    unclosed' = IF at[p] = "close" /\ sesKind[session[p]] # "onboarding"
                   THEN [unclosed EXCEPT ![session[p]] = @ + 1] ELSE unclosed

\* The handler ends with an error: createPayout refuses or fails, a query
\* fails (the transaction is rolled back), or the process dies.
WidgetHandlerFails(p) ==
    /\ at[p] \in WidgetLabels
    /\ IF at[p] = "called"
         THEN PayoutHandlerFails(p)
         ELSE DropUser(p) /\ UNCHANGED <<pc, payoutState>>
    /\ LeavesUnclosed(p)
    /\ WidgetDone(p)
    /\ UNCHANGED <<sessionTable, moved>>

WidgetRequest(p) ==
    \/ \E u \in Users, kind \in SessionKinds : InitSession(p, u, kind)
    \/ \E s \in Sessions :
          \/ GetIdleSession(p, s)
          \/ \E amount \in Collected \cup {NoAmount} : SubmitStep(p, s, amount)
          \/ CompleteSession(p, s)

WidgetStep(p) ==
    \/ SessionAbandon(p) \/ SubmitStepSave(p)
    \/ CallCreatePayout(p) \/ PayoutCallRuns(p) \/ PayoutCallReturns(p)
    \/ DepositReadUser(p) \/ DepositCommit(p) \/ SessionClose(p)
    \/ WidgetHandlerFails(p)

\* Payout handlers that users and administrators call without the widget.
DirectPayoutStep(p) == at[p] = "no" /\ PayoutStep(p) /\ UNCHANGED widgetState

DirectPayout(p) ==
    \/ Free(p) /\ PayoutRequest(p) /\ UNCHANGED widgetState
    \/ DirectPayoutStep(p)

WidgetNext ==
    \/ \E p \in Procs : WidgetRequest(p) \/ WidgetStep(p) \/ DirectPayout(p)
    \/ \E s \in Sessions : HourPasses(s)

\* The session that a handler works on, besides the payout.
WidgetWorksOn(p) == ({session[p]} \ {NoSession}) \cup PayoutWorksOn(p)

SharedSessions == Shared(WidgetWorksOn)

WidgetStart == RequestsInit /\ AccountsInit /\ PayoutsInit /\ WidgetInit

WidgetSpec ==
    /\ WidgetStart
    /\ [][WidgetNext /\ raced' = raced \cup SharedSessions']_<<widgetVars, raced>>

-----------------------------------------------------------------------------
(* Properties *)

\* Types, and what a widget handler holds at each await: its session, the
\* amount of one that moves money, the owner's instance at the commit, and a
\* payout handler under it exactly while it has called one.
WidgetTypeOK ==
    /\ sesStatus \in [Sessions -> SessionStatuses]
    /\ sesKind \in [Sessions -> SessionKinds]
    /\ sesOwner \in [Sessions -> Users \cup {NoUser}]
    /\ sesStep \in [Sessions -> 1..LastStep]
    /\ sesAmount \in [Sessions -> Collected \cup {NoAmount}]
    /\ sesIdle \in [Sessions -> BOOLEAN]
    /\ at \in [Procs -> WidgetLabels \cup {"no"}]
    /\ moved \in [Sessions -> Nat] /\ unclosed \in [Sessions -> Nat]
    /\ \A p \in Procs :
          /\ at[p] # "no" => session[p] \in Sessions /\ sesStatus[session[p]] # "none"
          /\ at[p] \in {"call", "called", "user", "commit"} =>
                draft[p].amount \in Collected
          /\ at[p] = "commit" => holds[p] = sesOwner[session[p]]
          /\ at[p] = "called" <=> at[p] # "no" /\ ~Idle(p)

\* completeSession, widget.service.ts: a session that is COMPLETED is
\* returned and nothing is done again.  So a session on which no two handlers
\* ever worked at once moves its money once, not counting the handlers that
\* failed before they could close it.
MovedOnceUnlessRaced == \A s \in Sessions \ raced : moved[s] <= 1 + unclosed[s]

\* A session's handlers know its session, and it moves its money once.
WidgetInv == WidgetTypeOK /\ MovedOnceUnlessRaced

\* A session that was closed or abandoned is never active again: a late
\* save of an instance read before writes the step but not the old status.
NeverActiveAgain(s) == sesStatus[s] \in {"completed", "abandoned"} => sesStatus'[s] # "active"

\* submitStep, widget.service.ts: "Expected step ..., got ...".  So the step
\* of a session never goes back.
StepNeverBack(s) == sesStep'[s] >= sesStep[s]

\* getSession, widget.service.ts: "Expire if inactive for more than 1 hour".
\* So a session that was found expired moves no money any more, although
\* completeSession itself does not ask whether the session is abandoned: its
\* activity stays old unless a submission was under way when it expired.
AbandonedMovesNothing(s) == sesStatus[s] = "abandoned" => moved'[s] = moved[s]

\* A session only goes forward: it is never active again, and where no two
\* handlers worked on it at once its step does not go back and, once
\* abandoned, it moves no money.
SessionsAdvanceUnlessRaced ==
    [][\A s \in Sessions :
          /\ NeverActiveAgain(s)
          /\ s \notin raced => StepNeverBack(s) /\ AbandonedMovesNothing(s)]_widgetState

=============================================================================
