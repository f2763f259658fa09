--------------------------- MODULE MoneyFlowsProofs ---------------------------
(***************************************************************************)
(* Proofs about widget sessions, and about everything that moves money     *)
(* when it runs on the same user rows at once.                             *)
(*                                                                         *)
(* WidgetSound is the invariant of sessions: what a widget handler knows   *)
(* of its session where it is suspended, and that a session no two         *)
(* handlers work on moves its money once.  A widget handler does to users  *)
(* and payouts what a payout handler does, or reads or credits a user      *)
(* itself (WidgetWorkKinds); so PayoutsAlone is kept beside it.            *)
(*                                                                         *)
(* MoneySound is the conjunction of the invariants of all components.      *)
(* None of them says anything of a slot that runs a handler of another     *)
(* component, so a step keeps the others' because it moves between awaits  *)
(* they do not have, touches one slot, and changes the tables of Accounts  *)
(* only as AccountsNext does (the lemmas named ..Elsewhere).               *)
(*                                                                         *)
(* With a single request slot no instance is ever stale and nothing is     *)
(* raced, from which the books always add up and withdrawals implement     *)
(* PayoutBook.                                                             *)
(***************************************************************************)
EXTENDS MoneyFlows, WalletProofs, PayoutsProofs

\* Where completeSession is on its way to move money.
MovingLabels == {"call", "called", "user", "commit"}

WidgetTablesOK ==
    /\ sesStatus \in [Sessions -> SessionStatuses]
    /\ sesKind \in [Sessions -> SessionKinds]
    /\ sesOwner \in [Sessions -> Users \cup {NoUser}]
    /\ sesStep \in [Sessions -> 1..LastStep]
    /\ sesAmount \in [Sessions -> Collected \cup {NoAmount}]
    /\ sesIdle \in [Sessions -> BOOLEAN]
    /\ at \in [Procs -> WidgetLabels \cup {"no"}]
    /\ session \in [Procs -> Sessions \cup {NoSession}]
    /\ draft \in [Procs -> [step : 0..LastStep, amount : Collected \cup {NoAmount}]]
    /\ moved \in [Sessions -> Nat] /\ unclosed \in [Sessions -> Nat]
    /\ \A s \in Sessions :
          /\ sesStatus[s] # "none" => sesOwner[s] \in Users
          /\ sesStatus[s] \in {"none", "active"} => sesStep[s] < LastStep
          /\ sesStatus[s] = "none" \/ sesKind[s] = "onboarding" => moved[s] = 0

\* What the handler of a slot knows where it is suspended.  The last part is
\* what its check of the session is still worth when nobody else worked on it.
WidgetHandlerSound(p) ==
    /\ at[p] = "no" => session[p] = NoSession
    /\ at[p] # "no" => session[p] \in Sessions /\ sesStatus[session[p]] # "none"
    /\ at[p] \in MovingLabels =>
          draft[p].amount \in Collected /\ sesKind[session[p]] # "onboarding"
    /\ at[p] = "save" => draft[p].step >= 1
    /\ at[p] = "commit" => holds[p] = sesOwner[session[p]]
    /\ at[p] = "called" => pc[p] \in PayoutCreatingLabels
    /\ at[p] \notin {"no", "called"} => pc[p] = "idle"
    /\ session[p] \in Sessions \ raced =>
          /\ at[p] = "abandon" => sesIdle[session[p]]
          /\ at[p] # "abandon" => sesStatus[session[p]] = "active"
          /\ at[p] = "save" => draft[p].step = sesStep[session[p]] + 1

\* A session that no two handlers worked on: one that was abandoned stays idle,
\* so nobody completes it; and its money moves when its handler is about to
\* close it, or has closed it, or has failed to.
SessionAlone(s) ==
    s \notin raced =>
        /\ sesStatus[s] = "abandoned" => sesIdle[s]
        /\ moved[s] <= 1 + unclosed[s]
        /\ sesStatus[s] \in {"none", "active"}
             /\ (\A p \in Procs : session[p] = s => at[p] # "close")
           => moved[s] <= unclosed[s]

\* Two handlers at work on one session are noted.
SessionsNoted ==
    \A p, q \in Procs :
        p # q /\ session[p] = session[q] /\ session[p] # NoSession => session[p] \in raced

\* The inductive invariant, next to that of the payouts.
WidgetSound ==
    /\ WidgetTablesOK /\ SessionsNoted
    /\ \A p \in Procs : WidgetHandlerSound(p)
    /\ \A s \in Sessions : SessionAlone(s)

\* The sessions that getNextStep knows, and how many steps they have.
LEMMA SessionFacts ==
    /\ SessionKinds = {"onboarding", "withdrawal", "deposit"}
    /\ LastStep = 6
  BY DEF SessionKinds, Steps, LastStep, MoneySteps

\* The inductive invariant is as strong as the properties.
LEMMA WidgetSoundInv == WidgetSound => WidgetInv
  <1> SUFFICES ASSUME WidgetSound
               PROVE  WidgetTypeOK /\ MovedOnceUnlessRaced
    BY DEF WidgetInv
  <1>1. \A p \in Procs : at[p] = "called" <=> at[p] # "no" /\ ~Idle(p)
    BY DEF WidgetSound, WidgetHandlerSound, Idle, PayoutCreatingLabels
  <1>2. WidgetTypeOK
    BY <1>1 DEF WidgetSound, WidgetTablesOK, WidgetHandlerSound, WidgetTypeOK, MovingLabels
  <1>3. MovedOnceUnlessRaced
    BY DEF WidgetSound, SessionAlone, MovedOnceUnlessRaced
  <1> QED
    BY <1>2, <1>3

\* No session exists at first.
LEMMA WidgetStartSound ==
    ASSUME RequestsInit, WidgetInit
    PROVE  WidgetSound
  <1> USE DEF RequestsInit, WidgetInit
  <1>1. WidgetTablesOK
    BY SessionFacts DEF WidgetTablesOK, SessionStatuses, NoDraft
  <1>2. SessionsNoted
    BY DEF SessionsNoted
  <1>3. \A p \in Procs : WidgetHandlerSound(p)
    BY WidgetAssumption DEF WidgetHandlerSound, MovingLabels
  <1>4. \A s \in Sessions : SessionAlone(s)
    BY DEF SessionAlone
  <1> QED
    BY <1>1, <1>2, <1>3, <1>4 DEF WidgetSound

-----------------------------------------------------------------------------
(* A step as the other handlers see it *)

\* The memory of the other handlers is theirs.
OtherWidgetsKept(p) ==
    \A q \in Procs \ {p} :
        /\ pc'[q] = pc[q] /\ holds'[q] = holds[q]
        /\ at'[q] = at[q] /\ session'[q] = session[q] /\ draft'[q] = draft[q]

\* All that anybody relies on in the row of a session, but that it may have
\* become idle.
SessionKept(s) ==
    /\ sesStatus'[s] = sesStatus[s] /\ sesKind'[s] = sesKind[s]
    /\ sesOwner'[s] = sesOwner[s] /\ sesStep'[s] = sesStep[s]
    /\ sesIdle[s] => sesIdle'[s]
    /\ moved'[s] = moved[s] /\ unclosed'[s] = unclosed[s]

\* What a handler writes of the session it works on: not whose and of what kind
\* it is.
SessionMoves(s) ==
    /\ sesStatus'[s] # "none"
    /\ sesKind'[s] = sesKind[s] /\ sesOwner'[s] = sesOwner[s]

\* The history variable notes every session that two handlers work on.
LEMMA SharedSessionsNoted ==
    ASSUME SharedSessions' \subseteq raced'
    PROVE  SessionsNoted'
  <1>1. ASSUME NEW p \in Procs, NEW q \in Procs, p # q,
               session'[p] = session'[q], session'[p] # NoSession
        PROVE  session'[p] \in SharedSessions'
    BY <1>1 DEF SharedSessions, Shared, WidgetWorksOn
  <1> QED
    BY <1>1 DEF SessionsNoted

\* What a handler knows stays true when others work on other sessions, or when
\* the session is noted.
LEMMA WidgetHandlerKept ==
    ASSUME WidgetSound, raced \subseteq raced', NEW q \in Procs,
           pc'[q] = pc[q], holds'[q] = holds[q],
           at'[q] = at[q], session'[q] = session[q], draft'[q] = draft[q],
           session[q] \in Sessions =>
              \/ SessionKept(session[q])
              \/ session[q] \in raced /\ SessionMoves(session[q])
    PROVE  WidgetHandlerSound(q)'
  <1>1. WidgetHandlerSound(q)
    BY DEF WidgetSound
  <1> DEFINE s == session[q]
  <1>2. s \in Sessions /\ sesStatus[s] # "none" =>
           /\ sesStatus'[s] # "none" /\ sesKind'[s] = sesKind[s] /\ sesOwner'[s] = sesOwner[s]
    BY DEF SessionKept, SessionMoves
  <1>3. s \in Sessions \ raced' =>
           /\ s \in Sessions \ raced
           /\ sesStatus'[s] = sesStatus[s] /\ sesStep'[s] = sesStep[s]
           /\ sesIdle[s] => sesIdle'[s]
    BY DEF SessionKept
  <1>4. at[q] # "no" => s \in Sessions /\ sesStatus[s] # "none"
    BY <1>1 DEF WidgetHandlerSound
  <1> HIDE DEF s
  <1>5. s = session[q]
    BY DEF s
  <1> QED
    BY <1>1, <1>2, <1>3, <1>4, <1>5
       DEF WidgetHandlerSound, MovingLabels, PayoutCreatingLabels

\* Of a session that a step leaves alone, there is nothing to show.
LEMMA SessionAloneKept ==
    ASSUME WidgetSound, raced \subseteq raced', NEW s \in Sessions, SessionKept(s),
           \A p \in Procs : session[p] = s => session'[p] = s /\ at'[p] = at[p]
    PROVE  SessionAlone(s)'
  <1>1. SessionAlone(s)
    BY DEF WidgetSound
  <1>2. (\A p \in Procs : session'[p] = s => at'[p] # "close")
           => \A p \in Procs : session[p] = s => at[p] # "close"
    OBVIOUS
  <1> QED
    BY <1>1, <1>2 DEF SessionAlone, SessionKept

\* What is left to show of a step: the row that it writes, and what its handler
\* knows.
LEMMA WidgetStepSound ==
    ASSUME WidgetSound, NEW p \in Procs, OtherWidgetsKept(p),
           raced \subseteq raced', SharedSessions' \subseteq raced',
           WidgetTablesOK', WidgetHandlerSound(p)',
           \A s \in Sessions \ {session[p]} :
              SessionKept(s) \/ (sesStatus[s] = "none" /\ SessionAlone(s)'),
           \A s \in Sessions : s = session[p] => SessionMoves(s) /\ SessionAlone(s)'
    PROVE  WidgetSound'
  <1>1. SessionsNoted'
    BY SharedSessionsNoted
  <1>2. ASSUME NEW q \in Procs \ {p}
        PROVE  WidgetHandlerSound(q)'
    <2>1. /\ pc'[q] = pc[q] /\ holds'[q] = holds[q]
          /\ at'[q] = at[q] /\ session'[q] = session[q] /\ draft'[q] = draft[q]
      BY DEF OtherWidgetsKept
    <2>2. session[q] \in Sessions =>
             /\ sesStatus[session[q]] # "none"
             /\ session[q] = session[p] => session[q] \in raced
      BY WidgetAssumption DEF WidgetSound, WidgetHandlerSound, SessionsNoted
    <2>3. \A s \in Sessions : s = session[q] =>
             SessionKept(s) \/ (s \in raced /\ SessionMoves(s))
      <3> SUFFICES ASSUME NEW s \in Sessions, s = session[q]
                   PROVE  SessionKept(s) \/ (s \in raced /\ SessionMoves(s))
        OBVIOUS
      <3>1. CASE s = session[p]
        BY <2>2, <3>1
      <3>2. CASE s # session[p]
        BY <2>2, <3>2
      <3> QED
        BY <3>1, <3>2
    <2>4. session[q] \in Sessions =>
             \/ SessionKept(session[q])
             \/ session[q] \in raced /\ SessionMoves(session[q])
      BY <2>3
    <2> QED
      BY <2>1, <2>4, WidgetHandlerKept
  <1>3. ASSUME NEW s \in Sessions
        PROVE  SessionAlone(s)'
    <2>1. CASE s # session[p] /\ SessionKept(s)
      <3>1. \A q \in Procs : session[q] = s => session'[q] = s /\ at'[q] = at[q]
        BY <2>1 DEF OtherWidgetsKept
      <3> QED
        BY <2>1, <3>1, SessionAloneKept
    <2>2. CASE s = session[p]
      BY <2>2
    <2>3. CASE s # session[p] /\ sesStatus[s] = "none" /\ SessionAlone(s)'
      BY <2>3
    <2> QED
      BY <2>1, <2>2, <2>3
  <1> QED
    BY <1>1, <1>2, <1>3 DEF WidgetSound

-----------------------------------------------------------------------------
(* The handlers, step by step *)

\* What a widget handler does outside the tables of the widget: it runs a
\* payout handler under it, or it reads or credits a user itself.
LEMMA WidgetWorkKinds ==
    ASSUME PayoutsSound, WidgetSound, NEW p \in Procs, WidgetRequest(p) \/ WidgetStep(p)
    PROVE  \/ PayoutCall(p) \/ PayoutStep(p)
           \/ /\ pc[p] = "idle" /\ UNCHANGED <<pc, payoutState>>
              /\ \/ UNCHANGED accountVars
                 \/ DropUser(p)
                 \/ \E u \in Users : ReadUser(p, u)
                 \/ holds[p] \in Users /\ \E amount \in Collected : PostCollected(p, amount)
  <1>1. WidgetHandlerSound(p) /\ WidgetTablesOK
    BY DEF WidgetSound
  <1>2. CASE WidgetRequest(p)
    BY <1>2 DEF WidgetRequest, InitSession, GetIdleSession, SubmitStep, CompleteSession,
                Free, Idle, payoutVars
  <1>3. CASE SessionAbandon(p) \/ SubmitStepSave(p) \/ SessionClose(p)
    BY <1>1, <1>3 DEF SessionAbandon, SubmitStepSave, SessionClose, WidgetHandlerSound,
                      payoutVars
  <1>4. CASE CallCreatePayout(p)
    <2> DEFINE u == sesOwner[session[p]]
               amount == draft[p].amount
    <2>1. CreatePayout(p, u, amount) /\ amount \in Collected
      BY <1>1, <1>4 DEF CallCreatePayout, WidgetHandlerSound, MovingLabels
    <2> HIDE DEF u, amount
    <2>2. u \in Users
      BY <2>1, AccountsAssumption DEF CreatePayout
    <2> QED
      BY <2>1, <2>2 DEF PayoutCall, PayoutRequest
  <1>5. CASE PayoutCallRuns(p) \/ PayoutCallReturns(p)
    BY <1>5 DEF PayoutCallRuns, PayoutCallReturns, PayoutStep
  <1>6. CASE DepositReadUser(p) \/ DepositCommit(p)
    <2>1. /\ pc[p] = "idle" /\ session[p] \in Sessions
          /\ sesOwner[session[p]] \in Users
          /\ draft[p].amount \in Collected
          /\ at[p] = "commit" => holds[p] = sesOwner[session[p]]
      BY <1>1, <1>6 DEF DepositReadUser, DepositCommit, WidgetHandlerSound, WidgetTablesOK,
                        MovingLabels
    <2> QED
      BY <1>6, <2>1 DEF DepositReadUser, DepositCommit
  <1>7. CASE WidgetHandlerFails(p)
    <2>1. CASE at[p] = "called"
      BY <1>7, <2>1 DEF WidgetHandlerFails, PayoutStep
    <2>2. CASE at[p] # "called"
      BY <1>1, <1>7, <2>2 DEF WidgetHandlerFails, WidgetLabels, WidgetHandlerSound
    <2> QED
      BY <2>1, <2>2
  <1> QED
    BY <1>2, <1>3, <1>4, <1>5, <1>6, <1>7 DEF WidgetStep

\* A step is a step that the abstract specification of the tables allows.
LEMMA WidgetWorkAccounts ==
    ASSUME PayoutsSound, WidgetSound, NEW p \in Procs, WidgetRequest(p) \/ WidgetStep(p)
    PROVE  AccountsNext \/ UNCHANGED accountVars
  <1>1. CASE PayoutCall(p) \/ PayoutStep(p)
    BY <1>1, PayoutWorkAccounts
  <1>2. CASE UNCHANGED accountVars \/ DropUser(p) \/ \E u \in Users : ReadUser(p, u)
    BY <1>2 DEF AccountsNext
  <1>3. CASE holds[p] \in Users /\ \E amount \in Collected : PostCollected(p, amount)
    BY <1>3 DEF AccountsNext
  <1> QED
    BY <1>1, <1>2, <1>3, WidgetWorkKinds

\* What a step leaves alone of the other slots and of their locks.
LEMMA WidgetWorkElsewhere ==
    ASSUME PayoutsSound, WidgetSound, NEW p \in Procs, WidgetRequest(p) \/ WidgetStep(p)
    PROVE  /\ SlotsOK' /\ OthersUntouched(p) /\ rowLock' \in {rowLock, Unlocked(p)}
           /\ \A u \in Users : posted'[u]["card_funding"] = posted[u]["card_funding"]
           /\ pc[p] \in PayoutLabels \cup {"idle"}
           /\ pc'[p] \in PayoutLabels \cup {"idle"}
  <1>1. CASE PayoutCall(p) \/ PayoutStep(p)
    BY <1>1, PayoutWorkElsewhere
  <1>2. ASSUME pc[p] = "idle", UNCHANGED pc,
               \/ UNCHANGED accountVars
               \/ DropUser(p)
               \/ \E u \in Users : ReadUser(p, u)
               \/ \E amount \in Collected : PostCollected(p, amount)
        PROVE  /\ SlotsOK' /\ OthersUntouched(p) /\ rowLock' \in {rowLock, Unlocked(p)}
               /\ \A u \in Users : posted'[u]["card_funding"] = posted[u]["card_funding"]
               /\ pc'[p] = "idle"
    <2>1. AccountsTypeOK /\ SlotsOK
      BY DEF PayoutsSound, PayoutMemoryOK, AccountsInv
    <2> DEFINE kinds == {"credit", "negative_credit"}
               to == "idle"
    <2>2. pc' = [pc EXCEPT ![p] = to]
      BY <1>2, <2>1 DEF SlotsOK
    <2>3. "card_funding" \notin kinds
      OBVIOUS
    <2>4. PICK amount : \/ UNCHANGED accountVars
                        \/ \E u : ReadUser(p, u)
                        \/ DropUser(p)
                        \/ \E kind \in kinds : Post(p, kind, amount)
      BY <1>2 DEF PostCollected
    <2> HIDE DEF kinds, to
    <2>5. /\ SlotsOK' /\ OthersUntouched(p) /\ pc'[p] = to
          /\ rowLock' \in {rowLock, Unlocked(p)}
          /\ \A u \in Users : posted'[u]["card_funding"] = posted[u]["card_funding"]
      BY <2>1, <2>2, <2>3, <2>4, TouchesOwnSlot
    <2> QED
      BY <2>5 DEF to
  <1> QED
    BY <1>1, <1>2, WidgetWorkKinds

\* A request that opens a session, or that begins to work on one, keeps the
\* invariant.
LEMMA WidgetRequestSound ==
    ASSUME PayoutsSound, WidgetSound, NEW p \in Procs, OthersUntouched(p),
           raced \subseteq raced', SharedSessions' \subseteq raced', WidgetRequest(p)
    PROVE  WidgetSound'
  <1>1. WidgetTablesOK /\ WidgetHandlerSound(p) /\ \A s \in Sessions : SessionAlone(s)
    BY DEF WidgetSound
  <1>2. pc[p] = "idle" /\ at[p] = "no" /\ session[p] = NoSession
    BY <1>1 DEF WidgetRequest, InitSession, GetIdleSession, SubmitStep, CompleteSession,
                Free, Idle, WidgetHandlerSound
  <1>3. pc' = pc /\ holds' = holds
    BY DEF WidgetRequest, InitSession, GetIdleSession, SubmitStep, CompleteSession,
           payoutVars, accountVars
  <1>4. \A s \in Sessions : s = session[p] => SessionMoves(s) /\ SessionAlone(s)'
    BY <1>2, WidgetAssumption
  <1>5. ASSUME NEW u \in Users, NEW kind \in SessionKinds, InitSession(p, u, kind)
        PROVE  WidgetSound'
    <2>1. UNCHANGED <<sesStep, sesAmount, sesIdle, at, session, draft, moved, unclosed>>
      BY <1>5 DEF InitSession, widgetLocals, sessionHistory
    <2>2. PICK new \in Sessions :
             /\ sesStatus[new] = "none"
             /\ sesStatus' = [sesStatus EXCEPT ![new] = "active"]
             /\ sesKind' = [sesKind EXCEPT ![new] = kind]
             /\ sesOwner' = [sesOwner EXCEPT ![new] = u]
      BY <1>5 DEF InitSession
    <2>3. /\ sesStatus' \in [Sessions -> SessionStatuses]
          /\ sesKind' \in [Sessions -> SessionKinds]
          /\ sesOwner' \in [Sessions -> Users \cup {NoUser}]
      BY <1>1, <2>2 DEF WidgetTablesOK, SessionStatuses
    <2>4. \A s \in Sessions :
             /\ sesStatus'[s] # "none" => sesOwner'[s] \in Users
             /\ sesStatus'[s] \in {"none", "active"} => sesStep'[s] < LastStep
             /\ sesStatus'[s] = "none" \/ sesKind'[s] = "onboarding" => moved'[s] = 0
      BY <1>1, <2>1, <2>2 DEF WidgetTablesOK
    <2>5. WidgetTablesOK'
      BY <1>1, <2>1, <2>3, <2>4 DEF WidgetTablesOK
    <2>6. WidgetHandlerSound(p)'
      BY <1>2, <1>3, <2>1, WidgetAssumption DEF WidgetHandlerSound, MovingLabels
    <2>7. OtherWidgetsKept(p)
      BY <2>1 DEF OtherWidgetsKept, OthersUntouched
    <2>8. SessionAlone(new)'
      BY <1>1, <2>1, <2>2 DEF WidgetTablesOK, SessionAlone
    <2>9. \A s \in Sessions \ {session[p]} :
             SessionKept(s) \/ (sesStatus[s] = "none" /\ SessionAlone(s)')
      <3> SUFFICES ASSUME NEW s \in Sessions
                   PROVE  SessionKept(s) \/ (sesStatus[s] = "none" /\ SessionAlone(s)')
        OBVIOUS
      <3>1. CASE s = new
        BY <2>2, <2>8, <3>1
      <3>2. CASE s # new
        BY <1>1, <2>1, <2>2, <3>2 DEF SessionKept, WidgetTablesOK
      <3> QED
        BY <3>1, <3>2
    <2> QED
      BY <1>4, <2>5, <2>6, <2>7, <2>9, WidgetStepSound
  <1>6. ASSUME NEW s \in Sessions,
               NEW d \in [step : 0..LastStep, amount : Collected \cup {NoAmount}],
               NEW label \in WidgetLabels,
               OpenSession(p, s, d, label), UNCHANGED <<sessionTable, sessionHistory>>,
               sesStatus[s] # "none",
               label \in MovingLabels =>
                  d.amount \in Collected /\ sesKind[s] # "onboarding",
               label \in {"abandon", "save", "call", "user", "close"},
               label = "save" => d.step = sesStep[s] + 1,
               label = "abandon" => sesIdle[s],
               s \notin raced /\ label # "abandon" => sesStatus[s] = "active"
        PROVE  WidgetSound'
    <2>1. UNCHANGED <<sesStatus, sesKind, sesOwner, sesStep, sesAmount, sesIdle,
                      moved, unclosed>>
      BY <1>6 DEF sessionTable, sessionHistory
    <2>2. /\ session' = [session EXCEPT ![p] = s]
          /\ draft' = [draft EXCEPT ![p] = d]
          /\ at' = [at EXCEPT ![p] = label]
      BY <1>6 DEF OpenSession, GoAt
    <2>3. /\ at' \in [Procs -> WidgetLabels \cup {"no"}]
          /\ session' \in [Procs -> Sessions \cup {NoSession}]
          /\ draft' \in [Procs -> [step : 0..LastStep, amount : Collected \cup {NoAmount}]]
          /\ session'[p] = s /\ at'[p] = label /\ draft'[p] = d
      BY <1>1, <2>2 DEF WidgetTablesOK
    <2>4. WidgetTablesOK'
      BY <1>1, <2>1, <2>3 DEF WidgetTablesOK
    <2>5. sesStep[s] \in 1..LastStep
      BY <1>1 DEF WidgetTablesOK
    <2>6. WidgetHandlerSound(p)'
      BY <1>2, <1>3, <1>6, <2>1, <2>3, <2>5, SessionFacts
         DEF WidgetHandlerSound, MovingLabels
    <2>7. OtherWidgetsKept(p)
      BY <1>1, <2>2 DEF OtherWidgetsKept, OthersUntouched, WidgetTablesOK
    <2>8. \A other \in Sessions \ {session[p]} :
             SessionKept(other) \/ (sesStatus[other] = "none" /\ SessionAlone(other)')
      BY <2>1 DEF SessionKept
    <2> QED
      BY <1>4, <2>4, <2>6, <2>7, <2>8, WidgetStepSound
  <1>7. ASSUME NEW s \in Sessions, GetIdleSession(p, s)
        PROVE  WidgetSound'
    <2>1. NoDraft \in [step : 0..LastStep, amount : Collected \cup {NoAmount}]
      BY SessionFacts DEF NoDraft
    <2> QED
      BY <1>6, <1>7, <2>1 DEF GetIdleSession, WidgetLabels, MovingLabels
  <1>8. ASSUME NEW s \in Sessions, NEW amount \in Collected \cup {NoAmount},
               SubmitStep(p, s, amount)
        PROVE  WidgetSound'
    <2>1. PICK kept \in Collected \cup {NoAmount} :
             OpenSession(p, s, [step |-> sesStep[s] + 1, amount |-> kept], "save")
      BY <1>1, <1>8 DEF SubmitStep, WidgetTablesOK
    <2> DEFINE d == [step |-> sesStep[s] + 1, amount |-> kept]
    <2>2. sesStatus[s] = "active" /\ UNCHANGED <<sessionTable, sessionHistory>>
      BY <1>8 DEF SubmitStep
    <2>3. sesStep[s] \in 1..LastStep /\ sesStep[s] < LastStep
      BY <1>1, <2>2 DEF WidgetTablesOK
    <2>4. d \in [step : 0..LastStep, amount : Collected \cup {NoAmount}] /\ d.step = sesStep[s] + 1
      BY <2>3, SessionFacts
    <2>5. OpenSession(p, s, d, "save")
      BY <2>1
    <2> HIDE DEF d
    <2> QED
      BY <1>6, <2>2, <2>4, <2>5 DEF WidgetLabels, MovingLabels
  <1>9. ASSUME NEW s \in Sessions, CompleteSession(p, s)
        PROVE  WidgetSound'
    <2> DEFINE d == [step |-> LastStep, amount |-> sesAmount[s]]
               label == FirstAwait(sesKind[s])
    <2>1. /\ OpenSession(p, s, d, label) /\ UNCHANGED <<sessionTable, sessionHistory>>
          /\ sesStatus[s] \in {"active", "abandoned"} /\ ~sesIdle[s]
          /\ sesKind[s] # "onboarding" => sesAmount[s] # NoAmount
      BY <1>9 DEF CompleteSession
    <2>2. sesAmount[s] \in Collected \cup {NoAmount} /\ sesKind[s] \in SessionKinds
      BY <1>1 DEF WidgetTablesOK
    <2>3. d \in [step : 0..LastStep, amount : Collected \cup {NoAmount}] /\ d.amount = sesAmount[s]
      BY <2>2, SessionFacts
    <2>4. /\ label \in {"call", "user", "close"}
          /\ label # "close" => sesKind[s] # "onboarding"
      BY <2>2, SessionFacts DEF FirstAwait
    <2>5. s \notin raced => sesStatus[s] = "active"
      BY <1>1, <2>1 DEF SessionAlone
    <2> HIDE DEF d, label
    <2>6. label \in MovingLabels => d.amount \in Collected /\ sesKind[s] # "onboarding"
      BY <2>1, <2>2, <2>3, <2>4 DEF MovingLabels
    <2> QED
      BY <1>6, <2>1, <2>3, <2>4, <2>5, <2>6 DEF WidgetLabels
  <1> QED
    BY <1>5, <1>7, <1>8, <1>9 DEF WidgetRequest

\* A step of a handler keeps the invariant.
LEMMA WidgetWorkSound ==
    ASSUME PayoutsSound, WidgetSound, NEW p \in Procs, OthersUntouched(p),
           raced \subseteq raced', SharedSessions' \subseteq raced', WidgetStep(p)
    PROVE  WidgetSound'
  <1>1. WidgetTablesOK /\ WidgetHandlerSound(p) /\ SessionsNoted
    BY DEF WidgetSound
  <1>2. SlotsOK /\ AccountsTypeOK
    BY DEF PayoutsSound, PayoutMemoryOK, AccountsInv
  <1>3. PICK s \in Sessions : s = session[p] /\ sesStatus[s] # "none"
    BY <1>1 DEF WidgetStep, SessionAbandon, SubmitStepSave, CallCreatePayout, PayoutCallRuns,
                PayoutCallReturns, DepositReadUser, DepositCommit, SessionClose,
                WidgetHandlerFails, WidgetHandlerSound, WidgetLabels
  <1>4. SessionAlone(s)
    BY DEF WidgetSound
  <1>5. s \notin raced => \A q \in Procs \ {p} : session[q] # s
    BY <1>1, <1>3, WidgetAssumption DEF SessionsNoted
  <1>6. s \notin raced' => s \notin raced
    OBVIOUS
  <1>7. /\ sesStatus[s] \in SessionStatuses /\ sesStep[s] \in 1..LastStep
        /\ moved[s] \in Nat /\ unclosed[s] \in Nat
        /\ draft[p] \in [step : 0..LastStep, amount : Collected \cup {NoAmount}]
    BY <1>1 DEF WidgetTablesOK
  <1>8. NoDraft \in [step : 0..LastStep, amount : Collected \cup {NoAmount}]
    BY SessionFacts DEF NoDraft
  <1>9. ASSUME WidgetTablesOK', OtherWidgetsKept(p), WidgetHandlerSound(p)', SessionAlone(s)',
               SessionMoves(s), \A other \in Sessions \ {s} : SessionKept(other)
        PROVE  WidgetSound'
    BY <1>3, <1>9, WidgetStepSound
  <1>10. ASSUME WidgetDone(p)
         PROVE  /\ OtherWidgetsKept(p)
                /\ at' \in [Procs -> WidgetLabels \cup {"no"}]
                /\ session' \in [Procs -> Sessions \cup {NoSession}]
                /\ draft' \in [Procs -> [step : 0..LastStep, amount : Collected \cup {NoAmount}]]
                /\ at'[p] = "no" /\ session'[p] = NoSession
    BY <1>1, <1>8, <1>10
       DEF WidgetDone, OpenSession, GoAt, WidgetTablesOK, OtherWidgetsKept, OthersUntouched
  <1>11. ASSUME NEW label \in WidgetLabels, GoAt(p, label), UNCHANGED <<session, draft>>
         PROVE  /\ OtherWidgetsKept(p)
                /\ at' \in [Procs -> WidgetLabels \cup {"no"}]
                /\ at'[p] = label /\ session'[p] = s
    BY <1>1, <1>3, <1>11 DEF GoAt, WidgetTablesOK, OtherWidgetsKept, OthersUntouched
  <1>12. ASSUME WidgetDone(p)
         PROVE  WidgetHandlerSound(p)'
    BY <1>10, <1>12, WidgetAssumption DEF WidgetHandlerSound, MovingLabels
  <1>20. CASE SessionAbandon(p)
    <2>1. /\ sesStatus' = [sesStatus EXCEPT ![s] = "abandoned"] /\ WidgetDone(p)
          /\ UNCHANGED <<sesKind, sesOwner, sesStep, sesAmount, sesIdle, moved, unclosed>>
          /\ at[p] = "abandon"
      BY <1>3, <1>20 DEF SessionAbandon, sessionHistory
    <2>2. sesStatus' \in [Sessions -> SessionStatuses] /\ sesStatus'[s] = "abandoned"
      BY <1>1, <2>1 DEF WidgetTablesOK, SessionStatuses
    <2>3. \A other \in Sessions \ {s} : SessionKept(other)
      BY <1>1, <2>1 DEF SessionKept, WidgetTablesOK
    <2>4. WidgetTablesOK'
      BY <1>1, <1>3, <1>10, <2>1, <2>2, <2>3 DEF WidgetTablesOK, SessionKept
    <2>5. SessionAlone(s)'
      BY <1>1, <1>3, <1>4, <2>1, <2>2 DEF SessionAlone, WidgetHandlerSound
    <2> QED
      BY <1>9, <1>10, <1>12, <2>1, <2>2, <2>3, <2>4, <2>5 DEF SessionMoves
  <1>21. CASE SubmitStepSave(p)
    <2>1. /\ sesStep' = [sesStep EXCEPT ![s] = draft[p].step]
          /\ sesAmount' = [sesAmount EXCEPT ![s] = draft[p].amount]
          /\ sesIdle' = [sesIdle EXCEPT ![s] = FALSE]
          /\ sesStatus' = IF draft[p].step = LastStep
                            THEN [sesStatus EXCEPT ![s] = "completed"] ELSE sesStatus
          /\ WidgetDone(p) /\ UNCHANGED <<sesKind, sesOwner, moved, unclosed>>
          /\ at[p] = "save"
      BY <1>3, <1>21 DEF SubmitStepSave, sessionHistory
    <2>2. draft[p].step \in 1..LastStep
      BY <1>1, <1>7, <2>1, SessionFacts DEF WidgetHandlerSound
    <2>3. /\ sesStatus' \in [Sessions -> SessionStatuses]
          /\ sesStatus'[s] = IF draft[p].step = LastStep THEN "completed" ELSE sesStatus[s]
          /\ sesStep' \in [Sessions -> 1..LastStep] /\ sesStep'[s] = draft[p].step
          /\ sesAmount' \in [Sessions -> Collected \cup {NoAmount}]
          /\ sesIdle' \in [Sessions -> BOOLEAN]
      BY <1>1, <1>7, <2>1, <2>2 DEF WidgetTablesOK, SessionStatuses
    <2>4. \A other \in Sessions \ {s} : SessionKept(other)
      BY <1>1, <2>1 DEF SessionKept, WidgetTablesOK
    <2>5. /\ sesStatus'[s] # "none" => sesOwner'[s] \in Users
          /\ sesStatus'[s] \in {"none", "active"} => sesStep'[s] < LastStep
          /\ sesStatus'[s] = "none" \/ sesKind'[s] = "onboarding" => moved'[s] = 0
      BY <1>1, <1>3, <2>1, <2>2, <2>3, SessionFacts DEF WidgetTablesOK
    <2>6. WidgetTablesOK'
      BY <1>1, <1>10, <2>1, <2>3, <2>4, <2>5 DEF WidgetTablesOK, SessionKept
    <2>7. SessionAlone(s)'
      <3> SUFFICES ASSUME s \notin raced'
                   PROVE  /\ sesStatus'[s] # "abandoned"
                          /\ moved'[s] <= unclosed'[s]
        BY <1>7, <2>1 DEF SessionAlone
      <3>1. sesStatus[s] = "active"
        BY <1>1, <1>3, <1>6, <2>1 DEF WidgetHandlerSound
      <3>2. \A q \in Procs : session[q] = s => at[q] # "close"
        BY <1>5, <1>6, <2>1
      <3> QED
        BY <1>4, <1>6, <2>1, <2>3, <3>1, <3>2 DEF SessionAlone
    <2> QED
      BY <1>3, <1>9, <1>10, <1>12, <2>1, <2>3, <2>4, <2>6, <2>7 DEF SessionMoves
  <1>22. CASE CallCreatePayout(p)
    <2>1. /\ GoAt(p, "called") /\ UNCHANGED <<session, draft>>
          /\ UNCHANGED <<sesStatus, sesKind, sesOwner, sesStep, sesAmount, sesIdle,
                         moved, unclosed>>
          /\ at[p] = "call" /\ CreatePayout(p, sesOwner[session[p]], draft[p].amount)
      BY <1>22 DEF CallCreatePayout, sessionTable, sessionHistory
    <2>2. pc'[p] \in PayoutCreatingLabels
      BY <1>2, <2>1 DEF CreatePayout, Goto, SlotsOK, PayoutCreatingLabels
    <2>3. WidgetHandlerSound(p)'
      BY <1>1, <1>11, <2>1, <2>2, <1>3, <1>6
         DEF WidgetHandlerSound, MovingLabels, WidgetLabels
    <2>4. WidgetTablesOK'
      BY <1>1, <1>11, <2>1 DEF WidgetTablesOK, WidgetLabels
    <2>5. SessionAlone(s)'
      BY <1>3, <1>4, <1>5, <1>6, <1>11, <2>1 DEF SessionAlone, WidgetLabels
    <2> QED
      BY <1>3, <1>9, <1>11, <2>1, <2>3, <2>4, <2>5 DEF SessionMoves, SessionKept, WidgetLabels
  <1>23. CASE PayoutCallRuns(p)
    <2>1. UNCHANGED <<at, session, draft, sesStatus, sesKind, sesOwner, sesStep, sesAmount,
                      sesIdle, moved, unclosed>>
      BY <1>23 DEF PayoutCallRuns, widgetState, sessionTable, widgetLocals, sessionHistory
    <2>2. pc'[p] \in PayoutCreatingLabels
      BY <1>2, <1>23
         DEF PayoutCallRuns, CreatePayoutCheckPending, Goto, SlotsOK, PayoutCreatingLabels
    <2>3. WidgetHandlerSound(p)'
      BY <1>1, <1>3, <1>6, <1>23, <2>1, <2>2
         DEF WidgetHandlerSound, MovingLabels, PayoutCallRuns
    <2>4. WidgetTablesOK'
      BY <1>1, <2>1 DEF WidgetTablesOK
    <2>5. SessionAlone(s)'
      BY <1>4, <1>6, <2>1 DEF SessionAlone
    <2>6. OtherWidgetsKept(p)
      BY <2>1 DEF OtherWidgetsKept, OthersUntouched
    <2> QED
      BY <1>3, <1>9, <2>1, <2>3, <2>4, <2>5, <2>6 DEF SessionMoves, SessionKept
  <1>24. CASE PayoutCallReturns(p) \/ DepositCommit(p)
    <2>1. /\ GoAt(p, "close") /\ UNCHANGED <<session, draft>>
          /\ UNCHANGED <<sesStatus, sesKind, sesOwner, sesStep, sesAmount, sesIdle, unclosed>>
          /\ moved' = [moved EXCEPT ![s] = @ + 1]
          /\ at[p] \in {"called", "commit"}
      BY <1>3, <1>24 DEF PayoutCallReturns, DepositCommit, sessionTable
    <2>2. pc'[p] = "idle"
      <3>1. CASE PayoutCallReturns(p)
        BY <1>2, <3>1 DEF PayoutCallReturns, CreatePayoutInsert, Goto, SlotsOK
      <3>2. CASE DepositCommit(p)
        BY <1>1, <3>2 DEF DepositCommit, WidgetHandlerSound
      <3> QED
        BY <1>24, <3>1, <3>2
    <2>3. moved' \in [Sessions -> Nat] /\ moved'[s] = moved[s] + 1
      BY <1>1, <1>7, <2>1 DEF WidgetTablesOK
    <2>4. WidgetHandlerSound(p)'
      BY <1>1, <1>3, <1>6, <1>11, <2>1, <2>2
         DEF WidgetHandlerSound, MovingLabels, WidgetLabels
    <2>5. sesStatus[s] # "none" /\ sesKind[s] # "onboarding"
      BY <1>1, <1>3, <2>1 DEF WidgetHandlerSound, MovingLabels
    <2>6. \A other \in Sessions \ {s} : SessionKept(other)
      BY <1>1, <2>1 DEF SessionKept, WidgetTablesOK
    <2>7. WidgetTablesOK'
      BY <1>1, <1>11, <2>1, <2>3, <2>5, <2>6 DEF WidgetTablesOK, WidgetLabels, SessionKept
    <2>8. SessionAlone(s)'
      <3> SUFFICES ASSUME s \notin raced'
                   PROVE  /\ sesStatus'[s] # "abandoned"
                          /\ moved'[s] <= 1 + unclosed'[s]
        BY <1>11, <2>1 DEF SessionAlone, WidgetLabels
      <3>1. sesStatus[s] = "active"
        BY <1>1, <1>3, <1>6, <2>1 DEF WidgetHandlerSound
      <3>2. \A q \in Procs : session[q] = s => at[q] # "close"
        BY <1>5, <1>6, <2>1
      <3>3. moved[s] <= unclosed[s]
        BY <1>4, <1>6, <3>1, <3>2 DEF SessionAlone
      <3> QED
        BY <1>7, <2>1, <2>3, <3>1, <3>3
    <2> QED
      BY <1>3, <1>9, <1>11, <2>1, <2>4, <2>6, <2>7, <2>8 DEF SessionMoves, WidgetLabels
  <1>25. CASE DepositReadUser(p)
    <2>1. /\ GoAt(p, "commit") /\ UNCHANGED <<session, draft>>
          /\ UNCHANGED <<pc, sesStatus, sesKind, sesOwner, sesStep, sesAmount, sesIdle,
                         moved, unclosed>>
          /\ at[p] = "user" /\ holds' = [holds EXCEPT ![p] = sesOwner[s]]
      BY <1>3, <1>25 DEF DepositReadUser, ReadUser, sessionTable, sessionHistory
    <2>2. holds'[p] = sesOwner[s]
      BY <1>2, <2>1 DEF AccountsTypeOK
    <2>3. WidgetHandlerSound(p)'
      BY <1>1, <1>3, <1>6, <1>11, <2>1, <2>2
         DEF WidgetHandlerSound, MovingLabels, WidgetLabels
    <2>4. WidgetTablesOK'
      BY <1>1, <1>11, <2>1 DEF WidgetTablesOK, WidgetLabels
    <2>5. SessionAlone(s)'
      BY <1>3, <1>4, <1>5, <1>6, <1>11, <2>1 DEF SessionAlone, WidgetLabels
    <2> QED
      BY <1>3, <1>9, <1>11, <2>1, <2>3, <2>4, <2>5 DEF SessionMoves, SessionKept, WidgetLabels
  <1>26. CASE SessionClose(p)
    <2>1. /\ sesStatus' = [sesStatus EXCEPT ![s] = "completed"]
          /\ sesStep' = [sesStep EXCEPT ![s] = LastStep]
          /\ WidgetDone(p)
          /\ UNCHANGED <<sesKind, sesOwner, sesAmount, sesIdle, moved, unclosed>>
      BY <1>3, <1>26 DEF SessionClose, sessionHistory
    <2>2. LastStep \in 1..LastStep
      BY SessionFacts
    <2>3. /\ sesStatus' \in [Sessions -> SessionStatuses] /\ sesStatus'[s] = "completed"
          /\ sesStep' \in [Sessions -> 1..LastStep]
      BY <1>1, <2>1, <2>2 DEF WidgetTablesOK, SessionStatuses
    <2>4. \A other \in Sessions \ {s} : SessionKept(other)
      BY <1>1, <2>1 DEF SessionKept, WidgetTablesOK
    <2>5. WidgetTablesOK'
      BY <1>1, <1>3, <1>10, <2>1, <2>3, <2>4 DEF WidgetTablesOK, SessionKept
    <2>6. SessionAlone(s)'
      BY <1>4, <1>6, <2>1, <2>3 DEF SessionAlone
    <2> QED
      BY <1>9, <1>10, <1>12, <2>1, <2>3, <2>4, <2>5, <2>6 DEF SessionMoves
  <1>27. CASE WidgetHandlerFails(p)
    <2> DEFINE left == at[p] = "close" /\ sesKind[s] # "onboarding"
    <2>1. /\ WidgetDone(p)
          /\ UNCHANGED <<sesStatus, sesKind, sesOwner, sesStep, sesAmount, sesIdle, moved>>
          /\ unclosed' = IF left THEN [unclosed EXCEPT ![s] = @ + 1] ELSE unclosed
      BY <1>3, <1>27 DEF WidgetHandlerFails, LeavesUnclosed, sessionTable
    <2>2. /\ unclosed' \in [Sessions -> Nat]
          /\ unclosed'[s] = IF left THEN unclosed[s] + 1 ELSE unclosed[s]
      BY <1>1, <1>7, <2>1 DEF WidgetTablesOK
    <2>3. \A other \in Sessions \ {s} : SessionKept(other)
      BY <1>1, <2>1 DEF SessionKept, WidgetTablesOK
    <2>4. WidgetTablesOK'
      BY <1>1, <1>10, <2>1, <2>2 DEF WidgetTablesOK
    <2>5. SessionAlone(s)'
      <3> SUFFICES ASSUME s \notin raced'
                   PROVE  SessionAlone(s)'
        BY DEF SessionAlone
      <3>1. CASE at[p] = "close"
        <4>1. /\ sesStatus[s] = "active" /\ moved[s] <= 1 + unclosed[s]
              /\ sesKind[s] = "onboarding" => moved[s] = 0
          BY <1>1, <1>3, <1>4, <1>6, <3>1 DEF WidgetHandlerSound, SessionAlone, WidgetTablesOK
        <4>2. moved'[s] <= unclosed'[s]
          BY <1>7, <2>1, <2>2, <3>1, <4>1
        <4> QED
          BY <1>7, <2>1, <2>2, <4>1, <4>2 DEF SessionAlone
      <3>2. CASE at[p] # "close"
        <4>1. \A q \in Procs : session[q] = s => at[q] # "close"
          BY <1>5, <1>6, <3>2
        <4> QED
          BY <1>4, <1>6, <2>1, <2>2, <3>2, <4>1 DEF SessionAlone
      <3> QED
        BY <3>1, <3>2
    <2> QED
      BY <1>3, <1>9, <1>10, <1>12, <2>1, <2>3, <2>4, <2>5 DEF SessionMoves
  <1> QED
    BY <1>20, <1>21, <1>22, <1>23, <1>24, <1>25, <1>26, <1>27 DEF WidgetStep

\* What a handler writes of the sessions: the one it works on goes forward, the
\* others it leaves alone.
LEMMA WidgetWorkAdvances ==
    ASSUME WidgetSound, NEW p \in Procs, WidgetRequest(p) \/ WidgetStep(p), NEW s \in Sessions
    PROVE  /\ NeverActiveAgain(s)
           /\ s \notin raced => StepNeverBack(s) /\ AbandonedMovesNothing(s)
  <1>1. WidgetTablesOK /\ WidgetHandlerSound(p)
    BY DEF WidgetSound
  <1>2. sesStep[s] \in 1..LastStep /\ LastStep = 6
    BY <1>1, SessionFacts DEF WidgetTablesOK
  <1>3. CASE UNCHANGED <<sesStatus, sesStep, moved>>
    BY <1>2, <1>3 DEF NeverActiveAgain, StepNeverBack, AbandonedMovesNothing
  <1>4. ASSUME NEW u \in Users, NEW kind \in SessionKinds, InitSession(p, u, kind)
        PROVE  NeverActiveAgain(s) /\ StepNeverBack(s) /\ AbandonedMovesNothing(s)
    BY <1>1, <1>2, <1>4 DEF InitSession, sessionHistory, WidgetTablesOK,
                            NeverActiveAgain, StepNeverBack, AbandonedMovesNothing
  <1>5. CASE SessionAbandon(p)
    BY <1>1, <1>2, <1>5 DEF SessionAbandon, sessionHistory, WidgetTablesOK,
                            NeverActiveAgain, StepNeverBack, AbandonedMovesNothing
  <1>6. CASE SubmitStepSave(p)
    <2>1. /\ sesStatus'[s] = sesStatus[s] \/ sesStatus'[s] = "completed"
          /\ UNCHANGED moved
      BY <1>1, <1>6 DEF SubmitStepSave, sessionHistory, WidgetTablesOK
    <2>2. sesStep'[s] = IF s = session[p] THEN draft[p].step ELSE sesStep[s]
      BY <1>1, <1>6 DEF SubmitStepSave, WidgetTablesOK
    <2>3. s = session[p] /\ s \notin raced => draft[p].step = sesStep[s] + 1
      BY <1>1, <1>6 DEF SubmitStepSave, WidgetHandlerSound
    <2> QED
      BY <1>2, <2>1, <2>2, <2>3 DEF NeverActiveAgain, StepNeverBack, AbandonedMovesNothing
  <1>7. CASE PayoutCallReturns(p) \/ DepositCommit(p)
    <2>1. /\ UNCHANGED <<sesStatus, sesStep>>
          /\ moved' = [moved EXCEPT ![session[p]] = @ + 1]
          /\ at[p] \in {"called", "commit"}
      BY <1>7 DEF PayoutCallReturns, DepositCommit, sessionTable
    <2>2. s = session[p] /\ s \notin raced => sesStatus[s] = "active"
      BY <1>1, <2>1 DEF WidgetHandlerSound
    <2>3. s # session[p] => moved'[s] = moved[s]
      BY <1>1, <2>1 DEF WidgetTablesOK
    <2> QED
      BY <1>2, <2>1, <2>2, <2>3 DEF NeverActiveAgain, StepNeverBack, AbandonedMovesNothing
  <1>8. CASE SessionClose(p)
    <2>1. /\ sesStatus'[s] = sesStatus[s] \/ sesStatus'[s] = "completed"
          /\ sesStep'[s] = sesStep[s] \/ sesStep'[s] = LastStep
          /\ UNCHANGED moved
      BY <1>1, <1>8 DEF SessionClose, sessionHistory, WidgetTablesOK
    <2> QED
      BY <1>2, <2>1 DEF NeverActiveAgain, StepNeverBack, AbandonedMovesNothing
  <1> QED
    BY <1>3, <1>4, <1>5, <1>6, <1>7, <1>8
       DEF WidgetRequest, GetIdleSession, SubmitStep, CompleteSession, sessionTable,
           sessionHistory, WidgetStep, CallCreatePayout, PayoutCallRuns, DepositReadUser,
           WidgetHandlerFails, widgetState

\* So a step of anything that moves money only takes sessions forward.
LEMMA SessionsAdvance ==
    ASSUME WidgetSound,
           \/ \E p \in Procs : WidgetRequest(p) \/ WidgetStep(p)
           \/ \E s \in Sessions : HourPasses(s)
           \/ UNCHANGED widgetState,
           NEW s \in Sessions
    PROVE  /\ NeverActiveAgain(s)
           /\ s \notin raced => StepNeverBack(s) /\ AbandonedMovesNothing(s)
  <1>1. CASE \E p \in Procs : WidgetRequest(p) \/ WidgetStep(p)
    BY <1>1, WidgetWorkAdvances
  <1>2. CASE (\E t \in Sessions : HourPasses(t)) \/ UNCHANGED widgetState
    <2>1. UNCHANGED <<sesStatus, sesStep, moved>>
      BY <1>2 DEF HourPasses, widgetState, sessionTable, sessionHistory
    <2>2. sesStep[s] \in 1..LastStep /\ LastStep = 6
      BY SessionFacts DEF WidgetSound, WidgetTablesOK
    <2> QED
      BY <2>1, <2>2 DEF NeverActiveAgain, StepNeverBack, AbandonedMovesNothing
  <1> QED
    BY <1>1, <1>2

\* Meanwhile the slots run other handlers, or payout handlers that users and
\* administrators call without the widget.
LEMMA WidgetElsewhere ==
    ASSUME WidgetSound, UNCHANGED widgetState, NEW p \in Procs, at[p] = "no",
           OthersUntouched(p), raced \subseteq raced', SharedSessions' \subseteq raced'
    PROVE  WidgetSound'
  <1>0. UNCHANGED <<sesStatus, sesKind, sesOwner, sesStep, sesAmount, sesIdle,
                    at, session, draft, moved, unclosed>>
    BY DEF widgetState, sessionTable, widgetLocals, sessionHistory
  <1>1. session[p] = NoSession
    BY DEF WidgetSound, WidgetHandlerSound
  <1>2. WidgetTablesOK'
    BY <1>0 DEF WidgetSound, WidgetTablesOK
  <1>3. WidgetHandlerSound(p)'
    BY <1>0, <1>1, WidgetAssumption DEF WidgetHandlerSound, MovingLabels
  <1>4. OtherWidgetsKept(p)
    BY <1>0 DEF OtherWidgetsKept, OthersUntouched
  <1>5. \A s \in Sessions : SessionKept(s)
    BY <1>0 DEF SessionKept
  <1>6. \A s \in Sessions \ {session[p]} :
           SessionKept(s) \/ (sesStatus[s] = "none" /\ SessionAlone(s)')
    BY <1>5
  <1>7. \A s \in Sessions : s = session[p] => SessionMoves(s) /\ SessionAlone(s)'
    BY <1>1, WidgetAssumption
  <1> QED
    BY <1>2, <1>3, <1>4, <1>6, <1>7, WidgetStepSound

\* An hour passes for a session.
LEMMA HourPassesSound ==
    ASSUME WidgetSound, NEW s \in Sessions, HourPasses(s),
           raced \subseteq raced', SharedSessions' \subseteq raced'
    PROVE  WidgetSound'
  <1> USE DEF HourPasses, payoutVars, accountVars, widgetLocals, sessionHistory
  <1>1. WidgetTablesOK'
    BY DEF WidgetSound, WidgetTablesOK
  <1>2. \A other \in Sessions : SessionKept(other)
    BY DEF WidgetSound, WidgetTablesOK, SessionKept
  <1>3. \A q \in Procs : WidgetHandlerSound(q)'
    BY <1>2, WidgetHandlerKept
  <1>4. \A other \in Sessions : SessionAlone(other)'
    BY <1>2, SessionAloneKept
  <1> QED
    BY <1>1, <1>3, <1>4, SharedSessionsNoted DEF WidgetSound

-----------------------------------------------------------------------------
(* Widget sessions and payouts *)

\* A row that two payout handlers share, two widget handlers share too.
LEMMA PayoutsShareSessions ==
    ASSUME SharedSessions' \subseteq raced'
    PROVE  SharedPayouts' \subseteq raced'
  BY DEF SharedPayouts, SharedSessions, Shared, WidgetWorksOn

\* What a handler of the widget, or of a payout, leaves of the two components,
\* of the tables of Accounts and of the other slots.
LEMMA WidgetWorkKeeps ==
    ASSUME PayoutsAlone, WidgetSound, raced \subseteq raced', SharedSessions' \subseteq raced',
           NEW p \in Procs, WidgetRequest(p) \/ WidgetStep(p) \/ DirectPayout(p)
    PROVE  /\ PayoutsAlone' /\ WidgetSound'
           /\ AccountsNext \/ UNCHANGED accountVars
           /\ AccountsInv' /\ SlotsOK' /\ OthersUntouched(p)
           /\ rowLock' \in {rowLock, Unlocked(p)}
           /\ \A u \in Users : posted'[u]["card_funding"] = posted[u]["card_funding"]
           /\ pc[p] \in PayoutLabels \cup {"idle"}
           /\ pc'[p] \in PayoutLabels \cup {"idle"}
  <1>1. PayoutsSound /\ AccountsInv
    BY DEF PayoutsAlone, PayoutsSound
  <1>2. SharedPayouts' \subseteq raced'
    BY PayoutsShareSessions
  <1>3. CASE WidgetRequest(p) \/ WidgetStep(p)
    <2>1. AccountsNext \/ UNCHANGED accountVars
      BY <1>1, <1>3, WidgetWorkAccounts
    <2>2. AccountsInv'
      BY <1>1, <2>1, AccountsStepInv
    <2>3. /\ SlotsOK' /\ OthersUntouched(p) /\ rowLock' \in {rowLock, Unlocked(p)}
          /\ \A u \in Users : posted'[u]["card_funding"] = posted[u]["card_funding"]
          /\ pc[p] \in PayoutLabels \cup {"idle"}
          /\ pc'[p] \in PayoutLabels \cup {"idle"}
      BY <1>1, <1>3, WidgetWorkElsewhere
    <2>4. WidgetSound'
      BY <1>1, <1>3, <2>3, WidgetRequestSound, WidgetWorkSound
    <2>5. CASE PayoutCall(p) \/ PayoutStep(p)
      BY <1>2, <2>1, <2>2, <2>3, <2>4, <2>5, PayoutWorkAlone
    <2>6. CASE pc[p] = "idle" /\ UNCHANGED <<pc, payoutState>>
      <3>1. pc[p] \notin PayoutLabels /\ pc'[p] \notin PayoutLabels
        BY <2>6 DEF PayoutLabels, DecisionLabels, PayerLabels, CommitLabels
      <3>2. PayoutsAlone'
        BY <1>2, <2>2, <2>3, <2>6, <3>1, PayoutsElsewhere
      <3> QED
        BY <2>1, <2>2, <2>3, <2>4, <3>2
    <2> QED
      BY <1>1, <1>3, <2>5, <2>6, WidgetWorkKinds
  <1>4. CASE DirectPayout(p)
    <2>1. at[p] = "no" /\ UNCHANGED widgetState /\ (PayoutCall(p) \/ PayoutStep(p))
      BY <1>4 DEF DirectPayout, DirectPayoutStep, PayoutCall, Free
    <2>2. AccountsNext \/ UNCHANGED accountVars
      BY <1>1, <2>1, PayoutWorkAccounts
    <2>3. AccountsInv'
      BY <1>1, <2>2, AccountsStepInv
    <2>4. /\ SlotsOK' /\ OthersUntouched(p) /\ rowLock' \in {rowLock, Unlocked(p)}
          /\ \A u \in Users : posted'[u]["card_funding"] = posted[u]["card_funding"]
          /\ pc[p] \in PayoutLabels \cup {"idle"}
          /\ pc'[p] \in PayoutLabels \cup {"idle"}
      BY <1>1, <2>1, PayoutWorkElsewhere
    <2>5. PayoutsAlone'
      BY <1>2, <2>1, PayoutWorkAlone
    <2>6. WidgetSound'
      BY <2>1, <2>4, WidgetElsewhere
    <2> QED
      BY <2>2, <2>3, <2>4, <2>5, <2>6
  <1> QED
    BY <1>3, <1>4

\* What touches neither the widget nor the slots changes nothing for it.
LEMMA WidgetStill ==
    ASSUME WidgetSound, raced \subseteq raced', UNCHANGED <<widgetState, pc, accountVars>>
    PROVE  WidgetSound'
  <1>1. UNCHANGED <<sesStatus, sesKind, sesOwner, sesStep, sesAmount, sesIdle,
                    at, session, draft, moved, unclosed, pc, holds>>
    BY DEF widgetState, sessionTable, widgetLocals, sessionHistory, accountVars
  <1>2. WidgetTablesOK'
    BY <1>1 DEF WidgetSound, WidgetTablesOK
  <1>3. SessionsNoted'
    BY <1>1 DEF WidgetSound, SessionsNoted
  <1>4. \A q \in Procs : WidgetHandlerSound(q)'
    BY <1>1, WidgetHandlerKept DEF SessionKept
  <1>5. \A s \in Sessions : SessionAlone(s)'
    BY <1>1 DEF WidgetSound, SessionAlone
  <1> QED
    BY <1>2, <1>3, <1>4, <1>5 DEF WidgetSound

\* Every step of the specification keeps the inductive invariant.
LEMMA WidgetNextSound ==
    ASSUME PayoutsAlone, WidgetSound,
           [WidgetNext /\ raced' = raced \cup SharedSessions']_<<widgetVars, raced>>
    PROVE  PayoutsAlone' /\ WidgetSound' /\ [AccountsNext]_accountVars
  <1>1. CASE UNCHANGED <<widgetVars, raced>>
    <2>1. /\ UNCHANGED payoutVars /\ UNCHANGED <<widgetState, pc, accountVars>>
          /\ UNCHANGED accountVars /\ UNCHANGED raced
      BY <1>1 DEF widgetVars, payoutVars
    <2> QED
      BY <2>1, PayoutsStill, WidgetStill
  <1>2. CASE WidgetNext /\ raced' = raced \cup SharedSessions'
    <2>1. raced \subseteq raced' /\ SharedSessions' \subseteq raced'
      BY <1>2
    <2>2. CASE \E p \in Procs : WidgetRequest(p) \/ WidgetStep(p) \/ DirectPayout(p)
      BY <2>1, <2>2, WidgetWorkKeeps
    <2>3. ASSUME NEW s \in Sessions, HourPasses(s)
          PROVE  PayoutsAlone' /\ WidgetSound' /\ [AccountsNext]_accountVars
      <3>1. UNCHANGED payoutVars /\ UNCHANGED accountVars
        BY <2>3 DEF HourPasses, payoutVars
      <3>2. PayoutsAlone'
        BY <2>1, <3>1, PayoutsStill
      <3> QED
        BY <2>1, <2>3, <3>1, <3>2, HourPassesSound
    <2> QED
      BY <1>2, <2>2, <2>3 DEF WidgetNext
  <1> QED
    BY <1>1, <1>2

-----------------------------------------------------------------------------
(* Everything that moves money *)

\* The inductive invariants of the components, together.
MoneySound ==
    /\ PayoutsAlone /\ WidgetSound
    /\ CreditsSound /\ PaymentsSound /\ FundingSound

\* A row that two handlers of one component share is noted here as well.
LEMMA SharedRowsNoted ==
    ASSUME SharedRows' \subseteq raced'
    PROVE  /\ SharedSessions' \subseteq raced'
           /\ SharedPayouts' \subseteq raced'
           /\ SharedCredits' \subseteq raced'
           /\ SharedPayments' \subseteq raced'
  <1>1. SharedSessions' \subseteq SharedRows'
    BY DEF SharedSessions, SharedRows, Shared, MoneyWorksOn
  <1>2. SharedCredits' \subseteq SharedRows'
    BY DEF SharedCredits, SharedRows, Shared, MoneyWorksOn
  <1>3. SharedPayments' \subseteq SharedRows'
    BY DEF SharedPayments, SharedRows, Shared, MoneyWorksOn
  <1> QED
    BY <1>1, <1>2, <1>3, PayoutsShareSessions

\* The components name their awaits apart, so a slot that is at one is at
\* none of another component.
LEMMA LabelsApart ==
    ASSUME NEW label
    PROVE  /\ label \in PayoutLabels \cup {"idle"} =>
                 label \notin CreditLabels /\ label \notin PaymentLabels /\ label \notin FundLabels
           /\ label \in CreditLabels \cup {"idle"} =>
                 label \notin PayoutLabels /\ label \notin PaymentLabels /\ label \notin FundLabels
           /\ label \in PaymentLabels \cup {"idle"} =>
                 label \notin PayoutLabels /\ label \notin CreditLabels /\ label \notin FundLabels
           /\ label \in FundLabels \cup {"idle"} =>
                 label \notin PayoutLabels /\ label \notin CreditLabels
                   /\ label \notin PaymentLabels
  BY DEF PayoutLabels, CreditLabels, PaymentLabels, FundLabels

\* A handler of credit requests, of payments or of cards is not one of the
\* widget.
LEMMA OutsideWidget ==
    ASSUME WidgetSound, NEW p \in Procs,
           pc[p] \in CreditLabels \cup PaymentLabels \cup FundLabels
    PROVE  at[p] = "no"
  BY DEF WidgetSound, WidgetHandlerSound, PayoutCreatingLabels,
         CreditLabels, PaymentLabels, FundLabels

\* Payout handlers and the widget's keep the invariants of all components.
LEMMA PayoutWorkKeepsAll ==
    ASSUME MoneySound, raced \subseteq raced', SharedRows' \subseteq raced',
           NEW p \in Procs, PayoutWork(p)
    PROVE  MoneySound' /\ (AccountsNext \/ UNCHANGED accountVars)
  <1>1. WidgetRequest(p) \/ WidgetStep(p) \/ DirectPayout(p)
    BY DEF PayoutWork
  <1>2. UNCHANGED creditState /\ UNCHANGED payState /\ UNCHANGED fundState
    BY DEF PayoutWork
  <1>3. /\ PayoutsAlone' /\ WidgetSound'
        /\ AccountsNext \/ UNCHANGED accountVars
        /\ AccountsInv' /\ SlotsOK' /\ OthersUntouched(p)
        /\ rowLock' \in {rowLock, Unlocked(p)}
        /\ \A u \in Users : posted'[u]["card_funding"] = posted[u]["card_funding"]
        /\ pc[p] \in PayoutLabels \cup {"idle"}
        /\ pc'[p] \in PayoutLabels \cup {"idle"}
    BY <1>1, WidgetWorkKeeps, SharedRowsNoted DEF MoneySound
  <1>4. CreditsSound'
    BY <1>2, <1>3, LabelsApart, SharedRowsNoted, CreditsElsewhere DEF MoneySound
  <1>5. PaymentsSound'
    BY <1>2, <1>3, LabelsApart, SharedRowsNoted, PaymentsElsewhere DEF MoneySound
  <1>6. FundingSound'
    BY <1>2, <1>3, LabelsApart, FundingElsewhere DEF MoneySound
  <1> QED
    BY <1>3, <1>4, <1>5, <1>6 DEF MoneySound

\* So do the handlers of credit requests,
LEMMA CreditWorkKeepsAll ==
    ASSUME MoneySound, raced \subseteq raced', SharedRows' \subseteq raced',
           NEW p \in Procs, CreditWork(p)
    PROVE  MoneySound' /\ (AccountsNext \/ UNCHANGED accountVars)
  <1>1. /\ CreditRequest(p) \/ CreditStep(p)
        /\ UNCHANGED payoutState /\ UNCHANGED widgetState
        /\ UNCHANGED payState /\ UNCHANGED fundState
    BY DEF CreditWork
  <1>2. at[p] = "no"
    <2>1. ASSUME CreditStep(p)
          PROVE  pc[p] \in CreditLabels
      BY <2>1 DEF CreditStep, CreateCreditCheckPending, CreateCreditInsert, ApproveReadUser,
                  ApproveCommit, RejectCreditSave, CreditHandlerFails, CreditLabels
    <2> QED
      BY <2>1, OutsideWidget DEF CreditWork, Free, MoneySound
  <1>3. AccountsNext \/ UNCHANGED accountVars
    BY <1>1, CreditWorkAccounts DEF MoneySound
  <1>4. AccountsInv'
    BY <1>3, AccountsStepInv DEF MoneySound, CreditsSound
  <1>5. /\ SlotsOK' /\ OthersUntouched(p) /\ rowLock' \in {rowLock, Unlocked(p)}
        /\ \A u \in Users : posted'[u]["card_funding"] = posted[u]["card_funding"]
        /\ pc[p] \in CreditLabels \cup {"idle"}
        /\ pc'[p] \in CreditLabels \cup {"idle"}
    BY <1>1, CreditWorkElsewhere DEF MoneySound
  <1>6. CreditsSound'
    BY <1>1, <1>4, SharedRowsNoted, CreditRequestSound, CreditStepSound DEF MoneySound
  <1>7. PayoutsAlone'
    BY <1>1, <1>4, <1>5, LabelsApart, SharedRowsNoted, PayoutsElsewhere DEF MoneySound
  <1>8. WidgetSound'
    BY <1>1, <1>2, <1>5, SharedRowsNoted, WidgetElsewhere DEF MoneySound
  <1>9. PaymentsSound'
    BY <1>1, <1>4, <1>5, LabelsApart, SharedRowsNoted, PaymentsElsewhere DEF MoneySound
  <1>10. FundingSound'
    BY <1>1, <1>4, <1>5, LabelsApart, FundingElsewhere DEF MoneySound
  <1> QED
    BY <1>3, <1>6, <1>7, <1>8, <1>9, <1>10 DEF MoneySound

\* those of deposits and transfers,
LEMMA PaymentWorkKeepsAll ==
    ASSUME MoneySound, raced \subseteq raced', SharedRows' \subseteq raced',
           NEW p \in Procs, PaymentWork(p)
    PROVE  MoneySound' /\ (AccountsNext \/ UNCHANGED accountVars)
  <1>1. /\ PaymentRequest(p) \/ PaymentStep(p)
        /\ UNCHANGED payoutState /\ UNCHANGED widgetState
        /\ UNCHANGED creditState /\ UNCHANGED fundState
    BY DEF PaymentWork
  <1>2. at[p] = "no"
    <2>1. ASSUME PaymentStep(p)
          PROVE  pc[p] \in PaymentLabels
      BY <2>1 DEF PaymentStep, InitializePaymentInsert, VerifyAskPaystack, VerifySaveFailed,
                  VerifyBegin, VerifyCommit, TransferCommit, PaymentHandlerFails, PaymentLabels
    <2> QED
      BY <2>1, OutsideWidget DEF PaymentWork, Free, MoneySound
  <1>3. AccountsNext \/ UNCHANGED accountVars
    BY <1>1, PaymentWorkAccounts DEF MoneySound
  <1>4. AccountsInv'
    BY <1>3, AccountsStepInv DEF MoneySound, PaymentsSound
  <1>5. /\ SlotsOK' /\ OthersUntouched(p) /\ rowLock' \in {rowLock, Unlocked(p)}
        /\ \A u \in Users : posted'[u]["card_funding"] = posted[u]["card_funding"]
        /\ pc[p] \in PaymentLabels \cup {"idle"}
        /\ pc'[p] \in PaymentLabels \cup {"idle"}
    BY <1>1, PaymentWorkElsewhere DEF MoneySound
  <1>6. PaymentsSound'
    BY <1>1, <1>4, SharedRowsNoted, PaymentRequestSound, PaymentStepSound DEF MoneySound
  <1>7. PayoutsAlone'
    BY <1>1, <1>4, <1>5, LabelsApart, SharedRowsNoted, PayoutsElsewhere DEF MoneySound
  <1>8. WidgetSound'
    BY <1>1, <1>2, <1>5, SharedRowsNoted, WidgetElsewhere DEF MoneySound
  <1>9. CreditsSound'
    BY <1>1, <1>4, <1>5, LabelsApart, SharedRowsNoted, CreditsElsewhere DEF MoneySound
  <1>10. FundingSound'
    BY <1>1, <1>4, <1>5, LabelsApart, FundingElsewhere DEF MoneySound
  <1> QED
    BY <1>3, <1>6, <1>7, <1>8, <1>9, <1>10 DEF MoneySound

\* and those that fund a card, whose row of the user stays locked meanwhile.
LEMMA FundingWorkKeepsAll ==
    ASSUME MoneySound, raced \subseteq raced', SharedRows' \subseteq raced',
           NEW p \in Procs, FundingWork(p)
    PROVE  MoneySound' /\ (AccountsNext \/ UNCHANGED accountVars)
  <1>1. /\ FundRequest(p) \/ FundStep(p)
        /\ UNCHANGED payoutState /\ UNCHANGED widgetState
        /\ UNCHANGED creditState /\ UNCHANGED payState
    BY DEF FundingWork
  <1>2. at[p] = "no"
    <2>1. ASSUME FundStep(p)
          PROVE  pc[p] \in FundLabels
      BY <2>1 DEF FundStep, FundSyncCard, FundReadUser, FundBegin, FundTransfer,
                  FundAnswerLost, FundRefresh, FundCommit, FundFails, FundLabels, MovedLabels
    <2> QED
      BY <2>1, OutsideWidget DEF FundingWork, Free, MoneySound
  <1>3. AccountsNext \/ UNCHANGED accountVars
    BY <1>1, FundStepAccounts DEF MoneySound
  <1>4. AccountsInv'
    BY <1>3, AccountsStepInv DEF MoneySound, FundingSound
  <1>5. /\ SlotsOK' /\ OthersUntouched(p)
        /\ pc[p] \in FundLabels \cup {"idle"}
        /\ pc'[p] \in FundLabels \cup {"idle"}
    BY <1>1, FundWorkElsewhere DEF MoneySound
  <1>6. FundingSound'
    BY <1>1, <1>4, FundWorkSound DEF MoneySound
  <1>7. PayoutsAlone'
    BY <1>1, <1>4, <1>5, LabelsApart, SharedRowsNoted, PayoutsElsewhere DEF MoneySound
  <1>8. WidgetSound'
    BY <1>1, <1>2, <1>5, SharedRowsNoted, WidgetElsewhere DEF MoneySound
  <1>9. CreditsSound'
    BY <1>1, <1>4, <1>5, LabelsApart, SharedRowsNoted, CreditsElsewhere DEF MoneySound
  <1>10. PaymentsSound'
    BY <1>1, <1>4, <1>5, LabelsApart, SharedRowsNoted, PaymentsElsewhere DEF MoneySound
  <1> QED
    BY <1>3, <1>6, <1>7, <1>8, <1>9, <1>10 DEF MoneySound

\* What keeps the slots and the tables of Accounts keeps the components that it
\* does not touch.
LEMMA MoneyStill ==
    ASSUME MoneySound, raced \subseteq raced', UNCHANGED pc, UNCHANGED accountVars
    PROVE  /\ UNCHANGED payoutState => PayoutsAlone'
           /\ UNCHANGED widgetState => WidgetSound'
           /\ UNCHANGED creditState => CreditsSound'
           /\ UNCHANGED payState => PaymentsSound'
           /\ UNCHANGED fundState => FundingSound'
           /\ AccountsInv'
  <1>1. UNCHANGED payoutState => PayoutsAlone'
    BY PayoutsStill DEF MoneySound, payoutVars
  <1>2. UNCHANGED widgetState => WidgetSound'
    BY WidgetStill DEF MoneySound
  <1>3. UNCHANGED creditState => CreditsSound'
    BY CreditsStill DEF MoneySound, creditVars
  <1>4. UNCHANGED payState => PaymentsSound'
    BY PaymentsStill DEF MoneySound, payVars
  <1>5. UNCHANGED fundState => FundingSound'
    BY FundingNextSound DEF MoneySound, fundVars
  <1>6. AccountsInv'
    BY AccountsStepInv DEF MoneySound, FundingSound
  <1> QED
    BY <1>1, <1>2, <1>3, <1>4, <1>5, <1>6

\* What happens outside of the backend keeps the invariants.
LEMMA OutsideKeepsAll ==
    ASSUME MoneySound, raced \subseteq raced', SharedRows' \subseteq raced', Outside
    PROVE  MoneySound' /\ UNCHANGED accountVars
  <1>1. ASSUME NEW s \in Sessions, HourPasses(s),
               UNCHANGED <<creditState, payState, fundState>>
        PROVE  MoneySound' /\ UNCHANGED accountVars
    <2>1. /\ UNCHANGED pc /\ UNCHANGED accountVars /\ UNCHANGED payoutState
          /\ UNCHANGED creditState /\ UNCHANGED payState /\ UNCHANGED fundState
      BY <1>1 DEF HourPasses, payoutVars
    <2>2. WidgetSound'
      BY <1>1, SharedRowsNoted, HourPassesSound DEF MoneySound
    <2> QED
      BY <2>1, <2>2, MoneyStill DEF MoneySound
  <1>2. CASE Paystack /\ UNCHANGED <<payoutState, widgetState, creditState, fundState>>
    <2>1. /\ UNCHANGED pc /\ UNCHANGED accountVars /\ UNCHANGED payoutState
          /\ UNCHANGED creditState /\ UNCHANGED widgetState /\ UNCHANGED fundState
      BY <1>2 DEF Paystack, CustomerPays, PaystackWebhook
    <2>2. PaymentsSound'
      BY <1>2, <2>1, MoneyStill, SharedRowsNoted, PaystackSound DEF MoneySound
    <2> QED
      BY <2>1, <2>2, MoneyStill DEF MoneySound
  <1>3. ASSUME NEW card \in Cards, Purchase(card),
               UNCHANGED <<payoutState, widgetState, creditState, payState>>
        PROVE  MoneySound' /\ UNCHANGED accountVars
    <2>1. /\ UNCHANGED pc /\ UNCHANGED accountVars /\ UNCHANGED payoutState
          /\ UNCHANGED creditState /\ UNCHANGED widgetState /\ UNCHANGED payState
      BY <1>3 DEF Purchase
    <2>2. FundingSound'
      BY <1>3, <2>1, MoneyStill, PurchaseSound DEF MoneySound
    <2> QED
      BY <2>1, <2>2, MoneyStill DEF MoneySound
  <1> QED
    BY <1>1, <1>2, <1>3 DEF Outside

\* Every step of everything that moves money keeps the inductive invariant, and
\* is one that the abstract specification of the tables allows.
LEMMA MoneyNextSound ==
    ASSUME MoneySound, [MoneyNext /\ raced' = raced \cup SharedRows']_<<moneyVars, raced>>
    PROVE  MoneySound' /\ [AccountsNext]_accountVars
  <1>1. CASE UNCHANGED <<moneyVars, raced>>
    <2>1. /\ UNCHANGED pc /\ UNCHANGED accountVars /\ UNCHANGED payoutState
          /\ UNCHANGED creditState /\ UNCHANGED payState /\ UNCHANGED fundState
          /\ UNCHANGED widgetState /\ UNCHANGED raced
      BY <1>1 DEF moneyVars
    <2> QED
      BY <2>1, MoneyStill DEF MoneySound
  <1>2. CASE MoneyNext /\ raced' = raced \cup SharedRows'
    <2>1. raced \subseteq raced' /\ SharedRows' \subseteq raced'
      BY <1>2
    <2> QED
      BY <1>2, <2>1, PayoutWorkKeepsAll, CreditWorkKeepsAll, PaymentWorkKeepsAll,
         FundingWorkKeepsAll, OutsideKeepsAll DEF MoneyNext
  <1> QED
    BY <1>1, <1>2

-----------------------------------------------------------------------------
(* Theorems about widget sessions and payouts *)

\* The inductive invariants of both hold in every state.
LEMMA WidgetAlwaysSound == WidgetSpec => [](PayoutsAlone /\ WidgetSound)
  <1>1. WidgetStart => PayoutsAlone /\ WidgetSound
    BY PayoutsStartAlone, WidgetStartSound DEF WidgetStart
  <1>2. PayoutsAlone /\ WidgetSound
        /\ [WidgetNext /\ raced' = raced \cup SharedSessions']_<<widgetVars, raced>>
          => PayoutsAlone' /\ WidgetSound'
    BY WidgetNextSound
  <1> QED
    BY <1>1, <1>2, PTL DEF WidgetSpec

\* However submitStep, completeSession, the expiry and the payouts that they
\* call interleave and wherever they fail: a handler moves money with the
\* amount and the user of its session, and a session that no two handlers worked
\* on at once moves its money once, not counting handlers that failed to close
\* it.
THEOREM WidgetInvariant == WidgetSpec => []WidgetInv
  <1>1. PayoutsAlone /\ WidgetSound => WidgetInv
    BY WidgetSoundInv
  <1> QED
    BY <1>1, WidgetAlwaysSound, PTL

\* A session is never active again; and unless two handlers worked on it at
\* once, its step never goes back, and no money moves once it was abandoned,
\* although completeSession does not ask whether it was.
THEOREM WidgetSessionsAdvance == WidgetSpec => SessionsAdvanceUnlessRaced
  <1> DEFINE Advance == \A s \in Sessions :
                          /\ NeverActiveAgain(s)
                          /\ s \notin raced => StepNeverBack(s) /\ AbandonedMovesNothing(s)
  <1>1. PayoutsAlone /\ WidgetSound
        /\ [WidgetNext /\ raced' = raced \cup SharedSessions']_<<widgetVars, raced>>
          => [Advance]_widgetState
    <2> SUFFICES ASSUME WidgetSound, [WidgetNext]_widgetVars
                 PROVE  Advance
      OBVIOUS
    <2>1. \/ \E p \in Procs : WidgetRequest(p) \/ WidgetStep(p)
          \/ \E s \in Sessions : HourPasses(s)
          \/ UNCHANGED widgetState
      BY DEF WidgetNext, DirectPayout, DirectPayoutStep, widgetVars
    <2> QED
      BY <2>1, SessionsAdvance
  <1> QED
    BY <1>1, WidgetAlwaysSound, PTL DEF WidgetSpec, SessionsAdvanceUnlessRaced

\* Widget handlers, and the payout handlers they call, change the money tables
\* only as the abstract specification of the tables allows: by a row that the
\* balance covers, or a deposit of the amount the session collected, negative or not.
THEOREM WidgetImplementsAccounts == WidgetSpec => AccountsSpec
  <1>1. WidgetStart => AccountsInit
    BY DEF WidgetStart
  <1>2. PayoutsAlone /\ WidgetSound
        /\ [WidgetNext /\ raced' = raced \cup SharedSessions']_<<widgetVars, raced>>
          => [AccountsNext]_accountVars
    BY WidgetNextSound
  <1> QED
    BY <1>1, <1>2, WidgetAlwaysSound, PTL DEF WidgetSpec, AccountsSpec

-----------------------------------------------------------------------------
(* Theorems about everything that moves money, at once on the same rows *)

\* The inductive invariants of the components hold in every state.
LEMMA MoneyAlwaysSound == MoneySpec => []MoneySound
  <1>1. MoneyInit => MoneySound
    <2> SUFFICES ASSUME MoneyInit
                 PROVE  MoneySound
      OBVIOUS
    <2>1. RequestsInit /\ AccountsInit /\ PayoutsInit /\ WidgetInit
          /\ CreditsStart /\ PaymentsStart /\ FundingInit
      BY DEF MoneyInit, CreditsStart, PaymentsStart
    <2> QED
      BY <2>1, PayoutsStartAlone, WidgetStartSound, CreditsStartSound, PaymentsStartSound,
         FundingStartSound DEF MoneySound
  <1>2. MoneySound /\ [MoneyNext /\ raced' = raced \cup SharedRows']_<<moneyVars, raced>>
          => MoneySound'
    BY MoneyNextSound
  <1> QED
    BY <1>1, <1>2, PTL DEF MoneySpec

\* All handlers together change the money tables only as the abstract
\* specification of the tables allows: one row at a time, covered by what the
\* handler saw, or a widget's deposit of whatever sign.
THEOREM MoneyImplementsAccounts == MoneySpec => AccountsSpec
  <1>1. MoneyInit => AccountsInit
    BY DEF MoneyInit
  <1>2. MoneySound /\ [MoneyNext /\ raced' = raced \cup SharedRows']_<<moneyVars, raced>>
          => [AccountsNext]_accountVars
    BY MoneyNextSound
  <1> QED
    BY <1>1, <1>2, MoneyAlwaysSound, PTL DEF MoneySpec, AccountsSpec

\* A deposit is credited once with what Paystack was paid, unless two handlers
\* verified it at once, whatever else moves money on the same users.
THEOREM MoneyDeposits == MoneySpec => []DepositsInv
  <1>1. MoneySound => DepositsInv
    BY PaymentsSoundInv DEF MoneySound
  <1> QED
    BY <1>1, MoneyAlwaysSound, PTL

\* What funded the cards was taken from their owners' wallets, or was forgotten
\* by a handler that failed after Sudo's transfer, whatever else happens to the
\* same wallets while the row of the user is locked.
THEOREM MoneyFunding == MoneySpec => []FundingInv
  <1>1. MoneySound => FundingInv
    BY FundingSoundInv DEF MoneySound
  <1> QED
    BY <1>1, MoneyAlwaysSound, PTL

\* Approval, credit and row of a credit request come together, and a user for
\* whom no two createCreditRequest handlers ran at once has one pending request
\* at most, whatever else moves the user's earnings.
THEOREM MoneyCredits == MoneySpec => [](CreditsInv /\ OnePendingCreditUnlessRaced)
  <1>1. MoneySound => CreditsInv /\ OnePendingCreditUnlessRaced
    BY CreditsSoundInv DEF MoneySound
  <1> QED
    BY <1>1, MoneyAlwaysSound, PTL

\* A payment that succeeded stays so, unless two handlers verified it at once.
THEOREM MoneySuccessIsFinal == MoneySpec => SuccessIsFinalUnlessRaced
  <1> DEFINE Final == \A ref \in References \ raced :
                        payStatus[ref] = "success" => payStatus'[ref] = "success"
  <1>1. MoneySound /\ [MoneyNext /\ raced' = raced \cup SharedRows']_<<moneyVars, raced>>
          => [Final]_payStatus
    <2> SUFFICES ASSUME MoneySound, [MoneyNext]_moneyVars
                 PROVE  Final \/ UNCHANGED payStatus
      OBVIOUS
    <2>1. CASE \E p \in Procs : PaymentWork(p)
      <3>1. PaymentsNext
        BY <2>1 DEF PaymentWork, PaymentsNext
      <3> QED
        BY <3>1, PaymentsStepFinal DEF MoneySound
    <2>2. CASE Paystack
      BY <2>2, PaymentsStepFinal DEF MoneySound, PaymentsNext
    <2>3. CASE UNCHANGED payState
      BY <2>3 DEF payState, payTable
    <2> QED
      BY <2>1, <2>2, <2>3
         DEF MoneyNext, PayoutWork, CreditWork, FundingWork, Outside, moneyVars
  <1> QED
    BY <1>1, MoneyAlwaysSound, PTL DEF MoneySpec, SuccessIsFinalUnlessRaced

\* Sessions, and the payouts they request, behave next to the other components
\* as they do alone.
THEOREM MoneyWidget ==
    MoneySpec => [](WidgetInv /\ PaidOnceUnlessRaced /\ OnePendingUnlessRaced)
  <1>1. MoneySound => WidgetInv /\ PaidOnceUnlessRaced /\ OnePendingUnlessRaced
    <2> SUFFICES ASSUME MoneySound
                 PROVE  WidgetInv /\ PaidOnceUnlessRaced /\ OnePendingUnlessRaced
      OBVIOUS
    <2>1. PaidOnceUnlessRaced /\ OnePendingUnlessRaced
      BY PayoutsAlonePaidOnce DEF MoneySound
    <2> QED
      BY <2>1, WidgetSoundInv DEF MoneySound
  <1> QED
    BY <1>1, MoneyAlwaysSound, PTL

-----------------------------------------------------------------------------
(* One request at a time *)

\* If the process served one request at a time, the books would always add up,
\* whatever fails and whichever handlers run one after the other, and only a
\* negative deposit could make earnings negative.
THEOREM MoneyReconciled == OneRequestAtATime /\ MoneySpec => []BooksAddUp
  <1>1. AccountsInv /\ Reconciled => BooksAddUp
    BY DEF AccountsInv, BooksAddUp
  <1> QED
    BY <1>1, OneAtATimeReconciled, AccountsInvariant, MoneyImplementsAccounts, PTL

\* What the refinement of the payout book needs to know of a slot stays so.
LEMMA MoneyKeepsBook ==
    ASSUME OneRequestAtATime, MoneySound, BookKept,
           MoneyNext, raced' = raced \cup SharedRows'
    PROVE  BookKept'
  <1>1. MoneySound' /\ [AccountsNext]_accountVars
    BY MoneyNextSound
  <1>2. NothingStale'
    BY <1>1, NothingBecomesStale DEF BookKept, MoneySound, FundingSound
  <1>3. raced' = {}
    BY DEF BookKept, OneRequestAtATime, SharedRows, Shared
  <1>4. AskedCovered'
    <2>1. ASSUME NEW p \in Procs, PayoutCall(p) \/ PayoutStep(p)
          PROVE  AskedCovered'
      BY <2>1, AskedStaysCovered DEF BookKept
    <2>2. ASSUME NEW p \in Procs, pc'[p] \notin PayoutLabels
          PROVE  AskedCovered'
      <3>1. \A q \in Procs : q = p
        BY DEF OneRequestAtATime
      <3> QED
        BY <2>2, <3>1 DEF AskedCovered, PayoutCreatingLabels, PayoutLabels
    <2>3. ASSUME NEW p \in Procs, PayoutWork(p)
          PROVE  AskedCovered'
      <3>1. CASE DirectPayout(p)
        BY <3>1, <2>1 DEF DirectPayout, DirectPayoutStep, PayoutCall
      <3>2. CASE WidgetRequest(p) \/ WidgetStep(p)
        <4>1. \/ PayoutCall(p) \/ PayoutStep(p)
              \/ pc[p] = "idle" /\ UNCHANGED pc
          BY <3>2, WidgetWorkKinds DEF MoneySound, PayoutsAlone
        <4> QED
          BY <2>1, <2>2, <4>1 DEF PayoutLabels
      <3> QED
        BY <2>3, <3>1, <3>2 DEF PayoutWork
    <2>4. ASSUME NEW p \in Procs, CreditWork(p)
          PROVE  AskedCovered'
      <3>1. pc'[p] \in CreditLabels \cup {"idle"}
        BY <2>4, CreditWorkElsewhere DEF CreditWork, MoneySound
      <3> QED
        BY <2>2, <3>1, LabelsApart
    <2>5. ASSUME NEW p \in Procs, PaymentWork(p)
          PROVE  AskedCovered'
      <3>1. pc'[p] \in PaymentLabels \cup {"idle"}
        BY <2>5, PaymentWorkElsewhere DEF PaymentWork, MoneySound
      <3> QED
        BY <2>2, <3>1, LabelsApart
    <2>6. ASSUME NEW p \in Procs, FundingWork(p)
          PROVE  AskedCovered'
      <3>1. pc'[p] \in FundLabels \cup {"idle"}
        BY <2>6, FundWorkElsewhere DEF FundingWork, MoneySound
      <3> QED
        BY <2>2, <3>1, LabelsApart
    <2>7. ASSUME Outside
          PROVE  AskedCovered'
      <3>1. UNCHANGED pc /\ UNCHANGED seen /\ UNCHANGED asked
        BY <2>7 DEF Outside, HourPasses, Paystack, CustomerPays, PaystackWebhook, Purchase,
                    payoutVars, payoutState, accountVars
      <3> QED
        BY <3>1 DEF BookKept, AskedCovered
    <2> QED
      BY <2>3, <2>4, <2>5, <2>6, <2>7 DEF MoneyNext
  <1> QED
    BY <1>1, <1>2, <1>3, <1>4 DEF BookKept, MoneySound

\* Every step of what moves money is one of the payout book.
LEMMA MoneyStepBook ==
    ASSUME MoneySound, BookKept, MoneySound', MoneyNext
    PROVE  Book!Next
  <1>1. AccountsInv'
    BY DEF MoneySound, FundingSound
  <1>2. ASSUME UNCHANGED payoutState
        PROVE  Book!Next
    BY <1>1, <1>2, BookElsewhere DEF Book!Next, payoutState
  <1>3. ASSUME NEW p \in Procs, PayoutCall(p) \/ PayoutStep(p)
        PROVE  Book!Next
    BY <1>1, <1>3, PayoutWorkBook
  <1>4. ASSUME NEW p \in Procs, PayoutWork(p)
        PROVE  Book!Next
    <2>1. CASE DirectPayout(p)
      BY <2>1, <1>3 DEF DirectPayout, DirectPayoutStep, PayoutCall
    <2>2. CASE WidgetRequest(p) \/ WidgetStep(p)
      BY <2>2, <1>2, <1>3, WidgetWorkKinds DEF MoneySound, PayoutsAlone
    <2> QED
      BY <1>4, <2>1, <2>2 DEF PayoutWork
  <1> QED
    BY <1>2, <1>4 DEF MoneyNext, CreditWork, PaymentWork, FundingWork, Outside, HourPasses,
                      payoutVars

\* If the process served one request at a time, withdrawals would implement the
\* payout book, next to the other services: one open payout per user, decided
\* once, its amount taken from the owner's earnings when it is completed.
THEOREM MoneyImplementsBook == OneRequestAtATime /\ MoneySpec => PayoutBookSpec
  <1> SUFFICES ASSUME OneRequestAtATime
               PROVE  MoneySpec => PayoutBookSpec
    OBVIOUS
  <1>1. MoneyInit => BookKept /\ Book!Init
    <2> SUFFICES ASSUME MoneyInit
                 PROVE  BookKept /\ Book!Init
      OBVIOUS
    <2>1. RequestsInit /\ AccountsInit /\ PayoutsInit
      BY DEF MoneyInit
    <2>2. NothingStale /\ AskedCovered /\ raced = {}
      BY <2>1 DEF RequestsInit, AccountsInit, NothingStale, AskedCovered, PayoutCreatingLabels
    <2> QED
      BY <2>1, <2>2, PayoutsStartAlone, BookStarts DEF BookKept
  <1>2. MoneySound /\ MoneySound' /\ BookKept
          /\ [MoneyNext /\ raced' = raced \cup SharedRows']_<<moneyVars, raced>>
          => BookKept' /\ [Book!Next]_Book!bookVars
    <2> SUFFICES ASSUME MoneySound, MoneySound', BookKept,
                        [MoneyNext /\ raced' = raced \cup SharedRows']_<<moneyVars, raced>>
                 PROVE  BookKept' /\ [Book!Next]_Book!bookVars
      OBVIOUS
    <2>1. CASE UNCHANGED <<moneyVars, raced>>
      <3>1. UNCHANGED <<pc, accountVars, payoutState, raced>>
        BY <2>1 DEF moneyVars
      <3>2. PayoutsAlone'
        BY <3>1, PayoutsStill DEF MoneySound, payoutVars
      <3>3. NothingStale' /\ AskedCovered' /\ raced' = {}
        BY <3>1 DEF BookKept, NothingStale, AskedCovered, accountVars, payoutState
      <3>4. UNCHANGED <<payoutStatus, payoutOwner, payoutAmount, balance>>
        BY <3>1 DEF accountVars, payoutState, payoutTable
      <3> QED
        BY <3>2, <3>3, <3>4 DEF BookKept, Book!bookVars
    <2>2. CASE MoneyNext /\ raced' = raced \cup SharedRows'
      BY <2>2, MoneyKeepsBook, MoneyStepBook
    <2> QED
      BY <2>1, <2>2
  <1> QED
    BY <1>1, <1>2, MoneyAlwaysSound, PTL DEF MoneySpec, PayoutBookSpec, Book!Spec

=============================================================================
