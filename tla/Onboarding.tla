----------------------------- MODULE Onboarding -----------------------------
(***************************************************************************)
(* OnboardingService, the onboarding sessions of WidgetService and         *)
(* AdminsService.completeOnboarding.  A user asks to be onboarded, or gets *)
(* a request by completing a widget session, which asks nothing about the  *)
(* account; an administrator completes the user's request, or one that is  *)
(* made up for the purpose.  The notifications and mails that follow the   *)
(* statements are left out, and so is the session (see WidgetSessions).    *)
(***************************************************************************)
EXTENDS Auth

CONSTANTS
    Requests,       \* rows the onboarding_requests table may come to have
    NoRequest       \* a handler that holds no request

ASSUME OnboardingAssumption == NoRequest \notin Requests

VARIABLES
    reqStatus,      \* onboarding_requests.status, "none" without a row
    reqUser,        \* user_id
    asked,          \* requests that createOnboardingRequest inserted
    reqHeld         \* the OnboardingRequest instance of a handler

onboardingState == <<reqStatus, reqUser, asked, reqHeld>>
peopleVars == <<pc, calls, authState, onboardingState>>

OnboardingInit ==
    /\ reqStatus = [r \in Requests |-> "none"]
    /\ reqUser = [r \in Requests |-> NoUser]
    /\ asked = {}
    /\ reqHeld = [p \in Procs |-> NoRequest]

RequestsOf(u, status) == {r \in Requests : reqUser[r] = u /\ reqStatus[r] = status}

\* OnboardingRequest.create.
InsertRequest(r, u) ==
    /\ reqStatus[r] = "none"
    /\ reqStatus' = [reqStatus EXCEPT ![r] = "pending"]
    /\ reqUser' = [reqUser EXCEPT ![r] = u]

-----------------------------------------------------------------------------
(* createOnboardingRequest *)

\* User.findByPk: not onboarded, linked to TikTok, with an address to send
\* the credentials to.
CreateOnboardingRequest(p, u) ==
    /\ Idle(p)
    /\ Signed(u) /\ u \notin onboarded /\ linked[u] # NoOpenId
    /\ ~(u \in byTikTok /\ email[u] \in OpenIds)
    /\ Hold(p, [NothingHeld EXCEPT !.user = u], "request_find")
    /\ UNCHANGED <<usersTable, tokens, codeTo, provedTo, onboardingState>>

\* Mutant: a pending request is no reason to refuse another.
FindPendingIgnored(p) ==
    /\ pc[p] = "request_find"
    /\ Hold(p, held[p], "request_create")
    /\ UNCHANGED <<usersTable, tokens, codeTo, provedTo, onboardingState>>

FindPending(p) ==
    /\ pc[p] = "request_find"
    /\ RequestsOf(held[p].user, "pending") = {}
    /\ Hold(p, held[p], "request_create")
    /\ UNCHANGED <<usersTable, tokens, codeTo, provedTo, onboardingState>>

CreateRequest(p) ==
    /\ pc[p] = "request_create"
    /\ \E r \in Requests : InsertRequest(r, held[p].user) /\ asked' = asked \cup {r}
    /\ AuthDone(p)
    /\ UNCHANGED <<usersTable, tokens, codeTo, provedTo, reqHeld>>

-----------------------------------------------------------------------------
(* WidgetService.completeOnboarding, of a session that its user completes *)

\* User.findByPk.  Neither the session nor this asks whether the user is linked
\* to TikTok, has a real address or is onboarded already.
CompleteWidgetOnboarding(p, u) ==
    /\ Idle(p)
    /\ Signed(u)
    /\ Hold(p, [NothingHeld EXCEPT !.user = u], "widget_find")
    /\ UNCHANGED <<usersTable, tokens, codeTo, provedTo, onboardingState>>

FindPendingForWidget(p) ==
    /\ pc[p] = "widget_find"
    /\ IF RequestsOf(held[p].user, "pending") = {} THEN Hold(p, held[p], "widget_create")
       ELSE AuthDone(p)
    /\ UNCHANGED <<usersTable, tokens, codeTo, provedTo, onboardingState>>

CreateWidgetRequest(p) ==
    /\ pc[p] = "widget_create"
    /\ \E r \in Requests : InsertRequest(r, held[p].user)
    /\ AuthDone(p)
    /\ UNCHANGED <<usersTable, tokens, codeTo, provedTo, asked, reqHeld>>

-----------------------------------------------------------------------------
(* AdminsService.completeOnboarding *)

CompleteOnboarding(p, u) ==
    /\ Idle(p)
    /\ Row(u) /\ u \notin onboarded
    /\ Hold(p, [NothingHeld EXCEPT !.user = u], "complete_find")
    /\ UNCHANGED <<usersTable, tokens, codeTo, provedTo, onboardingState>>

HoldRequest(p, r, label) ==
    /\ reqHeld' = [reqHeld EXCEPT ![p] = r]
    /\ Hold(p, held[p], label)

\* The latest pending request; where there are several, any.
FindRequest(p) ==
    /\ pc[p] = "complete_find"
    /\ LET found == RequestsOf(held[p].user, "pending") IN
       IF found = {} THEN HoldRequest(p, NoRequest, "complete_create")
       ELSE \E r \in found : HoldRequest(p, r, "complete_commit")
    /\ UNCHANGED <<usersTable, tokens, codeTo, provedTo, reqStatus, reqUser, asked>>

CreateMissingRequest(p) ==
    /\ pc[p] = "complete_create"
    /\ \E r \in Requests :
          InsertRequest(r, held[p].user) /\ HoldRequest(p, r, "complete_commit")
    /\ UNCHANGED <<usersTable, tokens, codeTo, provedTo, asked>>

\* Mutant: the request is left pending.
CommitUserOnly(p) ==
    /\ pc[p] = "complete_commit"
    /\ onboarded' = onboarded \cup {held[p].user}
    /\ reqHeld' = [reqHeld EXCEPT ![p] = NoRequest]
    /\ AuthDone(p)
    /\ UNCHANGED <<email, verified, emailCode, suspended, linked, byTikTok,
                   tokens, codeTo, provedTo, reqStatus, reqUser, asked>>

\* One transaction: the user and the request.
CommitOnboarding(p) ==
    /\ pc[p] = "complete_commit"
    /\ onboarded' = onboarded \cup {held[p].user}
    /\ reqStatus' = [reqStatus EXCEPT ![reqHeld[p]] = "completed"]
    /\ reqHeld' = [reqHeld EXCEPT ![p] = NoRequest]
    /\ AuthDone(p)
    /\ UNCHANGED <<email, verified, emailCode, suspended, linked, byTikTok,
                   tokens, codeTo, provedTo, reqUser, asked>>

-----------------------------------------------------------------------------
OnboardingLabels ==
    {"request_find", "request_create", "widget_find", "widget_create",
     "complete_find", "complete_create", "complete_commit"}

OnboardingHandlerFails(p) ==
    /\ pc[p] \in OnboardingLabels
    /\ reqHeld' = [reqHeld EXCEPT ![p] = NoRequest]
    /\ AuthDone(p)
    /\ UNCHANGED <<usersTable, tokens, codeTo, provedTo, reqStatus, reqUser, asked>>

OnboardingStep(p) ==
    \/ FindPending(p) \/ CreateRequest(p)
    \/ FindPendingForWidget(p) \/ CreateWidgetRequest(p)
    \/ FindRequest(p) \/ CreateMissingRequest(p) \/ CommitOnboarding(p)
    \/ OnboardingHandlerFails(p)

\* AdminsController lets either role suspend and onboard users; Admins
\* models who may call it.
PeopleRequest(p) ==
    \/ (AuthRequest(p) \/ SuspensionRequest(p)) /\ UNCHANGED onboardingState
    \/ \E u \in Users :
          \/ CreateOnboardingRequest(p, u) \/ CompleteWidgetOnboarding(p, u)
          \/ CompleteOnboarding(p, u)

PeopleStep(p) ==
    \/ AuthStep(p) /\ UNCHANGED onboardingState
    \/ OnboardingStep(p)

PeopleNext ==
    \E p \in Procs :
        \/ Arrives /\ PeopleRequest(p)
        \/ UNCHANGED calls /\ PeopleStep(p)

SharedPeople == Shared(AuthWorksOn)

PeopleStart == CallsStart /\ AuthInit /\ OnboardingInit

PeopleSpec ==
    /\ PeopleStart
    /\ [][PeopleNext /\ raced' = raced \cup SharedPeople']_<<peopleVars, raced>>

-----------------------------------------------------------------------------
(* Properties *)

\* Types, and what a handler holds where it is about to complete a request.
PeopleTypeOK ==
    /\ pc \in [Procs -> AuthLabels \cup OnboardingLabels \cup {"idle"}]
    /\ calls \in 0 .. MaxCalls
    /\ AuthTypeOK
    /\ reqStatus \in [Requests -> {"none", "pending", "completed"}]
    /\ reqUser \in [Requests -> Users \cup {NoUser}]
    /\ asked \subseteq Requests
    /\ reqHeld \in [Procs -> Requests \cup {NoRequest}]
    /\ \A r \in Requests : reqStatus[r] = "none" <=> reqUser[r] = NoUser
    /\ \A r \in asked : reqUser[r] \in Users
    /\ \A p \in Procs :
          /\ pc[p] = "complete_commit" <=> reqHeld[p] # NoRequest
          /\ pc[p] = "complete_commit" => reqUser[reqHeld[p]] = held[p].user

\* Whoever is onboarded has a completed request, however the handlers of
\* users and administrators interleave and wherever they fail.
OnboardedHasRequest ==
    \A u \in onboarded : RequestsOf(u, "completed") # {}

\* "You must link your TikTok account" and "We need it to send you
\* credentials": a user whose request createOnboardingRequest took has a TikTok
\* account and a real address from then on, whatever other requests change on
\* the row.  Of a request made by a widget session nothing of the kind is known.
AskedWhenReady ==
    \A r \in asked : linked[reqUser[r]] # NoOpenId /\ email[reqUser[r]] \in Emails

\* Whoever is onboarded has a completed request, and whoever asked for it
\* outside the widget was ready to be onboarded.
PeopleInv == PeopleTypeOK /\ OnboardedHasRequest /\ AskedWhenReady

\* A user has one pending request at most, in person or by the widget, and an
\* onboarded user none that createOnboardingRequest took, unless two handlers
\* worked on the row at once.  A widget session that is completed late leaves an
\* onboarded user with a pending request, which completeOnboarding then refuses.
OnePendingRequestUnlessRaced ==
    \A u \in Users \ raced :
        /\ \A q, r \in RequestsOf(u, "pending") : q = r
        /\ u \in onboarded => RequestsOf(u, "pending") \cap asked = {}

=============================================================================
