--------------------------- MODULE OnboardingProofs ---------------------------
(***************************************************************************)
(* Proofs about accounts and their onboarding.                             *)
(*                                                                         *)
(* PeopleSound holds whatever the handlers of users and administrators do  *)
(* at the same time: whoever is onboarded has a completed request, and     *)
(* whoever asked outside the widget was ready for it.  PeopleAlone, on top *)
(* of it, is about rows that one handler at a time works on: what a        *)
(* handler read of its row is still so when it writes.                     *)
(***************************************************************************)
EXTENDS Onboarding, TLAPS

\* A row that createOnboardingRequest accepts: linked, with a real address.
Ready(u) == linked[u] # NoOpenId /\ email[u] \in Emails

\* What a handler knows where it is suspended.  Its row has been inserted, and
\* once createOnboardingRequest found the row ready it stays so.
HandlerInformed(p) ==
    /\ pc[p] \notin {"idle", "signup_create", "tiktok_email", "tiktok_create"} =>
          held[p].user \in Users /\ Row(held[p].user)
    /\ pc[p] \in {"signup_create", "signup_code", "profile_find", "profile_save"} =>
          held[p].email \in Emails
    /\ pc[p] \in {"link_find", "link_update", "tiktok_email", "tiktok_create",
                  "tiktok_update"} => held[p].open \in OpenIds
    /\ pc[p] \in {"verify_compare", "verify_save"} => held[p].code \in Codes
    /\ pc[p] \in {"request_find", "request_create"} => Ready(held[p].user)

\* Only users of TikTok have a placeholder for an address.
PlaceholdersByTikTok == \A u \in Users : email[u] \in OpenIds => u \in byTikTok

\* The inductive invariant.
PeopleSound ==
    PeopleInv /\ PlaceholdersByTikTok /\ \A p \in Procs : HandlerInformed(p)

-----------------------------------------------------------------------------
(* A step as the other handlers see it *)

\* Rows are not removed, and what is ready stays ready.
UsersKept ==
    \A u \in Users : (Row(u) => Row(u)') /\ (Ready(u) => Ready(u)')

\* What the other handlers know stays true, and of the invariant only what the
\* step itself writes is left to show.
LEMMA OthersInformed ==
    ASSUME PeopleSound, NEW p \in Procs, NEW h, NEW label, Hold(p, h, label),
           UsersKept, NEW q \in Procs, q # p
    PROVE  HandlerInformed(q)'
  <1>1. pc'[q] = pc[q] /\ held'[q] = held[q]
    BY DEF PeopleSound, PeopleInv, PeopleTypeOK, AuthTypeOK, Hold, Goto
  <1>2. HandlerInformed(q)
    BY DEF PeopleSound
  <1> QED
    BY <1>1, <1>2 DEF HandlerInformed, UsersKept, Ready

\* A step of AuthService or of updateProfile.
LEMMA AccountStepSound ==
    ASSUME PeopleSound, NEW p \in Procs, NEW h \in Holdings,
           NEW label \in AuthLabels \cup {"idle"}, Hold(p, h, label),
           pc[p] \in AuthLabels \cup {"idle"},
           calls' \in 0 .. MaxCalls, UNCHANGED onboardingState,
           AuthTablesOK', PlaceholdersByTikTok', onboarded' \subseteq onboarded,
           UsersKept, HandlerInformed(p)'
    PROVE  PeopleSound'
  <1> USE DEF onboardingState
  <1>1. \A q \in Procs : HandlerInformed(q)'
    BY OthersInformed
  <1>2. /\ pc' = [pc EXCEPT ![p] = label] /\ held' = [held EXCEPT ![p] = h]
        /\ pc \in [Procs -> AuthLabels \cup OnboardingLabels \cup {"idle"}]
        /\ held \in [Procs -> Holdings]
    BY DEF Hold, Goto, PeopleSound, PeopleInv, PeopleTypeOK, AuthTypeOK
  <1>3. pc[p] # "complete_commit" /\ label # "complete_commit"
    BY DEF AuthLabels
  <1>4. PeopleTypeOK'
    <2>1. \A q \in Procs :
             /\ pc'[q] = "complete_commit" <=> pc[q] = "complete_commit"
             /\ pc'[q] = "complete_commit" => held'[q] = held[q]
      BY <1>2, <1>3
    <2>2. /\ pc' \in [Procs -> AuthLabels \cup OnboardingLabels \cup {"idle"}]
          /\ held' \in [Procs -> Holdings]
      BY <1>2
    <2> QED
      BY <2>1, <2>2 DEF PeopleSound, PeopleInv, PeopleTypeOK, AuthTypeOK
  <1>5. OnboardedHasRequest'
    BY DEF PeopleSound, PeopleInv, OnboardedHasRequest, RequestsOf
  <1>6. AskedWhenReady'
    <2> SUFFICES ASSUME NEW r \in asked
                 PROVE  Ready(reqUser[r])'
      BY DEF AskedWhenReady, Ready
    <2>1. Ready(reqUser[r])
      BY DEF PeopleSound, PeopleInv, AskedWhenReady, Ready
    <2>2. reqUser[r] \in Users
      BY DEF PeopleSound, PeopleInv, PeopleTypeOK
    <2> QED
      BY <2>1, <2>2 DEF UsersKept, Ready
  <1> QED
    BY <1>1, <1>4, <1>5, <1>6 DEF PeopleSound, PeopleInv

-----------------------------------------------------------------------------
(* AuthService, updateProfile, suspendUser and unsuspendUser *)

\* What the proofs of the steps start from.
LEMMA Known ==
    ASSUME PeopleSound
    PROVE  /\ AuthTablesOK /\ PlaceholdersByTikTok
           /\ pc \in [Procs -> AuthLabels \cup OnboardingLabels \cup {"idle"}]
           /\ held \in [Procs -> Holdings] /\ NothingHeld \in Holdings
           /\ calls \in 0 .. MaxCalls
  BY DEF PeopleSound, PeopleInv, PeopleTypeOK, AuthTypeOK, NothingHeld, Holdings

\* A request reads and checks; only a sign-in changes something, the tokens.
LEMMA AccountRequestSound ==
    ASSUME PeopleSound, NEW p \in Procs, Arrives, UNCHANGED onboardingState,
           AuthRequest(p) \/ SuspensionRequest(p)
    PROVE  PeopleSound'
  <1>1. calls' \in 0 .. MaxCalls
    BY Known, CallsAssumption DEF Arrives
  <1>2. pc[p] = "idle"
    BY DEF AuthRequest, SuspensionRequest, SignUp, ResendVerificationCode, VerifyEmail,
           ReadUnverified, UpdateEmail, LinkTikTok, TikTokSignIn, SuspendUser,
           UnsuspendUser, Idle
  <1>3. ASSUME UNCHANGED <<usersTable, codeTo, provedTo>>,
               NEW h \in Holdings, NEW label \in AuthLabels \cup {"idle"}, Hold(p, h, label),
               tokens' \subseteq {u \in Users : Row(u)},
               /\ label \notin {"idle", "signup_create", "tiktok_email", "tiktok_create"} =>
                     h.user \in Users /\ Row(h.user)
               /\ label \in {"signup_create", "signup_code", "profile_find", "profile_save"} =>
                     h.email \in Emails
               /\ label \in {"link_find", "link_update", "tiktok_email", "tiktok_create",
                             "tiktok_update"} => h.open \in OpenIds
               /\ label \in {"verify_compare", "verify_save"} => h.code \in Codes
        PROVE  PeopleSound'
    <2>1. AuthTablesOK' /\ PlaceholdersByTikTok' /\ UsersKept /\ onboarded' \subseteq onboarded
      BY <1>3, Known DEF AuthTablesOK, PlaceholdersByTikTok, UsersKept, Row, Ready, usersTable
    <2>2. pc'[p] = label /\ held'[p] = h
      BY <1>3, Known DEF Hold, Goto
    <2>3. HandlerInformed(p)'
      BY <1>3, <2>2 DEF HandlerInformed, Row, usersTable, AuthLabels
    <2> QED
      BY <1>1, <1>2, <1>3, <2>1, <2>3, AccountStepSound
  <1> DEFINE kept == UNCHANGED <<usersTable, tokens, codeTo, provedTo>>
  <1>4. tokens \subseteq {u \in Users : Row(u)}
    BY Known DEF AuthTablesOK
  <1>5. ASSUME NEW e \in Emails, SignUp(p, e)
        PROVE  PeopleSound'
    <2> DEFINE h == [NothingHeld EXCEPT !.email = e]
    <2>1. h \in Holdings /\ h.email = e
      BY DEF NothingHeld, Holdings
    <2> QED
      BY <1>3, <1>4, <1>5, <2>1 DEF SignUp, AuthLabels
  <1>6. ASSUME NEW e \in Emails, NEW c \in Codes \cup {NoCode}, NEW label,
               label \in {"verify_compare", "resend_update"},
               label = "verify_compare" => c \in Codes, ReadUnverified(p, e, c, label)
        PROVE  PeopleSound'
    <2>1. PICK u \in RowsWith(e) \ verified :
             Hold(p, [NothingHeld EXCEPT !.user = u, !.code = c, !.seenCode = emailCode[u]],
                  label)
      BY <1>6 DEF ReadUnverified
    <2> DEFINE h == [NothingHeld EXCEPT !.user = u, !.code = c, !.seenCode = emailCode[u]]
    <2>2. u \in Users /\ Row(u) /\ emailCode[u] \in Codes \cup {NoCode}
      BY Known, AuthAssumption DEF RowsWith, Row, AuthTablesOK
    <2>3. h \in Holdings /\ h.user = u /\ h.code = c
      BY <2>2 DEF NothingHeld, Holdings
    <2> QED
      BY <1>3, <1>4, <1>6, <2>1, <2>2, <2>3 DEF ReadUnverified, AuthLabels
  <1>7. ASSUME NEW u \in Users, NEW e \in Emails, UpdateEmail(p, u, e)
        PROVE  PeopleSound'
    <2> DEFINE h == [NothingHeld EXCEPT !.user = u, !.email = e]
    <2>1. h \in Holdings /\ h.email = e /\ h.user = u
      BY DEF NothingHeld, Holdings
    <2> QED
      BY <1>3, <1>4, <1>7, <2>1 DEF UpdateEmail, Signed, AuthLabels
  <1>8. ASSUME NEW u \in Users, NEW o \in OpenIds, LinkTikTok(p, u, o)
        PROVE  PeopleSound'
    <2> DEFINE h == [NothingHeld EXCEPT !.user = u, !.open = o, !.seenOpen = linked[u]]
    <2>1. linked[u] \in OpenIds \cup {NoOpenId}
      BY Known DEF AuthTablesOK
    <2>2. h \in Holdings /\ h.open = o /\ h.user = u
      BY <2>1 DEF NothingHeld, Holdings
    <2> QED
      BY <1>3, <1>4, <1>8, <2>2 DEF LinkTikTok, AuthLabels
  <1>9. ASSUME NEW o \in OpenIds, TikTokSignIn(p, o)
        PROVE  PeopleSound'
    <2> DEFINE h == [NothingHeld EXCEPT !.open = o]
    <2>1. h \in Holdings /\ h.open = o
      BY DEF NothingHeld, Holdings
    <2>2. CASE LinkedTo(o) = {}
      BY <1>3, <1>4, <1>9, <2>1, <2>2 DEF TikTokSignIn, AuthLabels
    <2>3. CASE LinkedTo(o) # {}
      <3>1. LinkedTo(o) \subseteq {u \in Users : Row(u)}
        BY Known, AuthAssumption DEF LinkedTo, AuthTablesOK, Row
      <3> QED
        BY <1>3, <1>4, <1>9, <2>3, <3>1, Known DEF TikTokSignIn, AuthDone
    <2> QED
      BY <2>2, <2>3
  <1>10. ASSUME NEW u \in Users, SuspendUser(p, u) \/ UnsuspendUser(p, u)
         PROVE  PeopleSound'
    <2> DEFINE h == [NothingHeld EXCEPT !.user = u]
    <2>1. h \in Holdings /\ h.user = u
      BY DEF NothingHeld, Holdings
    <2>2. u \in suspended => Row(u)
      BY Known DEF AuthTablesOK
    <2> QED
      BY <1>3, <1>4, <1>10, <2>1, <2>2 DEF SuspendUser, UnsuspendUser, AuthLabels
  <1>11. CASE AuthRequest(p)
    BY <1>5, <1>6, <1>7, <1>8, <1>9, <1>11
       DEF AuthRequest, ResendVerificationCode, VerifyEmail
  <1>12. CASE SuspensionRequest(p)
    BY <1>10, <1>12 DEF SuspensionRequest
  <1> QED
    BY <1>11, <1>12

\* The handlers of AuthService, step by step.
LEMMA AccountHandlerSound ==
    ASSUME PeopleSound, NEW p \in Procs, AuthStep(p), UNCHANGED <<calls, onboardingState>>
    PROVE  PeopleSound'
  <1> DEFINE u == held[p].user
  <1>1. HandlerInformed(p) /\ held[p] \in Holdings /\ calls' \in 0 .. MaxCalls
    BY Known DEF PeopleSound
  <1>2. pc[p] \in AuthLabels
    BY DEF AuthStep, CreateUser, SignupUpdate, CompareCode, SaveVerified, ResendUpdate,
           FindEmailTaken, SaveEmail, FindLinked, UpdateLink, FindPlaceholder, TikTokUpdate,
           TikTokCreate, SaveSuspended, SaveUnsuspended, AuthHandlerFails, AuthLabels
  <1>3. NothingHeld \in Holdings
    BY Known
  \* A handler that is done knows nothing.
  <1>4. ASSUME AuthDone(p), AuthTablesOK', PlaceholdersByTikTok', UsersKept,
               onboarded' \subseteq onboarded
        PROVE  PeopleSound'
    <2>1. pc'[p] = "idle"
      BY <1>4, Known DEF AuthDone, Hold, Goto
    <2>2. HandlerInformed(p)'
      BY <2>1 DEF HandlerInformed
    <2> QED
      BY <1>1, <1>2, <1>3, <1>4, <2>2, AccountStepSound DEF AuthDone
  \* A handler that goes on without writing.
  <1>5. ASSUME UNCHANGED <<usersTable, tokens, codeTo, provedTo>>,
               NEW h \in Holdings, NEW label \in AuthLabels, Hold(p, h, label),
               label \notin {"signup_create", "tiktok_email", "tiktok_create"} =>
                  h.user \in Users /\ Row(h.user),
               h.email = held[p].email,
               label \in {"signup_create", "signup_code", "profile_find", "profile_save"} =>
                  h.email \in Emails,
               label \in {"link_find", "link_update", "tiktok_email", "tiktok_create",
                          "tiktok_update"} => h.open \in OpenIds,
               label \in {"verify_compare", "verify_save"} => h.code \in Codes
        PROVE  PeopleSound'
    <2>1. AuthTablesOK' /\ PlaceholdersByTikTok' /\ UsersKept /\ onboarded' \subseteq onboarded
      BY <1>5, Known DEF AuthTablesOK, PlaceholdersByTikTok, UsersKept, Row, Ready, usersTable
    <2>2. pc'[p] = label /\ held'[p] = h
      BY <1>5, Known DEF Hold, Goto
    <2>3. HandlerInformed(p)'
      BY <1>5, <2>2 DEF HandlerInformed, Row, usersTable, AuthLabels
    <2> QED
      BY <1>1, <1>2, <1>5, <2>1, <2>3, AccountStepSound
  <1>6. CASE CreateUser(p)
    <2>1. held[p].email \in Emails
      BY <1>1, <1>6 DEF CreateUser, HandlerInformed
    <2>2. PICK v \in Users :
             /\ ~Row(v) /\ email' = [email EXCEPT ![v] = held[p].email]
             /\ Hold(p, [held[p] EXCEPT !.user = v], "signup_code")
      BY <1>6 DEF CreateUser
    <2> DEFINE h == [held[p] EXCEPT !.user = v]
    <2>3. h \in Holdings /\ h.user = v /\ h.email = held[p].email
      BY <1>1 DEF Holdings
    <2>4. AuthTablesOK' /\ UsersKept /\ PlaceholdersByTikTok' /\ Row(v)'
          /\ onboarded' \subseteq onboarded
      BY <1>6, <2>1, <2>2, Known, AuthAssumption
         DEF CreateUser, AuthTablesOK, Addresses, UsersKept, Row, Ready, PlaceholdersByTikTok
    <2>5. pc'[p] = "signup_code" /\ held'[p] = h
      BY <2>2, Known DEF Hold, Goto
    <2>6. HandlerInformed(p)'
      BY <2>1, <2>3, <2>4, <2>5 DEF HandlerInformed
    <2>7. "signup_code" \in AuthLabels
      BY DEF AuthLabels
    <2> QED
      BY <1>1, <1>2, <2>2, <2>3, <2>4, <2>6, <2>7, AccountStepSound
  <1>7. CASE SignupUpdate(p) \/ ResendUpdate(p)
    <2>1. u \in Users /\ Row(u)
      BY <1>1, <1>7 DEF SignupUpdate, ResendUpdate, HandlerInformed
    <2>2. \E e \in Addresses \cup {NoEmail} : IssueCode(u, e)
      <3>1. CASE SignupUpdate(p)
        BY <1>1, <3>1 DEF SignupUpdate, Holdings, Addresses
      <3>2. CASE ResendUpdate(p)
        BY <2>1, <3>2, Known DEF ResendUpdate, AuthTablesOK
      <3> QED
        BY <1>7, <3>1, <3>2
    <2>3. emailCode' \in [Users -> Codes \cup {NoCode}]
          /\ codeTo' \in [Codes -> Addresses \cup {NoEmail}]
      BY <2>1, <2>2, Known DEF IssueCode, AuthTablesOK
    <2>4. /\ UNCHANGED <<email, linked, byTikTok, tokens, provedTo>>
          /\ verified' \subseteq verified /\ suspended' \subseteq suspended
          /\ onboarded' \subseteq onboarded /\ AuthDone(p)
      BY <1>7 DEF SignupUpdate, ResendUpdate
    <2>5. AuthTablesOK' /\ UsersKept /\ PlaceholdersByTikTok'
      BY <2>3, <2>4, Known DEF AuthTablesOK, UsersKept, Row, Ready, PlaceholdersByTikTok
    <2> QED
      BY <1>4, <2>4, <2>5
  <1>8. CASE CompareCode(p) \/ FindEmailTaken(p) \/ FindLinked(p)
    BY <1>1, <1>5, <1>8 DEF CompareCode, FindEmailTaken, FindLinked, HandlerInformed, AuthLabels
  <1>9. CASE SaveVerified(p)
    <2>1. u \in Users /\ Row(u)
      BY <1>1, <1>9 DEF SaveVerified, HandlerInformed
    <2>2. codeTo[held[p].code] \in Addresses \cup {NoEmail}
      BY <1>1, <1>9, Known DEF SaveVerified, HandlerInformed, AuthTablesOK
    <2>3. provedTo' \in [Users -> Addresses \cup {NoEmail}]
          /\ emailCode' \in [Users -> Codes \cup {NoCode}]
      BY <1>9, <2>1, <2>2, Known DEF SaveVerified, AuthTablesOK
    <2>4. AuthTablesOK' /\ UsersKept /\ PlaceholdersByTikTok' /\ onboarded' \subseteq onboarded
      BY <1>9, <2>1, <2>3, Known
         DEF SaveVerified, AuthTablesOK, UsersKept, Row, Ready, PlaceholdersByTikTok
    <2> QED
      BY <1>4, <1>9, <2>4 DEF SaveVerified
  <1>10. CASE SaveEmail(p)
    <2>1. u \in Users /\ Row(u) /\ held[p].email \in Emails
      BY <1>1, <1>10 DEF SaveEmail, HandlerInformed
    <2>2. AuthTablesOK' /\ UsersKept /\ PlaceholdersByTikTok' /\ onboarded' \subseteq onboarded
      BY <1>10, <2>1, Known, AuthAssumption
         DEF SaveEmail, AuthTablesOK, Addresses, UsersKept, Row, Ready, PlaceholdersByTikTok
    <2> QED
      BY <1>4, <1>10, <2>2 DEF SaveEmail
  <1>11. CASE UpdateLink(p) \/ TikTokUpdate(p)
    <2>1. u \in Users /\ Row(u) /\ held[p].open \in OpenIds
      BY <1>1, <1>11 DEF UpdateLink, TikTokUpdate, HandlerInformed
    <2>2. AuthTablesOK' /\ UsersKept /\ PlaceholdersByTikTok' /\ onboarded' \subseteq onboarded
      BY <1>11, <2>1, Known, AuthAssumption
         DEF UpdateLink, TikTokUpdate, WriteOpenId, AuthTablesOK, UsersKept, Row, Ready,
             PlaceholdersByTikTok
    <2> QED
      BY <1>4, <1>11, <2>2 DEF UpdateLink, TikTokUpdate
  <1>12. CASE FindPlaceholder(p)
    <2>1. held[p].open \in OpenIds
      BY <1>1, <1>12 DEF FindPlaceholder, HandlerInformed
    <2>2. CASE RowsWith(held[p].open) = {}
      BY <1>1, <1>5, <1>12, <2>1, <2>2 DEF FindPlaceholder, AuthLabels
    <2>3. CASE RowsWith(held[p].open) # {}
      <3>1. PICK v \in RowsWith(held[p].open) :
               Hold(p, [held[p] EXCEPT !.user = v, !.seenOpen = linked[v]], "tiktok_update")
        BY <1>12, <2>3 DEF FindPlaceholder
      <3> DEFINE h == [held[p] EXCEPT !.user = v, !.seenOpen = linked[v]]
      <3>2. v \in Users /\ Row(v) /\ linked[v] \in OpenIds \cup {NoOpenId}
        BY <2>1, Known, AuthAssumption DEF RowsWith, Row, AuthTablesOK
      <3>3. h \in Holdings /\ h.user = v /\ h.email = held[p].email /\ h.open = held[p].open
        BY <1>1, <3>2 DEF Holdings
      <3> QED
        BY <1>5, <1>12, <2>1, <3>1, <3>2, <3>3 DEF FindPlaceholder, AuthLabels
    <2> QED
      BY <2>2, <2>3
  <1>13. CASE TikTokCreate(p)
    <2>1. held[p].open \in OpenIds
      BY <1>1, <1>13 DEF TikTokCreate, HandlerInformed
    <2>2. PICK v \in Users :
             /\ ~Row(v)
             /\ email' = [email EXCEPT ![v] = held[p].open]
             /\ linked' = [linked EXCEPT ![v] = held[p].open]
             /\ verified' = verified \cup {v} /\ byTikTok' = byTikTok \cup {v}
             /\ tokens' = tokens \cup {v}
      BY <1>13 DEF TikTokCreate
    <2>3. AuthTablesOK' /\ UsersKept /\ PlaceholdersByTikTok' /\ onboarded' \subseteq onboarded
      BY <1>13, <2>1, <2>2, Known, AuthAssumption
         DEF TikTokCreate, AuthTablesOK, Addresses, UsersKept, Row, Ready, PlaceholdersByTikTok
    <2> QED
      BY <1>4, <1>13, <2>3 DEF TikTokCreate
  <1>14. CASE SaveSuspended(p) \/ SaveUnsuspended(p)
    <2>1. u \in Users /\ Row(u)
      BY <1>1, <1>14 DEF SaveSuspended, SaveUnsuspended, HandlerInformed
    <2>2. AuthTablesOK' /\ UsersKept /\ PlaceholdersByTikTok' /\ onboarded' \subseteq onboarded
      BY <1>14, <2>1, Known
         DEF SaveSuspended, SaveUnsuspended, AuthTablesOK, UsersKept, Row, Ready,
             PlaceholdersByTikTok
    <2> QED
      BY <1>4, <1>14, <2>2 DEF SaveSuspended, SaveUnsuspended
  <1>15. CASE AuthHandlerFails(p)
    <2>1. AuthTablesOK' /\ UsersKept /\ PlaceholdersByTikTok' /\ onboarded' \subseteq onboarded
      BY <1>15, Known
         DEF AuthHandlerFails, AuthTablesOK, UsersKept, Row, Ready, PlaceholdersByTikTok,
             usersTable
    <2> QED
      BY <1>4, <1>15, <2>1 DEF AuthHandlerFails
  <1> QED
    BY <1>6, <1>7, <1>8, <1>9, <1>10, <1>11, <1>12, <1>13, <1>14, <1>15 DEF AuthStep

-----------------------------------------------------------------------------
(* OnboardingService, the widget and completeOnboarding *)

\* A handler of theirs: the accounts keep what they had, and the
\* requests only grow and are completed.
LEMMA RequestStepSound ==
    ASSUME PeopleSound, NEW p \in Procs, NEW h \in Holdings,
           NEW label \in OnboardingLabels \cup {"idle"}, Hold(p, h, label),
           calls' \in 0 .. MaxCalls,
           UNCHANGED <<email, verified, emailCode, suspended, linked, byTikTok,
                       tokens, codeTo, provedTo>>,
           label # "idle" => h.user \in Users /\ Row(h.user),
           label \in {"request_find", "request_create"} => Ready(h.user),
           onboarded' \subseteq {u \in Users : Row(u)},
           OnboardedHasRequest', AskedWhenReady',
           reqStatus' \in [Requests -> {"none", "pending", "completed"}],
           reqUser' \in [Requests -> Users \cup {NoUser}],
           asked' \subseteq Requests,
           \A r \in Requests :
              /\ reqStatus'[r] = "none" <=> reqUser'[r] = NoUser
              /\ reqUser[r] # NoUser => reqUser'[r] = reqUser[r],
           \A r \in asked' : reqUser'[r] \in Users,
           reqHeld' \in [Procs -> Requests \cup {NoRequest}],
           \A q \in Procs \ {p} : reqHeld'[q] = reqHeld[q],
           label = "complete_commit" <=> reqHeld'[p] # NoRequest,
           label = "complete_commit" => reqUser'[reqHeld'[p]] = h.user
    PROVE  PeopleSound'
  <1>1. /\ AuthTablesOK' /\ UsersKept /\ PlaceholdersByTikTok'
    BY Known DEF AuthTablesOK, UsersKept, PlaceholdersByTikTok, Row, Ready
  <1>2. pc'[p] = label /\ held'[p] = h
    BY Known DEF Hold, Goto
  <1>3. HandlerInformed(p)'
    BY <1>2 DEF HandlerInformed, Row, Ready, OnboardingLabels
  <1>4. \A q \in Procs : HandlerInformed(q)'
    BY <1>1, <1>3, OthersInformed
  <1>5. PeopleTypeOK'
    <2>1. /\ pc' \in [Procs -> AuthLabels \cup OnboardingLabels \cup {"idle"}]
          /\ held' \in [Procs -> Holdings]
      BY Known DEF Hold, Goto
    <2>3. ASSUME NEW q \in Procs
          PROVE  /\ pc'[q] = "complete_commit" <=> reqHeld'[q] # NoRequest
                 /\ pc'[q] = "complete_commit" => reqUser'[reqHeld'[q]] = held'[q].user
      <3>1. CASE q = p
        BY <1>2, <3>1 DEF PeopleSound, PeopleInv, PeopleTypeOK
      <3>2. CASE q # p
        <4>1. pc'[q] = pc[q] /\ held'[q] = held[q] /\ reqHeld'[q] = reqHeld[q]
          BY <3>2, Known DEF Hold, Goto, PeopleSound, PeopleInv, PeopleTypeOK
        <4>2. /\ pc[q] = "complete_commit" <=> reqHeld[q] # NoRequest
              /\ pc[q] = "complete_commit" => reqUser[reqHeld[q]] = held[q].user
              /\ reqHeld[q] \in Requests \cup {NoRequest}
          BY DEF PeopleSound, PeopleInv, PeopleTypeOK
        <4>3. pc[q] = "complete_commit" => held[q].user \in Users
          BY DEF PeopleSound, HandlerInformed
        <4> QED
          BY <4>1, <4>2, <4>3, AuthAssumption
      <3> QED
        BY <3>1, <3>2
    <2> QED
      BY <1>1, <2>1, <2>3 DEF PeopleTypeOK, AuthTypeOK
  <1> QED
    BY <1>1, <1>4, <1>5 DEF PeopleSound, PeopleInv

\* A row of onboarding_requests is inserted.
LEMMA InsertRequestSound ==
    ASSUME PeopleSound, NEW r \in Requests, NEW u \in Users, InsertRequest(r, u),
           UNCHANGED <<email, linked, onboarded>>
    PROVE  /\ OnboardedHasRequest'
           /\ reqStatus' \in [Requests -> {"none", "pending", "completed"}]
           /\ reqUser' \in [Requests -> Users \cup {NoUser}]
           /\ reqUser'[r] = u /\ r \notin asked
           /\ \A s \in Requests :
                 /\ reqStatus'[s] = "none" <=> reqUser'[s] = NoUser
                 /\ reqUser[s] # NoUser => reqUser'[s] = reqUser[s]
           /\ \A s \in asked : reqUser'[s] = reqUser[s]
  <1>1. /\ reqStatus \in [Requests -> {"none", "pending", "completed"}]
        /\ reqUser \in [Requests -> Users \cup {NoUser}]
        /\ \A s \in Requests : reqStatus[s] = "none" <=> reqUser[s] = NoUser
        /\ asked \subseteq Requests /\ \A s \in asked : reqUser[s] \in Users
    BY DEF PeopleSound, PeopleInv, PeopleTypeOK
  <1>2. /\ reqStatus[r] = "none" /\ reqUser[r] = NoUser
        /\ reqStatus' = [reqStatus EXCEPT ![r] = "pending"]
        /\ reqUser' = [reqUser EXCEPT ![r] = u]
    BY <1>1 DEF InsertRequest
  <1>3. OnboardedHasRequest'
    <2> SUFFICES ASSUME NEW v \in onboarded
                 PROVE  \E s \in Requests : reqUser'[s] = v /\ reqStatus'[s] = "completed"
      BY DEF OnboardedHasRequest, RequestsOf
    <2>1. PICK s \in Requests : reqUser[s] = v /\ reqStatus[s] = "completed"
      BY DEF PeopleSound, PeopleInv, OnboardedHasRequest, RequestsOf
    <2> QED
      BY <1>1, <1>2, <2>1
  <1> QED
    BY <1>1, <1>2, <1>3, AuthAssumption

\* createOnboardingRequest, the widget and completeOnboarding begin.
LEMMA OnboardingRequestSound ==
    ASSUME PeopleSound, NEW p \in Procs, NEW u \in Users, Arrives,
           \/ CreateOnboardingRequest(p, u) \/ CompleteWidgetOnboarding(p, u)
           \/ CompleteOnboarding(p, u)
    PROVE  PeopleSound'
  <1> DEFINE h == [NothingHeld EXCEPT !.user = u]
  <1>1. calls' \in 0 .. MaxCalls
    BY Known, CallsAssumption DEF Arrives
  <1>2. h \in Holdings /\ h.user = u
    BY DEF NothingHeld, Holdings
  <1>3. /\ reqHeld' \in [Procs -> Requests \cup {NoRequest}]
        /\ reqHeld' = reqHeld /\ reqHeld'[p] = NoRequest
    BY DEF PeopleSound, PeopleInv, PeopleTypeOK, CreateOnboardingRequest,
           CompleteWidgetOnboarding, CompleteOnboarding, onboardingState, Idle
  <1>4. /\ UNCHANGED <<email, verified, emailCode, suspended, linked, byTikTok, onboarded,
                       tokens, codeTo, provedTo, reqStatus, reqUser, asked>>
    BY DEF CreateOnboardingRequest, CompleteWidgetOnboarding, CompleteOnboarding,
           usersTable, onboardingState
  <1>5. Row(u) /\ (CreateOnboardingRequest(p, u) => Ready(u))
    BY Known DEF AuthTablesOK, CreateOnboardingRequest, CompleteWidgetOnboarding,
                 CompleteOnboarding, Signed, Row, Addresses, Ready, PlaceholdersByTikTok
  <1>6. /\ onboarded' \subseteq {v \in Users : Row(v)}
        /\ OnboardedHasRequest' /\ AskedWhenReady'
    BY <1>4, Known DEF AuthTablesOK, PeopleSound, PeopleInv, OnboardedHasRequest, RequestsOf,
                       AskedWhenReady
  <1>7. /\ reqStatus' \in [Requests -> {"none", "pending", "completed"}]
        /\ reqUser' \in [Requests -> Users \cup {NoUser}] /\ asked' \subseteq Requests
        /\ \A r \in Requests : reqStatus'[r] = "none" <=> reqUser'[r] = NoUser
        /\ \A r \in asked' : reqUser'[r] \in Users
    BY <1>4 DEF PeopleSound, PeopleInv, PeopleTypeOK
  <1>8. \E label \in {"request_find", "widget_find", "complete_find"} :
           Hold(p, h, label) /\ (label = "request_find" => Ready(u))
    BY <1>5 DEF CreateOnboardingRequest, CompleteWidgetOnboarding, CompleteOnboarding
  <1> QED
    BY <1>1, <1>2, <1>3, <1>4, <1>5, <1>6, <1>7, <1>8, RequestStepSound DEF OnboardingLabels

\* Their handlers, step by step.
LEMMA OnboardingHandlerSound ==
    ASSUME PeopleSound, NEW p \in Procs, OnboardingStep(p), UNCHANGED calls
    PROVE  PeopleSound'
  <1> DEFINE u == held[p].user
  <1>1. pc[p] \in OnboardingLabels
    BY DEF OnboardingStep, FindPending, CreateRequest, FindPendingForWidget,
           CreateWidgetRequest, FindRequest, CreateMissingRequest, CommitOnboarding,
           OnboardingHandlerFails, OnboardingLabels
  <1>2. /\ u \in Users /\ Row(u) /\ held[p] \in Holdings /\ calls' \in 0 .. MaxCalls
        /\ pc[p] \in {"request_find", "request_create"} => Ready(u)
    BY <1>1, Known DEF PeopleSound, HandlerInformed, OnboardingLabels
  <1>3. /\ reqHeld \in [Procs -> Requests \cup {NoRequest}]
        /\ pc[p] # "complete_commit" => reqHeld[p] = NoRequest
        /\ pc[p] = "complete_commit" => reqHeld[p] \in Requests /\ reqUser[reqHeld[p]] = u
    BY DEF PeopleSound, PeopleInv, PeopleTypeOK
  <1>4. /\ reqStatus \in [Requests -> {"none", "pending", "completed"}]
        /\ reqUser \in [Requests -> Users \cup {NoUser}] /\ asked \subseteq Requests
        /\ \A r \in Requests : reqStatus[r] = "none" <=> reqUser[r] = NoUser
        /\ \A r \in asked : reqUser[r] \in Users
    BY DEF PeopleSound, PeopleInv, PeopleTypeOK
  <1>5. onboarded \subseteq {v \in Users : Row(v)}
    BY Known DEF AuthTablesOK
  <1>6. NothingHeld \in Holdings
    BY Known
  <1>7. ASSUME UNCHANGED <<email, linked, onboarded, reqStatus, reqUser, asked>>
        PROVE  OnboardedHasRequest' /\ AskedWhenReady'
    BY <1>7 DEF PeopleSound, PeopleInv, OnboardedHasRequest, RequestsOf, AskedWhenReady
  <1>8. CASE FindPending(p)
    BY <1>2, <1>3, <1>4, <1>5, <1>7, <1>8, RequestStepSound
       DEF FindPending, onboardingState, usersTable, OnboardingLabels
  <1>9. CASE OnboardingHandlerFails(p)
    <2>1. /\ Hold(p, NothingHeld, "idle")
          /\ reqHeld' \in [Procs -> Requests \cup {NoRequest}]
          /\ reqHeld'[p] = NoRequest /\ \A q \in Procs \ {p} : reqHeld'[q] = reqHeld[q]
          /\ UNCHANGED <<email, verified, emailCode, suspended, linked, byTikTok, onboarded,
                         tokens, codeTo, provedTo, reqStatus, reqUser, asked>>
      BY <1>3, <1>9 DEF OnboardingHandlerFails, AuthDone, usersTable
    <2>2. OnboardedHasRequest' /\ AskedWhenReady'
      BY <1>7, <2>1
    <2> QED
      BY <1>2, <1>4, <1>5, <1>6, <2>1, <2>2, RequestStepSound
  <1>10. CASE CreateRequest(p)
    <2>1. PICK r \in Requests : InsertRequest(r, u) /\ asked' = asked \cup {r}
      BY <1>10 DEF CreateRequest
    <2>2. /\ Hold(p, NothingHeld, "idle")
          /\ reqHeld' \in [Procs -> Requests \cup {NoRequest}]
          /\ reqHeld'[p] = NoRequest /\ \A q \in Procs \ {p} : reqHeld'[q] = reqHeld[q]
          /\ UNCHANGED <<email, verified, emailCode, suspended, linked, byTikTok, onboarded,
                         tokens, codeTo, provedTo>>
          /\ Ready(u)
      BY <1>2, <1>3, <1>10 DEF CreateRequest, AuthDone, usersTable
    <2>3. AskedWhenReady' /\ \A s \in asked' : reqUser'[s] \in Users
      BY <1>2, <1>4, <2>1, <2>2, InsertRequestSound
         DEF PeopleSound, PeopleInv, AskedWhenReady, Ready
    <2>4. /\ OnboardedHasRequest' /\ asked' \subseteq Requests
          /\ reqStatus' \in [Requests -> {"none", "pending", "completed"}]
          /\ reqUser' \in [Requests -> Users \cup {NoUser}]
          /\ \A s \in Requests :
                /\ reqStatus'[s] = "none" <=> reqUser'[s] = NoUser
                /\ reqUser[s] # NoUser => reqUser'[s] = reqUser[s]
      BY <1>2, <1>4, <2>1, <2>2, InsertRequestSound
    <2>5. onboarded' \subseteq {v \in Users : Row(v)}
      BY <1>5, <2>2
    <2> QED
      BY <1>2, <1>6, <2>2, <2>3, <2>4, <2>5, RequestStepSound
  <1>11. CASE FindRequest(p)
    <2>1. UNCHANGED <<email, verified, emailCode, suspended, linked, byTikTok, onboarded,
                      tokens, codeTo, provedTo, reqStatus, reqUser, asked>>
      BY <1>11 DEF FindRequest, usersTable
    <2>2. \/ HoldRequest(p, NoRequest, "complete_create")
          \/ \E r \in RequestsOf(u, "pending") : HoldRequest(p, r, "complete_commit")
      BY <1>11 DEF FindRequest
    <2>3. CASE HoldRequest(p, NoRequest, "complete_create")
      <3>1. /\ Hold(p, held[p], "complete_create")
            /\ reqHeld' \in [Procs -> Requests \cup {NoRequest}]
            /\ reqHeld'[p] = NoRequest /\ \A q \in Procs \ {p} : reqHeld'[q] = reqHeld[q]
            /\ OnboardedHasRequest' /\ AskedWhenReady'
        BY <1>3, <1>7, <2>1, <2>3 DEF HoldRequest
      <3> QED
        BY <1>2, <1>4, <1>5, <2>1, <3>1, RequestStepSound DEF OnboardingLabels
    <2>4. ASSUME NEW r \in RequestsOf(u, "pending"), HoldRequest(p, r, "complete_commit")
          PROVE  PeopleSound'
      <3>1. r \in Requests /\ r # NoRequest /\ reqUser'[r] = u
        BY <2>1, OnboardingAssumption DEF RequestsOf
      <3>2. /\ Hold(p, held[p], "complete_commit")
            /\ reqHeld' \in [Procs -> Requests \cup {NoRequest}]
            /\ reqHeld'[p] = r /\ \A q \in Procs \ {p} : reqHeld'[q] = reqHeld[q]
            /\ OnboardedHasRequest' /\ AskedWhenReady'
        BY <1>3, <1>7, <2>1, <2>4, <3>1 DEF HoldRequest
      <3> QED
        BY <1>2, <1>4, <1>5, <2>1, <3>1, <3>2, RequestStepSound DEF OnboardingLabels
    <2> QED
      BY <2>2, <2>3, <2>4
  <1>12. CASE CreateMissingRequest(p)
    <2>1. PICK r \in Requests : InsertRequest(r, u) /\ HoldRequest(p, r, "complete_commit")
      BY <1>12 DEF CreateMissingRequest
    <2>2. UNCHANGED <<email, verified, emailCode, suspended, linked, byTikTok, onboarded,
                      tokens, codeTo, provedTo, asked>>
      BY <1>12 DEF CreateMissingRequest, usersTable
    <2>3. AskedWhenReady' /\ \A s \in asked' : reqUser'[s] \in Users
      BY <1>2, <1>4, <2>1, <2>2, InsertRequestSound
         DEF PeopleSound, PeopleInv, AskedWhenReady
    <2>4. r # NoRequest /\ reqUser'[r] = u
      BY <1>2, <2>1, <2>2, InsertRequestSound, OnboardingAssumption
    <2>5. /\ OnboardedHasRequest' /\ asked' \subseteq Requests
          /\ reqStatus' \in [Requests -> {"none", "pending", "completed"}]
          /\ reqUser' \in [Requests -> Users \cup {NoUser}]
          /\ \A s \in Requests :
                /\ reqStatus'[s] = "none" <=> reqUser'[s] = NoUser
                /\ reqUser[s] # NoUser => reqUser'[s] = reqUser[s]
      BY <1>2, <1>4, <2>1, <2>2, InsertRequestSound
    <2>6. /\ Hold(p, held[p], "complete_commit")
          /\ reqHeld' \in [Procs -> Requests \cup {NoRequest}]
          /\ reqHeld'[p] = r /\ \A q \in Procs \ {p} : reqHeld'[q] = reqHeld[q]
      BY <1>3, <2>1 DEF HoldRequest
    <2> QED
      BY <1>2, <1>5, <2>2, <2>3, <2>4, <2>5, <2>6, RequestStepSound DEF OnboardingLabels
  <1>13. CASE CommitOnboarding(p)
    <2> DEFINE r == reqHeld[p]
    <2>1. r \in Requests /\ reqUser[r] = u
      BY <1>3, <1>13 DEF CommitOnboarding
    <2>2. /\ Hold(p, NothingHeld, "idle")
          /\ reqHeld' \in [Procs -> Requests \cup {NoRequest}]
          /\ reqHeld'[p] = NoRequest /\ \A q \in Procs \ {p} : reqHeld'[q] = reqHeld[q]
          /\ UNCHANGED <<email, verified, emailCode, suspended, linked, byTikTok,
                         tokens, codeTo, provedTo, reqUser, asked>>
          /\ onboarded' = onboarded \cup {u}
          /\ reqStatus' = [reqStatus EXCEPT ![r] = "completed"]
      BY <1>3, <1>13 DEF CommitOnboarding, AuthDone
    <2>3. OnboardedHasRequest'
      <3> SUFFICES ASSUME NEW v \in onboarded \cup {u}
                   PROVE  \E s \in Requests : reqUser[s] = v /\ reqStatus'[s] = "completed"
        BY <2>2 DEF OnboardedHasRequest, RequestsOf
      <3>1. CASE v = u
        BY <1>4, <2>1, <2>2, <3>1
      <3>2. CASE v \in onboarded
        <4>1. PICK s \in Requests : reqUser[s] = v /\ reqStatus[s] = "completed"
          BY <3>2 DEF PeopleSound, PeopleInv, OnboardedHasRequest, RequestsOf
        <4> QED
          BY <1>4, <2>2, <4>1
      <3> QED
        BY <3>1, <3>2
    <2>4. AskedWhenReady'
      BY <2>2 DEF PeopleSound, PeopleInv, AskedWhenReady
    <2>5. /\ reqStatus' \in [Requests -> {"none", "pending", "completed"}]
          /\ \A s \in Requests : reqStatus'[s] = "none" <=> reqUser'[s] = NoUser
      BY <1>2, <1>4, <2>1, <2>2, AuthAssumption
    <2>6. onboarded' \subseteq {v \in Users : Row(v)}
      BY <1>2, <1>5, <2>2
    <2>7. asked' \subseteq Requests /\ \A s \in asked' : reqUser'[s] \in Users
      BY <1>4, <2>2
    <2>8. reqUser' \in [Requests -> Users \cup {NoUser}]
      BY <1>4, <2>2
    <2> QED
      BY <1>2, <1>6, <2>2, <2>3, <2>4, <2>5, <2>6, <2>7, <2>8, RequestStepSound
  <1>14. CASE FindPendingForWidget(p)
    <2>1. /\ UNCHANGED <<email, verified, emailCode, suspended, linked, byTikTok, onboarded,
                         tokens, codeTo, provedTo, reqStatus, reqUser, asked, reqHeld>>
          /\ reqHeld[p] = NoRequest
      BY <1>3, <1>14 DEF FindPendingForWidget, onboardingState, usersTable
    <2>2. Hold(p, held[p], "widget_create") \/ Hold(p, NothingHeld, "idle")
      BY <1>14 DEF FindPendingForWidget, AuthDone
    <2>3. OnboardedHasRequest' /\ AskedWhenReady'
      BY <1>7, <2>1
    <2> QED
      BY <1>2, <1>3, <1>4, <1>5, <1>6, <2>1, <2>2, <2>3, RequestStepSound
         DEF OnboardingLabels
  <1>15. CASE CreateWidgetRequest(p)
    <2>1. PICK r \in Requests : InsertRequest(r, u)
      BY <1>15 DEF CreateWidgetRequest
    <2>2. /\ Hold(p, NothingHeld, "idle")
          /\ reqHeld' = reqHeld /\ reqHeld[p] = NoRequest
          /\ UNCHANGED <<email, verified, emailCode, suspended, linked, byTikTok, onboarded,
                         tokens, codeTo, provedTo, asked>>
      BY <1>3, <1>15 DEF CreateWidgetRequest, AuthDone, usersTable
    <2>3. AskedWhenReady' /\ \A s \in asked' : reqUser'[s] \in Users
      BY <1>2, <1>4, <2>1, <2>2, InsertRequestSound
         DEF PeopleSound, PeopleInv, AskedWhenReady
    <2>4. /\ OnboardedHasRequest' /\ asked' \subseteq Requests
          /\ reqStatus' \in [Requests -> {"none", "pending", "completed"}]
          /\ reqUser' \in [Requests -> Users \cup {NoUser}]
          /\ \A s \in Requests :
                /\ reqStatus'[s] = "none" <=> reqUser'[s] = NoUser
                /\ reqUser[s] # NoUser => reqUser'[s] = reqUser[s]
      BY <1>2, <1>4, <2>1, <2>2, InsertRequestSound
    <2>5. onboarded' \subseteq {v \in Users : Row(v)}
      BY <1>5, <2>2
    <2> QED
      BY <1>2, <1>3, <1>6, <2>2, <2>3, <2>4, <2>5, RequestStepSound
  <1> QED
    BY <1>8, <1>9, <1>10, <1>11, <1>12, <1>13, <1>14, <1>15 DEF OnboardingStep

-----------------------------------------------------------------------------
(* The specification *)

\* Tables that hold a few users and no request.
LEMMA PeopleStartSound == PeopleStart => PeopleSound
  <1> SUFFICES ASSUME PeopleStart PROVE PeopleSound
    OBVIOUS
  <1> USE DEF PeopleStart, CallsStart, RequestsInit, OnboardingInit
  <1>1. AuthTablesOK /\ PlaceholdersByTikTok
    BY AuthAssumption DEF AuthInit, AuthTablesOK, PlaceholdersByTikTok, Addresses, Row
  <1>2. held \in [Procs -> Holdings]
    BY DEF AuthInit, NothingHeld, Holdings
  <1>3. PeopleTypeOK
    BY <1>1, <1>2, CallsAssumption DEF PeopleTypeOK, AuthTypeOK
  <1>4. OnboardedHasRequest /\ AskedWhenReady
    BY DEF AuthInit, OnboardedHasRequest, AskedWhenReady
  <1>5. \A p \in Procs : HandlerInformed(p)
    BY DEF HandlerInformed
  <1> QED
    BY <1>1, <1>3, <1>4, <1>5 DEF PeopleSound, PeopleInv

\* Every step keeps the inductive invariant.
LEMMA PeopleNextSound ==
    ASSUME PeopleSound, [PeopleNext /\ raced' = raced \cup SharedPeople']_<<peopleVars, raced>>
    PROVE  PeopleSound'
  <1>1. CASE UNCHANGED <<peopleVars, raced>>
    BY <1>1 DEF PeopleSound, PeopleInv, PeopleTypeOK, AuthTypeOK, AuthTablesOK,
                OnboardedHasRequest, RequestsOf, AskedWhenReady, PlaceholdersByTikTok,
                HandlerInformed, Ready, Row, peopleVars, authState, usersTable,
                onboardingState
  <1>2. ASSUME NEW p \in Procs, Arrives, PeopleRequest(p)
        PROVE  PeopleSound'
    BY <1>2, AccountRequestSound, OnboardingRequestSound DEF PeopleRequest
  <1>3. ASSUME NEW p \in Procs, UNCHANGED calls, PeopleStep(p)
        PROVE  PeopleSound'
    BY <1>3, AccountHandlerSound, OnboardingHandlerSound DEF PeopleStep
  <1> QED
    BY <1>1, <1>2, <1>3 DEF PeopleNext

\* Whoever is onboarded has a completed request, and whoever made a request with
\* createOnboardingRequest has a TikTok account and a real address from then on,
\* however signup, linking, e-mail changes, suspensions, widget sessions and
\* onboardings interleave and wherever they fail.
THEOREM PeopleInvariant == PeopleSpec => []PeopleInv
  <1>1. PeopleStart => PeopleSound
    BY PeopleStartSound
  <1>2. PeopleSound /\ [PeopleNext /\ raced' = raced \cup SharedPeople']_<<peopleVars, raced>>
          => PeopleSound'
    BY PeopleNextSound
  <1>3. PeopleSound => PeopleInv
    BY DEF PeopleSound
  <1> QED
    BY <1>1, <1>2, <1>3, PTL DEF PeopleSpec

-----------------------------------------------------------------------------
(* Rows that one handler at a time works on *)

\* What a handler read of its row is still so when it writes.
UserAsRead(p) ==
    LET u == held[p].user IN
    /\ pc[p] = "signup_code" => email[u] = held[p].email /\ u \notin suspended
    /\ pc[p] \in {"profile_find", "profile_save"} => email[u] \in OpenIds
    /\ pc[p] = "resend_update" => email[u] \in Emails
    /\ pc[p] = "verify_save" => emailCode[u] = held[p].code
    /\ pc[p] \in {"request_find", "request_create", "complete_find", "complete_create"} =>
          u \notin onboarded
    /\ pc[p] \in {"request_create", "widget_create", "complete_create"} =>
          RequestsOf(u, "pending") = {}
    /\ pc[p] = "complete_commit" => RequestsOf(u, "pending") \subseteq {reqHeld[p]}

\* What the tables say of a row: its code was mailed to its address, which the
\* user gave, the address was verified with that code, and there is one request
\* to be completed, which an onboarded user has from the widget only.
RowAlone(u) ==
    /\ ~Row(u) => emailCode[u] = NoCode
    /\ u \notin raced =>
          /\ emailCode[u] # NoCode => email[u] \in Emails /\ codeTo[emailCode[u]] = email[u]
          /\ u \in verified /\ email[u] \in Emails => provedTo[u] = email[u]
          /\ \A q, r \in RequestsOf(u, "pending") : q = r
          /\ u \in onboarded => RequestsOf(u, "pending") \cap asked = {}

\* The inductive invariant for rows that were not raced for.
PeopleAlone ==
    /\ PeopleSound /\ SharedPeople \subseteq raced
    /\ \A u \in Users : RowAlone(u)
    /\ \A p \in Procs : held[p].user \notin raced => UserAsRead(p)

\* A step that writes no row but v leaves the others their rows, codes and
\* pending requests.
OtherRowsKept(v) ==
    /\ \A u \in Users \ {v} :
          /\ email'[u] = email[u] /\ emailCode'[u] = emailCode[u] /\ provedTo'[u] = provedTo[u]
          /\ u \in verified' <=> u \in verified
          /\ u \in suspended' <=> u \in suspended
          /\ u \in onboarded' <=> u \in onboarded
          /\ \A r \in Requests :
                (reqUser'[r] = u /\ reqStatus'[r] = "pending")
                  <=> (reqUser[r] = u /\ reqStatus[r] = "pending")
          /\ \A r \in asked' \ asked : reqUser'[r] # u
    /\ \A c \in Codes : codeTo[c] # NoEmail => codeTo'[c] = codeTo[c]

\* A step of one handler, on its row or on one that it has just inserted, keeps
\* what holds of the rows that nobody raced for.
LEMMA StepKeepsAlone ==
    ASSUME PeopleAlone, PeopleSound', NEW p \in Procs, NEW h, NEW label, Hold(p, h, label),
           raced' = raced \cup SharedPeople',
           NEW v, v \in Users => v = held[p].user \/ ~Row(v), OtherRowsKept(v),
           \A q \in Procs \ {p} : reqHeld'[q] = reqHeld[q],
           v \in Users => RowAlone(v)',
           h.user \notin raced' => UserAsRead(p)'
    PROVE  PeopleAlone'
  <1>0. AuthTablesOK /\ SharedPeople \subseteq raced /\ raced \subseteq raced'
    BY Known DEF PeopleAlone
  <1>1. /\ \A q \in Procs \ {p} : pc'[q] = pc[q] /\ held'[q] = held[q]
        /\ held'[p] = h
    BY Known DEF PeopleAlone, Hold, Goto
  <1>2. ASSUME NEW q \in Procs, q # p, held[q].user \notin raced'
        PROVE  UserAsRead(q)'
    <2> DEFINE u == held[q].user
    <2>1. HandlerInformed(q) /\ UserAsRead(q)
      BY <1>0, <1>2 DEF PeopleAlone, PeopleSound
    <2>2. CASE pc[q] \in {"idle", "signup_create", "tiktok_email", "tiktok_create"}
      BY <1>1, <1>2, <2>2 DEF UserAsRead
    <2>3. CASE pc[q] \notin {"idle", "signup_create", "tiktok_email", "tiktok_create"}
      <3>1. u \in Users /\ Row(u)
        BY <2>1, <2>3 DEF HandlerInformed
      <3>2. u # held[p].user
        <4>1. u = held[p].user => u \in SharedPeople
          BY <1>2, <3>1, AuthAssumption DEF SharedPeople, Shared, AuthWorksOn
        <4> QED
          BY <1>0, <1>2, <4>1
      <3>3. u \in Users \ {v}
        BY <3>1, <3>2
      <3>4. /\ email'[u] = email[u] /\ emailCode'[u] = emailCode[u]
            /\ u \in suspended' <=> u \in suspended
            /\ u \in onboarded' <=> u \in onboarded
        BY <3>3 DEF OtherRowsKept
      <3>5. \A s : s = u => RequestsOf(s, "pending")' = RequestsOf(s, "pending")
        BY <3>3 DEF OtherRowsKept, RequestsOf
      <3>6. RequestsOf(u, "pending")' = RequestsOf(u, "pending")
        BY <1>1, <1>2, <3>5 DEF RequestsOf
      <3> QED
        BY <1>1, <1>2, <2>1, <3>4, <3>6 DEF UserAsRead
    <2> QED
      BY <2>2, <2>3
  <1>3. ASSUME NEW u \in Users \ {v}
        PROVE  RowAlone(u)'
    <2>0. RequestsOf(u, "pending")' \cap asked' \subseteq RequestsOf(u, "pending") \cap asked
      BY DEF OtherRowsKept, RequestsOf
    <2>1. /\ email'[u] = email[u] /\ emailCode'[u] = emailCode[u] /\ provedTo'[u] = provedTo[u]
          /\ u \in verified' <=> u \in verified
          /\ u \in onboarded' <=> u \in onboarded
          /\ emailCode[u] \in Codes \cup {NoCode}
      BY <1>0 DEF OtherRowsKept, AuthTablesOK
    <2>2. RequestsOf(u, "pending")' = RequestsOf(u, "pending")
      BY DEF OtherRowsKept, RequestsOf
    <2>3. RowAlone(u)
      BY DEF PeopleAlone
    <2>4. u \notin raced' /\ emailCode[u] # NoCode => codeTo'[emailCode[u]] = email[u]
      BY <1>0, <2>1, <2>3, AuthAssumption DEF RowAlone, OtherRowsKept
    <2> QED
      BY <1>0, <2>0, <2>1, <2>2, <2>3, <2>4 DEF RowAlone, Row
  <1>4. \A u \in Users : RowAlone(u)'
    BY <1>3
  <1>5. \A q \in Procs : held'[q].user \notin raced' => UserAsRead(q)'
    BY <1>1, <1>2
  <1> QED
    BY <1>4, <1>5 DEF PeopleAlone

\* A step that writes nothing but tokens and links.
LEMMA QuietStepAlone ==
    ASSUME PeopleAlone, PeopleSound', NEW p \in Procs, NEW h, NEW label, Hold(p, h, label),
           raced' = raced \cup SharedPeople',
           UNCHANGED <<email, verified, emailCode, suspended, onboarded, codeTo, provedTo,
                       reqStatus, reqUser, asked>>,
           \A q \in Procs \ {p} : reqHeld'[q] = reqHeld[q],
           h.user \notin raced' => UserAsRead(p)'
    PROVE  PeopleAlone'
  <1>1. OtherRowsKept(NoUser)
    BY DEF OtherRowsKept
  <1> QED
    BY <1>1, StepKeepsAlone, AuthAssumption

-----------------------------------------------------------------------------
(* The steps, for rows that nobody raced for *)

\* A request reads the row it is about.
LEMMA AccountRequestAlone ==
    ASSUME PeopleAlone, PeopleSound', NEW p \in Procs, raced' = raced \cup SharedPeople',
           UNCHANGED onboardingState, AuthRequest(p) \/ SuspensionRequest(p)
    PROVE  PeopleAlone'
  <1>0. NothingHeld \in Holdings /\ AuthTablesOK
    BY Known DEF PeopleAlone
  \* What the handler knows is in its table, or it knows nothing.
  <1>1. ASSUME NEW h, NEW label, Hold(p, h, label), UNCHANGED <<usersTable, codeTo, provedTo>>,
               \/ label \in {"idle", "signup_create", "verify_compare", "link_find",
                             "tiktok_email", "suspend_save", "unsuspend_save"}
               \/ (label = "resend_update" /\ email[h.user] \in Emails)
               \/ (label = "profile_find" /\ email[h.user] \in OpenIds)
        PROVE  PeopleAlone'
    <2>1. pc'[p] = label /\ held'[p] = h
      BY <1>1, Known DEF PeopleAlone, Hold, Goto
    <2>2. UserAsRead(p)'
      BY <1>1, <2>1 DEF UserAsRead, usersTable
    <2> QED
      BY <1>1, <2>2, QuietStepAlone DEF usersTable, onboardingState
  <1>2. ASSUME NEW e \in Emails, SignUp(p, e)
        PROVE  PeopleAlone'
    BY <1>1, <1>2 DEF SignUp
  <1>3. ASSUME NEW e \in Emails, NEW c, NEW label \in {"verify_compare", "resend_update"},
               ReadUnverified(p, e, c, label)
        PROVE  PeopleAlone'
    <2>1. PICK u \in RowsWith(e) \ verified :
             Hold(p, [NothingHeld EXCEPT !.user = u, !.code = c, !.seenCode = emailCode[u]],
                  label)
      BY <1>3 DEF ReadUnverified
    <2>2. [NothingHeld EXCEPT !.user = u, !.code = c, !.seenCode = emailCode[u]].user = u
          /\ email[u] \in Emails
      BY DEF NothingHeld, RowsWith
    <2> QED
      BY <1>1, <1>3, <2>1, <2>2 DEF ReadUnverified
  <1>4. ASSUME NEW u \in Users, NEW e \in Emails, UpdateEmail(p, u, e)
        PROVE  PeopleAlone'
    <2>1. [NothingHeld EXCEPT !.user = u, !.email = e].user = u
      BY DEF NothingHeld
    <2> QED
      BY <1>1, <1>4, <2>1 DEF UpdateEmail
  <1>5. ASSUME NEW u \in Users, NEW o \in OpenIds, LinkTikTok(p, u, o)
        PROVE  PeopleAlone'
    BY <1>1, <1>5 DEF LinkTikTok
  <1>6. ASSUME NEW o \in OpenIds, TikTokSignIn(p, o)
        PROVE  PeopleAlone'
    BY <1>1, <1>6 DEF TikTokSignIn, AuthDone
  <1>7. ASSUME NEW u \in Users, SuspendUser(p, u) \/ UnsuspendUser(p, u)
        PROVE  PeopleAlone'
    BY <1>1, <1>7 DEF SuspendUser, UnsuspendUser
  <1> QED
    BY <1>2, <1>3, <1>4, <1>5, <1>6, <1>7
       DEF AuthRequest, SuspensionRequest, ResendVerificationCode, VerifyEmail

\* The handlers of AuthService, step by step.
LEMMA AccountHandlerAlone ==
    ASSUME PeopleAlone, PeopleSound', NEW p \in Procs, raced' = raced \cup SharedPeople',
           AuthStep(p), UNCHANGED onboardingState
    PROVE  PeopleAlone'
  <1>0. /\ AuthTablesOK /\ AuthTablesOK' /\ HandlerInformed(p) /\ held[p] \in Holdings
        /\ raced \subseteq raced'
        /\ held[p].user \notin raced' => UserAsRead(p)
        /\ \A v \in Users : RowAlone(v)
    BY Known DEF PeopleAlone, PeopleSound, PeopleInv, PeopleTypeOK, AuthTypeOK
  <1>1. /\ UNCHANGED <<reqStatus, reqUser, asked, reqHeld>>
        /\ \A v : RequestsOf(v, "pending")' = RequestsOf(v, "pending")
    BY DEF onboardingState, RequestsOf
  \* A handler that goes on with the same row, or answers.
  <1>2. ASSUME NEW h, NEW label, Hold(p, h, label)
        PROVE  pc'[p] = label /\ held'[p] = h
    BY <1>2, Known DEF PeopleAlone, Hold, Goto
  <1>3. AuthDone(p) => Hold(p, NothingHeld, "idle") /\ UserAsRead(p)'
    BY <1>2 DEF AuthDone, UserAsRead
  \* The row that it writes before it answers.
  <1>4. ASSUME AuthDone(p), NEW v \in Users, v = held[p].user \/ ~Row(v),
               OtherRowsKept(v), RowAlone(v)'
        PROVE  PeopleAlone'
    BY <1>1, <1>3, <1>4, StepKeepsAlone
  <1>5. ASSUME UNCHANGED <<email, verified, emailCode, suspended, onboarded, codeTo, provedTo>>,
               NEW h, NEW label, Hold(p, h, label), h.user \notin raced' => UserAsRead(p)'
        PROVE  PeopleAlone'
    BY <1>1, <1>5, QuietStepAlone
  <1>6. CASE CreateUser(p)
    <2>1. PICK v \in Users :
             /\ ~Row(v) /\ email' = [email EXCEPT ![v] = held[p].email]
             /\ Hold(p, [held[p] EXCEPT !.user = v], "signup_code")
      BY <1>6 DEF CreateUser
    <2>2. /\ held[p].email \in Emails
          /\ UNCHANGED <<verified, emailCode, suspended, linked, byTikTok, onboarded,
                         tokens, codeTo, provedTo>>
      BY <1>0, <1>6 DEF CreateUser, HandlerInformed
    <2>3. OtherRowsKept(v)
      BY <1>0, <1>1, <2>1, <2>2 DEF OtherRowsKept, AuthTablesOK
    <2>4. email'[v] = held[p].email /\ Row(v)'
      BY <1>0, <2>1, <2>2, AuthAssumption DEF AuthTablesOK, Row
    <2>5. v \notin verified \cup suspended \cup onboarded /\ emailCode[v] = NoCode
      BY <1>0, <2>1 DEF AuthTablesOK, RowAlone
    <2>6. RowAlone(v)'
      BY <1>0, <1>1, <2>2, <2>4, <2>5 DEF RowAlone
    <2>7. pc'[p] = "signup_code" /\ held'[p].user = v /\ held'[p].email = held[p].email
      BY <1>0, <1>2, <2>1 DEF Holdings
    <2>8. UserAsRead(p)'
      BY <2>2, <2>4, <2>5, <2>7 DEF UserAsRead
    <2> QED
      BY <1>1, <2>1, <2>3, <2>6, <2>8, StepKeepsAlone
  <1>7. CASE SignupUpdate(p) \/ ResendUpdate(p)
    <2>1. PICK v \in Users : v = held[p].user /\ Row(v)
      BY <1>0, <1>7 DEF SignupUpdate, ResendUpdate, HandlerInformed
    <2>2. PICK e : /\ IssueCode(v, e)
                   /\ v \notin raced' => e = email[v] /\ e \in Emails
      <3>1. CASE SignupUpdate(p)
        BY <1>0, <2>1, <3>1 DEF SignupUpdate, UserAsRead, HandlerInformed
      <3>2. CASE ResendUpdate(p)
        BY <1>0, <2>1, <3>2 DEF ResendUpdate, UserAsRead
      <3> QED
        BY <1>7, <3>1, <3>2
    <2>3. PICK c \in Codes : /\ codeTo[c] = NoEmail /\ codeTo' = [codeTo EXCEPT ![c] = e]
                             /\ emailCode' = [emailCode EXCEPT ![v] = c]
      BY <2>2 DEF IssueCode
    <2>4. /\ UNCHANGED <<email, provedTo>> /\ AuthDone(p)
          /\ verified' \subseteq verified /\ onboarded' \subseteq onboarded
          /\ \A w \in Users \ {v} : /\ w \in verified' <=> w \in verified
                                    /\ w \in suspended' <=> w \in suspended
                                    /\ w \in onboarded' <=> w \in onboarded
      BY <1>7, <2>1 DEF SignupUpdate, ResendUpdate
    <2>5. OtherRowsKept(v)
      BY <1>0, <1>1, <2>3, <2>4 DEF OtherRowsKept, AuthTablesOK
    <2>6. emailCode'[v] = c /\ codeTo'[c] = e
      BY <1>0, <2>3 DEF AuthTablesOK
    <2>7. RowAlone(v)'
      BY <1>0, <1>1, <2>1, <2>2, <2>4, <2>6 DEF RowAlone, Row
    <2> QED
      BY <1>4, <2>1, <2>4, <2>5, <2>7
  <1>8. CASE CompareCode(p) \/ FindEmailTaken(p) \/ FindLinked(p)
    <2>1. PICK label \in {"verify_save", "profile_save", "link_update"} :
             /\ Hold(p, held[p], label) /\ UNCHANGED <<usersTable, tokens, codeTo, provedTo>>
             /\ label = "verify_save" => emailCode[held[p].user] = held[p].code
             /\ label = "profile_save" => pc[p] = "profile_find"
      BY <1>8 DEF CompareCode, FindEmailTaken, FindLinked
    <2>2. held[p].user \notin raced' => UserAsRead(p)'
      BY <1>0, <1>2, <2>1 DEF UserAsRead, usersTable
    <2> QED
      BY <1>5, <2>1, <2>2 DEF usersTable
  <1>9. CASE SaveVerified(p)
    <2>1. PICK v \in Users : v = held[p].user /\ Row(v)
      BY <1>0, <1>9 DEF SaveVerified, HandlerInformed
    <2>2. held[p].code \in Codes /\ pc[p] = "verify_save"
      BY <1>0, <1>9 DEF SaveVerified, HandlerInformed
    <2>3. /\ AuthDone(p) /\ UNCHANGED <<email, suspended, onboarded, codeTo>>
          /\ verified' = verified \cup {v}
          /\ \/ emailCode' = emailCode \/ emailCode' = [emailCode EXCEPT ![v] = NoCode]
          /\ provedTo' = [provedTo EXCEPT ![v] =
                            IF emailCode[v] = held[p].code THEN codeTo[held[p].code] ELSE NoEmail]
      BY <1>9, <2>1 DEF SaveVerified
    <2>4. OtherRowsKept(v)
      BY <1>0, <1>1, <2>3 DEF OtherRowsKept, AuthTablesOK
    <2>5. v \notin raced' => emailCode[v] = held[p].code /\ codeTo[held[p].code] = email[v]
      BY <1>0, <2>1, <2>2, AuthAssumption DEF UserAsRead, RowAlone
    <2>6. v \notin raced' => provedTo'[v] = email[v]
      BY <1>0, <2>3, <2>5 DEF AuthTablesOK
    <2>7. emailCode'[v] \in {emailCode[v], NoCode}
      BY <1>0, <2>3 DEF AuthTablesOK
    <2>8. RowAlone(v)'
      BY <1>0, <1>1, <2>1, <2>3, <2>6, <2>7 DEF RowAlone, Row
    <2> QED
      BY <1>4, <2>1, <2>3, <2>4, <2>8
  <1>10. CASE SaveEmail(p)
    <2>1. PICK v \in Users : v = held[p].user /\ Row(v)
      BY <1>0, <1>10 DEF SaveEmail, HandlerInformed
    <2>2. /\ AuthDone(p) /\ UNCHANGED <<emailCode, suspended, onboarded, codeTo, provedTo>>
          /\ verified' = verified \ {v} /\ email' = [email EXCEPT ![v] = held[p].email]
          /\ pc[p] = "profile_save" /\ held[p].email \in Emails
      BY <1>0, <1>10, <2>1 DEF SaveEmail, HandlerInformed
    <2>3. OtherRowsKept(v)
      BY <1>0, <1>1, <2>2 DEF OtherRowsKept, AuthTablesOK
    <2>4. v \notin raced' => emailCode[v] = NoCode
      BY <1>0, <2>1, <2>2, AuthAssumption DEF UserAsRead, RowAlone
    <2>5. Row(v)'
      BY <1>0, <2>2, AuthAssumption DEF Row, AuthTablesOK
    <2>6. RowAlone(v)'
      BY <1>0, <1>1, <2>2, <2>4, <2>5 DEF RowAlone
    <2> QED
      BY <1>4, <2>1, <2>2, <2>3, <2>6
  <1>11. CASE UpdateLink(p) \/ TikTokUpdate(p) \/ AuthHandlerFails(p)
    <2>1. AuthDone(p)
          /\ UNCHANGED <<email, verified, emailCode, suspended, onboarded, codeTo, provedTo>>
      BY <1>11 DEF UpdateLink, TikTokUpdate, AuthHandlerFails, usersTable
    <2> QED
      BY <1>3, <1>5, <2>1
  <1>12. CASE FindPlaceholder(p)
    <2>1. UNCHANGED <<usersTable, tokens, codeTo, provedTo>>
      BY <1>12 DEF FindPlaceholder
    <2>2. ASSUME NEW h, NEW label \in {"tiktok_create", "tiktok_update"}, Hold(p, h, label)
          PROVE  PeopleAlone'
      <3>1. UserAsRead(p)'
        BY <1>2, <2>2 DEF UserAsRead
      <3> QED
        BY <1>5, <2>1, <2>2, <3>1 DEF usersTable
    <2>3. \/ Hold(p, held[p], "tiktok_create")
          \/ \E u \in RowsWith(held[p].open) :
                Hold(p, [held[p] EXCEPT !.user = u, !.seenOpen = linked[u]], "tiktok_update")
      BY <1>12 DEF FindPlaceholder
    <2> QED
      BY <2>2, <2>3
  <1>13. CASE TikTokCreate(p)
    <2>1. PICK v \in Users :
             /\ ~Row(v) /\ email' = [email EXCEPT ![v] = held[p].open]
             /\ verified' = verified \cup {v}
      BY <1>13 DEF TikTokCreate
    <2>2. /\ held[p].open \in OpenIds /\ AuthDone(p)
          /\ UNCHANGED <<emailCode, suspended, onboarded, codeTo, provedTo>>
      BY <1>0, <1>13 DEF TikTokCreate, HandlerInformed
    <2>3. OtherRowsKept(v)
      BY <1>0, <1>1, <2>1, <2>2 DEF OtherRowsKept, AuthTablesOK
    <2>4. email'[v] \in OpenIds /\ emailCode[v] = NoCode /\ v \notin onboarded
      BY <1>0, <2>1, <2>2 DEF AuthTablesOK, RowAlone
    <2>5. RowAlone(v)'
      BY <1>0, <1>1, <2>2, <2>4, AuthAssumption DEF RowAlone
    <2> QED
      BY <1>4, <2>1, <2>2, <2>3, <2>5
  <1>14. CASE SaveSuspended(p) \/ SaveUnsuspended(p)
    <2>1. PICK v \in Users : v = held[p].user /\ Row(v)
      BY <1>0, <1>14 DEF SaveSuspended, SaveUnsuspended, HandlerInformed
    <2>2. /\ AuthDone(p) /\ UNCHANGED <<email, verified, emailCode, onboarded, codeTo, provedTo>>
          /\ \A w \in Users \ {v} : w \in suspended' <=> w \in suspended
      BY <1>14, <2>1 DEF SaveSuspended, SaveUnsuspended
    <2>3. OtherRowsKept(v)
      BY <1>1, <2>2 DEF OtherRowsKept
    <2>4. RowAlone(v)'
      BY <1>0, <1>1, <2>2 DEF RowAlone, Row
    <2> QED
      BY <1>4, <2>1, <2>2, <2>3, <2>4
  <1> QED
    BY <1>6, <1>7, <1>8, <1>9, <1>10, <1>11, <1>12, <1>13, <1>14 DEF AuthStep

\* createOnboardingRequest and completeOnboarding find the user not onboarded;
\* the widget does not look.
LEMMA OnboardingRequestAlone ==
    ASSUME PeopleAlone, PeopleSound', NEW p \in Procs, raced' = raced \cup SharedPeople',
           NEW u \in Users,
           \/ CreateOnboardingRequest(p, u) \/ CompleteWidgetOnboarding(p, u)
           \/ CompleteOnboarding(p, u)
    PROVE  PeopleAlone'
  <1> DEFINE h == [NothingHeld EXCEPT !.user = u]
  <1>1. PICK label \in {"request_find", "widget_find", "complete_find"} :
           /\ Hold(p, h, label) /\ (label # "widget_find" => u \notin onboarded)
           /\ UNCHANGED <<usersTable, tokens, codeTo, provedTo, onboardingState>>
    BY DEF CreateOnboardingRequest, CompleteWidgetOnboarding, CompleteOnboarding
  <1>2. pc'[p] = label /\ held'[p] = h /\ h.user = u
    BY <1>1, Known DEF PeopleAlone, Hold, Goto, NothingHeld
  <1>3. UserAsRead(p)'
    BY <1>1, <1>2 DEF UserAsRead, usersTable
  <1> HIDE DEF h
  <1> QED
    BY <1>1, <1>3, QuietStepAlone DEF usersTable, onboardingState

\* Their handlers, step by step.
LEMMA OnboardingHandlerAlone ==
    ASSUME PeopleAlone, PeopleSound', NEW p \in Procs, raced' = raced \cup SharedPeople',
           OnboardingStep(p)
    PROVE  PeopleAlone'
  <1>0. /\ AuthTablesOK /\ PeopleTypeOK /\ HandlerInformed(p) /\ raced \subseteq raced'
        /\ held[p].user \notin raced' => UserAsRead(p)
        /\ \A v \in Users : RowAlone(v)
    BY Known DEF PeopleAlone, PeopleSound, PeopleInv, PeopleTypeOK, AuthTypeOK
  <1>1. PICK v \in Users : v = held[p].user /\ Row(v)
    BY <1>0 DEF HandlerInformed, OnboardingStep, FindPending, CreateRequest,
                FindPendingForWidget, CreateWidgetRequest, FindRequest, CreateMissingRequest,
                CommitOnboarding, OnboardingHandlerFails, OnboardingLabels
  <1>2. ASSUME NEW h, NEW label, Hold(p, h, label)
        PROVE  pc'[p] = label /\ held'[p] = h
    BY <1>2, Known DEF PeopleAlone, Hold, Goto
  <1>3. AuthDone(p) => Hold(p, NothingHeld, "idle") /\ UserAsRead(p)'
    BY <1>2 DEF AuthDone, UserAsRead
  <1>4. /\ reqHeld \in [Procs -> Requests \cup {NoRequest}]
        /\ reqStatus \in [Requests -> {"none", "pending", "completed"}]
        /\ reqUser \in [Requests -> Users \cup {NoUser}]
        /\ \A r \in Requests : reqStatus[r] = "none" <=> reqUser[r] = NoUser
        /\ asked \subseteq Requests /\ \A r \in asked : reqUser[r] \in Users
    BY <1>0 DEF PeopleTypeOK
  \* A request inserted for the user, who has no other pending one.
  <1>5. ASSUME NEW r \in Requests, InsertRequest(r, v),
               UNCHANGED <<usersTable, codeTo, provedTo>>,
               \/ asked' = asked
               \/ asked' = asked \cup {r} /\ (v \notin raced' => v \notin onboarded),
               v \notin raced' => RequestsOf(v, "pending") = {}
        PROVE  /\ OtherRowsKept(v) /\ RowAlone(v)'
               /\ v \notin raced' => RequestsOf(v, "pending")' = {r}
    <2>1. /\ reqStatus[r] = "none" /\ reqStatus' = [reqStatus EXCEPT ![r] = "pending"]
          /\ reqUser[r] = NoUser /\ reqUser' = [reqUser EXCEPT ![r] = v]
      BY <1>4, <1>5 DEF InsertRequest
    <2>2. OtherRowsKept(v)
      BY <1>4, <1>5, <2>1, AuthAssumption DEF OtherRowsKept, usersTable
    <2>3. v \notin raced' => RequestsOf(v, "pending")' = {r}
      BY <1>4, <1>5, <2>1 DEF RequestsOf
    <2>4. v \notin raced' /\ v \in onboarded => r \notin asked'
      BY <1>4, <1>5, <2>1, AuthAssumption
    <2>5. RowAlone(v)'
      BY <1>0, <1>5, <2>3, <2>4 DEF RowAlone, Row, usersTable
    <2> QED
      BY <2>2, <2>3, <2>5
  <1>6. CASE FindPending(p)
    <2>1. /\ pc[p] = "request_find" /\ Hold(p, held[p], "request_create")
          /\ RequestsOf(v, "pending") = {}
          /\ UNCHANGED <<usersTable, tokens, codeTo, provedTo, onboardingState>>
      BY <1>1, <1>6 DEF FindPending
    <2>2. RequestsOf(v, "pending")' = {}
      BY <2>1 DEF RequestsOf, onboardingState
    <2>3. held[p].user \notin raced' => UserAsRead(p)'
      BY <1>0, <1>1, <1>2, <2>1, <2>2 DEF UserAsRead, RequestsOf, usersTable
    <2> QED
      BY <2>1, <2>3, QuietStepAlone DEF usersTable, onboardingState
  <1>7. CASE OnboardingHandlerFails(p)
    <2>1. /\ AuthDone(p) /\ \A q \in Procs \ {p} : reqHeld'[q] = reqHeld[q]
          /\ UNCHANGED <<usersTable, tokens, codeTo, provedTo, reqStatus, reqUser, asked>>
      BY <1>4, <1>7 DEF OnboardingHandlerFails
    <2> QED
      BY <1>3, <2>1, QuietStepAlone DEF usersTable
  <1>8. CASE CreateRequest(p)
    <2>1. PICK r \in Requests : InsertRequest(r, v) /\ asked' = asked \cup {r}
      BY <1>1, <1>8 DEF CreateRequest
    <2>2. /\ pc[p] = "request_create" /\ AuthDone(p)
          /\ UNCHANGED <<usersTable, tokens, codeTo, provedTo, reqHeld>>
      BY <1>8 DEF CreateRequest
    <2>3. OtherRowsKept(v) /\ RowAlone(v)'
      BY <1>0, <1>1, <1>5, <2>1, <2>2 DEF UserAsRead
    <2> QED
      BY <1>1, <1>3, <2>2, <2>3, StepKeepsAlone
  <1>9. CASE FindRequest(p)
    <2>1. /\ pc[p] = "complete_find"
          /\ UNCHANGED <<usersTable, tokens, codeTo, provedTo, reqStatus, reqUser, asked>>
      BY <1>9 DEF FindRequest
    <2>2. \/ RequestsOf(v, "pending") = {} /\ HoldRequest(p, NoRequest, "complete_create")
          \/ \E r \in RequestsOf(v, "pending") : HoldRequest(p, r, "complete_commit")
      BY <1>1, <1>9 DEF FindRequest
    <2>3. RequestsOf(v, "pending")' = RequestsOf(v, "pending")
      BY <2>1 DEF RequestsOf
    <2>4. \A q \in Procs \ {p} : reqHeld'[q] = reqHeld[q]
      BY <1>4, <2>2 DEF HoldRequest
    <2>5. PICK label \in {"complete_create", "complete_commit"} : Hold(p, held[p], label)
      BY <2>2 DEF HoldRequest
    <2>6. ASSUME v \notin raced' PROVE UserAsRead(p)'
      <3>1. CASE RequestsOf(v, "pending") = {} /\ HoldRequest(p, NoRequest, "complete_create")
        <4>1. pc'[p] = "complete_create" /\ held'[p] = held[p]
          BY <1>2, <3>1 DEF HoldRequest
        <4>2. v \notin onboarded
          BY <1>0, <1>1, <2>1, <2>6 DEF UserAsRead
        <4> QED
          BY <1>1, <2>1, <2>3, <3>1, <4>1, <4>2 DEF UserAsRead, RequestsOf, usersTable
      <3>2. ASSUME NEW r \in RequestsOf(v, "pending"), HoldRequest(p, r, "complete_commit")
            PROVE  UserAsRead(p)'
        <4>1. pc'[p] = "complete_commit" /\ held'[p] = held[p] /\ reqHeld'[p] = r
          BY <1>2, <1>4, <3>2 DEF HoldRequest
        <4>2. RequestsOf(v, "pending") \subseteq {r}
          BY <1>0, <2>6 DEF RowAlone
        <4> QED
          BY <1>1, <2>1, <4>1, <4>2 DEF UserAsRead, RequestsOf
      <3> QED
        BY <2>2, <3>1, <3>2
    <2> QED
      BY <1>1, <2>1, <2>4, <2>5, <2>6, QuietStepAlone DEF usersTable
  <1>10. CASE CreateMissingRequest(p)
    <2>1. PICK r \in Requests : InsertRequest(r, v) /\ HoldRequest(p, r, "complete_commit")
      BY <1>1, <1>10 DEF CreateMissingRequest
    <2>2. /\ pc[p] = "complete_create"
          /\ UNCHANGED <<usersTable, tokens, codeTo, provedTo, asked>>
      BY <1>10 DEF CreateMissingRequest
    <2>3. /\ OtherRowsKept(v) /\ RowAlone(v)'
          /\ v \notin raced' => RequestsOf(v, "pending")' = {r}
      BY <1>0, <1>1, <1>5, <2>1, <2>2 DEF UserAsRead
    <2>4. /\ Hold(p, held[p], "complete_commit") /\ reqHeld'[p] = r
          /\ \A q \in Procs \ {p} : reqHeld'[q] = reqHeld[q]
      BY <1>4, <2>1 DEF HoldRequest
    <2>5. held[p].user \notin raced' => UserAsRead(p)'
      BY <1>1, <1>2, <2>3, <2>4 DEF UserAsRead, RequestsOf
    <2> QED
      BY <1>1, <2>3, <2>4, <2>5, StepKeepsAlone
  <1>11. CASE CommitOnboarding(p)
    <2>1. /\ pc[p] = "complete_commit" /\ AuthDone(p)
          /\ onboarded' = onboarded \cup {v}
          /\ reqStatus' = [reqStatus EXCEPT ![reqHeld[p]] = "completed"]
          /\ \A q \in Procs \ {p} : reqHeld'[q] = reqHeld[q]
          /\ UNCHANGED <<email, verified, emailCode, suspended, codeTo, provedTo,
                         reqUser, asked>>
      BY <1>1, <1>4, <1>11 DEF CommitOnboarding
    <2>2. PICK r \in Requests : r = reqHeld[p] /\ reqUser[r] = v
      BY <1>0, <1>1, <1>4, <2>1 DEF PeopleTypeOK
    <2>3. OtherRowsKept(v)
      BY <1>4, <2>1, <2>2 DEF OtherRowsKept
    <2>4. v \notin raced' => RequestsOf(v, "pending")' = {}
      BY <1>0, <1>1, <1>4, <2>1, <2>2 DEF UserAsRead, RequestsOf
    <2>5. RowAlone(v)'
      BY <1>0, <2>1, <2>4 DEF RowAlone, Row
    <2> QED
      BY <1>1, <1>3, <2>1, <2>3, <2>5, StepKeepsAlone
  <1>12. CASE FindPendingForWidget(p)
    <2>1. UNCHANGED <<usersTable, tokens, codeTo, provedTo, onboardingState>>
      BY <1>12 DEF FindPendingForWidget
    <2>2. CASE RequestsOf(v, "pending") = {} /\ Hold(p, held[p], "widget_create")
      <3>1. RequestsOf(v, "pending")' = {}
        BY <2>1, <2>2 DEF RequestsOf, onboardingState
      <3>2. UserAsRead(p)'
        BY <1>1, <1>2, <2>2, <3>1 DEF UserAsRead, RequestsOf
      <3> QED
        BY <2>1, <2>2, <3>2, QuietStepAlone DEF usersTable, onboardingState
    <2>3. CASE AuthDone(p)
      BY <1>3, <2>1, <2>3, QuietStepAlone DEF usersTable, onboardingState
    <2> QED
      BY <1>1, <1>12, <2>2, <2>3 DEF FindPendingForWidget
  <1>13. CASE CreateWidgetRequest(p)
    <2>1. PICK r \in Requests : InsertRequest(r, v)
      BY <1>1, <1>13 DEF CreateWidgetRequest
    <2>2. /\ pc[p] = "widget_create" /\ AuthDone(p)
          /\ UNCHANGED <<usersTable, tokens, codeTo, provedTo, asked, reqHeld>>
      BY <1>13 DEF CreateWidgetRequest
    <2>3. OtherRowsKept(v) /\ RowAlone(v)'
      BY <1>0, <1>1, <1>5, <2>1, <2>2 DEF UserAsRead
    <2> QED
      BY <1>1, <1>3, <2>2, <2>3, StepKeepsAlone
  <1> QED
    BY <1>6, <1>7, <1>8, <1>9, <1>10, <1>11, <1>12, <1>13 DEF OnboardingStep

-----------------------------------------------------------------------------
(* The theorems about rows that nobody raced for *)

\* A few users and no handler: nobody's address or request is in doubt.
LEMMA PeopleStartAlone == PeopleStart => PeopleAlone
  <1> SUFFICES ASSUME PeopleStart PROVE PeopleAlone
    OBVIOUS
  <1> USE DEF PeopleStart, CallsStart, RequestsInit, AuthInit, OnboardingInit
  <1>1. \A p \in Procs : pc[p] = "idle" /\ AuthWorksOn(p) = {}
    BY DEF NothingHeld, AuthWorksOn
  <1>2. SharedPeople \subseteq raced
    BY <1>1 DEF SharedPeople, Shared
  <1>3. \A u \in Users : RowAlone(u)
    BY AuthAssumption DEF RowAlone, RequestsOf
  <1>4. \A p \in Procs : UserAsRead(p)
    BY <1>1 DEF UserAsRead
  <1> QED
    BY <1>2, <1>3, <1>4, PeopleStartSound DEF PeopleAlone

\* Every step keeps the invariant.
LEMMA PeopleNextAlone ==
    ASSUME PeopleAlone, [PeopleNext /\ raced' = raced \cup SharedPeople']_<<peopleVars, raced>>
    PROVE  PeopleAlone'
  <1>1. PeopleSound'
    BY PeopleNextSound DEF PeopleAlone
  <1>2. CASE UNCHANGED <<peopleVars, raced>>
    <2> USE <1>2 DEF peopleVars, authState, usersTable, onboardingState
    <2>1. SharedPeople' = SharedPeople
      BY DEF SharedPeople, Shared, AuthWorksOn
    <2>2. \A u \in Users : RowAlone(u)'
      BY DEF PeopleAlone, RowAlone, Row, RequestsOf
    <2>3. \A p \in Procs : held'[p].user \notin raced' => UserAsRead(p)'
      BY DEF PeopleAlone, UserAsRead, RequestsOf
    <2> QED
      BY <1>1, <2>1, <2>2, <2>3 DEF PeopleAlone
  <1>3. ASSUME NEW p \in Procs, PeopleRequest(p), raced' = raced \cup SharedPeople'
        PROVE  PeopleAlone'
    BY <1>1, <1>3, AccountRequestAlone, OnboardingRequestAlone DEF PeopleRequest
  <1>4. ASSUME NEW p \in Procs, PeopleStep(p), raced' = raced \cup SharedPeople'
        PROVE  PeopleAlone'
    BY <1>1, <1>4, AccountHandlerAlone, OnboardingHandlerAlone DEF PeopleStep
  <1> QED
    BY <1>2, <1>3, <1>4 DEF PeopleNext

\* Every behaviour keeps it.
LEMMA PeopleAlwaysAlone == PeopleSpec => []PeopleAlone
  <1>1. PeopleAlone /\ [PeopleNext /\ raced' = raced \cup SharedPeople']_<<peopleVars, raced>>
          => PeopleAlone'
    BY PeopleNextAlone
  <1> QED
    BY <1>1, PeopleStartAlone, PTL DEF PeopleSpec

\* An address that a user gave and that counts as verified was verified with
\* the code last mailed to this very address: signup, updateProfile and resend
\* follow on one another as they may, if they are not under way for the row at
\* the same time.
THEOREM VerifiedAddressProved == PeopleSpec => []VerifiedAddressProvedUnlessRaced
  <1>1. PeopleAlone => VerifiedAddressProvedUnlessRaced
    BY Known DEF PeopleAlone, RowAlone, VerifiedAddressProvedUnlessRaced, AuthTablesOK
  <1> QED
    BY <1>1, PeopleAlwaysAlone, PTL

\* createOnboardingRequest, the widget and completeOnboarding leave a user one
\* pending request at most, and an onboarded user none that
\* createOnboardingRequest took, while one handler at a time works on the row.
THEOREM OnePendingRequest == PeopleSpec => []OnePendingRequestUnlessRaced
  <1>1. PeopleAlone => OnePendingRequestUnlessRaced
    BY DEF PeopleAlone, RowAlone, OnePendingRequestUnlessRaced
  <1> QED
    BY <1>1, PeopleAlwaysAlone, PTL

\* The steps that write an address: of a new row, or of a row whose address is
\* a placeholder.
LEMMA AddressesKept ==
    ASSUME PeopleAlone, [PeopleNext /\ raced' = raced \cup SharedPeople']_<<peopleVars, raced>>,
           NEW u \in Users \ raced', email[u] \in Emails
    PROVE  email'[u] = email[u]
  <1>0. AuthTablesOK /\ \A p \in Procs : held[p].user \notin raced => UserAsRead(p)
    BY Known DEF PeopleAlone
  <1> USE DEF usersTable, authState
  <1>1. CASE UNCHANGED <<peopleVars, raced>>
    BY <1>1 DEF peopleVars
  <1>2. ASSUME NEW p \in Procs, PeopleRequest(p)
        PROVE  email' = email
    BY <1>2 DEF PeopleRequest, AuthRequest, SuspensionRequest, SignUp, ResendVerificationCode,
                VerifyEmail, ReadUnverified, UpdateEmail, LinkTikTok, TikTokSignIn, SuspendUser,
                UnsuspendUser, CreateOnboardingRequest, CompleteWidgetOnboarding,
                CompleteOnboarding
  <1>3. ASSUME NEW p \in Procs, OnboardingStep(p)
        PROVE  email' = email
    BY <1>3 DEF OnboardingStep, FindPending, CreateRequest, FindPendingForWidget,
                CreateWidgetRequest, FindRequest, CreateMissingRequest, CommitOnboarding,
                OnboardingHandlerFails
  <1>4. ASSUME NEW p \in Procs, AuthStep(p), raced' = raced \cup SharedPeople'
        PROVE  email'[u] = email[u]
    <2>1. CASE CreateUser(p)
      BY <1>0, <2>1, AuthAssumption DEF CreateUser, Row, AuthTablesOK
    <2>2. CASE TikTokCreate(p)
      BY <1>0, <2>2, AuthAssumption DEF TikTokCreate, Row, AuthTablesOK
    <2>3. CASE SaveEmail(p)
      <3>1. held[p].user # u
        BY <1>0, <1>4, <2>3, AuthAssumption DEF SaveEmail, UserAsRead
      <3> QED
        BY <1>0, <2>3, <3>1 DEF SaveEmail, AuthTablesOK
    <2> QED
      BY <1>4, <2>1, <2>2, <2>3
         DEF AuthStep, SignupUpdate, CompareCode, SaveVerified, ResendUpdate, FindEmailTaken,
             FindLinked, UpdateLink, FindPlaceholder, TikTokUpdate, SaveSuspended,
             SaveUnsuspended, AuthHandlerFails
  <1> QED
    BY <1>1, <1>2, <1>3, <1>4 DEF PeopleNext, PeopleStep

\* An address that a user gave is never replaced, by updateProfile or by
\* anything else, while one handler at a time works on the row.
THEOREM EmailSetOnce == PeopleSpec => EmailSetOnceUnlessRaced
  <1>1. PeopleAlone /\ [PeopleNext /\ raced' = raced \cup SharedPeople']_<<peopleVars, raced>>
          => [\A u \in Users \ raced' :
                 email[u] \in Emails => email'[u] = email[u]]_<<email, raced>>
    BY AddressesKept
  <1> QED
    BY <1>1, PeopleAlwaysAlone, PTL DEF PeopleSpec, EmailSetOnceUnlessRaced

\* The steps that end a suspension: unsuspendUser's, and signup's UPDATE, whose
\* row is new and not suspended.
LEMMA SuspensionsKept ==
    ASSUME PeopleAlone, [PeopleNext /\ raced' = raced \cup SharedPeople']_<<peopleVars, raced>>,
           NEW u \in suspended \ (suspended' \cup raced')
    PROVE  \E p \in Procs : pc[p] = "unsuspend_save" /\ held[p].user = u
  <1>0. \A p \in Procs : held[p].user \notin raced => UserAsRead(p)
    BY DEF PeopleAlone
  <1> USE DEF usersTable, authState
  <1>1. CASE UNCHANGED <<peopleVars, raced>>
    BY <1>1 DEF peopleVars
  <1>2. ASSUME NEW p \in Procs, PeopleRequest(p)
        PROVE  suspended' = suspended
    BY <1>2 DEF PeopleRequest, AuthRequest, SuspensionRequest, SignUp, ResendVerificationCode,
                VerifyEmail, ReadUnverified, UpdateEmail, LinkTikTok, TikTokSignIn, SuspendUser,
                UnsuspendUser, CreateOnboardingRequest, CompleteWidgetOnboarding,
                CompleteOnboarding
  <1>3. ASSUME NEW p \in Procs, OnboardingStep(p)
        PROVE  suspended' = suspended
    BY <1>3 DEF OnboardingStep, FindPending, CreateRequest, FindPendingForWidget,
                CreateWidgetRequest, FindRequest, CreateMissingRequest, CommitOnboarding,
                OnboardingHandlerFails
  <1>4. ASSUME NEW p \in Procs, AuthStep(p), raced' = raced \cup SharedPeople'
        PROVE  pc[p] = "unsuspend_save" /\ held[p].user = u
    <2>1. CASE SignupUpdate(p)
      BY <1>0, <1>4, <2>1 DEF SignupUpdate, UserAsRead
    <2>2. CASE SaveUnsuspended(p)
      BY <2>2 DEF SaveUnsuspended
    <2> QED
      BY <1>4, <2>1, <2>2
         DEF AuthStep, CreateUser, CompareCode, SaveVerified, ResendUpdate, FindEmailTaken,
             SaveEmail, FindLinked, UpdateLink, FindPlaceholder, TikTokUpdate, TikTokCreate,
             SaveSuspended, AuthHandlerFails
  <1> QED
    BY <1>1, <1>2, <1>3, <1>4 DEF PeopleNext, PeopleStep

\* A suspension ends when unsuspendUser saves the row and not otherwise, while
\* one handler at a time works on it.
THEOREM SuspensionHolds == PeopleSpec => SuspensionHoldsUnlessRaced
  <1>1. PeopleAlone /\ [PeopleNext /\ raced' = raced \cup SharedPeople']_<<peopleVars, raced>>
          => [\A u \in suspended \ (suspended' \cup raced') :
                 \E p \in Procs : pc[p] = "unsuspend_save" /\ held[p].user = u]_<<suspended, raced>>
    BY SuspensionsKept
  <1> QED
    BY <1>1, PeopleAlwaysAlone, PTL DEF PeopleSpec, SuspensionHoldsUnlessRaced

=============================================================================
