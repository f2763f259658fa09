-------------------------------- MODULE Auth --------------------------------
(***************************************************************************)
(* AuthService, the e-mail part of UsersService.updateProfile and the      *)
(* suspension of users: how a row of users comes to be, which e-mail       *)
(* address and which TikTok account it has, whether the address is         *)
(* verified, and whether the user may sign in.                             *)
(*                                                                         *)
(* A user of TikTok has no address at first: the row gets a placeholder    *)
(* made of TikTok's open id, and the open id stands for it here.  Nobody   *)
(* signs up with a placeholder.  Passwords, login and refreshToken change  *)
(* no column that is modelled; a code that is older than 15 minutes is     *)
(* refused, which the failure action covers; mail that is lost leaves its  *)
(* code unused.  The guard's query for the user and the first query of the *)
(* handler are one step.                                                   *)
(***************************************************************************)
EXTENDS Calls

CONSTANTS
    Users,          \* rows that the users table may come to have
    NoUser,         \* a handler without a row
    Emails,         \* addresses that users give
    NoEmail,        \* a row that was never inserted
    OpenIds,        \* TikTok accounts, and the placeholder addresses
    NoOpenId,       \* tiktok_open_id IS NULL
    Codes,          \* verification codes
    NoCode          \* verification_code IS NULL

ASSUME AuthAssumption ==
    /\ NoUser \notin Users
    /\ Emails \cap OpenIds = {} /\ NoEmail \notin Emails \cup OpenIds
    /\ NoOpenId \notin OpenIds
    /\ NoCode \notin Codes

VARIABLES
    email,          \* users.email
    verified,       \* rows with email_verified
    emailCode,      \* verification_code
    suspended,      \* rows whose status is suspended
    linked,         \* tiktok_open_id
    byTikTok,       \* rows whose auth_type is tiktok
    onboarded,      \* rows whose onboarding_status is completed
    tokens,         \* users who hold a JWT
    held,           \* what a handler holds
    codeTo,         \* codeTo[c]: the address that code c was mailed to
    provedTo        \* the address that the code a user verified with was for

usersTable == <<email, verified, emailCode, suspended, linked, byTikTok, onboarded>>
authState == <<usersTable, tokens, held, codeTo, provedTo>>

Addresses == Emails \cup OpenIds

NothingHeld ==
    [user |-> NoUser, email |-> NoEmail, code |-> NoCode, open |-> NoOpenId,
     seenCode |-> NoCode, seenOpen |-> NoOpenId]

\* Tables that hold a few users already: who signed up by e-mail, and
\* verified the address or not, and who came by TikTok.
AuthInit ==
    /\ email \in [Users -> Addresses \cup {NoEmail}]
    /\ \A u, v \in Users : email[u] = email[v] => u = v \/ email[u] = NoEmail
    /\ byTikTok = {u \in Users : email[u] \in OpenIds}
    /\ verified \in SUBSET {u \in Users : email[u] # NoEmail}
    /\ byTikTok \subseteq verified
    /\ linked = [u \in Users |-> IF u \in byTikTok THEN email[u] ELSE NoOpenId]
    /\ emailCode = [u \in Users |-> NoCode]
    /\ suspended = {} /\ onboarded = {}
    /\ tokens = verified
    /\ held = [p \in Procs |-> NothingHeld]
    /\ codeTo = [c \in Codes |-> NoEmail]
    /\ provedTo = [u \in Users |->
                     IF u \in verified \ byTikTok THEN email[u] ELSE NoEmail]

Row(u) == email[u] # NoEmail
RowsWith(e) == {u \in Users : email[u] = e}
LinkedTo(o) == {u \in Users : linked[u] = o}

\* JwtStrategy.validate: a token counts while the row is active.
Signed(u) == u \in tokens \ suspended

Hold(p, held1, label) ==
    /\ held' = [held EXCEPT ![p] = held1]
    /\ Goto(p, label)

AuthDone(p) == Hold(p, NothingHeld, "idle")

-----------------------------------------------------------------------------
(* signup *)

\* User.findOne: the address is free.
SignUp(p, e) ==
    /\ Idle(p)
    /\ RowsWith(e) = {}
    /\ Hold(p, [NothingHeld EXCEPT !.email = e], "signup_create")
    /\ UNCHANGED <<usersTable, tokens, codeTo, provedTo>>

\* User.create: email is unique.
CreateUser(p) ==
    /\ pc[p] = "signup_create"
    /\ RowsWith(held[p].email) = {}
    /\ \E u \in Users :
          /\ ~Row(u)
          /\ email' = [email EXCEPT ![u] = held[p].email]
          /\ Hold(p, [held[p] EXCEPT !.user = u], "signup_code")
    /\ UNCHANGED <<verified, emailCode, suspended, linked, byTikTok, onboarded,
                   tokens, codeTo, provedTo>>

\* A fresh code is drawn and goes to address e.
IssueCode(u, e) ==
    \E c \in Codes :
        /\ codeTo[c] = NoEmail
        /\ codeTo' = [codeTo EXCEPT ![c] = e]
        /\ emailCode' = [emailCode EXCEPT ![u] = c]

\* The raw UPDATE sets every status of the new row, and the code is mailed.
SignupUpdate(p) ==
    LET u == held[p].user IN
    /\ pc[p] = "signup_code"
    /\ IssueCode(u, held[p].email)
    /\ verified' = verified \ {u}
    /\ suspended' = suspended \ {u}
    /\ onboarded' = onboarded \ {u}
    /\ AuthDone(p)
    /\ UNCHANGED <<email, linked, byTikTok, tokens, provedTo>>

-----------------------------------------------------------------------------
(* verifyEmail, resendVerificationCode *)

\* User.findOne: the row is there and is not verified.
ReadUnverified(p, e, c, label) ==
    /\ Idle(p)
    /\ \E u \in RowsWith(e) \ verified :
          Hold(p, [NothingHeld EXCEPT !.user = u, !.code = c, !.seenCode = emailCode[u]], label)
    /\ UNCHANGED <<usersTable, tokens, codeTo, provedTo>>

VerifyEmail(p, e, c) == codeTo[c] # NoEmail /\ ReadUnverified(p, e, c, "verify_compare")

ResendVerificationCode(p, e) == ReadUnverified(p, e, NoCode, "resend_update")

\* Mutant: there is a code, and nobody compares it.
CompareCodeAny(p) ==
    /\ pc[p] = "verify_compare"
    /\ emailCode[held[p].user] # NoCode
    /\ Hold(p, held[p], "verify_save")
    /\ UNCHANGED <<usersTable, tokens, codeTo, provedTo>>

\* The SELECT of the code.
CompareCode(p) ==
    /\ pc[p] = "verify_compare"
    /\ emailCode[held[p].user] = held[p].code
    /\ Hold(p, held[p], "verify_save")
    /\ UNCHANGED <<usersTable, tokens, codeTo, provedTo>>

\* user.save() clears the code only if the instance had one.  provedTo notes
\* whose address the code was for, if it is still the current one.
SaveVerified(p) ==
    LET u == held[p].user IN
    /\ pc[p] = "verify_save"
    /\ verified' = verified \cup {u}
    /\ emailCode' = IF held[p].seenCode = NoCode THEN emailCode
                    ELSE [emailCode EXCEPT ![u] = NoCode]
    /\ provedTo' = [provedTo EXCEPT ![u] =
                      IF emailCode[u] = held[p].code THEN codeTo[held[p].code] ELSE NoEmail]
    /\ tokens' = tokens \cup {u}
    /\ AuthDone(p)
    /\ UNCHANGED <<email, suspended, linked, byTikTok, onboarded, codeTo>>

\* Mutant: the UPDATE of signup.
ResendUpdateAll(p) ==
    /\ pc[p] = "resend_update"
    /\ IssueCode(held[p].user, email[held[p].user])
    /\ verified' = verified \ {held[p].user}
    /\ suspended' = suspended \ {held[p].user}
    /\ onboarded' = onboarded \ {held[p].user}
    /\ AuthDone(p)
    /\ UNCHANGED <<email, linked, byTikTok, tokens, provedTo>>

ResendUpdate(p) ==
    /\ pc[p] = "resend_update"
    /\ IssueCode(held[p].user, email[held[p].user])
    /\ AuthDone(p)
    /\ UNCHANGED <<email, verified, suspended, linked, byTikTok, onboarded, tokens, provedTo>>

-----------------------------------------------------------------------------
(* updateProfile with an e-mail address *)

\* Mutant: the address may be set again.
UpdateEmailAgain(p, u, e) ==
    /\ Idle(p)
    /\ Signed(u) /\ u \in byTikTok
    /\ Hold(p, [NothingHeld EXCEPT !.user = u, !.email = e], "profile_find")
    /\ UNCHANGED <<usersTable, tokens, codeTo, provedTo>>

\* User.findByPk: "Email can only be set once".
UpdateEmail(p, u, e) ==
    /\ Idle(p)
    /\ Signed(u) /\ u \in byTikTok /\ email[u] \in OpenIds
    /\ Hold(p, [NothingHeld EXCEPT !.user = u, !.email = e], "profile_find")
    /\ UNCHANGED <<usersTable, tokens, codeTo, provedTo>>

FindEmailTaken(p) ==
    /\ pc[p] = "profile_find"
    /\ RowsWith(held[p].email) \subseteq {held[p].user}
    /\ Hold(p, held[p], "profile_save")
    /\ UNCHANGED <<usersTable, tokens, codeTo, provedTo>>

\* user.save(): a placeholder was verified, the new address is not.
SaveEmail(p) ==
    LET u == held[p].user IN
    /\ pc[p] = "profile_save"
    /\ RowsWith(held[p].email) \subseteq {u}
    /\ email' = [email EXCEPT ![u] = held[p].email]
    /\ verified' = verified \ {u}
    /\ AuthDone(p)
    /\ UNCHANGED <<emailCode, suspended, linked, byTikTok, onboarded,
                   tokens, codeTo, provedTo>>

-----------------------------------------------------------------------------
(* tiktokCallback: linkTikTokToUser, findOrCreateUserByTikTok *)

\* The state token names a user who was signed in when the flow started.
LinkTikTok(p, u, o) ==
    /\ Idle(p)
    /\ u \in tokens
    /\ Hold(p, [NothingHeld EXCEPT !.user = u, !.open = o, !.seenOpen = linked[u]], "link_find")
    /\ UNCHANGED <<usersTable, tokens, codeTo, provedTo>>

FindLinked(p) ==
    /\ pc[p] = "link_find"
    /\ LinkedTo(held[p].open) \subseteq {held[p].user}
    /\ Hold(p, held[p], "link_update")
    /\ UNCHANGED <<usersTable, tokens, codeTo, provedTo>>

\* user.update() writes tiktok_open_id, which is unique, if it is another.
WriteOpenId(p) ==
    /\ LinkedTo(held[p].open) \subseteq {held[p].user}
    /\ linked' = IF held[p].open = held[p].seenOpen THEN linked
                 ELSE [linked EXCEPT ![held[p].user] = held[p].open]

UpdateLink(p) ==
    /\ pc[p] = "link_update"
    /\ WriteOpenId(p)
    /\ AuthDone(p)
    /\ UNCHANGED <<email, verified, emailCode, suspended, byTikTok, onboarded,
                   tokens, codeTo, provedTo>>

\* User.findOne by the open id: an active user signs in.
TikTokSignIn(p, o) ==
    /\ Idle(p)
    /\ IF LinkedTo(o) # {}
         THEN /\ LinkedTo(o) \cap suspended = {}
              /\ tokens' = tokens \cup LinkedTo(o)
              /\ AuthDone(p)
         ELSE /\ Hold(p, [NothingHeld EXCEPT !.open = o], "tiktok_email")
              /\ UNCHANGED tokens
    /\ UNCHANGED <<usersTable, codeTo, provedTo>>

\* User.findOne by the placeholder address.
FindPlaceholder(p) ==
    /\ pc[p] = "tiktok_email"
    /\ LET users == RowsWith(held[p].open) IN
       IF users = {} THEN Hold(p, held[p], "tiktok_create")
       ELSE \E u \in users :
               Hold(p, [held[p] EXCEPT !.user = u, !.seenOpen = linked[u]], "tiktok_update")
    /\ UNCHANGED <<usersTable, tokens, codeTo, provedTo>>

TikTokUpdate(p) ==
    /\ pc[p] = "tiktok_update"
    /\ WriteOpenId(p)
    /\ tokens' = tokens \cup {held[p].user}
    /\ AuthDone(p)
    /\ UNCHANGED <<email, verified, emailCode, suspended, byTikTok, onboarded, codeTo, provedTo>>

\* User.create: a placeholder counts as verified.
TikTokCreate(p) ==
    LET o == held[p].open IN
    /\ pc[p] = "tiktok_create"
    /\ RowsWith(o) = {} /\ LinkedTo(o) = {}
    /\ \E u \in Users :
          /\ ~Row(u)
          /\ email' = [email EXCEPT ![u] = o]
          /\ linked' = [linked EXCEPT ![u] = o]
          /\ verified' = verified \cup {u}
          /\ byTikTok' = byTikTok \cup {u}
          /\ tokens' = tokens \cup {u}
    /\ AuthDone(p)
    /\ UNCHANGED <<emailCode, suspended, onboarded, codeTo, provedTo>>

-----------------------------------------------------------------------------
(* AdminsService.suspendUser, unsuspendUser *)

SuspendUser(p, u) ==
    /\ Idle(p)
    /\ Row(u) /\ u \notin suspended
    /\ Hold(p, [NothingHeld EXCEPT !.user = u], "suspend_save")
    /\ UNCHANGED <<usersTable, tokens, codeTo, provedTo>>

UnsuspendUser(p, u) ==
    /\ Idle(p)
    /\ u \in suspended
    /\ Hold(p, [NothingHeld EXCEPT !.user = u], "unsuspend_save")
    /\ UNCHANGED <<usersTable, tokens, codeTo, provedTo>>

SaveSuspended(p) ==
    /\ pc[p] = "suspend_save"
    /\ suspended' = suspended \cup {held[p].user}
    /\ AuthDone(p)
    /\ UNCHANGED <<email, verified, emailCode, linked, byTikTok, onboarded,
                   tokens, codeTo, provedTo>>

SaveUnsuspended(p) ==
    /\ pc[p] = "unsuspend_save"
    /\ suspended' = suspended \ {held[p].user}
    /\ AuthDone(p)
    /\ UNCHANGED <<email, verified, emailCode, linked, byTikTok, onboarded,
                   tokens, codeTo, provedTo>>

-----------------------------------------------------------------------------
AuthLabels ==
    {"signup_create", "signup_code", "verify_compare", "verify_save", "resend_update",
     "profile_find", "profile_save", "link_find", "link_update",
     "tiktok_email", "tiktok_create", "tiktok_update", "suspend_save", "unsuspend_save"}

\* A refusal, or a statement that fails.
AuthHandlerFails(p) ==
    /\ pc[p] \in AuthLabels
    /\ AuthDone(p)
    /\ UNCHANGED <<usersTable, tokens, codeTo, provedTo>>

AuthRequest(p) ==
    \/ \E e \in Emails :
          \/ SignUp(p, e) \/ ResendVerificationCode(p, e)
          \/ \E c \in Codes : VerifyEmail(p, e, c)
          \/ \E u \in Users : UpdateEmail(p, u, e)
    \/ \E o \in OpenIds : TikTokSignIn(p, o) \/ \E u \in Users : LinkTikTok(p, u, o)

SuspensionRequest(p) == \E u \in Users : SuspendUser(p, u) \/ UnsuspendUser(p, u)

AuthStep(p) ==
    \/ CreateUser(p) \/ SignupUpdate(p)
    \/ CompareCode(p) \/ SaveVerified(p) \/ ResendUpdate(p)
    \/ FindEmailTaken(p) \/ SaveEmail(p)
    \/ FindLinked(p) \/ UpdateLink(p)
    \/ FindPlaceholder(p) \/ TikTokUpdate(p) \/ TikTokCreate(p)
    \/ SaveSuspended(p) \/ SaveUnsuspended(p)
    \/ AuthHandlerFails(p)

\* The row a handler works on.
AuthWorksOn(p) == {held[p].user} \ {NoUser}

-----------------------------------------------------------------------------
(* Properties *)

\* The tables, and that a row without an address has nothing else.
AuthTablesOK ==
    /\ email \in [Users -> Addresses \cup {NoEmail}]
    /\ verified \subseteq Users /\ suspended \subseteq Users
    /\ byTikTok \subseteq Users /\ onboarded \subseteq Users /\ tokens \subseteq Users
    /\ emailCode \in [Users -> Codes \cup {NoCode}]
    /\ linked \in [Users -> OpenIds \cup {NoOpenId}]
    /\ codeTo \in [Codes -> Addresses \cup {NoEmail}]
    /\ provedTo \in [Users -> Addresses \cup {NoEmail}]
    /\ \A u \in Users :
          ~Row(u) => /\ u \notin verified \cup suspended \cup byTikTok \cup onboarded \cup tokens
                     /\ linked[u] = NoOpenId

\* What a handler may hold.
Holdings ==
    [user : Users \cup {NoUser}, email : Emails \cup {NoEmail}, code : Codes \cup {NoCode},
     open : OpenIds \cup {NoOpenId}, seenCode : Codes \cup {NoCode},
     seenOpen : OpenIds \cup {NoOpenId}]

AuthTypeOK == AuthTablesOK /\ held \in [Procs -> Holdings]

\* "Email already verified": an address that a user gave and that counts as
\* verified was verified with the code that was current and that was mailed
\* to this very address, unless two handlers worked on the row at once.
VerifiedAddressProvedUnlessRaced ==
    \A u \in verified \ raced : email[u] \in Emails => provedTo[u] = email[u]

\* "Email can only be set once": a row keeps the address its user gave,
\* unless two handlers worked on it at once.
EmailSetOnceUnlessRaced ==
    [][\A u \in Users \ raced' : email[u] \in Emails => email'[u] = email[u]]_<<email, raced>>

\* A suspended user is active again only when unsuspendUser saves the row,
\* whatever else was read before and is saved now, unless signup has not
\* finished with the row.
SuspensionHoldsUnlessRaced ==
    [][\A u \in suspended \ (suspended' \cup raced') :
          \E p \in Procs : pc[p] = "unsuspend_save" /\ held[p].user = u]_<<suspended, raced>>

=============================================================================
