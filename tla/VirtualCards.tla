---------------------------- MODULE VirtualCards ----------------------------
(***************************************************************************)
(* CardsService without the funding of cards, and UsersService.verify-     *)
(* Identity: the steps of a user's onboarding at the external Sudo API,    *)
(* the customer that Sudo makes of the user, and the user's virtual cards. *)
(* Sudo is told first and the tables follow in later statements, so a      *)
(* handler that fails in between leaves the two apart.                     *)
(*                                                                         *)
(* users.sudoCustomerOnboardingData is one JSON column, saved as a whole   *)
(* from the instance that a handler read.  It is the set of the parts that *)
(* are filled in; "identity" is an identity with its number, which         *)
(* verifyIdentity never stores.  The balance that getCardById copies from  *)
(* Sudo is modelled in CardFunding.                                        *)
(***************************************************************************)
EXTENDS Requests, Naturals, FiniteSets

CONSTANTS
    Users,          \* rows of the users table
    NoUser,         \* a handler that works for nobody
    Customers,      \* customers that Sudo may come to have
    NoCustomer,     \* users without a row in sudo_customers
    Cards,          \* cards that Sudo may come to have
    NoCard,         \* a handler that works on no card
    Parts,          \* what completeOnboarding asks for: dob, address, identity
    AskedStatuses,  \* card statuses that updateCard is called with
    MaxCardCalls    \* bound: requests in one behaviour

ASSUME VirtualCardsAssumption ==
    /\ NoUser \notin Users
    /\ NoCustomer \notin Customers
    /\ NoCard \notin Cards
    /\ IsFiniteSet(Cards)
    /\ Customers \cap (Cards \cup Users) = {} /\ Cards \cap Users = {}
    /\ "identity" \in Parts /\ "completed" \notin Parts
    /\ AskedStatuses \subseteq {"active", "frozen", "closed", "pending"}
    /\ MaxCardCalls \in Nat

VARIABLES
    onboardingData, \* users.sudoCustomerOnboardingData
    customerRow,    \* customerRow[u]: the user's row in sudo_customers
    customerAt,     \* customerAt[k]: whose customer k is at Sudo
    cardStatus,     \* cards.status, "none" without a row
    cardHolder,     \* cards.user_id
    isDefault,      \* rows with cards.is_default
    cardAt,         \* cardAt[c]: Sudo's status of the card
    cUser, cCard,   \* the user and the card a handler works on
    cKind,          \* which operation it carries out
    seenData,       \* the onboarding data of the User instance it holds
    seenCard,       \* status and is_default of its Card instance
    asked,          \* what updateCard is asked to change
    fresh,          \* what Sudo made for it and no table has yet
    abandoned,      \* what Sudo made for handlers that then failed
    interrupted,    \* cards changed at Sudo, or meant to be, and not here
    closedOnce,     \* cards that were ever closed
    closedAgain,    \* users for whom deleteCard closed such a card again
    calls           \* requests so far

onboardingTables == <<onboardingData, customerRow, customerAt>>
cardsTables == <<cardStatus, cardHolder, isDefault, cardAt>>
cardLocals == <<cUser, cCard, cKind, seenData, seenCard, asked, fresh>>
cardHistory == <<abandoned, interrupted, closedOnce, closedAgain>>
cardsVars == <<pc, onboardingTables, cardsTables, cardLocals, cardHistory, calls>>

CardStatus == {"active", "frozen", "closed", "pending"}

mapStatusToSudo(s) ==
    CASE s = "active" -> "active"
      [] s \in {"frozen", "pending"} -> "inactive"
      [] s = "closed" -> "canceled"

NoCardSeen == [status |-> "none", default |-> FALSE]
NothingAsked == [status |-> "same", default |-> "same"]

Changes == [status : AskedStatuses \cup {"same"}, default : {"same", "yes", "no"}]
             \ {NothingAsked}

\* Users are new, or customers of Sudo since an earlier onboarding.
CardsInit ==
    /\ \E old \in SUBSET Users :
          /\ customerRow \in [Users -> Customers \cup {NoCustomer}]
          /\ \A u \in Users : customerRow[u] \in Customers <=> u \in old
          /\ \A u, v \in old : customerRow[u] = customerRow[v] => u = v
          /\ customerAt = [k \in Customers |->
                IF \E u \in old : customerRow[u] = k
                  THEN CHOOSE u \in old : customerRow[u] = k ELSE NoUser]
          /\ onboardingData = [u \in Users |->
                IF u \in old THEN Parts \cup {"completed"} ELSE {}]
    /\ calls = 0
    /\ cardStatus = [c \in Cards |-> "none"]
    /\ cardHolder = [c \in Cards |-> NoUser]
    /\ isDefault = {}
    /\ cardAt = [c \in Cards |-> "none"]
    /\ cUser = [p \in Procs |-> NoUser]
    /\ cCard = [p \in Procs |-> NoCard]
    /\ cKind = [p \in Procs |-> "none"]
    /\ seenData = [p \in Procs |-> {}]
    /\ seenCard = [p \in Procs |-> NoCardSeen]
    /\ asked = [p \in Procs |-> NothingAsked]
    /\ fresh = [p \in Procs |-> {}]
    /\ abandoned = {} /\ interrupted = {} /\ closedOnce = {} /\ closedAgain = {}

CardsOf(u) == {c \in Cards : cardHolder[c] = u}

\* The handler answers, with a result or an error.
CardDone(p) ==
    /\ cUser' = [cUser EXCEPT ![p] = NoUser]
    /\ cCard' = [cCard EXCEPT ![p] = NoCard]
    /\ cKind' = [cKind EXCEPT ![p] = "none"]
    /\ seenData' = [seenData EXCEPT ![p] = {}]
    /\ seenCard' = [seenCard EXCEPT ![p] = NoCardSeen]
    /\ asked' = [asked EXCEPT ![p] = NothingAsked]
    /\ fresh' = [fresh EXCEPT ![p] = {}]
    /\ Goto(p, "idle")

-----------------------------------------------------------------------------
(* saveOnboardingStep, completeOnboarding, verifyIdentity *)

\* User.findByPk(u).
ReadOnboarding(p, u, kind, label) ==
    /\ Idle(p)
    /\ cUser' = [cUser EXCEPT ![p] = u]
    /\ cKind' = [cKind EXCEPT ![p] = kind]
    /\ seenData' = [seenData EXCEPT ![p] = onboardingData[u]]
    /\ Goto(p, label)
    /\ UNCHANGED <<onboardingTables, cardsTables, cCard, seenCard, asked, fresh, cardHistory>>

SaveStep(p, u) == ReadOnboarding(p, u, "step", "step_save")
CompleteOnboarding(p, u) == ReadOnboarding(p, u, "complete", "cust_lookup")
VerifyIdentity(p, u) == ReadOnboarding(p, u, "verify", "cust_lookup")

\* The data of a step is not validated: it fills its part in or empties it.
\* Data equal to what was read is no change, and save() writes nothing.
SaveOnboardingStep(p) ==
    /\ pc[p] = "step_save"
    /\ \/ \E part \in Parts :
             \E data \in {seenData[p] \cup {part}, seenData[p] \ {part}} :
                onboardingData' = [onboardingData EXCEPT ![cUser[p]] = data]
       \/ UNCHANGED onboardingData
    /\ CardDone(p)
    /\ UNCHANGED <<customerRow, customerAt, cardsTables, cardHistory>>

\* completeOnboarding: "Validate all required fields".  verifyIdentity brings
\* its own.
FieldsComplete(p) == cKind[p] # "verify" => Parts \subseteq seenData[p]

\* Mutant: nobody looks for the customer.
FindCustomerNever(p) ==
    /\ pc[p] = "cust_lookup"
    /\ FieldsComplete(p)
    /\ Goto(p, "cust_sudo")
    /\ UNCHANGED <<cardLocals, onboardingTables, cardsTables, cardHistory>>

\* SudoCustomer.findOne.  completeOnboarding answers if there is one, and
\* otherwise refuses data that is not complete; verifyIdentity saves again.
FindCustomer(p) ==
    /\ pc[p] = "cust_lookup"
    /\ IF customerRow[cUser[p]] # NoCustomer
         THEN \/ cKind[p] = "complete" /\ CardDone(p)
              \/ cKind[p] = "card" /\ Goto(p, "card_again") /\ UNCHANGED cardLocals
              \/ cKind[p] = "verify" /\ Goto(p, "cust_mark") /\ UNCHANGED cardLocals
         ELSE /\ FieldsComplete(p)
              /\ Goto(p, "cust_sudo")
              /\ UNCHANGED cardLocals
    /\ UNCHANGED <<onboardingTables, cardsTables, cardHistory>>

\* sudoApiService.createCustomer.
createCustomer(k, u) ==
    /\ customerAt[k] = NoUser
    /\ customerAt' = [customerAt EXCEPT ![k] = u]

\* Sudo has the customer, its answer arrives or is lost.
CreateCustomerAtSudo(p) ==
    /\ pc[p] = "cust_sudo"
    /\ \E k \in Customers :
          /\ createCustomer(k, cUser[p])
          /\ \/ /\ fresh' = [fresh EXCEPT ![p] = {k}]
                /\ Goto(p, "cust_insert")
                /\ UNCHANGED <<cUser, cCard, cKind, seenData, seenCard, asked, abandoned>>
             \/ /\ abandoned' = abandoned \cup {k}
                /\ CardDone(p)
    /\ UNCHANGED <<onboardingData, customerRow, cardsTables, interrupted, closedOnce, closedAgain>>

\* Mutant: the row is left to a later request.
InsertCustomerLater(p) ==
    /\ pc[p] = "cust_insert"
    /\ abandoned' = abandoned \cup fresh[p]
    /\ fresh' = [fresh EXCEPT ![p] = {}]
    /\ Goto(p, "cust_save")
    /\ UNCHANGED <<cUser, cCard, cKind, seenData, seenCard, asked,
                   onboardingTables, cardsTables, interrupted, closedOnce, closedAgain>>

\* Mutant: an upsert.
InsertCustomerOver(p) ==
    /\ pc[p] = "cust_insert"
    /\ \E k \in fresh[p] : customerRow' = [customerRow EXCEPT ![cUser[p]] = k]
    /\ fresh' = [fresh EXCEPT ![p] = {}]
    /\ Goto(p, "cust_save")
    /\ UNCHANGED <<cUser, cCard, cKind, seenData, seenCard, asked,
                   onboardingData, customerAt, cardsTables, cardHistory>>

\* SudoCustomer.create: user_id is unique.
InsertCustomer(p) ==
    /\ pc[p] = "cust_insert"
    /\ customerRow[cUser[p]] = NoCustomer
    /\ \E k \in fresh[p] : customerRow' = [customerRow EXCEPT ![cUser[p]] = k]
    /\ fresh' = [fresh EXCEPT ![p] = {}]
    /\ Goto(p, "cust_save")
    /\ UNCHANGED <<cUser, cCard, cKind, seenData, seenCard, asked,
                   onboardingData, customerAt, cardsTables, cardHistory>>

\* What the handler makes of the data it read.  verifyIdentity keeps no
\* identity number, so that part is empty again; with a new customer the
\* other parts are filled in.
CompletedData(p) ==
    IF cKind[p] = "verify"
      THEN {(seenData[p] \ {"identity"}) \cup {"completed"} \cup more :
              more \in IF pc[p] = "cust_mark" THEN {{}} ELSE SUBSET (Parts \ {"identity"})}
      ELSE {seenData[p] \cup {"completed"}}

\* user.save(); createCardForUser looks for the customer again.
SaveCompleted(p) ==
    /\ pc[p] \in {"cust_mark", "cust_save"}
    /\ \E data \in CompletedData(p) :
          onboardingData' = [onboardingData EXCEPT ![cUser[p]] = data]
    /\ IF cKind[p] = "card"
         THEN Goto(p, "card_again") /\ UNCHANGED cardLocals
         ELSE CardDone(p)
    /\ UNCHANGED <<customerRow, customerAt, cardsTables, cardHistory>>

-----------------------------------------------------------------------------
(* createCardForUser *)

\* SudoCustomer.findOne.
CreateCard(p, u) ==
    /\ Idle(p)
    /\ cUser' = [cUser EXCEPT ![p] = u]
    /\ cKind' = [cKind EXCEPT ![p] = "card"]
    /\ Goto(p, IF customerRow[u] # NoCustomer THEN "card_create" ELSE "card_user")
    /\ UNCHANGED <<onboardingTables, cardsTables, cCard, seenData, seenCard,
                   asked, fresh, cardHistory>>

\* No customer: the user must have completed the onboarding, and
\* completeOnboarding reads the user once more.
CreateCardReadUser(p) ==
    /\ pc[p] = "card_user"
    /\ "completed" \in onboardingData[cUser[p]]
    /\ seenData' = [seenData EXCEPT ![p] = onboardingData[cUser[p]]]
    /\ Goto(p, "cust_lookup")
    /\ UNCHANGED <<onboardingTables, cardsTables, cUser, cCard, cKind, seenCard,
                   asked, fresh, cardHistory>>

FindCustomerAgain(p) ==
    /\ pc[p] = "card_again"
    /\ customerRow[cUser[p]] # NoCustomer
    /\ Goto(p, "card_create")
    /\ UNCHANGED <<onboardingTables, cardsTables, cardLocals, cardHistory>>

\* sudoApiService.createCard.
createCard(c) ==
    /\ cardAt[c] = "none"
    /\ cardAt' = [cardAt EXCEPT ![c] = "active"]

\* The card exists at Sudo, the answer arrives or is lost.
CreateCardAtSudo(p) ==
    /\ pc[p] = "card_create"
    /\ \E c \in Cards :
          /\ createCard(c)
          /\ \/ /\ fresh' = [fresh EXCEPT ![p] = {c}]
                /\ cCard' = [cCard EXCEPT ![p] = c]
                /\ Goto(p, "card_insert")
                /\ UNCHANGED <<cUser, cKind, seenData, seenCard, asked, abandoned>>
             \/ /\ abandoned' = abandoned \cup {c}
                /\ CardDone(p)
    /\ UNCHANGED <<onboardingTables, cardStatus, cardHolder, isDefault,
                   interrupted, closedOnce, closedAgain>>

\* Card.create.
InsertCard(p) ==
    /\ pc[p] = "card_insert"
    /\ cardStatus' = [cardStatus EXCEPT ![cCard[p]] = "active"]
    /\ cardHolder' = [cardHolder EXCEPT ![cCard[p]] = cUser[p]]
    /\ fresh' = [fresh EXCEPT ![p] = {}]
    /\ Goto(p, "card_count")
    /\ UNCHANGED <<onboardingTables, isDefault, cardAt, cUser, cCard, cKind,
                   seenData, seenCard, asked, cardHistory>>

\* Card.count, closed cards included; the only card becomes the default one.
CountCards(p) ==
    /\ pc[p] = "card_count"
    /\ IF Cardinality(CardsOf(cUser[p])) = 1
         THEN Goto(p, "card_first") /\ UNCHANGED cardLocals
         ELSE CardDone(p)
    /\ UNCHANGED <<onboardingTables, cardsTables, cardHistory>>

SaveFirstCard(p) ==
    /\ pc[p] = "card_first"
    /\ isDefault' = isDefault \cup {cCard[p]}
    /\ CardDone(p)
    /\ UNCHANGED <<onboardingTables, cardStatus, cardHolder, cardAt, cardHistory>>

-----------------------------------------------------------------------------
(* updateCard with freezeCard, unfreezeCard and setDefaultCard; deleteCard *)

\* getCardById: the row exists and is the user's.
ReadCard(p, c, kind, change, label) ==
    /\ Idle(p)
    /\ cardStatus[c] # "none"
    /\ cUser' = [cUser EXCEPT ![p] = cardHolder[c]]
    /\ cCard' = [cCard EXCEPT ![p] = c]
    /\ cKind' = [cKind EXCEPT ![p] = kind]
    /\ seenCard' = [seenCard EXCEPT ![p] =
                      [status |-> cardStatus[c], default |-> c \in isDefault]]
    /\ asked' = [asked EXCEPT ![p] = change]
    /\ Goto(p, label)
    /\ UNCHANGED <<onboardingTables, cardsTables, seenData, fresh, cardHistory>>

UpdateCard(p, c, change) ==
    ReadCard(p, c, "update", change,
             IF change.status # "same" THEN "card_sudo"
             ELSE IF change.default = "yes" THEN "card_unset" ELSE "card_save")

DeleteCard(p, c) == ReadCard(p, c, "delete", NothingAsked, "card_cancel")

\* sudoApiService.updateCard.
updateCard(c, status) == cardAt' = [cardAt EXCEPT ![c] = status]

\* Mutant: an error from Sudo is logged and the update goes on.
UpdateCardAtSudoLogged(p) ==
    /\ pc[p] = "card_sudo"
    /\ \/ updateCard(cCard[p], mapStatusToSudo(asked[p].status))
       \/ UNCHANGED cardAt
    /\ Goto(p, IF asked[p].default = "yes" THEN "card_unset" ELSE "card_save")
    /\ UNCHANGED <<onboardingTables, cardStatus, cardHolder, isDefault,
                   cardLocals, cardHistory>>

\* An error from Sudo ends the handler.
UpdateCardAtSudo(p) ==
    /\ pc[p] = "card_sudo"
    /\ updateCard(cCard[p], mapStatusToSudo(asked[p].status))
    /\ Goto(p, IF asked[p].default = "yes" THEN "card_unset" ELSE "card_save")
    /\ UNCHANGED <<onboardingTables, cardStatus, cardHolder, isDefault,
                   cardLocals, cardHistory>>

\* Mutant: the other cards stay default.
UnsetOtherDefaultsNever(p) ==
    /\ pc[p] = "card_unset"
    /\ Goto(p, "card_save")
    /\ UNCHANGED <<onboardingTables, cardsTables, cardLocals, cardHistory>>

\* Card.update({isDefault: false}) for the user's other cards.
UnsetOtherDefaults(p) ==
    /\ pc[p] = "card_unset"
    /\ isDefault' = isDefault \ (CardsOf(cUser[p]) \ {cCard[p]})
    /\ Goto(p, "card_save")
    /\ UNCHANGED <<onboardingTables, cardStatus, cardHolder, cardAt,
                   cardLocals, cardHistory>>

\* card.save() writes a column only if it differs from the one read.
WriteStatus(c, status, seen) ==
    cardStatus' = IF status = seen THEN cardStatus
                  ELSE [cardStatus EXCEPT ![c] = status]

WriteDefault(c, default, seen) ==
    isDefault' = IF default = seen THEN isDefault
                 ELSE IF default THEN isDefault \cup {c} ELSE isDefault \ {c}

SaveCard(p) ==
    LET c == cCard[p]
        status == IF asked[p].status = "same" THEN seenCard[p].status ELSE asked[p].status
        default == IF asked[p].default = "same" THEN seenCard[p].default
                   ELSE asked[p].default = "yes" IN
    /\ pc[p] = "card_save"
    /\ WriteStatus(c, status, seenCard[p].status)
    /\ WriteDefault(c, default, seenCard[p].default)
    /\ closedOnce' = closedOnce \cup {b \in {c} : status = "closed"}
    /\ CardDone(p)
    /\ UNCHANGED <<onboardingTables, cardHolder, cardAt, abandoned, interrupted, closedAgain>>

\* Sudo cancels the card, or its error is logged and forgotten.
CancelAtSudo(p) ==
    /\ pc[p] = "card_cancel"
    /\ \/ /\ updateCard(cCard[p], "canceled")
          /\ UNCHANGED interrupted
       \/ /\ interrupted' = interrupted \cup {cCard[p]}
          /\ UNCHANGED cardAt
    /\ Goto(p, "card_close")
    /\ UNCHANGED <<onboardingTables, cardStatus, cardHolder, isDefault,
                   cardLocals, abandoned, closedOnce, closedAgain>>

\* card.save(): is_default stays as it is; if it was set, another card is
\* looked for.
CloseCard(p) ==
    /\ pc[p] = "card_close"
    /\ WriteStatus(cCard[p], "closed", seenCard[p].status)
    /\ closedOnce' = closedOnce \cup {cCard[p]}
    /\ closedAgain' = closedAgain \cup {u \in {cUser[p]} : cCard[p] \in closedOnce}
    /\ IF seenCard[p].default
         THEN Goto(p, "card_other") /\ UNCHANGED cardLocals
         ELSE CardDone(p)
    /\ UNCHANGED <<onboardingTables, cardHolder, isDefault, cardAt,
                   abandoned, interrupted>>

OpenCards(u) == {c \in CardsOf(u) : cardStatus[c] # "closed"}

\* Card.findOne of the other open cards; the newest, here any.
FindOtherCard(p) ==
    /\ pc[p] = "card_other"
    /\ LET others == OpenCards(cUser[p]) \ {cCard[p]} IN
       IF others = {} THEN CardDone(p)
       ELSE \E c \in others :
              /\ cCard' = [cCard EXCEPT ![p] = c]
              /\ seenCard' = [seenCard EXCEPT ![p] =
                                [status |-> cardStatus[c], default |-> c \in isDefault]]
              /\ Goto(p, "card_next")
              /\ UNCHANGED <<cUser, cKind, seenData, asked, fresh>>
    /\ UNCHANGED <<onboardingTables, cardsTables, cardHistory>>

SaveOtherCard(p) ==
    /\ pc[p] = "card_next"
    /\ WriteDefault(cCard[p], TRUE, seenCard[p].default)
    /\ CardDone(p)
    /\ UNCHANGED <<onboardingTables, cardStatus, cardHolder, cardAt, cardHistory>>

-----------------------------------------------------------------------------
CustomerLabels == {"step_save", "cust_lookup", "cust_sudo", "cust_insert",
                   "cust_mark", "cust_save"}
CreateLabels == {"card_user", "card_again", "card_create", "card_insert",
                 "card_count", "card_first"}
ChangeLabels == {"card_sudo", "card_unset", "card_save", "card_cancel",
                 "card_close", "card_other", "card_next"}
CardLabels == CustomerLabels \cup CreateLabels \cup ChangeLabels

\* Sudo has, or may have, changed the card, and the row does not say so yet.
SudoAhead(p) ==
    \/ pc[p] \in {"card_unset", "card_save"} /\ asked[p].status # "same"
    \/ pc[p] = "card_close"

\* The handler ends with an error: a refusal, a statement that fails, Sudo's
\* error, or an answer of Sudo's that is lost after it changed the card.
CardHandlerFails(p) ==
    /\ pc[p] \in CardLabels
    /\ abandoned' = abandoned \cup fresh[p]
    /\ \/ /\ interrupted' = interrupted \cup {c \in {cCard[p]} : SudoAhead(p)}
          /\ UNCHANGED cardAt
       \/ /\ pc[p] = "card_sudo"
          /\ interrupted' = interrupted \cup {cCard[p]}
          /\ updateCard(cCard[p], mapStatusToSudo(asked[p].status))
    /\ CardDone(p)
    /\ UNCHANGED <<onboardingTables, cardStatus, cardHolder, isDefault, closedOnce, closedAgain>>

CardsRequest(p) ==
    \/ \E u \in Users :
          \/ SaveStep(p, u) \/ CompleteOnboarding(p, u) \/ VerifyIdentity(p, u)
          \/ CreateCard(p, u)
    \/ \E c \in Cards :
          \/ \E change \in Changes : UpdateCard(p, c, change)
          \/ DeleteCard(p, c)

CardsStep(p) ==
    \/ SaveOnboardingStep(p)
    \/ FindCustomer(p) \/ CreateCustomerAtSudo(p) \/ InsertCustomer(p) \/ SaveCompleted(p)
    \/ CreateCardReadUser(p) \/ FindCustomerAgain(p) \/ CreateCardAtSudo(p)
    \/ InsertCard(p) \/ CountCards(p) \/ SaveFirstCard(p)
    \/ UpdateCardAtSudo(p) \/ UnsetOtherDefaults(p) \/ SaveCard(p)
    \/ CancelAtSudo(p) \/ CloseCard(p) \/ FindOtherCard(p) \/ SaveOtherCard(p)
    \/ CardHandlerFails(p)

CardsNext ==
    \E p \in Procs :
        \/ calls < MaxCardCalls /\ CardsRequest(p) /\ calls' = calls + 1
        \/ CardsStep(p) /\ UNCHANGED calls

\* The user and the card that a handler works on.
CardsWorksOn(p) == ({cUser[p]} \ {NoUser}) \cup ({cCard[p]} \ {NoCard})

SharedCards == Shared(CardsWorksOn)

CardsStart == RequestsInit /\ CardsInit

CardsSpec ==
    /\ CardsStart
    /\ [][CardsNext /\ raced' = raced \cup SharedCards']_<<cardsVars, raced>>

-----------------------------------------------------------------------------
(* Properties *)

\* Types of the tables, of Sudo and of the history variables.
CardTablesOK ==
    /\ onboardingData \in [Users -> SUBSET (Parts \cup {"completed"})]
    /\ customerRow \in [Users -> Customers \cup {NoCustomer}]
    /\ customerAt \in [Customers -> Users \cup {NoUser}]
    /\ cardStatus \in [Cards -> CardStatus \cup {"none"}]
    /\ cardHolder \in [Cards -> Users \cup {NoUser}]
    /\ isDefault \subseteq Cards
    /\ cardAt \in [Cards -> {"none", "active", "inactive", "canceled"}]
    /\ abandoned \subseteq Customers \cup Cards
    /\ interrupted \subseteq Cards /\ closedOnce \subseteq Cards
    /\ closedAgain \subseteq Users
    /\ calls \in 0 .. MaxCardCalls
    /\ \A c \in Cards : cardStatus[c] # "none" <=> cardHolder[c] \in Users

\* Types of what handlers hold.
CardMemoryOK ==
    /\ pc \in [Procs -> CardLabels \cup {"idle"}]
    /\ cUser \in [Procs -> Users \cup {NoUser}]
    /\ cCard \in [Procs -> Cards \cup {NoCard}]
    /\ cKind \in [Procs -> {"none", "step", "complete", "verify", "card", "update", "delete"}]
    /\ seenData \in [Procs -> SUBSET (Parts \cup {"completed"})]
    /\ seenCard \in [Procs -> [status : CardStatus \cup {"none"}, default : BOOLEAN]]
    /\ asked \in [Procs -> Changes \cup {NothingAsked}]
    /\ fresh \in [Procs -> SUBSET (Customers \cup Cards)]
    /\ \A p \in Procs : pc[p] # "idle" => cUser[p] \in Users

CardsTypeOK == CardTablesOK /\ CardMemoryOK

\* "To create cards, complete your profile setup": a user whose onboarding
\* is marked completed has a row in sudo_customers, however the saves of the
\* JSON column interleave and whatever fails.
CompletedHasCustomer ==
    \A u \in Users : "completed" \in onboardingData[u] => customerRow[u] # NoCustomer

\* What a handler knows while it is suspended stays true whatever the others
\* do: the onboarding it saw completed is that of a customer, the customer or
\* card in its hands is the one that Sudo made for it, and its card exists.
CardHandlerSound(p) ==
    /\ pc[p] = "idle" => seenData[p] = {}
    /\ "completed" \in seenData[p] => cUser[p] \in Users
    /\ "completed" \in seenData[p] \/ pc[p] \in {"cust_mark", "cust_save"} =>
          customerRow[cUser[p]] # NoCustomer
    /\ pc[p] = "cust_insert" =>
          \E k \in Customers : fresh[p] = {k} /\ customerAt[k] = cUser[p]
    /\ pc[p] = "card_insert" => cCard[p] \in Cards /\ fresh[p] = {cCard[p]}
    /\ pc[p] \notin {"cust_insert", "card_insert"} => fresh[p] = {}
    /\ pc[p] \in ChangeLabels \cup {"card_count", "card_first"} =>
          cCard[p] \in Cards /\ cardStatus[cCard[p]] # "none"
    /\ pc[p] = "card_sudo" => asked[p].status \in AskedStatuses

CardHandlersSound == \A p \in Procs : CardHandlerSound(p)

\* What the tables say of a user's cards and customer is well-formed, a user
\* who may create cards is a customer, and handlers work with what exists.
CardsInv == CardsTypeOK /\ CompletedHasCustomer /\ CardHandlersSound

\* completeOnboarding and verifyIdentity look for a customer before they make
\* one: Sudo has one customer for a user, unless two handlers worked for the
\* user at once or one failed after Sudo had made it.
OneCustomerUnlessRaced ==
    \A k, l \in Customers :
        /\ customerAt[k] \in Users \ raced /\ customerAt[k] = customerAt[l]
        /\ {k, l} \cap abandoned = {}
        => k = l

\* Every customer and every card at Sudo is in its table, in the hands of a
\* handler, or was given up by a handler that failed: the backend never
\* drops one, and never replaces one by another.
SudoAccountedFor ==
    /\ \A k \in Customers :
          customerAt[k] # NoUser =>
              \/ customerRow[customerAt[k]] = k
              \/ k \in abandoned
              \/ \E p \in Procs : k \in fresh[p]
    /\ \A c \in Cards :
          cardAt[c] # "none" =>
              \/ cardStatus[c] # "none"
              \/ c \in abandoned
              \/ \E p \in Procs : c \in fresh[p]

\* "Map internal card status to Sudo API status": a card is frozen, open or
\* closed here as it is at Sudo, unless two handlers worked on it at once,
\* one failed between the two, or Sudo's refusal to cancel it was ignored.
StatusAgreesUnlessRaced ==
    \A c \in Cards \ (raced \cup interrupted) :
        cardStatus[c] # "none" =>
            \/ cardAt[c] = mapStatusToSudo(cardStatus[c])
            \/ \E p \in Procs : cCard[p] = c /\ SudoAhead(p)

\* "Unset other default cards": a user has at most one default card that is
\* open, unless two handlers worked for the user at once, one of the cards
\* was closed before and reopened, for deleteCard leaves is_default set, or
\* deleteCard was called for a closed card: it takes that for the default
\* card still and makes another one default.
OneDefaultUnlessRaced ==
    \A b, c \in isDefault \ closedOnce :
        cardHolder[b] = cardHolder[c] /\ cardHolder[b] \notin raced \cup closedAgain
            => b = c

=============================================================================
