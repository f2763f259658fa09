-------------------------- MODULE VirtualCardsProofs --------------------------
(***************************************************************************)
(* Proofs about the customers and cards that Sudo makes.                   *)
(*                                                                         *)
(* CardsSound holds whatever the handlers do at once and wherever they     *)
(* fail: what they know while they are suspended stays true, a completed   *)
(* onboarding is that of a customer, and nothing Sudo made is dropped.     *)
(* CardsAlone, on top of it, is about the users and cards that were never  *)
(* worked on twice at once: there what a handler read is still so when it  *)
(* writes, hence one customer, one status and one default card.            *)
(***************************************************************************)
EXTENDS VirtualCards, FiniteSetTheorems, TLAPS

\* The inductive invariant.
CardsSound == CardsInv /\ SudoAccountedFor

-----------------------------------------------------------------------------
(* A step of one handler, as the others and the tables see it *)

\* The memory of the other handlers is theirs alone.
OthersKept(p) ==
    \A q \in Procs \ {p} :
        /\ pc'[q] = pc[q] /\ cUser'[q] = cUser[q] /\ cCard'[q] = cCard[q]
        /\ seenData'[q] = seenData[q] /\ asked'[q] = asked[q] /\ fresh'[q] = fresh[q]

\* Rows are never removed, nor what is known of Sudo.
TablesGrow ==
    /\ \A u \in Users : customerRow[u] # NoCustomer => customerRow'[u] = customerRow[u]
    /\ \A k \in Customers : customerAt[k] # NoUser => customerAt'[k] = customerAt[k]
    /\ \A c \in Cards : cardStatus[c] # "none" => cardStatus'[c] # "none"
    /\ abandoned \subseteq abandoned'

\* What Sudo makes in the step, or made for the handler before, is kept.
MadeKept(p) ==
    /\ \A k \in Customers :
          customerAt'[k] # NoUser /\ (customerAt[k] = NoUser \/ k \in fresh[p]) =>
              customerRow'[customerAt'[k]] = k \/ k \in abandoned' \cup fresh'[p]
    /\ \A c \in Cards :
          cardAt'[c] # "none" /\ (cardAt[c] = "none" \/ c \in fresh[p]) =>
              cardStatus'[c] # "none" \/ c \in abandoned' \cup fresh'[p]

\* A step that looks like this keeps everything sound.
LEMMA StepKeepsSound ==
    ASSUME CardsSound, NEW p \in Procs,
           CardsTypeOK', CompletedHasCustomer', CardHandlerSound(p)',
           OthersKept(p), TablesGrow, MadeKept(p)
    PROVE  CardsSound'
  <1> USE DEF CardsSound, CardsInv, CardsTypeOK
  <1>1. ASSUME NEW q \in Procs, q # p
        PROVE  CardHandlerSound(q)'
    <2>1. /\ pc'[q] = pc[q] /\ cUser'[q] = cUser[q] /\ cCard'[q] = cCard[q]
          /\ seenData'[q] = seenData[q] /\ asked'[q] = asked[q] /\ fresh'[q] = fresh[q]
      BY <1>1 DEF OthersKept
    <2>2. CardHandlerSound(q)
      BY DEF CardHandlersSound
    <2>3. pc[q] # "idle" => cUser[q] \in Users
      BY DEF CardMemoryOK
    <2>4. customerRow[cUser[q]] # NoCustomer /\ cUser[q] \in Users
            => customerRow'[cUser[q]] # NoCustomer
      BY DEF TablesGrow
    <2>6. cCard[q] \in Cards /\ cardStatus[cCard[q]] # "none"
            => cardStatus'[cCard[q]] # "none"
      BY DEF TablesGrow
    <2>5. \A k \in Customers : cUser[q] \in Users /\ customerAt[k] = cUser[q]
            => customerAt'[k] = cUser[q]
      BY VirtualCardsAssumption DEF TablesGrow
    <2> QED
      BY <2>1, <2>2, <2>3, <2>4, <2>5, <2>6 DEF CardHandlerSound
  <1>2. CardHandlersSound'
    BY <1>1 DEF CardHandlersSound
  <1>3. ASSUME NEW k \in Customers, customerAt'[k] # NoUser
        PROVE  \/ customerRow'[customerAt'[k]] = k
               \/ k \in abandoned'
               \/ \E q \in Procs : k \in fresh'[q]
    <2>1. CASE customerAt[k] = NoUser \/ k \in fresh[p]
      BY <1>3, <2>1 DEF MadeKept
    <2>2. CASE customerAt[k] # NoUser /\ k \notin fresh[p]
      <3>1. customerAt'[k] = customerAt[k] /\ customerAt[k] \in Users
        BY <2>2 DEF TablesGrow, CardTablesOK
      <3>2. CASE customerRow[customerAt[k]] = k
        BY <3>1, <3>2, VirtualCardsAssumption DEF TablesGrow
      <3>3. CASE k \in abandoned
        BY <3>3 DEF TablesGrow
      <3>4. CASE \E q \in Procs : k \in fresh[q]
        BY <2>2, <3>4 DEF OthersKept
      <3> QED
        BY <2>2, <3>2, <3>3, <3>4 DEF SudoAccountedFor
    <2> QED
      BY <2>1, <2>2
  <1>4. ASSUME NEW c \in Cards, cardAt'[c] # "none"
        PROVE  \/ cardStatus'[c] # "none"
               \/ c \in abandoned'
               \/ \E q \in Procs : c \in fresh'[q]
    <2>1. CASE cardAt[c] = "none" \/ c \in fresh[p]
      BY <1>4, <2>1 DEF MadeKept
    <2>2. CASE cardAt[c] # "none" /\ c \notin fresh[p]
      BY <2>2 DEF SudoAccountedFor, TablesGrow, OthersKept
    <2> QED
      BY <2>1, <2>2
  <1> QED
    BY <1>2, <1>3, <1>4 DEF SudoAccountedFor

\* A handler that answers forgets what it held.
LEMMA CardDoneKeeps ==
    ASSUME CardMemoryOK, NEW p \in Procs, CardDone(p)
    PROVE  /\ CardMemoryOK' /\ OthersKept(p) /\ CardHandlerSound(p)'
           /\ fresh'[p] = {}
  <1> USE DEF CardMemoryOK, CardDone, Goto
  <1>1. CardMemoryOK'
    BY DEF CardStatus, NothingAsked, NoCardSeen
  <1>2. OthersKept(p)
    BY DEF OthersKept
  <1>3. CardHandlerSound(p)' /\ fresh'[p] = {}
    BY DEF CardHandlerSound, ChangeLabels
  <1> QED
    BY <1>1, <1>2, <1>3

-----------------------------------------------------------------------------
(* The steps of the handlers *)

\* saveOnboardingStep, completeOnboarding and verifyIdentity.
LEMMA CustomerStepSound ==
    ASSUME CardsSound, NEW p \in Procs, UNCHANGED calls,
           SaveOnboardingStep(p) \/ FindCustomer(p) \/ CreateCustomerAtSudo(p) \/ InsertCustomer(p) \/ SaveCompleted(p)
    PROVE  CardsSound'
  <1> USE VirtualCardsAssumption
  <1> USE DEF onboardingTables, cardsTables, cardLocals, cardHistory
  <1>0. CardTablesOK /\ CardMemoryOK /\ CompletedHasCustomer /\ CardHandlerSound(p)
    BY DEF CardsSound, CardsInv, CardsTypeOK, CardHandlersSound
  <1> USE <1>0
  <1>1. CASE SaveOnboardingStep(p)
    <2> USE <1>1 DEF SaveOnboardingStep
    <2>1. CardTablesOK' /\ TablesGrow
      BY DEF CardTablesOK, CardMemoryOK, CardHandlerSound, TablesGrow, CardStatus, ChangeLabels, Changes, NothingAsked
    <2>2. CardMemoryOK' /\ OthersKept(p)
      BY CardDoneKeeps DEF CardMemoryOK, OthersKept, Goto, CardHandlerSound, CardLabels, CustomerLabels, CreateLabels, ChangeLabels
    <2>3. CardHandlerSound(p)'
      BY CardDoneKeeps DEF CardMemoryOK, CardTablesOK, CardHandlerSound, Goto, ChangeLabels
    <2>4. CompletedHasCustomer'
      BY DEF CompletedHasCustomer, CardTablesOK, CardMemoryOK, CardHandlerSound
    <2>5. MadeKept(p)
      BY CardDoneKeeps DEF MadeKept, CardTablesOK, CardHandlerSound, ChangeLabels
    <2> QED
      BY <2>1, <2>2, <2>3, <2>4, <2>5, StepKeepsSound DEF CardsTypeOK
  <1>2. CASE FindCustomer(p)
    <2> USE <1>2 DEF FindCustomer, FieldsComplete
    <2>1. CardTablesOK' /\ TablesGrow
      BY DEF CardTablesOK, CardMemoryOK, CardHandlerSound, TablesGrow, CardStatus, ChangeLabels, Changes, NothingAsked
    <2>2. CardMemoryOK' /\ OthersKept(p)
      BY CardDoneKeeps DEF CardMemoryOK, OthersKept, Goto, CardHandlerSound, CardLabels, CustomerLabels, CreateLabels, ChangeLabels
    <2>3. CardHandlerSound(p)'
      BY CardDoneKeeps DEF CardMemoryOK, CardTablesOK, CardHandlerSound, Goto, ChangeLabels
    <2>4. CompletedHasCustomer'
      BY DEF CompletedHasCustomer, CardTablesOK, CardMemoryOK, CardHandlerSound
    <2>5. MadeKept(p)
      BY CardDoneKeeps DEF MadeKept, CardTablesOK, CardHandlerSound, ChangeLabels
    <2> QED
      BY <2>1, <2>2, <2>3, <2>4, <2>5, StepKeepsSound DEF CardsTypeOK
  <1>3. CASE CreateCustomerAtSudo(p)
    <2> USE <1>3 DEF createCustomer
    <2> DEFINE Answered(k) ==
                 /\ fresh' = [fresh EXCEPT ![p] = {k}]
                 /\ Goto(p, "cust_insert")
                 /\ UNCHANGED <<cUser, cCard, cKind, seenData, seenCard, asked, abandoned>>
               Lost(k) == abandoned' = abandoned \cup {k} /\ CardDone(p)
    <2>6. PICK k \in Customers : createCustomer(k, cUser[p]) /\ (Answered(k) \/ Lost(k))
      BY DEF CreateCustomerAtSudo
    <2>7. /\ pc[p] = "cust_sudo" /\ fresh[p] = {} /\ cUser[p] \in Users
          /\ UNCHANGED <<onboardingData, customerRow, cardsTables, interrupted, closedOnce, closedAgain>>
      BY DEF CreateCustomerAtSudo, CardHandlerSound, CardMemoryOK
    <2>1. CardTablesOK' /\ TablesGrow
      BY <2>6, <2>7 DEF CardTablesOK, TablesGrow
    <2>2. CardMemoryOK' /\ OthersKept(p)
      <3>1. CASE Answered(k)
        BY <2>7, <3>1 DEF CardMemoryOK, OthersKept, Goto, CardLabels, CustomerLabels, CreateLabels, ChangeLabels
      <3> QED
        BY <2>6, <3>1, CardDoneKeeps
    <2>3. CardHandlerSound(p)'
      <3>1. CASE Answered(k)
        BY <2>6, <2>7, <3>1 DEF CardMemoryOK, CardTablesOK, CardHandlerSound, Goto, ChangeLabels
      <3> QED
        BY <2>6, <3>1, CardDoneKeeps
    <2>4. CompletedHasCustomer'
      BY <2>7 DEF CompletedHasCustomer
    <2>5. MadeKept(p)
      <3>1. CASE Answered(k)
        BY <2>6, <2>7, <3>1 DEF MadeKept, CardTablesOK, CardMemoryOK
      <3>2. CASE Lost(k)
        BY <2>6, <2>7, <3>2 DEF MadeKept, CardTablesOK
      <3> QED
        BY <2>6, <3>1, <3>2
    <2> QED
      BY <2>1, <2>2, <2>3, <2>4, <2>5, StepKeepsSound DEF CardsTypeOK
  <1>4. CASE InsertCustomer(p)
    <2> USE <1>4 DEF InsertCustomer
    <2>1. CardTablesOK' /\ TablesGrow
      BY DEF CardTablesOK, CardMemoryOK, CardHandlerSound, TablesGrow, CardStatus, ChangeLabels, Changes, NothingAsked
    <2>2. CardMemoryOK' /\ OthersKept(p)
      BY CardDoneKeeps DEF CardMemoryOK, OthersKept, Goto, CardHandlerSound, CardLabels, CustomerLabels, CreateLabels, ChangeLabels
    <2>3. CardHandlerSound(p)'
      BY CardDoneKeeps DEF CardMemoryOK, CardTablesOK, CardHandlerSound, Goto, ChangeLabels
    <2>4. CompletedHasCustomer'
      BY DEF CompletedHasCustomer, CardTablesOK, CardMemoryOK, CardHandlerSound
    <2>5. MadeKept(p)
      BY CardDoneKeeps DEF MadeKept, CardTablesOK, CardHandlerSound, ChangeLabels
    <2> QED
      BY <2>1, <2>2, <2>3, <2>4, <2>5, StepKeepsSound DEF CardsTypeOK
  <1>5. CASE SaveCompleted(p)
    <2> USE <1>5 DEF SaveCompleted, CompletedData
    <2>1. CardTablesOK' /\ TablesGrow
      BY DEF CardTablesOK, CardMemoryOK, CardHandlerSound, TablesGrow, CardStatus, ChangeLabels, Changes, NothingAsked
    <2>2. CardMemoryOK' /\ OthersKept(p)
      BY CardDoneKeeps DEF CardMemoryOK, OthersKept, Goto, CardHandlerSound, CardLabels, CustomerLabels, CreateLabels, ChangeLabels
    <2>3. CardHandlerSound(p)'
      BY CardDoneKeeps DEF CardMemoryOK, CardTablesOK, CardHandlerSound, Goto, ChangeLabels
    <2>4. CompletedHasCustomer'
      BY DEF CompletedHasCustomer, CardTablesOK, CardMemoryOK, CardHandlerSound
    <2>5. MadeKept(p)
      BY CardDoneKeeps DEF MadeKept, CardTablesOK, CardHandlerSound, ChangeLabels
    <2> QED
      BY <2>1, <2>2, <2>3, <2>4, <2>5, StepKeepsSound DEF CardsTypeOK
  <1> QED
    BY <1>1, <1>2, <1>3, <1>4, <1>5

\* createCardForUser.
LEMMA CreateStepSound ==
    ASSUME CardsSound, NEW p \in Procs, UNCHANGED calls,
           CreateCardReadUser(p) \/ FindCustomerAgain(p) \/ CreateCardAtSudo(p) \/ InsertCard(p) \/ CountCards(p) \/ SaveFirstCard(p)
    PROVE  CardsSound'
  <1> USE VirtualCardsAssumption
  <1> USE DEF onboardingTables, cardsTables, cardLocals, cardHistory
  <1>0. CardTablesOK /\ CardMemoryOK /\ CompletedHasCustomer /\ CardHandlerSound(p)
    BY DEF CardsSound, CardsInv, CardsTypeOK, CardHandlersSound
  <1> USE <1>0
  <1>1. CASE CreateCardReadUser(p)
    <2> USE <1>1 DEF CreateCardReadUser
    <2>1. CardTablesOK' /\ TablesGrow
      BY DEF CardTablesOK, CardMemoryOK, CardHandlerSound, TablesGrow, CardStatus, ChangeLabels, Changes, NothingAsked
    <2>2. CardMemoryOK' /\ OthersKept(p)
      BY CardDoneKeeps DEF CardMemoryOK, OthersKept, Goto, CardHandlerSound, CardTablesOK, CardLabels, CustomerLabels, CreateLabels, ChangeLabels
    <2>3. CardHandlerSound(p)'
      BY CardDoneKeeps DEF CardMemoryOK, CardTablesOK, CompletedHasCustomer,
                           CardHandlerSound, Goto, ChangeLabels
    <2>4. CompletedHasCustomer'
      BY DEF CompletedHasCustomer, CardTablesOK, CardMemoryOK, CardHandlerSound
    <2>5. MadeKept(p)
      BY CardDoneKeeps DEF MadeKept, CardTablesOK, CardHandlerSound, ChangeLabels
    <2> QED
      BY <2>1, <2>2, <2>3, <2>4, <2>5, StepKeepsSound DEF CardsTypeOK
  <1>2. CASE FindCustomerAgain(p)
    <2> USE <1>2 DEF FindCustomerAgain
    <2>1. CardTablesOK' /\ TablesGrow
      BY DEF CardTablesOK, CardMemoryOK, CardHandlerSound, TablesGrow, CardStatus, ChangeLabels, Changes, NothingAsked
    <2>2. CardMemoryOK' /\ OthersKept(p)
      BY CardDoneKeeps DEF CardMemoryOK, OthersKept, Goto, CardHandlerSound, CardLabels, CustomerLabels, CreateLabels, ChangeLabels
    <2>3. CardHandlerSound(p)'
      BY CardDoneKeeps DEF CardMemoryOK, CardTablesOK, CardHandlerSound, Goto, ChangeLabels
    <2>4. CompletedHasCustomer'
      BY DEF CompletedHasCustomer, CardTablesOK, CardMemoryOK, CardHandlerSound
    <2>5. MadeKept(p)
      BY CardDoneKeeps DEF MadeKept, CardTablesOK, CardHandlerSound, ChangeLabels
    <2> QED
      BY <2>1, <2>2, <2>3, <2>4, <2>5, StepKeepsSound DEF CardsTypeOK
  <1>3. CASE CreateCardAtSudo(p)
    <2> USE <1>3 DEF createCard
    <2> DEFINE Answered(c) ==
                 /\ fresh' = [fresh EXCEPT ![p] = {c}]
                 /\ cCard' = [cCard EXCEPT ![p] = c]
                 /\ Goto(p, "card_insert")
                 /\ UNCHANGED <<cUser, cKind, seenData, seenCard, asked, abandoned>>
               Lost(c) == abandoned' = abandoned \cup {c} /\ CardDone(p)
    <2>6. PICK c \in Cards : createCard(c) /\ (Answered(c) \/ Lost(c))
      BY DEF CreateCardAtSudo
    <2>7. /\ pc[p] = "card_create" /\ fresh[p] = {} /\ cUser[p] \in Users
          /\ UNCHANGED <<onboardingTables, cardStatus, cardHolder, isDefault,
                         interrupted, closedOnce, closedAgain>>
      BY DEF CreateCardAtSudo, CardHandlerSound, CardMemoryOK
    <2>1. CardTablesOK' /\ TablesGrow
      BY <2>6, <2>7 DEF CardTablesOK, TablesGrow
    <2>2. CardMemoryOK' /\ OthersKept(p)
      <3>1. CASE Answered(c)
        BY <2>7, <3>1 DEF CardMemoryOK, OthersKept, Goto, CardLabels, CustomerLabels, CreateLabels, ChangeLabels
      <3> QED
        BY <2>6, <3>1, CardDoneKeeps
    <2>3. CardHandlerSound(p)'
      <3>1. CASE Answered(c)
        BY <2>6, <2>7, <3>1 DEF CardMemoryOK, CardHandlerSound, Goto, ChangeLabels
      <3> QED
        BY <2>6, <3>1, CardDoneKeeps
    <2>4. CompletedHasCustomer'
      BY <2>7 DEF CompletedHasCustomer
    <2>5. MadeKept(p)
      <3>1. CASE Answered(c)
        BY <2>6, <2>7, <3>1 DEF MadeKept, CardTablesOK, CardMemoryOK
      <3>2. CASE Lost(c)
        BY <2>6, <2>7, <3>2 DEF MadeKept, CardTablesOK
      <3> QED
        BY <2>6, <3>1, <3>2
    <2> QED
      BY <2>1, <2>2, <2>3, <2>4, <2>5, StepKeepsSound DEF CardsTypeOK
  <1>4. CASE InsertCard(p)
    <2> USE <1>4 DEF InsertCard
    <2>1. CardTablesOK' /\ TablesGrow
      BY DEF CardTablesOK, CardMemoryOK, CardHandlerSound, TablesGrow, CardStatus, ChangeLabels, Changes, NothingAsked
    <2>2. CardMemoryOK' /\ OthersKept(p)
      BY CardDoneKeeps DEF CardMemoryOK, OthersKept, Goto, CardHandlerSound, CardLabels, CustomerLabels, CreateLabels, ChangeLabels
    <2>3. CardHandlerSound(p)'
      BY CardDoneKeeps DEF CardMemoryOK, CardTablesOK, CardHandlerSound, Goto, ChangeLabels
    <2>4. CompletedHasCustomer'
      BY DEF CompletedHasCustomer, CardTablesOK, CardMemoryOK, CardHandlerSound
    <2>5. MadeKept(p)
      BY CardDoneKeeps DEF MadeKept, CardTablesOK, CardHandlerSound, ChangeLabels
    <2> QED
      BY <2>1, <2>2, <2>3, <2>4, <2>5, StepKeepsSound DEF CardsTypeOK
  <1>5. CASE CountCards(p)
    <2> USE <1>5 DEF CountCards
    <2>1. CardTablesOK' /\ TablesGrow
      BY DEF CardTablesOK, CardMemoryOK, CardHandlerSound, TablesGrow, CardStatus, ChangeLabels, Changes, NothingAsked
    <2>2. CardMemoryOK' /\ OthersKept(p)
      <3>1. CASE Goto(p, "card_first") /\ UNCHANGED cardLocals
        BY <3>1 DEF CardMemoryOK, OthersKept, Goto, CardLabels, CreateLabels
      <3> QED
        BY <3>1, CardDoneKeeps
    <2>3. CardHandlerSound(p)'
      BY CardDoneKeeps DEF CardMemoryOK, CardTablesOK, CardHandlerSound, Goto, ChangeLabels
    <2>4. CompletedHasCustomer'
      BY DEF CompletedHasCustomer, CardTablesOK, CardMemoryOK, CardHandlerSound
    <2>5. MadeKept(p)
      BY CardDoneKeeps DEF MadeKept, CardTablesOK, CardHandlerSound, ChangeLabels
    <2> QED
      BY <2>1, <2>2, <2>3, <2>4, <2>5, StepKeepsSound DEF CardsTypeOK
  <1>6. CASE SaveFirstCard(p)
    <2> USE <1>6 DEF SaveFirstCard
    <2>1. CardTablesOK' /\ TablesGrow
      BY DEF CardTablesOK, CardMemoryOK, CardHandlerSound, TablesGrow, CardStatus, ChangeLabels, Changes, NothingAsked
    <2>2. CardMemoryOK' /\ OthersKept(p)
      BY CardDoneKeeps DEF CardMemoryOK, OthersKept, Goto, CardHandlerSound, CardLabels, CustomerLabels, CreateLabels, ChangeLabels
    <2>3. CardHandlerSound(p)'
      BY CardDoneKeeps DEF CardMemoryOK, CardTablesOK, CardHandlerSound, Goto, ChangeLabels
    <2>4. CompletedHasCustomer'
      BY DEF CompletedHasCustomer, CardTablesOK, CardMemoryOK, CardHandlerSound
    <2>5. MadeKept(p)
      BY CardDoneKeeps DEF MadeKept, CardTablesOK, CardHandlerSound, ChangeLabels
    <2> QED
      BY <2>1, <2>2, <2>3, <2>4, <2>5, StepKeepsSound DEF CardsTypeOK
  <1> QED
    BY <1>1, <1>2, <1>3, <1>4, <1>5, <1>6

\* updateCard and deleteCard.
LEMMA ChangeStepSound ==
    ASSUME CardsSound, NEW p \in Procs, UNCHANGED calls,
           UpdateCardAtSudo(p) \/ UnsetOtherDefaults(p) \/ SaveCard(p) \/ CancelAtSudo(p) \/ CloseCard(p) \/ FindOtherCard(p) \/ SaveOtherCard(p) \/ CardHandlerFails(p)
    PROVE  CardsSound'
  <1> USE VirtualCardsAssumption
  <1> USE DEF onboardingTables, cardsTables, cardLocals, cardHistory
  <1>0. CardTablesOK /\ CardMemoryOK /\ CompletedHasCustomer /\ CardHandlerSound(p)
    BY DEF CardsSound, CardsInv, CardsTypeOK, CardHandlersSound
  <1> USE <1>0
  <1>1. CASE UpdateCardAtSudo(p)
    <2> USE <1>1 DEF UpdateCardAtSudo, updateCard, mapStatusToSudo
    <2>1. CardTablesOK' /\ TablesGrow
      BY DEF CardTablesOK, CardMemoryOK, CardHandlerSound, TablesGrow, CardStatus, ChangeLabels, Changes, NothingAsked
    <2>2. CardMemoryOK' /\ OthersKept(p)
      BY CardDoneKeeps DEF CardMemoryOK, OthersKept, Goto, CardHandlerSound, CardLabels, CustomerLabels, CreateLabels, ChangeLabels
    <2>3. CardHandlerSound(p)'
      BY CardDoneKeeps DEF CardMemoryOK, CardTablesOK, CardHandlerSound, Goto, ChangeLabels
    <2>4. CompletedHasCustomer'
      BY DEF CompletedHasCustomer, CardTablesOK, CardMemoryOK, CardHandlerSound
    <2>5. MadeKept(p)
      BY CardDoneKeeps DEF MadeKept, CardTablesOK, CardHandlerSound, ChangeLabels
    <2> QED
      BY <2>1, <2>2, <2>3, <2>4, <2>5, StepKeepsSound DEF CardsTypeOK
  <1>2. CASE UnsetOtherDefaults(p)
    <2> USE <1>2 DEF UnsetOtherDefaults
    <2>1. CardTablesOK' /\ TablesGrow
      BY DEF CardTablesOK, CardMemoryOK, CardHandlerSound, TablesGrow, CardStatus, ChangeLabels, Changes, NothingAsked
    <2>2. CardMemoryOK' /\ OthersKept(p)
      BY CardDoneKeeps DEF CardMemoryOK, OthersKept, Goto, CardHandlerSound, CardLabels, CustomerLabels, CreateLabels, ChangeLabels
    <2>3. CardHandlerSound(p)'
      BY CardDoneKeeps DEF CardMemoryOK, CardTablesOK, CardHandlerSound, Goto, ChangeLabels
    <2>4. CompletedHasCustomer'
      BY DEF CompletedHasCustomer, CardTablesOK, CardMemoryOK, CardHandlerSound
    <2>5. MadeKept(p)
      BY CardDoneKeeps DEF MadeKept, CardTablesOK, CardHandlerSound, ChangeLabels
    <2> QED
      BY <2>1, <2>2, <2>3, <2>4, <2>5, StepKeepsSound DEF CardsTypeOK
  <1>3. CASE SaveCard(p)
    <2> USE <1>3 DEF SaveCard, WriteStatus, WriteDefault
    <2>6. /\ cCard[p] \in Cards
          /\ asked[p].status \in CardStatus \cup {"same"}
          /\ seenCard[p].status \in CardStatus \cup {"none"}
      <3>1. cCard[p] \in Cards
        BY DEF CardHandlerSound, ChangeLabels
      <3>2. asked[p] \in [status : AskedStatuses \cup {"same"}, default : {"same", "yes", "no"}]
        BY DEF CardMemoryOK, Changes, NothingAsked
      <3>3. seenCard[p].status \in CardStatus \cup {"none"}
        BY DEF CardMemoryOK
      <3> QED
        BY <3>1, <3>2, <3>3 DEF CardStatus
    <2>7. \/ cardStatus' = cardStatus
          \/ cardStatus' = [cardStatus EXCEPT ![cCard[p]] = asked[p].status]
             /\ asked[p].status # "same"
      BY <2>6
    <2>8. isDefault' \subseteq Cards /\ closedOnce' \subseteq Cards
      BY <2>6 DEF CardTablesOK
    <2>1. CardTablesOK' /\ TablesGrow
      BY <2>6, <2>7, <2>8 DEF CardTablesOK, CardHandlerSound, ChangeLabels, TablesGrow, CardStatus
    <2>2. CardMemoryOK' /\ OthersKept(p)
      BY CardDoneKeeps DEF CardMemoryOK, OthersKept, Goto, CardHandlerSound, CardLabels, CustomerLabels, CreateLabels, ChangeLabels
    <2>3. CardHandlerSound(p)'
      BY CardDoneKeeps DEF CardMemoryOK, CardTablesOK, CardHandlerSound, Goto, ChangeLabels
    <2>4. CompletedHasCustomer'
      BY DEF CompletedHasCustomer, CardTablesOK, CardMemoryOK, CardHandlerSound
    <2>5. MadeKept(p)
      BY CardDoneKeeps DEF MadeKept, CardTablesOK, CardHandlerSound, ChangeLabels
    <2> QED
      BY <2>1, <2>2, <2>3, <2>4, <2>5, StepKeepsSound DEF CardsTypeOK
  <1>4. CASE CancelAtSudo(p)
    <2> USE <1>4 DEF CancelAtSudo, updateCard
    <2>1. CardTablesOK' /\ TablesGrow
      BY DEF CardTablesOK, CardMemoryOK, CardHandlerSound, TablesGrow, CardStatus, ChangeLabels, Changes, NothingAsked
    <2>2. CardMemoryOK' /\ OthersKept(p)
      BY CardDoneKeeps DEF CardMemoryOK, OthersKept, Goto, CardHandlerSound, CardLabels, CustomerLabels, CreateLabels, ChangeLabels
    <2>3. CardHandlerSound(p)'
      BY CardDoneKeeps DEF CardMemoryOK, CardTablesOK, CardHandlerSound, Goto, ChangeLabels
    <2>4. CompletedHasCustomer'
      BY DEF CompletedHasCustomer, CardTablesOK, CardMemoryOK, CardHandlerSound
    <2>5. MadeKept(p)
      BY CardDoneKeeps DEF MadeKept, CardTablesOK, CardHandlerSound, ChangeLabels
    <2> QED
      BY <2>1, <2>2, <2>3, <2>4, <2>5, StepKeepsSound DEF CardsTypeOK
  <1>5. CASE CloseCard(p)
    <2> USE <1>5 DEF CloseCard, WriteStatus
    <2>1. CardTablesOK' /\ TablesGrow
      BY DEF CardTablesOK, CardMemoryOK, CardHandlerSound, TablesGrow, CardStatus, ChangeLabels, Changes, NothingAsked
    <2>2. CardMemoryOK' /\ OthersKept(p)
      <3>1. CASE seenCard[p].default
        BY <3>1 DEF CardMemoryOK, OthersKept, Goto, CardLabels, CustomerLabels, CreateLabels, ChangeLabels
      <3>2. CASE ~seenCard[p].default
        BY <3>2, CardDoneKeeps
      <3> QED
        BY <3>1, <3>2
    <2>3. CardHandlerSound(p)'
      BY CardDoneKeeps DEF CardMemoryOK, CardTablesOK, CardHandlerSound, Goto, ChangeLabels
    <2>4. CompletedHasCustomer'
      BY DEF CompletedHasCustomer, CardTablesOK, CardMemoryOK, CardHandlerSound
    <2>5. MadeKept(p)
      BY CardDoneKeeps DEF MadeKept, CardTablesOK, CardHandlerSound, ChangeLabels
    <2> QED
      BY <2>1, <2>2, <2>3, <2>4, <2>5, StepKeepsSound DEF CardsTypeOK
  <1>6. CASE FindOtherCard(p)
    <2> USE <1>6 DEF FindOtherCard, OpenCards, CardsOf
    <2>1. CardTablesOK' /\ TablesGrow
      BY DEF CardTablesOK, CardMemoryOK, CardHandlerSound, TablesGrow, CardStatus, ChangeLabels, Changes, NothingAsked
    <2>2. CardMemoryOK' /\ OthersKept(p)
      <3>1. CASE CardDone(p)
        BY <3>1, CardDoneKeeps
      <3>2. ASSUME NEW c \in Cards,
                   cCard' = [cCard EXCEPT ![p] = c],
                   seenCard' = [seenCard EXCEPT ![p] =
                                  [status |-> cardStatus[c], default |-> c \in isDefault]],
                   Goto(p, "card_next"), UNCHANGED <<cUser, cKind, seenData, asked, fresh>>
            PROVE  CardMemoryOK' /\ OthersKept(p)
        BY <3>2 DEF CardMemoryOK, CardTablesOK, OthersKept, Goto, CardLabels, CustomerLabels, CreateLabels, ChangeLabels
      <3> QED
        BY <3>1, <3>2
    <2>3. CardHandlerSound(p)'
      BY CardDoneKeeps DEF CardMemoryOK, CardTablesOK, CardHandlerSound, Goto, ChangeLabels
    <2>4. CompletedHasCustomer'
      BY DEF CompletedHasCustomer, CardTablesOK, CardMemoryOK, CardHandlerSound
    <2>5. MadeKept(p)
      BY CardDoneKeeps DEF MadeKept, CardTablesOK, CardHandlerSound, ChangeLabels
    <2> QED
      BY <2>1, <2>2, <2>3, <2>4, <2>5, StepKeepsSound DEF CardsTypeOK
  <1>7. CASE SaveOtherCard(p)
    <2> USE <1>7 DEF SaveOtherCard, WriteDefault
    <2>1. CardTablesOK' /\ TablesGrow
      BY DEF CardTablesOK, CardMemoryOK, CardHandlerSound, TablesGrow, CardStatus, ChangeLabels, Changes, NothingAsked
    <2>2. CardMemoryOK' /\ OthersKept(p)
      BY CardDoneKeeps DEF CardMemoryOK, OthersKept, Goto, CardHandlerSound, CardLabels, CustomerLabels, CreateLabels, ChangeLabels
    <2>3. CardHandlerSound(p)'
      BY CardDoneKeeps DEF CardMemoryOK, CardTablesOK, CardHandlerSound, Goto, ChangeLabels
    <2>4. CompletedHasCustomer'
      BY DEF CompletedHasCustomer, CardTablesOK, CardMemoryOK, CardHandlerSound
    <2>5. MadeKept(p)
      BY CardDoneKeeps DEF MadeKept, CardTablesOK, CardHandlerSound, ChangeLabels
    <2> QED
      BY <2>1, <2>2, <2>3, <2>4, <2>5, StepKeepsSound DEF CardsTypeOK
  <1>8. CASE CardHandlerFails(p)
    <2> USE <1>8 DEF CardHandlerFails, SudoAhead, updateCard, mapStatusToSudo
    <2>1. CardTablesOK' /\ TablesGrow
      BY DEF CardTablesOK, CardMemoryOK, CardHandlerSound, TablesGrow, CardStatus, ChangeLabels, Changes, NothingAsked
    <2>2. CardMemoryOK' /\ OthersKept(p)
      BY CardDoneKeeps DEF CardMemoryOK, OthersKept, Goto, CardHandlerSound, CardLabels, CustomerLabels, CreateLabels, ChangeLabels
    <2>3. CardHandlerSound(p)'
      BY CardDoneKeeps DEF CardMemoryOK, CardTablesOK, CardHandlerSound, Goto, ChangeLabels
    <2>4. CompletedHasCustomer'
      BY DEF CompletedHasCustomer, CardTablesOK, CardMemoryOK, CardHandlerSound
    <2>5. MadeKept(p)
      BY CardDoneKeeps DEF MadeKept, CardTablesOK, CardHandlerSound, ChangeLabels
    <2> QED
      BY <2>1, <2>2, <2>3, <2>4, <2>5, StepKeepsSound DEF CardsTypeOK
  <1> QED
    BY <1>1, <1>2, <1>3, <1>4, <1>5, <1>6, <1>7, <1>8

-----------------------------------------------------------------------------
(* The requests, and the theorems *)

\* A request reads and checks; it changes no table.
LEMMA CardsRequestSound ==
    ASSUME CardsSound, NEW p \in Procs, CardsRequest(p),
           calls < MaxCardCalls, calls' = calls + 1
    PROVE  CardsSound'
  <1> USE VirtualCardsAssumption
  <1> USE DEF onboardingTables, cardsTables, cardHistory
  <1>0. CardTablesOK /\ CardMemoryOK /\ CompletedHasCustomer /\ CardHandlerSound(p)
    BY DEF CardsSound, CardsInv, CardsTypeOK, CardHandlersSound
  <1>1. ASSUME UNCHANGED <<onboardingTables, cardsTables, fresh, cardHistory>>, Idle(p),
               CardMemoryOK', OthersKept(p), CardHandlerSound(p)'
        PROVE  CardsSound'
    <2>1. CardTablesOK' /\ TablesGrow
      BY <1>0, <1>1 DEF CardTablesOK, TablesGrow
    <2>2. CompletedHasCustomer'
      BY <1>0, <1>1 DEF CompletedHasCustomer
    <2>3. MadeKept(p)
      BY <1>0, <1>1 DEF MadeKept, Idle, CardHandlerSound
    <2> QED
      BY <1>1, <2>1, <2>2, <2>3, StepKeepsSound DEF CardsTypeOK
  <1>2. ASSUME NEW u \in Users, NEW kind \in {"step", "complete", "verify"},
               NEW label \in {"step_save", "cust_lookup"}, ReadOnboarding(p, u, kind, label)
        PROVE  CardsSound'
    <2> USE <1>0, <1>2 DEF ReadOnboarding, Idle, Goto
    <2>1. CardMemoryOK' /\ OthersKept(p)
      BY DEF CardMemoryOK, CardTablesOK, OthersKept, CardLabels, CustomerLabels
    <2>2. CardHandlerSound(p)'
      BY DEF CardMemoryOK, CardHandlerSound, CompletedHasCustomer, ChangeLabels
    <2> QED
      BY <1>1, <2>1, <2>2
  <1>3. ASSUME NEW u \in Users, CreateCard(p, u)
        PROVE  CardsSound'
    <2> USE <1>0, <1>3 DEF CreateCard, Idle, Goto
    <2>1. CardMemoryOK' /\ OthersKept(p)
      BY DEF CardMemoryOK, OthersKept, CardLabels, CreateLabels
    <2>2. CardHandlerSound(p)'
      BY DEF CardMemoryOK, CardHandlerSound, ChangeLabels
    <2> QED
      BY <1>1, <2>1, <2>2
  <1>4. ASSUME NEW c \in Cards, NEW kind \in {"update", "delete"},
               NEW wanted \in Changes \cup {NothingAsked}, NEW label \in ChangeLabels,
               label = "card_sudo" => wanted.status \in AskedStatuses,
               ReadCard(p, c, kind, wanted, label)
        PROVE  CardsSound'
    <2> USE <1>0, <1>4 DEF ReadCard, Idle, Goto
    <2>1. CardMemoryOK' /\ OthersKept(p)
      BY DEF CardMemoryOK, CardTablesOK, OthersKept, CardLabels, ChangeLabels
    <2>2. CardHandlerSound(p)'
      BY DEF CardMemoryOK, CardHandlerSound, ChangeLabels
    <2> QED
      BY <1>1, <2>1, <2>2
  <1>5. ASSUME NEW c \in Cards, NEW wanted \in Changes, UpdateCard(p, c, wanted)
        PROVE  CardsSound'
    <2>1. wanted.status \in AskedStatuses \cup {"same"}
      BY DEF Changes
    <2> DEFINE label == IF wanted.status # "same" THEN "card_sudo"
                        ELSE IF wanted.default = "yes" THEN "card_unset" ELSE "card_save"
    <2>2. ReadCard(p, c, "update", wanted, label)
      BY <1>5 DEF UpdateCard
    <2>3. label \in ChangeLabels /\ (label = "card_sudo" => wanted.status \in AskedStatuses)
      BY <2>1 DEF ChangeLabels
    <2> HIDE DEF label
    <2> QED
      BY <1>4, <2>2, <2>3
  <1>6. ASSUME NEW c \in Cards, DeleteCard(p, c)
        PROVE  CardsSound'
    BY <1>4, <1>6 DEF DeleteCard, ChangeLabels
  <1> QED
    BY <1>2, <1>3, <1>5, <1>6 DEF CardsRequest, SaveStep, CompleteOnboarding, VerifyIdentity

\* Customers of earlier onboardings are all there is at first.
LEMMA CardsInitSound == CardsStart => CardsSound
  <1> SUFFICES ASSUME RequestsInit, CardsInit
               PROVE  CardsSound
    BY DEF CardsStart
  <1> USE VirtualCardsAssumption DEF RequestsInit
  <1>1. PICK old \in SUBSET Users :
          /\ customerRow \in [Users -> Customers \cup {NoCustomer}]
          /\ \A u \in Users : customerRow[u] \in Customers <=> u \in old
          /\ \A u, v \in old : customerRow[u] = customerRow[v] => u = v
          /\ customerAt = [k \in Customers |->
                IF \E u \in old : customerRow[u] = k
                  THEN CHOOSE u \in old : customerRow[u] = k ELSE NoUser]
          /\ onboardingData = [u \in Users |->
                IF u \in old THEN Parts \cup {"completed"} ELSE {}]
    BY DEF CardsInit
  <1>2. \A k \in Customers :
          \/ customerAt[k] \in old /\ customerRow[customerAt[k]] = k
          \/ customerAt[k] = NoUser
    BY <1>1
  <1>3. CardTablesOK
    <2>1. customerAt \in [Customers -> Users \cup {NoUser}]
      BY <1>1, <1>2
    <2> QED
      BY <1>1, <2>1 DEF CardsInit, CardTablesOK
  <1>4. CardMemoryOK
    BY DEF CardsInit, CardMemoryOK, NothingAsked, NoCardSeen
  <1>5. CompletedHasCustomer
    BY <1>1 DEF CompletedHasCustomer
  <1>6. CardHandlersSound
    BY DEF CardsInit, CardHandlersSound, CardHandlerSound, ChangeLabels
  <1>7. SudoAccountedFor
    BY <1>2 DEF CardsInit, SudoAccountedFor
  <1> QED
    BY <1>3, <1>4, <1>5, <1>6, <1>7 DEF CardsSound, CardsInv, CardsTypeOK

\* Every step of the specification keeps the inductive invariant.
LEMMA CardsNextSound ==
    ASSUME CardsSound, [CardsNext /\ raced' = raced \cup SharedCards']_<<cardsVars, raced>>
    PROVE  CardsSound'
  <1>1. CASE UNCHANGED <<cardsVars, raced>>
    BY <1>1 DEF CardsSound, CardsInv, CardsTypeOK, CardTablesOK, CardMemoryOK,
                CompletedHasCustomer, CardHandlersSound, CardHandlerSound, SudoAccountedFor,
                cardsVars, onboardingTables, cardsTables, cardLocals, cardHistory
  <1>2. ASSUME NEW p \in Procs, CardsStep(p), UNCHANGED calls
        PROVE  CardsSound'
    BY <1>2, CustomerStepSound, CreateStepSound, ChangeStepSound DEF CardsStep
  <1> QED
    BY <1>1, <1>2, CardsRequestSound DEF CardsNext

\* Whatever the handlers of one or more users do at the same time and wherever
\* they fail, the tables and their memory are sound, and a user whose onboarding
\* is marked completed is a customer.
THEOREM CardsInvariant == CardsSpec => []CardsInv
  <1>1. CardsStart => CardsSound
    BY CardsInitSound
  <1>2. CardsSound /\ [CardsNext /\ raced' = raced \cup SharedCards']_<<cardsVars, raced>>
          => CardsSound'
    BY CardsNextSound
  <1>3. CardsSound => CardsInv
    BY DEF CardsSound
  <1> QED
    BY <1>1, <1>2, <1>3, PTL DEF CardsSpec

\* No customer and no card that Sudo made is dropped, or replaced by another,
\* except by a handler that failed.
THEOREM CardsAccountedFor == CardsSpec => []SudoAccountedFor
  <1>1. CardsStart => CardsSound
    BY CardsInitSound
  <1>2. CardsSound /\ [CardsNext /\ raced' = raced \cup SharedCards']_<<cardsVars, raced>>
          => CardsSound'
    BY CardsNextSound
  <1>3. CardsSound => SudoAccountedFor
    BY DEF CardsSound
  <1> QED
    BY <1>1, <1>2, <1>3, PTL DEF CardsSpec

-----------------------------------------------------------------------------
(* Users and cards that one handler at a time works on *)

\* What a handler read of its card, and did to it at Sudo, is still so.
CardAsRead(p) ==
    /\ pc[p] \in {"card_sudo", "card_unset", "card_save", "card_cancel", "card_close"} =>
          seenCard[p].status = cardStatus[cCard[p]]
    /\ pc[p] \in {"card_unset", "card_save"} /\ asked[p].status # "same" =>
          cardAt[cCard[p]] = mapStatusToSudo(asked[p].status)
    /\ pc[p] = "card_close" => cardAt[cCard[p]] = "canceled" \/ cCard[p] \in interrupted

\* And so is what it found out about the user's cards and default card.
DefaultsAsRead(p) ==
    /\ pc[p] = "card_first" => CardsOf(cUser[p]) = {cCard[p]}
    /\ pc[p] = "card_save" /\ asked[p].default = "yes" =>
          isDefault \cap CardsOf(cUser[p]) \subseteq {cCard[p]}
    /\ pc[p] \in {"card_cancel", "card_close"} /\ seenCard[p].default =>
          cCard[p] \in isDefault
    /\ pc[p] \in {"card_other", "card_next"} /\ cUser[p] \notin closedAgain =>
          isDefault \cap CardsOf(cUser[p]) \subseteq closedOnce

\* Where the handler's card is a row of its user.
HolderLabels == ChangeLabels \cup {"card_count", "card_first"}

\* What a handler knows when nobody else works for its user or on its card.
\* The card that Sudo made for it is its own whoever else is at work.
HandlerAlone(p) ==
    /\ pc[p] \in {"cust_sudo", "cust_insert"} /\ cUser[p] \notin raced =>
          customerRow[cUser[p]] = NoCustomer
    /\ pc[p] = "card_insert" =>
          cardStatus[cCard[p]] = "none" /\ cardAt[cCard[p]] = "active"
    /\ pc[p] \in HolderLabels => cardHolder[cCard[p]] = cUser[p]
    /\ cCard[p] \notin raced => CardAsRead(p)
    /\ cUser[p] \notin raced => DefaultsAsRead(p)

\* Cards have a row only after Sudo made them, and each is made for one handler.
CardRows ==
    /\ \A c \in Cards : cardStatus[c] # "none" => cardAt[c] # "none"
    /\ \A c \in isDefault : cardStatus[c] # "none"
    /\ \A p, q \in Procs :
          p # q /\ pc[p] = "card_insert" /\ pc[q] = "card_insert" => cCard[p] # cCard[q]

\* The inductive invariant for users and cards that were not raced for.
CardsAlone ==
    /\ CardsSound /\ SharedCards \subseteq raced
    /\ CardRows /\ \A p \in Procs : HandlerAlone(p)
    /\ StatusAgreesUnlessRaced /\ OneDefaultUnlessRaced

-----------------------------------------------------------------------------
(* A step as the handlers for other users and on other cards see it *)

\* A handler writes its own card, once it is a row or about to become one.
TouchesCard(p, c) == c = cCard[p] /\ (pc[p] = "card_insert" \/ cardStatus[c] # "none")

\* What a step leaves of the tables and of Sudo to the other handlers.
OwnTables(p) ==
    /\ \A u \in Users \ {cUser[p]} : customerRow'[u] = customerRow[u]
    /\ \A c \in Cards : ~TouchesCard(p, c) =>
          cardStatus'[c] = cardStatus[c] /\ (cardAt[c] # "none" => cardAt'[c] = cardAt[c])
    /\ \A c \in Cards : cardStatus[c] # "none" => cardHolder'[c] = cardHolder[c]
    /\ \A u \in Users \ {cUser[p]} : \A c \in Cards :
          /\ cardHolder'[c] = u <=> cardHolder[c] = u
          /\ cardHolder[c] = u => (c \in isDefault' <=> c \in isDefault)
    /\ interrupted \subseteq interrupted'
    /\ closedOnce \subseteq closedOnce' /\ closedAgain \subseteq closedAgain'
    /\ \A q \in Procs \ {p} : seenCard'[q] = seenCard[q]

\* After the step the handler's card agrees with Sudo, or is about to.
OwnCardAgrees(p) ==
    cCard[p] \in Cards \ (raced' \cup interrupted') /\ cardStatus'[cCard[p]] # "none" =>
        \/ cardAt'[cCard[p]] = mapStatusToSudo(cardStatus'[cCard[p]])
        \/ \E q \in Procs : cCard'[q] = cCard[p] /\ SudoAhead(q)'

\* After the step its user has one default card that is open.
OwnDefault(p) ==
    \A b, c \in isDefault' \ closedOnce' :
        /\ cardHolder'[b] = cUser[p] /\ cardHolder'[c] = cUser[p]
        /\ cUser[p] \notin raced' \cup closedAgain'
        => b = c

\* Handlers that are not noted work for different users and on different cards.
LEMMA ApartUnlessRaced ==
    ASSUME SharedCards \subseteq raced, NEW p \in Procs, NEW q \in Procs, p # q
    PROVE  /\ cUser[q] \in Users \ raced => cUser[q] # cUser[p]
           /\ cCard[q] \in Cards \ raced => cCard[q] # cCard[p]
  <1>1. \A r : r \in CardsWorksOn(p) /\ r \in CardsWorksOn(q) => r \in raced
    BY DEF SharedCards, Shared
  <1> QED
    BY <1>1, VirtualCardsAssumption DEF CardsWorksOn

\* The others go on knowing what they knew.
LEMMA OthersAlone ==
    ASSUME CardsAlone, NEW p \in Procs, OthersKept(p), OwnTables(p), raced \subseteq raced',
           NEW q \in Procs, q # p
    PROVE  HandlerAlone(q)'
  <1>1. /\ pc'[q] = pc[q] /\ cUser'[q] = cUser[q] /\ cCard'[q] = cCard[q]
        /\ seenCard'[q] = seenCard[q] /\ asked'[q] = asked[q]
    BY DEF OthersKept, OwnTables
  <1>2. /\ HandlerAlone(q) /\ CardHandlerSound(q) /\ CardRows
        /\ pc[q] # "idle" => cUser[q] \in Users
    BY DEF CardsAlone, CardsSound, CardsInv, CardsTypeOK, CardMemoryOK, CardHandlersSound
  <1>3. pc[q] \in HolderLabels => cCard[q] \in Cards /\ cardStatus[cCard[q]] # "none"
    BY <1>2 DEF CardHandlerSound, HolderLabels
  <1>4. /\ pc[q] # "idle" /\ cUser[q] \notin raced' => cUser[q] \in Users \ {cUser[p]}
        /\ cCard[q] \in Cards /\ cCard[q] \notin raced' => cCard[q] # cCard[p]
    BY <1>2, ApartUnlessRaced DEF CardsAlone
  <1>5. pc[q] \in {"cust_sudo", "cust_insert"} /\ cUser[q] \notin raced' =>
            customerRow'[cUser[q]] = NoCustomer
    BY <1>2, <1>4 DEF HandlerAlone, OwnTables
  <1>6. pc[q] = "card_insert" =>
            cardStatus'[cCard[q]] = "none" /\ cardAt'[cCard[q]] = "active"
    BY <1>2 DEF HandlerAlone, OwnTables, TouchesCard, CardRows, CardHandlerSound
  <1>7. pc[q] \in HolderLabels => cardHolder'[cCard[q]] = cUser[q]
    BY <1>2, <1>3 DEF HandlerAlone, OwnTables
  <1>8. cCard[q] \notin raced' => CardAsRead(q)'
    <2> SUFFICES ASSUME cCard[q] \notin raced', pc[q] \in ChangeLabels
                 PROVE  CardAsRead(q)'
      BY <1>1 DEF CardAsRead, ChangeLabels
    <2>1. cCard[q] \in Cards /\ cCard[q] # cCard[p] /\ cardStatus[cCard[q]] # "none"
      BY <1>3, <1>4 DEF HolderLabels
    <2>2. cardStatus'[cCard[q]] = cardStatus[cCard[q]] /\ cardAt'[cCard[q]] = cardAt[cCard[q]]
      BY <1>2, <2>1 DEF OwnTables, TouchesCard, CardRows
    <2>3. CardAsRead(q)
      BY <1>2 DEF HandlerAlone
    <2>4. interrupted \subseteq interrupted'
      BY DEF OwnTables
    <2> QED
      BY <1>1, <2>2, <2>3, <2>4 DEF CardAsRead
  <1>9. cUser[q] \notin raced' => DefaultsAsRead(q)'
    <2> SUFFICES ASSUME cUser[q] \notin raced', pc[q] \in HolderLabels
                 PROVE  DefaultsAsRead(q)'
      BY <1>1 DEF DefaultsAsRead, HolderLabels, ChangeLabels
    <2>1. cUser[q] \in Users \ {cUser[p]} /\ cCard[q] \in Cards
      BY <1>3, <1>4 DEF HolderLabels, ChangeLabels
    <2>2. \A c \in Cards : cardHolder'[c] = cUser[q] <=> cardHolder[c] = cUser[q]
      BY <2>1 DEF OwnTables
    <2>3. \A c \in Cards : cardHolder[c] = cUser[q] => (c \in isDefault' <=> c \in isDefault)
      BY <2>1 DEF OwnTables
    <2>4. cardHolder[cCard[q]] = cUser[q] /\ DefaultsAsRead(q)
      BY <1>2 DEF HandlerAlone
    <2>5. closedOnce \subseteq closedOnce' /\ closedAgain \subseteq closedAgain'
      BY DEF OwnTables
    <2> QED
      BY <1>1, <2>1, <2>2, <2>3, <2>4, <2>5 DEF DefaultsAsRead, CardsOf
  <1> QED
    BY <1>1, <1>5, <1>6, <1>7, <1>8, <1>9 DEF HandlerAlone

\* A step that looks like this keeps what holds of cards nobody raced for.
LEMMA StepKeepsAlone ==
    ASSUME CardsAlone, CardsSound', NEW p \in Procs, raced' = raced \cup SharedCards',
           OthersKept(p), OwnTables(p), CardRows', HandlerAlone(p)',
           OwnCardAgrees(p), OwnDefault(p)
    PROVE  CardsAlone'
  <1>1. \A q \in Procs : HandlerAlone(q)'
    BY OthersAlone
  <1>2. SharedCards' \subseteq raced'
    OBVIOUS
  <1>3. StatusAgreesUnlessRaced'
    <2> SUFFICES ASSUME NEW c \in Cards, c \notin raced' \cup interrupted',
                        cardStatus'[c] # "none", c # cCard[p]
                 PROVE  \/ cardAt'[c] = mapStatusToSudo(cardStatus'[c])
                        \/ \E q \in Procs : cCard'[q] = c /\ SudoAhead(q)'
      BY DEF StatusAgreesUnlessRaced, OwnCardAgrees
    <2>1. cardStatus'[c] = cardStatus[c] /\ cardAt'[c] = cardAt[c]
      BY DEF OwnTables, TouchesCard, CardsAlone, CardRows
    <2>2. \/ cardAt[c] = mapStatusToSudo(cardStatus[c])
          \/ \E q \in Procs : cCard[q] = c /\ SudoAhead(q)
      BY <2>1 DEF CardsAlone, StatusAgreesUnlessRaced, OwnTables
    <2>3. ASSUME NEW q \in Procs, cCard[q] = c, SudoAhead(q)
          PROVE  cCard'[q] = c /\ SudoAhead(q)'
      BY <2>3 DEF OthersKept, SudoAhead
    <2> QED
      BY <2>1, <2>2, <2>3
  <1>4. OneDefaultUnlessRaced'
    <2> SUFFICES ASSUME NEW b \in isDefault' \ closedOnce', NEW c \in isDefault' \ closedOnce',
                        cardHolder'[b] = cardHolder'[c],
                        cardHolder'[b] \notin raced' \cup closedAgain',
                        cardHolder'[b] # cUser[p]
                 PROVE  b = c
      BY DEF OneDefaultUnlessRaced, OwnDefault
    <2>1. b \in Cards /\ c \in Cards /\ cardHolder'[b] \in Users
      BY DEF CardsSound, CardsInv, CardsTypeOK, CardTablesOK, CardRows
    <2>2. PICK u \in Users \ {cUser[p]} : u = cardHolder'[b]
      BY <2>1
    <2>3. cardHolder[b] = u /\ cardHolder[c] = u /\ b \in isDefault /\ c \in isDefault
      BY <2>1, <2>2 DEF OwnTables
    <2>4. u \notin raced \cup closedAgain /\ b \notin closedOnce /\ c \notin closedOnce
      BY <2>2 DEF OwnTables
    <2> QED
      BY <2>3, <2>4 DEF CardsAlone, OneDefaultUnlessRaced
  <1> QED
    BY <1>1, <1>2, <1>3, <1>4 DEF CardsAlone

\* A step that leaves the cards as they are.  A handler that had changed its
\* card at Sudo and now gives up is noted in interrupted.
LEMMA QuietStepKeepsAlone ==
    ASSUME CardsAlone, CardsSound', NEW p \in Procs, raced' = raced \cup SharedCards',
           OthersKept(p), HandlerAlone(p)',
           UNCHANGED <<cardsTables, closedOnce, closedAgain>>, interrupted \subseteq interrupted',
           \A u \in Users \ {cUser[p]} : customerRow'[u] = customerRow[u],
           \A q \in Procs \ {p} : seenCard'[q] = seenCard[q],
           SudoAhead(p) => cCard[p] \in interrupted',
           pc'[p] # "card_insert"
    PROVE  CardsAlone'
  <1> USE DEF cardsTables
  <1>1. OwnTables(p)
    BY DEF OwnTables
  <1>2. CardRows'
    BY DEF CardsAlone, CardRows, OthersKept
  <1>3. OwnDefault(p)
    BY DEF OwnDefault, CardsAlone, OneDefaultUnlessRaced
  <1>4. OwnCardAgrees(p)
    <2> SUFFICES ASSUME cCard[p] \in Cards \ (raced' \cup interrupted'),
                        cardStatus[cCard[p]] # "none"
                 PROVE  \/ cardAt[cCard[p]] = mapStatusToSudo(cardStatus[cCard[p]])
                        \/ \E q \in Procs : cCard'[q] = cCard[p] /\ SudoAhead(q)'
      BY DEF OwnCardAgrees
    <2>1. \/ cardAt[cCard[p]] = mapStatusToSudo(cardStatus[cCard[p]])
          \/ \E q \in Procs : cCard[q] = cCard[p] /\ SudoAhead(q)
      BY DEF CardsAlone, StatusAgreesUnlessRaced
    <2>2. ASSUME NEW q \in Procs, cCard[q] = cCard[p], SudoAhead(q)
          PROVE  cCard'[q] = cCard[p] /\ SudoAhead(q)'
      BY <2>2 DEF OthersKept, SudoAhead
    <2> QED
      BY <2>1, <2>2
  <1> QED
    BY <1>1, <1>2, <1>3, <1>4, StepKeepsAlone

-----------------------------------------------------------------------------
(* The steps, for users and cards that nobody raced for *)

\* A handler that answers has nothing left to know.
LEMMA CardDoneAlone ==
    ASSUME CardMemoryOK, NEW p \in Procs, CardDone(p)
    PROVE  /\ OthersKept(p) /\ HandlerAlone(p)'
           /\ pc'[p] = "idle" /\ \A q \in Procs \ {p} : seenCard'[q] = seenCard[q]
  <1>1. pc'[p] = "idle" /\ \A q \in Procs \ {p} : seenCard'[q] = seenCard[q]
    BY DEF CardMemoryOK, CardDone, Goto
  <1>2. HandlerAlone(p)'
    BY <1>1 DEF HandlerAlone, CardAsRead, DefaultsAsRead, HolderLabels, ChangeLabels
  <1> QED
    BY <1>1, <1>2, CardDoneKeeps

\* The steps that leave the cards as they are.
LEMMA QuietStepAlone ==
    ASSUME CardsAlone, CardsSound', NEW p \in Procs, raced' = raced \cup SharedCards',
           \/ SaveOnboardingStep(p) \/ FindCustomer(p) \/ CreateCustomerAtSudo(p)
           \/ InsertCustomer(p) \/ SaveCompleted(p) \/ CreateCardReadUser(p)
           \/ FindCustomerAgain(p) \/ CountCards(p) \/ FindOtherCard(p)
    PROVE  CardsAlone'
  <1> USE DEF onboardingTables, cardLocals, cardHistory
  <1>0. /\ CardTablesOK /\ CardMemoryOK /\ CardHandlerSound(p) /\ HandlerAlone(p)
        /\ OneDefaultUnlessRaced /\ raced \subseteq raced'
    BY DEF CardsAlone, CardsSound, CardsInv, CardsTypeOK, CardHandlersSound
  \* They differ in what the handler knows after the step.
  <1>1. ASSUME UNCHANGED <<cardsTables, interrupted, closedOnce, closedAgain>>,
               \A u \in Users \ {cUser[p]} : customerRow'[u] = customerRow[u],
               ~SudoAhead(p), pc'[p] # "card_insert",
               OthersKept(p), \A q \in Procs \ {p} : seenCard'[q] = seenCard[q],
               HandlerAlone(p)'
        PROVE  CardsAlone'
    BY <1>1, QuietStepKeepsAlone
  <1>2. ASSUME UNCHANGED <<cardsTables, interrupted, closedOnce, closedAgain>>,
               \A u \in Users \ {cUser[p]} : customerRow'[u] = customerRow[u],
               ~SudoAhead(p), CardDone(p)
        PROVE  CardsAlone'
    BY <1>0, <1>1, <1>2, CardDoneAlone
  <1>3. ASSUME NEW label \in {"card_again", "cust_mark", "cust_sudo", "cust_insert",
                              "cust_save", "cust_lookup", "card_create"},
               UNCHANGED <<cardsTables, interrupted, closedOnce, closedAgain,
                           cUser, cCard, seenCard, asked>>,
               \A q \in Procs \ {p} : fresh'[q] = fresh[q] /\ seenData'[q] = seenData[q],
               \A u \in Users \ {cUser[p]} : customerRow'[u] = customerRow[u],
               ~SudoAhead(p), Goto(p, label),
               label \in {"cust_sudo", "cust_insert"} /\ cUser[p] \notin raced' =>
                   customerRow'[cUser[p]] = NoCustomer
        PROVE  CardsAlone'
    <2>1. pc'[p] = label /\ OthersKept(p)
      BY <1>0, <1>3 DEF CardMemoryOK, Goto, OthersKept
    <2>2. HandlerAlone(p)'
      BY <1>3, <2>1 DEF HandlerAlone, CardAsRead, DefaultsAsRead, HolderLabels, ChangeLabels
    <2> QED
      BY <1>1, <1>3, <2>1, <2>2
  <1>4. CASE SaveOnboardingStep(p)
    BY <1>2, <1>4 DEF SaveOnboardingStep, SudoAhead
  <1>5. CASE FindCustomer(p)
    BY <1>2, <1>3, <1>5 DEF FindCustomer, SudoAhead
  <1>6. CASE CreateCustomerAtSudo(p)
    <2>1. pc[p] = "cust_sudo" /\ ~SudoAhead(p)
          /\ UNCHANGED <<onboardingData, customerRow, cardsTables, interrupted,
                         closedOnce, closedAgain>>
      BY <1>6 DEF CreateCustomerAtSudo, SudoAhead
    <2>2. CASE CardDone(p)
      BY <1>2, <2>1, <2>2
    <2>3. ASSUME NEW k, fresh' = [fresh EXCEPT ![p] = {k}], Goto(p, "cust_insert"),
                 UNCHANGED <<cUser, cCard, cKind, seenData, seenCard, asked, abandoned>>
          PROVE  CardsAlone'
      <3>1. cUser[p] \notin raced' => customerRow'[cUser[p]] = NoCustomer
        BY <1>0, <2>1 DEF HandlerAlone
      <3>2. \A q \in Procs \ {p} : fresh'[q] = fresh[q]
        BY <1>0, <2>3 DEF CardMemoryOK
      <3> QED
        BY <1>3, <2>1, <2>3, <3>1, <3>2
    <2> QED
      BY <1>6, <2>2, <2>3 DEF CreateCustomerAtSudo
  <1>7. CASE InsertCustomer(p)
    <2>1. /\ ~SudoAhead(p) /\ Goto(p, "cust_save")
          /\ UNCHANGED <<cUser, cCard, seenData, seenCard, asked, cardsTables,
                         interrupted, closedOnce, closedAgain>>
      BY <1>7 DEF InsertCustomer, SudoAhead
    <2>2. /\ \A q \in Procs \ {p} : fresh'[q] = fresh[q]
          /\ \A u \in Users \ {cUser[p]} : customerRow'[u] = customerRow[u]
      BY <1>0, <1>7 DEF InsertCustomer, CardMemoryOK, CardTablesOK
    <2> QED
      BY <1>3, <2>1, <2>2
  <1>8. CASE SaveCompleted(p)
    BY <1>2, <1>3, <1>8 DEF SaveCompleted, SudoAhead
  <1>9. CASE CreateCardReadUser(p)
    <2>1. \A q \in Procs \ {p} : seenData'[q] = seenData[q]
      BY <1>0, <1>9 DEF CreateCardReadUser, CardMemoryOK
    <2> QED
      BY <1>3, <1>9, <2>1 DEF CreateCardReadUser, SudoAhead
  <1>10. CASE FindCustomerAgain(p)
    BY <1>3, <1>10 DEF FindCustomerAgain, SudoAhead
  <1>11. CASE CountCards(p)
    <2>1. /\ pc[p] = "card_count" /\ ~SudoAhead(p)
          /\ UNCHANGED <<onboardingTables, cardsTables, cardHistory>>
      BY <1>11 DEF CountCards, SudoAhead
    <2>2. CASE CardDone(p)
      BY <1>2, <2>1, <2>2
    <2>3. CASE Cardinality(CardsOf(cUser[p])) = 1 /\ Goto(p, "card_first")
               /\ UNCHANGED cardLocals
      <3>1. pc'[p] = "card_first" /\ OthersKept(p)
        BY <1>0, <2>3 DEF CardMemoryOK, Goto, OthersKept
      <3>2. cCard[p] \in CardsOf(cUser[p]) /\ cardHolder[cCard[p]] = cUser[p]
        BY <1>0, <2>1 DEF CardHandlerSound, HandlerAlone, HolderLabels, CardsOf
      <3>3. IsFiniteSet(CardsOf(cUser[p]))
        BY VirtualCardsAssumption, FS_Subset DEF CardsOf
      <3>4. CardsOf(cUser[p]) = {cCard[p]}
        BY <2>3, <3>2, <3>3, FS_Singleton
      <3>5. CardsOf(cUser[p])' = {cCard[p]}
        BY <2>1, <2>3, <3>4 DEF CardsOf, cardsTables
      <3>6. HandlerAlone(p)'
        BY <2>1, <2>3, <3>1, <3>2, <3>5
        DEF HandlerAlone, CardAsRead, DefaultsAsRead, ChangeLabels, cardsTables
      <3> QED
        BY <1>1, <2>1, <2>3, <3>1, <3>6
    <2> QED
      BY <1>11, <2>2, <2>3 DEF CountCards
  <1>12. CASE FindOtherCard(p)
    <2>1. /\ pc[p] = "card_other" /\ ~SudoAhead(p)
          /\ UNCHANGED <<onboardingTables, cardsTables, cardHistory>>
      BY <1>12 DEF FindOtherCard, SudoAhead
    <2>2. CASE CardDone(p)
      BY <1>2, <2>1, <2>2
    <2>3. ASSUME NEW c \in OpenCards(cUser[p]),
                 cCard' = [cCard EXCEPT ![p] = c],
                 seenCard' = [seenCard EXCEPT ![p] =
                                [status |-> cardStatus[c], default |-> c \in isDefault]],
                 Goto(p, "card_next"), UNCHANGED <<cUser, cKind, seenData, asked, fresh>>
          PROVE  CardsAlone'
      <3>1. pc'[p] = "card_next" /\ cCard'[p] = c /\ OthersKept(p)
            /\ \A q \in Procs \ {p} : seenCard'[q] = seenCard[q]
        BY <1>0, <2>3 DEF CardMemoryOK, Goto, OthersKept
      <3>2. cardHolder[c] = cUser[p]
        BY DEF OpenCards, CardsOf
      <3>3. cUser[p] \notin raced' => DefaultsAsRead(p)'
        BY <1>0, <2>1, <2>3, <3>1 DEF HandlerAlone, DefaultsAsRead, CardsOf, cardsTables
      <3>4. HandlerAlone(p)'
        BY <2>1, <2>3, <3>1, <3>2, <3>3 DEF HandlerAlone, CardAsRead, ChangeLabels, cardsTables
      <3> QED
        BY <1>1, <2>1, <2>3, <3>1, <3>4
    <2> QED
      BY <1>12, <2>2, <2>3 DEF FindOtherCard
  <1> QED
    BY <1>4, <1>5, <1>6, <1>7, <1>8, <1>9, <1>10, <1>11, <1>12

\* createCardForUser: the card of a handler is new to everybody.
LEMMA CreateStepAlone ==
    ASSUME CardsAlone, CardsSound', NEW p \in Procs, raced' = raced \cup SharedCards',
           CreateCardAtSudo(p) \/ InsertCard(p) \/ SaveFirstCard(p)
    PROVE  CardsAlone'
  <1> USE DEF onboardingTables, cardLocals, cardHistory
  <1>0. /\ CardTablesOK /\ CardMemoryOK /\ CardHandlerSound(p) /\ HandlerAlone(p) /\ CardRows
        /\ OneDefaultUnlessRaced /\ StatusAgreesUnlessRaced /\ raced \subseteq raced'
    BY DEF CardsAlone, CardsSound, CardsInv, CardsTypeOK, CardHandlersSound
  <1>1. CASE CreateCardAtSudo(p)
    <2>1. /\ pc[p] = "card_create" /\ ~SudoAhead(p) /\ cUser[p] \in Users
          /\ UNCHANGED <<onboardingTables, cardStatus, cardHolder, isDefault,
                         interrupted, closedOnce, closedAgain>>
      BY <1>0, <1>1 DEF CreateCardAtSudo, SudoAhead, CardMemoryOK
    <2>2. PICK c \in Cards :
             /\ createCard(c)
             /\ \/ /\ fresh' = [fresh EXCEPT ![p] = {c}]
                   /\ cCard' = [cCard EXCEPT ![p] = c]
                   /\ Goto(p, "card_insert")
                   /\ UNCHANGED <<cUser, cKind, seenData, seenCard, asked, abandoned>>
                \/ CardDone(p)
      BY <1>1 DEF CreateCardAtSudo
    <2>3. /\ cardAt[c] = "none" /\ cardStatus[c] = "none" /\ cardAt'[c] = "active"
          /\ \A b \in Cards \ {c} : cardAt'[b] = cardAt[b]
      BY <1>0, <2>2 DEF createCard, CardTablesOK, CardRows
    <2>4. OthersKept(p) /\ \A q \in Procs \ {p} : seenCard'[q] = seenCard[q]
      <3>1. CASE CardDone(p)
        BY <1>0, <3>1, CardDoneAlone
      <3> QED
        BY <1>0, <2>2, <3>1 DEF CardMemoryOK, OthersKept, Goto
    <2>5. OwnTables(p)
      BY <2>1, <2>3, <2>4 DEF OwnTables
    <2>6. \A q \in Procs : pc[q] = "card_insert" => cCard[q] # c
      BY <2>3 DEF CardsAlone, HandlerAlone
    <2>7. pc'[p] = "idle" \/ (pc'[p] = "card_insert" /\ cCard'[p] = c)
      BY <1>0, <2>2, CardDoneAlone DEF CardMemoryOK, Goto
    <2>8. CardRows'
      <3>1. \A a, q \in Procs : a # q /\ pc'[a] = "card_insert" /\ pc'[q] = "card_insert"
                => cCard'[a] # cCard'[q]
        BY <1>0, <2>4, <2>6, <2>7 DEF CardRows, OthersKept
      <3> QED
        BY <1>0, <2>1, <2>3, <3>1 DEF CardRows
    <2>9. HandlerAlone(p)'
      BY <2>1, <2>3, <2>7 DEF HandlerAlone, CardAsRead, DefaultsAsRead, HolderLabels, ChangeLabels
    <2>10. OwnDefault(p)
      BY <1>0, <2>1 DEF OwnDefault, OneDefaultUnlessRaced
    <2>11. OwnCardAgrees(p)
      <3> SUFFICES ASSUME cCard[p] \in Cards \ (raced' \cup interrupted'),
                          cardStatus[cCard[p]] # "none"
                   PROVE  \/ cardAt'[cCard[p]] = mapStatusToSudo(cardStatus[cCard[p]])
                          \/ \E q \in Procs : cCard'[q] = cCard[p] /\ SudoAhead(q)'
        BY <2>1 DEF OwnCardAgrees
      <3>1. cardAt'[cCard[p]] = cardAt[cCard[p]]
        BY <2>3
      <3>2. \/ cardAt[cCard[p]] = mapStatusToSudo(cardStatus[cCard[p]])
            \/ \E q \in Procs : cCard[q] = cCard[p] /\ SudoAhead(q)
        BY <1>0, <2>1 DEF StatusAgreesUnlessRaced
      <3>3. ASSUME NEW q \in Procs, cCard[q] = cCard[p], SudoAhead(q)
            PROVE  cCard'[q] = cCard[p] /\ SudoAhead(q)'
        BY <2>1, <2>4, <3>3 DEF OthersKept, SudoAhead
      <3> QED
        BY <3>1, <3>2, <3>3
    <2> QED
      BY <2>4, <2>5, <2>8, <2>9, <2>10, <2>11, StepKeepsAlone
  <1>2. CASE InsertCard(p)
    <2> DEFINE c == cCard[p]
    <2>1. /\ pc[p] = "card_insert" /\ cUser[p] \in Users /\ c \in Cards
          /\ cardStatus[c] = "none" /\ cardAt[c] = "active"
          /\ UNCHANGED <<onboardingTables, isDefault, cardAt, cUser, cCard, cKind,
                         seenData, seenCard, asked, cardHistory>>
      BY <1>0, <1>2 DEF InsertCard, CardMemoryOK, CardHandlerSound, HandlerAlone
    <2>2. /\ cardStatus'[c] = "active" /\ cardHolder'[c] = cUser[p]
          /\ \A b \in Cards \ {c} : cardStatus'[b] = cardStatus[b] /\ cardHolder'[b] = cardHolder[b]
      BY <1>0, <1>2, <2>1 DEF InsertCard, CardTablesOK
    <2>3. pc'[p] = "card_count" /\ OthersKept(p)
      BY <1>0, <1>2 DEF InsertCard, CardMemoryOK, OthersKept, Goto
    <2>4. c \notin isDefault /\ cardHolder[c] \notin Users
      BY <1>0, <2>1 DEF CardRows, CardTablesOK
    <2>5. OwnTables(p)
      BY <2>1, <2>2, <2>4 DEF OwnTables, TouchesCard
    <2>6. CardRows'
      BY <1>0, <2>1, <2>2, <2>3 DEF CardRows, OthersKept, CardTablesOK
    <2>7. HandlerAlone(p)'
      BY <2>1, <2>2, <2>3 DEF HandlerAlone, CardAsRead, DefaultsAsRead
    <2>8. OwnDefault(p)
      BY <1>0, <2>1, <2>2, <2>4 DEF OwnDefault, OneDefaultUnlessRaced, CardTablesOK
    <2>9. OwnCardAgrees(p)
      BY <2>1, <2>2 DEF OwnCardAgrees, mapStatusToSudo
    <2> QED
      BY <2>3, <2>5, <2>6, <2>7, <2>8, <2>9, StepKeepsAlone
  <1>3. CASE SaveFirstCard(p)
    <2> DEFINE c == cCard[p]
    <2>1. /\ pc[p] = "card_first" /\ ~SudoAhead(p) /\ c \in Cards /\ cardStatus[c] # "none"
          /\ cardHolder[c] = cUser[p] /\ isDefault' = isDefault \cup {c}
          /\ UNCHANGED <<onboardingTables, cardStatus, cardHolder, cardAt, cardHistory>>
      BY <1>0, <1>3 DEF SaveFirstCard, SudoAhead, CardHandlerSound, HandlerAlone, HolderLabels
    <2>2. /\ OthersKept(p) /\ HandlerAlone(p)' /\ pc'[p] = "idle"
          /\ \A q \in Procs \ {p} : seenCard'[q] = seenCard[q]
      BY <1>0, <1>3, CardDoneAlone DEF SaveFirstCard
    <2>3. OwnTables(p)
      BY <2>1, <2>2 DEF OwnTables
    <2>4. CardRows'
      BY <1>0, <2>1, <2>2 DEF CardRows, OthersKept
    <2>5. cUser[p] \notin raced' => CardsOf(cUser[p]) = {c}
      BY <1>0, <2>1 DEF HandlerAlone, DefaultsAsRead
    <2>6. OwnDefault(p)
      BY <1>0, <2>1, <2>5 DEF OwnDefault, CardsOf, CardTablesOK
    <2>7. OwnCardAgrees(p)
      <3>1. \A q \in Procs : cCard[q] = c /\ SudoAhead(q) => cCard'[q] = c /\ SudoAhead(q)'
        BY <2>1, <2>2 DEF OthersKept, SudoAhead
      <3> QED
        BY <1>0, <2>1, <3>1 DEF OwnCardAgrees, StatusAgreesUnlessRaced
    <2> QED
      BY <2>2, <2>3, <2>4, <2>6, <2>7, StepKeepsAlone
  <1> QED
    BY <1>1, <1>2, <1>3

\* updateCard and deleteCard.
LEMMA ChangeStepAlone ==
    ASSUME CardsAlone, CardsSound', NEW p \in Procs, raced' = raced \cup SharedCards',
           \/ UpdateCardAtSudo(p) \/ UnsetOtherDefaults(p) \/ SaveCard(p)
           \/ CancelAtSudo(p) \/ CloseCard(p) \/ SaveOtherCard(p)
    PROVE  CardsAlone'
  <1> USE DEF onboardingTables, cardLocals
  <1> DEFINE c == cCard[p]
             u == cUser[p]
  <1>0. /\ CardTablesOK /\ CardMemoryOK /\ CardHandlerSound(p) /\ HandlerAlone(p) /\ CardRows
        /\ OneDefaultUnlessRaced /\ StatusAgreesUnlessRaced /\ raced \subseteq raced'
        /\ CardTablesOK'
    BY DEF CardsAlone, CardsSound, CardsInv, CardsTypeOK, CardHandlersSound
  <1>1. /\ pc[p] \in ChangeLabels /\ c \in Cards /\ cardStatus[c] # "none" /\ cardAt[c] # "none"
        /\ u \in Users /\ cardHolder[c] = u
    <2>1. pc[p] \in ChangeLabels /\ pc[p] # "idle"
      BY DEF UpdateCardAtSudo, UnsetOtherDefaults, SaveCard, CancelAtSudo, CloseCard,
             SaveOtherCard, ChangeLabels
    <2> QED
      BY <1>0, <2>1 DEF CardHandlerSound, HandlerAlone, HolderLabels, CardRows, CardMemoryOK
  \* Another handler that is ahead of its card's row stays so.
  <1>2. ASSUME OthersKept(p), NEW q \in Procs \ {p}, cCard[q] = c, SudoAhead(q)
        PROVE  cCard'[q] = c /\ SudoAhead(q)'
    BY <1>2 DEF OthersKept, SudoAhead
  <1>3. ASSUME c \notin raced' PROVE \A q \in Procs \ {p} : cCard[q] # c
    <2>1. SharedCards \subseteq raced /\ c \notin raced
      BY <1>0, <1>3 DEF CardsAlone
    <2> QED
      BY <1>1, <2>1, ApartUnlessRaced
  <1>4. c \notin raced' => CardAsRead(p)
    BY <1>0 DEF HandlerAlone
  <1>5. u \notin raced' => DefaultsAsRead(p)
    BY <1>0 DEF HandlerAlone
  <1>6. CASE UpdateCardAtSudo(p)
    <2>1. /\ pc[p] = "card_sudo" /\ asked[p].status \in AskedStatuses
          /\ cardAt' = [cardAt EXCEPT ![c] = mapStatusToSudo(asked[p].status)]
          /\ UNCHANGED <<onboardingTables, cardStatus, cardHolder, isDefault, cardLocals, cardHistory>>
      BY <1>0, <1>6 DEF UpdateCardAtSudo, updateCard, CardHandlerSound
    <2>2. /\ pc'[p] = IF asked[p].default = "yes" THEN "card_unset" ELSE "card_save"
          /\ OthersKept(p)
      BY <1>0, <1>6 DEF UpdateCardAtSudo, CardMemoryOK, OthersKept, Goto
    <2>3. /\ cardAt'[c] = mapStatusToSudo(asked[p].status) /\ cardAt'[c] # "none"
          /\ \A b \in Cards \ {c} : cardAt'[b] = cardAt[b]
      BY <1>0, <1>1, <2>1, VirtualCardsAssumption DEF CardTablesOK, mapStatusToSudo
    <2>4. OwnTables(p)
      BY <1>1, <2>1, <2>3 DEF OwnTables, TouchesCard, cardHistory
    <2>5. CardRows'
      BY <1>0, <2>1, <2>2, <2>3 DEF CardRows, OthersKept
    <2>6. HandlerAlone(p)'
      <3>1. c \notin raced' => CardAsRead(p)'
        BY <1>4, <2>1, <2>2, <2>3 DEF CardAsRead
      <3>2. u \notin raced' => DefaultsAsRead(p)'
        BY <1>5, <2>1, <2>2 DEF DefaultsAsRead
      <3> QED
        BY <1>1, <2>1, <2>2, <3>1, <3>2 DEF HandlerAlone
    <2>7. OwnDefault(p)
      BY <1>0, <2>1 DEF OwnDefault, OneDefaultUnlessRaced, cardHistory
    <2>8. OwnCardAgrees(p)
      <3>1. asked[p].status # "same"
        BY <2>1, VirtualCardsAssumption
      <3>2. cCard'[p] = c /\ SudoAhead(p)'
        BY <2>1, <2>2, <3>1 DEF SudoAhead
      <3> QED
        BY <3>2 DEF OwnCardAgrees
    <2> QED
      BY <2>2, <2>4, <2>5, <2>6, <2>7, <2>8, StepKeepsAlone
  <1>7. CASE UnsetOtherDefaults(p)
    <2>1. /\ pc[p] = "card_unset" /\ isDefault' = isDefault \ (CardsOf(u) \ {c})
          /\ UNCHANGED <<onboardingTables, cardStatus, cardHolder, cardAt, cardLocals, cardHistory>>
      BY <1>7 DEF UnsetOtherDefaults
    <2>2. pc'[p] = "card_save" /\ OthersKept(p)
      BY <1>0, <1>7 DEF UnsetOtherDefaults, CardMemoryOK, OthersKept, Goto
    <2>3. OwnTables(p)
      BY <1>1, <2>1 DEF OwnTables, CardsOf, cardHistory
    <2>4. CardRows'
      BY <1>0, <2>1, <2>2 DEF CardRows, OthersKept
    <2>5. HandlerAlone(p)'
      <3>1. c \notin raced' => CardAsRead(p)'
        BY <1>4, <2>1, <2>2 DEF CardAsRead
      <3>2. u \notin raced' => DefaultsAsRead(p)'
        BY <2>1, <2>2 DEF DefaultsAsRead, CardsOf
      <3> QED
        BY <1>1, <2>1, <2>2, <3>1, <3>2 DEF HandlerAlone
    <2>6. OwnDefault(p)
      BY <1>0, <2>1 DEF OwnDefault, OneDefaultUnlessRaced, cardHistory
    <2>7. OwnCardAgrees(p)
      <3>1. SudoAhead(p) => SudoAhead(p)'
        BY <2>1, <2>2 DEF SudoAhead
      <3> QED
        BY <1>0, <1>2, <2>1, <2>2, <3>1 DEF OwnCardAgrees, StatusAgreesUnlessRaced, cardHistory
    <2> QED
      BY <2>2, <2>3, <2>4, <2>5, <2>6, <2>7, StepKeepsAlone
  <1>8. CASE SaveCard(p)
    <2> DEFINE status == IF asked[p].status = "same" THEN seenCard[p].status ELSE asked[p].status
               default == IF asked[p].default = "same" THEN seenCard[p].default
                          ELSE asked[p].default = "yes"
    <2>1. /\ pc[p] = "card_save" /\ CardDone(p)
          /\ cardStatus' = IF status = seenCard[p].status THEN cardStatus
                           ELSE [cardStatus EXCEPT ![c] = status]
          /\ isDefault' = IF default = seenCard[p].default THEN isDefault
                          ELSE IF default THEN isDefault \cup {c} ELSE isDefault \ {c}
          /\ closedOnce \subseteq closedOnce'
          /\ UNCHANGED <<onboardingTables, cardHolder, cardAt, abandoned, interrupted, closedAgain>>
      BY <1>8 DEF SaveCard, WriteStatus, WriteDefault
    <2>2. /\ OthersKept(p) /\ HandlerAlone(p)' /\ pc'[p] = "idle"
          /\ \A q \in Procs \ {p} : seenCard'[q] = seenCard[q]
      BY <1>0, <2>1, CardDoneAlone
    <2>3. \A b \in Cards \ {c} : cardStatus'[b] = cardStatus[b]
      BY <1>0, <2>1 DEF CardTablesOK
    <2>4. \/ isDefault' = isDefault \/ isDefault' = isDefault \ {c}
          \/ isDefault' = isDefault \cup {c} /\ asked[p].default = "yes"
      BY <2>1
    <2>5. OwnTables(p)
      BY <1>1, <2>1, <2>2, <2>3, <2>4 DEF OwnTables, TouchesCard
    <2>6. cardStatus'[c] # "none"
      BY <1>0, <1>1, <2>1 DEF CardTablesOK
    <2>7. CardRows'
      BY <1>0, <1>1, <2>1, <2>2, <2>3, <2>4, <2>6 DEF CardRows, OthersKept
    <2>8. OwnDefault(p)
      <3>1. CASE isDefault' \subseteq isDefault
        BY <1>0, <2>1, <3>1 DEF OwnDefault, OneDefaultUnlessRaced
      <3>2. CASE isDefault' = isDefault \cup {c} /\ asked[p].default = "yes"
        <4>1. u \notin raced' => isDefault \cap CardsOf(u) \subseteq {c}
          BY <1>5, <2>1, <3>2 DEF DefaultsAsRead
        <4> QED
          BY <1>0, <1>1, <2>1, <3>2, <4>1 DEF OwnDefault, CardsOf, CardTablesOK
      <3> QED
        BY <2>4, <3>1, <3>2
    <2>9. OwnCardAgrees(p)
      <3> SUFFICES ASSUME c \notin raced', c \notin interrupted
                   PROVE  cardAt[c] = mapStatusToSudo(cardStatus'[c])
        BY <2>1 DEF OwnCardAgrees
      <3>1. /\ CardAsRead(p) /\ seenCard[p].status = cardStatus[c]
        BY <1>4, <2>1 DEF CardAsRead
      <3>2. CASE asked[p].status = "same"
        <4>1. cardStatus' = cardStatus
          BY <2>1, <3>2
        <4>2. \A q \in Procs : ~(cCard[q] = c /\ SudoAhead(q))
          BY <1>3, <2>1, <3>2 DEF SudoAhead
        <4> QED
          BY <1>0, <1>1, <4>1, <4>2 DEF StatusAgreesUnlessRaced
      <3>3. CASE asked[p].status # "same"
        <4>1. cardAt[c] = mapStatusToSudo(asked[p].status)
          BY <2>1, <3>1, <3>3 DEF CardAsRead
        <4>2. cardStatus'[c] = asked[p].status
          BY <1>0, <1>1, <2>1, <3>1, <3>3 DEF CardTablesOK
        <4> QED
          BY <4>1, <4>2
      <3> QED
        BY <3>2, <3>3
    <2> QED
      BY <2>2, <2>5, <2>7, <2>8, <2>9, StepKeepsAlone
  <1>9. CASE CancelAtSudo(p)
    <2>1. /\ pc[p] = "card_cancel"
          /\ \/ cardAt' = [cardAt EXCEPT ![c] = "canceled"] /\ interrupted' = interrupted
             \/ cardAt' = cardAt /\ interrupted' = interrupted \cup {c}
          /\ UNCHANGED <<onboardingTables, cardStatus, cardHolder, isDefault, cardLocals,
                         abandoned, closedOnce, closedAgain>>
      BY <1>9 DEF CancelAtSudo, updateCard
    <2>2. pc'[p] = "card_close" /\ OthersKept(p)
      BY <1>0, <1>9 DEF CancelAtSudo, CardMemoryOK, OthersKept, Goto
    <2>3. /\ cardAt'[c] = "canceled" \/ c \in interrupted'
          /\ cardAt'[c] # "none" /\ \A b \in Cards \ {c} : cardAt'[b] = cardAt[b]
      BY <1>0, <1>1, <2>1 DEF CardTablesOK
    <2>4. OwnTables(p)
      BY <1>1, <2>1, <2>3 DEF OwnTables, TouchesCard
    <2>5. CardRows'
      BY <1>0, <2>1, <2>2, <2>3 DEF CardRows, OthersKept
    <2>6. HandlerAlone(p)'
      <3>1. c \notin raced' => CardAsRead(p)'
        BY <1>4, <2>1, <2>2, <2>3 DEF CardAsRead
      <3>2. u \notin raced' => DefaultsAsRead(p)'
        BY <1>5, <2>1, <2>2 DEF DefaultsAsRead
      <3> QED
        BY <1>1, <2>1, <2>2, <3>1, <3>2 DEF HandlerAlone
    <2>7. OwnDefault(p)
      BY <1>0, <2>1 DEF OwnDefault, OneDefaultUnlessRaced
    <2>8. OwnCardAgrees(p)
      BY <2>1, <2>2 DEF OwnCardAgrees, SudoAhead
    <2> QED
      BY <2>2, <2>4, <2>5, <2>6, <2>7, <2>8, StepKeepsAlone
  <1>10. CASE CloseCard(p)
    <2>1. /\ pc[p] = "card_close"
          /\ cardStatus' = IF "closed" = seenCard[p].status THEN cardStatus
                           ELSE [cardStatus EXCEPT ![c] = "closed"]
          /\ closedOnce' = closedOnce \cup {c}
          /\ closedAgain' = closedAgain \cup {v \in {u} : c \in closedOnce}
          /\ \/ seenCard[p].default /\ Goto(p, "card_other") /\ UNCHANGED cardLocals
             \/ CardDone(p)
          /\ UNCHANGED <<onboardingTables, cardHolder, isDefault, cardAt, abandoned, interrupted>>
      BY <1>10 DEF CloseCard, WriteStatus
    <2>2. /\ OthersKept(p) /\ \A q \in Procs \ {p} : seenCard'[q] = seenCard[q]
          /\ pc'[p] \in {"idle", "card_other"}
      <3>1. CASE CardDone(p)
        BY <1>0, <3>1, CardDoneAlone
      <3>2. CASE Goto(p, "card_other") /\ UNCHANGED cardLocals
        BY <1>0, <3>2 DEF CardMemoryOK, OthersKept, Goto
      <3> QED
        BY <2>1, <3>1, <3>2
    <2>3. /\ cardStatus'[c] # "none"
          /\ \A b \in Cards \ {c} : cardStatus'[b] = cardStatus[b]
      BY <1>0, <1>1, <2>1 DEF CardTablesOK
    <2>4. OwnTables(p)
      BY <1>1, <2>1, <2>2, <2>3 DEF OwnTables, TouchesCard
    <2>5. CardRows'
      BY <1>0, <2>1, <2>2, <2>3 DEF CardRows, OthersKept, CardTablesOK
    <2>6. HandlerAlone(p)'
      <3>1. CASE CardDone(p)
        BY <1>0, <3>1, CardDoneAlone
      <3>2. CASE seenCard[p].default /\ Goto(p, "card_other") /\ UNCHANGED cardLocals
        <4>1. pc'[p] = "card_other" /\ cUser'[p] = u /\ cCard'[p] = c
          BY <1>0, <3>2 DEF CardMemoryOK, Goto
        <4>2. ASSUME u \notin raced', u \notin closedAgain'
              PROVE  isDefault \cap CardsOf(u) \subseteq closedOnce'
          <5>1. c \in isDefault
            BY <1>5, <2>1, <3>2, <4>2 DEF DefaultsAsRead
          <5>2. c \notin closedOnce /\ u \notin closedAgain /\ u \notin raced
            BY <1>0, <2>1, <4>2
          <5>3. \A b \in isDefault \ closedOnce : cardHolder[b] = u => b = c
            BY <1>0, <1>1, <5>1, <5>2 DEF OneDefaultUnlessRaced
          <5> QED
            BY <2>1, <5>3 DEF CardsOf
        <4>3. u \notin raced' => DefaultsAsRead(p)'
          BY <2>1, <4>1, <4>2 DEF DefaultsAsRead, CardsOf
        <4> QED
          BY <1>1, <2>1, <4>1, <4>3 DEF HandlerAlone, CardAsRead
      <3> QED
        BY <2>1, <3>1, <3>2
    <2>7. OwnDefault(p)
      BY <1>0, <2>1 DEF OwnDefault, OneDefaultUnlessRaced
    <2>8. OwnCardAgrees(p)
      <3> SUFFICES ASSUME c \notin raced', c \notin interrupted
                   PROVE  cardAt[c] = mapStatusToSudo(cardStatus'[c])
        BY <2>1 DEF OwnCardAgrees
      <3>1. cardAt[c] = "canceled" /\ seenCard[p].status = cardStatus[c]
        BY <1>4, <2>1 DEF CardAsRead
      <3>2. cardStatus'[c] = "closed"
        BY <1>0, <1>1, <2>1, <3>1 DEF CardTablesOK
      <3> QED
        BY <3>1, <3>2 DEF mapStatusToSudo
    <2> QED
      BY <2>2, <2>4, <2>5, <2>6, <2>7, <2>8, StepKeepsAlone
  <1>11. CASE SaveOtherCard(p)
    <2>1. /\ pc[p] = "card_next" /\ CardDone(p) /\ ~SudoAhead(p)
          /\ isDefault' = isDefault \/ isDefault' = isDefault \cup {c}
          /\ UNCHANGED <<onboardingTables, cardStatus, cardHolder, cardAt, cardHistory>>
      BY <1>11 DEF SaveOtherCard, WriteDefault, SudoAhead
    <2>2. /\ OthersKept(p) /\ HandlerAlone(p)' /\ pc'[p] = "idle"
          /\ \A q \in Procs \ {p} : seenCard'[q] = seenCard[q]
      BY <1>0, <2>1, CardDoneAlone
    <2>3. OwnTables(p)
      BY <1>1, <2>1, <2>2 DEF OwnTables, cardHistory
    <2>4. CardRows'
      BY <1>0, <1>1, <2>1, <2>2 DEF CardRows, OthersKept
    <2>5. u \notin raced' /\ u \notin closedAgain => isDefault \cap CardsOf(u) \subseteq closedOnce
      BY <1>5, <2>1 DEF DefaultsAsRead
    <2>6. OwnDefault(p)
      BY <1>0, <2>1, <2>5 DEF OwnDefault, CardsOf, CardTablesOK, cardHistory
    <2>7. OwnCardAgrees(p)
      <3>1. \A q \in Procs : cCard[q] = c /\ SudoAhead(q) => cCard'[q] = c /\ SudoAhead(q)'
        BY <1>2, <2>1, <2>2
      <3> QED
        BY <1>0, <2>1, <3>1 DEF OwnCardAgrees, StatusAgreesUnlessRaced, cardHistory
    <2> QED
      BY <2>2, <2>3, <2>4, <2>6, <2>7, StepKeepsAlone
  <1> QED
    BY <1>6, <1>7, <1>8, <1>9, <1>10, <1>11

\* A handler that fails, before Sudo changed its card, after it did, or in
\* between.
LEMMA FailingAlone ==
    ASSUME CardsAlone, CardsSound', NEW p \in Procs, raced' = raced \cup SharedCards',
           CardHandlerFails(p)
    PROVE  CardsAlone'
  <1>0. /\ CardTablesOK /\ CardMemoryOK /\ CardHandlerSound(p) /\ HandlerAlone(p) /\ CardRows
        /\ OneDefaultUnlessRaced /\ StatusAgreesUnlessRaced /\ raced \subseteq raced'
    BY DEF CardsAlone, CardsSound, CardsInv, CardsTypeOK, CardHandlersSound
  <1>1. /\ CardDone(p)
        /\ UNCHANGED <<onboardingTables, cardStatus, cardHolder, isDefault,
                       closedOnce, closedAgain>>
    BY DEF CardHandlerFails
  <1>2. /\ OthersKept(p) /\ HandlerAlone(p)' /\ pc'[p] = "idle"
        /\ \A q \in Procs \ {p} : seenCard'[q] = seenCard[q]
    BY <1>0, <1>1, CardDoneAlone
  <1>3. CASE interrupted' = interrupted \cup {c \in {cCard[p]} : SudoAhead(p)} /\ UNCHANGED cardAt
    BY <1>1, <1>2, <1>3, QuietStepKeepsAlone DEF onboardingTables, cardsTables
  <1>4. CASE /\ pc[p] = "card_sudo" /\ interrupted' = interrupted \cup {cCard[p]}
             /\ updateCard(cCard[p], mapStatusToSudo(asked[p].status))
    <2>1. /\ asked[p].status \in AskedStatuses /\ cCard[p] \in Cards
          /\ cardStatus[cCard[p]] # "none"
      BY <1>0, <1>4 DEF CardHandlerSound, ChangeLabels
    <2>2. /\ cardAt'[cCard[p]] # "none"
          /\ \A b \in Cards \ {cCard[p]} : cardAt'[b] = cardAt[b]
      BY <1>0, <1>4, <2>1, VirtualCardsAssumption DEF CardTablesOK, updateCard, mapStatusToSudo
    <2>3. OwnTables(p)
      BY <1>1, <1>2, <1>4, <2>1, <2>2 DEF OwnTables, TouchesCard, onboardingTables
    <2>4. CardRows'
      BY <1>0, <1>1, <1>2, <2>2 DEF CardRows, OthersKept
    <2>5. OwnDefault(p)
      BY <1>0, <1>1 DEF OwnDefault, OneDefaultUnlessRaced
    <2>6. OwnCardAgrees(p)
      BY <1>4 DEF OwnCardAgrees
    <2> QED
      BY <1>2, <2>3, <2>4, <2>5, <2>6, StepKeepsAlone
  <1> QED
    BY <1>3, <1>4 DEF CardHandlerFails

\* A request reads what is in the tables.
LEMMA CardsRequestAlone ==
    ASSUME CardsAlone, CardsSound', NEW p \in Procs, raced' = raced \cup SharedCards',
           CardsRequest(p)
    PROVE  CardsAlone'
  <1> USE DEF onboardingTables, cardHistory
  <1>0. CardTablesOK /\ CardMemoryOK /\ CardMemoryOK'
    BY DEF CardsAlone, CardsSound, CardsInv, CardsTypeOK
  <1>1. ASSUME Idle(p), UNCHANGED <<onboardingTables, cardsTables, cardHistory, fresh>>,
               \A q \in Procs \ {p} :
                  /\ pc'[q] = pc[q] /\ cUser'[q] = cUser[q] /\ cCard'[q] = cCard[q]
                  /\ seenData'[q] = seenData[q] /\ seenCard'[q] = seenCard[q]
                  /\ asked'[q] = asked[q],
               HandlerAlone(p)', pc'[p] # "card_insert"
        PROVE  CardsAlone'
    <2>1. ~SudoAhead(p)
      BY <1>1 DEF Idle, SudoAhead
    <2>2. OthersKept(p)
      BY <1>1 DEF OthersKept
    <2> QED
      BY <1>1, <2>1, <2>2, QuietStepKeepsAlone
  <1>2. ASSUME NEW u \in Users, NEW kind, NEW label \in {"step_save", "cust_lookup"},
               ReadOnboarding(p, u, kind, label)
        PROVE  CardsAlone'
    <2>1. pc'[p] = label
      BY <1>0, <1>2 DEF ReadOnboarding, CardMemoryOK, Goto
    <2>2. HandlerAlone(p)'
      BY <2>1 DEF HandlerAlone, CardAsRead, DefaultsAsRead, HolderLabels, ChangeLabels
    <2> QED
      BY <1>0, <1>1, <1>2, <2>1, <2>2 DEF ReadOnboarding, CardMemoryOK, Goto
  <1>3. ASSUME NEW u \in Users, CreateCard(p, u)
        PROVE  CardsAlone'
    <2>1. pc'[p] \in {"card_create", "card_user"}
      BY <1>0, <1>3 DEF CreateCard, CardMemoryOK, Goto
    <2>2. HandlerAlone(p)'
      BY <2>1 DEF HandlerAlone, CardAsRead, DefaultsAsRead, HolderLabels, ChangeLabels
    <2> QED
      BY <1>0, <1>1, <1>3, <2>1, <2>2 DEF CreateCard, CardMemoryOK, Goto
  <1>4. ASSUME NEW c \in Cards, NEW kind, NEW wanted,
               NEW label \in {"card_sudo", "card_unset", "card_save", "card_cancel"},
               label = "card_save" => wanted.status = "same" /\ wanted.default # "yes",
               label = "card_unset" => wanted.status = "same",
               ReadCard(p, c, kind, wanted, label)
        PROVE  CardsAlone'
    <2>1. /\ pc'[p] = label /\ cUser'[p] = cardHolder[c] /\ cCard'[p] = c
          /\ seenCard'[p] = [status |-> cardStatus[c], default |-> c \in isDefault]
          /\ UNCHANGED <<cardsTables, onboardingTables, cardHistory>>
      BY <1>0, <1>4 DEF ReadCard, CardMemoryOK, Goto
    <2>2. asked'[p] = wanted
      BY <1>0, <1>4 DEF ReadCard, CardMemoryOK
    <2>3. CardAsRead(p)'
      BY <1>4, <2>1, <2>2 DEF CardAsRead, cardsTables
    <2>4. DefaultsAsRead(p)'
      <3>1. seenCard'[p].default = (c \in isDefault)
        BY <2>1
      <3>2. pc'[p] \in {"card_cancel", "card_close"} /\ seenCard'[p].default
              => cCard'[p] \in isDefault'
        BY <2>1, <3>1 DEF cardsTables
      <3> QED
        BY <1>4, <2>1, <2>2, <3>2 DEF DefaultsAsRead
    <2>5. HandlerAlone(p)'
      BY <2>1, <2>3, <2>4 DEF HandlerAlone, cardsTables
    <2> QED
      BY <1>0, <1>1, <1>4, <2>1, <2>5 DEF ReadCard, CardMemoryOK, Goto
  <1>5. ASSUME NEW c \in Cards, NEW wanted \in Changes, UpdateCard(p, c, wanted)
        PROVE  CardsAlone'
    <2> DEFINE label == IF wanted.status # "same" THEN "card_sudo"
                        ELSE IF wanted.default = "yes" THEN "card_unset" ELSE "card_save"
    <2>1. ReadCard(p, c, "update", wanted, label)
      BY <1>5 DEF UpdateCard
    <2>2. /\ label \in {"card_sudo", "card_unset", "card_save", "card_cancel"}
          /\ label = "card_save" => wanted.status = "same" /\ wanted.default # "yes"
          /\ label = "card_unset" => wanted.status = "same"
      OBVIOUS
    <2> HIDE DEF label
    <2> QED
      BY <1>4, <2>1, <2>2
  <1>6. ASSUME NEW c \in Cards, DeleteCard(p, c)
        PROVE  CardsAlone'
    BY <1>4, <1>6 DEF DeleteCard
  <1> QED
    BY <1>2, <1>3, <1>5, <1>6 DEF CardsRequest, SaveStep, CompleteOnboarding, VerifyIdentity

\* No card exists at first.
LEMMA CardsStartAlone == CardsStart => CardsAlone
  <1> SUFFICES ASSUME RequestsInit, CardsInit
               PROVE  CardsAlone
    BY DEF CardsStart
  <1> USE DEF RequestsInit
  <1>1. CardsSound
    BY CardsInitSound DEF CardsStart
  <1>2. \A p \in Procs : CardsWorksOn(p) = {}
    BY DEF CardsInit, CardsWorksOn
  <1>3. SharedCards \subseteq raced
    BY <1>2 DEF SharedCards, Shared
  <1>4. CardRows /\ StatusAgreesUnlessRaced /\ OneDefaultUnlessRaced
    BY DEF CardsInit, CardRows, StatusAgreesUnlessRaced, OneDefaultUnlessRaced
  <1>5. \A p \in Procs : HandlerAlone(p)
    BY DEF CardsInit, HandlerAlone, CardAsRead, DefaultsAsRead, HolderLabels, ChangeLabels
  <1> QED
    BY <1>1, <1>3, <1>4, <1>5 DEF CardsAlone

\* Every step of the specification keeps it.
LEMMA CardsNextAlone ==
    ASSUME CardsAlone, [CardsNext /\ raced' = raced \cup SharedCards']_<<cardsVars, raced>>
    PROVE  CardsAlone'
  <1>1. CardsSound'
    BY CardsNextSound DEF CardsAlone
  <1>2. CASE UNCHANGED <<cardsVars, raced>>
    <2> USE <1>2 DEF cardsVars, onboardingTables, cardsTables, cardLocals, cardHistory
    <2>1. SharedCards' = SharedCards
      BY DEF SharedCards, Shared, CardsWorksOn
    <2>2. CardRows' /\ StatusAgreesUnlessRaced' /\ OneDefaultUnlessRaced'
      BY DEF CardsAlone, CardRows, StatusAgreesUnlessRaced, OneDefaultUnlessRaced, SudoAhead
    <2>3. \A p \in Procs : HandlerAlone(p)'
      BY DEF CardsAlone, HandlerAlone, CardAsRead, DefaultsAsRead, CardsOf
    <2> QED
      BY <1>1, <2>1, <2>2, <2>3 DEF CardsAlone
  <1>3. ASSUME NEW p \in Procs, CardsStep(p), raced' = raced \cup SharedCards'
        PROVE  CardsAlone'
    BY <1>1, <1>3, QuietStepAlone, CreateStepAlone, ChangeStepAlone, FailingAlone DEF CardsStep
  <1> QED
    BY <1>1, <1>2, <1>3, CardsRequestAlone DEF CardsNext

\* Of two customers that Sudo made of a user for handlers that did not fail,
\* each is the user's row or in the hands of a handler that found no row.
LEMMA OneCustomerFollows == CardsAlone => OneCustomerUnlessRaced
  <1> SUFFICES ASSUME CardsAlone, NEW k \in Customers, NEW l \in Customers,
                      customerAt[k] \in Users \ raced, customerAt[k] = customerAt[l],
                      {k, l} \cap abandoned = {}
               PROVE  k = l
    BY DEF OneCustomerUnlessRaced
  <1> DEFINE u == customerAt[k]
  <1>1. /\ CardMemoryOK /\ SharedCards \subseteq raced
        /\ \A p \in Procs : CardHandlerSound(p) /\ HandlerAlone(p)
    BY DEF CardsAlone, CardsSound, CardsInv, CardsTypeOK, CardHandlersSound
  \* The handler that holds a customer of the user.
  <1>2. ASSUME NEW m \in Customers, customerAt[m] = u, NEW p \in Procs, m \in fresh[p]
        PROVE  fresh[p] = {m} /\ cUser[p] = u /\ customerRow[u] = NoCustomer
    <2>1. pc[p] = "cust_insert" /\ fresh[p] = {m} /\ cUser[p] = u
      BY <1>1, <1>2, VirtualCardsAssumption DEF CardHandlerSound
    <2> QED
      BY <1>1, <2>1 DEF HandlerAlone
  <1>3. /\ customerRow[u] = k \/ \E p \in Procs : k \in fresh[p]
        /\ customerRow[u] = l \/ \E p \in Procs : l \in fresh[p]
    BY VirtualCardsAssumption DEF CardsAlone, CardsSound, SudoAccountedFor
  <1>4. CASE customerRow[u] # NoCustomer
    BY <1>2, <1>3, <1>4
  <1>5. CASE customerRow[u] = NoCustomer
    <2>1. PICK p \in Procs, q \in Procs : k \in fresh[p] /\ l \in fresh[q]
      BY <1>3, <1>5, VirtualCardsAssumption
    <2>2. /\ fresh[p] = {k} /\ cUser[p] = u
          /\ fresh[q] = {l} /\ cUser[q] = u
      BY <1>2, <2>1
    <2>3. p = q
      BY <1>1, <2>2, ApartUnlessRaced
    <2> QED
      BY <2>2, <2>3
  <1> QED
    BY <1>4, <1>5

\* Every behaviour keeps the invariant for what nobody raced for.
LEMMA CardsAlwaysAlone == CardsSpec => []CardsAlone
  <1>1. CardsStart => CardsAlone
    BY CardsStartAlone
  <1>2. CardsAlone /\ [CardsNext /\ raced' = raced \cup SharedCards']_<<cardsVars, raced>>
          => CardsAlone'
    BY CardsNextAlone
  <1> QED
    BY <1>1, <1>2, PTL DEF CardsSpec

\* However verifyIdentity, completeOnboarding and createCardForUser follow on
\* one another, Sudo has one customer for a user for whom one handler at a time
\* worked and none failed.
THEOREM OneCustomer == CardsSpec => []OneCustomerUnlessRaced
  <1>1. CardsAlone => OneCustomerUnlessRaced
    BY OneCustomerFollows
  <1> QED
    BY <1>1, CardsAlwaysAlone, PTL

\* The status of a card that one handler at a time works on is the same here
\* and at Sudo, except between updateCard's or deleteCard's two writes.
THEOREM StatusAgrees == CardsSpec => []StatusAgreesUnlessRaced
  <1>1. CardsAlone => StatusAgreesUnlessRaced
    BY DEF CardsAlone
  <1> QED
    BY <1>1, CardsAlwaysAlone, PTL

\* createCardForUser, setDefaultCard and deleteCard, one after the other and as
\* often as one likes, leave a user one default card among those never closed,
\* as long as no closed card is deleted again.
THEOREM OneDefault == CardsSpec => []OneDefaultUnlessRaced
  <1>1. CardsAlone => OneDefaultUnlessRaced
    BY DEF CardsAlone
  <1> QED
    BY <1>1, CardsAlwaysAlone, PTL

=============================================================================
