----------------------------- MODULE CardFunding -----------------------------
(***************************************************************************)
(* CardsService.fundCardFromWallet: money moves from users.wallet to the   *)
(* account of a virtual card at the external Sudo API.  Unlike every other *)
(* handler, it writes the user row first and calls Sudo three times with   *)
(* the transaction still open: the row stays locked meanwhile, and a later *)
(* error rolls the debit back whatever Sudo has done.                      *)
(***************************************************************************)
EXTENDS Accounts, FiniteSets

CONSTANTS
    Cards,              \* rows of the cards table
    NoCard,             \* a handler that works on no card
    CardOwner,          \* cards.user_id
    MaxFunded           \* bound: what Sudo is asked to put on one card

ASSUME CardFundingAssumption ==
    /\ IsFiniteSet(Cards)
    /\ NoCard \notin Cards
    /\ CardOwner \in [Cards -> Users]
    /\ MaxFunded \in Nat

VARIABLES
    onCard,             \* Sudo's balance of the card account
    funded,             \* what Sudo ever moved onto the card
    cardBalance,        \* cards.balance, a copy of Sudo's
    cardRows,           \* sum of the FUNDING rows of card_transactions
    forgotten,          \* what Sudo moved for handlers that then failed
    fundTarget,         \* fundTarget[p]: the card a handler funds
    fundAmount,         \* fundAmount[p]: with how much
    cardSeen,           \* cardSeen[p]: the balance of the Card instance
    cardClean           \* cardClean[p]: save() would not write that balance

sudoCardVars == <<onCard, funded>>
cardTables == <<cardBalance, cardRows>>
fundLocals == <<fundTarget, fundAmount, cardSeen, cardClean>>
fundState == <<sudoCardVars, cardTables, forgotten, fundLocals>>
fundVars == <<pc, accountVars, fundState>>

FundingInit ==
    /\ onCard = [card \in Cards |-> 0]
    /\ funded = [card \in Cards |-> 0]
    /\ cardBalance = [card \in Cards |-> 0]
    /\ cardRows = [card \in Cards |-> 0]
    /\ forgotten = [card \in Cards |-> 0]
    /\ fundTarget = [p \in Procs |-> NoCard]
    /\ fundAmount = [p \in Procs |-> 0]
    /\ cardSeen = [p \in Procs |-> 0]
    /\ cardClean = [p \in Procs |-> FALSE]

FundDone(p) ==
    /\ fundTarget' = [fundTarget EXCEPT ![p] = NoCard]
    /\ fundAmount' = [fundAmount EXCEPT ![p] = 0]
    /\ cardSeen' = [cardSeen EXCEPT ![p] = 0]
    /\ cardClean' = [cardClean EXCEPT ![p] = FALSE]
    /\ Goto(p, "idle")

-----------------------------------------------------------------------------
\* getCardById: the card is read and Sudo asked for its balance.  The column
\* is read as a string, so a number from Sudo always counts as a change.
FundCard(p, card, amount) ==
    /\ Idle(p)
    /\ fundTarget' = [fundTarget EXCEPT ![p] = card]
    /\ fundAmount' = [fundAmount EXCEPT ![p] = amount]
    /\ \/ /\ cardSeen' = [cardSeen EXCEPT ![p] = onCard[card]]
          /\ Goto(p, "fund_sync")
       \/ /\ cardSeen' = [cardSeen EXCEPT ![p] = cardBalance[card]]
          /\ Goto(p, "fund_user")       \* Sudo fails (logged) or omits it
    /\ UNCHANGED <<accountVars, sudoCardVars, cardTables, forgotten, cardClean>>

\* getCardById: card.save(), outside any transaction.
FundSyncCard(p) ==
    /\ pc[p] = "fund_sync"
    /\ cardBalance' = [cardBalance EXCEPT ![fundTarget[p]] = cardSeen[p]]
    /\ cardClean' = [cardClean EXCEPT ![p] = TRUE]
    /\ Goto(p, "fund_user")
    /\ UNCHANGED <<accountVars, sudoCardVars, cardRows, forgotten,
                   fundTarget, fundAmount, cardSeen>>

\* User.findByPk and the check of the wallet.
FundReadUser(p) ==
    /\ pc[p] = "fund_user"
    /\ balance[CardOwner[fundTarget[p]]]["wallet"] >= fundAmount[p]
    /\ ReadUser(p, CardOwner[fundTarget[p]])
    /\ Goto(p, "fund_begin")
    /\ UNCHANGED fundState

\* BEGIN; user.save({transaction}): the row is locked, Sudo's getCard follows.
FundBegin(p) ==
    /\ pc[p] = "fund_begin"
    /\ LockUser(p)
    /\ Goto(p, "fund_transfer")
    /\ UNCHANGED fundState

\* Sudo carries the transfer out, up to the bound.
SudoMoves(card, amount) ==
    /\ funded[card] + amount <= MaxFunded
    /\ onCard' = [onCard EXCEPT ![card] = @ + amount]
    /\ funded' = [funded EXCEPT ![card] = @ + amount]

FundTransfer(p) ==
    /\ pc[p] = "fund_transfer"
    /\ SudoMoves(fundTarget[p], fundAmount[p])
    /\ Goto(p, "fund_refresh")
    /\ UNCHANGED <<accountVars, cardTables, forgotten, fundLocals>>

\* ... and its answer is lost: fundTransfer throws, the debit is rolled back.
FundAnswerLost(p) ==
    /\ pc[p] = "fund_transfer"
    /\ SudoMoves(fundTarget[p], fundAmount[p])
    /\ forgotten' = [forgotten EXCEPT ![fundTarget[p]] = @ + fundAmount[p]]
    /\ DropUser(p)
    /\ FundDone(p)
    /\ UNCHANGED cardTables

\* getCard again: the new balance, or the old one plus the amount if Sudo
\* leaves the balance out.
FundRefresh(p) ==
    /\ pc[p] = "fund_refresh"
    /\ \E seenNow \in {onCard[fundTarget[p]], cardSeen[p] + fundAmount[p]} :
          /\ cardSeen' = [cardSeen EXCEPT ![p] = seenNow]
          /\ cardClean' = [cardClean EXCEPT ![p] = @ /\ seenNow = cardSeen[p]]
    /\ Goto(p, "fund_commit")
    /\ UNCHANGED <<accountVars, sudoCardVars, cardTables, forgotten, fundTarget, fundAmount>>

\* Mutant: the FUNDING row gets the new balance instead of the amount.
FundCommitBalance(p) ==
    LET card == fundTarget[p] IN
    /\ pc[p] = "fund_commit"
    /\ Post(p, "card_funding", fundAmount[p])
    /\ cardBalance' = [cardBalance EXCEPT ![card] = cardSeen[p]]
    /\ cardRows' = [cardRows EXCEPT ![card] = @ + cardSeen[p]]
    /\ FundDone(p)
    /\ UNCHANGED <<sudoCardVars, forgotten>>

\* card.save(), the CARD_FUNDING row, the FUNDING row, and the commit.
FundCommit(p) ==
    LET card == fundTarget[p] IN
    /\ pc[p] = "fund_commit"
    /\ Post(p, "card_funding", fundAmount[p])
    /\ cardBalance' = IF cardClean[p] THEN cardBalance
                      ELSE [cardBalance EXCEPT ![card] = cardSeen[p]]
    /\ cardRows' = [cardRows EXCEPT ![card] = @ + fundAmount[p]]
    /\ FundDone(p)
    /\ UNCHANGED <<sudoCardVars, forgotten>>

FundLabels == {"fund_sync", "fund_user", "fund_begin", "fund_transfer",
               "fund_refresh", "fund_commit"}

MovedLabels == {"fund_refresh", "fund_commit"}

\* What the error path forgets: Sudo's transfer, if it was made.
Forgets(p) ==
    IF pc[p] \in MovedLabels
      THEN [forgotten EXCEPT ![fundTarget[p]] = @ + fundAmount[p]]
      ELSE forgotten

\* Mutant: an error between the transfer and the commit leaves the
\* transaction open.
FundFailsWithoutRollback(p) ==
    /\ pc[p] \in FundLabels
    /\ forgotten' = Forgets(p)
    /\ holds' = [holds EXCEPT ![p] = NoUser]
    /\ seen' = [seen EXCEPT ![p] = Nothing]
    /\ stale' = [stale EXCEPT ![p] = {}]
    /\ FundDone(p)
    /\ UNCHANGED <<balance, posted, rowLock, overwrote, sudoCardVars, cardTables>>

\* The handler ends with an error: too little in the wallet, no settlement
\* account, Sudo refuses or fails, a query fails, the process dies.
FundFails(p) ==
    /\ pc[p] \in FundLabels
    /\ forgotten' = Forgets(p)
    /\ DropUser(p)
    /\ FundDone(p)
    /\ UNCHANGED <<sudoCardVars, cardTables>>

\* The owner pays with the card; Sudo takes it off the card account.
Purchase(card) ==
    /\ onCard[card] > 0
    /\ onCard' = [onCard EXCEPT ![card] = @ - 1]
    /\ UNCHANGED <<pc, accountVars, funded, cardTables, forgotten, fundLocals>>

FundRequest(p) == \E card \in Cards, amount \in Amounts : FundCard(p, card, amount)

FundStep(p) ==
    \/ FundSyncCard(p) \/ FundReadUser(p) \/ FundBegin(p)
    \/ FundTransfer(p) \/ FundAnswerLost(p) \/ FundRefresh(p) \/ FundCommit(p)
    \/ FundFails(p)

FundingNext ==
    \/ \E p \in Procs : FundRequest(p) \/ FundStep(p)
    \/ \E card \in Cards : Purchase(card)

FundingStart == RequestsInit /\ AccountsInit /\ FundingInit

FundingSpec ==
    /\ FundingStart
    /\ [][FundingNext /\ UNCHANGED raced]_<<fundVars, raced>>

-----------------------------------------------------------------------------
(* Properties *)

\* Types, and what a handler has in memory: the card it funds, and past the
\* check of the wallet an instance of the owner that covers the amount.
FundingTypeOK ==
    /\ AccountsTypeOK
    /\ onCard \in [Cards -> 0..MaxFunded]
    /\ funded \in [Cards -> 0..MaxFunded]
    /\ cardBalance \in [Cards -> Nat]
    /\ cardRows \in [Cards -> Nat]
    /\ forgotten \in [Cards -> Nat]
    /\ fundTarget \in [Procs -> Cards \cup {NoCard}]
    /\ fundAmount \in [Procs -> Amounts \cup {0}]
    /\ cardSeen \in [Procs -> Nat]
    /\ cardClean \in [Procs -> BOOLEAN]
    /\ \A p \in Procs :
          /\ pc[p] \in FundLabels => fundTarget[p] \in Cards /\ fundAmount[p] \in Amounts
          /\ pc[p] \in FundLabels \ {"fund_sync", "fund_user"} =>
                /\ holds[p] = CardOwner[fundTarget[p]]
                /\ fundAmount[p] <= seen[p]["wallet"]

\* The row lock is held exactly while a transfer may be under way, so no two
\* fundings of one wallet talk to Sudo at once, and a locked row is always
\* given back by a handler that is still running.
LockedWhileFunding ==
    \A u \in Users, p \in Procs :
        rowLock[u] = p <=> holds[p] = u /\ pc[p] \in {"fund_transfer"} \cup MovedLabels

\* The units of money that card_transactions says were put on u's cards.
FundedUnits(u) ==
    UNION {{card} \X (1..cardRows[card]) : card \in {c \in Cards : CardOwner[c] = u}}

\* The two records of a funding agree: what card_transactions says was put on
\* the user's cards is what transactions says was taken off the wallet.
FundingRowsAgree ==
    \A u \in Users : posted[u]["card_funding"] = Cardinality(FundedUnits(u))

\* What Sudo put on a card was booked in card_transactions, or belongs to the
\* one handler still under way, or to handlers that failed after the transfer.
FundingAccountedFor ==
    \A card \in Cards :
        LET booked == cardRows[card] + forgotten[card]
            underWay == {p \in Procs : fundTarget[p] = card /\ pc[p] \in MovedLabels}
        IN  \/ underWay = {} /\ funded[card] = booked
            \/ \E p \in Procs : underWay = {p} /\ funded[card] = booked + fundAmount[p]

\* The three books of a funding (Sudo's, card_transactions, transactions)
\* and the lock under which they are written stay consistent.
FundingInv ==
    FundingTypeOK /\ LockedWhileFunding /\ FundingRowsAgree /\ FundingAccountedFor

=============================================================================
