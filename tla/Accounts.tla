------------------------------ MODULE Accounts ------------------------------
(***************************************************************************)
(* The money columns of the users table (users.earnings, users.wallet),    *)
(* the transactions table, and the one way every handler writes them.      *)
(*                                                                         *)
(* A handler reads the User row (User.findByPk), computes the new value of *)
(* a column in memory, and in a database transaction saves that value and  *)
(* creates a Transaction row.  Sequelize's save() writes the columns whose *)
(* value changed, as absolute values, and nothing in the code locks the    *)
(* row when it reads it.  Postgres runs the transactions READ COMMITTED:   *)
(* an UPDATE waits for the row lock of another transaction and then simply *)
(* overwrites.  A transaction that reads nothing between BEGIN and COMMIT  *)
(* therefore takes effect as a whole when it commits, and is one step here.*)
(*                                                                         *)
(* The second half of the module is the abstract specification of these    *)
(* tables: what every handler of the backend promises to do to them.       *)
(***************************************************************************)
EXTENDS Requests, Integers

CONSTANTS
    Users,          \* rows of the users table
    NoUser,         \* a handler that holds no User instance
    NoProc,         \* a row no transaction has locked
    Amounts,        \* amounts of money that a DTO lets through
    Collected,      \* amounts that a widget session may have collected
    Onboarded,      \* users whose onboardingStatus is COMPLETED, which is final
    OpeningEarnings,\* what users.earnings may be when a behaviour starts,
    OpeningWallet   \* and users.wallet, from rows posted earlier

ASSUME AccountsAssumption ==
    /\ NoUser \notin Users
    /\ NoProc \notin Procs
    /\ Amounts \subseteq Nat \ {0}      \* @Min(0.01) and the like
    /\ Collected \subseteq Int          \* SubmitStepDto.data is a bare object
    /\ \A a \in Collected : a > 0 => a \in Amounts
    /\ Onboarded \subseteq Users
    /\ OpeningEarnings \subseteq Nat
    /\ OpeningWallet \subseteq Nat

VARIABLES
    balance,        \* balance[u][c]: users.earnings and users.wallet
    posted,         \* posted[u][k]: sum of transactions.amount of u by kind
    rowLock,        \* rowLock[u]: slot whose open transaction wrote the row
    holds,          \* holds[p]: the user whose row the handler has read
    seen,           \* seen[p][c]: the column values of that instance
    stale,          \* stale[p]: columns committed by others since the read
    overwrote       \* overwrote[u]: columns once saved from a stale instance

(***************************************************************************)
(* stale and overwrote are history variables: no guard reads them.         *)
(***************************************************************************)
accountVars == <<balance, posted, rowLock, holds, seen, stale, overwrote>>

Columns == {"earnings", "wallet"}

(***************************************************************************)
(* TransactionType, with three uses of CREDIT told apart: "credit" rows    *)
(* add to users.earnings, "negative_credit" rows take their amount from    *)
(* them (the row holds it with a minus sign), and "direct" rows record a   *)
(* remittance to the user's bank account and touch no balance.             *)
(***************************************************************************)
Kinds == {"credit", "negative_credit", "direct", "payout", "deposit", "card_funding",
          "transfer"}

Adds(c) == IF c = "earnings" THEN {"credit"} ELSE {"deposit", "transfer"}
Takes(c) == IF c = "earnings" THEN {"negative_credit", "payout", "transfer"}
                              ELSE {"card_funding"}

\* The columns that a row of this kind goes with.
Writes(kind) == {c \in Columns : kind \in Adds(c) \cup Takes(c)}

\* Mutant: the sign of the amount does not depend on the kind.
ComputedAdding(p, kind, amount, c) == seen[p][c] + amount

\* What the handler computes from its instance for a column it writes.
Computed(p, kind, amount, c) ==
    IF kind \in Adds(c) THEN seen[p][c] + amount ELSE seen[p][c] - amount

Nothing == [c \in Columns |-> 0]

-----------------------------------------------------------------------------
(* What handlers do to the tables *)

AccountsInit ==
    /\ \E e \in [Users -> OpeningEarnings], w \in [Users -> OpeningWallet] :
          /\ balance = [u \in Users |->
                          [c \in Columns |-> IF c = "earnings" THEN e[u] ELSE w[u]]]
          /\ posted = [u \in Users |->
                          [k \in Kinds |-> IF k = "credit" THEN e[u]
                                            ELSE IF k = "deposit" THEN w[u] ELSE 0]]
    /\ rowLock = [u \in Users |-> NoProc]
    /\ holds = [p \in Procs |-> NoUser]
    /\ seen = [p \in Procs |-> Nothing]
    /\ stale = [p \in Procs |-> {}]
    /\ overwrote = [u \in Users |-> {}]

\* User.findByPk(u): the instance holds the last committed values.
ReadUser(p, u) ==
    /\ holds' = [holds EXCEPT ![p] = u]
    /\ seen' = [seen EXCEPT ![p] = balance[u]]
    /\ stale' = [stale EXCEPT ![p] = {}]
    /\ UNCHANGED <<balance, posted, rowLock, overwrote>>

\* The locks of p's open transaction, given up when it ends.
Unlocked(p) == [u \in Users |-> IF rowLock[u] = p THEN NoProc ELSE rowLock[u]]

\* The handler ends without a commit; its open transaction is rolled back.
DropUser(p) ==
    /\ holds' = [holds EXCEPT ![p] = NoUser]
    /\ seen' = [seen EXCEPT ![p] = Nothing]
    /\ stale' = [stale EXCEPT ![p] = {}]
    /\ rowLock' = Unlocked(p)
    /\ UNCHANGED <<balance, posted, overwrote>>

\* user.save() in a transaction that stays open: the row is locked, and the
\* value written is not visible to anyone until the commit.
LockUser(p) ==
    /\ rowLock[holds[p]] = NoProc
    /\ rowLock' = [rowLock EXCEPT ![holds[p]] = p]
    /\ UNCHANGED <<balance, posted, holds, seen, stale, overwrote>>

\* user.save(), Transaction.create() and commit().
Post(p, kind, amount) ==
    LET u == holds[p] IN
    /\ Writes(kind) # {} => rowLock[u] \in {NoProc, p}
    /\ balance' = [balance EXCEPT ![u] =
                    [c \in Columns |-> IF c \in Writes(kind)
                                         THEN Computed(p, kind, amount, c)
                                         ELSE balance[u][c]]]
    /\ posted' = [posted EXCEPT ![u][kind] = @ + amount]
    /\ overwrote' = [overwrote EXCEPT ![u] = @ \cup (Writes(kind) \cap stale[p])]
    /\ stale' = [q \in Procs |->
                    IF q = p THEN {}
                    ELSE IF holds[q] = u THEN stale[q] \cup Writes(kind) ELSE stale[q]]
    /\ holds' = [holds EXCEPT ![p] = NoUser]
    /\ seen' = [seen EXCEPT ![p] = Nothing]
    /\ rowLock' = Unlocked(p)

-----------------------------------------------------------------------------
(***************************************************************************)
(* The abstract specification: balances change only by posting exactly one *)
(* row, by the amount of that row, computed from a row somebody really     *)
(* committed.  What is taken is covered by that row, but for a credit of   *)
(* whatever amount a widget session collected.  It does not promise that   *)
(* the instance is fresh, because no handler makes sure of it.             *)
(***************************************************************************)
Covered(p, kind, amount) ==
    \A c \in Writes(kind) : kind \in Takes(c) => amount <= seen[p][c]

PostCovered(p) ==
    /\ holds[p] \in Users
    /\ \E kind \in Kinds \ {"negative_credit"}, amount \in Amounts :
          Covered(p, kind, amount) /\ Post(p, kind, amount)

\* A CREDIT row of any sign, and the earnings changed by it.
PostCollected(p, amount) ==
    \/ amount >= 0 /\ Post(p, "credit", amount)
    \/ amount < 0 /\ Post(p, "negative_credit", -amount)

AccountsNext ==
    \E p \in Procs :
        \/ \E u \in Users : ReadUser(p, u)
        \/ holds[p] \in Users /\ LockUser(p)
        \/ PostCovered(p)
        \/ holds[p] \in Users /\ \E amount \in Collected : PostCollected(p, amount)
        \/ DropUser(p)

AccountsSpec == AccountsInit /\ [][AccountsNext]_accountVars

-----------------------------------------------------------------------------
(* Invariants of the tables, whatever the handlers are *)

AccountsTypeOK ==
    /\ balance \in [Users -> [Columns -> Int]]
    /\ posted \in [Users -> [Kinds -> Nat]]
    /\ rowLock \in [Users -> Procs \cup {NoProc}]
    /\ holds \in [Procs -> Users \cup {NoUser}]
    /\ seen \in [Procs -> [Columns -> Int]]
    /\ stale \in [Procs -> SUBSET Columns]
    /\ overwrote \in [Users -> SUBSET Columns]

\* What the transactions table says a column should be.
Expected(u, c) ==
    IF c = "earnings"
      THEN posted[u]["credit"] - posted[u]["negative_credit"]
             - posted[u]["payout"] - posted[u]["transfer"]
      ELSE posted[u]["deposit"] + posted[u]["transfer"] - posted[u]["card_funding"]

\* No wallet is ever negative, and earnings only of a user to whom a widget
\* session once credited a negative amount, however the handlers interleave:
\* the value a handler checked is the value it computes from.
NoNegativeBalance ==
    \A u \in Users :
        /\ balance[u]["wallet"] >= 0
        /\ posted[u]["negative_credit"] = 0 => balance[u]["earnings"] >= 0

\* A column can differ from the sum of the user's transaction rows only if
\* some handler once saved it from an instance that another commit had
\* made stale: there is no other way to lose or to make money in the books.
ReconciledUnlessOverwritten ==
    \A u \in Users, c \in Columns :
        c \notin overwrote[u] => balance[u][c] = Expected(u, c)

\* What a handler remembers of a column is a value that was committed, hence
\* as little negative, and the current value unless somebody committed since.
SeenWasCommitted ==
    \A p \in Procs :
        /\ seen[p]["wallet"] >= 0
        /\ holds[p] \in Users =>
              /\ posted[holds[p]]["negative_credit"] = 0 => seen[p]["earnings"] >= 0
              /\ \A c \in Columns \ stale[p] : seen[p][c] = balance[holds[p]][c]

\* The inductive invariant of these tables.
AccountsInv ==
    /\ AccountsTypeOK
    /\ NoNegativeBalance
    /\ SeenWasCommitted
    /\ ReconciledUnlessOverwritten

\* The books always add up: what the columns hold is what the rows say.
Reconciled == \A u \in Users, c \in Columns : balance[u][c] = Expected(u, c)

=============================================================================
