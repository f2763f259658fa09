---------------------------- MODULE BankAccounts ----------------------------
(***************************************************************************)
(* BankAccountsService: the bank accounts that payouts and remittances go  *)
(* to.  A user adds an account and is mailed a code, verifies the account  *)
(* with the code, makes one verified account the primary one, and deletes  *)
(* accounts.  Every handler reads the row, checks it, and writes in a      *)
(* later statement or transaction without looking again.                   *)
(*                                                                         *)
(* setPrimaryBankAccount updates all the user's rows and then one of them  *)
(* in one transaction: its first UPDATE locks the rows, so such            *)
(* transactions take turns and each is one step.  A code that is older     *)
(* than 15 minutes is refused, which the failure action covers.            *)
(***************************************************************************)
EXTENDS Requests

CONSTANTS
    Users,          \* rows of the users table
    Numbers,        \* account numbers, with their bank codes
    AccountIds,     \* rows the bank_accounts table may come to have
    NoAccount,      \* a handler that works on no row
    NoHolder,       \* a row that was never inserted
    Codes,          \* verification codes
    NoCode          \* verification_code IS NULL

ASSUME BankAccountsAssumption ==
    /\ NoAccount \notin AccountIds
    /\ NoHolder \notin Users \X Numbers
    /\ NoCode \notin Codes

VARIABLES
    bankStatus,     \* is_verified of the row, or why there is no such row
    bankHolder,     \* user_id and account_number
    primary,        \* rows with is_primary
    bankCode,       \* verification_code
    bankTarget,     \* bankTarget[p]: the row a handler works on
    adding,         \* adding[p]: user and number of an addBankAccount
    typed           \* typed[p]: the code a verifyBankAccount was called with

bankTable == <<bankStatus, bankHolder, primary, bankCode>>
bankLocals == <<bankTarget, adding, typed>>
bankState == <<bankTable, bankLocals>>
bankVars == <<pc, bankState>>

BankStatuses == {"none", "unverified", "verified", "deleted"}

BankInit ==
    /\ bankStatus = [a \in AccountIds |-> "none"]
    /\ bankHolder = [a \in AccountIds |-> NoHolder]
    /\ primary = {}
    /\ bankCode = [a \in AccountIds |-> NoCode]
    /\ bankTarget = [p \in Procs |-> NoAccount]
    /\ adding = [p \in Procs |-> NoHolder]
    /\ typed = [p \in Procs |-> NoCode]

Present(a) == bankStatus[a] \in {"unverified", "verified"}
RowsOf(u) == {a \in AccountIds : Present(a) /\ bankHolder[a][1] = u}

\* Mutant: the query looks for unverified rows only.
SameNumberUnverified(u, n) ==
    {a \in RowsOf(u) : bankHolder[a][2] = n /\ bankStatus[a] = "unverified"}

SameNumber(u, n) == {a \in RowsOf(u) : bankHolder[a][2] = n}

\* The handler answers, with a result or an error.
BankDone(p) ==
    /\ bankTarget' = [bankTarget EXCEPT ![p] = NoAccount]
    /\ adding' = [adding EXCEPT ![p] = NoHolder]
    /\ typed' = [typed EXCEPT ![p] = NoCode]
    /\ Goto(p, "idle")

-----------------------------------------------------------------------------
(* addBankAccount *)

\* BankAccount.findOne({userId, number}) returns no row, or one that is not
\* verified yet; a verified one is refused.
AddBankAccount(p, u, n) ==
    /\ Idle(p)
    /\ \/ /\ SameNumber(u, n) = {}
          /\ Goto(p, "bank_insert")
          /\ UNCHANGED bankTarget
       \/ \E a \in SameNumber(u, n) :
             /\ bankStatus[a] = "unverified"
             /\ bankTarget' = [bankTarget EXCEPT ![p] = a]
             /\ Goto(p, "bank_update")
    /\ adding' = [adding EXCEPT ![p] = <<u, n>>]
    /\ UNCHANGED <<bankTable, typed>>

\* INSERT with a new code, which is then mailed.
AddBankInsert(p) ==
    /\ pc[p] = "bank_insert"
    /\ \E a \in AccountIds, c \in Codes :
          /\ bankStatus[a] = "none"
          /\ bankStatus' = [bankStatus EXCEPT ![a] = "unverified"]
          /\ bankHolder' = [bankHolder EXCEPT ![a] = adding[p]]
          /\ bankCode' = [bankCode EXCEPT ![a] = c]
    /\ BankDone(p)
    /\ UNCHANGED primary

\* UPDATE ... SET is_verified = false and a new code WHERE id; no row, no effect.
AddBankUpdate(p) ==
    LET a == bankTarget[p] IN
    /\ pc[p] = "bank_update"
    /\ IF Present(a)
         THEN /\ bankStatus' = [bankStatus EXCEPT ![a] = "unverified"]
              /\ \E c \in Codes : bankCode' = [bankCode EXCEPT ![a] = c]
         ELSE UNCHANGED <<bankStatus, bankCode>>
    /\ BankDone(p)
    /\ UNCHANGED <<bankHolder, primary>>

-----------------------------------------------------------------------------
(* verifyBankAccount, setPrimaryBankAccount, deleteBankAccount *)

\* A handler has read the row and goes on.
WorkOn(p, a, label) ==
    /\ bankTarget' = [bankTarget EXCEPT ![p] = a]
    /\ Goto(p, label)
    /\ UNCHANGED <<bankTable, adding>>

\* The user's row exists and is not verified yet.
VerifyBankAccount(p, a, c) ==
    /\ Idle(p)
    /\ bankStatus[a] = "unverified"
    /\ typed' = [typed EXCEPT ![p] = c]
    /\ WorkOn(p, a, "bank_code")

\* Mutant: the code is not compared.
VerifyReadCodeAny(p) ==
    /\ pc[p] = "bank_code"
    /\ bankCode[bankTarget[p]] # NoCode
    /\ Goto(p, "bank_verify")
    /\ UNCHANGED <<bankTable, bankLocals>>

\* SELECT verification_code: it is the one typed, and has not expired.
VerifyReadCode(p) ==
    /\ pc[p] = "bank_code"
    /\ bankCode[bankTarget[p]] = typed[p]
    /\ Goto(p, "bank_verify")
    /\ UNCHANGED <<bankTable, bankLocals>>

\* The count of the user's verified accounts is 0.
FirstVerified(u, status) == \A b \in RowsOf(u) : status[b] # "verified"

\* The row is verified and its code dropped; the count comes after the
\* UPDATE, in the same transaction, and so sees the row verified.
VerifyCommit(p) ==
    LET a == bankTarget[p]
        after == [bankStatus EXCEPT ![a] = "verified"] IN
    /\ pc[p] = "bank_verify"
    /\ IF Present(a)
         THEN /\ bankStatus' = after
              /\ bankCode' = [bankCode EXCEPT ![a] = NoCode]
              /\ primary' = IF FirstVerified(bankHolder[a][1], after)
                              THEN primary \cup {a} ELSE primary
         ELSE UNCHANGED <<bankStatus, bankCode, primary>>
    /\ BankDone(p)
    /\ UNCHANGED bankHolder

\* Mutant: the check of is_verified is missing.
SetPrimaryUnchecked(p, a) ==
    /\ Idle(p)
    /\ Present(a)
    /\ UNCHANGED typed
    /\ WorkOn(p, a, "bank_primary")

\* The user's row exists and is verified.
SetPrimary(p, a) ==
    /\ Idle(p)
    /\ bankStatus[a] = "verified"
    /\ UNCHANGED typed
    /\ WorkOn(p, a, "bank_primary")

\* All the user's rows lose is_primary, and the row, if there, gets it.
SetPrimaryCommit(p) ==
    LET a == bankTarget[p] IN
    /\ pc[p] = "bank_primary"
    /\ primary' = (primary \ RowsOf(bankHolder[a][1])) \cup {b \in {a} : Present(b)}
    /\ BankDone(p)
    /\ UNCHANGED <<bankStatus, bankHolder, bankCode>>

\* Mutant: the primary account may be deleted.
DeleteBankAccountAny(p, a) ==
    /\ Idle(p)
    /\ Present(a)
    /\ UNCHANGED typed
    /\ WorkOn(p, a, "bank_destroy")

\* The user's row exists and is not the primary one.
DeleteBankAccount(p, a) ==
    /\ Idle(p)
    /\ Present(a) /\ a \notin primary
    /\ UNCHANGED typed
    /\ WorkOn(p, a, "bank_destroy")

\* bankAccount.destroy(): DELETE by id, with no other condition.
DeleteBankDestroy(p) ==
    LET a == bankTarget[p] IN
    /\ pc[p] = "bank_destroy"
    /\ bankStatus' = [bankStatus EXCEPT ![a] = "deleted"]
    /\ bankCode' = [bankCode EXCEPT ![a] = NoCode]
    /\ primary' = primary \ {a}
    /\ BankDone(p)
    /\ UNCHANGED bankHolder

-----------------------------------------------------------------------------
BankLabels == {"bank_insert", "bank_update", "bank_code", "bank_verify",
               "bank_primary", "bank_destroy"}

\* The handler ends with an error: a wrong or expired code, a query that
\* fails (with a rollback), or the process dies.
BankHandlerFails(p) ==
    /\ pc[p] \in BankLabels
    /\ BankDone(p)
    /\ UNCHANGED bankTable

BankRequest(p) ==
    \/ \E u \in Users, n \in Numbers : AddBankAccount(p, u, n)
    \/ \E a \in AccountIds :
          \/ \E c \in Codes : VerifyBankAccount(p, a, c)
          \/ SetPrimary(p, a)
          \/ DeleteBankAccount(p, a)

BankStep(p) ==
    \/ AddBankInsert(p) \/ AddBankUpdate(p)
    \/ VerifyReadCode(p) \/ VerifyCommit(p)
    \/ SetPrimaryCommit(p) \/ DeleteBankDestroy(p)
    \/ BankHandlerFails(p)

BankNext == \E p \in Procs : BankRequest(p) \/ BankStep(p)

\* The row that a handler works on, or the number it adds.
BankWorksOn(p) == ({bankTarget[p]} \ {NoAccount}) \cup ({adding[p]} \ {NoHolder})

SharedAccounts == Shared(BankWorksOn)

BankStart == RequestsInit /\ BankInit

BankSpec ==
    /\ BankStart
    /\ [][BankNext /\ raced' = raced \cup SharedAccounts']_<<bankVars, raced>>

-----------------------------------------------------------------------------
(* Properties *)

\* Types, and the row that a handler has in memory: one that was inserted
\* for the user who asks, even if it has been deleted since.
BankTypeOK ==
    /\ pc \in [Procs -> BankLabels \cup {"idle"}]
    /\ bankStatus \in [AccountIds -> BankStatuses]
    /\ bankHolder \in [AccountIds -> (Users \X Numbers) \cup {NoHolder}]
    /\ primary \subseteq AccountIds
    /\ bankCode \in [AccountIds -> Codes \cup {NoCode}]
    /\ bankTarget \in [Procs -> AccountIds \cup {NoAccount}]
    /\ adding \in [Procs -> (Users \X Numbers) \cup {NoHolder}]
    /\ typed \in [Procs -> Codes \cup {NoCode}]
    /\ \A a \in AccountIds :
          bankStatus[a] # "none" => bankHolder[a] \in Users \X Numbers
    /\ \A p \in Procs :
          /\ pc[p] = "bank_insert" => adding[p] \in Users \X Numbers
          /\ pc[p] \in BankLabels \ {"bank_insert"} =>
                bankTarget[p] \in AccountIds /\ bankStatus[bankTarget[p]] # "none"

\* A user never has two primary accounts, however the calls interleave, and
\* an account that is gone is not primary: a direct remittance, which goes
\* to "the" primary account, has at most one place to go to.
OnePrimary ==
    /\ \A a \in primary : Present(a)
    /\ \A a, b \in primary : bankHolder[a][1] = bankHolder[b][1] => a = b

\* setPrimaryBankAccount: "Only verified bank accounts can be set as primary".
\* So a primary account that no two handlers worked on at once is verified.
PrimaryIsVerifiedUnlessRaced ==
    \A a \in primary \ raced : bankStatus[a] = "verified"

\* There is one place where a user's money goes, and the user proved it.
BankInv == BankTypeOK /\ OnePrimary /\ PrimaryIsVerifiedUnlessRaced

\* deleteBankAccount: "Cannot delete primary bank account. Set another
\* account as primary first."  So a user who has a primary account keeps one,
\* unless two handlers worked on one of the user's accounts at once.
PrimaryKeptUnlessRaced ==
    [][\A a \in primary :
          LET u == bankHolder[a][1] IN
          \/ \E b \in raced \cap AccountIds : bankHolder[b][1] = u
          \/ \E b \in primary' : bankHolder'[b][1] = u]_bankTable

\* verifyBankAccount: "Invalid verification code".  So an account becomes
\* verified by the code that was mailed for it last, unless it was added
\* again while it was verified.
VerifiedByItsCodeUnlessRaced ==
    [][\A a \in AccountIds \ raced :
          bankStatus[a] = "unverified" /\ bankStatus'[a] = "verified" =>
              \E p \in Procs : bankTarget[p] = a /\ typed[p] = bankCode[a]]_bankTable

\* addBankAccount: "This bank account is already added and verified".  So a
\* user has a number verified once, unless it was added twice at once.
NumberVerifiedOnceUnlessRaced ==
    \A a, b \in AccountIds :
        bankStatus[a] = "verified" /\ bankStatus[b] = "verified"
          /\ bankHolder[a] = bankHolder[b] /\ bankHolder[a] \notin raced => a = b

=============================================================================
