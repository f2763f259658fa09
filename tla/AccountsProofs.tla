--------------------------- MODULE AccountsProofs ---------------------------
(***************************************************************************)
(* Proofs about the tables of Accounts: whatever handlers do to them, as   *)
(* long as it is what the abstract specification AccountsSpec allows, no   *)
(* wallet becomes negative, earnings only by a negative deposit, and the   *)
(* books differ from the balances only where a stale instance was saved.   *)
(***************************************************************************)
EXTENDS Accounts, TLAPS

\* Every request slot is somewhere, whatever handlers there are.
SlotsOK == pc = [p \in Procs |-> pc[p]]

\* The other slots: where they are, and the instances they hold.
OthersUntouched(p) ==
    \A q \in Procs \ {p} : pc'[q] = pc[q] /\ holds'[q] = holds[q] /\ seen'[q] = seen[q]

\* The tables start out with non-negative balances that the rows explain.
LEMMA AccountsInitInv == AccountsInit => AccountsInv
  <1> SUFFICES ASSUME AccountsInit PROVE AccountsInv
    OBVIOUS
  <1> USE AccountsAssumption DEF AccountsInit, Columns, Kinds
  <1>1. PICK e \in [Users -> OpeningEarnings], w \in [Users -> OpeningWallet] :
            /\ balance = [u \in Users |->
                            [c \in Columns |-> IF c = "earnings" THEN e[u] ELSE w[u]]]
            /\ posted = [u \in Users |->
                            [k \in Kinds |-> IF k = "credit" THEN e[u]
                                            ELSE IF k = "deposit" THEN w[u] ELSE 0]]
    BY Zenon
  <1>2. \A u \in Users : e[u] \in Nat /\ w[u] \in Nat
    OBVIOUS
  <1>3. AccountsTypeOK
    BY <1>1, <1>2 DEF AccountsTypeOK, Nothing
  <1>4. NoNegativeBalance
    BY <1>1, <1>2 DEF NoNegativeBalance
  <1>5. SeenWasCommitted
    <2>1. \A p \in Procs : holds[p] = NoUser /\ seen[p] = Nothing
      OBVIOUS
    <2>2. Nothing["wallet"] >= 0
      BY DEF Nothing
    <2> QED
      BY <2>1, <2>2 DEF SeenWasCommitted
  <1>6. ReconciledUnlessOverwritten
    BY <1>1, <1>2 DEF ReconciledUnlessOverwritten, Expected
  <1> QED
    BY <1>3, <1>4, <1>5, <1>6 DEF AccountsInv

\* Reading a row makes a fresh instance.
LEMMA ReadUserInv ==
    ASSUME AccountsInv, NEW p \in Procs, NEW u \in Users, ReadUser(p, u)
    PROVE  AccountsInv'
  <1> USE DEF AccountsInv, ReadUser, AccountsTypeOK
  <1>1. AccountsTypeOK'
    OBVIOUS
  <1>2. NoNegativeBalance'
    BY DEF NoNegativeBalance
  <1>3. SeenWasCommitted'
    BY DEF SeenWasCommitted, NoNegativeBalance, Columns
  <1>4. ReconciledUnlessOverwritten'
    BY DEF ReconciledUnlessOverwritten, Expected
  <1> QED
    BY <1>1, <1>2, <1>3, <1>4

\* A handler that ends without a commit changes no balance.
LEMMA DropUserInv ==
    ASSUME AccountsInv, NEW p \in Procs, DropUser(p)
    PROVE  AccountsInv'
  <1> USE DEF AccountsInv, DropUser, AccountsTypeOK
  <1>1. AccountsTypeOK'
    BY DEF Unlocked, Nothing
  <1>2. NoNegativeBalance'
    BY DEF NoNegativeBalance
  <1>3. SeenWasCommitted'
    BY AccountsAssumption DEF SeenWasCommitted, Nothing, Columns
  <1>4. ReconciledUnlessOverwritten'
    BY DEF ReconciledUnlessOverwritten, Expected
  <1> QED
    BY <1>1, <1>2, <1>3, <1>4

\* Taking the row lock changes no balance.
LEMMA LockUserInv ==
    ASSUME AccountsInv, NEW p \in Procs, holds[p] \in Users, LockUser(p)
    PROVE  AccountsInv'
  BY DEF AccountsInv, LockUser, AccountsTypeOK, NoNegativeBalance,
         SeenWasCommitted, ReconciledUnlessOverwritten, Expected

\* A posting that handlers may make: covered, or of a negative deposit.
Postable(p, kind, amount) ==
    IF kind = "negative_credit" THEN amount > 0 ELSE Covered(p, kind, amount)

\* Posting a row keeps the tables typed and the balances covered by the
\* instance; it is the one step that moves money.
LEMMA PostInv ==
    ASSUME AccountsInv, NEW p \in Procs, holds[p] \in Users,
           NEW kind \in Kinds, NEW amount \in Nat,
           Postable(p, kind, amount), Post(p, kind, amount)
    PROVE  AccountsInv'
  <1> DEFINE u == holds[p]
  <1> USE AccountsAssumption DEF AccountsInv
  <1>1. amount \in Nat
    OBVIOUS
  <1>2. /\ u \in Users
        /\ \A c \in Columns : balance[u][c] \in Int /\ seen[p][c] \in Int
        /\ seen[p]["wallet"] >= 0
        /\ posted[u]["negative_credit"] = 0 => seen[p]["earnings"] >= 0
        /\ \A k \in Kinds : posted[u][k] \in Nat
    BY DEF AccountsTypeOK, SeenWasCommitted
  <1>3. /\ \A c \in Writes(kind) : Computed(p, kind, amount, c) \in Int
        /\ "wallet" \in Writes(kind) => Computed(p, kind, amount, "wallet") >= 0
        /\ "earnings" \in Writes(kind) /\ kind # "negative_credit"
             /\ posted[u]["negative_credit"] = 0 => Computed(p, kind, amount, "earnings") >= 0
    BY <1>1, <1>2 DEF Computed, Postable, Covered, Writes, Adds, Takes, Columns
  <1>4. /\ balance' = [balance EXCEPT ![u] =
                        [c \in Columns |-> IF c \in Writes(kind)
                                             THEN Computed(p, kind, amount, c)
                                             ELSE balance[u][c]]]
        /\ posted' = [posted EXCEPT ![u][kind] = @ + amount]
        /\ overwrote' = [overwrote EXCEPT ![u] = @ \cup (Writes(kind) \cap stale[p])]
        /\ stale' = [q \in Procs |->
                       IF q = p THEN {}
                       ELSE IF holds[q] = u THEN stale[q] \cup Writes(kind) ELSE stale[q]]
        /\ holds' = [holds EXCEPT ![p] = NoUser]
        /\ seen' = [seen EXCEPT ![p] = Nothing]
        /\ rowLock' = Unlocked(p)
    BY DEF Post
  <1>5. Writes(kind) \subseteq Columns
    BY DEF Writes
  <1>6. \A v \in Users, c \in Columns :
            balance'[v][c] = IF v = u /\ c \in Writes(kind)
                               THEN Computed(p, kind, amount, c) ELSE balance[v][c]
    BY <1>2, <1>4 DEF AccountsTypeOK
  <1>11. /\ \A v \in Users : posted'[v]["negative_credit"] = 0
                                  => posted[v]["negative_credit"] = 0
         /\ posted'[u]["negative_credit"] = 0 => kind # "negative_credit"
    BY <1>1, <1>2, <1>4 DEF AccountsTypeOK, Kinds, Postable
  <1>7. AccountsTypeOK'
    <2>1. balance' \in [Users -> [Columns -> Int]]
      BY <1>2, <1>3, <1>4 DEF AccountsTypeOK
    <2>2. posted' \in [Users -> [Kinds -> Nat]]
      BY <1>1, <1>2, <1>4 DEF AccountsTypeOK
    <2>3. rowLock' \in [Users -> Procs \cup {NoProc}]
      BY <1>4 DEF AccountsTypeOK, Unlocked
    <2>4. holds' \in [Procs -> Users \cup {NoUser}] /\ seen' \in [Procs -> [Columns -> Int]]
      BY <1>4 DEF AccountsTypeOK, Nothing
    <2>5. stale' \in [Procs -> SUBSET Columns] /\ overwrote' \in [Users -> SUBSET Columns]
      BY <1>2, <1>4, <1>5 DEF AccountsTypeOK
    <2> QED
      BY <2>1, <2>2, <2>3, <2>4, <2>5 DEF AccountsTypeOK
  <1>8. NoNegativeBalance'
    BY <1>3, <1>6, <1>11 DEF NoNegativeBalance, Columns
  <1>9. SeenWasCommitted'
    <2> SUFFICES ASSUME NEW q \in Procs
                 PROVE  /\ seen'[q]["wallet"] >= 0
                        /\ holds'[q] \in Users =>
                             /\ posted'[holds'[q]]["negative_credit"] = 0
                                  => seen'[q]["earnings"] >= 0
                             /\ \A c \in Columns \ stale'[q] :
                                  seen'[q][c] = balance'[holds'[q]][c]
      BY DEF SeenWasCommitted
    <2>1. CASE q = p
      BY <2>1, <1>4 DEF AccountsTypeOK, Nothing, Columns
    <2>2. CASE q # p
      <3>1. holds'[q] = holds[q] /\ seen'[q] = seen[q]
        BY <2>2, <1>4 DEF AccountsTypeOK
      <3>2. \A c \in Columns \ stale'[q] :
               c \notin stale[q] /\ (holds[q] = u => c \notin Writes(kind))
        BY <2>2, <1>4
      <3> QED
        BY <3>1, <3>2, <1>6, <1>11 DEF SeenWasCommitted
    <2> QED
      BY <2>1, <2>2
  <1>10. ReconciledUnlessOverwritten'
    <2> SUFFICES ASSUME NEW v \in Users, NEW c \in Columns, c \notin overwrote'[v]
                 PROVE  balance'[v][c] = Expected(v, c)'
      BY DEF ReconciledUnlessOverwritten
    <2>1. CASE v # u
      <3>1. posted'[v] = posted[v] /\ overwrote'[v] = overwrote[v]
        BY <2>1, <1>4 DEF AccountsTypeOK
      <3> QED
        BY <2>1, <3>1, <1>6 DEF ReconciledUnlessOverwritten, Expected
    <2>2. CASE v = u
      <3>1. c \notin overwrote[u] /\ (c \in Writes(kind) => c \notin stale[p])
        BY <2>2, <1>2, <1>4 DEF AccountsTypeOK
      <3>2. balance[u][c] = Expected(u, c)
        BY <3>1, <1>2 DEF ReconciledUnlessOverwritten
      <3>3. c \in Writes(kind) => seen[p][c] = balance[u][c]
        BY <3>1, <1>2 DEF SeenWasCommitted
      <3>4. \A k \in Kinds : posted'[u][k] = IF k = kind THEN posted[u][k] + amount
                                                         ELSE posted[u][k]
        BY <1>1, <1>2, <1>4 DEF AccountsTypeOK
      <3> HIDE DEF u
      <3>5. CASE c = "earnings"
        BY <3>2, <3>3, <3>4, <3>5, <2>2, <1>1, <1>2, <1>6
           DEF Expected, Kinds, Computed, Writes, Adds, Takes, Columns
      <3>6. CASE c = "wallet"
        BY <3>2, <3>3, <3>4, <3>6, <2>2, <1>1, <1>2, <1>6
           DEF Expected, Kinds, Computed, Writes, Adds, Takes, Columns
      <3> QED
        BY <3>5, <3>6 DEF Columns
    <2> QED
      BY <2>1, <2>2
  <1> QED
    BY <1>7, <1>8, <1>9, <1>10

\* A handler writes its own instance only, gives up no lock but its own, and
\* posts rows of its own kind.
LEMMA TouchesOwnSlot ==
    ASSUME AccountsTypeOK, SlotsOK, NEW p \in Procs, NEW to, pc' = [pc EXCEPT ![p] = to],
           NEW kinds, "card_funding" \notin kinds, NEW amount,
           \/ UNCHANGED accountVars
           \/ \E u : ReadUser(p, u)
           \/ DropUser(p)
           \/ \E kind \in kinds : Post(p, kind, amount)
    PROVE  /\ SlotsOK' /\ OthersUntouched(p) /\ pc'[p] = to
           /\ rowLock' \in {rowLock, Unlocked(p)}
           /\ \A u \in Users : posted'[u]["card_funding"] = posted[u]["card_funding"]
  <1>1. SlotsOK' /\ pc'[p] = to /\ \A q \in Procs \ {p} : pc'[q] = pc[q]
    BY DEF SlotsOK
  <1>2. CASE UNCHANGED accountVars \/ DropUser(p) \/ \E u : ReadUser(p, u)
    BY <1>1, <1>2 DEF accountVars, DropUser, ReadUser, OthersUntouched, AccountsTypeOK
  <1>3. ASSUME NEW kind \in kinds, Post(p, kind, amount)
        PROVE  /\ OthersUntouched(p) /\ rowLock' \in {rowLock, Unlocked(p)}
               /\ \A u \in Users : posted'[u]["card_funding"] = posted[u]["card_funding"]
    <2>1. /\ posted' = [posted EXCEPT ![holds[p]][kind] = posted[holds[p]][kind] + amount]
          /\ holds' = [holds EXCEPT ![p] = NoUser]
          /\ seen' = [seen EXCEPT ![p] = Nothing]
          /\ rowLock' = Unlocked(p)
      BY <1>3 DEF Post
    <2>2. kind # "card_funding"
      BY <1>3
    <2>3. \A u \in Users : posted'[u]["card_funding"] = posted[u]["card_funding"]
      BY <2>1, <2>2 DEF AccountsTypeOK, Kinds
    <2>4. OthersUntouched(p)
      BY <1>1, <2>1 DEF OthersUntouched, AccountsTypeOK
    <2> QED
      BY <2>1, <2>3, <2>4
  <1> QED
    BY <1>1, <1>2, <1>3

\* Every step that the abstract specification allows keeps the invariant.
LEMMA AccountsStepInv == AccountsInv /\ [AccountsNext]_accountVars => AccountsInv'
  <1> SUFFICES ASSUME AccountsInv, [AccountsNext]_accountVars
               PROVE  AccountsInv'
    OBVIOUS
  <1>1. ASSUME NEW p \in Procs, NEW u \in Users, ReadUser(p, u)
        PROVE  AccountsInv'
    BY <1>1, ReadUserInv
  <1>2. ASSUME NEW p \in Procs, holds[p] \in Users, LockUser(p)
        PROVE  AccountsInv'
    BY <1>2, LockUserInv
  <1>3. ASSUME NEW p \in Procs, PostCovered(p)
        PROVE  AccountsInv'
    BY <1>3, PostInv, AccountsAssumption DEF PostCovered, Postable
  <1>4. ASSUME NEW p \in Procs, DropUser(p)
        PROVE  AccountsInv'
    BY <1>4, DropUserInv
  <1>6. ASSUME NEW p \in Procs, holds[p] \in Users, NEW amount \in Collected,
               PostCollected(p, amount)
        PROVE  AccountsInv'
    <2>1. CASE amount >= 0 /\ Post(p, "credit", amount)
      BY <1>6, <2>1, PostInv, AccountsAssumption
         DEF Kinds, Postable, Covered, Writes, Adds, Takes, Columns
    <2>2. CASE amount < 0 /\ Post(p, "negative_credit", -amount)
      BY <1>6, <2>2, PostInv, AccountsAssumption DEF Kinds, Postable
    <2> QED
      BY <1>6, <2>1, <2>2 DEF PostCollected
  <1>5. CASE UNCHANGED accountVars
    BY <1>5 DEF accountVars, AccountsInv, AccountsTypeOK, NoNegativeBalance,
                SeenWasCommitted, ReconciledUnlessOverwritten, Expected
  <1> QED
    BY <1>1, <1>2, <1>3, <1>4, <1>5, <1>6 DEF AccountsNext

\* Whatever implements the abstract specification of the money tables keeps
\* them typed, the wallets non-negative and the earnings too but for negative
\* deposits, and the books reconciled wherever no stale instance was saved.
THEOREM AccountsInvariant == AccountsSpec => []AccountsInv
  <1>1. AccountsInit => AccountsInv
    BY AccountsInitInv
  <1>2. AccountsInv /\ [AccountsNext]_accountVars => AccountsInv'
    BY AccountsStepInv
  <1> QED
    BY <1>1, <1>2, PTL DEF AccountsSpec

-----------------------------------------------------------------------------
(* One request at a time *)

OneRequestAtATime == \A p, q \in Procs : p = q

\* No handler holds an instance that another commit made stale, and none ever
\* saved one.
NothingStale ==
    /\ \A p \in Procs : stale[p] = {}
    /\ \A u \in Users : overwrote[u] = {}

\* Only the commit of another handler makes an instance stale.
LEMMA NothingBecomesStale ==
    ASSUME OneRequestAtATime, AccountsInv, NothingStale, [AccountsNext]_accountVars
    PROVE  NothingStale'
  <1> USE DEF AccountsInv, AccountsTypeOK, NothingStale
  <1>1. CASE UNCHANGED accountVars
    BY <1>1 DEF accountVars
  <1>2. ASSUME NEW p \in Procs, NEW u \in Users, ReadUser(p, u)
        PROVE  NothingStale'
    BY <1>2 DEF ReadUser
  <1>3. ASSUME NEW p \in Procs, LockUser(p) \/ DropUser(p)
        PROVE  NothingStale'
    BY <1>3 DEF LockUser, DropUser
  <1>4. ASSUME NEW p \in Procs, holds[p] \in Users, NEW kind, NEW amount,
               Post(p, kind, amount)
        PROVE  NothingStale'
    <2>1. \A q \in Procs : q = p
      BY DEF OneRequestAtATime
    <2>2. \A q \in Procs : stale'[q] = {}
      BY <1>4, <2>1 DEF Post
    <2>3. overwrote' = [overwrote EXCEPT ![holds[p]] = overwrote[holds[p]] \cup (Writes(kind) \cap {})]
      BY <1>4 DEF Post
    <2>4. \A u \in Users : overwrote'[u] = {}
      BY <2>3
    <2> QED
      BY <2>2, <2>4
  <1> QED
    BY <1>1, <1>2, <1>3, <1>4 DEF AccountsNext, PostCovered, PostCollected

\* If the process served one request at a time, the books would always add up,
\* wherever handlers fail: two handlers are needed to lose money or to make it.
THEOREM OneAtATimeReconciled == OneRequestAtATime /\ AccountsSpec => []Reconciled
  <1> SUFFICES ASSUME OneRequestAtATime
               PROVE  AccountsSpec => []Reconciled
    OBVIOUS
  <1>1. AccountsInit => NothingStale
    BY DEF AccountsInit, NothingStale
  <1>2. AccountsInv /\ NothingStale /\ [AccountsNext]_accountVars => NothingStale'
    BY NothingBecomesStale
  <1>3. AccountsInv /\ NothingStale => Reconciled
    BY DEF AccountsInv, NothingStale, ReconciledUnlessOverwritten, Reconciled
  <1> QED
    BY <1>1, <1>2, <1>3, AccountsInvariant, PTL DEF AccountsSpec

=============================================================================
