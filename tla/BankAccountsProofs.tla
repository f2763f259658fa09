------------------------- MODULE BankAccountsProofs -------------------------
(***************************************************************************)
(* Proofs about bank accounts.  A user never has two primary accounts.     *)
(* And what a handler read of a row that no other handler worked on is     *)
(* still true when it writes: so there a primary account is verified, a    *)
(* verified account was verified by its own code, a number is added once,  *)
(* and the primary account is not deleted.                                 *)
(***************************************************************************)
EXTENDS BankAccounts, TLAPS

\* Where a handler works on a row.
RowLabels == BankLabels \ {"bank_insert"}

\* No row with this user and number, as the query of addBankAccount sees it.
NoRowFor(holder) == \A a \in AccountIds : Present(a) => bankHolder[a] # holder

\* What the handler of a slot knows where it is suspended.  All but the first
\* two parts are checks that nobody else's write can have undone.
BankHandlerSound(p) ==
    /\ pc[p] = "bank_insert" => adding[p] \in Users \X Numbers
    /\ pc[p] \in RowLabels =>
          bankTarget[p] \in AccountIds /\ bankStatus[bankTarget[p]] # "none"
    /\ pc[p] = "bank_insert" /\ adding[p] \notin raced => NoRowFor(adding[p])
    /\ pc[p] \in {"bank_update", "bank_destroy"} /\ bankTarget[p] \notin raced =>
          bankTarget[p] \notin primary
    /\ pc[p] = "bank_primary" /\ bankTarget[p] \notin raced =>
          bankStatus[bankTarget[p]] = "verified"
    /\ pc[p] = "bank_verify" /\ bankTarget[p] \notin raced =>
          bankCode[bankTarget[p]] = typed[p]

BankTableOK ==
    /\ bankStatus \in [AccountIds -> BankStatuses]
    /\ bankHolder \in [AccountIds -> (Users \X Numbers) \cup {NoHolder}]
    /\ primary \subseteq AccountIds
    /\ bankCode \in [AccountIds -> Codes \cup {NoCode}]
    /\ \A a \in AccountIds :
          bankStatus[a] # "none" => bankHolder[a] \in Users \X Numbers

BankMemoryOK ==
    /\ pc \in [Procs -> BankLabels \cup {"idle"}]
    /\ bankTarget \in [Procs -> AccountIds \cup {NoAccount}]
    /\ adding \in [Procs -> (Users \X Numbers) \cup {NoHolder}]
    /\ typed \in [Procs -> Codes \cup {NoCode}]

\* A number that was never added twice at once has one row, verified or not.
NumberAddedOnce ==
    \A a, b \in AccountIds :
        Present(a) /\ Present(b) /\ bankHolder[a] = bankHolder[b] /\ bankHolder[a] \notin raced
          => a = b

\* The inductive invariant.
BankSound ==
    /\ BankTableOK /\ BankMemoryOK
    /\ OnePrimary /\ PrimaryIsVerifiedUnlessRaced /\ NumberAddedOnce
    /\ SharedAccounts \subseteq raced
    /\ \A p \in Procs : BankHandlerSound(p)

\* The inductive invariant is as strong as the properties.
LEMMA BankSoundInv == BankSound => BankInv /\ NumberVerifiedOnceUnlessRaced
  <1> SUFFICES ASSUME BankSound PROVE BankInv /\ NumberVerifiedOnceUnlessRaced
    OBVIOUS
  <1>1. BankInv
    BY DEF BankSound, BankInv, BankTypeOK, BankTableOK, BankMemoryOK, BankHandlerSound,
           RowLabels
  <1>2. NumberVerifiedOnceUnlessRaced
    BY DEF BankSound, NumberAddedOnce, NumberVerifiedOnceUnlessRaced, Present
  <1> QED
    BY <1>1, <1>2

\* No account exists at first, and no handler.
LEMMA BankStartSound == BankStart => BankSound
  <1> SUFFICES ASSUME RequestsInit, BankInit
               PROVE  BankSound
    BY DEF BankStart
  <1> USE DEF RequestsInit, BankInit
  <1>1. BankTableOK /\ BankMemoryOK
    BY DEF BankTableOK, BankMemoryOK, BankStatuses
  <1>2. OnePrimary /\ PrimaryIsVerifiedUnlessRaced /\ NumberAddedOnce
    BY DEF OnePrimary, PrimaryIsVerifiedUnlessRaced, NumberAddedOnce, Present
  <1>3. \A p \in Procs : BankHandlerSound(p)
    BY DEF BankHandlerSound, RowLabels, BankLabels
  <1>4. \A p \in Procs : BankWorksOn(p) = {}
    BY DEF BankWorksOn
  <1>5. SharedAccounts \subseteq raced
    BY <1>4 DEF SharedAccounts, Shared
  <1> QED
    BY <1>1, <1>2, <1>3, <1>5 DEF BankSound

-----------------------------------------------------------------------------
(* A step as the other handlers see it *)

\* Two handlers at work on the same row or number are noted.
LEMMA TwoOnOneAccountShared ==
    ASSUME BankSound, NEW p \in Procs, NEW q \in Procs, p # q
    PROVE  /\ bankTarget[p] = bankTarget[q] /\ bankTarget[p] # NoAccount
                => bankTarget[p] \in raced
           /\ adding[p] = adding[q] /\ adding[p] # NoHolder => adding[p] \in raced
  <1>1. \A x : x \in BankWorksOn(p) /\ x \in BankWorksOn(q) => x \in SharedAccounts
    BY DEF SharedAccounts, Shared
  <1>2. SharedAccounts \subseteq raced
    BY DEF BankSound
  <1> QED
    BY <1>1, <1>2 DEF BankWorksOn

\* The memory of the other handlers is theirs.
OthersKept(p) ==
    \A q \in Procs \ {p} :
        /\ pc'[q] = pc[q] /\ bankTarget'[q] = bankTarget[q]
        /\ adding'[q] = adding[q] /\ typed'[q] = typed[q]

\* A handler writes the row it works on, or inserts one; no other row becomes
\* primary, and a row that is gone stays gone.
RowsMoveBy(p) ==
    /\ \A a \in AccountIds :
          \/ /\ bankStatus'[a] = bankStatus[a] /\ bankHolder'[a] = bankHolder[a]
             /\ bankCode'[a] = bankCode[a]
          \/ /\ a = bankTarget[p]
             /\ bankHolder'[a] = bankHolder[a] /\ bankStatus'[a] # "none"
             /\ bankStatus'[a] # "deleted" => Present(a)
          \/ /\ pc[p] = "bank_insert"
             /\ bankStatus[a] = "none" /\ bankStatus'[a] = "unverified"
             /\ bankHolder'[a] = adding[p]
    /\ \A a \in primary' \ primary : a = bankTarget[p]

\* What the other handlers know stays true.
LEMMA OtherBankHandlersSound ==
    ASSUME BankSound, NEW p \in Procs, RowsMoveBy(p), OthersKept(p),
           raced \subseteq raced', NEW q \in Procs, q # p
    PROVE  BankHandlerSound(q)'
  <1> DEFINE a == bankTarget[q]
  <1>1. BankHandlerSound(q) /\ BankHandlerSound(p)
    BY DEF BankSound
  <1>2. /\ pc'[q] = pc[q] /\ bankTarget'[q] = a
        /\ adding'[q] = adding[q] /\ typed'[q] = typed[q]
    BY DEF OthersKept
  <1>3. pc[q] \in RowLabels => a \in AccountIds /\ bankStatus'[a] # "none"
    BY <1>1 DEF BankHandlerSound, RowsMoveBy
  <1>4. ASSUME pc[q] \in RowLabels, a \notin raced
        PROVE  /\ bankStatus'[a] = bankStatus[a] /\ bankCode'[a] = bankCode[a]
               /\ a \in primary' => a \in primary
    <2>1. a \in AccountIds /\ bankStatus[a] # "none"
      BY <1>1, <1>4 DEF BankHandlerSound
    <2>2. a # bankTarget[p]
      BY <1>4, <2>1, TwoOnOneAccountShared, BankAccountsAssumption
    <2> QED
      BY <2>1, <2>2 DEF RowsMoveBy
  <1>5. ASSUME pc[q] = "bank_insert", adding[q] \notin raced
        PROVE  NoRowFor(adding[q])'
    <2>1. NoRowFor(adding[q]) /\ adding[q] # NoHolder
      BY <1>1, <1>5, BankAccountsAssumption DEF BankHandlerSound
    <2>2. adding[p] # adding[q]
      BY <1>5, <2>1, TwoOnOneAccountShared
    <2> QED
      BY <1>2, <2>1, <2>2 DEF RowsMoveBy, NoRowFor, Present
  <1> HIDE DEF a
  <1>6. a = bankTarget[q]
    BY DEF a
  <1> QED
    BY <1>1, <1>2, <1>3, <1>4, <1>5, <1>6 DEF BankHandlerSound, RowLabels, BankLabels

\* What is left to show of a step: what it writes, and what its handler knows.
LEMMA BankStepKeeps ==
    ASSUME BankSound, NEW p \in Procs, RowsMoveBy(p), OthersKept(p),
           raced' = raced \cup SharedAccounts',
           BankTableOK', BankMemoryOK', BankHandlerSound(p)',
           OnePrimary', PrimaryIsVerifiedUnlessRaced', NumberAddedOnce'
    PROVE  BankSound'
  <1>1. \A q \in Procs : BankHandlerSound(q)'
    BY OtherBankHandlersSound
  <1>2. (SharedAccounts \subseteq raced)'
    OBVIOUS
  <1> QED
    BY <1>1, <1>2 DEF BankSound

\* A step that leaves the table alone.
LEMMA BankTableKept ==
    ASSUME BankSound, NEW p \in Procs, OthersKept(p), UNCHANGED bankTable,
           raced' = raced \cup SharedAccounts', BankMemoryOK', BankHandlerSound(p)'
    PROVE  BankSound'
  <1>1. RowsMoveBy(p)
    BY DEF RowsMoveBy, bankTable
  <1>2. BankTableOK' /\ OnePrimary' /\ PrimaryIsVerifiedUnlessRaced' /\ NumberAddedOnce'
    BY DEF BankSound, BankTableOK, OnePrimary, PrimaryIsVerifiedUnlessRaced,
           NumberAddedOnce, Present, bankTable
  <1> QED
    BY <1>1, <1>2, BankStepKeeps

-----------------------------------------------------------------------------
(* The handlers, step by step *)

\* A handler that answers forgets what it worked on.
LEMMA BankDoneForgets ==
    ASSUME BankSound, NEW p \in Procs, BankDone(p)
    PROVE  BankMemoryOK' /\ OthersKept(p) /\ BankHandlerSound(p)'
  <1> USE DEF BankSound, BankMemoryOK, BankDone, Goto
  <1>1. BankMemoryOK' /\ OthersKept(p) /\ pc'[p] = "idle"
    BY DEF OthersKept
  <1>2. BankHandlerSound(p)'
    BY <1>1 DEF BankHandlerSound, RowLabels, BankLabels
  <1> QED
    BY <1>1, <1>2

\* The first query of a handler.
LEMMA BankRequestSound ==
    ASSUME BankSound, raced' = raced \cup SharedAccounts',
           NEW p \in Procs, BankRequest(p)
    PROVE  BankSound'
  <1> USE DEF BankSound, BankMemoryOK, BankTableOK, Idle, Goto, bankTable, BankLabels
  <1>1. ASSUME NEW u \in Users, NEW n \in Numbers, AddBankAccount(p, u, n)
        PROVE  BankSound'
    <2> USE <1>1 DEF AddBankAccount
    <2>1. CASE SameNumber(u, n) = {} /\ Goto(p, "bank_insert") /\ UNCHANGED bankTarget
      <3>1. BankMemoryOK' /\ OthersKept(p)
        BY <2>1 DEF OthersKept
      <3>2. NoRowFor(<<u, n>>)'
        BY <2>1 DEF SameNumber, RowsOf, NoRowFor, Present
      <3>3. BankHandlerSound(p)'
        BY <2>1, <3>2 DEF BankHandlerSound, RowLabels
      <3> QED
        BY <3>1, <3>3, BankTableKept
    <2>2. CASE \E a \in SameNumber(u, n) :
                  /\ bankStatus[a] = "unverified"
                  /\ bankTarget' = [bankTarget EXCEPT ![p] = a]
                  /\ Goto(p, "bank_update")
      <3>1. PICK a \in AccountIds : /\ bankStatus[a] = "unverified"
                                    /\ bankTarget' = [bankTarget EXCEPT ![p] = a]
                                    /\ Goto(p, "bank_update")
        BY <2>2 DEF SameNumber, RowsOf
      <3>2. BankMemoryOK' /\ OthersKept(p)
        BY <3>1 DEF OthersKept
      <3>3. BankHandlerSound(p)'
        BY <3>1 DEF BankHandlerSound, RowLabels, PrimaryIsVerifiedUnlessRaced
      <3> QED
        BY <3>2, <3>3, BankTableKept
    <2> QED
      BY <2>1, <2>2
  <1>2. ASSUME NEW a \in AccountIds, NEW label \in {"bank_code", "bank_primary", "bank_destroy"},
               Idle(p), WorkOn(p, a, label), typed' \in [Procs -> Codes \cup {NoCode}],
               \A q \in Procs \ {p} : typed'[q] = typed[q], bankStatus[a] # "none",
               label = "bank_primary" => bankStatus[a] = "verified",
               label = "bank_destroy" => a \notin primary
        PROVE  BankSound'
    <2> USE <1>2 DEF WorkOn
    <2>1. BankMemoryOK' /\ OthersKept(p)
      BY DEF OthersKept
    <2>2. BankHandlerSound(p)'
      BY DEF BankHandlerSound, RowLabels
    <2> QED
      BY <2>1, <2>2, BankTableKept
  <1>3. ASSUME NEW a \in AccountIds, NEW c \in Codes, VerifyBankAccount(p, a, c)
        PROVE  BankSound'
    <2>1. /\ Idle(p) /\ WorkOn(p, a, "bank_code") /\ bankStatus[a] # "none"
          /\ typed' \in [Procs -> Codes \cup {NoCode}]
          /\ \A q \in Procs \ {p} : typed'[q] = typed[q]
      BY <1>3 DEF VerifyBankAccount
    <2> QED
      BY <1>2, <2>1
  <1>4. ASSUME NEW a \in AccountIds, SetPrimary(p, a)
        PROVE  BankSound'
    <2>1. /\ Idle(p) /\ WorkOn(p, a, "bank_primary") /\ bankStatus[a] = "verified"
          /\ typed' \in [Procs -> Codes \cup {NoCode}]
          /\ \A q \in Procs \ {p} : typed'[q] = typed[q]
      BY <1>4 DEF SetPrimary
    <2> QED
      BY <1>2, <2>1
  <1>5. ASSUME NEW a \in AccountIds, DeleteBankAccount(p, a)
        PROVE  BankSound'
    <2>1. /\ Idle(p) /\ WorkOn(p, a, "bank_destroy") /\ bankStatus[a] # "none"
          /\ a \notin primary /\ typed' \in [Procs -> Codes \cup {NoCode}]
          /\ \A q \in Procs \ {p} : typed'[q] = typed[q]
      BY <1>5 DEF DeleteBankAccount, Present
    <2> QED
      BY <1>2, <2>1
  <1> QED
    BY <1>1, <1>3, <1>4, <1>5 DEF BankRequest

\* A handler runs on to its next await.
LEMMA BankStepSound ==
    ASSUME BankSound, raced' = raced \cup SharedAccounts',
           NEW p \in Procs, BankStep(p)
    PROVE  BankSound'
  <1> DEFINE a == bankTarget[p]
  <1>1. /\ BankTableOK /\ BankMemoryOK /\ BankHandlerSound(p)
        /\ OnePrimary /\ PrimaryIsVerifiedUnlessRaced /\ NumberAddedOnce
    BY DEF BankSound
  <1>2. CASE AddBankInsert(p)
    <2> USE <1>2 DEF AddBankInsert
    <2>1. PICK new \in AccountIds, c \in Codes :
             /\ bankStatus[new] = "none"
             /\ bankStatus' = [bankStatus EXCEPT ![new] = "unverified"]
             /\ bankHolder' = [bankHolder EXCEPT ![new] = adding[p]]
             /\ bankCode' = [bankCode EXCEPT ![new] = c]
      OBVIOUS
    <2>2. adding[p] \in Users \X Numbers
      BY <1>1 DEF BankHandlerSound
    <2>3. BankTableOK'
      BY <1>1, <2>1, <2>2 DEF BankTableOK, BankStatuses
    <2>4. RowsMoveBy(p)
      BY <1>1, <2>1 DEF BankTableOK, RowsMoveBy
    <2>5. OnePrimary' /\ PrimaryIsVerifiedUnlessRaced'
      BY <1>1, <2>1 DEF BankTableOK, OnePrimary, PrimaryIsVerifiedUnlessRaced, Present
    <2>6. NumberAddedOnce'
      <3> SUFFICES ASSUME NEW b \in AccountIds, NEW d \in AccountIds, b # d,
                          Present(b)', Present(d)', bankHolder'[b] = bankHolder'[d],
                          bankHolder'[b] \notin raced'
                   PROVE  FALSE
        BY DEF NumberAddedOnce
      <3>1. CASE b # new /\ d # new
        BY <1>1, <2>1, <3>1 DEF BankTableOK, NumberAddedOnce, Present
      <3>2. CASE b = new \/ d = new
        <4>1. adding[p] \notin raced
          BY <1>1, <2>1, <3>2 DEF BankTableOK
        <4>2. NoRowFor(adding[p])
          BY <1>1, <4>1 DEF BankHandlerSound
        <4> QED
          BY <1>1, <2>1, <3>2, <4>2 DEF BankTableOK, NoRowFor, Present
      <3> QED
        BY <3>1, <3>2
    <2> QED
      BY <2>3, <2>4, <2>5, <2>6, BankDoneForgets, BankStepKeeps
  <1>3. CASE VerifyReadCode(p)
    <2> USE <1>3 DEF VerifyReadCode, bankTable, bankLocals, Goto
    <2>1. BankMemoryOK' /\ OthersKept(p)
      BY <1>1 DEF BankMemoryOK, OthersKept, BankLabels
    <2>2. BankHandlerSound(p)'
      BY <1>1 DEF BankHandlerSound, BankMemoryOK, RowLabels, BankLabels
    <2> QED
      BY <2>1, <2>2, BankTableKept
  <1>4. CASE BankHandlerFails(p)
    BY <1>4, BankDoneForgets, BankTableKept DEF BankHandlerFails
  <1>5. ASSUME BankDone(p), a \in AccountIds, bankStatus[a] # "none",
               bankHolder' = bankHolder,
               bankCode' \in [AccountIds -> Codes \cup {NoCode}],
               \A b \in AccountIds \ {a} : bankCode'[b] = bankCode[b],
               NEW status \in BankStatuses \ {"none"},
               bankStatus' = [bankStatus EXCEPT ![a] = status],
               status # "deleted" => Present(a),
               \A b \in primary' : /\ b \in AccountIds /\ Present(b)' /\ b \in primary \cup {a}
                                   /\ b = a /\ a \notin raced => status = "verified",
               a \in primary' /\ a \notin primary =>
                  \A b \in primary' : bankHolder[b][1] = bankHolder[a][1] => b = a
        PROVE  BankSound'
    <2>1. BankTableOK' /\ RowsMoveBy(p)
      BY <1>1, <1>5 DEF BankTableOK, RowsMoveBy, BankStatuses
    <2>2. OnePrimary'
      BY <1>1, <1>5 DEF OnePrimary
    <2>3. PrimaryIsVerifiedUnlessRaced'
      BY <1>1, <1>5 DEF PrimaryIsVerifiedUnlessRaced, BankTableOK
    <2>4. NumberAddedOnce'
      BY <1>1, <1>5 DEF NumberAddedOnce, Present, BankTableOK
    <2> QED
      BY <1>5, <2>1, <2>2, <2>3, <2>4, BankDoneForgets, BankStepKeeps
  <1>6. ASSUME BankDone(p), UNCHANGED bankTable
        PROVE  BankSound'
    BY <1>6, BankDoneForgets, BankTableKept
  <1>7. pc[p] \in RowLabels => a \in AccountIds /\ bankStatus[a] # "none"
    BY <1>1 DEF BankHandlerSound
  <1>8. CASE AddBankUpdate(p)
    <2> USE <1>8 DEF AddBankUpdate
    <2>1. a \in AccountIds /\ bankStatus[a] # "none"
      BY <1>7 DEF RowLabels, BankLabels
    <2>2. CASE ~Present(a)
      BY <1>6, <2>2 DEF bankTable
    <2>3. CASE Present(a)
      <3>1. PICK c \in Codes : bankCode' = [bankCode EXCEPT ![a] = c]
        BY <2>3
      <3>2. /\ bankStatus' = [bankStatus EXCEPT ![a] = "unverified"]
            /\ bankHolder' = bankHolder /\ primary' = primary /\ BankDone(p)
        BY <2>3
      <3>3. a \notin raced => a \notin primary
        BY <1>1 DEF BankHandlerSound
      <3>4. /\ bankCode' \in [AccountIds -> Codes \cup {NoCode}]
            /\ \A b \in AccountIds \ {a} : bankCode'[b] = bankCode[b]
        BY <1>1, <3>1 DEF BankTableOK
      <3>5. \A b \in primary' : /\ b \in AccountIds /\ Present(b)' /\ b \in primary \cup {a}
                                /\ ~(b = a /\ a \notin raced)
        BY <1>1, <2>1, <3>2, <3>3 DEF BankTableOK, OnePrimary, Present
      <3> HIDE DEF a
      <3> QED
        BY <1>5, <2>1, <2>3, <3>2, <3>4, <3>5 DEF BankStatuses
    <2> QED
      BY <2>2, <2>3
  <1>9. CASE VerifyCommit(p)
    <2> USE <1>9 DEF VerifyCommit
    <2>1. a \in AccountIds /\ bankStatus[a] # "none"
      BY <1>7 DEF RowLabels, BankLabels
    <2>2. CASE ~Present(a)
      BY <1>6, <2>2 DEF bankTable
    <2>3. CASE Present(a)
      <3>1. /\ bankStatus' = [bankStatus EXCEPT ![a] = "verified"]
            /\ bankCode' = [bankCode EXCEPT ![a] = NoCode]
            /\ bankHolder' = bankHolder /\ BankDone(p)
        BY <2>3
      <3>2. ~FirstVerified(bankHolder[a][1], bankStatus')
        BY <1>1, <2>1, <2>3, <3>1 DEF FirstVerified, RowsOf, BankTableOK
      <3>3. primary' = primary
        BY <2>3, <3>2
      <3>4. /\ bankCode' \in [AccountIds -> Codes \cup {NoCode}]
            /\ \A b \in AccountIds \ {a} : bankCode'[b] = bankCode[b]
        BY <1>1, <3>1 DEF BankTableOK
      <3>5. \A b \in primary' : b \in AccountIds /\ Present(b)' /\ b \in primary \cup {a}
        BY <1>1, <2>1, <3>1, <3>3 DEF BankTableOK, OnePrimary, Present
      <3> HIDE DEF a
      <3> QED
        BY <1>5, <2>1, <2>3, <3>1, <3>3, <3>4, <3>5 DEF BankStatuses
    <2> QED
      BY <2>2, <2>3
  <1>10. CASE SetPrimaryCommit(p)
    <2> USE <1>10 DEF SetPrimaryCommit
    <2>1. a \in AccountIds /\ bankStatus[a] # "none"
      BY <1>7 DEF RowLabels, BankLabels
    <2>2. /\ primary' = (primary \ RowsOf(bankHolder[a][1])) \cup {b \in {a} : Present(b)}
          /\ UNCHANGED <<bankStatus, bankHolder, bankCode>> /\ BankDone(p)
      OBVIOUS
    <2>3. a \notin raced => bankStatus[a] = "verified"
      BY <1>1 DEF BankHandlerSound
    <2>4. /\ bankStatus' = [bankStatus EXCEPT ![a] = bankStatus[a]]
          /\ bankStatus[a] \in BankStatuses \ {"none"}
          /\ bankStatus[a] # "deleted" => Present(a)
          /\ bankCode' \in [AccountIds -> Codes \cup {NoCode}]
          /\ \A b \in AccountIds \ {a} : bankCode'[b] = bankCode[b]
      BY <1>1, <2>1, <2>2 DEF BankTableOK, BankStatuses, Present
    <2>5. \A b \in primary' : b \in AccountIds /\ Present(b)' /\ b \in primary \cup {a}
      BY <1>1, <2>1, <2>2 DEF BankTableOK, OnePrimary, Present
    <2>6. \A b \in primary' : bankHolder[b][1] = bankHolder[a][1] => b = a
      BY <1>1, <2>1, <2>2 DEF BankTableOK, OnePrimary, RowsOf
    <2> HIDE DEF a
    <2> QED
      BY <1>5, <2>1, <2>2, <2>3, <2>4, <2>5, <2>6
  <1>11. CASE DeleteBankDestroy(p)
    <2> USE <1>11 DEF DeleteBankDestroy
    <2>1. a \in AccountIds /\ bankStatus[a] # "none"
      BY <1>7 DEF RowLabels, BankLabels
    <2>2. /\ bankStatus' = [bankStatus EXCEPT ![a] = "deleted"]
          /\ bankCode' = [bankCode EXCEPT ![a] = NoCode]
          /\ primary' = primary \ {a} /\ bankHolder' = bankHolder /\ BankDone(p)
      OBVIOUS
    <2>3. /\ bankCode' \in [AccountIds -> Codes \cup {NoCode}]
          /\ \A b \in AccountIds \ {a} : bankCode'[b] = bankCode[b]
      BY <1>1, <2>2 DEF BankTableOK
    <2>4. \A b \in primary' : b # a /\ b \in AccountIds /\ Present(b)' /\ b \in primary
      BY <1>1, <2>2 DEF BankTableOK, OnePrimary, Present
    <2> HIDE DEF a
    <2> QED
      BY <1>5, <2>1, <2>2, <2>3, <2>4 DEF BankStatuses
  <1> QED
    BY <1>2, <1>3, <1>4, <1>8, <1>9, <1>10, <1>11 DEF BankStep

-----------------------------------------------------------------------------
(* Theorems *)

\* Every step of the specification keeps the inductive invariant.
LEMMA BankNextSound ==
    ASSUME BankSound,
           [BankNext /\ raced' = raced \cup SharedAccounts']_<<bankVars, raced>>
    PROVE  BankSound'
  <1>1. CASE UNCHANGED <<bankVars, raced>>
    <2> USE <1>1 DEF bankVars, bankState, bankTable, bankLocals, BankSound
    <2>1. BankTableOK' /\ BankMemoryOK'
      BY DEF BankTableOK, BankMemoryOK
    <2>2. OnePrimary' /\ PrimaryIsVerifiedUnlessRaced' /\ NumberAddedOnce'
      BY DEF OnePrimary, PrimaryIsVerifiedUnlessRaced, NumberAddedOnce, Present
    <2>3. (SharedAccounts \subseteq raced)'
      BY DEF SharedAccounts, Shared, BankWorksOn
    <2>4. \A p \in Procs : BankHandlerSound(p)'
      BY DEF BankHandlerSound, NoRowFor, Present
    <2> QED
      BY <2>1, <2>2, <2>3, <2>4
  <1>2. CASE BankNext /\ raced' = raced \cup SharedAccounts'
    BY <1>2, BankRequestSound, BankStepSound DEF BankNext
  <1> QED
    BY <1>1, <1>2

\* However addBankAccount, verifyBankAccount, setPrimaryBankAccount and
\* deleteBankAccount interleave and wherever they fail: a user has at most one
\* primary account, and one that no two handlers worked on at once is verified.
THEOREM BankInvariant == BankSpec => []BankInv
  <1>1. BankStart => BankSound
    BY BankStartSound
  <1>2. BankSound /\ [BankNext /\ raced' = raced \cup SharedAccounts']_<<bankVars, raced>>
          => BankSound'
    BY BankNextSound
  <1>3. BankSound => BankInv
    BY BankSoundInv
  <1> QED
    BY <1>1, <1>2, <1>3, PTL DEF BankSpec

\* A user has a number verified once, unless it was added twice at once.
THEOREM BankNumberVerifiedOnce == BankSpec => []NumberVerifiedOnceUnlessRaced
  <1>1. BankStart => BankSound
    BY BankStartSound
  <1>2. BankSound /\ [BankNext /\ raced' = raced \cup SharedAccounts']_<<bankVars, raced>>
          => BankSound'
    BY BankNextSound
  <1>3. BankSound => NumberVerifiedOnceUnlessRaced
    BY BankSoundInv
  <1> QED
    BY <1>1, <1>2, <1>3, PTL DEF BankSpec

\* The first query of a handler writes no row.
LEMMA BankRequestWritesNothing ==
    ASSUME NEW p \in Procs, BankRequest(p)
    PROVE  UNCHANGED bankTable
  BY DEF BankRequest, AddBankAccount, VerifyBankAccount, SetPrimary, DeleteBankAccount, WorkOn

\* A step takes the primary account from a user only by giving the user
\* another one, or where two handlers worked on one of the user's accounts.
LEMMA BankStepKeepsPrimary ==
    ASSUME BankSound,
           [BankNext /\ raced' = raced \cup SharedAccounts']_<<bankVars, raced>>,
           NEW a \in primary,
           \A b \in raced \cap AccountIds : bankHolder[b][1] # bankHolder[a][1]
    PROVE  \E b \in primary' : bankHolder'[b][1] = bankHolder[a][1]
  <1>1. /\ BankTableOK /\ OnePrimary /\ a \in AccountIds /\ Present(a) /\ a \notin raced
        /\ \A p \in Procs : BankHandlerSound(p)
    BY DEF BankSound, BankTableOK, OnePrimary
  <1>2. ASSUME a \in primary', bankHolder'[a] = bankHolder[a]
        PROVE  \E b \in primary' : bankHolder'[b][1] = bankHolder[a][1]
    BY <1>2
  <1>3. CASE UNCHANGED bankTable
    BY <1>2, <1>3 DEF bankTable
  <1>4. ASSUME NEW p \in Procs, BankStep(p)
        PROVE  \E b \in primary' : bankHolder'[b][1] = bankHolder[a][1]
    <2> DEFINE t == bankTarget[p]
    <2>1. CASE AddBankInsert(p)
      BY <1>1, <1>2, <2>1 DEF AddBankInsert, BankTableOK, Present
    <2>2. CASE AddBankUpdate(p) \/ VerifyCommit(p)
      BY <1>2, <2>2 DEF AddBankUpdate, VerifyCommit
    <2>3. CASE VerifyReadCode(p) \/ BankHandlerFails(p)
      BY <1>3, <2>3 DEF VerifyReadCode, BankHandlerFails
    <2>4. CASE SetPrimaryCommit(p)
      <3> USE <2>4 DEF SetPrimaryCommit
      <3>1. t \in AccountIds
        BY <1>1 DEF BankHandlerSound, RowLabels, BankLabels
      <3>2. CASE bankHolder[t][1] # bankHolder[a][1]
        BY <1>2, <3>2 DEF RowsOf
      <3>3. CASE bankHolder[t][1] = bankHolder[a][1]
        <4>1. bankStatus[t] = "verified"
          BY <1>1, <3>1, <3>3 DEF BankHandlerSound
        <4>2. t \in primary' /\ bankHolder'[t] = bankHolder[t]
          BY <4>1 DEF Present
        <4> QED
          BY <3>3, <4>2
      <3> QED
        BY <3>2, <3>3
    <2>5. CASE DeleteBankDestroy(p)
      <3>1. t # a
        BY <1>1, <2>5 DEF DeleteBankDestroy, BankHandlerSound
      <3> QED
        BY <1>2, <2>5, <3>1 DEF DeleteBankDestroy
    <2> QED
      BY <1>4, <2>1, <2>2, <2>3, <2>4, <2>5 DEF BankStep
  <1> QED
    BY <1>3, <1>4, BankRequestWritesNothing DEF BankNext, bankVars, bankState

\* "Cannot delete primary bank account": a user who has a primary account
\* keeps one, unless two handlers worked on one of the accounts at once.
THEOREM BankPrimaryKept == BankSpec => PrimaryKeptUnlessRaced
  <1>1. BankStart => BankSound
    BY BankStartSound
  <1>2. BankSound /\ [BankNext /\ raced' = raced \cup SharedAccounts']_<<bankVars, raced>>
          => /\ BankSound'
             /\ [\A a \in primary :
                   LET u == bankHolder[a][1] IN
                   \/ \E b \in raced \cap AccountIds : bankHolder[b][1] = u
                   \/ \E b \in primary' : bankHolder'[b][1] = u]_bankTable
    BY BankNextSound, BankStepKeepsPrimary
  <1> QED
    BY <1>1, <1>2, PTL DEF BankSpec, PrimaryKeptUnlessRaced

\* A step verifies an account only with the code of its row.
LEMMA BankStepVerifies ==
    ASSUME BankSound,
           [BankNext /\ raced' = raced \cup SharedAccounts']_<<bankVars, raced>>,
           NEW a \in AccountIds \ raced,
           bankStatus[a] = "unverified", bankStatus'[a] = "verified"
    PROVE  \E p \in Procs : bankTarget[p] = a /\ typed[p] = bankCode[a]
  <1>1. BankTableOK /\ \A p \in Procs : BankHandlerSound(p)
    BY DEF BankSound
  <1>2. ~UNCHANGED bankTable
    BY DEF bankTable
  <1>3. PICK p \in Procs : BankStep(p)
    BY <1>2, BankRequestWritesNothing DEF BankNext, bankVars, bankState
  <1>4. CASE VerifyCommit(p)
    <2>1. bankTarget[p] = a /\ pc[p] = "bank_verify"
      BY <1>1, <1>4 DEF VerifyCommit, BankTableOK
    <2> QED
      BY <1>1, <2>1 DEF BankHandlerSound
  <1>5. CASE ~VerifyCommit(p)
    <2>1. CASE AddBankInsert(p)
      BY <1>1, <2>1 DEF AddBankInsert, BankTableOK
    <2>2. CASE AddBankUpdate(p)
      BY <1>1, <2>2 DEF AddBankUpdate, BankTableOK
    <2>3. CASE DeleteBankDestroy(p)
      BY <1>1, <2>3 DEF DeleteBankDestroy, BankTableOK
    <2>4. CASE VerifyReadCode(p) \/ SetPrimaryCommit(p) \/ BankHandlerFails(p)
      BY <2>4 DEF VerifyReadCode, SetPrimaryCommit, BankHandlerFails, bankTable
    <2> QED
      BY <1>3, <1>5, <2>1, <2>2, <2>3, <2>4 DEF BankStep
  <1> QED
    BY <1>4, <1>5

\* "Invalid verification code": an account that no two handlers worked on at
\* once becomes verified by the code that was mailed for it last.
THEOREM BankVerifiedByItsCode == BankSpec => VerifiedByItsCodeUnlessRaced
  <1>1. BankStart => BankSound
    BY BankStartSound
  <1>2. BankSound /\ [BankNext /\ raced' = raced \cup SharedAccounts']_<<bankVars, raced>>
          => /\ BankSound'
             /\ [\A a \in AccountIds \ raced :
                   bankStatus[a] = "unverified" /\ bankStatus'[a] = "verified" =>
                       \E p \in Procs : bankTarget[p] = a /\ typed[p] = bankCode[a]]_bankTable
    BY BankNextSound, BankStepVerifies
  <1> QED
    BY <1>1, <1>2, PTL DEF BankSpec, VerifiedByItsCodeUnlessRaced

=============================================================================
