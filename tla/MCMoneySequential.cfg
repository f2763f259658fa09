\* Payouts, widget sessions and credit requests, one request at a time.
CONSTANTS
    Procs = {p1}
    u1 = u1
    Users = {u1}
    NoUser = NoUser
    NoProc = NoProc
    Onboarded = {u1}
    Amounts = {1}
    Collected <- AnySign
    OpeningEarnings = {2}
    OpeningWallet = {0}
    PayoutIds = {pay1, pay2}
    NoPayout = NoPayout
    Rates = {2}
    Fees = {1, 3}
    MaxTransfers = 1
    Sessions = {s1}
    NoSession = NoSession
    NoAmount = NoAmount
    MaxMoves = 1
    CreditIds = {cr1}
    NoCredit = NoCredit
    References = {}
    NoReference = NoReference
    Cards = {}
    NoCard = NoCard
    CardOwner <- OneOwner
    MaxFunded = 1
SPECIFICATION MoneySpec
CHECK_DEADLOCK FALSE
INVARIANT BooksAddUp
PROPERTY PayoutBookSpec
