\* Credit requests and transfers on one user's earnings.
CONSTANTS
    Procs = {p1, p2}
    u1 = u1
    Users = {u1}
    NoUser = NoUser
    NoProc = NoProc
    Onboarded = {u1}
    Amounts = {1}
    Collected = {}
    OpeningEarnings = {0}
    OpeningWallet = {0}
    PayoutIds = {}
    NoPayout = NoPayout
    Rates = {2}
    Fees = {1}
    MaxTransfers = 1
    Sessions = {}
    NoSession = NoSession
    NoAmount = NoAmount
    MaxMoves = 1
    CreditIds = {cr1, cr2}
    NoCredit = NoCredit
    References = {}
    NoReference = NoReference
    Cards = {}
    NoCard = NoCard
    CardOwner <- OneOwner
    MaxFunded = 1
SPECIFICATION MoneySpec
CHECK_DEADLOCK FALSE
SYMMETRY SlotSymmetry
INVARIANTS CreditsInv OnePendingCreditUnlessRaced
PROPERTY AccountsSpec
