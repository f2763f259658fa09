\* Deposits and card funding wait for each other's locks, fairly.
CONSTANTS
    Procs = {p1, p2}
    u1 = u1
    Users = {u1}
    NoUser = NoUser
    NoProc = NoProc
    Onboarded = {u1}
    Amounts = {1}
    Collected = {}
    OpeningEarnings = {0}
    OpeningWallet = {0}
    PayoutIds = {}
    NoPayout = NoPayout
    Rates = {2}
    Fees = {1}
    MaxTransfers = 1
    Sessions = {}
    NoSession = NoSession
    NoAmount = NoAmount
    MaxMoves = 1
    CreditIds = {}
    NoCredit = NoCredit
    References = {ref1}
    NoReference = NoReference
    Cards = {card1}
    NoCard = NoCard
    CardOwner <- OneOwner
    MaxFunded = 1
SPECIFICATION MoneyFairSpec
CHECK_DEADLOCK FALSE

PROPERTIES EveryRequestAnswered
