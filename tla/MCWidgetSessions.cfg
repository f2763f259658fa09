\* One widget session, called by two requests at once, and payouts beside it.
CONSTANTS
    Procs = {p1, p2}
    Users = {u1}
    NoUser = NoUser
    NoProc = NoProc
    Onboarded = {u1}
    Amounts = {1}
    Collected = {1}
    OpeningEarnings = {1}
    OpeningWallet = {0}
    PayoutIds = {pay1}
    NoPayout = NoPayout
    Rates = {2}
    Fees = {1}
    MaxTransfers = 1
    Sessions = {s1}
    NoSession = NoSession
    NoAmount = NoAmount
    MaxMoves = 2
SPECIFICATION WidgetSpec
CHECK_DEADLOCK FALSE
SYMMETRY SlotSymmetry
INVARIANT WidgetInv
PROPERTY SessionsAdvanceUnlessRaced
