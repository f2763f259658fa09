\* Two requests at once on one user's earnings, two payout rows.
CONSTANTS
    Procs = {p1, p2}
    Users = {u1}
    NoUser = NoUser
    NoProc = NoProc
    NoPayout = NoPayout
    Amounts = {1, 2}
    Collected = {}
    OpeningEarnings = {2, 3}
    OpeningWallet = {0}
    PayoutIds = {pay1, pay2}
    Onboarded = {u1}
    Rates = {2}
    Fees = {1, 3}
    MaxTransfers = 2
SPECIFICATION PayoutsSpec
SYMMETRY SlotAndRowSymmetry
CHECK_DEADLOCK FALSE
INVARIANTS PayoutsInv OnePendingUnlessRaced PaidOnceUnlessRaced
    TransfersAccountedFor
PROPERTIES NeverReopened AccountsSpec
