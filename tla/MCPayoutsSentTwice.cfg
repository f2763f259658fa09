\* Two administrators process the same payout at once.
CONSTANTS
    Procs = {p1, p2}
    Users = {u1}
    NoUser = NoUser
    NoProc = NoProc
    NoPayout = NoPayout
    Amounts = {1, 2}
    Collected = {}
    OpeningEarnings = {2}
    OpeningWallet = {0}
    PayoutIds = {pay1, pay2}
    Onboarded = {u1}
    Rates = {2}
    Fees = {1, 3}
    MaxTransfers = 2
SPECIFICATION PayoutsSpec
CHECK_DEADLOCK FALSE
INVARIANT SentOnce

