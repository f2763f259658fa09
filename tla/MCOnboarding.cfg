\* Two requests at once, two users, five requests in all.
CONSTANTS
    Procs = {p1, p2}
    MaxCalls = 5
    Users = {u1, u2}
    NoUser = NoUser
    Emails = {e1, e2}
    NoEmail = NoEmail
    OpenIds = {o1, o2}
    NoOpenId = NoOpenId
    Codes = {c1, c2}
    NoCode = NoCode
    Requests = {r1, r2}
    NoRequest = NoRequest
SPECIFICATION PeopleSpec
CHECK_DEADLOCK FALSE
SYMMETRY PeopleSymmetry
INVARIANTS PeopleInv VerifiedAddressProvedUnlessRaced
    OnePendingRequestUnlessRaced
PROPERTIES EmailSetOnceUnlessRaced SuspensionHoldsUnlessRaced
