\* Two requests at once for one user; a new one or one that is a customer of
\* Sudo; five requests in all.
CONSTANTS
    Procs = {p1, p2}
    Users = {u1}
    NoUser = NoUser
    Customers = {k1, k2}
    NoCustomer = NoCustomer
    Cards = {c1, c2, c3}
    NoCard = NoCard
    Parts = {"dob", "identity"}
    AskedStatuses = {"active", "frozen"}
    MaxCardCalls = 5
SPECIFICATION CardsSpec
CHECK_DEADLOCK FALSE
SYMMETRY SlotAndSudoSymmetry
INVARIANTS CardsInv OneCustomerUnlessRaced SudoAccountedFor
    StatusAgreesUnlessRaced OneDefaultUnlessRaced
