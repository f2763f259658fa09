\* Two requests at once, one user, three rows.
CONSTANTS
    Procs = {p1, p2}
    Users = {u1}
    Numbers = {n1, n2}
    AccountIds = {a1, a2, a3}
    NoAccount = NoAccount
    NoHolder = NoHolder
    Codes = {c1, c2}
    NoCode = NoCode
SPECIFICATION BankSpec
CHECK_DEADLOCK FALSE
SYMMETRY SlotAndRowSymmetry
INVARIANTS BankInv NumberVerifiedOnceUnlessRaced
PROPERTIES PrimaryKeptUnlessRaced VerifiedByItsCodeUnlessRaced
