\* Four calls about three loans of two tenants within two milliseconds.
SPECIFICATION Spec
CONSTANTS
    c1 = c1
    c2 = c2
    c3 = c3
    c4 = c4
    car = car
    home = home
    other = other
    bank = bank
    lender = lender
    Calls = {c1, c2, c3, c4}
    Loans = {car, home, other}
    Tenants = {bank, lender}
    TenantOf <- MCTenantOf
    None = None
    MaxTime = 2
SYMMETRY MCSymmetry
INVARIANTS SerialChain ContiguousTrailVerifies
PROPERTY BrokenStaysBroken
\* All calls answered and the clock at its bound.
CHECK_DEADLOCK FALSE
