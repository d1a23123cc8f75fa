\* A shelf that only checkouts take from.
CONSTANTS
    c1 = c1
    c2 = c2
    g1 = g1
    r1 = r1
    k1 = k1
    None = None
    Checkouts = {c1, c2}
    Goods = {g1}
    Policies = {"reduce", "split", "invite"}
    UsesProduction = TRUE
    Pollers = {}
    Reviewers = {r1}
    Clerks = {k1}
    ShelfUsers = {}
    Price = 2
    Lifetime = 1
    MaxUnits = 2
    MaxStock = 2
    MaxDeficit = 0
    MaxTime = 1
SPECIFICATION Spec
SYMMETRY Symmetry
CHECK_DEADLOCK FALSE
INVARIANTS
    PaidCheckoutIsRecoverable
    OrderDeliversWhatWasPaid
PROPERTIES
    TimelyPaymentIsHonoured
    HeldOrderShipsReservedUnits
    EscrowKept
