\* Every request there is, direct sales and adjustments included.
CONSTANTS
    c1 = c1
    c2 = c2
    g1 = g1
    p1 = p1
    r1 = r1
    k1 = k1
    s1 = s1
    None = None
    Checkouts = {c1, c2}
    Goods = {g1}
    Policies = {"reject", "split", "invite"}
    UsesProduction = TRUE
    Pollers = {p1}
    Reviewers = {r1}
    Clerks = {k1}
    ShelfUsers = {s1}
    Price = 1
    Lifetime = 1
    MaxUnits = 1
    MaxStock = 1
    MaxDeficit = 1
    MaxTime = 1
SPECIFICATION Spec
SYMMETRY Symmetry
CHECK_DEADLOCK FALSE
PROPERTIES
    OrderPaidInFull
    OrderReviewedOnlyLate
    OrderOutcomeIsFinal
    ShipmentSparesOtherHolds
