\* A recovered order holds no stock.
CONSTANTS
    c1 = c1
    c2 = c2
    g1 = g1
    p1 = p1
    r1 = r1
    k1 = k1
    s1 = s1
    s2 = s2
    None = None
    Checkouts = {c1}
    Goods = {g1}
    Policies = {"reject"}
    UsesProduction = FALSE
    Pollers = {}
    Reviewers = {r1}
    Clerks = {k1}
    ShelfUsers = {}
    Price = 1
    Lifetime = 1
    MaxUnits = 1
    MaxStock = 2
    MaxDeficit = 2
    MaxTime = 1
SPECIFICATION Spec
CHECK_DEADLOCK FALSE
INVARIANT OrderKeepsHoldUntilAccepted
