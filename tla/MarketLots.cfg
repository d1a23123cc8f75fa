SPECIFICATION Spec
CONSTANTS
    ann = ann
    bob = bob
    Clerks = {ann, bob}
    Houses <- MCHouses
    MaxLots = 2
    MaxSales = 2
    MaxUnits = 2
    MaxCounter = 2
    MaxPack = 2
    MaxDay = 1
CHECK_DEADLOCK FALSE
INVARIANTS
    UnitsConserved
    ReversedReachedNobody
    UnlistedSalesAreCovered
PROPERTIES
    OnlyFreshStockLeaves
    LotsOnlyShrink
