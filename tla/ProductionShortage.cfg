SPECIFICATION Spec
CONSTANTS
    Orders = {o1, o2}
    Staff <- MCStaff
    Duties <- MCDuties
    Groups <- MCGroups
    Forms <- MCForms
    Typed = {}
    Yields = {0, 2}
    MaxUnits = 2
    MaxStock = 1
SYMMETRY Anybody
CHECK_DEADLOCK FALSE
INVARIANTS
    ReconciledOnce
    IncomeFollowsSales
    ReversalLeavesNothing
    ApprovedHasMaterial
PROPERTY ShortageNeedsForce
