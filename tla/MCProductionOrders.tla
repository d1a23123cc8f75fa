---- MODULE MCProductionOrders ----
\* ProductionOrders with interchangeable orders and two members of staff whose
\* operations overlap.
EXTENDS ProductionOrders, TLC
Restock   == [kind |-> "store", ordered |-> 1, planned |-> 1, paid |-> TRUE]
Assigned  == [kind |-> "customer", ordered |-> 1, planned |-> 2, paid |-> TRUE]
Market    == [kind |-> "market", ordered |-> 1, planned |-> 1, paid |-> TRUE]
MCForms == {Restock, Market, Assigned}
MCStaff == {"office", "floor"}
MCDuties ==
    [office |-> {"edit", "approve", "reverse", "delete", "reject",
                 "reconcile"},
     floor  |-> {"complete", "reconcile", "link", "approveRun", "deleteRun"}]
MCGroups == {Orders}
Anybody == Permutations(Orders)
====
