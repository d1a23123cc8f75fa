SPECIFICATION Spec
CONSTANTS
    ann = ann
    bob = bob
    Clerks = {ann, bob}
    Requests = {ann, bob}
    Offices <- MCOffices
    Shops <- MCShops
    MaxReceipts = 3
    MaxAmount = 3
    MaxPaid = 6
    MaxUnbooked = 2
    MaxOverwrites = 1
    MaxStock = 2
CHECK_DEADLOCK FALSE
INVARIANTS
    PaidIsBacked
    PurchaseBookedOnce
    BooksAgree
    ReceiptsNotOverspent
    MoneyReachesSales
