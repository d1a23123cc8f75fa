\* Two payments of one checkout, public or at the counter, with the gateway's
\* events, a reconciliation and a reversal.
CONSTANTS
    r1 = r1
    r2 = r2
    w1 = w1
    w2 = w2
    s1 = s1
    Scenes <- PaymentScenes
    Requests = {r1, r2}
    Workers = {w1, w2}
    Staff = {s1}
    Amount = 2
    MaxPayments = 2
    MaxCharges = 2
    MaxReconciles = 1
SPECIFICATION FairSpec
CHECK_DEADLOCK FALSE
INVARIANTS
    NeverOverpaid
    ReferenceSettledOnce
    ProcessedIsRecorded
PROPERTIES
    ConfirmedIsPaid
    SwitchSparesMoney
    MoneyIsRecordedOrStranded
