SPECIFICATION Spec
CONSTANTS
    p1 = p1
    p2 = p2
    w1 = w1
    s1 = s1
    n1 = n1
    n2 = n2
    a1 = a1
    a2 = a2
    b1 = b1
    cron = cron
    web = web
    None = None
    Scenes <- MCScenes
    Payments = {p1, p2}
    Workers = {w1}
    Staff = {s1}
    Month = 1
    Soon = 1
    MaxTime = 3
    Notices = {n1, n2}
    Accounts = {a1, a2}
    Browsers = {b1}
    Dispatchers = {cron, web}
    Cron = cron
    Attempts = 2
    MaxCrashes = 1
    MaxOverlaps = 1
CHECK_DEADLOCK FALSE
INVARIANTS
    PaidTimeIsKept
    PushesAreAccountedFor
    NoticesReachDevices
PROPERTIES
    EntitlementsCatchUp
    OutboxDrains
