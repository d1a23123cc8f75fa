---- MODULE MCScheduledJobs ----
\* ScheduledJobs with few actors at a time: two payments that are settled by a
\* callback and by hand, one payment with edits of the subscription, two
\* dispatchers, a browser that two accounts share, two notices for one device,
\* and alerts of a business whose trial ends and is renewed.
EXTENDS ScheduledJobs
CONSTANTS p1, p2, w1, s1, n1, n2, a1, a2, b1, cron, web
Scene(billed, dies, payments, workers, staff, notices, accounts, dispatchers) ==
    [billed |-> billed, dies |-> dies, payments |-> payments, workers |-> workers, staff |-> staff,
     notices |-> notices, accounts |-> accounts, dispatchers |-> dispatchers]
MCScenes ==
    {Scene(TRUE, TRUE, {p1, p2}, {w1}, {}, {}, {}, {}),
     Scene(TRUE, FALSE, {p1}, {w1}, {s1}, {}, {}, {}),
     Scene(FALSE, TRUE, {}, {}, {}, {n1}, {a1}, {cron, web}),
     Scene(FALSE, TRUE, {}, {}, {}, {n1}, {a1, a2}, {cron}),
     Scene(FALSE, TRUE, {}, {}, {}, {n1, n2}, {a1}, {cron}),
     Scene(TRUE, FALSE, {p1}, {}, {}, {n1}, {a1}, {cron})}
\* Alerts of one account.
MCAlerts == {Scene(FALSE, FALSE, {}, {}, {}, {n1}, {a1}, {cron})}
====
