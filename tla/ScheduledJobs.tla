---------------------------- MODULE ScheduledJobs ----------------------------
(***************************************************************************)
(* A business with its subscription and its alerts: the daily job, the     *)
(* cron requests that drain the push outbox, and the requests of customers,*)
(* members and the founder they interleave with.  The outbox asks          *)
(* business_has_module for the commerce module, which is where the two     *)
(* meet.                                                                   *)
(***************************************************************************)
EXTENDS Subscriptions

CONSTANTS
    Scenes,     \* who takes part, see scene below
    Notices, Accounts, Browsers, Dispatchers, Cron, Attempts, MaxCrashes, MaxOverlaps

VARIABLES
    scene,      \* the actors of this behaviour; never changes
    notice, active, wanted, delivery, work, owed, pushes, tries, overlaps, crashes

Outbox == INSTANCE PushOutbox WITH entitled <- HasModule("commerce")

alerts == <<notice, owed, active, wanted, delivery, work, pushes, tries, overlaps, crashes>>
vars   == <<scene, billing, alerts>>

ASSUME JobsAssumption ==
    /\ Cron \in Dispatchers
    /\ Attempts \in Nat \ {0} /\ {MaxCrashes, MaxOverlaps} \subseteq Nat
    /\ Scenes \subseteq
          [billed : BOOLEAN, dies : BOOLEAN, payments : SUBSET Payments,
           workers : SUBSET Workers, staff : SUBSET Staff, notices : SUBSET Notices,
           accounts : SUBSET Accounts, dispatchers : SUBSET Dispatchers]

TypeOK == scene \in Scenes /\ BillingTypeOK /\ Outbox!OutboxTypeOK

\* Whoever is not billed is a business from before subscriptions.
Init ==
    /\ scene \in Scenes
    /\ BillingInit /\ (sub.exists => scene.billed)
    /\ Outbox!OutboxInit

Billing ==
    /\ \/ scene.billed /\ \E plan \in Plans : StartTrial(plan)
       \/ \E p \in scene.payments : Customer(p) \/ \E w \in scene.workers : Provider(w, p)
       \/ \E s \in scene.staff : Member(s)
       \/ scene.billed /\ (Sync \/ Tick)
       \/ scene.billed /\ scene.dies /\ SyncDies
    /\ UNCHANGED <<scene, alerts>>

Alerts ==
    /\ \/ \E n \in scene.notices : Outbox!Activity(n)
       \/ \E a \in scene.accounts : Outbox!Account(a)
       \/ \E d \in Outbox!Deliveries : Outbox!Backoff(d)
       \/ \E w \in scene.dispatchers : Outbox!Dispatch(w) \/ (scene.dies /\ Outbox!Crash(w))
    /\ UNCHANGED <<scene, billing>>

Next == Billing \/ Alerts

\* A step of the outbox, with everything else as it is.
Sole(A) == A /\ UNCHANGED <<scene, billing>>
\* A step of the daily job.
Daily(A) == A /\ UNCHANGED <<scene, alerts>>

(***************************************************************************)
(* The daily job is called again and again, and so is the cron request of  *)
(* the outbox (docs/DEPLOYMENT.md); a run of the job or of a dispatcher    *)
(* goes on unless it dies, as every push has a timeout.  Nothing is        *)
(* assumed of customers, members, payment providers and push services.     *)
(***************************************************************************)
Fairness ==
    /\ WF_vars(scene.billed /\ Daily(Sync))
    /\ WF_vars(Sole(\E d \in Outbox!Deliveries : Outbox!Backoff(d)))
    /\ \A w \in Dispatchers : WF_vars(w \in scene.dispatchers /\ Sole(Outbox!Proceed(w)))
    /\ WF_vars(Cron \in scene.dispatchers /\ Sole(Outbox!ReadNotices(Cron)))

Spec == Init /\ [][Next]_vars /\ Fairness

PushesAreAccountedFor == Outbox!PushesAreAccountedFor
NoticesReachDevices   == Outbox!NoticesReachDevices
OutboxDrains          == Outbox!OutboxDrains
SignedOutStaysOff     == Outbox!SignedOutStaysOff
=============================================================================
