----------------------------- MODULE PushOutbox -----------------------------
(***************************************************************************)
(* Web Push for the activity of the storefront: a notice is stored, a      *)
(* dispatcher turns it into a delivery for every device that wants alerts, *)
(* sends the deliveries that are due, and writes back what became of them. *)
(*                                                                         *)
(* A dispatcher is the thread that a new notice starts in the web process  *)
(* or the request of the cron service.  The thread holds a lock of its     *)
(* process; the cron request, and another process, hold none: dispatchers  *)
(* overlap.  Every write of theirs is a step, they hold objects they read  *)
(* before, and they may die between any two steps.                         *)
(*                                                                         *)
(* `entitled' is an input: whether the business may use the commerce       *)
(* module.  Permissions of single members, the settings that mute alerts   *)
(* and the sizes of batches are left out.                                  *)
(***************************************************************************)
EXTENDS Integers, FiniteSets

CONSTANTS
    Notices,
    Accounts,
    Browsers,
    Dispatchers,
    Cron,           \* the dispatcher that is called every five minutes
    Attempts,       \* failed attempts after which a delivery is given up
    MaxCrashes,     \* bound: dispatchers that die
    MaxOverlaps     \* bound: times a delivery is read while another has it

\* A CommercePushSubscription is one account on one browser.
Devices    == Accounts \X Browsers
Deliveries == Notices \X Devices

VARIABLES
    entitled,   \* business_has_module(business, "commerce")
    notice,     \* notice[n]: how old it is, or that push_processed_at is set
    active,     \* CommercePushSubscription.active
    wanted,     \* ghost: devices whose user asked for alerts last
    delivery,   \* delivery[d]: a CommercePushDelivery
    work,       \* work[w]: what a dispatcher holds
    owed,       \* ghost: owed[n]: devices that shall receive n
    pushes,     \* ghost: pushes[d]: times the push service took it
    tries,      \* ghost: tries[d]: times it was sent
    overlaps,   \* ghost: overlaps[d]: times it was read while another had it
    crashes     \* ghost: dispatchers that died

feed   == <<notice, owed>>
gear   == <<active, wanted>>
tally  == <<pushes, tries, overlaps, crashes>>
outbox == <<feed, gear, delivery, work, tally>>

Statuses == {"none", "pending", "sent", "failed", "expired"}
Delivery == [status : Statuses, attempts : 0 .. Attempts, due : BOOLEAN]

\* notices and rows are what enqueueing has read; batch are the deliveries
\* read to be sent, left those not sent yet, copy the objects of the batch,
\* gone the devices whose last object says so.
Idle == [at |-> "idle", notices |-> {}, rows |-> {}, batch |-> {}, left |-> {},
         gone |-> {}, copy |-> [d \in Deliveries |-> [status |-> "none", attempts |-> 0, due |-> FALSE]]]

Work ==
    [at : {"idle", "listed", "created", "queued", "sending", "saved"},
     notices : SUBSET Notices, rows : SUBSET Deliveries, batch : SUBSET Deliveries,
     left : SUBSET Deliveries, gone : SUBSET Devices, copy : [Deliveries -> Delivery]]

OutboxTypeOK ==
    /\ notice \in [Notices -> {"none", "recent", "late", "processed"}]
    /\ active \subseteq Devices /\ wanted \subseteq Devices
    /\ delivery \in [Deliveries -> Delivery]
    /\ work \in [Dispatchers -> Work]
    /\ owed \in [Notices -> SUBSET Devices]
    /\ pushes \in [Deliveries -> Nat] /\ tries \in [Deliveries -> Nat]
    /\ overlaps \in [Deliveries -> 0 .. MaxOverlaps] /\ crashes \in 0 .. MaxCrashes

OutboxInit ==
    /\ notice = [n \in Notices |-> "none"] /\ owed = [n \in Notices |-> {}]
    /\ active = {} /\ wanted = {}
    /\ delivery = Idle.copy
    /\ work = [w \in Dispatchers |-> Idle]
    /\ pushes = [d \in Deliveries |-> 0] /\ tries = [d \in Deliveries |-> 0]
    /\ overlaps = [d \in Deliveries |-> 0] /\ crashes = 0

-----------------------------------------------------------------------------
(* Notices and devices *)

\* notify_commerce: the row of a notice, once for its dedupe_key.
Notify(n) ==
    /\ notice[n] = "none"
    /\ notice' = [notice EXCEPT ![n] = "recent"]
    /\ owed' = [owed EXCEPT ![n] = active]
    /\ UNCHANGED <<gear, delivery, work, tally>>

\* Half an hour goes by.
GrowOld(n) ==
    /\ notice[n] = "recent"
    /\ notice' = [notice EXCEPT ![n] = "late"]
    /\ UNCHANGED <<owed, gear, delivery, work, tally>>

\* The devices in D are told no more.
Release(D) == [n \in Notices |-> owed[n] \ D]

\* The same browser of other accounts.
Others(s) == {t \in Devices : t[2] = s[2] /\ t # s}

\* push_subscribe: the browser now belongs to this account.
Subscribe(s) ==
    /\ active' = (active \ Others(s)) \cup {s}
    /\ wanted' = (wanted \ Others(s)) \cup {s}
    /\ owed' = Release(Others(s))
    /\ UNCHANGED <<notice, delivery, work, tally>>

Silence(D) ==
    /\ active' = active \ D
    /\ wanted' = wanted \ D
    /\ owed' = Release(D)
    /\ UNCHANGED <<notice, delivery, work, tally>>

\* push_unsubscribe
Unsubscribe(s) == s \in wanted /\ Silence({s})

\* deactivate_push_subscriptions_on_logout
SignOut(a) == Silence({a} \X Browsers)

\* next_attempt_at has come.
Backoff(d) ==
    /\ ~delivery[d].due
    /\ delivery[d].status = "pending"
    /\ delivery' = [delivery EXCEPT ![d].due = TRUE]
    /\ UNCHANGED <<feed, gear, work, tally>>

-----------------------------------------------------------------------------
(* A dispatcher: _enqueue_notifications, then _send_pending *)

\* A mutated form of Retired: a notice is marked before its deliveries exist.
RetiredWhenRead == {n \in Notices : notice[n] \in {"late", "recent"}}

\* Notices older than half an hour are not pushed any more.
Retired == {n \in Notices : notice[n] = "late"}

\* The notices to push and the devices of members who may see them.
ReadNotices(w) ==
    /\ work[w].at = "idle"
    /\ LET recent == {n \in Notices : notice[n] = "recent"}
           rows   == IF entitled THEN recent \X active ELSE {}
       IN /\ work' = [work EXCEPT ![w] =
                         [Idle EXCEPT !.at = IF recent = {} THEN "queued" ELSE "listed",
                                      !.notices = recent, !.rows = rows]]
          /\ owed' = [n \in Notices |->
                         IF notice[n] = "late" \/ (n \in recent /\ ~entitled) THEN {}
                         ELSE owed[n]]
    /\ notice' = [n \in Notices |-> IF n \in Retired THEN "processed" ELSE notice[n]]
    /\ UNCHANGED <<gear, delivery, tally>>

\* bulk_create(ignore_conflicts=True)
CreateDeliveries(w) ==
    /\ work[w].at = "listed"
    /\ delivery' = [d \in Deliveries |->
                       IF d \in work[w].rows /\ delivery[d].status = "none"
                       THEN [status |-> "pending", attempts |-> 0, due |-> TRUE]
                       ELSE delivery[d]]
    /\ work' = [work EXCEPT ![w].at = "created"]
    /\ UNCHANGED <<feed, gear, tally>>

MarkProcessed(w) ==
    /\ work[w].at = "created"
    /\ notice' = [n \in Notices |-> IF n \in work[w].notices THEN "processed" ELSE notice[n]]
    /\ work' = [work EXCEPT ![w] = [Idle EXCEPT !.at = "queued"]]
    /\ UNCHANGED <<owed, gear, delivery, tally>>

\* Mutated forms of Ready: what was sent is sent again; what failed once is not.
AnyStatus(d) == delivery[d].status # "none" /\ delivery[d].due /\ d[2] \in active
FirstAttempt(d) == delivery[d].status = "pending" /\ delivery[d].attempts = 0 /\ d[2] \in active

Ready(d) == delivery[d].status = "pending" /\ delivery[d].due /\ d[2] \in active

\* Deliveries another dispatcher has read and not written back.
HeldByOthers(w) == UNION {work[v].batch : v \in Dispatchers \ {w}}

ReadBatch(w) ==
    /\ work[w].at = "queued"
    /\ LET batch == {d \in Deliveries : Ready(d)} IN
       /\ \A d \in batch \cap HeldByOthers(w) : overlaps[d] < MaxOverlaps
       /\ overlaps' = [d \in Deliveries |->
                          overlaps[d] + IF d \in batch \cap HeldByOthers(w) THEN 1 ELSE 0]
       /\ work' = [work EXCEPT ![w] =
                      IF batch = {} THEN Idle
                      ELSE [Idle EXCEPT !.at = "sending", !.batch = batch, !.left = batch,
                                        !.copy = [d \in Deliveries |->
                                                     IF d \in batch THEN delivery[d]
                                                     ELSE Idle.copy[d]]]]
    /\ UNCHANGED <<feed, gear, delivery, pushes, tries, crashes>>

GivenUp(n) == n >= Attempts

\* The object of a delivery after its n-th attempt.
Outcome(answer, n) ==
    CASE answer = "ok"    -> [status |-> "sent", attempts |-> n, due |-> TRUE]
      [] answer = "gone"  -> [status |-> "expired", attempts |-> n, due |-> TRUE]
      [] answer = "error" -> IF GivenUp(n) THEN [status |-> "failed", attempts |-> n, due |-> TRUE]
                             ELSE [status |-> "pending", attempts |-> n, due |-> FALSE]

\* One call of the push service.  Every delivery has a device object of its
\* own; the last one of a device is kept.
Push(w, d, answer) ==
    /\ work[w].at = "sending" /\ d \in work[w].left
    /\ work' = [work EXCEPT
           ![w].left = @ \ {d},
           ![w].gone = IF answer = "gone" THEN @ \cup {d[2]} ELSE @ \ {d[2]},
           ![w].copy[d] = Outcome(answer, @.attempts + 1)]
    /\ tries' = [tries EXCEPT ![d] = @ + 1]
    /\ pushes' = [pushes EXCEPT ![d] = IF answer = "ok" THEN @ + 1 ELSE @]
    /\ UNCHANGED <<feed, gear, delivery, overlaps, crashes>>

\* bulk_update of the deliveries ...
SaveDeliveries(w) ==
    /\ work[w].at = "sending" /\ work[w].left = {}
    /\ delivery' = [d \in Deliveries |->
                       IF d \in work[w].batch THEN work[w].copy[d] ELSE delivery[d]]
    /\ work' = [work EXCEPT ![w] = [Idle EXCEPT !.at = "saved", !.gone = work[w].gone,
                                                !.rows = work[w].batch]]
    /\ UNCHANGED <<feed, gear, tally>>

\* ... and of their devices, `active' included, as it was read or as it is gone.
SaveDevices(w) ==
    /\ work[w].at = "saved"
    /\ LET touched == {d[2] : d \in work[w].rows} IN
       /\ active' = (active \cup touched) \ work[w].gone
       /\ owed' = Release(work[w].gone)
    /\ work' = [work EXCEPT ![w] = Idle]
    /\ UNCHANGED <<notice, wanted, delivery, tally>>

\* The process restarts, or a query fails.
Crash(w) ==
    /\ work[w] # Idle /\ crashes < MaxCrashes
    /\ work' = [work EXCEPT ![w] = Idle]
    /\ crashes' = crashes + 1
    /\ UNCHANGED <<feed, gear, delivery, pushes, tries, overlaps>>

-----------------------------------------------------------------------------

Answers == {"ok", "gone", "error"}

Activity(n) == Notify(n) \/ GrowOld(n)
Account(a) == SignOut(a) \/ \E b \in Browsers : Subscribe(<<a, b>>) \/ Unsubscribe(<<a, b>>)

Proceed(w) ==
    \/ CreateDeliveries(w) \/ MarkProcessed(w) \/ ReadBatch(w)
    \/ \E d \in Deliveries, answer \in Answers : Push(w, d, answer)
    \/ SaveDeliveries(w) \/ SaveDevices(w)

Dispatch(w) == ReadNotices(w) \/ Proceed(w)

OutboxNext ==
    \/ \E n \in Notices : Activity(n)
    \/ \E a \in Accounts : Account(a)
    \/ \E d \in Deliveries : Backoff(d)
    \/ \E w \in Dispatchers : Dispatch(w) \/ Crash(w)

\* Time passes, a dispatcher that has begun goes on (every push has a
\* timeout), and the cron service calls again and again.
OutboxFairness ==
    /\ WF_outbox(\E d \in Deliveries : Backoff(d))
    /\ \A w \in Dispatchers : WF_outbox(Proceed(w))
    /\ WF_outbox(ReadNotices(Cron))

OutboxSpec == OutboxInit /\ entitled \in BOOLEAN
              /\ [][OutboxNext /\ UNCHANGED entitled]_<<outbox, entitled>> /\ OutboxFairness

-----------------------------------------------------------------------------
(* Properties *)

(***************************************************************************)
(* Dispatchers overlap and die after a push and before they write it down; *)
(* each such event costs at most one more alert for the same notice and    *)
(* one more attempt: no delivery is sent again and again, and none beyond  *)
(* its attempts (webpush.py:189, 230, 242).                                *)
(***************************************************************************)
PushesAreAccountedFor ==
    \A d \in Deliveries :
        /\ pushes[d] <= 1 + overlaps[d] + crashes
        /\ tries[d] <= Attempts + overlaps[d] + crashes

(***************************************************************************)
(* A notice that is marked processed has a delivery for every device that  *)
(* was active when it was stored and has been since, unless it was half an *)
(* hour old or the business not entitled when it was read: it is marked    *)
(* only after its deliveries exist, whoever dies in between                *)
(* (webpush.py:151, 154).                                                  *)
(***************************************************************************)
NoticesReachDevices ==
    \A n \in Notices : notice[n] = "processed" =>
        \A s \in owed[n] : delivery[<<n, s>>].status # "none"

(***************************************************************************)
(* Once there are no more notices the outbox drains: every delivery is     *)
(* sent, given up or expired, or its device is off.  The cron service      *)
(* retries what a failed push, a dispatcher that died, or one that wrote   *)
(* back what it had read before, has left pending (core/operations.py:44). *)
(***************************************************************************)
OutboxDrains ==
    []<>(\A d \in Deliveries : delivery[d].status = "pending" => d[2] \notin active)

(***************************************************************************)
(* "Stop background tenant alerts once a user explicitly signs out"        *)
(* (commerce/signals.py:9): a device whose user has signed out, or that    *)
(* was handed to another account, is not active.                           *)
(***************************************************************************)
SignedOutStaysOff == active \subseteq wanted
=============================================================================
