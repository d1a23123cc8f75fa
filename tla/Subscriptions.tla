--------------------------- MODULE Subscriptions ---------------------------
(***************************************************************************)
(* The subscription of a business: its free trial, the payments that       *)
(* extend it, lifetime access granted by the founder, and the rows of      *)
(* BusinessModuleAccess that say which modules the business may use.       *)
(*                                                                         *)
(* mark_payment_paid locks the payment and the subscription, so that it is *)
(* one step.  A member who switches the plan of a trial, and the founder   *)
(* who grants or revokes lifetime access, read the subscription in one     *)
(* step and write the whole row in another.  The daily job reads the       *)
(* subscription, writes 'expired' over the one it read, reads it again and *)
(* writes the rows, a step each.                                           *)
(*                                                                         *)
(* Time is counted in steps of `clock', 0 standing for a date that is not  *)
(* set.  Every payment buys Month; prices, promotions, the other services  *)
(* of a subscription and feature depth are left out.                       *)
(***************************************************************************)
EXTENDS Integers, FiniteSets

CONSTANTS
    Payments,   \* payments that may be opened
    Workers,    \* callbacks and webhooks of the payment provider
    Staff,      \* requests that change the subscription's row
    Month,      \* what a trial lasts and a payment buys
    Soon,       \* how long before its end a subscription may be renewed
    MaxTime,    \* bound: the last moment
    None        \* no payment is being checked

ASSUME SubscriptionsAssumption ==
    /\ {Month, Soon, MaxTime} \subseteq Nat \ {0}
    /\ None \notin Payments

Plans == {"starter", "business_pro"}

\* Two modules stand for all: every plan has one, only one plan has the other.
Modules == {"sales", "commerce"}
PlanModules(plan) == IF plan = "starter" THEN {"sales"} ELSE Modules

VARIABLES
    clock,
    sub,        \* the BusinessSubscription
    rows,       \* the modules whose BusinessModuleAccess is not disabled
    pay,        \* pay[p]: a SubscriptionPayment
    asking,     \* requests that have opened p and wait for initialize_gateway
    offered,    \* payments the provider shows to the customer
    charged,    \* payments the customer has made
    checking,   \* checking[w]: the payment a callback or webhook verifies
    editing,    \* editing[s]: the subscription a request has read, to change it
    job,        \* the run of sync_subscriptions
    died,       \* ghost: a run was cut off
    promised,   \* ghost: the end of the time bought since the last grant or gap, 0 if none
    counted,    \* ghost: times p has extended the subscription
    reopened,   \* ghost: payments that were paid when their gateway call failed
    gaps        \* ghost: what has gone wrong since the last payment

due   == <<pay, asking, offered, charged, checking>>
ghost == <<promised, counted, reopened, gaps, died>>
billing == <<clock, sub, rows, due, editing, job, ghost>>

Subscription ==
    [exists : BOOLEAN, plan : Plans, status : {"trial", "active", "expired", "founder"},
     trial : Nat, until : Nat, founder : BOOLEAN, older : SUBSET Payments]

Idle    == [at |-> "idle"]
Edits   == [at : {"switch", "grant", "revoke"}, plan : Plans, row : Subscription]
Reading == [at : {"decide"}, row : Subscription] \cup [at : {"apply"}]
Writing == [at : {"write"}, rows : SUBSET Modules]

BillingTypeOK ==
    /\ clock \in 1 .. MaxTime
    /\ sub \in Subscription
    /\ rows \subseteq Modules
    /\ pay \in [Payments -> [status : {"none", "pending", "paid", "failed"}, plan : Plans]]
    /\ asking \subseteq Payments /\ offered \subseteq Payments /\ charged \subseteq offered
    /\ checking \in [Workers -> Payments \cup {None}]
    /\ editing \in [Staff -> {Idle} \cup Edits]
    /\ job \in {Idle} \cup Reading \cup Writing
    /\ promised \in Nat /\ counted \in [Payments -> Nat] /\ reopened \subseteq Payments
    /\ gaps \subseteq {"stale", "behind", "revoked"} /\ died \in BOOLEAN

NoSubscription ==
    [exists |-> FALSE, plan |-> "starter", status |-> "trial", trial |-> 0, until |-> 0,
     founder |-> FALSE, older |-> {}]

\* What start_trial_for_business inserts.
Trial(plan) ==
    [NoSubscription EXCEPT !.exists = TRUE, !.plan = plan, !.trial = clock + Month]

-----------------------------------------------------------------------------
(* State formulae: the properties of BusinessSubscription and the          *)
(* predicates of the services, for a row r as it was read                  *)

Greatest(a, b) == IF a >= b THEN a ELSE b

ExpiresAt(r) == IF r.status = "trial" THEN r.trial ELSE r.until

\* is_effectively_active
Active(r) ==
    \/ r.founder
    \/ r.status \in {"trial", "active"} /\ ExpiresAt(r) # 0 /\ ExpiresAt(r) >= clock

\* payment_is_locked
Locked(r, plan) ==
    /\ Active(r) /\ r.plan = plan
    /\ r.founder \/ ExpiresAt(r) - clock > Soon

\* What apply_subscription_entitlements writes.
Granted(r) == IF Active(r) THEN PlanModules(r.plan) ELSE {}

\* business_has_module: expiry counts at once, even before the rows follow.
HasModule(m) == (sub.exists => Active(sub)) /\ m \in rows

\* A new business has a trial; one from before subscriptions has no row that
\* disables a module.
BillingInit ==
    /\ clock = 1
    /\ \/ sub = Trial("starter") /\ rows = Granted(sub)
       \/ sub = NoSubscription /\ rows = Modules
    /\ pay = [p \in Payments |-> [status |-> "none", plan |-> "starter"]]
    /\ asking = {} /\ offered = {} /\ charged = {}
    /\ checking = [w \in Workers |-> None]
    /\ editing = [s \in Staff |-> Idle]
    /\ job = Idle
    /\ promised = 0 /\ counted = [p \in Payments |-> 0] /\ reopened = {} /\ gaps = {}
    /\ died = FALSE

-----------------------------------------------------------------------------
(* The customer and the payment provider *)

\* start_trial_for_business, for a business that has no subscription: from its
\* plans page or from the founder's grant.
StartTrial(plan) ==
    /\ ~sub.exists
    /\ sub' = Trial(plan)
    /\ rows' = Granted(sub')
    /\ UNCHANGED <<clock, due, editing, job, ghost>>

\* create_payment_request, then the call of initialize_gateway begins.
OpenPayment(p, plan) ==
    /\ sub.exists /\ ~Locked(sub, plan)
    /\ pay[p].status = "none"
    /\ pay' = [pay EXCEPT ![p] = [status |-> "pending", plan |-> plan]]
    /\ asking' = asking \cup {p}
    /\ UNCHANGED <<clock, sub, rows, offered, charged, checking, editing, job, ghost>>

\* The provider's checkout page, or an error: the request then writes 'failed'
\* over whatever the payment has become.
GatewayAnswers(p) ==
    /\ p \in asking
    /\ asking' = asking \ {p}
    /\ \/ offered' = offered \cup {p} /\ UNCHANGED <<pay, reopened>>
       \/ /\ pay' = [pay EXCEPT ![p].status = "failed"]
          /\ reopened' = IF pay[p].status = "paid" THEN reopened \cup {p} ELSE reopened
          /\ UNCHANGED offered
    /\ UNCHANGED <<clock, sub, rows, charged, checking, editing, job, promised, counted, gaps, died>>

\* The customer pays on the provider's page.
Charge(p) ==
    /\ p \in offered \ charged
    /\ charged' = charged \cup {p}
    /\ UNCHANGED <<clock, sub, rows, pay, asking, offered, checking, editing, job, ghost>>

\* subscription_payment_callback and _webhook find the payment and ask the
\* provider about it.
Check(w, p) ==
    /\ checking[w] = None
    /\ pay[p].status \in {"pending", "failed"}
    /\ checking' = [checking EXCEPT ![w] = p]
    /\ UNCHANGED <<clock, sub, rows, pay, asking, offered, charged, editing, job, ghost>>

\* A mutated form of PaidFrom: a late payment is dated from the end of the last.
PaidFromDates(r) == Greatest(r.until, r.trial)

PaidFrom(r) == Greatest(Greatest(r.until, r.trial), clock)

Renewed(r, p) ==
    [r EXCEPT !.plan = pay[p].plan, !.status = "active", !.founder = FALSE,
              !.until = PaidFrom(r) + Month]

\* A payment from before the founder's grant does not end it.
Outdated(p) == sub.founder /\ p \in sub.older

Settled(p) == pay[p].status = "paid"

\* mark_payment_paid, under the locks of both rows.
MarkPaid(p) ==
    IF Settled(p) THEN UNCHANGED <<sub, rows, pay, ghost>>
    ELSE /\ pay' = [pay EXCEPT ![p].status = "paid"]
         /\ UNCHANGED <<reopened, died>>
         /\ IF Outdated(p) THEN UNCHANGED <<sub, rows, promised, counted, gaps>>
            ELSE /\ sub' = Renewed(sub, p)
                 /\ rows' = Granted(sub')
                 /\ promised' = Greatest(IF gaps = {} THEN promised ELSE 0, clock) + Month
                 /\ counted' = [counted EXCEPT ![p] = @ + 1]
                 /\ gaps' = {}

\* verify_gateway answers; only a payment that was made is marked.
Confirm(w) ==
    /\ checking[w] # None
    /\ checking' = [checking EXCEPT ![w] = None]
    /\ IF checking[w] \in charged THEN MarkPaid(checking[w])
       ELSE UNCHANGED <<sub, rows, pay, ghost>>
    /\ UNCHANGED <<clock, asking, offered, charged, editing, job>>

\* The founder confirms a payment by hand.
FounderConfirms(p) ==
    /\ pay[p].status # "none"
    /\ MarkPaid(p)
    /\ UNCHANGED <<clock, asking, offered, charged, checking, editing, job>>

-----------------------------------------------------------------------------
(* Requests that read the subscription and write the whole row back *)

Read(s, kind, plan) ==
    /\ editing[s] = Idle /\ sub.exists
    /\ CASE kind = "switch" ->
              sub.status = "trial" /\ Active(sub) /\ ~Locked(sub, plan)
         [] kind = "grant"  -> TRUE
         [] kind = "revoke" -> plan = sub.plan
    /\ editing' = [editing EXCEPT ![s] = [at |-> kind, plan |-> plan, row |-> sub]]
    /\ UNCHANGED <<clock, sub, rows, due, job, ghost>>

Opened == {p \in Payments : pay[p].status # "none"}

\* switch_subscription_plan, grant_founder_lifetime, revoke_founder_lifetime.
Changed(e) ==
    CASE e.at = "switch" -> [e.row EXCEPT !.plan = e.plan]
      [] e.at = "grant"  ->
            [e.row EXCEPT !.plan = e.plan, !.status = "founder", !.founder = TRUE,
                          !.older = Opened, !.trial = 0, !.until = 0]
      [] e.at = "revoke" ->
            [e.row EXCEPT !.status = "expired", !.founder = FALSE, !.older = {}]

Save(s) ==
    LET e == editing[s] IN
    /\ e # Idle
    /\ sub' = Changed(e)
    /\ rows' = Granted(sub')
    /\ IF e.at = "grant"
       THEN promised' = 0 /\ gaps' = {}
       ELSE /\ gaps' = gaps \cup (IF sub # e.row THEN {"stale"} ELSE {})
                            \cup (IF e.at = "revoke" /\ ~e.row.founder THEN {"revoked"} ELSE {})
            /\ UNCHANGED promised
    /\ editing' = [editing EXCEPT ![s] = Idle]
    /\ UNCHANGED <<clock, due, job, counted, reopened, died>>

-----------------------------------------------------------------------------
(* The daily job *)

\* The loop's query.
SyncRead ==
    /\ job = Idle /\ sub.exists
    /\ job' = [at |-> "decide", row |-> sub]
    /\ UNCHANGED <<clock, sub, rows, due, editing, ghost>>

\* A mutated form of SyncNext: what is expired already is left alone.
OnlyTheExpired(elapsed) == IF elapsed THEN [at |-> "apply"] ELSE Idle

\* The rows are written for every subscription.
SyncNext(elapsed) == [at |-> "apply"]

\* Decided on the row that was read; only its status is written.
Elapsed(r) == ~r.founder /\ ~Active(r) /\ r.status # "expired"

SyncDecide ==
    /\ job.at = "decide"
    /\ IF Elapsed(job.row)
       THEN /\ sub' = [sub EXCEPT !.status = "expired"]
            /\ gaps' = gaps \cup (IF Active(sub) THEN {"behind"} ELSE {})
       ELSE UNCHANGED <<sub, gaps>>
    /\ job' = SyncNext(Elapsed(job.row))
    /\ UNCHANGED <<clock, rows, due, editing, promised, counted, reopened, died>>

\* apply_subscription_entitlements reads the row again, without a lock ...
SyncApply ==
    /\ job.at = "apply"
    /\ job' = [at |-> "write", rows |-> Granted(sub)]
    /\ UNCHANGED <<clock, sub, rows, due, editing, ghost>>

\* ... and its transaction commits the rows.
SyncWrite ==
    /\ job.at = "write"
    /\ rows' = job.rows
    /\ job' = Idle
    /\ UNCHANGED <<clock, sub, due, editing, ghost>>

Sync == SyncRead \/ SyncDecide \/ SyncApply \/ SyncWrite

\* The run is cut off: the request that carries it dies.  Bound: once.
SyncDies ==
    /\ job # Idle /\ ~died
    /\ job' = Idle
    /\ died' = TRUE
    /\ UNCHANGED <<clock, sub, rows, due, editing, promised, counted, reopened, gaps>>

Tick ==
    /\ clock < MaxTime
    /\ clock' = clock + 1
    /\ UNCHANGED <<sub, rows, due, editing, job, ghost>>

-----------------------------------------------------------------------------

Customer(p) ==
    \/ \E plan \in Plans : OpenPayment(p, plan)
    \/ GatewayAnswers(p) \/ Charge(p) \/ FounderConfirms(p)

Provider(w, p) == Check(w, p) \/ Confirm(w)

Member(s) ==
    \/ \E kind \in {"switch", "grant", "revoke"}, plan \in Plans : Read(s, kind, plan)
    \/ Save(s)

BillingNext ==
    \/ \E plan \in Plans : StartTrial(plan)
    \/ \E p \in Payments : Customer(p) \/ \E w \in Workers : Provider(w, p)
    \/ \E s \in Staff : Member(s)
    \/ Sync \/ SyncDies \/ Tick

\* The job is called every day and its steps are short.
BillingSpec == BillingInit /\ [][BillingNext]_billing /\ WF_billing(Sync)

-----------------------------------------------------------------------------
(* Properties *)

(***************************************************************************)
(* A payment extends a subscription once, unless a failed gateway call     *)
(* wrote 'failed' over its 'paid' (accounts/views.py:329); and whatever    *)
(* other payments, callbacks, confirmations by hand, edits and runs of the *)
(* daily job interleave, every payment since lifetime access was last      *)
(* granted lasts a Month from the day it was made or from the end of the   *)
(* time paid for before, whichever is later (subscription_services.py:385),*)
(* and a subscription with paid time left is not expired.  Excepted are    *)
(* the requests that write back a row they read before, the job among      *)
(* them, and a revocation of what is not lifetime access                   *)
(* (accounts/views.py:575).                                                *)
(***************************************************************************)
PaidTimeIsKept ==
    /\ \A p \in Payments : counted[p] > 1 => p \in reopened
    /\ gaps = {} /\ ~sub.founder =>
          /\ sub.until >= promised
          /\ promised > 0 /\ sub.until >= clock => Active(sub)

(***************************************************************************)
(* Whatever a run of the job has left behind, the rows that say what the   *)
(* business may use follow its subscription again and again: the job       *)
(* applies every subscription, not only those it expires                   *)
(* (sync_subscriptions.py:16).                                             *)
(***************************************************************************)
EntitlementsCatchUp == []<>(sub.exists => rows = Granted(sub))
=============================================================================
