------------------------- MODULE ScheduledJobs_proofs -------------------------
(***************************************************************************)
(* Theorems about ScheduledJobs, for any payments, members, dispatchers,   *)
(* notices and devices and any length of a month: the time a business paid *)
(* for is kept, a notice that is processed reached its devices, and every  *)
(* push beyond the first is accounted for by an overlap or a crash.        *)
(***************************************************************************)
EXTENDS ScheduledJobs, FiniteSetTheorems, TLAPS

-----------------------------------------------------------------------------
(* The subscription *)

BillingTyped ==
    /\ clock \in Nat
    /\ sub \in Subscription
    /\ pay \in [Payments -> [status : {"none", "pending", "paid", "failed"}, plan : Plans]]
    /\ asking \subseteq Payments /\ offered \subseteq Payments /\ charged \subseteq offered
    /\ editing \in [Staff -> {Idle} \cup Edits]
    /\ promised \in Nat /\ counted \in [Payments -> Nat]

\* Nothing is paid for, and no one edits, before there is a subscription.
NothingBefore ==
    ~sub.exists =>
        /\ promised = 0 /\ asking = {} /\ offered = {}
        /\ \A p \in Payments : pay[p].status = "none"
        /\ \A s \in Staff : editing[s] = Idle

EditsOfARow == \A s \in Staff : editing[s] # Idle => editing[s].row.exists

\* A payment that has extended the subscription is paid, unless it was reopened.
CountedOnce ==
    \A p \in Payments :
        /\ counted[p] > 0 => pay[p].status = "paid" \/ p \in reopened
        /\ counted[p] > 1 => p \in reopened

\* The subscription lasts as long as was paid for, nothing was since lifetime
\* access was granted, and only time that is over makes it expire.
TimeIsAhead ==
    gaps = {} =>
        IF sub.founder THEN promised = 0
        ELSE /\ sub.until >= promised
             /\ promised > 0 => \/ sub.status = "active"
                                \/ sub.status = "expired" /\ sub.until < clock

BillingInv == BillingTyped /\ NothingBefore /\ EditsOfARow /\ CountedOnce /\ TimeIsAhead

LEMMA MonthIsPositive == Month \in Nat \ {0} /\ Soon \in Nat \ {0} /\ MaxTime \in Nat \ {0}
BY SubscriptionsAssumption

LEMMA NoRow == NoSubscription \in Subscription
BY DEF NoSubscription, Subscription, Plans

LEMMA TrialIsARow ==
    ASSUME NEW plan \in Plans, clock \in Nat
    PROVE  /\ Trial(plan) \in Subscription
           /\ Trial(plan).exists /\ ~Trial(plan).founder /\ Trial(plan).until = 0
<1>1. NoSubscription \in Subscription
  BY NoRow
<1>2. clock + Month \in Nat
  BY MonthIsPositive
<1>3. Trial(plan) \in Subscription
  BY <1>1, <1>2 DEF Trial, Subscription
<1> QED
  BY <1>3, NoRow DEF Trial, NoSubscription

LEMMA BillingStarts == BillingInit => BillingInv
<1> SUFFICES ASSUME BillingInit PROVE BillingInv
  OBVIOUS
<1>1. clock = 1 /\ "starter" \in Plans
  BY DEF BillingInit, Plans
<1>2. sub \in Subscription /\ ~sub.founder /\ sub.until = 0
  <2>1. CASE sub = Trial("starter")
    BY <1>1, <2>1, TrialIsARow
  <2>2. CASE sub = NoSubscription
    BY <2>2, NoRow DEF NoSubscription
  <2> QED
    BY <2>1, <2>2 DEF BillingInit
<1>3. BillingTyped
  BY <1>1, <1>2 DEF BillingInit, BillingTyped
<1>4. TimeIsAhead
  BY <1>2 DEF BillingInit, TimeIsAhead
<1> QED
  BY <1>3, <1>4 DEF BillingInit, BillingInv, NothingBefore, EditsOfARow, CountedOnce

LEMMA BillingStutter ==
    ASSUME BillingInv, UNCHANGED billing
    PROVE  BillingInv'
BY DEF BillingInv, billing, due, ghost, BillingTyped, NothingBefore, EditsOfARow, CountedOnce,
       TimeIsAhead

LEMMA RenewedIsARow ==
    ASSUME BillingTyped, NEW p \in Payments
    PROVE  /\ PaidFrom(sub) \in Nat
           /\ PaidFrom(sub) >= sub.until /\ PaidFrom(sub) >= clock
           /\ Renewed(sub, p) \in Subscription
           /\ Renewed(sub, p).exists = sub.exists
           /\ Renewed(sub, p).status = "active" /\ ~Renewed(sub, p).founder
           /\ Renewed(sub, p).until = PaidFrom(sub) + Month
<1>1. sub.until \in Nat /\ sub.trial \in Nat /\ clock \in Nat /\ pay[p].plan \in Plans
  BY DEF BillingTyped, Subscription
<1>2. PaidFrom(sub) \in Nat /\ PaidFrom(sub) >= sub.until /\ PaidFrom(sub) >= clock
  BY <1>1 DEF PaidFrom, Greatest
<1>3. PaidFrom(sub) + Month \in Nat
  BY <1>2, MonthIsPositive
<1>4. Renewed(sub, p) \in Subscription
  BY <1>1, <1>3 DEF Renewed, BillingTyped, Subscription
<1>5. Renewed(sub, p).exists = sub.exists
  BY DEF Renewed, BillingTyped, Subscription
<1>6. Renewed(sub, p).status = "active" /\ Renewed(sub, p).founder = FALSE
  BY DEF Renewed, BillingTyped, Subscription
<1>7. Renewed(sub, p).until = PaidFrom(sub) + Month
  BY DEF Renewed, BillingTyped, Subscription
<1> QED
  BY <1>2, <1>4, <1>5, <1>6, <1>7

\* A payment is marked under the locks of its row and the subscription's.
LEMMA MarkPaidKeepsTime ==
    ASSUME BillingInv, NEW p \in Payments, sub.exists, MarkPaid(p),
           UNCHANGED <<clock, asking, offered, charged, editing>>
    PROVE  BillingInv'
<1>1. CASE Settled(p)
  BY <1>1, BillingStutter
     DEF MarkPaid, ghost, BillingInv, BillingTyped, NothingBefore, EditsOfARow, CountedOnce,
         TimeIsAhead
<1>2. CASE ~Settled(p) /\ Outdated(p)
  <2>1. /\ pay' = [pay EXCEPT ![p].status = "paid"]
        /\ UNCHANGED <<sub, promised, counted, gaps, reopened>>
    BY <1>2 DEF MarkPaid
  <2>2. BillingTyped'
    BY <2>1 DEF BillingInv, BillingTyped
  <2>3. CountedOnce'
    BY <2>1 DEF BillingInv, BillingTyped, CountedOnce
  <2> QED
    BY <2>1, <2>2, <2>3 DEF BillingInv, NothingBefore, EditsOfARow, TimeIsAhead
<1>3. CASE ~Settled(p) /\ ~Outdated(p)
  <2>1. /\ pay' = [pay EXCEPT ![p].status = "paid"]
        /\ sub' = Renewed(sub, p)
        /\ promised' = Greatest(IF gaps = {} THEN promised ELSE 0, clock) + Month
        /\ counted' = [counted EXCEPT ![p] = @ + 1]
        /\ gaps' = {} /\ reopened' = reopened
    BY <1>3 DEF MarkPaid
  <2>2. BillingTyped'
    <3>1. sub' \in Subscription
      BY <2>1, RenewedIsARow DEF BillingInv
    <3>2. promised' \in Nat /\ counted' \in [Payments -> Nat]
      BY <2>1, MonthIsPositive DEF Greatest, BillingInv, BillingTyped
    <3>3. pay' \in [Payments -> [status : {"none", "pending", "paid", "failed"}, plan : Plans]]
      BY <2>1 DEF BillingInv, BillingTyped
    <3> QED
      BY <3>1, <3>2, <3>3 DEF BillingInv, BillingTyped
  <2>3. CountedOnce'
    <3> SUFFICES ASSUME NEW q \in Payments
                 PROVE  /\ counted'[q] > 0 => pay'[q].status = "paid" \/ q \in reopened'
                        /\ counted'[q] > 1 => q \in reopened'
      BY DEF CountedOnce
    <3>1. CASE q # p
      BY <2>1, <3>1 DEF BillingInv, BillingTyped, CountedOnce
    <3>2. CASE q = p
      <4>1. counted[p] \in Nat /\ counted'[p] = counted[p] + 1 /\ pay'[p].status = "paid"
        BY <2>1 DEF BillingInv, BillingTyped
      <4>2. counted[p] > 0 => p \in reopened
        BY <1>3 DEF Settled, BillingInv, CountedOnce
      <4> QED
        BY <2>1, <3>2, <4>1, <4>2
    <3> QED
      BY <3>1, <3>2
  <2>4. TimeIsAhead'
    <3>1. sub'.status = "active" /\ ~sub'.founder /\ sub'.until = PaidFrom(sub) + Month
      BY <2>1, RenewedIsARow DEF BillingInv
    <3>2. /\ sub.until \in Nat /\ promised \in Nat /\ clock \in Nat /\ PaidFrom(sub) \in Nat
          /\ PaidFrom(sub) >= sub.until /\ PaidFrom(sub) >= clock
      BY RenewedIsARow DEF BillingInv, BillingTyped, Subscription
    <3>3. gaps = {} => sub.until >= promised
      BY <1>3, <3>2 DEF BillingInv, TimeIsAhead
    <3>4. sub'.until >= promised'
      BY <2>1, <3>1, <3>2, <3>3, MonthIsPositive DEF Greatest
    <3> QED
      BY <3>1, <3>4 DEF TimeIsAhead
  <2>5. sub'.exists
    BY <2>1, RenewedIsARow DEF BillingInv
  <2> QED
    BY <2>2, <2>3, <2>4, <2>5 DEF BillingInv, NothingBefore, EditsOfARow
<1> QED
  BY <1>1, <1>2, <1>3

\* The payment that is marked exists, and so does the subscription.
LEMMA PaymentHasSubscription ==
    ASSUME BillingInv, NEW p \in Payments, pay[p].status # "none" \/ p \in charged
    PROVE  sub.exists
BY DEF BillingInv, BillingTyped, NothingBefore

LEMMA CustomerKeepsTime ==
    ASSUME BillingInv, NEW p \in Payments, Customer(p)
    PROVE  BillingInv'
<1>1. ASSUME NEW plan \in Plans, OpenPayment(p, plan)
      PROVE  BillingInv'
  <2>1. /\ sub.exists /\ pay[p].status = "none"
        /\ pay' = [pay EXCEPT ![p] = [status |-> "pending", plan |-> plan]]
        /\ asking' = asking \cup {p}
        /\ UNCHANGED <<clock, sub, offered, charged, editing, promised, counted, reopened, gaps>>
    BY <1>1 DEF OpenPayment, ghost
  <2>2. BillingTyped'
    BY <2>1 DEF BillingInv, BillingTyped
  <2>3. CountedOnce'
    BY <2>1 DEF BillingInv, BillingTyped, CountedOnce
  <2> QED
    BY <2>1, <2>2, <2>3 DEF BillingInv, NothingBefore, EditsOfARow, TimeIsAhead
<1>2. CASE GatewayAnswers(p)
  <2>1. /\ asking # {} /\ sub.exists
        /\ asking' = asking \ {p}
        /\ offered' = offered \/ offered' = offered \cup {p}
        /\ \/ pay' = pay /\ reopened' = reopened
           \/ /\ pay' = [pay EXCEPT ![p].status = "failed"]
              /\ reopened' = IF pay[p].status = "paid" THEN reopened \cup {p} ELSE reopened
        /\ UNCHANGED <<clock, sub, charged, editing, promised, counted, gaps>>
    BY <1>2 DEF GatewayAnswers, BillingInv, NothingBefore
  <2>2. BillingTyped'
    BY <2>1 DEF BillingInv, BillingTyped
  <2>3. CountedOnce'
    BY <2>1 DEF BillingInv, BillingTyped, CountedOnce
  <2> QED
    BY <2>1, <2>2, <2>3 DEF BillingInv, NothingBefore, EditsOfARow, TimeIsAhead
<1>3. CASE Charge(p)
  <2>1. /\ p \in offered
        /\ charged' = charged \cup {p}
        /\ UNCHANGED <<clock, sub, pay, asking, offered, editing, promised, counted, reopened, gaps>>
    BY <1>3 DEF Charge, ghost
  <2> QED
    BY <2>1 DEF BillingInv, BillingTyped, NothingBefore, EditsOfARow, CountedOnce, TimeIsAhead
<1>4. CASE FounderConfirms(p)
  BY <1>4, PaymentHasSubscription, MarkPaidKeepsTime DEF FounderConfirms
<1> QED
  BY <1>1, <1>2, <1>3, <1>4 DEF Customer

LEMMA ProviderKeepsTime ==
    ASSUME BillingInv, NEW w \in Workers, NEW p \in Payments, Provider(w, p)
    PROVE  BillingInv'
<1>1. CASE Check(w, p)
  BY <1>1, BillingStutter
     DEF Check, ghost, BillingInv, BillingTyped, NothingBefore, EditsOfARow, CountedOnce,
         TimeIsAhead
<1>2. CASE Confirm(w)
  <2>1. CASE checking[w] \in charged
    <3>1. PICK q \in Payments : q = checking[w]
      BY <2>1 DEF BillingInv, BillingTyped
    <3>2. MarkPaid(q) /\ UNCHANGED <<clock, asking, offered, charged, editing>>
      BY <1>2, <2>1, <3>1 DEF Confirm
    <3> QED
      BY <2>1, <3>1, <3>2, PaymentHasSubscription, MarkPaidKeepsTime
  <2>2. CASE checking[w] \notin charged
    BY <1>2, <2>2
       DEF Confirm, ghost, BillingInv, BillingTyped, NothingBefore, EditsOfARow, CountedOnce,
           TimeIsAhead
  <2> QED
    BY <2>1, <2>2
<1> QED
  BY <1>1, <1>2 DEF Provider

\* The row that is written is the row that was read, but for what the request
\* is about.
LEMMA ChangedIsARow ==
    ASSUME NEW e \in Edits
    PROVE  /\ Changed(e) \in Subscription /\ Changed(e).exists = e.row.exists
           /\ e.at = "switch" => /\ Changed(e).until = e.row.until
                                 /\ Changed(e).status = e.row.status
                                 /\ Changed(e).founder = e.row.founder
           /\ e.at = "grant"  => Changed(e).founder = TRUE
           /\ e.at = "revoke" => /\ Changed(e).until = e.row.until
                                 /\ Changed(e).founder = FALSE
<1>1. /\ e.row \in Subscription /\ e.plan \in Plans /\ e.at \in {"switch", "grant", "revoke"}
      /\ Opened \subseteq Payments
  BY DEF Edits, Opened
<1>2. CASE e.at = "switch"
  BY <1>1, <1>2 DEF Changed, Subscription
<1>3. CASE e.at = "grant"
  BY <1>1, <1>3 DEF Changed, Subscription
<1>4. CASE e.at = "revoke"
  BY <1>1, <1>4 DEF Changed, Subscription
<1> QED
  BY <1>1, <1>2, <1>3, <1>4

LEMMA MemberKeepsTime ==
    ASSUME BillingInv, NEW s \in Staff, Member(s)
    PROVE  BillingInv'
<1>1. ASSUME NEW kind \in {"switch", "grant", "revoke"}, NEW plan \in Plans, Read(s, kind, plan)
      PROVE  BillingInv'
  <2> DEFINE e == [at |-> kind, plan |-> plan, row |-> sub]
  <2>1. /\ sub.exists
        /\ editing' = [editing EXCEPT ![s] = e]
        /\ UNCHANGED <<clock, sub, pay, asking, offered, charged, promised, counted, reopened, gaps>>
    BY <1>1 DEF Read, due, ghost
  <2>2. e \in Edits /\ e.row.exists
    BY <2>1 DEF Edits, BillingInv, BillingTyped
  <2> HIDE DEF e
  <2>3. editing' \in [Staff -> {Idle} \cup Edits]
    BY <2>1, <2>2 DEF BillingInv, BillingTyped
  <2>4. EditsOfARow'
    BY <2>1, <2>2 DEF BillingInv, BillingTyped, EditsOfARow
  <2> QED
    BY <2>1, <2>3, <2>4 DEF BillingInv, BillingTyped, NothingBefore, CountedOnce, TimeIsAhead
<1>2. CASE Save(s)
  <2>1. PICK e \in Edits : e = editing[s] /\ e.row.exists
    BY <1>2 DEF Save, BillingInv, BillingTyped, EditsOfARow
  <2>2. /\ sub' = Changed(e)
        /\ editing' = [editing EXCEPT ![s] = Idle]
        /\ IF e.at = "grant" THEN promised' = 0 /\ gaps' = {}
           ELSE /\ gaps' = {} => gaps = {} /\ sub = e.row /\ (e.at = "revoke" => e.row.founder)
                /\ promised' = promised
        /\ UNCHANGED <<clock, pay, asking, offered, charged, counted, reopened>>
    BY <1>2, <2>1 DEF Save, due
  <2>3. sub' \in Subscription /\ sub'.exists
    BY <2>1, <2>2, ChangedIsARow
  <2>4. BillingTyped'
    BY <2>2, <2>3 DEF BillingInv, BillingTyped
  <2>5. EditsOfARow'
    BY <2>2 DEF BillingInv, BillingTyped, EditsOfARow
  <2>6. TimeIsAhead'
    <3> SUFFICES ASSUME gaps' = {}
                 PROVE  IF sub'.founder THEN promised' = 0
                        ELSE /\ sub'.until >= promised'
                             /\ promised' > 0 => \/ sub'.status = "active"
                                                 \/ sub'.status = "expired" /\ sub'.until < clock'
      BY DEF TimeIsAhead
    <3>1. CASE e.at = "grant"
      BY <2>2, <3>1, ChangedIsARow
    <3>2. CASE e.at = "switch"
      BY <2>2, <3>2, ChangedIsARow DEF BillingInv, TimeIsAhead
    <3>3. CASE e.at = "revoke"
      <4>1. sub = e.row /\ sub.founder /\ promised = 0 /\ promised' = 0
        BY <2>2, <3>3 DEF BillingInv, TimeIsAhead
      <4>2. sub'.until = sub.until /\ sub.until \in Nat /\ ~sub'.founder
        BY <2>2, <3>3, <4>1, ChangedIsARow DEF BillingInv, BillingTyped, Subscription
      <4> QED
        BY <4>1, <4>2
    <3> QED
      BY <3>1, <3>2, <3>3 DEF Edits
  <2> QED
    BY <2>2, <2>3, <2>4, <2>5, <2>6 DEF BillingInv, NothingBefore, CountedOnce
<1> QED
  BY <1>1, <1>2 DEF Member

\* The daily job expires what it read as elapsed; a subscription with paid time
\* left that it expires had been renewed in between.
LEMMA SyncKeepsTime ==
    ASSUME BillingInv, Sync \/ SyncDies
    PROVE  BillingInv'
<1>1. CASE SyncDecide /\ Elapsed(job.row)
  <2>1. /\ sub' = [sub EXCEPT !.status = "expired"]
        /\ gaps' = {} => gaps = {} /\ ~Active(sub)
        /\ UNCHANGED <<clock, pay, asking, offered, charged, editing, promised, counted, reopened>>
    BY <1>1 DEF SyncDecide, due
  <2>2. /\ sub' \in Subscription /\ sub'.exists = sub.exists /\ sub'.founder = sub.founder
        /\ sub'.until = sub.until /\ sub'.status = "expired"
    BY <2>1 DEF BillingInv, BillingTyped, Subscription
  <2>3. ASSUME gaps' = {}, ~sub.founder, promised > 0
        PROVE  sub.until < clock
    <3>1. /\ sub.until >= promised /\ sub.until \in Nat /\ clock \in Nat /\ promised \in Nat
      BY <2>1, <2>3 DEF BillingInv, BillingTyped, Subscription, TimeIsAhead
    <3>2. sub.status = "active" => ~(sub.until # 0 /\ sub.until >= clock)
      BY <2>1, <2>3 DEF Active, ExpiresAt
    <3>3. \/ sub.status = "active"
          \/ sub.status = "expired" /\ sub.until < clock
      BY <2>1, <2>3 DEF BillingInv, TimeIsAhead
    <3>4. sub.until # 0
      BY <2>3, <3>1
    <3> QED
      BY <3>1, <3>2, <3>3, <3>4
  <2>4. TimeIsAhead'
    BY <2>1, <2>2, <2>3 DEF BillingInv, TimeIsAhead
  <2> QED
    BY <2>1, <2>2, <2>4 DEF BillingInv, BillingTyped, NothingBefore, EditsOfARow, CountedOnce
<1>2. CASE ~(SyncDecide /\ Elapsed(job.row))
  <2>1. UNCHANGED <<clock, sub, pay, asking, offered, charged, editing, promised, counted, reopened,
                    gaps>>
    BY <1>2 DEF Sync, SyncRead, SyncDecide, SyncApply, SyncWrite, SyncDies, due, ghost
  <2> QED
    BY <2>1 DEF BillingInv, BillingTyped, NothingBefore, EditsOfARow, CountedOnce, TimeIsAhead
<1> QED
  BY <1>1, <1>2

LEMMA TrialAndClockKeepTime ==
    ASSUME BillingInv, Tick \/ \E plan \in Plans : StartTrial(plan)
    PROVE  BillingInv'
<1>1. CASE Tick
  <2>1. /\ clock' = clock + 1
        /\ UNCHANGED <<sub, pay, asking, offered, charged, editing, promised, counted, reopened, gaps>>
    BY <1>1 DEF Tick, due, ghost
  <2>2. TimeIsAhead'
    BY <2>1 DEF BillingInv, BillingTyped, Subscription, TimeIsAhead
  <2> QED
    BY <2>1, <2>2 DEF BillingInv, BillingTyped, NothingBefore, EditsOfARow, CountedOnce
<1>2. ASSUME NEW plan \in Plans, StartTrial(plan)
      PROVE  BillingInv'
  <2>1. /\ ~sub.exists /\ sub' = Trial(plan)
        /\ UNCHANGED <<clock, pay, asking, offered, charged, editing, promised, counted, reopened,
                       gaps>>
    BY <1>2 DEF StartTrial, due, ghost
  <2>2. sub' \in Subscription /\ sub'.exists /\ ~sub'.founder /\ sub'.until = 0
    BY <2>1, TrialIsARow DEF BillingInv, BillingTyped
  <2>3. TimeIsAhead'
    BY <2>1, <2>2 DEF BillingInv, NothingBefore, TimeIsAhead
  <2> QED
    BY <2>1, <2>2, <2>3 DEF BillingInv, BillingTyped, NothingBefore, EditsOfARow, CountedOnce
<1> QED
  BY <1>1, <1>2

\* Payments, workers and members that take part are some of those there are.
SceneInv == scene \in Scenes

LEMMA SceneKept == SceneInv /\ [Next]_vars => SceneInv'
BY DEF SceneInv, Next, Billing, Alerts, vars

LEMMA BillingKept == SceneInv /\ BillingInv /\ [Next]_vars => BillingInv'
<1> SUFFICES ASSUME SceneInv, BillingInv, [Next]_vars
             PROVE  BillingInv'
  OBVIOUS
<1>1. scene.payments \subseteq Payments /\ scene.workers \subseteq Workers /\ scene.staff \subseteq Staff
  BY JobsAssumption DEF SceneInv
<1>2. CASE Billing
  BY <1>1, <1>2, CustomerKeepsTime, ProviderKeepsTime, MemberKeepsTime, SyncKeepsTime,
     TrialAndClockKeepTime DEF Billing
<1>3. CASE Alerts \/ UNCHANGED vars
  BY <1>3, BillingStutter DEF Alerts, vars
<1> QED
  BY <1>2, <1>3 DEF Next

(***************************************************************************)
(* However payments, callbacks, confirmations by hand, edits and the daily *)
(* job interleave, a payment extends the subscription once unless its      *)
(* record was reopened, and it lasts a Month from the day it was made or   *)
(* from the end of what was paid for before, and the time can be used,     *)
(* except after the writes of rows that were read before.                  *)
(***************************************************************************)
THEOREM PaidTimeTheorem == Spec => []PaidTimeIsKept
<1>1. BillingInv => PaidTimeIsKept
  <2> SUFFICES ASSUME BillingInv PROVE PaidTimeIsKept
    OBVIOUS
  <2>1. ASSUME gaps = {}, ~sub.founder
        PROVE  /\ sub.until >= promised
               /\ promised > 0 /\ sub.until >= clock => Active(sub)
    <3>1. /\ promised \in Nat /\ sub.until \in Nat /\ clock \in Nat
          /\ sub.until >= promised
      BY <2>1 DEF BillingInv, BillingTyped, Subscription, TimeIsAhead
    <3>2. promised > 0 /\ sub.until >= clock => sub.status = "active" /\ sub.until # 0
      BY <2>1, <3>1 DEF BillingInv, TimeIsAhead
    <3> QED
      BY <3>1, <3>2 DEF Active, ExpiresAt
  <2> QED
    BY <2>1 DEF BillingInv, CountedOnce, PaidTimeIsKept
<1>2. Init => SceneInv /\ BillingInv
  BY BillingStarts DEF Init, SceneInv
<1> QED
  BY <1>1, <1>2, SceneKept, BillingKept, PTL DEF Spec

-----------------------------------------------------------------------------
(* What dispatchers hold *)

\* What the object r of a dispatcher says of the deliveries it has read: they
\* exist, those not sent yet are pending, and a pending one has attempts left.
Holding(r) ==
    /\ r.left \subseteq r.batch
    /\ r.batch # {} => r.at = "sending"
    /\ \A d \in r.batch :
          /\ delivery[d].status # "none" /\ r.copy[d].status # "none"
          /\ r.copy[d].status = "pending" => r.copy[d].attempts < Attempts
    /\ \A d \in r.left : r.copy[d].status = "pending"

DeliveriesTyped ==
    /\ delivery \in [Outbox!Deliveries -> Outbox!Delivery]
    /\ \A d \in Outbox!Deliveries :
          /\ delivery[d].status = "none" => delivery[d].attempts = 0
          /\ delivery[d].status = "pending" => delivery[d].attempts < Attempts

WorkInv ==
    /\ DeliveriesTyped
    /\ work \in [Dispatchers -> Outbox!Work]
    /\ \A w \in Dispatchers : Holding(work[w])

LEMMA AttemptsArePositive == Attempts \in Nat /\ Attempts > 0
BY JobsAssumption

LEMMA NothingIsHeld == Outbox!Idle \in Outbox!Work /\ Holding(Outbox!Idle)
BY AttemptsArePositive
   DEF Outbox!Idle, Outbox!Work, Outbox!Delivery, Outbox!Statuses, Holding

\* A delivery that exists is never taken back.
DeliveriesStay ==
    \A d \in Outbox!Deliveries : delivery[d].status # "none" => delivery'[d].status # "none"

LEMMA WorkWritten ==
    ASSUME WorkInv, DeliveriesTyped', DeliveriesStay,
           NEW w \in Dispatchers, NEW r \in Outbox!Work, work' = [work EXCEPT ![w] = r],
           Holding(r)'
    PROVE  WorkInv'
<1>1. work' \in [Dispatchers -> Outbox!Work]
  BY DEF WorkInv
<1>2. ASSUME NEW v \in Dispatchers
      PROVE  Holding(work[v])'
  <2>1. CASE v = w
    <3>1. work'[v] = r
      BY <2>1 DEF WorkInv
    <3> QED
      BY <3>1 DEF Holding
  <2>2. CASE v # w
    <3>1. work'[v] = work[v] /\ Holding(work[v]) /\ work[v].batch \subseteq Outbox!Deliveries
      BY <2>2 DEF WorkInv, Outbox!Work
    <3> QED
      BY <3>1 DEF Holding, DeliveriesStay
  <2> QED
    BY <2>1, <2>2
<1> QED
  BY <1>1, <1>2 DEF WorkInv

LEMMA WorkUntouched ==
    ASSUME WorkInv, UNCHANGED <<delivery, work>>
    PROVE  WorkInv'
BY DEF WorkInv, DeliveriesTyped, Holding

LEMMA BackoffKeepsWork ==
    ASSUME WorkInv, NEW d \in Outbox!Deliveries, Outbox!Backoff(d)
    PROVE  WorkInv'
<1>1. delivery' = [delivery EXCEPT ![d].due = TRUE] /\ work' = work
  BY DEF Outbox!Backoff
<1>2. DeliveriesTyped'
  BY <1>1 DEF WorkInv, DeliveriesTyped, Outbox!Delivery
<1>3. \A e \in Outbox!Deliveries : delivery'[e].status = delivery[e].status
  BY <1>1 DEF WorkInv, DeliveriesTyped, Outbox!Delivery
<1>4. ASSUME NEW w \in Dispatchers
      PROVE  Holding(work[w])'
  <2>1. work'[w] = work[w] /\ Holding(work[w]) /\ work[w].batch \subseteq Outbox!Deliveries
    BY <1>1 DEF WorkInv, Outbox!Work
  <2> QED
    BY <1>3, <2>1 DEF Holding
<1> QED
  BY <1>1, <1>2, <1>4 DEF WorkInv

\* A dispatcher that has nothing to send.
LEMMA WorkEmptied ==
    ASSUME WorkInv, DeliveriesTyped', DeliveriesStay,
           NEW w \in Dispatchers, NEW r \in Outbox!Work, work' = [work EXCEPT ![w] = r],
           r.batch = {}, r.left = {}
    PROVE  WorkInv'
<1>1. Holding(r)'
  BY DEF Holding
<1> QED
  BY <1>1, WorkWritten

DevicesInv == active \subseteq Outbox!Devices

\* The devices that wanted alerts when a notice was read.
LEMMA ReadNoticesKeepsWork ==
    ASSUME WorkInv, DevicesInv, NEW w \in Dispatchers, Outbox!ReadNotices(w)
    PROVE  WorkInv'
<1> DEFINE recent == {n \in Notices : notice[n] = "recent"}
           found  == IF HasModule("commerce") THEN recent \X active ELSE {}
           at     == IF recent = {} THEN "queued" ELSE "listed"
           r      == [Outbox!Idle EXCEPT !.at = at, !.notices = recent, !.rows = found]
<1>1. work' = [work EXCEPT ![w] = r] /\ delivery' = delivery
  BY DEF Outbox!ReadNotices
<1>2. recent \subseteq Notices /\ found \subseteq Outbox!Deliveries /\ at \in {"queued", "listed"}
  BY DEF DevicesInv, Outbox!Deliveries
<1> HIDE DEF recent, found, at
<1>3. r \in Outbox!Work /\ r.batch = {} /\ r.left = {}
  BY <1>2, NothingIsHeld DEF Outbox!Idle, Outbox!Work
<1> HIDE DEF r
<1>4. DeliveriesTyped' /\ DeliveriesStay
  BY <1>1 DEF WorkInv, DeliveriesTyped, DeliveriesStay
<1> QED
  BY <1>1, <1>3, <1>4, WorkEmptied

\* A dispatcher that enqueues, has saved what it sent, or dies, has nothing to
\* send; what it saves are the objects it holds.
LEMMA DoneKeepsWork ==
    ASSUME WorkInv, NEW w \in Dispatchers,
           Outbox!MarkProcessed(w) \/ Outbox!SaveDevices(w) \/ Outbox!Crash(w)
    PROVE  WorkInv'
<1>1. PICK r : /\ r \in {Outbox!Idle, [Outbox!Idle EXCEPT !.at = "queued"]}
               /\ work' = [work EXCEPT ![w] = r] /\ delivery' = delivery
  BY DEF Outbox!MarkProcessed, Outbox!SaveDevices, Outbox!Crash
<1>2. r \in Outbox!Work /\ r.batch = {} /\ r.left = {}
  <2>1. Outbox!Idle.batch = {} /\ Outbox!Idle.left = {}
    BY DEF Outbox!Idle
  <2> QED
    BY <1>1, <2>1, NothingIsHeld DEF Outbox!Work
<1>3. DeliveriesTyped' /\ DeliveriesStay
  BY <1>1 DEF WorkInv, DeliveriesTyped, DeliveriesStay
<1> QED
  BY <1>1, <1>2, <1>3, WorkEmptied

LEMMA CreateKeepsWork ==
    ASSUME WorkInv, NEW w \in Dispatchers, Outbox!CreateDeliveries(w)
    PROVE  WorkInv' /\ DeliveriesStay
<1> DEFINE r == [work[w] EXCEPT !.at = "created"]
<1>1. /\ work[w].at = "listed" /\ work[w] \in Outbox!Work /\ Holding(work[w])
      /\ work' = [work EXCEPT ![w] = r]
      /\ delivery' = [d \in Outbox!Deliveries |->
             IF d \in work[w].rows /\ delivery[d].status = "none"
             THEN [status |-> "pending", attempts |-> 0, due |-> TRUE] ELSE delivery[d]]
  BY DEF Outbox!CreateDeliveries, WorkInv
<1>2. r \in Outbox!Work /\ r.batch = {} /\ r.left = {}
  BY <1>1 DEF Outbox!Work, Holding
<1> HIDE DEF r
<1>3. DeliveriesTyped'
  BY <1>1, AttemptsArePositive DEF WorkInv, DeliveriesTyped, Outbox!Delivery, Outbox!Statuses
<1>4. DeliveriesStay
  BY <1>1 DEF DeliveriesStay
<1> QED
  BY <1>1, <1>2, <1>3, <1>4, WorkEmptied

\* The objects of a batch are the rows as they were read.
ReadObject(w, batch) ==
    [Outbox!Idle EXCEPT !.at = "sending", !.batch = batch, !.left = batch,
                        !.copy = [d \in Outbox!Deliveries |->
                                     IF d \in batch THEN delivery[d] ELSE Outbox!Idle.copy[d]]]

LEMMA ReadBatchKeepsWork ==
    ASSUME WorkInv, NEW w \in Dispatchers, Outbox!ReadBatch(w)
    PROVE  WorkInv'
<1> DEFINE batch == {d \in Outbox!Deliveries : Outbox!Ready(d)}
           r == IF batch = {} THEN Outbox!Idle ELSE ReadObject(w, batch)
<1>1. work' = [work EXCEPT ![w] = r] /\ delivery' = delivery
  BY DEF Outbox!ReadBatch, ReadObject
<1>2. DeliveriesTyped' /\ DeliveriesStay
  BY <1>1 DEF WorkInv, DeliveriesTyped, DeliveriesStay
<1>3. /\ batch \subseteq Outbox!Deliveries
      /\ \A d \in batch : delivery[d].status = "pending" /\ delivery[d].attempts < Attempts
  BY DEF Outbox!Ready, WorkInv, DeliveriesTyped
<1> HIDE DEF batch
<1>4. r \in Outbox!Work
  BY <1>3, NothingIsHeld DEF ReadObject, Outbox!Idle, Outbox!Work, WorkInv, DeliveriesTyped
<1>5. Holding(r)
  <2>1. CASE batch = {}
    BY <2>1, NothingIsHeld
  <2>2. CASE batch # {}
    <3>1. /\ r.batch = batch /\ r.left = batch /\ r.at = "sending"
          /\ \A d \in batch : r.copy[d] = delivery[d]
      BY <1>3, <2>2 DEF ReadObject, Outbox!Idle
    <3> QED
      BY <1>3, <3>1 DEF Holding
  <2> QED
    BY <2>1, <2>2
<1>6. PICK s \in Outbox!Work : s = r
  BY <1>4
<1>7. Holding(s)'
  BY <1>1, <1>5, <1>6 DEF Holding
<1> QED
  BY <1>1, <1>2, <1>6, <1>7, WorkWritten

\* What an attempt makes of a pending object: one attempt more, and pending only
\* while there are attempts left and the service did not take it.
LEMMA OutcomeOfAttempt ==
    ASSUME NEW answer \in Outbox!Answers, NEW n \in Nat, n < Attempts
    PROVE  /\ Outbox!Outcome(answer, n + 1) \in Outbox!Delivery
           /\ Outbox!Outcome(answer, n + 1).attempts = n + 1
           /\ Outbox!Outcome(answer, n + 1).status # "none"
           /\ Outbox!Outcome(answer, n + 1).status = "pending" => n + 1 < Attempts /\ answer # "ok"
<1>1. n + 1 \in 0 .. Attempts
  BY AttemptsArePositive
<1>2. CASE answer = "ok"
  BY <1>1, <1>2 DEF Outbox!Outcome, Outbox!Delivery, Outbox!Statuses
<1>3. CASE answer = "gone"
  BY <1>1, <1>3 DEF Outbox!Outcome, Outbox!Delivery, Outbox!Statuses
<1>4. CASE answer = "error" /\ n + 1 >= Attempts
  BY <1>1, <1>4 DEF Outbox!Outcome, Outbox!GivenUp, Outbox!Delivery, Outbox!Statuses
<1>5. CASE answer = "error" /\ ~(n + 1 >= Attempts)
  BY <1>1, <1>5, AttemptsArePositive
     DEF Outbox!Outcome, Outbox!GivenUp, Outbox!Delivery, Outbox!Statuses
<1> QED
  BY <1>2, <1>3, <1>4, <1>5 DEF Outbox!Answers

\* The objects of w after a push of d.
Pushed(w, d, answer) ==
    [work[w] EXCEPT
        !.left = @ \ {d},
        !.gone = IF answer = "gone" THEN @ \cup {d[2]} ELSE @ \ {d[2]},
        !.copy[d] = Outbox!Outcome(answer, @.attempts + 1)]

LEMMA PushedObject ==
    ASSUME WorkInv, NEW w \in Dispatchers, NEW d, NEW answer
    PROVE  /\ Pushed(w, d, answer).at = work[w].at
           /\ Pushed(w, d, answer).batch = work[w].batch
           /\ Pushed(w, d, answer).left = work[w].left \ {d}
           /\ Pushed(w, d, answer).notices = work[w].notices
BY DEF WorkInv, Pushed, Outbox!Work

LEMMA PushIsSound ==
    ASSUME WorkInv, NEW w \in Dispatchers, NEW d \in Outbox!Deliveries,
           NEW answer \in Outbox!Answers, Outbox!Push(w, d, answer)
    PROVE  /\ work[w].at = "sending" /\ d \in work[w].left /\ d \in work[w].batch
           /\ work[w].copy[d].status = "pending" /\ work[w].copy[d].attempts \in Nat
           /\ work[w].copy[d].attempts < Attempts
           /\ work' = [work EXCEPT ![w] = Pushed(w, d, answer)]
           /\ Pushed(w, d, answer) \in Outbox!Work
           /\ Pushed(w, d, answer).copy =
                 [work[w].copy EXCEPT ![d] =
                     Outbox!Outcome(answer, work[w].copy[d].attempts + 1)]
<1>1. /\ work[w] \in Outbox!Work /\ Holding(work[w])
      /\ work[w].at = "sending" /\ d \in work[w].left
      /\ work' = [work EXCEPT ![w] = Pushed(w, d, answer)]
  BY DEF Outbox!Push, WorkInv, Pushed
<1>2. /\ d \in work[w].batch /\ work[w].copy[d].status = "pending"
      /\ work[w].copy[d].attempts < Attempts /\ work[w].copy[d].attempts \in Nat
  BY <1>1 DEF Holding, Outbox!Work, Outbox!Delivery
<1>3. d[2] \in Outbox!Devices
  BY DEF Outbox!Deliveries
<1>4. Outbox!Outcome(answer, work[w].copy[d].attempts + 1) \in Outbox!Delivery
  BY <1>2, OutcomeOfAttempt
<1>5. Pushed(w, d, answer) \in Outbox!Work
  BY <1>1, <1>3, <1>4 DEF Pushed, Outbox!Work
<1>7. Pushed(w, d, answer).copy =
         [work[w].copy EXCEPT ![d] = Outbox!Outcome(answer, work[w].copy[d].attempts + 1)]
  BY <1>1 DEF Pushed, Outbox!Work
<1> QED
  BY <1>1, <1>2, <1>5, <1>7

LEMMA PushKeepsWork ==
    ASSUME WorkInv, NEW w \in Dispatchers, NEW d \in Outbox!Deliveries,
           NEW answer \in Outbox!Answers, Outbox!Push(w, d, answer)
    PROVE  WorkInv'
<1> DEFINE after == Pushed(w, d, answer)
<1>0. /\ work' = [work EXCEPT ![w] = after] /\ after \in Outbox!Work
      /\ after.at = "sending" /\ after.batch = work[w].batch
      /\ after.left = work[w].left \ {d}
  <2>1. work' = [work EXCEPT ![w] = after]
    BY PushIsSound
  <2>2. after \in Outbox!Work
    BY PushIsSound
  <2>3. work[w].at = "sending"
    BY DEF Outbox!Push
  <2> QED
    BY <2>1, <2>2, <2>3, PushedObject
<1>1. PICK r \in Outbox!Work : r = after
  BY <1>0
<1>2. PICK n \in Nat : n = work[w].copy[d].attempts /\ n < Attempts
  BY PushIsSound
<1>3. /\ r.at = "sending" /\ r.batch = work[w].batch /\ r.left = work[w].left \ {d}
      /\ r.copy = [work[w].copy EXCEPT ![d] = Outbox!Outcome(answer, n + 1)]
      /\ work' = [work EXCEPT ![w] = r] /\ delivery' = delivery
  <2>1. delivery' = delivery
    BY DEF Outbox!Push
  <2>2. r.at = "sending" /\ r.batch = work[w].batch /\ r.left = work[w].left \ {d}
    BY <1>0, <1>1
  <2>3. r.copy = [work[w].copy EXCEPT ![d] = Outbox!Outcome(answer, n + 1)]
    BY <1>1, <1>2, PushIsSound
  <2>4. work' = [work EXCEPT ![w] = r]
    BY <1>0, <1>1
  <2> QED
    BY <2>1, <2>2, <2>3, <2>4
<1>4. work[w] \in Outbox!Work /\ Holding(work[w])
  BY DEF WorkInv
<1>5. /\ \A e \in r.batch : e # d => r.copy[e] = work[w].copy[e]
      /\ r.copy[d] = Outbox!Outcome(answer, n + 1)
  BY <1>3, <1>4 DEF Outbox!Work
<1>6. Holding(r)
  BY <1>2, <1>3, <1>4, <1>5, OutcomeOfAttempt DEF Holding
<1>7. Holding(r)' /\ DeliveriesTyped' /\ DeliveriesStay
  BY <1>3, <1>6 DEF Holding, WorkInv, DeliveriesTyped, DeliveriesStay
<1> QED
  BY <1>3, <1>7, WorkWritten

LEMMA SaveDeliveriesKeepsWork ==
    ASSUME WorkInv, NEW w \in Dispatchers, Outbox!SaveDeliveries(w)
    PROVE  WorkInv' /\ DeliveriesStay
<1> DEFINE r == [Outbox!Idle EXCEPT !.at = "saved", !.gone = work[w].gone, !.rows = work[w].batch]
<1>1. /\ work[w] \in Outbox!Work /\ Holding(work[w])
      /\ work' = [work EXCEPT ![w] = r]
      /\ work[w].left = {}
      /\ delivery' = [d \in Outbox!Deliveries |->
             IF d \in work[w].batch THEN work[w].copy[d] ELSE delivery[d]]
  BY DEF Outbox!SaveDeliveries, WorkInv
<1>2. r \in Outbox!Work /\ r.batch = {} /\ r.left = {}
  <2>1. Outbox!Idle.batch = {} /\ Outbox!Idle.left = {}
    BY DEF Outbox!Idle
  <2> QED
    BY <1>1, <2>1, NothingIsHeld DEF Outbox!Work
<1> HIDE DEF r
<1>3. DeliveriesTyped'
  <2> SUFFICES ASSUME NEW d \in Outbox!Deliveries
               PROVE  /\ delivery'[d] \in Outbox!Delivery
                      /\ delivery'[d].status = "none" => delivery'[d].attempts = 0
                      /\ delivery'[d].status = "pending" => delivery'[d].attempts < Attempts
    BY <1>1 DEF DeliveriesTyped
  <2>1. CASE d \in work[w].batch
    BY <1>1, <2>1 DEF Holding, Outbox!Work
  <2>2. CASE d \notin work[w].batch
    BY <1>1, <2>2 DEF WorkInv, DeliveriesTyped
  <2> QED
    BY <2>1, <2>2
<1>4. DeliveriesStay
  BY <1>1 DEF DeliveriesStay, Holding
<1> QED
  BY <1>1, <1>2, <1>3, <1>4, WorkEmptied

LEMMA DispatchKeepsWork ==
    ASSUME WorkInv, DevicesInv, NEW w \in Dispatchers, Outbox!Dispatch(w) \/ Outbox!Crash(w)
    PROVE  WorkInv'
BY ReadNoticesKeepsWork, DoneKeepsWork, CreateKeepsWork, ReadBatchKeepsWork, PushKeepsWork,
   SaveDeliveriesKeepsWork DEF Outbox!Dispatch, Outbox!Proceed

\* Accounts and notices leave the work of dispatchers alone.
LEMMA OthersLeaveWork ==
    /\ \A n \in Notices : Outbox!Activity(n) => UNCHANGED <<delivery, work>>
    /\ \A a \in Accounts : Outbox!Account(a) => UNCHANGED <<delivery, work>>
BY DEF Outbox!Activity, Outbox!Notify, Outbox!GrowOld, Outbox!Account, Outbox!SignOut,
       Outbox!Subscribe, Outbox!Unsubscribe, Outbox!Silence

\* The actors of a scene are some of those there are.
LEMMA WhoTakesPart ==
    ASSUME SceneInv, [Next]_vars
    PROVE  \/ \E n \in Notices : Outbox!Activity(n)
           \/ \E a \in Accounts : Outbox!Account(a)
           \/ \E d \in Outbox!Deliveries : Outbox!Backoff(d)
           \/ \E w \in Dispatchers : Outbox!Dispatch(w) \/ Outbox!Crash(w)
           \/ UNCHANGED alerts
<1>1. /\ scene.notices \subseteq Notices /\ scene.accounts \subseteq Accounts
      /\ scene.dispatchers \subseteq Dispatchers
  BY JobsAssumption DEF SceneInv
<1> QED
  BY <1>1 DEF Next, Billing, Alerts, vars

LEMMA WorkKept == SceneInv /\ DevicesInv /\ WorkInv /\ [Next]_vars => WorkInv'
BY WhoTakesPart, OthersLeaveWork, WorkUntouched, BackoffKeepsWork, DispatchKeepsWork DEF alerts

LEMMA WorkStarts == Outbox!OutboxInit => WorkInv /\ DevicesInv
<1> SUFFICES ASSUME Outbox!OutboxInit PROVE WorkInv /\ DevicesInv
  OBVIOUS
<1>1. delivery = Outbox!Idle.copy /\ work = [w \in Dispatchers |-> Outbox!Idle] /\ active = {}
  BY DEF Outbox!OutboxInit
<1>2. DeliveriesTyped
  BY <1>1, AttemptsArePositive
     DEF Outbox!Idle, DeliveriesTyped, Outbox!Delivery, Outbox!Statuses
<1> QED
  BY <1>1, <1>2, NothingIsHeld DEF WorkInv, DevicesInv

LEMMA DevicesKept == SceneInv /\ DevicesInv /\ WorkInv /\ [Next]_vars => DevicesInv'
<1> SUFFICES ASSUME SceneInv, DevicesInv, WorkInv, [Next]_vars
             PROVE  DevicesInv'
  OBVIOUS
<1>1. ASSUME NEW a \in Accounts, Outbox!Account(a)
      PROVE  DevicesInv'
  <2>1. ASSUME NEW b \in Browsers, Outbox!Subscribe(<<a, b>>)
        PROVE  DevicesInv'
    <3>1. <<a, b>> \in Outbox!Devices /\ active' \subseteq active \cup {<<a, b>>}
      BY <2>1 DEF Outbox!Subscribe, Outbox!Devices
    <3> QED
      BY <3>1 DEF DevicesInv
  <2>2. ASSUME NEW D, Outbox!Silence(D)
        PROVE  DevicesInv'
    BY <2>2 DEF DevicesInv, Outbox!Silence
  <2> QED
    BY <1>1, <2>1, <2>2 DEF Outbox!Account, Outbox!SignOut, Outbox!Unsubscribe
<1>2. ASSUME NEW w \in Dispatchers, Outbox!SaveDevices(w)
      PROVE  DevicesInv'
  <2>1. /\ work[w].rows \subseteq Outbox!Deliveries
        /\ active' \subseteq active \cup {d[2] : d \in work[w].rows}
    BY <1>2 DEF Outbox!SaveDevices, WorkInv, Outbox!Work
  <2> QED
    BY <2>1 DEF DevicesInv, Outbox!Deliveries
<1>3. ASSUME NEW w \in Dispatchers, Outbox!Dispatch(w) \/ Outbox!Crash(w), ~Outbox!SaveDevices(w)
      PROVE  active' = active
  BY <1>3 DEF Outbox!Dispatch, Outbox!Proceed, Outbox!ReadNotices, Outbox!CreateDeliveries,
              Outbox!MarkProcessed, Outbox!ReadBatch, Outbox!Push, Outbox!SaveDeliveries,
              Outbox!Crash, Outbox!gear
<1>4. ASSUME \/ \E n \in Notices : Outbox!Activity(n)
             \/ \E d \in Outbox!Deliveries : Outbox!Backoff(d)
             \/ UNCHANGED alerts
      PROVE  active' = active
  BY <1>4 DEF Outbox!Activity, Outbox!Notify, Outbox!GrowOld, Outbox!Backoff, Outbox!gear, alerts
<1> QED
  BY <1>1, <1>2, <1>3, <1>4, WhoTakesPart DEF DevicesInv

-----------------------------------------------------------------------------
(* Notices *)

NoticeTyped ==
    /\ notice \in [Notices -> {"none", "recent", "late", "processed"}]
    /\ owed \in [Notices -> SUBSET Outbox!Devices]

\* A dispatcher that has listed the notices in r has a row for every device that
\* is owed one of them; once they are created, there is a delivery.
Enlisted(r) ==
    \A n \in r.notices :
        /\ r.at \in {"listed", "created"} /\ notice[n] # "none"
        /\ \A s \in owed[n] :
              IF r.at = "listed" THEN <<n, s>> \in r.rows ELSE delivery[<<n, s>>].status # "none"

NoticeInv ==
    /\ NoticeTyped
    /\ \A n \in Notices : owed[n] \subseteq active /\ (notice[n] = "none" => owed[n] = {})
    /\ \A w \in Dispatchers : Enlisted(work[w])
    /\ NoticesReachDevices

\* What a step may do to the notice n.
NoticeMoves(n) ==
    /\ owed'[n] \subseteq active'
    /\ \/ notice[n] = "none" /\ notice'[n] = "recent"
       \/ owed'[n] \subseteq owed[n] /\ notice'[n] = notice[n]
       \/ /\ owed'[n] \subseteq owed[n] /\ notice[n] # "none" /\ notice'[n] # "none"
          /\ notice'[n] = "processed" =>
                \A s \in owed'[n] : delivery'[<<n, s>>].status # "none"

LEMMA NoticesMoved ==
    ASSUME NoticeInv, WorkInv, NoticeTyped', DeliveriesStay,
           \A n \in Notices : NoticeMoves(n),
           \A w \in Dispatchers : \/ work'[w] = work[w]
                                  \/ work'[w].notices = {}
                                  \/ Enlisted(work[w])'
    PROVE  NoticeInv'
<1>1. \A n \in Notices : \A s \in owed[n] :
          delivery[<<n, s>>].status # "none" => delivery'[<<n, s>>].status # "none"
  BY DEF NoticeInv, NoticeTyped, DeliveriesStay, Outbox!Deliveries
<1>2. ASSUME NEW n \in Notices
      PROVE  owed'[n] \subseteq active' /\ (notice'[n] = "none" => owed'[n] = {})
  <2>1. CASE notice[n] = "none" /\ notice'[n] = "recent"
    BY <2>1 DEF NoticeMoves
  <2>2. CASE owed'[n] \subseteq owed[n] /\ notice'[n] = notice[n]
    BY <2>2 DEF NoticeMoves, NoticeInv
  <2>3. CASE notice'[n] # "none"
    BY <2>3 DEF NoticeMoves
  <2> QED
    BY <2>1, <2>2, <2>3 DEF NoticeMoves
<1>3. ASSUME NEW w \in Dispatchers
      PROVE  Enlisted(work[w])'
  <2>1. CASE work'[w] = work[w]
    <3> SUFFICES ASSUME NEW n \in work[w].notices
                 PROVE  /\ work[w].at \in {"listed", "created"} /\ notice'[n] # "none"
                        /\ \A s \in owed'[n] :
                              IF work[w].at = "listed" THEN <<n, s>> \in work[w].rows
                              ELSE delivery'[<<n, s>>].status # "none"
      BY <2>1 DEF Enlisted
    <3>1. /\ n \in Notices /\ work[w].at \in {"listed", "created"} /\ notice[n] # "none"
          /\ \A s \in owed[n] : IF work[w].at = "listed" THEN <<n, s>> \in work[w].rows
                                ELSE delivery[<<n, s>>].status # "none"
      BY DEF NoticeInv, Enlisted, WorkInv, Outbox!Work
    <3>2. owed'[n] \subseteq owed[n] /\ notice'[n] # "none"
      BY <3>1 DEF NoticeMoves
    <3> QED
      BY <1>1, <3>1, <3>2
  <2>2. CASE work'[w].notices = {}
    BY <2>2 DEF Enlisted
  <2> QED
    BY <2>1, <2>2
<1>4. NoticesReachDevices'
  <2> SUFFICES ASSUME NEW n \in Notices, notice'[n] = "processed", NEW s \in owed'[n]
               PROVE  delivery'[<<n, s>>].status # "none"
    BY DEF NoticesReachDevices, Outbox!NoticesReachDevices
  <2>1. CASE owed'[n] \subseteq owed[n] /\ notice'[n] = notice[n]
    <3>1. delivery[<<n, s>>].status # "none"
      BY <2>1 DEF NoticeInv, NoticesReachDevices, Outbox!NoticesReachDevices
    <3> QED
      BY <1>1, <2>1, <3>1
  <2>2. CASE ~(owed'[n] \subseteq owed[n] /\ notice'[n] = notice[n])
    BY <2>2 DEF NoticeMoves
  <2> QED
    BY <2>1, <2>2
<1> QED
  BY <1>2, <1>3, <1>4 DEF NoticeInv

LEMMA NoticesUntouched ==
    ASSUME NoticeInv, WorkInv, UNCHANGED <<notice, owed>>, active \subseteq active', DeliveriesStay,
           \A w \in Dispatchers : \/ work'[w] = work[w]
                                  \/ work'[w].notices = {}
                                  \/ Enlisted(work[w])'
    PROVE  NoticeInv'
<1>1. NoticeTyped' /\ \A n \in Notices : NoticeMoves(n)
  BY DEF NoticeInv, NoticeTyped, NoticeMoves
<1> QED
  BY <1>1, NoticesMoved

\* Storing a notice, and time, do not touch devices and dispatchers.
LEMMA ActivityKeepsNotices ==
    ASSUME NoticeInv, WorkInv, DevicesInv, NEW n \in Notices, Outbox!Activity(n)
    PROVE  NoticeInv'
<1>1. UNCHANGED <<delivery, work, active>> /\ DeliveriesStay
  BY DEF Outbox!Activity, Outbox!Notify, Outbox!GrowOld, Outbox!gear, DeliveriesStay
<1>2. NoticeTyped'
  BY DEF NoticeInv, NoticeTyped, DevicesInv, Outbox!Activity, Outbox!Notify, Outbox!GrowOld
<1>3. ASSUME NEW m \in Notices
      PROVE  NoticeMoves(m)
  BY <1>1 DEF NoticeMoves, NoticeInv, NoticeTyped, Outbox!Activity, Outbox!Notify, Outbox!GrowOld
<1> QED
  BY <1>1, <1>2, <1>3, NoticesMoved

\* A device that is switched off, or handed to another account, is owed nothing.
LEMMA AccountKeepsNotices ==
    ASSUME NoticeInv, WorkInv, NEW a \in Accounts, Outbox!Account(a)
    PROVE  NoticeInv'
<1>1. UNCHANGED <<notice, delivery, work>> /\ DeliveriesStay
  BY DEF Outbox!Account, Outbox!SignOut, Outbox!Subscribe, Outbox!Unsubscribe, Outbox!Silence,
         DeliveriesStay
<1>2. PICK D : owed' = Outbox!Release(D) /\ active \ D \subseteq active'
  BY DEF Outbox!Account, Outbox!SignOut, Outbox!Subscribe, Outbox!Unsubscribe, Outbox!Silence
<1>3. NoticeTyped'
  BY <1>1, <1>2 DEF NoticeInv, NoticeTyped, Outbox!Release
<1>4. ASSUME NEW m \in Notices
      PROVE  NoticeMoves(m)
  <2>1. owed'[m] = owed[m] \ D
    BY <1>2 DEF Outbox!Release
  <2> QED
    BY <1>1, <1>2, <2>1 DEF NoticeMoves, NoticeInv
<1> QED
  BY <1>1, <1>3, <1>4, NoticesMoved

LEMMA ReadNoticesKeepsNotices ==
    ASSUME NoticeInv, WorkInv, NEW w \in Dispatchers, Outbox!ReadNotices(w)
    PROVE  NoticeInv'
<1> DEFINE recent == {n \in Notices : notice[n] = "recent"}
           found  == IF HasModule("commerce") THEN recent \X active ELSE {}
           at     == IF recent = {} THEN "queued" ELSE "listed"
           r      == [Outbox!Idle EXCEPT !.at = at, !.notices = recent, !.rows = found]
<1>1. /\ work' = [work EXCEPT ![w] = r]
      /\ owed' = [n \in Notices |->
             IF notice[n] = "late" \/ (n \in recent /\ ~HasModule("commerce")) THEN {} ELSE owed[n]]
      /\ notice' = [n \in Notices |-> IF n \in Outbox!Retired THEN "processed" ELSE notice[n]]
      /\ delivery' = delivery /\ active' = active
  BY DEF Outbox!ReadNotices, Outbox!gear
<1>2. r.at = at /\ r.notices = recent /\ r.rows = found
  BY DEF Outbox!Idle
<1> HIDE DEF r
<1>3. NoticeTyped' /\ DeliveriesStay
  BY <1>1 DEF NoticeInv, NoticeTyped, DeliveriesStay
<1>4. ASSUME NEW n \in Notices
      PROVE  NoticeMoves(n)
  BY <1>1 DEF NoticeMoves, NoticeInv, Outbox!Retired
<1>5. Enlisted(work[w])'
  <2>1. work'[w] = r
    BY <1>1 DEF WorkInv
  <2>2. ASSUME NEW n \in recent
        PROVE  /\ notice'[n] # "none" /\ at = "listed"
               /\ \A s \in owed'[n] : <<n, s>> \in found
    <3>1. n \in Notices /\ notice[n] = "recent" /\ notice'[n] = "recent" /\ at = "listed"
      BY <1>1 DEF Outbox!Retired
    <3>2. CASE HasModule("commerce")
      BY <1>1, <3>1, <3>2 DEF NoticeInv
    <3>3. CASE ~HasModule("commerce")
      BY <1>1, <3>1, <3>3
    <3> QED
      BY <3>1, <3>2, <3>3
  <2> QED
    BY <1>2, <2>1, <2>2 DEF Enlisted
<1>6. \A v \in Dispatchers : v # w => work'[v] = work[v]
  BY <1>1 DEF WorkInv
<1> QED
  BY <1>3, <1>4, <1>5, <1>6, NoticesMoved

\* Deliveries are created for every row before the notices are marked.
LEMMA CreateKeepsNotices ==
    ASSUME NoticeInv, WorkInv, NEW w \in Dispatchers, Outbox!CreateDeliveries(w)
    PROVE  NoticeInv'
<1> DEFINE r == [work[w] EXCEPT !.at = "created"]
<1>1. /\ work[w].at = "listed" /\ work[w] \in Outbox!Work /\ Enlisted(work[w])
      /\ work' = [work EXCEPT ![w] = r]
      /\ delivery' = [d \in Outbox!Deliveries |->
             IF d \in work[w].rows /\ delivery[d].status = "none"
             THEN [status |-> "pending", attempts |-> 0, due |-> TRUE] ELSE delivery[d]]
      /\ UNCHANGED <<notice, owed, active>>
  BY DEF Outbox!CreateDeliveries, Outbox!feed, Outbox!gear, WorkInv, NoticeInv
<1>2. r.at = "created" /\ r.notices = work[w].notices /\ work'[w] = r
  BY <1>1 DEF WorkInv, Outbox!Work
<1> HIDE DEF r
<1>3. Enlisted(work[w])'
  <2>1. ASSUME NEW n \in r.notices
        PROVE  notice[n] # "none" /\ \A s \in owed[n] : delivery'[<<n, s>>].status # "none"
    <3>1. notice[n] # "none" /\ \A s \in owed[n] : <<n, s>> \in work[w].rows
      BY <1>1, <1>2, <2>1 DEF Enlisted
    <3>2. work[w].rows \subseteq Outbox!Deliveries
      BY <1>1 DEF Outbox!Work
    <3> QED
      BY <1>1, <3>1, <3>2
  <2> QED
    BY <1>1, <1>2, <2>1 DEF Enlisted
<1>4. \A v \in Dispatchers : v # w => work'[v] = work[v]
  BY <1>1 DEF WorkInv
<1>5. DeliveriesStay
  BY CreateKeepsWork
<1> QED
  BY <1>1, <1>3, <1>4, <1>5, NoticesUntouched

LEMMA MarkProcessedKeepsNotices ==
    ASSUME NoticeInv, WorkInv, NEW w \in Dispatchers, Outbox!MarkProcessed(w)
    PROVE  NoticeInv'
<1>1. /\ work[w].at = "created" /\ work[w] \in Outbox!Work /\ Enlisted(work[w])
      /\ notice' = [n \in Notices |-> IF n \in work[w].notices THEN "processed" ELSE notice[n]]
      /\ work' = [work EXCEPT ![w] = [Outbox!Idle EXCEPT !.at = "queued"]]
      /\ UNCHANGED <<owed, active, delivery>>
  BY DEF Outbox!MarkProcessed, Outbox!gear, WorkInv, NoticeInv
<1>2. NoticeTyped' /\ DeliveriesStay
  BY <1>1 DEF NoticeInv, NoticeTyped, DeliveriesStay
<1>3. ASSUME NEW n \in Notices
      PROVE  NoticeMoves(n)
  <2>1. CASE n \in work[w].notices
    <3>1. notice[n] # "none" /\ \A s \in owed[n] : delivery[<<n, s>>].status # "none"
      BY <1>1, <2>1 DEF Enlisted
    <3> QED
      BY <1>1, <2>1, <3>1 DEF NoticeMoves, NoticeInv
  <2>2. CASE n \notin work[w].notices
    BY <1>1, <2>2 DEF NoticeMoves, NoticeInv
  <2> QED
    BY <2>1, <2>2
<1>4. work'[w].notices = {} /\ \A v \in Dispatchers : v # w => work'[v] = work[v]
  BY <1>1 DEF WorkInv, Outbox!Idle
<1> QED
  BY <1>2, <1>3, <1>4, NoticesMoved

LEMMA SendingKeepsNotices ==
    ASSUME NoticeInv, WorkInv, NEW w \in Dispatchers,
           \/ Outbox!ReadBatch(w) \/ Outbox!SaveDeliveries(w) \/ Outbox!Crash(w)
           \/ \E d \in Outbox!Deliveries, answer \in Outbox!Answers : Outbox!Push(w, d, answer)
    PROVE  NoticeInv'
<1>1. UNCHANGED <<notice, owed, active>>
  BY DEF Outbox!ReadBatch, Outbox!SaveDeliveries, Outbox!Crash, Outbox!Push, Outbox!feed,
         Outbox!gear
<1>2. DeliveriesStay
  <2>1. CASE Outbox!SaveDeliveries(w)
    BY <2>1, SaveDeliveriesKeepsWork
  <2>2. CASE ~Outbox!SaveDeliveries(w)
    BY <2>2 DEF Outbox!ReadBatch, Outbox!Crash, Outbox!Push, DeliveriesStay
  <2> QED
    BY <2>1, <2>2
<1>3. ASSUME NEW r, work' = [work EXCEPT ![w] = r], r.notices = {}
      PROVE  work'[w].notices = {} /\ \A v \in Dispatchers : v # w => work'[v] = work[v]
  BY <1>3 DEF WorkInv
<1>4. work'[w].notices = {} /\ \A v \in Dispatchers : v # w => work'[v] = work[v]
  <2>1. CASE Outbox!ReadBatch(w)
    <3> DEFINE batch == {d \in Outbox!Deliveries : Outbox!Ready(d)}
               r == IF batch = {} THEN Outbox!Idle ELSE ReadObject(w, batch)
    <3>1. work' = [work EXCEPT ![w] = r]
      BY <2>1 DEF Outbox!ReadBatch, ReadObject
    <3>2. r.notices = {}
      BY DEF ReadObject, Outbox!Idle
    <3> QED
      BY <1>3, <3>1, <3>2
  <2>2. CASE Outbox!SaveDeliveries(w)
    BY <2>2 DEF Outbox!SaveDeliveries, Outbox!Idle, WorkInv
  <2>3. CASE Outbox!Crash(w)
    BY <2>3 DEF Outbox!Crash, Outbox!Idle, WorkInv
  <2>4. ASSUME NEW d \in Outbox!Deliveries, NEW answer \in Outbox!Answers,
               Outbox!Push(w, d, answer)
        PROVE  work'[w].notices = {} /\ \A v \in Dispatchers : v # w => work'[v] = work[v]
    <3>1. work' = [work EXCEPT ![w] = Pushed(w, d, answer)]
      BY <2>4, PushIsSound
    <3>2. work[w].notices = {}
      <4>1. work[w].at = "sending"
        BY <2>4 DEF Outbox!Push
      <4> QED
        BY <4>1 DEF NoticeInv, Enlisted
    <3> QED
      BY <1>3, <3>1, <3>2, PushedObject
  <2> QED
    BY <2>1, <2>2, <2>3, <2>4
<1> QED
  BY <1>1, <1>2, <1>4, NoticesUntouched

LEMMA SaveDevicesKeepsNotices ==
    ASSUME NoticeInv, WorkInv, NEW w \in Dispatchers, Outbox!SaveDevices(w)
    PROVE  NoticeInv'
<1>1. /\ owed' = Outbox!Release(work[w].gone) /\ active \ work[w].gone \subseteq active'
      /\ work' = [work EXCEPT ![w] = Outbox!Idle]
      /\ UNCHANGED <<notice, delivery>>
  BY DEF Outbox!SaveDevices
<1>2. NoticeTyped' /\ DeliveriesStay
  BY <1>1 DEF NoticeInv, NoticeTyped, DeliveriesStay, Outbox!Release
<1>3. ASSUME NEW n \in Notices
      PROVE  NoticeMoves(n)
  <2>1. owed'[n] = owed[n] \ work[w].gone
    BY <1>1 DEF Outbox!Release
  <2> QED
    BY <1>1, <2>1 DEF NoticeMoves, NoticeInv
<1>4. work'[w].notices = {} /\ \A v \in Dispatchers : v # w => work'[v] = work[v]
  BY <1>1 DEF WorkInv, Outbox!Idle
<1> QED
  BY <1>2, <1>3, <1>4, NoticesMoved

LEMMA NoticesKept == SceneInv /\ DevicesInv /\ WorkInv /\ NoticeInv /\ [Next]_vars => NoticeInv'
<1> SUFFICES ASSUME SceneInv, DevicesInv, WorkInv, NoticeInv, [Next]_vars
             PROVE  NoticeInv'
  OBVIOUS
<1>1. ASSUME NEW w \in Dispatchers, Outbox!Dispatch(w) \/ Outbox!Crash(w)
      PROVE  NoticeInv'
  BY <1>1, ReadNoticesKeepsNotices, CreateKeepsNotices, MarkProcessedKeepsNotices,
     SendingKeepsNotices, SaveDevicesKeepsNotices DEF Outbox!Dispatch, Outbox!Proceed
<1>2. ASSUME NEW d \in Outbox!Deliveries, Outbox!Backoff(d)
      PROVE  NoticeInv'
  <2>1. /\ delivery' = [delivery EXCEPT ![d].due = TRUE]
        /\ UNCHANGED <<notice, owed, active, work>>
    BY <1>2 DEF Outbox!Backoff, Outbox!feed, Outbox!gear
  <2>2. DeliveriesStay
    BY <2>1 DEF DeliveriesStay, WorkInv, DeliveriesTyped, Outbox!Delivery
  <2> QED
    BY <2>1, <2>2, NoticesUntouched
<1>3. CASE UNCHANGED alerts
  BY <1>3, NoticesUntouched DEF alerts, DeliveriesStay
<1> QED
  BY <1>1, <1>2, <1>3, WhoTakesPart, ActivityKeepsNotices, AccountKeepsNotices

LEMMA NoticesStart == Outbox!OutboxInit => NoticeInv
<1> SUFFICES ASSUME Outbox!OutboxInit PROVE NoticeInv
  OBVIOUS
<1>1. notice = [n \in Notices |-> "none"] /\ owed = [n \in Notices |-> {}]
  BY DEF Outbox!OutboxInit
<1>2. \A w \in Dispatchers : work[w].notices = {}
  BY DEF Outbox!OutboxInit, Outbox!Idle
<1> QED
  BY <1>1, <1>2
     DEF NoticeInv, NoticeTyped, Enlisted, NoticesReachDevices, Outbox!NoticesReachDevices

(***************************************************************************)
(* Whoever signs in and out, and however many dispatchers overlap and die, *)
(* a notice that is marked processed has a delivery for every device it is *)
(* owed to: they are created before it is marked, and never taken back.    *)
(***************************************************************************)
THEOREM NoticesTheorem == Spec => []NoticesReachDevices
<1>1. NoticeInv => NoticesReachDevices
  BY DEF NoticeInv
<1>2. Init => SceneInv /\ DevicesInv /\ WorkInv /\ NoticeInv
  BY WorkStarts, NoticesStart DEF Init, SceneInv
<1> QED
  BY <1>1, <1>2, SceneKept, DevicesKept, WorkKept, NoticesKept, PTL DEF Spec

-----------------------------------------------------------------------------
(* The tally of pushes *)

\* Dispatchers that have read d and not written it back; those whose object of
\* it is pending, so that they, or whoever reads what they write, may push it;
\* and those that will push it next.
Holders(d) == {w \in Dispatchers : d \in work[w].batch}
Open(d)    == {w \in Dispatchers : d \in work[w].batch /\ work[w].copy[d].status = "pending"}
Waiting(d) == {w \in Dispatchers : d \in work[w].left}
Senders    == {w \in Dispatchers : work[w].batch # {}}

\* What went wrong with d so far.
Extra(d) == overlaps[d] + crashes

TallyTyped ==
    /\ pushes \in [Outbox!Deliveries -> Nat] /\ tries \in [Outbox!Deliveries -> Nat]
    /\ overlaps \in [Outbox!Deliveries -> Nat] /\ crashes \in Nat
    /\ IsFiniteSet(Senders)

\* Pushes that were taken, and those that may still come.
PushesCounted(d) ==
    /\ pushes[d] + Cardinality(Open(d)) <= 1 + Extra(d)
    /\ Holders(d) = {} /\ delivery[d].status \in {"none", "pending"} => pushes[d] <= Extra(d)

\* Attempts that were made are those that were written down, those in the
\* objects of dispatchers, and what overlaps and crashes have lost.
TriesCounted(d) ==
    /\ Holders(d) = {} => tries[d] <= delivery[d].attempts + Extra(d)
    /\ Holders(d) # {} => tries[d] + Cardinality(Waiting(d)) <= delivery[d].attempts + 1 + Extra(d)
    /\ \A w \in Holders(d) :
          tries[d] + Cardinality(Waiting(d)) <=
             work[w].copy[d].attempts + Extra(d) + IF d \in work[w].left THEN 1 ELSE 0

Accounted(d) == PushesCounted(d) /\ TriesCounted(d)

TallyInv == TallyTyped /\ \A d \in Outbox!Deliveries : Accounted(d)

LEMMA OneMoves ==
    ASSUME NEW S, NEW T, NEW w, IsFiniteSet(S), \A v : v # w => (v \in S <=> v \in T)
    PROVE  /\ IsFiniteSet(T) /\ Cardinality(S) \in Nat /\ Cardinality(T) \in Nat
           /\ (w \in S <=> w \in T) => T = S /\ Cardinality(T) = Cardinality(S)
           /\ w \in S /\ w \notin T => Cardinality(T) = Cardinality(S) - 1
           /\ w \notin S /\ w \in T => Cardinality(T) = Cardinality(S) + 1
<1>1. Cardinality(S) \in Nat
  BY FS_CardinalityType
<1>2. CASE w \in S <=> w \in T
  <2>1. T = S
    BY <1>2
  <2> QED
    BY <1>1, <1>2, <2>1
<1>3. CASE w \in S /\ w \notin T
  <2>1. T = S \ {w}
    BY <1>3
  <2> QED
    BY <1>1, <1>3, <2>1, FS_RemoveElement, FS_CardinalityType
<1>4. CASE w \notin S /\ w \in T
  <2>1. T = S \cup {w}
    BY <1>4
  <2> QED
    BY <1>1, <1>4, <2>1, FS_AddElement, FS_CardinalityType
<1> QED
  BY <1>2, <1>3, <1>4

LEMMA FewAreOpen ==
    ASSUME WorkInv, TallyTyped, NEW d
    PROVE  IsFiniteSet(Open(d)) /\ IsFiniteSet(Waiting(d)) /\ Waiting(d) \subseteq Holders(d)
<1>1. Waiting(d) \subseteq Holders(d) /\ Holders(d) \subseteq Senders /\ Open(d) \subseteq Senders
  BY DEF WorkInv, Holding, Waiting, Holders, Open, Senders
<1> QED
  BY <1>1, FS_Subset DEF TallyTyped

\* One dispatcher goes on: the sets change by that dispatcher at most.
LEMMA CountsMove ==
    ASSUME WorkInv, TallyTyped, NEW d, NEW w \in Dispatchers,
           \A v \in Dispatchers : v # w => work'[v] = work[v]
    PROVE  /\ \A v : v # w => (v \in Holders(d) <=> v \in Holders(d)')
           /\ Cardinality(Open(d)) \in Nat /\ Cardinality(Open(d))' \in Nat
           /\ Cardinality(Waiting(d)) \in Nat /\ Cardinality(Waiting(d))' \in Nat
           /\ Cardinality(Open(d))' = Cardinality(Open(d))
                 + (IF w \in Open(d)' THEN 1 ELSE 0) - (IF w \in Open(d) THEN 1 ELSE 0)
           /\ Cardinality(Waiting(d))' = Cardinality(Waiting(d))
                 + (IF w \in Waiting(d)' THEN 1 ELSE 0) - (IF w \in Waiting(d) THEN 1 ELSE 0)
<1>1. \A v : v # w => (v \in Holders(d) <=> v \in Holders(d)')
  BY DEF Holders
<1>2. \A v : v # w => (v \in Open(d) <=> v \in Open(d)')
  BY DEF Open
<1>3. \A v : v # w => (v \in Waiting(d) <=> v \in Waiting(d)')
  BY DEF Waiting
<1>4. IsFiniteSet(Open(d)) /\ IsFiniteSet(Waiting(d))
  BY FewAreOpen
<1> DEFINE S == Open(d)
           T == Open(d)'
           X == Waiting(d)
           Y == Waiting(d)'
<1>5. /\ Cardinality(S) \in Nat /\ Cardinality(T) \in Nat
      /\ Cardinality(T) = Cardinality(S)
            + (IF w \in T THEN 1 ELSE 0) - (IF w \in S THEN 1 ELSE 0)
  <2> HIDE DEF S, T
  <2>1. IsFiniteSet(S) /\ \A v : v # w => (v \in S <=> v \in T)
    BY <1>2, <1>4 DEF S, T
  <2>2. /\ Cardinality(S) \in Nat /\ Cardinality(T) \in Nat
        /\ (w \in S <=> w \in T) => Cardinality(T) = Cardinality(S)
        /\ w \in S /\ w \notin T => Cardinality(T) = Cardinality(S) - 1
        /\ w \notin S /\ w \in T => Cardinality(T) = Cardinality(S) + 1
    BY <2>1, OneMoves
  <2> QED
    BY <2>2
<1>6. /\ Cardinality(X) \in Nat /\ Cardinality(Y) \in Nat
      /\ Cardinality(Y) = Cardinality(X)
            + (IF w \in Y THEN 1 ELSE 0) - (IF w \in X THEN 1 ELSE 0)
  <2> HIDE DEF X, Y
  <2>1. IsFiniteSet(X) /\ \A v : v # w => (v \in X <=> v \in Y)
    BY <1>3, <1>4 DEF X, Y
  <2>2. /\ Cardinality(X) \in Nat /\ Cardinality(Y) \in Nat
        /\ (w \in X <=> w \in Y) => Cardinality(Y) = Cardinality(X)
        /\ w \in X /\ w \notin Y => Cardinality(Y) = Cardinality(X) - 1
        /\ w \notin X /\ w \in Y => Cardinality(Y) = Cardinality(X) + 1
    BY <2>1, OneMoves
  <2> QED
    BY <2>2
<1> QED
  BY <1>1, <1>5, <1>6

LEMMA SendersMove ==
    ASSUME TallyTyped, NEW w \in Dispatchers,
           \A v \in Dispatchers : v # w => work'[v] = work[v]
    PROVE  IsFiniteSet(Senders)'
<1>1. Senders' \subseteq Senders \cup {w}
  BY DEF Senders
<1>2. IsFiniteSet(Senders \cup {w})
  BY FS_AddElement DEF TallyTyped
<1> QED
  BY <1>1, <1>2, FS_Subset

\* Everything that is counted is a number.
LEMMA Numbers ==
    ASSUME WorkInv, TallyTyped, NEW d \in Outbox!Deliveries
    PROVE  /\ pushes[d] \in Nat /\ tries[d] \in Nat /\ overlaps[d] \in Nat /\ crashes \in Nat
           /\ Extra(d) = overlaps[d] + crashes /\ Extra(d) \in Nat
           /\ delivery[d].attempts \in Nat /\ delivery[d].attempts <= Attempts
           /\ \A w \in Dispatchers : /\ work[w].copy[d].attempts \in Nat
                                     /\ work[w].copy[d].attempts <= Attempts
<1>1. delivery[d] \in Outbox!Delivery /\ \A w \in Dispatchers : work[w].copy[d] \in Outbox!Delivery
  BY DEF WorkInv, DeliveriesTyped, Outbox!Work
<1> QED
  BY <1>1, AttemptsArePositive DEF TallyTyped, Extra, Outbox!Delivery

\* A step that is not about d; crashes only add to what is allowed.
LEMMA AccountedAside ==
    ASSUME WorkInv, WorkInv', TallyTyped, TallyTyped',
           NEW d \in Outbox!Deliveries, Accounted(d),
           \A v \in Dispatchers :
              /\ d \in work'[v].batch <=> d \in work[v].batch
              /\ d \in work'[v].left <=> d \in work[v].left
              /\ d \in work[v].batch => work'[v].copy[d] = work[v].copy[d],
           \/ delivery'[d].status = delivery[d].status
           \/ Holders(d) = {} /\ delivery[d].status = "none",
           delivery'[d].attempts = delivery[d].attempts,
           UNCHANGED <<pushes[d], tries[d], overlaps[d]>>, crashes' >= crashes
    PROVE  Accounted(d)'
<1>1. /\ Holders(d)' = Holders(d)
      /\ Open(d)' = Open(d)
      /\ Waiting(d)' = Waiting(d)
  BY DEF Holders, Open, Waiting
<1>2. Cardinality(Open(d)) \in Nat /\ Cardinality(Waiting(d)) \in Nat
  BY FewAreOpen, FS_CardinalityType
<1>3. Extra(d) \in Nat /\ Extra(d)' \in Nat /\ Extra(d)' >= Extra(d)
  BY Numbers DEF Extra, TallyTyped
<1>4. PushesCounted(d)'
  BY <1>1, <1>2, <1>3, Numbers DEF Accounted, PushesCounted
<1>5. TriesCounted(d)'
  <2>1. ASSUME NEW w \in Holders(d)
        PROVE  tries[d] + Cardinality(Waiting(d)) <=
                  work'[w].copy[d].attempts + Extra(d)' + IF d \in work'[w].left THEN 1 ELSE 0
    <3>1. work'[w].copy[d] = work[w].copy[d] /\ (d \in work'[w].left <=> d \in work[w].left)
          /\ w \in Dispatchers /\ work[w].copy[d].attempts \in Nat
      BY Numbers DEF Holders
    <3> QED
      BY <1>2, <1>3, <3>1, Numbers DEF Accounted, TriesCounted
  <2> QED
    BY <1>1, <1>2, <1>3, <2>1, Numbers DEF Accounted, TriesCounted
<1> QED
  BY <1>4, <1>5 DEF Accounted

\* d is read to be sent: if no other dispatcher has it, nothing of it is under
\* way; if one has, that is an overlap.
LEMMA ReadIsAccounted ==
    ASSUME WorkInv, TallyTyped, TallyTyped',
           NEW d \in Outbox!Deliveries, Accounted(d), NEW w \in Dispatchers,
           \A v \in Dispatchers : v # w => work'[v] = work[v],
           d \notin work[w].batch, d \in work'[w].batch, d \in work'[w].left,
           work'[w].copy[d] = delivery[d], delivery[d].status = "pending",
           UNCHANGED <<delivery, pushes, tries, crashes>>,
           overlaps'[d] = overlaps[d] + IF Holders(d) = {} THEN 0 ELSE 1
    PROVE  Accounted(d)'
<1> DEFINE P == pushes[d]
           N == tries[d]
           A == Cardinality(Open(d))
           L == Cardinality(Waiting(d))
           E == Extra(d)
           E2 == Extra(d)'
           M == delivery[d].attempts
<1>1. /\ w \notin Holders(d) /\ w \notin Open(d) /\ w \notin Waiting(d)
      /\ w \in Holders(d)' /\ w \in Open(d)' /\ w \in Waiting(d)'
  BY DEF Holders, Open, Waiting, WorkInv, Holding
<1>2. /\ A \in Nat /\ L \in Nat /\ Cardinality(Open(d))' = A + 1 /\ Cardinality(Waiting(d))' = L + 1
      /\ \A v : v # w => (v \in Holders(d) <=> v \in Holders(d)')
  BY <1>1, CountsMove
<1>3. /\ P \in Nat /\ N \in Nat /\ E \in Nat /\ M \in Nat
      /\ E2 = E + IF Holders(d) = {} THEN 0 ELSE 1
  BY Numbers DEF Extra
<1>4. /\ P + A <= 1 + E /\ (Holders(d) = {} => P <= E)
      /\ Holders(d) = {} => N <= M + E /\ L = 0 /\ A = 0
      /\ Holders(d) # {} => N + L <= M + 1 + E
  <2>1. Holders(d) = {} => Open(d) = {} /\ Waiting(d) = {}
    BY FewAreOpen DEF Holders, Open
  <2> QED
    BY <2>1, FS_EmptySet DEF Accounted, PushesCounted, TriesCounted
<1>5. \A v \in Holders(d) : N + L <= work[v].copy[d].attempts + E + IF d \in work[v].left THEN 1 ELSE 0
  BY DEF Accounted, TriesCounted
<1>6. PushesCounted(d)'
  BY <1>1, <1>2, <1>3, <1>4 DEF PushesCounted
<1>7. N + L + 1 <= M + E2 + 1
  BY <1>2, <1>3, <1>4
<1>8. ASSUME NEW v \in Holders(d)'
      PROVE  N + (L + 1) <= work'[v].copy[d].attempts + E2 + IF d \in work'[v].left THEN 1 ELSE 0
  <2>1. CASE v = w
    BY <1>2, <1>3, <1>7, <2>1
  <2>2. CASE v # w
    <3>1. v \in Holders(d) /\ v \in Dispatchers /\ work'[v] = work[v] /\ E2 = E + 1
      BY <1>2, <1>3, <2>2 DEF Holders
    <3>2. work[v].copy[d].attempts \in Nat
      BY <3>1, Numbers
    <3> QED
      BY <1>2, <1>3, <1>5, <3>1, <3>2
  <2> QED
    BY <2>1, <2>2
<1>9. TriesCounted(d)'
  BY <1>1, <1>2, <1>3, <1>7, <1>8 DEF TriesCounted
<1> QED
  BY <1>6, <1>9 DEF Accounted

\* An attempt is counted in the object; a push that was taken closes it.
LEMMA PushIsAccounted ==
    ASSUME WorkInv, TallyTyped, TallyTyped',
           NEW d \in Outbox!Deliveries, Accounted(d), NEW w \in Dispatchers,
           \A v \in Dispatchers : v # w => work'[v] = work[v],
           d \in work[w].left, work[w].copy[d].status = "pending",
           work'[w].batch = work[w].batch, d \notin work'[w].left,
           work'[w].copy[d].attempts = work[w].copy[d].attempts + 1,
           \/ pushes'[d] = pushes[d]
           \/ pushes'[d] = pushes[d] + 1 /\ work'[w].copy[d].status # "pending",
           tries'[d] = tries[d] + 1,
           UNCHANGED <<delivery, overlaps, crashes>>
    PROVE  Accounted(d)'
<1> DEFINE P == pushes[d]
           N == tries[d]
           A == Cardinality(Open(d))
           L == Cardinality(Waiting(d))
           E == Extra(d)
           M == delivery[d].attempts
           C == work[w].copy[d].attempts
<1>1. /\ w \in Holders(d) /\ w \in Open(d) /\ w \in Waiting(d)
      /\ w \in Holders(d)' /\ w \notin Waiting(d)'
      /\ w \in Open(d)' <=> work'[w].copy[d].status = "pending"
  BY DEF Holders, Open, Waiting, WorkInv, Holding
<1>2. /\ A \in Nat /\ L \in Nat /\ Cardinality(Waiting(d))' = L - 1
      /\ Cardinality(Open(d))' = A + (IF w \in Open(d)' THEN 0 ELSE -1)
      /\ \A v : v # w => (v \in Holders(d) <=> v \in Holders(d)')
  BY <1>1, CountsMove
<1>3. /\ P \in Nat /\ N \in Nat /\ E \in Nat /\ M \in Nat /\ C \in Nat /\ Extra(d)' = E
  BY Numbers DEF Extra
<1>4. P + A <= 1 + E /\ N + L <= M + 1 + E
  BY <1>1 DEF Accounted, PushesCounted, TriesCounted
<1>5. \A v \in Holders(d) : N + L <= work[v].copy[d].attempts + E + IF d \in work[v].left THEN 1 ELSE 0
  BY DEF Accounted, TriesCounted
<1>6. PushesCounted(d)'
  BY <1>1, <1>2, <1>3, <1>4 DEF PushesCounted
<1>7. ASSUME NEW v \in Holders(d)'
      PROVE  (N + 1) + (L - 1) <=
                work'[v].copy[d].attempts + E + IF d \in work'[v].left THEN 1 ELSE 0
  <2>1. CASE v = w
    <3>1. N + L <= C + E + 1
      BY <1>1, <1>5
    <3> QED
      BY <1>2, <1>3, <2>1, <3>1
  <2>2. CASE v # w
    <3>1. v \in Holders(d) /\ v \in Dispatchers /\ work'[v] = work[v]
      BY <1>2, <2>2 DEF Holders
    <3>2. work[v].copy[d].attempts \in Nat
      BY <3>1, Numbers
    <3> QED
      BY <1>2, <1>3, <1>5, <3>1, <3>2
  <2> QED
    BY <2>1, <2>2
<1>8. TriesCounted(d)'
  BY <1>1, <1>2, <1>3, <1>4, <1>7 DEF TriesCounted
<1> QED
  BY <1>6, <1>8 DEF Accounted

\* What is written back has the attempts of the object, which were all made.
LEMMA SaveIsAccounted ==
    ASSUME WorkInv, TallyTyped, TallyTyped',
           NEW d \in Outbox!Deliveries, Accounted(d), NEW w \in Dispatchers,
           \A v \in Dispatchers : v # w => work'[v] = work[v],
           d \in work[w].batch, d \notin work[w].left,
           d \notin work'[w].batch, d \notin work'[w].left,
           delivery'[d] = work[w].copy[d],
           UNCHANGED <<pushes, tries, overlaps, crashes>>
    PROVE  Accounted(d)'
<1> DEFINE P == pushes[d]
           N == tries[d]
           A == Cardinality(Open(d))
           L == Cardinality(Waiting(d))
           E == Extra(d)
           C == work[w].copy[d].attempts
<1>1. /\ w \in Holders(d) /\ w \notin Waiting(d)
      /\ w \notin Holders(d)' /\ w \notin Open(d)' /\ w \notin Waiting(d)'
      /\ w \in Open(d) <=> delivery'[d].status = "pending"
      /\ delivery'[d].status # "none"
  BY DEF Holders, Open, Waiting, WorkInv, Holding
<1>2. /\ A \in Nat /\ L \in Nat /\ Cardinality(Waiting(d))' = L
      /\ Cardinality(Open(d))' = A - (IF w \in Open(d) THEN 1 ELSE 0)
      /\ Cardinality(Open(d))' \in Nat
      /\ \A v : v # w => (v \in Holders(d) <=> v \in Holders(d)')
  BY <1>1, CountsMove
<1>3. /\ P \in Nat /\ N \in Nat /\ E \in Nat /\ C \in Nat /\ Extra(d)' = E
      /\ delivery'[d].attempts = C
  BY Numbers DEF Extra
<1>4. P + A <= 1 + E /\ N + L <= C + E
  BY <1>1, <1>3 DEF Accounted, PushesCounted, TriesCounted
<1>5. \A v \in Holders(d) : N + L <= work[v].copy[d].attempts + E + IF d \in work[v].left THEN 1 ELSE 0
  BY DEF Accounted, TriesCounted
<1>6. PushesCounted(d)'
  BY <1>1, <1>2, <1>3, <1>4 DEF PushesCounted
<1>7. ASSUME NEW v \in Holders(d)'
      PROVE  N + L <= work'[v].copy[d].attempts + E + IF d \in work'[v].left THEN 1 ELSE 0
  <2>1. v \in Holders(d) /\ v \in Dispatchers /\ work'[v] = work[v]
    BY <1>1, <1>2 DEF Holders
  <2> QED
    BY <1>5, <2>1
<1>8. TriesCounted(d)'
  BY <1>2, <1>3, <1>4, <1>7 DEF TriesCounted
<1> QED
  BY <1>6, <1>8 DEF Accounted

\* A dispatcher dies: its object and what it counted are lost.
LEMMA CrashIsAccounted ==
    ASSUME WorkInv, TallyTyped, TallyTyped',
           NEW d \in Outbox!Deliveries, Accounted(d), NEW w \in Dispatchers,
           \A v \in Dispatchers : v # w => work'[v] = work[v],
           d \in work[w].batch, d \notin work'[w].batch, d \notin work'[w].left,
           UNCHANGED <<delivery, pushes, tries, overlaps>>, crashes' = crashes + 1
    PROVE  Accounted(d)'
<1> DEFINE P == pushes[d]
           N == tries[d]
           A == Cardinality(Open(d))
           L == Cardinality(Waiting(d))
           E == Extra(d)
           M == delivery[d].attempts
<1>1. /\ w \in Holders(d)
      /\ w \notin Holders(d)' /\ w \notin Open(d)' /\ w \notin Waiting(d)'
  BY DEF Holders, Open, Waiting
<1>2. /\ A \in Nat /\ L \in Nat
      /\ Cardinality(Waiting(d))' \in Nat /\ Cardinality(Waiting(d))' <= L
      /\ Cardinality(Open(d))' \in Nat /\ Cardinality(Open(d))' <= A
      /\ \A v : v # w => (v \in Holders(d) <=> v \in Holders(d)')
  BY <1>1, CountsMove
<1>3. /\ P \in Nat /\ N \in Nat /\ E \in Nat /\ M \in Nat /\ Extra(d)' = E + 1
  BY Numbers DEF Extra
<1>4. P + A <= 1 + E /\ N + L <= M + 1 + E
  BY <1>1, <1>3 DEF Accounted, PushesCounted, TriesCounted
<1>5. \A v \in Holders(d) : N + L <= work[v].copy[d].attempts + E + IF d \in work[v].left THEN 1 ELSE 0
  BY DEF Accounted, TriesCounted
<1>6. PushesCounted(d)'
  BY <1>1, <1>2, <1>3, <1>4 DEF PushesCounted
<1>7. ASSUME NEW v \in Holders(d)'
      PROVE  N + Cardinality(Waiting(d))' <=
                work'[v].copy[d].attempts + (E + 1) + IF d \in work'[v].left THEN 1 ELSE 0
  <2>1. v \in Holders(d) /\ v \in Dispatchers /\ work'[v] = work[v]
    BY <1>1, <1>2 DEF Holders
  <2>2. work[v].copy[d].attempts \in Nat
    BY <2>1, Numbers
  <2> QED
    BY <1>2, <1>3, <1>5, <2>1, <2>2
<1>8. TriesCounted(d)'
  BY <1>2, <1>3, <1>4, <1>7 DEF TriesCounted
<1> QED
  BY <1>6, <1>8 DEF Accounted

LEMMA TallyUntouched ==
    ASSUME TallyInv, UNCHANGED <<delivery, work, pushes, tries, overlaps, crashes>>
    PROVE  TallyInv'
BY DEF TallyInv, TallyTyped, Accounted, PushesCounted, TriesCounted, Holders, Open, Waiting,
       Senders, Extra

LEMMA BackoffKeepsTally ==
    ASSUME WorkInv, WorkInv', TallyInv, NEW e \in Outbox!Deliveries, Outbox!Backoff(e)
    PROVE  TallyInv'
<1>1. /\ delivery' = [delivery EXCEPT ![e].due = TRUE]
      /\ UNCHANGED <<work, pushes, tries, overlaps, crashes>>
  BY DEF Outbox!Backoff, Outbox!tally
<1>2. TallyTyped'
  BY <1>1 DEF TallyInv, TallyTyped, Senders
<1>3. ASSUME NEW d \in Outbox!Deliveries
      PROVE  Accounted(d)'
  <2>1. delivery'[d].status = delivery[d].status /\ delivery'[d].attempts = delivery[d].attempts
    BY <1>1 DEF WorkInv, DeliveriesTyped, Outbox!Delivery
  <2>2. crashes' >= crashes
    BY <1>1 DEF TallyInv, TallyTyped
  <2> QED
    BY <1>1, <1>2, <2>1, <2>2, AccountedAside DEF TallyInv
<1> QED
  BY <1>2, <1>3 DEF TallyInv

\* A step of a dispatcher that neither had nor has anything to send.
LEMMA EnqueueingKeepsTally ==
    ASSUME WorkInv, WorkInv', TallyInv, NEW w \in Dispatchers,
           \/ Outbox!ReadNotices(w) \/ Outbox!CreateDeliveries(w) \/ Outbox!MarkProcessed(w)
           \/ Outbox!SaveDevices(w)
    PROVE  TallyInv'
<1>1. /\ work[w].at # "sending" /\ work'[w].at # "sending"
      /\ \A v \in Dispatchers : v # w => work'[v] = work[v]
      /\ UNCHANGED <<pushes, tries, overlaps, crashes>>
  <2>1. CASE Outbox!ReadNotices(w)
    BY <2>1 DEF Outbox!ReadNotices, Outbox!tally, Outbox!Idle, WorkInv
  <2>2. CASE Outbox!CreateDeliveries(w)
    BY <2>2 DEF Outbox!CreateDeliveries, Outbox!tally, WorkInv, Outbox!Work
  <2>3. CASE Outbox!MarkProcessed(w)
    BY <2>3 DEF Outbox!MarkProcessed, Outbox!tally, Outbox!Idle, WorkInv
  <2>4. CASE Outbox!SaveDevices(w)
    BY <2>4 DEF Outbox!SaveDevices, Outbox!tally, Outbox!Idle, WorkInv
  <2> QED
    BY <2>1, <2>2, <2>3, <2>4
<1>2. /\ work[w].batch = {} /\ work[w].left = {}
      /\ work'[w].batch = {} /\ work'[w].left = {}
  BY <1>1 DEF WorkInv, Holding
<1>3. TallyTyped'
  BY <1>1, SendersMove DEF TallyInv, TallyTyped
<1>4. ASSUME NEW d \in Outbox!Deliveries
      PROVE  Accounted(d)'
  <2>1. /\ delivery'[d].attempts = delivery[d].attempts
        /\ delivery'[d].status = delivery[d].status \/ delivery[d].status = "none"
    <3>1. CASE Outbox!CreateDeliveries(w)
      BY <3>1 DEF Outbox!CreateDeliveries, WorkInv, DeliveriesTyped
    <3>2. CASE ~Outbox!CreateDeliveries(w)
      BY <3>2 DEF Outbox!ReadNotices, Outbox!MarkProcessed, Outbox!SaveDevices
    <3> QED
      BY <3>1, <3>2
  <2>2. delivery[d].status = "none" => Holders(d) = {}
    BY DEF WorkInv, Holding, Holders
  <2>3. \A v \in Dispatchers :
           /\ d \in work'[v].batch <=> d \in work[v].batch
           /\ d \in work'[v].left <=> d \in work[v].left
           /\ d \in work[v].batch => work'[v].copy[d] = work[v].copy[d]
    BY <1>1, <1>2
  <2>4. crashes' >= crashes
    BY <1>1 DEF TallyInv, TallyTyped
  <2> QED
    BY <1>1, <1>3, <2>1, <2>2, <2>3, <2>4, AccountedAside DEF TallyInv
<1> QED
  BY <1>3, <1>4 DEF TallyInv

LEMMA ReadBatchKeepsTally ==
    ASSUME WorkInv, WorkInv', TallyInv, NEW w \in Dispatchers, Outbox!ReadBatch(w)
    PROVE  TallyInv'
<1> DEFINE batch == {d \in Outbox!Deliveries : Outbox!Ready(d)}
           r == IF batch = {} THEN Outbox!Idle ELSE ReadObject(w, batch)
<1>1. /\ work[w].at = "queued"
      /\ work' = [work EXCEPT ![w] = r]
      /\ overlaps' = [d \in Outbox!Deliveries |->
             overlaps[d] + IF d \in batch \cap Outbox!HeldByOthers(w) THEN 1 ELSE 0]
      /\ UNCHANGED <<delivery, pushes, tries, crashes>>
  BY DEF Outbox!ReadBatch, ReadObject
<1>2. \A d \in batch : d \in Outbox!Deliveries /\ delivery[d].status = "pending"
  BY DEF Outbox!Ready
<1>3. /\ r.batch = batch /\ r.left = batch
      /\ \A d \in batch : r.copy[d] = delivery[d]
  BY <1>2 DEF ReadObject, Outbox!Idle
<1>4. work'[w] = r /\ \A v \in Dispatchers : v # w => work'[v] = work[v]
  BY <1>1 DEF WorkInv
<1>5. work[w].batch = {} /\ work[w].left = {}
  BY <1>1 DEF WorkInv, Holding
<1> HIDE DEF batch, r
<1>6. TallyTyped'
  BY <1>1, <1>4, SendersMove DEF TallyInv, TallyTyped
<1>7. ASSUME NEW d \in Outbox!Deliveries
      PROVE  Accounted(d)'
  <2>1. CASE d \in batch
    <3>1. d \in Outbox!HeldByOthers(w) <=> Holders(d) # {}
      BY <1>5 DEF Outbox!HeldByOthers, Holders
    <3>2. overlaps'[d] = overlaps[d] + IF Holders(d) = {} THEN 0 ELSE 1
      BY <1>1, <2>1, <3>1
    <3> QED
      BY <1>1, <1>2, <1>3, <1>4, <1>5, <1>6, <2>1, <3>2, ReadIsAccounted DEF TallyInv
  <2>2. CASE d \notin batch
    <3>1. overlaps'[d] = overlaps[d] /\ crashes' >= crashes
      BY <1>1, <2>2 DEF TallyInv, TallyTyped
    <3> QED
      BY <1>1, <1>3, <1>4, <1>5, <1>6, <2>2, <3>1, AccountedAside DEF TallyInv
  <2> QED
    BY <2>1, <2>2
<1> QED
  BY <1>6, <1>7 DEF TallyInv

LEMMA PushKeepsTally ==
    ASSUME WorkInv, WorkInv', TallyInv, NEW w \in Dispatchers, NEW e \in Outbox!Deliveries,
           NEW answer \in Outbox!Answers, Outbox!Push(w, e, answer)
    PROVE  TallyInv'
<1>1. /\ tries' = [tries EXCEPT ![e] = @ + 1]
      /\ pushes' = [pushes EXCEPT ![e] = IF answer = "ok" THEN @ + 1 ELSE @]
      /\ UNCHANGED <<delivery, overlaps, crashes>>
      /\ e \in work[w].left
  BY DEF Outbox!Push
<1>2. work' = [work EXCEPT ![w] = Pushed(w, e, answer)]
  BY PushIsSound
<1>3. PICK n \in Nat : n = work[w].copy[e].attempts /\ n < Attempts /\ work[w].copy[e].status = "pending"
  BY PushIsSound
<1>4. /\ work'[w].batch = work[w].batch /\ work'[w].left = work[w].left \ {e}
      /\ \A v \in Dispatchers : v # w => work'[v] = work[v]
  BY <1>2, PushedObject DEF WorkInv
<1>5. work'[w].copy = [work[w].copy EXCEPT ![e] = Outbox!Outcome(answer, n + 1)]
  <2>1. Pushed(w, e, answer).copy = [work[w].copy EXCEPT ![e] = Outbox!Outcome(answer, n + 1)]
    BY <1>3, PushIsSound
  <2> QED
    BY <1>2, <2>1 DEF WorkInv
<1>6. work'[w].copy[e] = Outbox!Outcome(answer, n + 1) /\ \A d : d # e => work'[w].copy[d] = work[w].copy[d]
  BY <1>5 DEF WorkInv, Outbox!Work
<1>7. TallyTyped'
  BY <1>1, <1>4, SendersMove DEF TallyInv, TallyTyped
<1>8. ASSUME NEW d \in Outbox!Deliveries
      PROVE  Accounted(d)'
  <2>1. CASE d = e
    <3>1. work'[w].copy[e].attempts = n + 1 /\ (work'[w].copy[e].status = "pending" => answer # "ok")
      BY <1>3, <1>6, OutcomeOfAttempt
    <3>2. /\ tries'[e] = tries[e] + 1
          /\ \/ pushes'[e] = pushes[e]
             \/ pushes'[e] = pushes[e] + 1 /\ work'[w].copy[e].status # "pending"
      BY <1>1, <3>1 DEF TallyInv, TallyTyped
    <3> QED
      BY <1>1, <1>3, <1>4, <1>7, <2>1, <3>1, <3>2, PushIsAccounted DEF TallyInv
  <2>2. CASE d # e
    <3>1. UNCHANGED <<pushes[d], tries[d], overlaps[d]>> /\ crashes' >= crashes
      BY <1>1, <2>2 DEF TallyInv, TallyTyped
    <3> QED
      BY <1>1, <1>4, <1>6, <1>7, <2>2, <3>1, AccountedAside DEF TallyInv
  <2> QED
    BY <2>1, <2>2
<1> QED
  BY <1>7, <1>8 DEF TallyInv

LEMMA SaveKeepsTally ==
    ASSUME WorkInv, WorkInv', TallyInv, NEW w \in Dispatchers, Outbox!SaveDeliveries(w)
    PROVE  TallyInv'
<1>1. /\ work[w].left = {}
      /\ delivery' = [d \in Outbox!Deliveries |->
             IF d \in work[w].batch THEN work[w].copy[d] ELSE delivery[d]]
      /\ work'[w].batch = {} /\ work'[w].left = {}
      /\ \A v \in Dispatchers : v # w => work'[v] = work[v]
      /\ UNCHANGED <<pushes, tries, overlaps, crashes>>
  BY DEF Outbox!SaveDeliveries, Outbox!tally, Outbox!Idle, WorkInv
<1>2. TallyTyped'
  BY <1>1, SendersMove DEF TallyInv, TallyTyped
<1>3. ASSUME NEW d \in Outbox!Deliveries
      PROVE  Accounted(d)'
  <2>1. CASE d \in work[w].batch
    BY <1>1, <1>2, <2>1, SaveIsAccounted DEF TallyInv
  <2>2. CASE d \notin work[w].batch
    <3>1. delivery'[d] = delivery[d] /\ crashes' >= crashes
      BY <1>1, <2>2 DEF TallyInv, TallyTyped
    <3> QED
      BY <1>1, <1>2, <2>2, <3>1, AccountedAside DEF TallyInv
  <2> QED
    BY <2>1, <2>2
<1> QED
  BY <1>2, <1>3 DEF TallyInv

LEMMA CrashKeepsTally ==
    ASSUME WorkInv, WorkInv', TallyInv, NEW w \in Dispatchers, Outbox!Crash(w)
    PROVE  TallyInv'
<1>1. /\ work'[w].batch = {} /\ work'[w].left = {}
      /\ \A v \in Dispatchers : v # w => work'[v] = work[v]
      /\ crashes' = crashes + 1
      /\ UNCHANGED <<delivery, pushes, tries, overlaps>>
  BY DEF Outbox!Crash, Outbox!Idle, WorkInv
<1>2. TallyTyped'
  BY <1>1, SendersMove DEF TallyInv, TallyTyped
<1>3. ASSUME NEW d \in Outbox!Deliveries
      PROVE  Accounted(d)'
  <2>1. CASE d \in work[w].batch
    BY <1>1, <1>2, <2>1, CrashIsAccounted DEF TallyInv
  <2>2. CASE d \notin work[w].batch
    <3>1. crashes' >= crashes /\ d \notin work[w].left
      BY <1>1, <2>2 DEF TallyInv, TallyTyped, WorkInv, Holding
    <3> QED
      BY <1>1, <1>2, <2>2, <3>1, AccountedAside DEF TallyInv
  <2> QED
    BY <2>1, <2>2
<1> QED
  BY <1>2, <1>3 DEF TallyInv

LEMMA TallyKept ==
    SceneInv /\ WorkInv /\ WorkInv' /\ TallyInv /\ [Next]_vars => TallyInv'
<1> SUFFICES ASSUME SceneInv, WorkInv, WorkInv', TallyInv, [Next]_vars
             PROVE  TallyInv'
  OBVIOUS
<1>1. ASSUME NEW w \in Dispatchers, Outbox!Dispatch(w) \/ Outbox!Crash(w)
      PROVE  TallyInv'
  BY <1>1, EnqueueingKeepsTally, ReadBatchKeepsTally, PushKeepsTally, SaveKeepsTally,
     CrashKeepsTally DEF Outbox!Dispatch, Outbox!Proceed
<1>2. ASSUME \/ \E n \in Notices : Outbox!Activity(n)
             \/ \E a \in Accounts : Outbox!Account(a)
             \/ UNCHANGED alerts
      PROVE  UNCHANGED <<delivery, work, pushes, tries, overlaps, crashes>>
  BY <1>2 DEF Outbox!Activity, Outbox!Notify, Outbox!GrowOld, Outbox!Account, Outbox!SignOut,
              Outbox!Subscribe, Outbox!Unsubscribe, Outbox!Silence, Outbox!tally, alerts
<1> QED
  BY <1>1, <1>2, WhoTakesPart, TallyUntouched, BackoffKeepsTally

LEMMA TallyStarts == Outbox!OutboxInit => TallyInv
<1> SUFFICES ASSUME Outbox!OutboxInit PROVE TallyInv
  OBVIOUS
<1>1. \A w \in Dispatchers : work[w].batch = {} /\ work[w].left = {}
  BY DEF Outbox!OutboxInit, Outbox!Idle
<1>2. Senders = {} /\ \A d : Holders(d) = {} /\ Open(d) = {} /\ Waiting(d) = {}
  BY <1>1 DEF Senders, Holders, Open, Waiting
<1>3. TallyTyped
  BY <1>2, FS_EmptySet DEF Outbox!OutboxInit, TallyTyped
<1>4. ASSUME NEW d \in Outbox!Deliveries
      PROVE  Accounted(d)
  <2>1. pushes[d] = 0 /\ tries[d] = 0 /\ overlaps[d] = 0 /\ crashes = 0 /\ delivery[d].attempts = 0
    BY DEF Outbox!OutboxInit, Outbox!Idle
  <2> QED
    BY <1>2, <2>1, FS_EmptySet DEF Accounted, PushesCounted, TriesCounted, Extra
<1> QED
  BY <1>3, <1>4 DEF TallyInv

LEMMA TallyIsEnough == WorkInv /\ TallyInv => PushesAreAccountedFor
<1> SUFFICES ASSUME WorkInv, TallyInv, NEW d \in Outbox!Deliveries
             PROVE  /\ pushes[d] <= 1 + overlaps[d] + crashes
                    /\ tries[d] <= Attempts + overlaps[d] + crashes
  BY DEF PushesAreAccountedFor, Outbox!PushesAreAccountedFor
<1>1. TallyTyped /\ PushesCounted(d) /\ TriesCounted(d)
  BY DEF TallyInv, Accounted
<1>2. Cardinality(Open(d)) \in Nat /\ Cardinality(Waiting(d)) \in Nat
  BY <1>1, FewAreOpen, FS_CardinalityType
<1>3. pushes[d] <= 1 + overlaps[d] + crashes
  BY <1>1, <1>2, Numbers DEF PushesCounted
<1>4. CASE Holders(d) = {}
  <2>1. tries[d] <= delivery[d].attempts + Extra(d)
    BY <1>1, <1>4 DEF TriesCounted
  <2> QED
    BY <1>1, <1>3, <2>1, AttemptsArePositive, Numbers
<1>5. CASE Holders(d) # {}
  <2>1. PICK w \in Dispatchers : w \in Holders(d)
    BY <1>5 DEF Holders
  <2>2. tries[d] + Cardinality(Waiting(d)) <=
           work[w].copy[d].attempts + Extra(d) + IF d \in work[w].left THEN 1 ELSE 0
    BY <1>1, <2>1 DEF TriesCounted
  <2>3. d \in work[w].left => work[w].copy[d].attempts < Attempts
    BY <2>1 DEF Holders, WorkInv, Holding
  <2> QED
    BY <1>1, <1>2, <1>3, <2>2, <2>3, AttemptsArePositive, Numbers
<1> QED
  BY <1>4, <1>5

(***************************************************************************)
(* However many dispatchers read the same deliveries and die with them, a  *)
(* notice reaches a device once, and once more for every overlap and every *)
(* crash; and a delivery is tried as often as it may be, and once more for *)
(* each of these.                                                          *)
(***************************************************************************)
THEOREM PushesTheorem == Spec => []PushesAreAccountedFor
<1>1. Init => SceneInv /\ DevicesInv /\ WorkInv /\ TallyInv
  BY WorkStarts, TallyStarts DEF Init, SceneInv
<1> QED
  BY <1>1, SceneKept, DevicesKept, WorkKept, TallyKept, TallyIsEnough, PTL DEF Spec

-----------------------------------------------------------------------------
(* Types *)

\* What the account of paid time does not depend on.
RestTyped ==
    /\ clock \in 1 .. MaxTime
    /\ rows \subseteq Modules
    /\ checking \in [Workers -> Payments \cup {None}]
    /\ job \in {Idle} \cup Reading \cup Writing
    /\ reopened \subseteq Payments
    /\ gaps \subseteq {"stale", "behind", "revoked"} /\ died \in BOOLEAN

LEMMA GrantsAreModules == ASSUME NEW r PROVE Granted(r) \subseteq Modules
BY DEF Granted, PlanModules, Modules

LEMMA RestStays ==
    ASSUME RestTyped, UNCHANGED <<clock, rows, checking, job, reopened, gaps, died>>
    PROVE  RestTyped'
BY DEF RestTyped, Reading, Writing

LEMMA MarkingKeepsRest ==
    ASSUME RestTyped, NEW p, MarkPaid(p)
    PROVE  rows' \subseteq Modules /\ gaps' \subseteq gaps /\ UNCHANGED <<reopened, died>>
<1>1. CASE Settled(p)
  BY <1>1 DEF MarkPaid, RestTyped, ghost
<1>2. CASE ~Settled(p) /\ Outdated(p)
  BY <1>2 DEF MarkPaid, RestTyped
<1>3. CASE ~Settled(p) /\ ~Outdated(p)
  BY <1>3, GrantsAreModules DEF MarkPaid, RestTyped
<1> QED
  BY <1>1, <1>2, <1>3

LEMMA PaymentsKeepRest ==
    ASSUME RestTyped, NEW p \in Payments, Customer(p) \/ \E w \in Workers : Provider(w, p)
    PROVE  RestTyped'
<1>1. ASSUME (\E plan \in Plans : OpenPayment(p, plan)) \/ Charge(p)
      PROVE  RestTyped'
  BY <1>1, RestStays DEF OpenPayment, Charge, ghost
<1>2. CASE GatewayAnswers(p)
  <2>1. UNCHANGED <<clock, rows, checking, job, gaps, died>> /\ reopened' \in {reopened, reopened \cup {p}}
    BY <1>2 DEF GatewayAnswers
  <2> QED
    BY <2>1 DEF RestTyped, Reading, Writing
<1>3. CASE FounderConfirms(p)
  <2>1. MarkPaid(p) /\ UNCHANGED <<clock, checking, job>>
    BY <1>3 DEF FounderConfirms
  <2> QED
    BY <2>1, MarkingKeepsRest DEF RestTyped, Reading, Writing
<1>4. ASSUME NEW w \in Workers, Check(w, p)
      PROVE  RestTyped'
  <2>1. checking' = [checking EXCEPT ![w] = p] /\ UNCHANGED <<clock, rows, job, reopened, gaps, died>>
    BY <1>4 DEF Check, ghost
  <2> QED
    BY <2>1 DEF RestTyped, Reading, Writing
<1>5. ASSUME NEW w \in Workers, Confirm(w)
      PROVE  RestTyped'
  <2>1. checking' = [checking EXCEPT ![w] = None] /\ UNCHANGED <<clock, job>>
    BY <1>5 DEF Confirm
  <2>2. rows' \subseteq Modules /\ gaps' \subseteq gaps /\ UNCHANGED <<reopened, died>>
    BY <1>5, MarkingKeepsRest DEF Confirm, RestTyped, ghost
  <2> QED
    BY <2>1, <2>2 DEF RestTyped, Reading, Writing
<1> QED
  BY <1>1, <1>2, <1>3, <1>4, <1>5 DEF Customer, Provider

LEMMA EditsKeepRest ==
    ASSUME RestTyped, NEW s \in Staff, Member(s)
    PROVE  RestTyped'
<1>1. ASSUME NEW kind, NEW plan, Read(s, kind, plan)
      PROVE  RestTyped'
  BY <1>1, RestStays DEF Read, due, ghost
<1>2. CASE Save(s)
  <2>1. rows' \subseteq Modules /\ UNCHANGED <<clock, checking, job, reopened, died>>
    BY <1>2, GrantsAreModules DEF Save, due
  <2>2. gaps' \subseteq gaps \cup {"stale", "revoked"}
    BY <1>2 DEF Save
  <2> QED
    BY <2>1, <2>2 DEF RestTyped, Reading, Writing
<1> QED
  BY <1>1, <1>2 DEF Member

LEMMA JobKeepsRest ==
    ASSUME RestTyped, BillingTyped, Sync \/ SyncDies \/ Tick \/ \E plan \in Plans : StartTrial(plan)
    PROVE  RestTyped'
<1>1. CASE SyncRead
  <2>1. job' = [at |-> "decide", row |-> sub] /\ UNCHANGED <<clock, rows, checking, reopened, gaps, died>>
    BY <1>1 DEF SyncRead, due, ghost
  <2> QED
    BY <2>1 DEF RestTyped, BillingTyped, Reading, Writing
<1>2. CASE SyncDecide
  <2>1. job' = [at |-> "apply"] /\ UNCHANGED <<clock, rows, checking, reopened, died>>
    BY <1>2 DEF SyncDecide, SyncNext, due
  <2>2. gaps' \subseteq gaps \cup {"behind"}
    BY <1>2 DEF SyncDecide
  <2> QED
    BY <2>1, <2>2 DEF RestTyped, Reading, Writing
<1>3. CASE SyncApply
  <2>1. job' = [at |-> "write", rows |-> Granted(sub)]
        /\ UNCHANGED <<clock, rows, checking, reopened, gaps, died>>
    BY <1>3 DEF SyncApply, due, ghost
  <2> QED
    BY <2>1, GrantsAreModules DEF RestTyped, Reading, Writing
<1>4. CASE SyncWrite
  <2>1. /\ job.at = "write" /\ rows' = job.rows /\ job' = Idle
        /\ UNCHANGED <<clock, checking, reopened, gaps, died>>
    BY <1>4 DEF SyncWrite, due, ghost
  <2>2. job.rows \subseteq Modules
    BY <2>1 DEF RestTyped, Idle, Reading, Writing
  <2> QED
    BY <2>1, <2>2 DEF RestTyped, Reading, Writing
<1>5. CASE SyncDies
  <2>1. job' = Idle /\ died' = TRUE /\ UNCHANGED <<clock, rows, checking, reopened, gaps>>
    BY <1>5 DEF SyncDies, due
  <2> QED
    BY <2>1 DEF RestTyped, Reading, Writing
<1>6. CASE Tick
  <2>1. clock < MaxTime /\ clock' = clock + 1 /\ UNCHANGED <<rows, checking, job, reopened, gaps, died>>
    BY <1>6 DEF Tick, due, ghost
  <2>2. clock' \in 1 .. MaxTime
    BY <2>1, SubscriptionsAssumption DEF RestTyped
  <2> QED
    BY <2>1, <2>2 DEF RestTyped, Reading, Writing
<1>7. ASSUME NEW plan \in Plans, StartTrial(plan)
      PROVE  RestTyped'
  <2>1. rows' \subseteq Modules /\ UNCHANGED <<clock, checking, job, reopened, gaps, died>>
    BY <1>7, GrantsAreModules DEF StartTrial, due, ghost
  <2> QED
    BY <2>1 DEF RestTyped, Reading, Writing
<1> QED
  BY <1>1, <1>2, <1>3, <1>4, <1>5, <1>6, <1>7 DEF Sync

LEMMA RestKept == SceneInv /\ BillingInv /\ RestTyped /\ [Next]_vars => RestTyped'
<1> SUFFICES ASSUME SceneInv, BillingInv, RestTyped, [Next]_vars
             PROVE  RestTyped'
  OBVIOUS
<1>1. scene.payments \subseteq Payments /\ scene.workers \subseteq Workers /\ scene.staff \subseteq Staff
  BY JobsAssumption DEF SceneInv
<1>2. CASE Billing
  BY <1>1, <1>2, PaymentsKeepRest, EditsKeepRest, JobKeepsRest DEF Billing, BillingInv
<1>3. CASE Alerts \/ UNCHANGED vars
  BY <1>3, RestStays DEF Alerts, vars, billing, due, ghost
<1> QED
  BY <1>2, <1>3 DEF Next

\* What is only counted, and the users' wishes.
GhostsTyped ==
    /\ wanted \subseteq Outbox!Devices
    /\ overlaps \in [Outbox!Deliveries -> 0 .. MaxOverlaps] /\ crashes \in 0 .. MaxCrashes

LEMMA DispatchKeepsGhosts ==
    ASSUME GhostsTyped, NEW w \in Dispatchers, Outbox!Dispatch(w) \/ Outbox!Crash(w)
    PROVE  GhostsTyped'
<1>1. CASE Outbox!ReadBatch(w)
  <2> DEFINE batch == {d \in Outbox!Deliveries : Outbox!Ready(d)}
             again == batch \cap Outbox!HeldByOthers(w)
  <2>1. /\ \A d \in again : overlaps[d] < MaxOverlaps
        /\ overlaps' = [d \in Outbox!Deliveries |-> overlaps[d] + IF d \in again THEN 1 ELSE 0]
        /\ UNCHANGED <<wanted, crashes>>
    BY <1>1 DEF Outbox!ReadBatch, Outbox!gear
  <2> HIDE DEF again
  <2>2. MaxOverlaps \in Nat
    BY JobsAssumption
  <2>3. ASSUME NEW d \in Outbox!Deliveries
        PROVE  (overlaps[d] + IF d \in again THEN 1 ELSE 0) \in 0 .. MaxOverlaps
    <3>1. overlaps[d] \in 0 .. MaxOverlaps
      BY DEF GhostsTyped
    <3>2. CASE d \in again
      BY <2>1, <2>2, <3>1, <3>2
    <3>3. CASE d \notin again
      BY <2>2, <3>1, <3>3
    <3> QED
      BY <3>2, <3>3
  <2> QED
    BY <2>1, <2>3 DEF GhostsTyped
<1>2. CASE Outbox!Crash(w)
  <2>1. crashes < MaxCrashes /\ crashes' = crashes + 1 /\ UNCHANGED <<wanted, overlaps>>
    BY <1>2 DEF Outbox!Crash, Outbox!gear
  <2>2. MaxCrashes \in Nat
    BY JobsAssumption
  <2> QED
    BY <2>1, <2>2 DEF GhostsTyped
<1>3. ASSUME \/ Outbox!ReadNotices(w) \/ Outbox!CreateDeliveries(w) \/ Outbox!MarkProcessed(w)
             \/ \E d \in Outbox!Deliveries, answer \in Outbox!Answers : Outbox!Push(w, d, answer)
             \/ Outbox!SaveDeliveries(w) \/ Outbox!SaveDevices(w)
      PROVE  UNCHANGED <<wanted, overlaps, crashes>>
  BY <1>3 DEF Outbox!ReadNotices, Outbox!CreateDeliveries, Outbox!MarkProcessed, Outbox!Push,
              Outbox!SaveDeliveries, Outbox!SaveDevices, Outbox!gear, Outbox!tally
<1>4. ASSUME UNCHANGED <<wanted, overlaps, crashes>>
      PROVE  GhostsTyped'
  BY <1>4 DEF GhostsTyped
<1> QED
  BY <1>1, <1>2, <1>3, <1>4 DEF Outbox!Dispatch, Outbox!Proceed

LEMMA GhostsKept == SceneInv /\ GhostsTyped /\ [Next]_vars => GhostsTyped'
<1> SUFFICES ASSUME SceneInv, GhostsTyped, [Next]_vars
             PROVE  GhostsTyped'
  OBVIOUS
<1>1. ASSUME NEW n \in Notices, Outbox!Activity(n)
      PROVE  UNCHANGED <<wanted, overlaps, crashes>>
  BY <1>1 DEF Outbox!Activity, Outbox!Notify, Outbox!GrowOld, Outbox!gear, Outbox!tally
<1>2. ASSUME NEW a \in Accounts, Outbox!Account(a)
      PROVE  UNCHANGED <<overlaps, crashes>> /\ wanted' \subseteq Outbox!Devices
  <2>1. ASSUME NEW D, Outbox!Silence(D)
        PROVE  UNCHANGED <<overlaps, crashes>> /\ wanted' \subseteq Outbox!Devices
    BY <2>1 DEF Outbox!Silence, Outbox!tally, GhostsTyped
  <2>2. ASSUME NEW b \in Browsers, Outbox!Subscribe(<<a, b>>)
        PROVE  UNCHANGED <<overlaps, crashes>> /\ wanted' \subseteq Outbox!Devices
    BY <2>2 DEF Outbox!Subscribe, Outbox!tally, Outbox!Devices, GhostsTyped
  <2> QED
    BY <1>2, <2>1, <2>2 DEF Outbox!Account, Outbox!SignOut, Outbox!Unsubscribe
<1>3. ASSUME NEW d \in Outbox!Deliveries, Outbox!Backoff(d)
      PROVE  UNCHANGED <<wanted, overlaps, crashes>>
  BY <1>3 DEF Outbox!Backoff, Outbox!gear, Outbox!tally
<1>4. ASSUME UNCHANGED alerts
      PROVE  UNCHANGED <<wanted, overlaps, crashes>>
  BY <1>4 DEF alerts
<1>5. ASSUME UNCHANGED <<overlaps, crashes>>, wanted' \subseteq Outbox!Devices
      PROVE  GhostsTyped'
  BY <1>5 DEF GhostsTyped
<1>6. wanted \subseteq Outbox!Devices
  BY DEF GhostsTyped
<1> QED
  BY <1>1, <1>2, <1>3, <1>4, <1>5, <1>6, WhoTakesPart, DispatchKeepsGhosts

\* The subscription, its payments and job, and the outbox have their types,
\* and no counter passes its bound.
THEOREM JobsTypeCorrect == Spec => []TypeOK
<1> DEFINE Inv == SceneInv /\ BillingInv /\ RestTyped /\ DevicesInv /\ WorkInv /\ NoticeInv
                    /\ TallyInv /\ GhostsTyped
<1>1. Init => RestTyped
  <2> SUFFICES ASSUME Init PROVE RestTyped
    OBVIOUS
  <2>1. rows \subseteq Modules
    BY GrantsAreModules DEF Init, BillingInit
  <2>2. clock \in 1 .. MaxTime
    BY SubscriptionsAssumption DEF Init, BillingInit
  <2> QED
    BY <2>1, <2>2 DEF Init, BillingInit, RestTyped
<1>2. Init => GhostsTyped
  <2>1. 0 \in 0 .. MaxOverlaps /\ 0 \in 0 .. MaxCrashes
    BY JobsAssumption
  <2> QED
    BY <2>1 DEF Init, Outbox!OutboxInit, GhostsTyped
<1>3. Init => SceneInv /\ BillingInv /\ DevicesInv /\ WorkInv /\ TallyInv
  BY BillingStarts, WorkStarts, TallyStarts DEF Init, SceneInv
<1>4. Init => NoticeInv
  BY NoticesStart DEF Init
<1>5. Inv /\ [Next]_vars => Inv'
  BY SceneKept, BillingKept, RestKept, DevicesKept, WorkKept, NoticesKept, TallyKept, GhostsKept
<1>6. Inv => TypeOK
  <2> SUFFICES ASSUME Inv PROVE TypeOK
    OBVIOUS
  <2>1. BillingTypeOK
    BY DEF BillingInv, BillingTyped, RestTyped, BillingTypeOK
  <2>2. Outbox!OutboxTypeOK
    BY DEF DevicesInv, WorkInv, DeliveriesTyped, NoticeInv, NoticeTyped, TallyInv, TallyTyped,
           GhostsTyped, Outbox!OutboxTypeOK
  <2> QED
    BY <2>1, <2>2 DEF SceneInv, TypeOK
<1> QED
  BY <1>1, <1>2, <1>3, <1>4, <1>5, <1>6, PTL DEF Spec
=============================================================================
