--------------------------- MODULE CommercePayments ---------------------------
(***************************************************************************)
(* The payments of one checkout: several may be opened, by several methods *)
(* and several requests at a time; the gateway is called between two       *)
(* transactions, collects money when the customer pays and repeats its     *)
(* event until it is acknowledged; staff reconcile, confirm cash, reverse  *)
(* receipts and recover the paid checkout.  When the checkout becomes an   *)
(* intake, all its payments move along.                                    *)
(*                                                                         *)
(* Transactions that lock the payment or the checkout are one action.  A   *)
(* request that goes on after such a transaction with what it read is kept *)
(* in requesting, settling or confirming.                                  *)
(*                                                                         *)
(* Whether a paid checkout becomes an intake or goes to review depends on  *)
(* the clock and the shelf: CheckoutReservation decides it, here it is a   *)
(* choice.  Manual bank-transfer claims are accepted for old records only  *)
(* and are not modelled: every transfer opened now has a gateway.  Nor are *)
(* the signed events that speak of no success: they are acknowledged and   *)
(* change no payment.                                                      *)
(*                                                                         *)
(* A card or transfer payment has one charge, which bears the payment's    *)
(* reference; every request for a terminal payment has a charge of its     *)
(* own, under a code the gateway makes up.  Charges are numbered.          *)
(***************************************************************************)
EXTENDS Integers, FiniteSets

CONSTANTS
    Scenes,        \* where the checkout may be paid, with bounds of its own on the
                   \* payments opened, the requests of one payment sent to the
                   \* terminal, and its receipts staff confirm another on top of
    Requests,      \* requests that open a payment
    Workers,       \* requests that process a gateway event
    Staff,         \* staff with the payment queue open
    Amount,        \* amount of the checkout, in smallest instalments
    MaxPayments,   \* bound: payments opened for the checkout
    MaxCharges,    \* bound: requests of one payment sent to the terminal
    MaxReconciles  \* bound: reconciliations staff start

ASSUME PaymentsAssumption ==
    /\ Scenes \subseteq [surface : {"public", "pos"}, payments : Nat, charges : Nat, receipts : Nat]
    /\ Amount \in Nat \ {0}
    /\ MaxPayments \in Nat
    /\ MaxCharges \in Nat \ {0}
    /\ MaxReconciles \in Nat

Payments == 1 .. MaxPayments
Charges == 1 .. MaxCharges

VARIABLES
    scene,         \* where this checkout is paid
    stage,         \* what the checkout has become
    confirmed,     \* intake.payment_state is "confirmed"
    method,        \* method[p]: CommercePayment.method, "none" before creation
    status,        \* status[p]: CommercePayment.status
    opened,        \* opened[p]: charge whose answer is stored with the payment, or 0
    link,          \* link[p]: checkout or order in the metadata of its only charge
    sent,          \* sent[p]: number of requests sent to the terminal
    collected,     \* collected[p]: charges the customer has paid
    acknowledged,  \* acknowledged[p]: charges whose event is processed
    ignored,       \* ignored[p]: charges whose event was answered, matching nothing
    receipts,      \* CommercePaymentReceipt
    reconciles,    \* number of manual reconciliations started
    requesting,    \* requesting[r]: payment a request opened and what it owed
    settling,      \* settling[w]: event whose payment was read and verified
    confirming     \* confirming[s]: payment and version on a staff page

checkout == <<scene, stage, confirmed>>
payment  == <<method, status, opened>>
gateway  == <<link, sent, collected>>
events   == <<acknowledged, ignored, reconciles>>
actors   == <<requesting, settling, confirming>>
vars     == <<checkout, payment, gateway, events, receipts, actors>>

-----------------------------------------------------------------------------
(* Values *)

Methods == {"card", "transfer", "cash", "terminal"}

\* eligible_payment_methods: public checkouts are gateway-confirmed only.
Eligible == IF scene.surface = "public" THEN {"card", "transfer"} ELSE {"cash", "terminal"}

Stages == {"awaiting", "closed", "review", "materialized"}

\* No operation here leaves a payment failed, refunded or awaiting
\* verification of a claim.
Statuses ==
    {"none", "pending", "awaiting_customer", "partially_paid", "paid", "cancelled"}

\* Idempotency keys of receipts: the gateway event, a staff page's token, or
\* the POS sale.
Keys == {"webhook", "reconcile", "manual", "pos"} \X Nat

Receipts ==
    [payment : Payments, key : Keys, reference : Charges \cup {0},
     amount : 1 .. Amount, reversed : BOOLEAN]

Idle == [payment |-> 0]

CheckoutTyped ==
    /\ scene \in Scenes
    /\ stage \in Stages
    /\ confirmed \in BOOLEAN

PaymentsTyped ==
    /\ method \in [Payments -> Methods \cup {"none"}]
    /\ status \in [Payments -> Statuses]
    /\ opened \in [Payments -> Charges \cup {0}]
    /\ link \in [Payments -> {"none", "checkout", "intake"}]
    /\ sent \in [Payments -> Charges \cup {0}]
    /\ collected \in [Payments -> SUBSET Charges]
    /\ acknowledged \in [Payments -> SUBSET Charges]
    /\ ignored \in [Payments -> SUBSET Charges]
    /\ reconciles \in 0 .. MaxReconciles

ActorsTyped ==
    /\ requesting \in [Requests ->
          [payment : Payments, charge : Charges \cup {0}, owed : Int] \cup {Idle}]
    /\ settling \in [Workers ->
          [payment : Payments, key : Keys, reference : Charges \cup {0},
           owed : Int, verified : BOOLEAN] \cup {Idle}]
    /\ confirming \in [Staff -> [payment : Payments, version : Nat] \cup {Idle}]

TypeOK == CheckoutTyped /\ PaymentsTyped /\ receipts \subseteq Receipts /\ ActorsTyped

Init ==
    /\ scene \in Scenes
    /\ stage = "awaiting"
    /\ confirmed = FALSE
    /\ method = [p \in Payments |-> "none"]
    /\ status = [p \in Payments |-> "none"]
    /\ opened = [p \in Payments |-> 0]
    /\ link = [p \in Payments |-> "none"]
    /\ sent = [p \in Payments |-> 0]
    /\ collected = [p \in Payments |-> {}]
    /\ acknowledged = [p \in Payments |-> {}]
    /\ ignored = [p \in Payments |-> {}]
    /\ receipts = {}
    /\ reconciles = 0
    /\ requesting = [r \in Requests |-> Idle]
    /\ settling = [w \in Workers |-> Idle]
    /\ confirming = [s \in Staff |-> Idle]

-----------------------------------------------------------------------------
(* Receipts *)

\* Money of the receipts in rs that were not reversed, one element per unit.
LiveUnits(rs) ==
    {unit \in rs \X (1 .. Amount) : ~unit[1].reversed /\ unit[2] <= unit[1].amount}

\* amount_paid: recomputed from the receipts whenever one is added or reversed.
PaidIn(rs, p) == Cardinality(LiveUnits({r \in rs : r.payment = p}))

Paid(p) == PaidIn(receipts, p)

\* checkout_total_paid: all payments belong to this checkout.
TotalPaid == Cardinality(LiveUnits(receipts))

Balance(p) == IF Paid(p) >= Amount THEN 0 ELSE Amount - Paid(p)

\* updated_at of a payment changes with every receipt and every reversal.
Version(p) ==
    Cardinality({r \in receipts : r.payment = p})
        + Cardinality({r \in receipts : r.payment = p /\ r.reversed})

FromGateway(key) == key[1] \in {"webhook", "reconcile"}

GatewayReceipts(p) == {r \in receipts : r.payment = p /\ FromGateway(r.key)}

\* Where the payments are attached.
Side == IF stage = "materialized" THEN "intake" ELSE "checkout"

Active(p) == status[p] \in {"pending", "awaiting_customer", "partially_paid"}

StatusFor(p, paid) ==
    CASE paid >= Amount -> "paid"
      [] paid \in 1 .. Amount - 1 -> "partially_paid"
      [] paid <= 0 -> IF method[p] = "cash" THEN "pending" ELSE "awaiting_customer"

\* A mutated form of Refresh: the intake keeps its payment state.
RefreshPaymentOnly(p) ==
    /\ status' = [status EXCEPT ![p] = StatusFor(p, PaidIn(receipts', p))]
    /\ UNCHANGED confirmed

\* _refresh_payment, for a payment that is attached to an intake or not.
Refresh(p) ==
    /\ status' = [status EXCEPT ![p] = StatusFor(p, PaidIn(receipts', p))]
    /\ confirmed' = IF stage = "materialized" THEN status'[p] = "paid" ELSE confirmed

\* The intake is created, or the checkout goes to review: too late, short of
\* stock or failed.
AttemptMaterialize ==
    \/ stage' = "materialized" /\ confirmed' = TRUE
    \/ stage' = "review" /\ UNCHANGED confirmed

\* A receipt of a checkout's payment that pays it in full creates the intake.
RefreshAndMaterialize(p) ==
    LET paid == StatusFor(p, PaidIn(receipts', p)) = "paid"
    IN  \/ /\ stage = "materialized" \/ ~paid
           /\ Refresh(p)
           /\ UNCHANGED stage
        \/ /\ stage # "materialized" /\ paid
           /\ status' = [status EXCEPT ![p] = "paid"]
           /\ AttemptMaterialize

Recorded(p, key) == \E r \in receipts : r.payment = p /\ r.key = key

\* Mutated forms of WithinBalance and Refused.
PositiveAmount(p, amount) == amount > 0
RefusesCancelled(p) == status[p] = "cancelled"

WithinBalance(p, amount) == amount > 0 /\ amount <= Balance(p)

\* Only these methods cannot be paid once cancelled.
Refused(p) == status[p] = "cancelled" /\ method[p] \in {"transfer", "cash"}

\* A mutated form of ReferenceSettled: a reversed receipt frees its reference.
ReferenceInUse(p, key, reference) ==
    FromGateway(key) /\ \E r \in GatewayReceipts(p) : r.reference = reference /\ ~r.reversed

\* The reference of a gateway receipt is the charge's, whatever the event.
ReferenceSettled(p, key, reference) ==
    FromGateway(key) /\ \E r \in GatewayReceipts(p) : r.reference = reference

CanRecord(p, amount, key, reference) ==
    /\ WithinBalance(p, amount)
    /\ ~Refused(p)
    /\ ~ReferenceSettled(p, key, reference)

\* record_verified_payment: the same key returns the receipt there is; what
\* may not be recorded raises and changes nothing.
RecordVerifiedPayment(p, amount, key, reference) ==
    \/ Recorded(p, key) /\ UNCHANGED <<receipts, status, confirmed, stage>>
    \/ /\ ~Recorded(p, key)
       /\ CanRecord(p, amount, key, reference)
       /\ receipts' = receipts \cup
             {[payment |-> p, key |-> key, reference |-> reference,
               amount |-> amount, reversed |-> FALSE]}
       /\ RefreshAndMaterialize(p)

RecordingFails(p, amount, key, reference) ==
    ~Recorded(p, key) /\ ~CanRecord(p, amount, key, reference)

-----------------------------------------------------------------------------
(* Opening a payment *)

\* A new payment starts while the checkout is awaiting payment, or for the
\* intake it has become (the public API only).
MayStart == stage = "awaiting" \/ (stage = "materialized" /\ scene.surface = "public")

Blocking(m) == \E p \in Payments : method[p] # m /\ status[p] = "partially_paid"

SwitchedAway(p, m) == method[p] # m /\ status[p] \in {"pending", "awaiting_customer"}

\* The charge a request for p makes at the gateway; cash makes none.
NextCharge(p, m) ==
    CASE m = "cash" -> 0
      [] m = "terminal" -> sent[p] + 1
      [] OTHER -> 1

\* What a request does with the payment it was given: without a stored answer
\* it is sent to the gateway, a terminal payment as a payment request of its
\* own; cash is recorded next.
Proceed(r, p, m) ==
    LET charge == NextCharge(p, m)
    IN  /\ charge <= MaxCharges /\ charge <= scene.charges
        /\ requesting' = [requesting EXCEPT ![r] =
              [payment |-> p, charge |-> charge, owed |-> Balance(p)]]
        /\ link' = IF m \in {"card", "transfer"} THEN [link EXCEPT ![p] = Side] ELSE link
        /\ sent' = IF m = "terminal" THEN [sent EXCEPT ![p] = charge] ELSE sent

\* No payment answers this request: none by m is active, and at the counter,
\* where the key names the method, none by m was ever opened.
Fresh(m) ==
    \A p \in Payments : method[p] = m => scene.surface = "public" /\ ~Active(p)

\* initiate_payment with a new idempotency key.
StartPayment(r, m) ==
    /\ requesting[r] = Idle
    /\ m \in Eligible
    /\ MayStart
    /\ Fresh(m)
    /\ ~Blocking(m)
    /\ \E p \in Payments :
          /\ p <= scene.payments
          /\ method[p] = "none"
          /\ \A q \in 1 .. p - 1 : method[q] # "none"
          /\ method' = [method EXCEPT ![p] = m]
          /\ status' = [q \in Payments |->
                CASE q = p -> IF m = "cash" THEN "pending" ELSE "awaiting_customer"
                  [] q # p /\ SwitchedAway(q, m) -> "cancelled"
                  [] OTHER -> status[q]]
          /\ Proceed(r, p, m)
    /\ UNCHANGED <<checkout, opened, collected, events, receipts, settling, confirming>>

\* initiate_payment returns the payment of the same key, whatever its status,
\* or the active one of the same method, and sends it to the gateway again
\* while no answer is stored.  The gateway refuses a reference it knows; the
\* request for a terminal bears none.
RepeatPayment(r, p) ==
    /\ requesting[r] = Idle
    /\ MayStart
    /\ method[p] # "none"
    /\ opened[p] = 0
    /\ link[p] = "none"
    /\ Proceed(r, p, method[p])
    /\ UNCHANGED <<checkout, payment, collected, events, receipts, settling, confirming>>

Done(r) == requesting' = [requesting EXCEPT ![r] = Idle]

\* The second transaction of initiate_payment writes over whatever the status
\* has become while the gateway was asked, and over the code of another request.
GatewayAnswers(r) ==
    LET p == requesting[r].payment
    IN  /\ requesting[r] # Idle
        /\ method[p] \in {"card", "transfer", "terminal"}
        /\ opened' = [opened EXCEPT ![p] = requesting[r].charge]
        /\ status' = [status EXCEPT ![p] = "awaiting_customer"]
        /\ Done(r)
        /\ UNCHANGED <<checkout, method, gateway, events, receipts, settling, confirming>>

\* The call fails or the process ends; the gateway may have the charge all
\* the same, and later collect it at a terminal.
RequestFails(r) ==
    LET p == requesting[r].payment
    IN  /\ requesting[r] # Idle
        /\ \/ UNCHANGED link
           \/ collected[p] = {} /\ link' = [link EXCEPT ![p] = "none"]
        /\ Done(r)
        /\ UNCHANGED <<checkout, payment, sent, collected, events, receipts, settling,
                       confirming>>

\* The cashier's request records the cash it has asked for.
RecordPosCash(r) ==
    LET p == requesting[r].payment
        amount == requesting[r].owed
        key == <<"pos", 0>>
    IN  /\ requesting[r] # Idle
        /\ method[p] = "cash"
        /\ \/ RecordVerifiedPayment(p, amount, key, 0)
           \/ RecordingFails(p, amount, key, 0)
              /\ UNCHANGED <<receipts, status, confirmed, stage>>
        /\ Done(r)
        /\ UNCHANGED <<scene, method, opened, gateway, events, settling, confirming>>

\* A mutated form of Unpaid: only a payment in full counts.
NoneSettled == \A p \in Payments : status[p] # "paid"

Unpaid == TotalPaid = 0

\* cancel_unpaid_checkout, when the sale at the counter could not be started.
CancelUnpaidCheckout ==
    /\ scene.surface = "pos"
    /\ stage = "awaiting"
    /\ Unpaid
    /\ stage' = "closed"
    /\ status' = [p \in Payments |-> IF Active(p) THEN "cancelled" ELSE status[p]]
    /\ UNCHANGED <<scene, confirmed, method, opened, gateway, events, receipts, actors>>

\* expire_checkout_if_needed leaves the payments as they are.
ExpireCheckout ==
    /\ stage = "awaiting"
    /\ stage' = "closed"
    /\ UNCHANGED <<scene, confirmed, payment, gateway, events, receipts, actors>>

-----------------------------------------------------------------------------
(* Gateway events *)

\* The customer pays: online with the address or account that was stored, at
\* a terminal as soon as it has the request, and each request it has.
Collect(p, c) ==
    /\ IF method[p] = "terminal" THEN c <= sent[p] ELSE opened[p] = c
    /\ c \notin collected[p]
    /\ collected' = [collected EXCEPT ![p] = @ \cup {c}]
    /\ UNCHANGED <<checkout, payment, link, sent, events, receipts, actors>>

\* The reference a payment is verified and entered under.
Reference(p) == IF method[p] = "terminal" THEN opened[p] ELSE 1

\* A terminal's request is found by the code in the stored answer only; the
\* others must name the checkout or order the payment is attached to now.
Verified(p) ==
    /\ Reference(p) \in collected[p]
    /\ method[p] # "terminal" => link[p] = Side

\* What an event names: our payment, in its metadata, the reference or code of
\* its charge, or, at a terminal, a transaction of the gateway's own.
EventNames(p) ==
    {"payment", "reference"} \cup (IF method[p] = "terminal" THEN {"transaction"} ELSE {})

\* A charge without an event that was answered.
Announced(p, c) == c \in collected[p] /\ c \notin acknowledged[p] \cup ignored[p]

\* gateway_webhook finds the payment by what the event names.
Matches(p, c, name) ==
    \/ name = "payment"
    \/ name = "reference" /\ (method[p] = "terminal" => opened[p] = c)

\* process_gateway_event reads the payment and asks the gateway before it
\* locks anything.
ReadAndVerify(w, p, key) ==
    /\ settling[w] = Idle
    /\ settling' = [settling EXCEPT ![w] =
          [payment |-> p, key |-> key, reference |-> Reference(p), owed |-> Balance(p),
           verified |-> Verified(p)]]

\* The gateway repeats its event until it was processed.
DeliverWebhook(p, c, w) ==
    /\ Announced(p, c)
    /\ \E name \in EventNames(p) : Matches(p, c, name)
    /\ ReadAndVerify(w, p, <<"webhook", c>>)
    /\ UNCHANGED <<checkout, payment, gateway, events, receipts, requesting, confirming>>

\* An event that matches no payment is acknowledged and never repeated.
IgnoreEvent(p, c) ==
    /\ Announced(p, c)
    /\ \E name \in EventNames(p) : ~Matches(p, c, name)
    /\ ignored' = [ignored EXCEPT ![p] = @ \cup {c}]
    /\ UNCHANGED <<checkout, payment, gateway, acknowledged, reconciles, receipts, actors>>

\* payment_reconcile: every click makes an event of its own.
PaymentReconcile(p, w) ==
    /\ method[p] \in {"card", "transfer", "terminal"}
    /\ reconciles < MaxReconciles
    /\ reconciles' = reconciles + 1
    /\ ReadAndVerify(w, p, <<"reconcile", reconciles>>)
    /\ UNCHANGED <<checkout, payment, gateway, acknowledged, ignored, receipts, requesting,
                   confirming>>

Acknowledge(event) ==
    acknowledged' = IF event.key[1] = "webhook"
                    THEN [acknowledged EXCEPT ![event.payment] = @ \cup {event.key[2]}]
                    ELSE acknowledged

Processed(event) ==
    event.key[1] = "webhook" /\ event.key[2] \in acknowledged[event.payment]

\* A mutated form of NothingDue: what cannot be recorded is over and done with.
NothingToRecord(event) ==
    \/ event.owed <= 0
    \/ RecordingFails(event.payment, event.owed, event.key, event.reference)

\* The payment was settled when it was read.
NothingDue(event) == event.owed <= 0

\* The rest of process_gateway_event, with the event locked: an event that
\* fails is left for another try.
SettleEvent(w) ==
    LET event == settling[w]
        recorded == RecordVerifiedPayment(event.payment, event.owed, event.key, event.reference)
        fails == RecordingFails(event.payment, event.owed, event.key, event.reference)
        unchanged == UNCHANGED <<receipts, status, confirmed, stage>>
        open == event.verified /\ ~Processed(event)
    IN  /\ event # Idle
        /\ \/ ~open /\ unchanged /\ UNCHANGED acknowledged
           \/ open /\ NothingDue(event) /\ unchanged /\ Acknowledge(event)
           \/ open /\ ~NothingDue(event) /\ recorded /\ Acknowledge(event)
           \/ open /\ ~NothingDue(event) /\ fails /\ unchanged /\ UNCHANGED acknowledged
        /\ settling' = [settling EXCEPT ![w] = Idle]
        /\ UNCHANGED <<scene, method, opened, gateway, ignored, reconciles, requesting,
                       confirming>>

-----------------------------------------------------------------------------
(* Staff *)

\* payment_queue puts the payment's version on the page ...
OpenQueue(s, p) ==
    /\ method[p] = "cash"
    /\ Balance(p) > 0
    /\ confirming' = [confirming EXCEPT ![s] = [payment |-> p, version |-> Version(p)]]
    /\ UNCHANGED <<checkout, payment, gateway, events, receipts, requesting, settling>>

\* ... and payment_confirm makes it the key of the receipt.  The page may be
\* submitted again until it is loaded anew.
PaymentConfirm(s, amount) ==
    LET p == confirming[s].payment
        key == <<"manual", confirming[s].version>>
    IN  /\ confirming[s] # Idle
        /\ Cardinality({r \in receipts : r.payment = p}) < scene.receipts
        /\ RecordVerifiedPayment(p, amount, key, 0)
        /\ UNCHANGED <<scene, method, opened, gateway, events, actors>>

\* A recovery that has added up a receipt creates the intake although the receipt
\* is reversed before the payments are moved: neither waits for the other.
UndercutsRecovery(p) ==
    /\ stage = "review"
    /\ TotalPaid >= Amount
    /\ status' = [status EXCEPT ![p] = StatusFor(p, PaidIn(receipts', p))]
    /\ stage' = "materialized"
    /\ confirmed' = TRUE

\* reverse_payment_receipt looks at the payment, never at the checkout.
ReversePaymentReceipt(r) ==
    /\ r \in receipts
    /\ ~r.reversed
    /\ receipts' = (receipts \ {r}) \cup {[r EXCEPT !.reversed = TRUE]}
    /\ \/ Refresh(r.payment) /\ UNCHANGED stage
       \/ UndercutsRecovery(r.payment)
    /\ UNCHANGED <<scene, method, opened, gateway, events, actors>>

\* checkout_recover: without full payment it raises and stays in review.
CheckoutRecover ==
    /\ stage = "review"
    /\ TotalPaid >= Amount
    /\ AttemptMaterialize
    /\ UNCHANGED <<scene, payment, gateway, events, receipts, actors>>

-----------------------------------------------------------------------------

RequestStep(r) ==
    \/ \E m \in Methods : StartPayment(r, m)
    \/ \E p \in Payments : RepeatPayment(r, p)
    \/ GatewayAnswers(r)
    \/ RequestFails(r)
    \/ RecordPosCash(r)

GatewayStep ==
    \/ \E p \in Payments, c \in Charges : Collect(p, c) \/ IgnoreEvent(p, c)
    \/ \E p \in Payments, c \in Charges, w \in Workers : DeliverWebhook(p, c, w)
    \/ \E p \in Payments, w \in Workers : PaymentReconcile(p, w)
    \/ \E w \in Workers : SettleEvent(w)

StaffStep ==
    \/ \E s \in Staff, p \in Payments : OpenQueue(s, p)
    \/ \E s \in Staff, amount \in 1 .. Amount : PaymentConfirm(s, amount)
    \/ \E r \in receipts : ReversePaymentReceipt(r)
    \/ CheckoutRecover

CheckoutStep == CancelUnpaidCheckout \/ ExpireCheckout

Next == (\E r \in Requests : RequestStep(r)) \/ GatewayStep \/ StaffStep \/ CheckoutStep

Spec == Init /\ [][Next]_vars

-----------------------------------------------------------------------------
(* Safety *)

(***************************************************************************)
(* However events, reconciliations, cash confirmations and reversals       *)
(* interleave, the receipts of a payment that were not reversed never      *)
(* exceed its amount (record_verified_payment checks what the caller read  *)
(* unlocked against the balance under the lock).                           *)
(***************************************************************************)
NeverOverpaid == \A p \in Payments : Paid(p) <= Amount

(***************************************************************************)
(* The gateway's money for one charge is entered once, by whichever event  *)
(* comes first, and is not entered again after a reversal although the     *)
(* balance is due again.                                                   *)
(***************************************************************************)
ReferenceSettledOnce ==
    \A p \in Payments, c \in Charges :
        Cardinality({r \in GatewayReceipts(p) : r.reference = c}) <= 1

(***************************************************************************)
(* An event the gateway will not repeat has left its payment a receipt     *)
(* from the gateway: acknowledging and recording are one transaction, also *)
(* when another event got there first.  Only a terminal's event may be     *)
(* answered without, because it matched no payment (gateway_webhook).      *)
(***************************************************************************)
ProcessedIsRecorded ==
    \A p \in Payments :
        /\ acknowledged[p] # {} => GatewayReceipts(p) # {}
        /\ ignored[p] # {} => method[p] = "terminal"

(***************************************************************************)
(* The payment state staff see on the intake comes to say confirmed, and   *)
(* stays so through a receipt or a reversal, only with the money there,    *)
(* second payments included (_refresh_payment writes the intake from one   *)
(* of its payments).  The exception is a reversal that falls into a        *)
(* recovery (materialize_paid_checkout).                                   *)
(***************************************************************************)
ReversedUnderRecovery == stage = "review" /\ ~(receipts \subseteq receipts')

ConfirmedIsPaid ==
    [][confirmed' /\ (~confirmed \/ receipts' # receipts) =>
          /\ stage' = "materialized"
          /\ TotalPaid' >= Amount \/ ReversedUnderRecovery]_vars

(***************************************************************************)
(* Switching to another method or giving a sale up at the counter never    *)
(* cancels a payment that holds money.                                     *)
(***************************************************************************)
SwitchSparesMoney ==
    [][\A p \in Payments :
          status[p] # "cancelled" /\ status'[p] = "cancelled" => PaidIn(receipts', p) = 0]_vars

-----------------------------------------------------------------------------
(* Liveness *)

\* The gateway repeats an unacknowledged event and a worker gets to it; what
\* was read and verified is then settled or refused.
Delivered(p, c) == \E w \in Workers : DeliverWebhook(p, c, w)

FairSpec ==
    /\ Spec
    /\ \A p \in Payments, c \in Charges : SF_vars(Delivered(p, c))
    /\ \A w \in Workers : WF_vars(SettleEvent(w))

\* What the code does not enter by itself: a cancelled transfer, a payment
\* whose charge names the checkout that is now an intake, a terminal's charge
\* whose code was never stored, or replaced by another request's, or whose
\* event matched no payment and was ignored.
Stranded(p, c) ==
    \/ method[p] = "transfer" /\ status[p] = "cancelled"
    \/ method[p] \in {"card", "transfer"} /\ link[p] # Side
    \/ method[p] = "terminal" /\ (opened[p] # c \/ c \in ignored[p])

(***************************************************************************)
(* Once the gateway has collected a payment's charges, not all of which    *)
(* are left out for one of these reasons, a receipt of the gateway is      *)
(* entered for the payment, whatever events and reconciliations of this    *)
(* and the other payments run at the same time.                            *)
(***************************************************************************)
MoneyIsRecordedOrStranded ==
    \A p \in Payments :
        <>[](\E c \in collected[p] : ~Stranded(p, c)) => <>(GatewayReceipts(p) # {})
=============================================================================
