# Verification of INPROFIC (StoreTrack)

INPROFIC is a multi-tenant Django application for small producers and shops:
inventory, procurement, production, sales, a public storefront with online
payment, finance and subscriptions. Requests run concurrently in several
worker processes against one PostgreSQL database at READ COMMITTED; the only
other actors are payment gateways, push services, a daily maintenance command,
a cron request that drains the push outbox, and a best-effort thread that does
the same after a commit. Nothing else persists state, so the hard behaviours
are those of concurrent database transactions: what is read before a lock and
used after it, what one transaction covers, in which order requests commit, and
what a request that dies leaves behind.

This directory holds TLA+ modules of that behaviour, TLC runs over small
instances and proofs checked by TLAPS. Paths below are relative to `src/apps/`
unless they begin with `docs/` or `.codex/`.

## 1. Inventory

| Component | State | Operations | What is hard | What makes it correct |
|---|---|---|---|---|
| Commerce checkout (`commerce/checkout_services.py`) | checkout sessions: status, reservation expiry and release, items with payable and reserved quantities | create, expire on display, cancel, materialize, recover | holds computed against other holds; expiry decided on stale rows; payment early, late or twice; failure half way through materialization | reserved units are in stock; timely payments are honoured; paid checkouts become one order or a recoverable review |
| Commerce intake (`commerce/services.py`) | intakes (orders), their items, accepted sale and production order | accept under four stock policies, switch to pre-order | quantities computed before the goods are locked; two clerks; clerk and customer | one final outcome; what was paid is shipped or produced; others' holds survive |
| Commerce payments (`commerce/payment_services.py`, `payment_views.py`) | payments, claims, gateway events, receipts, allocations | initiate, claim, verify, reject, reverse, allocate to sales, recover | gateway calls between transactions; repeated events; several payments of one target; reversal after allocation | money counted once in receipts, ledger and sales; status follows receipts |
| Payment gateways (`commerce/payment_gateways.py`) | none | initialise, verify | remote answers late, repeated or missing | a charge is verified against the checkout or order it was made for |
| Commerce views | none | display a checkout, sell at the counter, staff pages | reads without locks | part of the actions they call |
| Notifications and web push (`commerce/webpush.py`, `notification_services.py`, `signals.py`) | notices, devices, deliveries with attempts and due time | queue, subscribe, sign out, enqueue deliveries, send, retry | several dispatchers; crash between send and save; stale rows written back | every notice reaches every device or is given up; repeats are explained; the outbox drains |
| Inventory (`inventory/services.py`, `views.py`) | shelf stock, raw-material stock, market lots, transferred allowance, movement journal | movements, market production, release, transfer, return, expiry, reversal, product edit | lost updates; allowances computed from stale rows; units that go out and come back several times | stock equals its journal; units are conserved; nothing expired or reversed reaches anybody |
| Direct sales (`sales/views.py`) | sales, items, customer payments | check availability, record, delete | availability checked before the transaction | paid means covered; unlisted products are sold only as far as transferred, but for sales that overlap |
| Production (`production/views.py`, `forms.py`) | orders, shared runs, batches, material usages, reconciliations | create, approve, reject, complete, reverse, recreate, delete, run, reconcile a shortage | status checked unlocked; whole stale rows saved; surplus handed on twice | material released before production, income counted once, a reversal takes back what the completion gave |
| Procurement (`procurement/views.py`) | purchase orders, supplier payments | save, receive, delete | edit racing receipt; payment recorded twice | goods and money booked once |
| Finance, expenses (`core/finance_views.py`, `core/services.py`, `expenses/views.py`) | ledger, settlements, adjustments | pay supplier, receive from customer, adjust, record and pay expense | sums over unlocked rows; ledger entry outside a transaction | documents, payments and ledger agree |
| Accounts and subscriptions (`accounts/`) | subscription: plan, status, trial end, paid-until, founder flag; payments; entitlement rows | trial, pay, confirm, switch, grant and revoke lifetime access, daily sync | callback, webhook and confirmation by hand at once; the sync job and staff write stale rows over a payment | paid time is kept; entitlements follow the subscription |
| Backup and legacy import (`accounts/legacy_import.py`, `core/services.py`) | the backup file; during an import: scope, new keys, links to repair | back up table by table, prove ownership of rows, check the destination, copy, repair | the office works on during a backup; files with several tenants; self-references; checks before the transaction | only the tenant's rows arrive, all of them, with their links, into empty tables |
| Scheduled jobs (`core/jobs.py`, `core/operations.py`) | none | run registered commands, answer the cron request | a run can be cut off | what a run left is made up by the next |
| Tenancy (`core/middleware.py`, `core/context.py`) | business of the request | resolve, reset | value left behind by a request | a request sees its own business (not modelled) |
| Dashboards, reports, PDF, settings, scripts | none of their own | reads, rendering | none | not modelled |

Interactions: a checkout *reserves* shelf units by being counted
(`available_physical_stock`); payments *call* materialization in their own
transaction; acceptance *ships* through `_make_physical_sale` and the shelf
movement, and passes shortages to production; direct sales, adjustments,
order reversals and market transfers *share* the shelf; completed production
orders *make* market lots; every receipt and settlement *posts* to the ledger;
the outbox *asks* the subscription whether the tenant may use commerce; commits
and the cron request *schedule* push dispatch.

The hazards this code is exposed to are listed with their lines in
`PROJECT.json`, with the properties that would catch each, or the reason why
none does.

## 2. Modules

| Module | Role |
|---|---|
| `StockEscrow` | What reservations promise: units set aside for a holder are on the shelf. Reserve, lapse, ship, deliver. |
| `CheckoutReservation` | Checkout, payment of a checkout, materialization, recovery, acceptance, direct sales and other uses of the shelf. Implements `StockEscrow`. |
| `CommercePayments` | The payments of one checkout: opening by several methods, the gateway, its events, staff, reversal, and what the checkout and the intake make of it. |
| `ProductionOrders` | Production orders and their shared run: material, batches, shelf and market units, customers' sales and income, reversal, reconciliation of shortages. |
| `MarketStock` | Lots of market stock: production, release to distributors, transfer to the shelf, sale of the shelf, returns, expiry, reversal, edits of the product. |
| `TradeLedger` | Purchases, sales and expenses with their payments, receipt into stock and the cash ledger. |
| `ReceiptAllocation` | The receipts of one web order and the sales they pay: acceptance, completion and receipts distribute the money, reversals take it back, Finance records payments of its own. |
| `Bookkeeping` | Composes `ReceiptAllocation` (EXTENDS) with `TradeLedger` (INSTANCE): what is shown as paid, whoever settled it. |
| `Subscriptions` | Trial, payments, plan changes, lifetime access, entitlement rows and the daily job. |
| `PushOutbox` | Notices, devices, deliveries and overlapping dispatchers; the tenant's entitlement is an input. |
| `ScheduledJobs` | Composes `Subscriptions` (EXTENDS) with `PushOutbox` (INSTANCE, its input replaced by the subscription's module rows) and states the fairness of both jobs. |
| `TenantBackup` | The backup of a tenant, older kinds of file, and the import into another deployment, for any schema. |
| `StockEscrow_proofs`, `CheckoutReservation_proofs`, `CommercePayments_proofs`, `ProductionOrders_proofs`, `MarketStock_proofs`, `Bookkeeping_proofs`, `ScheduledJobs_proofs`, `TenantBackup_proofs` | Theorems (section 5). |
| `MC...` | The model-checking instances: definitions for constants, symmetry sets. |

`CheckoutReservation` and `CommercePayments` share the checkout. The first has
the clock, the shelf and one payment in instalments, and decides *whether* a
paid checkout becomes an order; the second has many payments and takes that
decision as a choice, so that what it shows holds whatever the shelf does. In
the same way `ProductionOrders` stops at the lot a batch makes and
`MarketStock` begins with it, and the shelf appears in each module as far as
that module's operations move it.

Several modules have a constant set of *scenes* (houses, offices): which
actors and operations take part in a behaviour. The variable that holds the
scene never changes. A scene is an assumption a property may name (for example
`house.edited`: staff edit the product meanwhile) and keeps an instance small
without hiding an operation: every operation is in some scene.

### How CheckoutReservation corresponds to the code

Time is the clock `now` in ticks; `Lifetime` is `checkout_reservation_minutes`.
`stock` is `FinishedGood.stock`. `status`, `mode`, `expires`, `released`,
`error`, `payable` and `reserve` are the columns of `CommerceCheckoutSession`
and its items; `initiated`, `paid` and `credited` summarise the checkout's
payment and its unreversed receipts, before and after they move to the intake;
`intake`, `sold` and `made` are the intake and its items. `polling`,
`reviewing`, `accepting` and `taking` are what a request has read and not yet
acted on; a reviewer whose attempt has added up the receipts holds the
checkout's lock (`Locked`), and one whose attempt failed has let it go.

*Granularity.* A transaction that locks the rows it decides on is one action:
`CreateCheckout` (locks the goods), `CancelUnpaidCheckout`, `InitiatePayment`,
`RecordVerifiedPayment` (with materialization, which runs in its transaction),
`ReversePaymentReceipt`, `AcceptPreorder`. A request that reads and writes in
separate steps is split where other requests can run in between:

| Actions | Code |
|---|---|
| `ReadForDisplay`, `ExpireIfNeeded` | the view loads a checkout, `expire_checkout_if_needed` saves it by primary key |
| `OpenRecovery`, `LockForRecovery`, `FinishRecovery`, `RecordFailure` | `checkout_recover` runs in no transaction of its own: it checks `paid_review` unlocked; `materialize_paid_checkout` locks the checkout and adds up the receipts, then creates the intake or sends the checkout to review; when it fails, its savepoint frees the lock, and the handler writes `paid_review` in a statement of its own, without looking at the checkout again |
| `BeginAccept`, `CommitAccept` | `accept_intake` holds the intake's row throughout, compares goods unlocked, then locks and compares each good |
| `CheckSale` / `CheckAdjustment`, `TakeFromShelf` | the form checks stock; the movement locks the good and subtracts |

A request that dies is one whose next step is never taken; nothing of an
uncommitted transaction remains. An exception inside materialization may happen
whatever the state: when a payment materializes, it is the last disjunct of
`AttemptMaterialize` (the payment's transaction keeps the lock, so that the
handler's write is part of it), and in a recovery it is the choice of
`FinishRecovery` that leads to `RecordFailure`. `ReversePaymentReceipt` looks at
the payment only, before and after the checkout has become an intake; it takes
no lock on the checkout and can commit between `LockForRecovery` and
`FinishRecovery`.

*Idealisations.* One storefront product stands for one good; goods are
configured for shelf sale and no market stock has been transferred to them;
quantities are whole units; a checkout is paid through one payment in
instalments (`CommercePayments` has several); a repeated request with the same idempotency key returns the
first result and is a stutter. Baskets are those that pass the per-product
validation. Row locks are taken as the code intends: some of its
`select_for_update().select_related(...)` queries join nullable relations, which
PostgreSQL refuses to lock; SQLite, which the tests use, ignores the lock and
serialises writers.

### How CommercePayments corresponds to the code

Every payment of the checkout has a number; `method`, `status` and `receipts`
are the columns of `CommercePayment` and the rows of `CommercePaymentReceipt`,
and `amount_paid` is not a variable because the code recomputes it from the
receipts with every change (`PaidIn`). `stage` is the checkout's status as far
as payments tell it apart, and says where all its payments are attached: to the
checkout, or to the intake once it is `materialized` (`Side`). `confirmed` is
`CommerceIntake.payment_state`. `link` is the checkout or order named in the
metadata of the charge, kept by the gateway; `opened` is the charge whose answer
was stored with the payment; `sent` counts its requests at the terminal;
`collected` are the charges the customer has paid, `acknowledged` those whose
event's `processed_at` is set, and `ignored` those whose event was answered as
matching no payment. A card or transfer payment has one charge, which bears the
payment's reference. `initialize_paystack_terminal` sends none, so that every
request for a terminal payment makes a charge of its own, and its answer
overwrites the stored code. `scene` is the surface, with bounds of its own.

| Actions | Code |
|---|---|
| `StartPayment`, `RepeatPayment`, then `GatewayAnswers`, `RequestFails` or `RecordPosCash` | `initiate_payment`: the first transaction picks or creates the payment and cancels those of other methods, the gateway is called without a lock, the second transaction stores its answer; `storefront_pos` then records cash |
| `IgnoreEvent` | `gateway_webhook`: a signed event that names neither our payment nor a reference it knows, as a terminal's transaction does not, is answered 200 and never repeated |
| `DeliverWebhook` or `PaymentReconcile`, then `SettleEvent` | `process_gateway_event` reads the payment and verifies it remotely without a lock, then locks the event and records what was due when it read |
| `OpenQueue`, `PaymentConfirm` | the staff page carries the payment's version as a token, which becomes the key of the receipt; the page may be sent again |
| `ReversePaymentReceipt`, `CheckoutRecover`, `CancelUnpaidCheckout`, `ExpireCheckout` | one transaction each; a reversal may also fall between a recovery's sum of the receipts and its intake (`UndercutsRecovery`), as neither waits for the other |

*Idealisations.* Amounts are whole instalments of the checkout's amount. A
gateway refuses a second charge under a reference it knows, so the lost answer
of a card or transfer payment is not made up for by a repeated call. Signed
events that speak of no success change no payment and are left out. A verification that cannot be made is an
event that was not delivered yet. At most one receipt is reversed within one
recovery; what else a failed recovery writes is a matter of `CheckoutReservation`.
Staff enter no external reference for cash.
Claims of manual bank transfers exist for old records only and are left out. The
ledger entry and the allocation to sales follow each receipt; the latter is
`ReceiptAllocation`.

### How ProductionOrders corresponds to the code

`status`, `details`, `usage`, `batches`, `lot`, `run` and `members` are the rows
of the order, its form, its material usage, its batches and their market lots,
and the shared run; `shelved`, `handedOn` and `madeUp` count stock movements
and reconciliation rows; `sales` and `income` are the live sales of an order
and its ledger entries that are not reversed. `doing[s]` is what a request has
read. `Begin` is the half of a view that loads and checks an order without a
lock; the action named after the view (`OrderApprove`, `OrderReject`,
`OrderComplete`, `OrderReverse`, `OrderEdit`, `OrderDelete`, and likewise for the shared run and
for reconciliation) is its transaction. A view that locks its rows
is one action. The unique constraints (one usage per order, one batch number
per business) are guards of the transaction.

*Idealisations.* One good, one raw material, one item per order, a unit of
material for a unit of product. Cost snapshots, quality checks, delivery
counters and the numbering of orders are left out, and so is
`operational_supply_dispense`, which is the adjustment of `TradeLedger`.

### How MarketStock corresponds to the code

`lot`, `left`, `closed` and `journal` are the rows of `MarketStockLot` and the
sums of their movements by kind. `line` are the rows of `SaleItem`, in batches
and pieces, by the lot they came from, or by `Shelf` and `SecondLine` for the
lines a form without batches lists; `sold` are the units that moved with them
and `returned` those of their `DistributionReturn`s. What a line stands for is
`Units`, with the `units_per_batch` (`pack`) of the time it is read, as
`SaleItem.total_units` has it; `Packed` is how a release or a shipment stores
units. `allowance` is the good's transferred stock, `shelf` its stock.
`counter` is bookkeeping: units delivered and transferred to the shelf,
adjusted, sold off it (`gone`), and those a direct sale took although others had
taken theirs since its check (`late`, by the `since` of each request).

Each service of `inventory/services.py` locks its rows and is one action. Split
are the direct sale (`CheckSale`, `OpenSale`, `CommitSale`), the shipment of an
order (`OpenShipment`, `MakePhysicalSale`, `ShipmentRefused`), the stock
adjustment (`CheckAdjustment`, `Adjust`) and the edit of a product (`ShowForm`,
`PostForm`, `SaveForm`), because each decides on a row it reads before its
locks. `Enter` makes a distribution sale, whose lines may be returned: a
release does, a shipment over the distribution channel, and every direct sale
of a wholesale business.

*Idealisations.* One good, whole units, blank shelf stock is zero; checkouts'
holds, prices and costs are left out, and so is the deletion of sales;
production lots are received today. A sale form lists the product once or
twice, a storefront order once (a good has one storefront product).

### How TradeLedger corresponds to the code

For each kind of document: `stage` and `status` are its two status columns,
`total`, `paid` and `cash` its amount, its payments and what the ledger moved
for it, `entries` the entries under its own reference (`PO-pk`, `SALE-pk`,
`EXP-pk`). `kept` are the documents a payment row protects from deletion, of
whatever amount, and `unbooked` adds up the payments below zero, which
`record_cash` drops: the forms for suppliers and customers bound an amount from
above only, and `office.corrects` says that staff enter such amounts. `lines` is
the number of lines of one raw material in the purchase: `po_receive` reads a
copy of the row with every line, and each writes the stock its copy had plus
its own quantity.

| Actions | Code |
|---|---|
| `CheckPayment`, `AddUpPayments`, `CommitPayment` / `PaymentFails` | the form bounds the amount; the transaction inserts the payment, adds up what has committed, writes the status, all unlocked |
| `LockForReceipt`, `Receive` | receipt locks the order, but not the raw material it has read |
| `ReadPurchase`, `SavePurchase` | the edit checks the status and writes the whole row later |
| `CreateExpense`, `RecordExpense` / `ExpenseRequestDies` | the expense and its ledger entry are two transactions |
| `CheckAdjustment` and its commit | a stock adjustment, and a supply dispense |

*Idealisations.* The lines of a purchase are of one material and of one unit
each, totals of at least one unit of money; no costs, methods or audit trail.

### How ReceiptAllocation and Bookkeeping correspond to the code

A web order becomes up to three sales, in the order of their date and id: the
one from the shelf (`accepted_sale`), and, once its production order is
completed, a sale of planned offcut to another customer and the sale of the
order itself, both with `linked_order`. `amount` and `reversed` are the rows of
`CommercePaymentReceipt`, `alloc` those of `CommercePaymentAllocation`,
`undone` the allocations with a compensating payment, `taken` the payments that
Finance recorded, which may be of zero or less (`shop.corrects`); `shown` is `Sale.transaction_type`, `orderPaid` the order's
`customer_payment_status`, `booked` the income entered for it as `ORDER-pk`.
`disturbed` and `lowered` are bookkeeping of the properties: a reversal, or a
payment taken back, since the last distribution; and the sales of which Finance
took a payment back while they were covered or others had added them up. `shop`
is the scene: the totals, what the order's payments ask for, and which
requests take part.

| Actions | Code |
|---|---|
| `BeginAccept`, `BeginComplete`, `BeginRecord`, then `Allocate`, `CommitDistribution` / `AllocationRefused` | `accept_intake`, `order_complete` and `record_verified_payment` each call `sync_payment_receipts_to_sales`: it locks the intake and lists the receipts, adds up what each sale has been paid and inserts the allocations, and commits with the rest of the request; an allocation that exists already rolls the request back |
| `AcceptPreorder`, `MarkOrder` | an acceptance that makes no sale; staff mark a pending order as paid or unpaid |
| `BeginReverse`, `CommitReverse` | `reverse_payment_receipt` locks its receipt, but no intake and no sale |
| `CheckPayment`, `AddUp`, `CommitPayment` | the customer payment of Finance, which locks nothing |

`Bookkeeping` looks at a business either in its books or in one web order: the
documents of the two do not interfere, and both answer the same questions.

*Idealisations.* One production order, completed once, with one sale of offcut;
deletions of sales and reversals of the order are left out; one payment at a
time records receipts.

### How Subscriptions, PushOutbox and ScheduledJobs correspond to the code

`sub` is the subscription's row and `rows` the entitlement rows; `clock` is the
day. A payment is opened, its gateway is called, it is charged at the provider,
and any of callback, webhook (`Check`, `Confirm` of a worker) or the founder
(`FounderConfirms`) may find it paid; `MarkPaid` is one step, as
`mark_payment_paid` holds both rows. Edits by staff read the row (`Read`) and
write it whole (`Save`). The daily job is `SyncRead`, `SyncDecide`,
`SyncApply`, `SyncWrite` for the subscription and may die between any two.
`promised`, `counted`, `reopened`, `gaps` are bookkeeping of the properties: the
day up to which time is paid for (each payment adds a month to the later of that
day and today), how often each payment counted, payments a failed gateway call
wrote `failed` over, and kinds of stale write there have been.

In the outbox a dispatcher reads notices, creates deliveries, marks the notices
processed, reads a batch, pushes, and saves deliveries and devices
(`ReadNotices`, `CreateDeliveries`, `MarkProcessed`, `ReadBatch`, `Push`,
`SaveDeliveries`, `SaveDevices`), in several transactions; `Crash` ends it
anywhere. `Backoff` is the time until a delivery is due again. Batch limits,
mute settings and members' permissions are left out; two
plans and two modules stand for all, prices and promotions are left out.

### How TenantBackup corresponds to the code

The schema is a parameter: tables, links between them, which links are
required, which tables have a business column, which have one row per business
or globally unique values. `office` is the source, `file` the backup,
`unread` the tables still to be read. `Scope` is the least set of rows that
`_fixture_scope` and `_build_source_infos` prove to be the tenant's by a
fixpoint. `Check` is the analysis that is repeated before the import, unlocked;
`Begin`, `CopyTable` and `Commit` are the transaction, whose writes are in
`draft` until then; `later` are the links to be repaired at the end; `key` the
new primary keys. `Raise` is `LegacyImportError`, `Abort` a database error or a
dying request. Others record rows in the destination meanwhile
(`WorkInTarget`).

*Idealisations.* Column values are left out, and of identity only whether
accounts match; roles, permissions, memberships and uploaded media are not
modelled. A table is copied in one step: nothing of it is visible to others
before the commit.

## 3. Runs

| Run | Instance | What it shows |
|---|---|---|
| `StockEscrow` | 3 holders, 2 goods | the abstract escrow is covered: the third holder finds what the two others left |
| `CheckoutsOnly` | 2 checkouts, 1 good, a reviewer and a clerk, no direct sales, no displays | timely payments never lack stock, paid checkouts stay in review or become orders, held orders ship what was reserved, what was paid is shipped or produced unless the order is reduced, and every step is one of the escrow's |
| `SharedShelf` | 2 checkouts, a display, a reviewer, a clerk, a direct sale or adjustment | orders are created on receipts that cover them, unless a reversal commits inside a recovery, and settled once; only the late note of a failed recovery sends one back to review; a shipment spares others' holds, even though direct sales may not |
| `CheckoutPayments` | 3 scenes: 2 payments online; 2 at the counter; one at the counter that is sent to the terminal twice or paid in cash by halves; 2 instalments, 2 requests, 2 workers, a staff page, a reconciliation, reversals | receipts never exceed the amount, the gateway's money for a charge is entered once and before its event is acknowledged, only a terminal's event is ever ignored, the intake comes to say confirmed only when paid, but for a reversal within a recovery, switching spares money, and collected money is entered in the end unless the code leaves it out (`Stranded`) |
| `ProductionShortage` | 2 interchangeable orders of every kind, alone and in a shared run; two members of staff with overlapping requests | surplus makes up shortages once, income follows sales, a reversal takes back what the completion gave, material is released before production, and an unforced release never goes below zero |
| `MarketLots` | 6 businesses (an unlisted product that two clerks sell, two lines at a time, and adjust; distribution with today's and with earlier dates; an edited product in the market and on the shelf; a wholesaler), up to 2 lots and 2 sales, batches of 1 or 2 | units are conserved and lots agree with their journal, nothing expired or reversed reaches anybody, unlisted products are sold beyond what was transferred only by what others took meanwhile; lots never grow or reopen |
| `TradeBooks` | 8 offices: three with requests one at a time (one of purchases with two lines of a material), five with two clerks at once, edits or dying requests; payments of zero and less in three of them; 9 web orders from the shelf, to production and both, with 3 receipts and two requests at once, with and without offcut, Finance, payments taken back, marked orders and reversals | what is shown as paid is backed by money, a purchase is booked once, orderly offices' books agree; receipts are not spent twice and reach the sales they can pay |
| `ScheduledJobs` | 6 scenes: two payments with a callback; one with edits; two dispatchers; a shared browser; two notices; alerts of a business whose trial ends | paid time is kept, entitlements catch up, notices reach devices, repeated pushes are explained, the outbox drains |
| `TenantBackup` | 10 tables, 14 rows of two tenants; a tenant backup, quiet or busy; an old fixture with or without its customers and locations; a raw database; 2 imports, overlapping or not | only the tenant's rows arrive, with their links, into empty tables, and a quiet backup can be imported |
| `RecoveredOrder` (violation) | 1 checkout, a reviewer | an order recovered from review holds nothing (section 4) |
| `OffcutReceipts` (violation) | web orders for production with offcut for another customer | the order's receipts pay the other customer's sale (section 4) |
| `SignedOutAlerts` (violation) | 1 notice, 1 account, the cron dispatcher | a dispatcher switches a signed-out device on again (section 4) |

The exact constants are in the `.cfg` files and `MC` modules. Deadlock is
checked for `StockEscrow`, which never stops; all others may stop when their
bounds are reached and everything is settled.

*Bounds, and why they are enough.* Two checkouts are what every interference
between reservations needs: one that holds and one that takes. Shelves start
anywhere between empty and at least one full basket, which gives full coverage,
partial coverage and none. One clerk is enough to race with the customer who
takes up an invitation; that any number of clerks is as safe is proved. A price
of two instalments separates "some money" from "all of it". A lifetime of one
tick with a clock of one tick gives payments before and at the instant of
expiry; as soon as that instant is reached a payment is late (`Late`), and a
later clock changes no comparison. The three stock policies of `CheckoutsOnly` and
the three of `SharedShelf` are all four together. Two recoveries of one checkout
at a time are covered by the theorems, which have any number; the runs have one,
with a payment, a reversal and a display beside it.
`MaxStock`, `MaxDeficit`, `MaxUnits` and `MaxTime` bound deliveries, negative
stock, baskets and the clock in the guards, and nothing else.

Two payments are what switching methods and paying twice need, two charges what
a repeated terminal request needs; two workers settle the same event, or an
event and a reconciliation, at once. `MaxPayments` and `MaxCharges`, within them
the scene's `payments`, `charges` and `receipts`, and `MaxReconciles` are guards of
`StartPayment`, `Proceed`, `PaymentConfirm` and `PaymentReconcile`; reversals are
bounded by the receipts.

Two production orders and two members of staff give every pair of operations on
one order, an order and its run, and a surplus with its shortage; a batch yields
nothing or twice what was ordered. `Typed` is empty: with typed batch numbers
completion twice is possible, and the properties that depend on it say so
(`AsMade`). Two lots and two sales let units of one origin go out, come back as
the other lot and go out again; one day passes, so that lots expire between a
check and a release; `MaxCounter` bounds what the shelf receives, what is asked of
it and what an adjustment takes. Batches of one and of two units (`MaxPack`) are the least whose
edit makes a line stand for more, or for less, than what moved; two lines on a
form and two clerks give the allowance consumed twice by one request and by two.
A house bounds its own lots and sales, so that the clerks' interleavings and
the lots' need not be multiplied. A document of
up to three units of money and two clerks give two payments that settle it,
overlap or exceed it; `MaxPaid` stops forms once twice the amount has been
paid, `MaxUnbooked` payments below zero, `MaxOverwrites` the receipts that edits
hide, `MaxStock` the material. Three receipts, totals and amounts of up to three and two requests at
once let a receipt cover several sales, a sale take several receipts, and a
distribution overlap a payment of Finance or a reversal. Reversals that overlap
nothing and those that do are different scenes (`shop.crossing`), since the
second kind leaves stale statuses behind (section 4).

Two payments of a subscription, edits, the job, months of one day and a clock
of three days give a payment before, at and after expiry and a second one while the
first is checked. A delivery is given up after two attempts (four in the code),
a dispatcher dies once and two overlap once (`MaxCrashes`, `MaxOverlaps`): more
of each only repeats a push. In `TenantBackup` the schema has one table of each
kind the code distinguishes (owned, child with one or two parents,
self-reference, singleton, unique values, customers, locations, users), and
users of either side record or delete two rows (`MaxWork`).

*Symmetry* is used for checkouts and for production orders, which are
interchangeable and whose runs check no liveness.

*Fairness.* `CommercePayments` assumes that the gateway repeats an event until
it is acknowledged and that one of the workers gets to it at last (strong
fairness of delivery, since a worker is free only now and then), and that a
request that has read and verified an event goes on (weak fairness of
`SettleEvent`; a request that dies is a failed delivery, which the gateway
repeats). `ScheduledJobs` assumes that the daily job and the cron request are
called again and again, which `docs/DEPLOYMENT.md` asks of the operator, that
time passes (`Backoff`), and that a dispatcher at work goes on, as every push
has a timeout of five seconds; it may crash a bounded number of times. Nothing
is assumed of customers, staff, members, providers or push services.

Each property of a passing run has a mutant in `PROJECT.json`: an operator of
the module with a plausible bug under which TLC finds the property violated.
The type invariants are not among the runs' properties: they are proved, for
every module that has a run.

## 4. Where the code departs from its documents, and known gaps

Three departures are runs that TLC finds violated:

* **A materialized order may hold nothing** (`RecoveredOrder`).
  Materialization leaves `reservation_released_at` set, so an order recovered
  from review, or paid after its cancellation, is not counted as holding its
  units although the docstring says that the reservation stays attached until
  acceptance. The escrow is still sound; only the promise to that order is lost.
* **Web receipts pay other customers' offcut** (`OffcutReceipts`). The sales of
  an order's offcut are linked to the order and made before its own sale
  (`production/views.py:864`); the receipts are distributed over all linked
  sales, oldest first. The other customer's sale is shown as paid, it marks the
  order as paid, and the customer's own sale stays due, although
  `.codex/skills/finance-integrity/SKILL.md:22` calls the offcut sale "a
  distinct sale/receivable from the original customer's Order".
* **A signed-out device is switched on again** (`SignedOutAlerts`). A
  dispatcher writes the `active` flag of every device it pushed to back as it
  read it before a batch of slow calls (`commerce/webpush.py:270`). Who signed
  out meanwhile goes on receiving the tenant's alerts, although
  `commerce/signals.py:9` says that signing out stops them.

The following is what the code does as well. The models contain it, and the
properties are stated so as to except exactly these steps and no others.

*Checkout and shelf.* A display request that read a checkout before a late
payment writes `expired` over `paid_review`, and recovery refuses it from then
on: `PaidCheckoutIsRecoverable` is checked without displays. A direct sale
compares with unheld stock before its transaction and never again, so it can
take held units, and it compares its lines one by one, so that stock can become
negative unforced: the escrow is implemented only without direct sales. An
intake rejected by its stock policy keeps its hold. A recovery that fails frees
the checkout's lock before it writes `paid_review`, and looks at nothing: when
another recovery or a receipt has created the intake in between, the checkout of
that order is in paid review and its units are no longer held. Another recovery
returns the intake and leaves the status. `OrderReviewedOnlyLate` says that this
is the only way into that state. A reversal takes no lock of the checkout: it can
commit after a recovery has added up the receipts and before it creates the
intake, which then exists, and says confirmed, on less money than its price;
`OrderPaidInFull` and `ConfirmedIsPaid` except exactly that. A reversal after the intake exists takes the money from
the order, which stays.

*Payments.* A customer who has transferred and then chooses a card before the
event arrives has the transfer cancelled; its money is refused at every
repetition of the event. `Stranded` lists this and the other cases that
`MoneyIsRecordedOrStranded` excuses: a charge made for the checkout that has
become an order since, and, at a terminal, a charge whose code was never stored
or was replaced by that of a repeated request, or whose event named a
transaction the webhook knows nothing of and was answered as ignored. Money of an
ignored event is entered once staff reconcile the payment; money under a
replaced code no reconciliation finds. The second answer for a terminal payment
also writes `awaiting_customer` over `paid`, so that a settled payment looks due
until its next receipt or reversal. A customer who pays by two methods at once, or at the terminal under two codes, is
charged twice.

*Production.* Raw-material updates of two approvals may overwrite each other. A
stale edit writes `pending` over an approved order, which then can be neither
approved again (its usage row is unique) nor completed. A shortage can be made
up from a batch reversed meanwhile, or into one. A reversal may drive the shelf
below zero. A run is not completed when its last two orders are completed at
once.

*Market stock.* Two clerks, or two lines of one sale, can consume the same
allowance: each line is compared alone, before the transaction, and each consumes
from a copy of the product of its own. `counter.late` is by how much, and
`UnlistedSalesAreCovered` allows that and no more. A downward stock adjustment
leaves the allowance, which may then be above the shelf. A form dated
yesterday, also one opened before midnight, releases lots that expired since,
although `docs/COMMERCE_INTEGRATION.md:172` says that they are excluded. Shelf
units sold to a distributor, or by a wholesaler at the counter, come back as a
lot without batch or expiry. An edit of a product loses the movements since its
form was shown. An edit of `units_per_batch` changes what old lines stand for:
the customer of a release may return more than they got, or less, and a sale
between its check and its commit keeps its batches and pieces, not its units.
`UnitsConserved` says of an edited product only that lots and journals agree and that
what went out and came back adds up.

*Trade.* A supplier payment in flight is not seen when the same order is saved
as paid, and the supplier is paid twice; a new order saved as partly paid with
its whole amount is recorded nowhere; an edit from paid to unpaid leaves the
ledger entry; a stale edit writes `draft` over `received` and the goods are
received again. Two overlapping payments may exceed the balance together and
may leave a settled document partial. A supplier or customer payment of zero or
less passes its form: it is a row that counts in the sum of the payments and
protects the document from deletion, while `record_cash` drops it, so that what
is owed grows and the ledger does not move; `BooksAgree` says that the two
differ by no more than that. Overlapping a payment that settles the document,
it leaves the document paid though its payments fall short, still covered by
the cash, as the ledger has the positive ones whole. A receipt with two lines of
one material loses all of their movements but the last, since every line adds to
the copy of the row it was read with; its journal has them all. The expense form compares with the whole
expense, so that up to twice its amount can be paid; its creation is not atomic
with its ledger entry, and its edit does not touch the ledger. Deletions leave
ledger entries and stock. Receipt and adjustment may overwrite each other's
stock of a raw material.

*Web receipts.* A receipt and a sale are allocated to each other only once. When
a reversal makes a sale due again that another receipt with money left has paid
in part, the next distribution inserts that pair again, and with it acceptance,
completion or the new receipt is rolled back, at every repetition. A reversal
locks neither the intake nor the sales: overlapping a distribution or a payment
of Finance, it leaves a sale shown as paid from a sum that no longer holds
(`ShownPaidIsBacked` excepts exactly these scenes). A payment below zero that
Finance records for a sale which is covered, or whose payments another request
has added up, likewise leaves the sale shown as paid by payments that fall
short (`lowered`). An order that staff marked
as paid before its completion gets income for its whole total besides its
receipts, whose distribution may then show it as partly paid.

*Subscriptions and alerts.* The daily job writes `expired` over a subscription
renewed after it was read, and only the next payment revives it. Lifetime access
can be revoked of a row that is not lifetime access, and a stale switch or
revocation overwrites the paid time. A failed gateway call writes `failed` over
`paid`, so that a payment can be counted again. Alerts pending when the
entitlement ends are still sent; notices read while the tenant is not entitled
are retired for good.

*Backup.* A backup is not a snapshot: taken while the office works, it may lack
a row that a required link of another leads to, and its import is then refused
for good. Two overlapping imports both pass the emptiness check, which is not
repeated under a lock, and both land unless a unique constraint stops the
second. A fixture blocks only on the tables it contains. A fixture that has some
locations but not the referenced one loses the link. A bootstrapped Main Store
blocks the import of a database. A row of a database whose nullable link leads
to another tenant's row arrives with that link cleared, and the destination's
row of a singleton is overwritten. Links that are text and not foreign keys, as
`FinancialTransaction.reference` (`PO-pk`, `SALE-pk`), are copied as they stand
while the rows they name are renumbered: they then lead to other documents, or to
none. `LinksSurvive` speaks of foreign keys only. `QuietBackupRestores` excludes
the refusal of a quiet backup as incomplete; a destination that is at work
already still blocks it.

## 5. Proofs

Every invariant and every action property of the passing runs is a theorem, for
all values of the constants; liveness stays with TLC. The proofs assume of the
constants what the modules' `...Assumption`s say (sets finite where they are
counted, bounds natural, a well-formed schema); TLC evaluates them in every run.
Where a theorem needs more it is written in the theorem, and named here:

| Hypothesis | Theorems | Why, and when it holds |
|---|---|---|
| `ShelfUsers = {}` | `CheckoutsImplementEscrow`, `HeldUnitsAreOnTheShelf`, `HeldOrdersShip`, `TimelyPaymentsAreHonoured` | no direct sale or adjustment takes from the shelf; with them the properties are false (*Checkout and shelf*, section 4); the run `CheckoutsOnly` has none |
| `Pollers = {}` | `PaidCheckoutsAreRecoverable` | no display request saves a checkout it read before it was paid; with one the property is false (*Checkout and shelf*, section 4); the run `CheckoutsOnly` has none |
| `[][DeletedStaysDeleted]_vars` | `ReversalTheorem` | see *Production* |
| `Desks \subseteq Owned`, `ChildrenOfRecords` | `TablesStayApart` | a table without a business column links to records, not to locations, settings or users, and users record its rows only below rows of their business: so are the models `tenant_backup_querysets` and `TENANT_MODEL_LABELS` name |
| `CompleteReading` | `QuietBackupTheorem` | `tenant_backup_querysets` (`core/services.py`) reads, with a table, the tables its required links lead to, and a child table by its link to the owner; false for another choice of querysets, which is what the property is about |

*Escrow* (`StockEscrow_proofs`). `EscrowIsCovered`: units held are on the
shelf, for any holders and goods. Inductive as it stands with the types; the
work is in counting: `Held` is the cardinality of a set of unit identities,
`Reserve` adds those of one holder, `Ship` removes at most what others do not
hold.

*Checkouts* (`CheckoutReservation_proofs`). None of the checkout's safety
properties is inductive. `OrderPaidInFull` needs to know that a recovery
which has added up the receipts found all of the money; `OrderReviewedOnlyLate`
that it holds the lock of a checkout that has no intake, alone, until it creates
the intake or fails (`LocksKept`), and that only checkouts past their payment are
in anybody's recovery (`ReviewsKept`); `OrderOutcomeIsFinal` that a clerk who is
past the check still has an open intake and holds its lock alone. The
strengthening is

    Bookkeeping == TypeOK /\ CheckoutsKept /\ ReviewsKept /\ LocksKept /\ AcceptancesKept

relating statuses, receipts, intakes and what the requests have read.
`BookkeepingIsKept` proves it inductive, one lemma per group of actions;
`TypeCorrect` follows. `OrderSteps`: every step leaves a checkout's order
untouched, materializes it, refuses it or settles it. From this and
`Bookkeeping`: `OrdersArePaid`, `OutcomesAreFinal`;
with `WhoSendsToReview` and `WhoFails`, `OrdersAreReviewedOnlyLate`, for any
number of recoveries at a time.
`OrdersDeliver` adds up what an acceptance ships and what it passes to
production; `ShipmentsSpareHolds` rests on the guard under the locks of the
goods, and holds on a shelf that sales and adjustments share.
`PaidCheckoutsAreRecoverable`: without displays, a checkout is never at its full
price and outside review.

*Refinement* (same module). Under `Holding`, which maps a checkout to its
reserved basket while `Active` and to nothing otherwise, and on a shelf without
direct sales, every initial state and step of `CheckoutReservation` is one of
`StockEscrow` or a stutter (`CheckoutsImplementEscrow`).
`HeldUnitsAreOnTheShelf` carries the escrow's theorem over: the coverage of
reservations is never proved of the detailed module itself. From it,
`TimelyPaymentsAreHonoured` (the units of a valid hold are there when its payment
materializes) and `HeldOrdersShip` (what others hold never eats into what a
standing hold is owed, so an acceptance from stock ships all of it).

*Payments* (`CommercePayments_proofs`). `PaymentsTypeCorrect`,
`PaymentsNeverOverpaid`, `PaymentsReferenceSettledOnce`,
`PaymentsProcessedIsRecorded`. A charge's money is entered once because a receipt
is entered under the reference that was verified and references of a payment's
gateway receipts are unique (`OneReference`). The last theorem
needs an invariant of several parts: an event that found nothing due is
acknowledged without a receipt of its own, so one must know that a payment with a charge is paid by
the gateway's receipts only (`CashByHand`, `ChargesAtGateway`), that staff
pages show cash only (`PagesShowCash`), and that what an event read stays true
until it is settled (`EventsAreRead`, since receipts are reversed but never
deleted). Money is counted as the cardinality of a set of units; `ReceiptAdds`
and `FewerUnits` are its two laws. `PaymentsConfirmedIsPaid` rests on
`MoneySteps`: every step of every actor either leaves the receipts or posts one
receipt or reversal to one payment, and what confirms a payment is the sum that
posting read; only a reversal within a recovery confirms an intake it takes
money from. `PaymentsSwitchSparesMoney` needs to know that a payment's status
tells what it holds when it is cancelled: at most one request waits for the
gateway's answer on a payment, which has none yet (`CallsAreSingle`), and the
gateway's money is entered only after the answer was stored (`OpenedFirst`), so
no late answer makes a paid payment look due again.

*Production* (`ProductionOrders_proofs`). `IncomeTheorem` and
`ApprovedTheorem` hold for any number of orders, staff and runs, and any way in
which their requests overlap: an approval writes the usage row in the same
transaction, and no other request takes the row away from an order it leaves
approved. `ShortageTheorem`: what a request read of the material is what its
unforced check compared, so its movement cannot end below zero.
`ReconciledTheorem`: batch numbers are unique, a number not in use is not
reconciled, and the units reconciled fit the batch. `ReversalTheorem`: an order
with one batch has put on the shelf, in market stock and in the sales what the
batch accounts for, and one without has put nothing. It holds as long as no
request writes an order again that it read before the order was deleted. That
exception is the code's, not the proof's: with four staff at work TLC finds, in
twenty steps, an order that a stale save revives after its reversal; its batch
is gone, and completing it once more leaves two sets of units and one batch to
account for them. The run has fewer staff and does not reach it.

*Market stock* (`MarketStock_proofs`). The strengthening is types and
`LotsKept` (a lot's units left and journal determine each other as far as
reversal and expiry need). From it: `MarketTypeCorrect` (no lot below zero),
`ReversedTheorem`, `FreshTheorem`, `LotsTheorem`. `UnlistedTheorem` is for any
number of clerks: `Covered` says of every stage of a request what it may take,
in terms of the allowance, of `Reach` (what was transferred and what is
late) and of what others took since its check (`ShelfCovered`, `ChecksCovered`,
`SalesCovered`, `ShipmentsCovered`). Its heart is `TwoLines`, arithmetic: of two
lines that were each within reach, the second exceeds it by no more than the
first took. `ConservedTheorem` has two parts. `Conserved` accounts for every
unit made, over all lots, customers, the shelf and the sales, whatever is edited
(`Accounted`, `OnLines`, `Balance`). `Unedited` says of a product nobody edits
that every line stands for the units that moved by it, also on the forms under
way, that none takes back more, and that the shelf is accounted for (`LinesAgree`,
`RequestsAgree`, `ShelfAgrees`). The first needs the laws of sums over a finite set: a sum is a
fold, and what the folds compute is not something the provers can obtain by the
library's induction theorems, which take an operator. So the set of subsets for
which a law fails is a set like any other, and a smallest member is
contradictory (`NatLessThanWellFounded` with `WFMin`). `ProductionOrders_proofs` and
`Bookkeeping_proofs` argue about their sums in the same way.

*Trade* (`Bookkeeping_proofs`, first part). `PurchasesBookedOnce`: a purchase is
received once, and once more for each save that wrote `draft` over a receipt,
and has one entry in the ledger. Its invariant (`Booked`, `Begun`,
`Backed`) says what a request that has read a document may still write of it:
what it added up is no more than the ledger has for the document, as a payment
below zero lowers the sum and not the cash.
`BooksAlwaysAgree` is about offices whose requests take turns (`Orderly`): one
request at work (`Alone`), the stock that of its journal less the lines a receipt
lost (`Counted`), the cash paid what the status of each document says, and above
it what the ledger dropped (`AllOwed`), and what a request has read still so
(`Promised`).

*Receipts* (`Bookkeeping_proofs`, second part). The longest proof. A
distribution reads receipts and sales under the lock of the intake, plans, and
writes; so the invariant

    ReceiptsInv == ReceiptsTypeOK /\ Informed /\ Apart /\ Spending
                     /\ Reached /\ Unmarked /\ Shows

says of each request what its stage has read and that it is still so
(`Informed`: `Locked`, `Reads`, `Fresh`), that two requests never hold the lock
together (`Apart`), and of the books that no receipt is spent beyond its amount
(`Spending`), that between distributions money and due sales do not remain
together (`Reached`), and what is shown (`Unmarked`, `Shows`). The heart is `AllocationFills`: laying
receipts end to end, and sales end to end, a receipt pays a sale the length of
their overlap, so each receipt gives at most what it has, each sale gets at most
what it lacks, and one of the two sides is used up. `ReceiptsNeverOverspent`,
`MoneyAlwaysReachesSales` and `WhatIsPaidIsBacked` follow; TLC checked the
invariant first, on the instance of the run.

*Jobs* (`ScheduledJobs_proofs`). `PaidTimeTheorem` (`BillingInv`): a payment
that was counted is paid unless it was reopened (`CountedOnce`), and until a row
read before is written back the subscription lasts as long as was paid for,
counted from the day of each payment or the end of the one before (`TimeIsAhead`).
`NoticesTheorem` (`DevicesInv`, `WorkInv`, `NoticeInv`): a dispatcher that has
listed a notice has a row for every device that is owed it, and later there is a
delivery for each (`Enlisted`), so that marking it forgets nobody. `PushesTheorem`
(`TallyInv`) counts, for each delivery, the dispatchers that hold it, those that
may still push it and those that will push it next: one that
arrives is an overlap, one that vanishes a crash.

*Import* (`TenantBackup_proofs`). Everything is proved for an arbitrary schema,
order of tables, file and number of imports. `ScopeIsGrounded`: in the least
set closed under the parent rule, every row is there by its own column or by a
parent in the set, since without a row that has no reason the set would be
closed too. `OnlyTheTenantTheorem` follows with `Arrivals`: what an import has
written is in its scope, and every row of the scope has its key once its table
is copied. `LinksSurviveTheorem` needs `Linking` besides: no new key is given
twice (`Keys`), and a link of a written row is what the file means or is in
`later` (`Drafted`), so that the repairs before the commit complete it
(`CommitLinks`); what other imports and users commit in between touches no row
of this import but a singleton (`CommitSparesOthers`, `OthersKeepLinks`).
`TablesStayApart`: the emptiness check looks at tables with a business column
only, so one must show that a child row in the destination has such a row above
it (`Apart`, `ChildrenHaveRecords`). `QuietBackupTheorem`: what the reading has
collected is the office's, all of it, and nothing required is missing
(`Faithful`, `Restored`), hence no refusal and no lost row at the import.

*Types.* `TypeCorrect`, `PaymentsTypeCorrect`, `ProductionTypeCorrect`,
`MarketTypeCorrect`, `BooksTypeCorrect`, `JobsTypeCorrect`, `BackupTypeCorrect`
and `EscrowIsCovered` prove each component's `TypeOK`.

*What the proofs changed in the model.* `Settled` (`TradeLedger`) and `StatusOf`
(`ReceiptAllocation`) had `CASE` arms that could hold together, of which TLA+ may
choose any; they are disjoint now, in the order of the code's `if`s.

*Only model-checked:* `MoneyIsRecordedOrStranded`, `EntitlementsCatchUp` and
`OutboxDrains`. They are about fairness and `ENABLED`, which the provers do not
reach.

## 6. Plan

Done: checkout and escrow, payments, production, market stock, trade, receipts
and the sales they pay, jobs with subscriptions and alerts, backup and import,
and a theorem for every invariant and action property of the runs. Left:

1. Proofs: the steps liveness rests on (a dispatch that takes a notice never
   makes its work grow, a daily job that runs leaves no stale entitlement), as
   action properties; a weaker hypothesis for `TablesStayApart` than
   `ChildrenOfRecords`.
2. `LockOrder`: the order in which the operations above lock rows, and whether
   requests can wait for each other in a circle (the database then aborts one).
3. The tenant of a request and its reset (`core/middleware.py`).

## 7. Not modelled

Gateways' HTTP clients, rendering, forms, reports, PDF output, permissions and
configuration: they keep no state of their own that concurrent requests contend
for. Dashboards and reports only read. The tenant of a request is kept per
thread and reset in one place; it is planned, not modelled. Within the modelled
components the parts left out are named in section 2 and in the notes of
`PROJECT.json`: costs and prices, unit conversions, numbering of orders, manual
bank claims, the notification feed, roles
and memberships, uploaded media. Recursive definitions and liveness stay with
TLC; they are outside what TLAPS can prove.
