-------------------------- MODULE ProductionOrders --------------------------
(***************************************************************************)
(* The life of production orders: staff create, edit, approve, reject,     *)
(* complete, reverse, recreate and delete them, alone or in one shared     *)
(* production run; an approval releases raw material, a completion makes   *)
(* batches whose units go to the shelf, to market stock or to customers,   *)
(* and a shortage of one batch is made up from the surplus of another.     *)
(*                                                                         *)
(* Most views decide on an order they read without a lock and write later: *)
(* Begin is the reading half of such a request, the action named after the *)
(* view the writing half, so that two requests overlap in every way.  What *)
(* a view does under select_for_update or a unique constraint is one       *)
(* action.  Reads inside a transaction are taken at its end.               *)
(*                                                                         *)
(* There is one finished good and one raw material; an order has one item  *)
(* and a unit of product needs a unit of material.  Flexible quantities,   *)
(* costs, quality checks, customers' payments of a finished order and the  *)
(* counters total_produced and total_delivered are left out.               *)
(***************************************************************************)
EXTENDS Integers, FiniteSets, Functions

CONSTANTS
    Orders,     \* rows the Order table may hold
    Staff,      \* members of staff, one request at a time each
    Duties,     \* bound: Duties[s] are the operations of s
    Groups,     \* bound: sets of orders staff select for the shared run
    Forms,      \* order forms staff fill in
    Typed,      \* batch numbers staff may type over the proposed one
    Yields,     \* units a batch may yield
    MaxUnits,   \* bound: units an order may have produced
    MaxStock    \* bound: material is delivered up to this level

Operations ==
    {"edit", "reject", "delete", "approve", "complete", "reverse",
     "link", "approveRun", "deleteRun"}

Kinds == {"store", "non_stock", "market", "customer"}

Details == [kind : Kinds, ordered : Nat \ {0}, planned : Nat \ {0}, paid : BOOLEAN]

\* OrderForm.clean and OrderItemFormSetBase.clean: a production plan is for
\* customer and market orders and never below the order; the rest is not paid for.
Clean(d) ==
    /\ d.planned >= d.ordered
    /\ d.kind \in {"store", "non_stock"} => d.planned = d.ordered
    /\ d.kind # "customer" => d.paid

ASSUME ProductionAssumption ==
    /\ IsFiniteSet(Orders)
    /\ Forms \subseteq Details
    /\ \A d \in Forms : Clean(d) /\ d.planned <= MaxUnits
    /\ Forms # {}
    /\ Duties \in [Staff -> SUBSET (Operations \cup {"reconcile"})]
    /\ Groups \subseteq SUBSET Orders
    /\ IsFiniteSet(Typed)
    /\ Yields \subseteq Nat
    /\ MaxUnits \in Nat
    /\ MaxStock \in Nat

VARIABLES
    status,      \* status[o]: Order.status, "none" before it exists
    details,     \* details[o]: what the order form holds
    usage,       \* usage[o]: material of its OrderMaterialUsage row, 0: no row
    stock,       \* RawMaterial.stock
    shelf,       \* FinishedGood.stock
    batches,     \* rows of ProductionBatch
    shelved,     \* shelved[o]: stock movements with the numbers of its batches
    lot,         \* lot[id]: quantity_available of the batch's market lot
    handedOn,    \* handedOn[id]: units of its rows of reconciliation_out
    madeUp,      \* madeUp[id]: units of its rows of reconciliation_in
    sales,       \* sales[o]: live sales linked to the order, paid and due
    income,      \* income[o]: ledger entries ORDER-o that are not reversed
    run,         \* status of the shared production run
    members,     \* orders linked to the run
    doing        \* doing[s]: what the request of s has read

books   == <<sales, income>>
settled == <<handedOn, madeUp>>
goods   == <<shelf, shelved, lot, settled>>
shared  == <<run, members>>
vars    == <<status, details, usage, stock, batches, goods, books, shared, doing>>

-----------------------------------------------------------------------------
(* Values *)

Statuses ==
    {"none", "pending", "approved", "completed", "rejected", "reversed", "deleted"}

Proposed == "proposed"     \* channel, date, order and item: unique to the order
Numbers  == Typed \cup {Proposed}
Batches  == Orders \X Numbers

BatchRows ==
    [id : Batches, kind : Kinds, ordered : Nat, planned : Nat, saleable : Nat,
     kept : Nat, given : Nat, market : Nat, reversed : BOOLEAN]

Idle == [op |-> "idle"]

\* A request on orders, or one that reconciles two batches.
Reading(r) ==
    /\ r.op \in Operations
    /\ r.orders \subseteq Orders
    /\ r.seen \in [r.orders -> Details]
    /\ r.stock \in Int
    /\ {r.forced, r.inRun, r.reversed} \subseteq BOOLEAN

Reconciling(r) == r.op = "reconcile" /\ {r.source, r.target} \subseteq Batches

NoDetails == CHOOSE d \in Forms : TRUE

TypeOK ==
    /\ status \in [Orders -> Statuses]
    /\ details \in [Orders -> Details]
    /\ usage \in [Orders -> Nat]
    /\ stock \in Int
    /\ shelf \in Int
    /\ batches \subseteq BatchRows
    /\ shelved \in [Orders -> Int]
    /\ lot \in [Batches -> Nat]
    /\ handedOn \in [Batches -> Nat]
    /\ madeUp \in [Batches -> Nat]
    /\ sales \in [Orders -> [paid : Nat, due : Nat]]
    /\ income \in [Orders -> Nat]
    /\ run \in {"none", "draft", "approved", "completed", "deleted"}
    /\ members \subseteq Orders
    /\ \A s \in Staff :
          doing[s] = Idle \/ Reconciling(doing[s]) \/ Reading(doing[s])

Init ==
    /\ status = [o \in Orders |-> "none"]
    /\ details = [o \in Orders |-> NoDetails]
    /\ usage = [o \in Orders |-> 0]
    /\ stock = MaxStock
    /\ shelf = 0
    /\ batches = {}
    /\ shelved = [o \in Orders |-> 0]
    /\ lot = [id \in Batches |-> 0]
    /\ handedOn = [id \in Batches |-> 0]
    /\ madeUp = [id \in Batches |-> 0]
    /\ sales = [o \in Orders |-> [paid |-> 0, due |-> 0]]
    /\ income = [o \in Orders |-> 0]
    /\ run = "none"
    /\ members = {}
    /\ doing = [s \in Staff |-> Idle]

-----------------------------------------------------------------------------
(* Batches *)

Least(a, b) == IF a <= b THEN a ELSE b
Positive(n) == IF n >= 0 THEN n ELSE 0

BatchesOf(o) == {b \in batches : b.id[1] = o}

\* shortage_units.
Shortage(b) == Positive(b.ordered - b.saleable)

NotReconciled(b) == handedOn[b.id] = 0 /\ madeUp[b.id] = 0

\* What a completion put on the shelf, and what a reversal takes from it: the
\* kind of the order decides, then as it is now.
ShelfUnits(kind, b) ==
    b.kept + IF kind = "store" \/ (kind = "market" /\ b.market = 0)
             THEN Least(b.saleable, b.planned) ELSE 0

\* ProductionCompletionForm.clean and the offcut rows: how the units of a batch
\* may be shared out.  `given` are planned offcuts sold to customers, `kept`
\* offcuts and excess that stay on the shelf.
Allocations(d, saleable) ==
    LET target  == Least(saleable, d.planned)
        offcut  == IF d.kind = "customer" THEN Positive(target - d.ordered) ELSE 0
        excess  == Positive(saleable - d.planned)
    IN  {[kept |-> (offcut - given) + onShelf, given |-> given,
          market |-> IF d.kind = "market" /\ target > 0
                     THEN target + onMarket ELSE 0] :
            given \in 0 .. offcut,
            onShelf \in 0 .. IF d.kind = "market" THEN 0 ELSE excess,
            onMarket \in 0 .. IF d.kind = "market" THEN excess ELSE 0}

\* The row order_complete creates; ordered and planned are those it read.
Batch(o, number, d, saleable, a) ==
    [id |-> <<o, number>>, kind |-> d.kind, ordered |-> d.ordered,
     planned |-> d.planned, saleable |-> saleable, kept |-> a.kept,
     given |-> a.given, market |-> a.market, reversed |-> FALSE]

\* unique_production_batch_per_business.
NumberFree(id) == \A b \in batches : b.id # id

Untouched(b) == lot[b.id] = b.market

-----------------------------------------------------------------------------
(* Orders *)

Done(s) == doing' = [doing EXCEPT ![s] = Idle]

At(s, op) == doing[s].op = op

\* The order a request other than those on the run is about.
Its(s) == CHOOSE o \in doing[s].orders : TRUE

\* order_form, a new order; it may be created inside the draft run.
CreateOrder(o, d, inRun) ==
    /\ status[o] = "none"
    /\ inRun => run = "draft"
    /\ status' = [status EXCEPT ![o] = "pending"]
    /\ details' = [details EXCEPT ![o] = d]
    /\ members' = IF inRun THEN members \cup {o} ELSE members
    /\ UNCHANGED <<usage, stock, batches, goods, books, run, doing>>

\* order_recreate: a pending copy of a reversed order.
OrderRecreate(o, copy) ==
    /\ status[o] = "reversed"
    /\ status[copy] = "none"
    /\ status' = [status EXCEPT ![copy] = "pending"]
    /\ details' = [details EXCEPT ![copy] = details[o]]
    /\ UNCHANGED <<usage, stock, batches, goods, books, shared, doing>>

\* A mutated form of TakenBack: a customer's order keeps its offcuts.
TakenBackFromStore(o) ==
    IF details[o].kind = "customer" THEN 0
    ELSE SumFunction([b \in BatchesOf(o) |-> ShelfUnits(details[o].kind, b)])

\* What a reversal takes from the shelf.
TakenBack(o) == SumFunction([b \in BatchesOf(o) |-> ShelfUnits(details[o].kind, b)])

\* What each view requires of the order it has read.
InDraftRun(o) == o \in members /\ run = "draft"

\* order_reverse, before its transaction: nothing was settled, the lots
\* are whole, the shelf holds what is to be taken back.
Reversible(o) ==
    /\ \A b \in BatchesOf(o) : NotReconciled(b)
    /\ details[o].kind = "market" => \A b \in BatchesOf(o) : Untouched(b)
    /\ TakenBack(o) > 0 => TakenBack(o) <= shelf

MayBegin(op, o) ==
    \/ op \in {"edit", "reject"} /\ status[o] = "pending"
    \/ op = "approve" /\ status[o] = "pending" /\ ~InDraftRun(o)
    \/ op = "complete" /\ status[o] = "approved"
    \/ op = "reverse" /\ status[o] = "completed" /\ Reversible(o)
    \/ op = "delete" /\ status[o] \in {"pending", "rejected", "reversed"}

\* A request reads its orders, and for an approval the stock, without a lock.
Begin(s, op, os, forced) ==
    /\ doing[s] = Idle
    /\ op \in Duties[s]
    /\ doing' = [doing EXCEPT ![s] =
          [op |-> op, orders |-> os, seen |-> [o \in os |-> details[o]],
           stock |-> IF op \in {"approve", "approveRun"} THEN stock ELSE 0,
           forced |-> forced,
           inRun |-> op = "complete" /\ os \subseteq members
                     /\ run \in {"approved", "completed"},
           reversed |-> op = "delete" /\ \A o \in os : status[o] = "reversed"]]
    /\ UNCHANGED <<status, details, usage, stock, batches, goods, books, shared>>

\* Material for the orders, and what a stock read earlier would have left.
Needed(os, of)  ==
    Cardinality({unit \in os \X (1 .. MaxUnits) : unit[2] <= of[unit[1]].planned})
Left(n, os, of) == n - Needed(os, of)

\* A mutated form of Enough: the orders of a run are compared one by one.
EnoughForEach(os, force) ==
    force \/ \A o \in os : ~(Left(stock, {o}, details) < 0)

\* A shortage is refused unless the request is forced.
Enough(os, force) == force \/ ~(Left(stock, os, details) < 0)

BeginOnOrder(s, op, o, forced) ==
    /\ MayBegin(op, o)
    /\ IF op = "approve" THEN Enough({o}, forced) ELSE ~forced
    /\ Begin(s, op, {o}, forced)

\* order_form, an edit: the whole row is written as it was read, changed by the
\* form, and inserted if it is gone; an item staff replaced takes its usage
\* along, unless a batch needs it.
OrderEdit(s, d, replaced) ==
    LET o == Its(s)
    IN  /\ At(s, "edit")
        /\ replaced => BatchesOf(o) = {}
        /\ status' = [status EXCEPT ![o] = "pending"]
        /\ details' = [details EXCEPT ![o] = d]
        /\ usage' = IF replaced THEN [usage EXCEPT ![o] = 0] ELSE usage
        /\ Done(s)
        /\ UNCHANGED <<stock, batches, goods, books, shared>>

\* order_reject: the whole row again.
OrderReject(s) ==
    LET o == Its(s)
    IN  /\ At(s, "reject")
        /\ status' = [status EXCEPT ![o] = "rejected"]
        /\ details' = [details EXCEPT ![o] = doing[s].seen[o]]
        /\ Done(s)
        /\ UNCHANGED <<usage, stock, batches, goods, books, shared>>

\* record_raw_material_movement on the material as it was read: its stock is
\* computed in memory and written back.
Consume(s) == stock' = Left(doing[s].stock, doing[s].orders, doing[s].seen)

\* A mutated form of ReleaseUsage: a run records the usage of one order.
ReleaseUsageOfOne(s) ==
    /\ usage[Its(s)] = 0
    /\ usage' = [usage EXCEPT ![Its(s)] = doing[s].seen[Its(s)].planned]

\* unique_material_usage_per_order_item.
ReleaseUsage(s) ==
    /\ \A o \in doing[s].orders : usage[o] = 0
    /\ usage' = [o \in Orders |->
          IF o \in doing[s].orders THEN doing[s].seen[o].planned ELSE usage[o]]

\* order_approve: the order is locked and still pending; what it needs, and
\* the row that is written, are as they were read.
OrderApprove(s) ==
    LET o == Its(s)
    IN  /\ At(s, "approve")
        /\ status[o] = "pending"
        /\ ReleaseUsage(s)
        /\ Consume(s)
        /\ status' = [status EXCEPT ![o] = "approved"]
        /\ details' = [details EXCEPT ![o] = doing[s].seen[o]]
        /\ Done(s)
        /\ UNCHANGED <<batches, goods, books, shared>>

\* order_complete: the status is not looked at again.  Each line makes a
\* batch; a customer's order is sold, paid or due, and offcuts given to other
\* customers are sold to them, due.
OrderComplete(s, number, saleable, a) ==
    LET o == Its(s)
        d == doing[s].seen[o]
        b == Batch(o, number, d, saleable, a)
        received == IF d.kind = "customer" /\ d.paid THEN 1 ELSE 0
        owed == (IF d.kind = "customer" /\ ~d.paid THEN 1 ELSE 0)
                  + (IF a.given > 0 THEN 1 ELSE 0)
    IN  /\ At(s, "complete")
        /\ a \in Allocations(d, saleable)
        /\ status[o] # "deleted"
        /\ doing[s].inRun => run # "deleted"
        /\ NumberFree(b.id)
        /\ batches' = batches \cup {b}
        /\ lot' = [lot EXCEPT ![b.id] = b.market]
        /\ shelf' = shelf + ShelfUnits(d.kind, b)
        /\ shelved' = [shelved EXCEPT ![o] = @ + ShelfUnits(d.kind, b)]
        /\ sales' = [sales EXCEPT
              ![o] = [paid |-> @.paid + received, due |-> @.due + owed]]
        /\ income' = [income EXCEPT ![o] = @ + received]
        /\ status' = [status EXCEPT ![o] = "completed"]
        /\ run' = IF doing[s].inRun /\ members # {}
                     /\ \A other \in members \ {o} : status[other] = "completed"
                  THEN "completed" ELSE run
        /\ Done(s)
        /\ UNCHANGED <<details, usage, stock, settled, members>>

\* A mutated form of ReverseIncome: the sales go, the entries stay.
KeepIncome(o) == UNCHANGED income

\* Every live entry ORDER-o gets its counter-entry.
ReverseIncome(o) == income' = [income EXCEPT ![o] = 0]

\* order_reverse: the order is locked and still completed, and each lot is
\* found untouched under its lock; reconciliations and the shelf are not looked
\* at again.  Material, units, sales and income are taken back.
OrderReverse(s) ==
    LET o    == Its(s)
        kind == details[o].kind
    IN  /\ At(s, "reverse")
        /\ status[o] = "completed"
        /\ kind = "market" => \A b \in BatchesOf(o) : b.market > 0 => Untouched(b)
        /\ stock' = stock + usage[o]
        /\ shelf' = shelf - TakenBack(o)
        /\ shelved' = [shelved EXCEPT ![o] = @ - TakenBack(o)]
        /\ lot' = [id \in Batches |->
              IF kind = "market" /\ id[1] = o THEN 0 ELSE lot[id]]
        /\ batches' = {IF b.id[1] = o THEN [b EXCEPT !.reversed = TRUE] ELSE b :
                          b \in batches}
        /\ ReverseIncome(o)
        /\ sales' = [sales EXCEPT ![o] = [paid |-> 0, due |-> 0]]
        /\ status' = [status EXCEPT ![o] = "reversed"]
        /\ run' = IF o \in members /\ run = "completed" THEN "approved" ELSE run
        /\ Done(s)
        /\ UNCHANGED <<details, usage, settled, members>>

\* order_delete: a reversed order loses its batches first; any other that has
\* batches is protected by them, and so is a batch by its reconciliations.
OrderDelete(s) ==
    LET o == Its(s)
    IN  /\ At(s, "delete")
        /\ \/ BatchesOf(o) = {}
           \/ /\ doing[s].reversed
              /\ \A b \in BatchesOf(o) : NotReconciled(b)
        /\ status' = [status EXCEPT ![o] = "deleted"]
        /\ batches' = batches \ BatchesOf(o)
        /\ lot' = [id \in Batches |-> IF id[1] = o THEN 0 ELSE lot[id]]
        /\ usage' = [usage EXCEPT ![o] = 0]
        /\ members' = members \ {o}
        /\ Done(s)
        /\ UNCHANGED <<details, stock, shelf, shelved, settled, books, run>>

-----------------------------------------------------------------------------
(* The shared run *)

\* production_run_form: a new run, or one read as a draft, and its orders,
\* pending when they were read.
BeginLink(s, os) ==
    /\ run \in {"none", "draft"}
    /\ \A o \in os : status[o] = "pending"
    /\ Begin(s, "link", os, FALSE)

\* The whole row of the run is written as it was read, then the links.
RunForm(s) ==
    /\ At(s, "link")
    /\ \A o \in doing[s].orders : status[o] # "deleted"
    /\ run' = "draft"
    /\ members' = doing[s].orders
    /\ Done(s)
    /\ UNCHANGED <<status, details, usage, stock, batches, goods, books>>

BeginRunApproval(s, forced) ==
    /\ run = "draft"
    /\ Cardinality(members) >= 2
    /\ \A o \in members : status[o] = "pending"
    /\ Enough(members, forced)
    /\ Begin(s, "approveRun", members, forced)

\* production_run_approve: run and orders are locked and looked at again.
RunApprove(s) ==
    LET os == doing[s].orders
    IN  /\ At(s, "approveRun")
        /\ run = "draft"
        /\ \A o \in os : status[o] = "pending"
        /\ ReleaseUsage(s)
        /\ Consume(s)
        /\ status' = [o \in Orders |-> IF o \in os THEN "approved" ELSE status[o]]
        /\ run' = "approved"
        /\ Done(s)
        /\ UNCHANGED <<details, batches, goods, books, members>>

BeginRunDelete(s) == run = "draft" /\ Begin(s, "deleteRun", {}, FALSE)

\* production_run_delete: whatever the run is by now; its links go with it.
RunDelete(s) ==
    /\ At(s, "deleteRun")
    /\ run' = "deleted"
    /\ members' = {}
    /\ Done(s)
    /\ UNCHANGED <<status, details, usage, stock, batches, goods, books>>

-----------------------------------------------------------------------------
(* Reconciliation of shortages *)

\* available_surplus_units and outstanding_shortage_units.
Surplus(b)     == Least(Positive(b.kept - handedOn[b.id]), Positive(shelf))
Outstanding(b) == Positive(Shortage(b) - madeUp[b.id])

Reconcilable(from, to, n) == n <= Surplus(from) /\ n <= Outstanding(to)

\* A mutated form of StillReconcilable: the quantities of the form are trusted.
ReconcilableAsRead(from, to, n) == n <= from.kept

\* The same again under the locks of the transaction.
StillReconcilable(from, to, n) == Reconcilable(from, to, n)

\* ProductionReconciliationForm: a batch with surplus that is not reversed, for
\* a customer's batch that was flagged short.
BeginReconcile(s, from, to) ==
    /\ doing[s] = Idle
    /\ "reconcile" \in Duties[s]
    /\ from # to
    /\ ~from.reversed
    /\ to.kind = "customer" /\ Shortage(to) > 0
    /\ Reconcilable(from, to, 1)
    /\ doing' = [doing EXCEPT ![s] =
          [op |-> "reconcile", source |-> from.id, target |-> to.id]]
    /\ UNCHANGED <<status, details, usage, stock, batches, goods, books, shared>>

\* production_batch_reconcile: both batches and the good are locked and the
\* quantities looked at again; whether the source is reversed is not.
BatchReconcile(s, from, to, n) ==
    /\ At(s, "reconcile")
    /\ from.id = doing[s].source
    /\ to.id = doing[s].target
    /\ StillReconcilable(from, to, n)
    /\ handedOn' = [handedOn EXCEPT ![from.id] = @ + n]
    /\ madeUp' = [madeUp EXCEPT ![to.id] = @ + n]
    /\ shelf' = shelf - n
    /\ Done(s)
    /\ UNCHANGED <<status, details, usage, stock, batches, shelved, lot, books,
                   shared>>

-----------------------------------------------------------------------------
(* Surroundings *)

\* A request ends without a change: it was refused, failed or was rolled back.
GiveUp(s) ==
    /\ doing[s] # Idle
    /\ Done(s)
    /\ UNCHANGED <<status, details, usage, stock, batches, goods, books, shared>>

\* A purchase of material arrives.
Deliver ==
    /\ stock < MaxStock
    /\ stock' = stock + 1
    /\ UNCHANGED <<status, details, usage, batches, goods, books, shared, doing>>

\* A unit is sold off the shelf.
SellFromShelf ==
    /\ shelf > 0
    /\ shelf' = shelf - 1
    /\ UNCHANGED <<status, details, usage, stock, batches, shelved, lot, settled,
                   books, shared, doing>>

\* A unit of market stock is released to a customer.
SellFromLot(id) ==
    /\ lot[id] > 0
    /\ lot' = [lot EXCEPT ![id] = @ - 1]
    /\ UNCHANGED <<status, details, usage, stock, batches, shelf, shelved, settled,
                   books, shared, doing>>

OrderStep(s) ==
    \/ \E o \in Orders, forced \in BOOLEAN,
          op \in {"edit", "reject", "approve", "complete", "reverse", "delete"} :
          BeginOnOrder(s, op, o, forced)
    \/ \E d \in Forms, replaced \in BOOLEAN : OrderEdit(s, d, replaced)
    \/ OrderReject(s)
    \/ OrderApprove(s)
    \/ /\ At(s, "complete")
       /\ \E number \in Numbers, saleable \in Yields :
             \E a \in Allocations(doing[s].seen[Its(s)], saleable) :
                OrderComplete(s, number, saleable, a)
    \/ OrderReverse(s)
    \/ OrderDelete(s)

RunStep(s) ==
    \/ \E os \in Groups : BeginLink(s, os)
    \/ RunForm(s)
    \/ \E forced \in BOOLEAN : BeginRunApproval(s, forced)
    \/ RunApprove(s)
    \/ BeginRunDelete(s)
    \/ RunDelete(s)

BatchStep(s) ==
    \E from, to \in batches :
        \/ BeginReconcile(s, from, to)
        \/ \E n \in 1 .. from.kept : BatchReconcile(s, from, to, n)

Next ==
    \/ \E o \in Orders, d \in Forms, inRun \in BOOLEAN : CreateOrder(o, d, inRun)
    \/ \E o, copy \in Orders : OrderRecreate(o, copy)
    \/ \E s \in Staff : OrderStep(s) \/ RunStep(s) \/ BatchStep(s) \/ GiveUp(s)
    \/ Deliver
    \/ SellFromShelf
    \/ \E id \in Batches : SellFromLot(id)

Spec == Init /\ [][Next]_vars

-----------------------------------------------------------------------------
(* Properties *)

(***************************************************************************)
(* Units a batch left on the shelf make up shortages once, and a batch is  *)
(* not made up beyond what it is short of: two members of staff who both   *)
(* saw the surplus and the shortage of production_batch_reconcile hand out *)
(* no unit twice.                                                          *)
(***************************************************************************)
ReconciledOnce ==
    \A b \in batches : handedOn[b.id] <= b.kept /\ madeUp[b.id] <= Shortage(b)

(***************************************************************************)
(* The ledger counts the money of a customer's order as income exactly as  *)
(* often as the order has a paid sale: through repeated completions,       *)
(* reversals and deletions order_complete and order_reverse keep both.     *)
(***************************************************************************)
IncomeFollowsSales == \A o \in Orders : income[o] = sales[o].paid

\* The order is still what its batches were made for, under the numbers the
\* completion form proposed.
AsMade(o) ==
    \A b \in BatchesOf(o) : b.kind = details[o].kind /\ b.id[2] = Proposed

(***************************************************************************)
(* A reversed order has left nothing behind: order_reverse takes from the  *)
(* shelf and from market stock exactly what the completion put there, for  *)
(* every kind of order and every way of sharing out a surplus, and no sale *)
(* of it remains.  A batch number typed over the proposed one, an edit     *)
(* that outlives the completion, or one that writes an order again after   *)
(* it was deleted, gives up this promise.                                  *)
(***************************************************************************)
ReversalLeavesNothing ==
    \A o \in Orders : status[o] = "reversed" /\ AsMade(o) =>
        /\ shelved[o] = 0
        /\ \A b \in BatchesOf(o) : b.reversed /\ lot[b.id] = 0
        /\ sales[o] = [paid |-> 0, due |-> 0]

(***************************************************************************)
(* An approved order has its material released: neither an edit nor a      *)
(* rejection that overlaps order_approve or production_run_approve leaves  *)
(* an order ready for production that was given nothing to produce from.   *)
(***************************************************************************)
ApprovedHasMaterial == \A o \in Orders : status[o] = "approved" => usage[o] > 0

(***************************************************************************)
(* The stock of a material falls below zero only when staff force a        *)
(* release (order_approve, production_run_approve): the check compares the *)
(* stock it read, and the movement subtracts from that same reading.       *)
(***************************************************************************)
BelowZeroIsForced ==
    stock' < stock /\ stock' < 0 => \E s \in Staff : doing[s] # Idle /\ doing'[s] = Idle /\ doing[s].forced

ShortageNeedsForce == [][BelowZeroIsForced]_vars
=============================================================================
