------------------------- MODULE ReceiptAllocation -------------------------
(***************************************************************************)
(* The receipts of one web order and the sales they pay.  Receipts come    *)
(* before or after the sales: a sale from the shelf when the order is      *)
(* accepted, and, when its production order is completed, the sales of     *)
(* planned offcut to other customers followed by the sale of the order     *)
(* itself.  Accepting, completing and recording a receipt each distribute  *)
(* what is left of the receipts, reversals take a receipt's allocations    *)
(* back, and Finance records payments of its own.                          *)
(*                                                                         *)
(* A distribution locks the intake and lists the receipts, then adds up    *)
(* the payments of each sale and inserts what it allocates, then commits;  *)
(* a reversal locks its receipt only and a Finance payment nothing, so     *)
(* what a request has read can be out of date when it commits.  Row locks  *)
(* on sales only order the commits.                                        *)
(*                                                                         *)
(* The form of Finance bounds an amount from above only: a payment may be  *)
(* of zero or less.                                                        *)
(*                                                                         *)
(* Amounts are whole units of money.  One completion makes one offcut sale *)
(* and happens once (ProductionOrders has the races about it); deleting    *)
(* sales and reversing the order, which paid sales rule out, are left out. *)
(***************************************************************************)
EXTENDS Integers, Functions

CONSTANTS
    Shops,          \* the orders and who takes part, see shop below
    Requests,       \* requests that run at the same time
    MaxReceipts,    \* bound: receipts of the order
    MaxAmount       \* bound: the total of a sale, the size of a payment

\* The sales in the order of their date and id.
Sales   == 1 .. 3
Shelf   == 1
Offcut  == 2
Main    == 3

\* Sales with linked_order set.
Linked == {Offcut, Main}

Receipts == 1 .. MaxReceipts
Amounts  == 1 .. MaxAmount
Signed   == -MaxAmount .. MaxAmount
Shown    == {"paid", "partial", "unpaid"}

ASSUME ShopsAssumption ==
    /\ {MaxReceipts, MaxAmount} \subseteq Nat
    /\ Shops \subseteq
          [price : [Sales -> 0 .. MaxAmount], payable : Nat, marks : BOOLEAN,
           finance : BOOLEAN, corrects : BOOLEAN, reverses : BOOLEAN, crossing : BOOLEAN]

VARIABLES
    shop,       \* totals of the sales (0 for a sale that is never made), what
                \* the order's payments ask for, whether staff mark orders as
                \* paid, Finance takes payments, also of zero or less,
                \* receipts are reversed, and reversals overlap other requests
    progress,   \* the order: pending, accepted, completed
    orderPaid,  \* customer_payment_status of the production order
    booked,     \* income entered as ORDER-pk
    shown,      \* shown[s]: Sale.transaction_type
    taken,      \* taken[s]: what Finance's payments of s add up to
    amount,     \* amount[r]: CommercePaymentReceipt.amount, 0 when there is none
    reversed,   \* receipts with reversed_at
    alloc,      \* alloc[r][s]: CommercePaymentAllocation.amount
    undone,     \* pairs whose allocation has a reversal_customer_payment
    disturbed,  \* a receipt was reversed, or a payment taken back, since the
                \* last distribution
    lowered,    \* sales of which Finance took a payment back when they were
                \* covered, or after another request had added up their payments
    work        \* work[q]: what request q is doing

trade == <<progress, orderPaid, booked, shown, taken>>
money == <<amount, reversed, alloc, undone, disturbed, lowered>>
web   == <<shop, trade, money, work>>

Plans   == [Receipts -> [Sales -> 0 .. MaxAmount]]
Idle    == [at |-> "idle"]
Kinds   == {"accept", "record", "complete"}
Works   ==
    {Idle}
        \cup [at : {"listed"}, of : Kinds, n : 0 .. MaxAmount, seen : SUBSET Receipts,
              marked : BOOLEAN]
        \cup [at : {"allocated"}, of : Kinds, n : 0 .. MaxAmount, marked : BOOLEAN,
              plan : Plans, sum : [Sales -> Int]]
        \cup [at : {"reversing"}, receipt : Receipts, from : SUBSET Sales, sum : [Sales -> Int]]
        \cup [at : {"checked"}, sale : Sales, n : Signed]
        \cup [at : {"adding"}, sale : Sales, n : Signed, before : Int]

ReceiptsTypeOK ==
    /\ shop \in Shops
    /\ progress \in {"pending", "accepted", "completed"}
    /\ orderPaid \in BOOLEAN /\ booked \in 0 .. MaxAmount
    /\ shown \in [Sales -> Shown] /\ taken \in [Sales -> Int]
    /\ amount \in [Receipts -> 0 .. MaxAmount] /\ reversed \subseteq Receipts
    /\ alloc \in Plans /\ undone \subseteq Receipts \X Sales
    /\ disturbed \in BOOLEAN /\ lowered \subseteq Sales
    /\ work \in [Requests -> Works]

ReceiptsInit ==
    /\ shop \in Shops
    /\ progress = "pending" /\ orderPaid = FALSE /\ booked = 0
    /\ shown = [s \in Sales |-> "unpaid"] /\ taken = [s \in Sales |-> 0]
    /\ amount = [r \in Receipts |-> 0] /\ reversed = {}
    /\ alloc = [r \in Receipts |-> [s \in Sales |-> 0]] /\ undone = {}
    /\ disturbed = FALSE /\ lowered = {}
    /\ work = [q \in Requests |-> Idle]

-----------------------------------------------------------------------------
(* State formulae *)

Sum(f, S) == FoldFunctionOnSet(LAMBDA a, b : a + b, 0, f, S)

Least(a, b)   == IF a <= b THEN a ELSE b
Greatest(a, b) == IF a >= b THEN a ELSE b

\* Receipts that count.
Standing == {r \in Receipts : amount[r] > 0} \ reversed

\* sale.payments: the allocations that were not taken back, and Finance's.
Paid(s) ==
    taken[s] + Sum([r \in Receipts |-> IF <<r, s>> \in undone THEN 0 ELSE alloc[r][s]], Receipts)

Due(s) == Greatest(0, shop.price[s] - Paid(s))

\* A sale is covered by its payments, or by income that was entered for it.
Covered(s) == Paid(s) + (IF s = Main THEN booked ELSE 0) >= shop.price[s]

\* What is left of a receipt of n.
Left(r, n) == n - Sum(alloc[r], Sales)

\* payment.balance, of all payments of the order.
Balance == shop.payable - Sum(amount, Standing)

\* The order becomes a sale from the shelf, a production order, or both.
FromShelf == shop.price[Shelf] > 0
Produced  == shop.price[Main] > 0

Sold ==
    {s \in Sales : shop.price[s] > 0
                     /\ (IF s = Shelf THEN progress # "pending" ELSE progress = "completed")}

\* The sales that a request of this kind is about to commit.
Made(kind) ==
    {s \in Sales : shop.price[s] > 0
                     /\ IF s = Shelf THEN kind = "accept" ELSE kind = "complete"}

\* What a payment makes of a sale ...
Settled(s, sum) == IF sum >= shop.price[s] THEN "paid" ELSE "partial"

\* ... and a reversal.
StatusOf(s, sum) ==
    IF sum \in 1 .. shop.price[s] - 1 \/ sum >= shop.price[s] THEN Settled(s, sum) ELSE "unpaid"

At(q, step) == work[q].at = step
Continue(q, step) == work' = [work EXCEPT ![q] = step]

Reversing == {q \in Requests : At(q, "reversing")}
Others(q) == Requests \ {q}

\* Requests other than a reversal begin at any time, or when there is none.
MayBegin(q) == At(q, "idle") /\ (shop.crossing \/ Reversing = {})

\* A mutated form of Unlocked: the distribution does not lock the intake.
NotLocked == TRUE

\* Nobody holds the intake's row.
Unlocked == \A q \in Requests : ~At(q, "listed") /\ ~At(q, "allocated")

-----------------------------------------------------------------------------
(* Distribution *)

\* The request holds the intake and has listed the receipts that stand, its own
\* among them.
List(q, kind, n, own) ==
    Continue(q, [at |-> "listed", of |-> kind, n |-> n, seen |-> Standing \cup own,
                 marked |-> orderPaid])

\* accept_intake of an order that goes to production as a whole makes no sale.
AcceptPreorder(q) ==
    /\ MayBegin(q) /\ Unlocked /\ progress = "pending" /\ ~FromShelf
    /\ progress' = "accepted"
    /\ UNCHANGED <<shop, orderPaid, booked, shown, taken, money, work>>

BeginAccept(q) ==
    /\ MayBegin(q) /\ Unlocked /\ progress = "pending" /\ FromShelf
    /\ List(q, "accept", 0, {})
    /\ UNCHANGED <<shop, trade, money>>

\* The field of the intake that the production order is kept in.
Field == IF FromShelf THEN "split_order" ELSE "accepted_order"

\* A mutated form of Searched: an order that was split off is not found.
SearchedInOne == {"accepted_order"}

\* Where sync_commerce_payments_for_order looks for the completed order.
Searched == {"accepted_order", "split_order"}

\* order_complete makes its sales; without receipts to distribute it commits.
BeginComplete(q) ==
    /\ MayBegin(q) /\ Unlocked /\ progress = "accepted" /\ Produced
    /\ IF Field \in Searched THEN List(q, "complete", 0, {})
       ELSE Continue(q, [at |-> "listed", of |-> "complete", n |-> 0, seen |-> {},
                         marked |-> orderPaid])
    /\ UNCHANGED <<shop, trade, money>>

\* The receipt a request records gets the next id.
NextId(r) == amount[r] = 0 /\ \A p \in 1 .. r - 1 : amount[p] > 0

\* record_verified_payment holds the row of the payment from the start.
PaymentUnlocked ==
    \A q \in Requests : At(q, "listed") \/ At(q, "allocated") => work[q].of # "record"

BeginRecord(q, r, n) ==
    /\ MayBegin(q) /\ Unlocked /\ PaymentUnlocked /\ NextId(r) /\ n <= Balance
    /\ List(q, "record", n, {r})
    /\ UNCHANGED <<shop, trade, money>>

\* Receipts and sales are gone through in order, each receipt filling what is
\* due: laid end to end, a receipt pays a sale as far as they overlap.
Allocation(left, due) ==
    [r \in Receipts |-> [s \in Sales |->
        LET from  == Sum(left, 1 .. r - 1)
            start == Sum(due, 1 .. s - 1)
        IN  Greatest(0, Least(from + left[r], start + due[s]) - Greatest(from, start))]]

\* The payments of the sales are added up and the allocations inserted.
Allocate(q) ==
    LET w     == work[q]
        known == Sold \cup Made(w.of)
        left  == [r \in Receipts |->
                    IF r \in w.seen THEN Left(r, IF amount[r] = 0 THEN w.n ELSE amount[r]) ELSE 0]
        plan  == Allocation(left, [s \in Sales |-> IF s \in known THEN Due(s) ELSE 0])
    IN  /\ At(q, "listed")
        /\ Continue(q, [at |-> "allocated", of |-> w.of, n |-> w.n, marked |-> w.marked,
                        plan |-> plan,
                        sum |-> [s \in Sales |->
                                   Paid(s) + Sum([r \in Receipts |-> plan[r][s]], Receipts)]])
        /\ UNCHANGED <<shop, trade, money>>

Pays(q, r, s) == work[q].plan[r][s] > 0

\* unique_commerce_receipt_sale_allocation
Duplicate(q) == \E r \in Receipts, s \in Sales : Pays(q, r, s) /\ alloc[r][s] > 0

\* The whole transaction is rolled back: acceptance, completion or receipt.
AllocationRefused(q) ==
    /\ At(q, "allocated") /\ Duplicate(q)
    /\ Continue(q, Idle)
    /\ UNCHANGED <<shop, trade, money>>

\* A mutated form of Income: the sale is looked at after the distribution.
IncomeAfterwards(q) ==
    IF work[q].of = "complete" /\ (work[q].marked \/ work[q].sum[Main] >= shop.price[Main])
    THEN shop.price[Main] ELSE booked

\* order_complete enters the sale's total when the order was paid as it began.
Income(q) ==
    IF work[q].of = "complete" /\ work[q].marked THEN shop.price[Main] ELSE booked

\* The references of the new allocations make the commit wait for a reversal
\* that has locked one of their receipts.
CommitDistribution(q) ==
    LET w    == work[q]
        paid == {s \in Sales : \E r \in Receipts : Pays(q, r, s)}
    IN  /\ At(q, "allocated") /\ ~Duplicate(q)
        /\ \A p \in Reversing, s \in Sales : ~Pays(q, work[p].receipt, s)
        /\ progress' = CASE w.of = "accept"   -> "accepted"
                      [] w.of = "complete" -> "completed"
                      [] w.of = "record"   -> progress
        /\ amount' = [r \in Receipts |-> IF w.of = "record" /\ NextId(r) THEN w.n ELSE amount[r]]
        /\ alloc' = [r \in Receipts |-> [s \in Sales |-> alloc[r][s] + w.plan[r][s]]]
        /\ shown' = [s \in Sales |->
              CASE s \in paid -> Settled(s, w.sum[s])
                [] s \notin paid /\ s = Main /\ s \in Made(w.of) /\ w.marked -> "paid"
                [] OTHER -> shown[s]]
        /\ orderPaid' = (orderPaid \/ \E s \in paid \cap Linked : w.sum[s] >= shop.price[s])
        /\ booked' = Income(q)
        /\ disturbed' = FALSE
        /\ Continue(q, Idle)
        /\ UNCHANGED <<shop, taken, reversed, undone, lowered>>

\* order_form, before the order is approved and completed.
MarkOrder(paid) ==
    /\ shop.marks /\ progress = "accepted" /\ Produced
    /\ \A q \in Requests : At(q, "listed") \/ At(q, "allocated") => work[q].of # "complete"
    /\ orderPaid' = paid
    /\ UNCHANGED <<shop, progress, booked, shown, taken, money, work>>

-----------------------------------------------------------------------------
(* Reversals *)

\* The receipt is locked, and its allocations and the payments of their sales
\* are read.
BeginReverse(q, r) ==
    /\ shop.reverses
    /\ At(q, "idle") /\ (shop.crossing \/ \A p \in Others(q) : At(p, "idle"))
    /\ r \in Standing /\ \A p \in Reversing : work[p].receipt # r
    /\ Continue(q, [at |-> "reversing", receipt |-> r,
                    from |-> {s \in Sales : alloc[r][s] > 0},
                    sum |-> [s \in Sales |-> Paid(s) - alloc[r][s]]])
    /\ UNCHANGED <<shop, trade, money>>

CommitReverse(q) ==
    LET w == work[q]
    IN  /\ At(q, "reversing")
        /\ reversed' = reversed \cup {w.receipt}
        /\ undone' = undone \cup ({w.receipt} \X w.from)
        /\ shown' = [s \in Sales |-> IF s \in w.from THEN StatusOf(s, w.sum[s]) ELSE shown[s]]
        /\ orderPaid' = (orderPaid /\ \A s \in w.from \cap Linked : w.sum[s] >= shop.price[s])
        /\ disturbed' = TRUE
        /\ Continue(q, Idle)
        /\ UNCHANGED <<shop, progress, booked, taken, amount, alloc, lowered>>

-----------------------------------------------------------------------------
(* Payments recorded by Finance *)

\* The form offers the sale and accepts the amount.  Sales of the walk-in
\* channel are not offered.
CheckPayment(q, s, n) ==
    /\ shop.finance /\ MayBegin(q)
    /\ n > 0 \/ (shop.corrects /\ taken[s] + n >= -MaxAmount)
    /\ s \in Sold /\ shown[s] # "paid" /\ n <= shop.price[s] - Paid(s)
    /\ Continue(q, [at |-> "checked", sale |-> s, n |-> n])
    /\ UNCHANGED <<shop, trade, money>>

\* The other payments are added up.
AddUp(q) ==
    /\ At(q, "checked")
    /\ Continue(q, [at |-> "adding", sale |-> work[q].sale, n |-> work[q].n,
                    before |-> Paid(work[q].sale)])
    /\ UNCHANGED <<shop, trade, money>>

\* Another request goes by a sum of the payments of s.
SummedByOthers(q, s) ==
    \E p \in Others(q) : At(p, "allocated") \/ (At(p, "adding") /\ work[p].sale = s)

CommitPayment(q) ==
    LET s    == work[q].sale
        sum  == work[q].before + work[q].n
        back == work[q].n < 0
    IN  /\ At(q, "adding")
        /\ taken' = [taken EXCEPT ![s] = @ + work[q].n]
        /\ shown' = [shown EXCEPT ![s] = Settled(s, sum)]
        /\ orderPaid' = (orderPaid \/ (s \in Linked /\ sum >= shop.price[s]))
        /\ disturbed' = (disturbed \/ back)
        /\ lowered' = IF back /\ (Covered(s) \/ SummedByOthers(q, s))
                      THEN lowered \cup {s} ELSE lowered
        /\ Continue(q, Idle)
        /\ UNCHANGED <<shop, progress, booked, amount, reversed, alloc, undone>>

-----------------------------------------------------------------------------

ReceiptsNext ==
    \/ \E q \in Requests :
        \/ AcceptPreorder(q) \/ BeginAccept(q) \/ BeginComplete(q)
        \/ \E r \in Receipts, n \in Amounts : BeginRecord(q, r, n)
        \/ Allocate(q) \/ AllocationRefused(q) \/ CommitDistribution(q)
        \/ \E r \in Receipts : BeginReverse(q, r)
        \/ CommitReverse(q)
        \/ \E s \in Sales, n \in Signed : CheckPayment(q, s, n)
        \/ AddUp(q) \/ CommitPayment(q)
    \/ \E paid \in BOOLEAN : MarkOrder(paid)

ReceiptsSpec == ReceiptsInit /\ [][ReceiptsNext]_web

-----------------------------------------------------------------------------
(* Properties *)

(***************************************************************************)
(* However acceptances, completions, receipts and reversals overlap, a     *)
(* receipt pays no more than its amount, and where Finance takes no        *)
(* payments a sale is paid no more than its total: distributions follow    *)
(* one another under the lock of the intake (payment_services.py:463).     *)
(***************************************************************************)
ReceiptsNotOverspent ==
    /\ \A r \in Receipts : Left(r, amount[r]) >= 0
    /\ ~shop.finance => \A s \in Sales : Paid(s) <= shop.price[s]

(***************************************************************************)
(* A sale shown as paid, and an order shown as paid that has no offcut, is *)
(* covered by payments that still count, or by the income of an order that *)
(* staff had marked; only then is income entered beside the receipts       *)
(* (production/views.py:948).  Unless a reversal overlaps with another     *)
(* request, which then writes a status from a sum that no longer holds, or *)
(* Finance takes back a payment of a sale that is covered, or of one whose *)
(* payments another request has added up (finance_views.py:220).           *)
(***************************************************************************)
ShownPaidIsBacked ==
    /\ ~shop.crossing =>
          /\ \A s \in Sales \ lowered : shown[s] = "paid" => Covered(s)
          /\ orderPaid /\ progress = "completed" /\ shop.price[Offcut] = 0 =>
                Covered(Main) \/ Main \in lowered
    /\ ~shop.marks => booked = 0

(***************************************************************************)
(* Money reaches the sales it can pay, in whatever order receipts,         *)
(* acceptance and completion come: once the requests are done no receipt   *)
(* has money left while a sale of the order is due, until a receipt is     *)
(* reversed or a payment taken back (and, since a receipt and a sale are   *)
(* paired only once, as long as the distributions that follow are          *)
(* refused).  Excepted are sales of which Finance takes a payment back     *)
(* once they are covered or others have added up their payments.           *)
(***************************************************************************)
MoneyReachesSales ==
    ~shop.crossing /\ ~disturbed /\ (\A q \in Requests : At(q, "idle"))
    => \A r \in Standing, s \in Sold \ lowered : Left(r, amount[r]) = 0 \/ Due(s) = 0

(***************************************************************************)
(* "A Sale generated from offcut allocation is a distinct sale/receivable  *)
(* from the original customer's Order"                                     *)
(* (.codex/skills/finance-integrity/SKILL.md:22): the receipts of the      *)
(* order do not pay it.                                                    *)
(***************************************************************************)
ReceiptPaysItsOwnSales == \A r \in Receipts : alloc[r][Offcut] = 0
=============================================================================
