---------------------------- MODULE TradeLedger ----------------------------
(***************************************************************************)
(* The documents of trade and the money that settles them: a purchase      *)
(* order with its receipt into stock, a customer's sale and an expense,    *)
(* each with the payments Finance records against it and the entries of    *)
(* the cash ledger.                                                        *)
(*                                                                         *)
(* A payment form reads the document to bound the amount; the transaction  *)
(* that follows inserts the payment, adds up the others that have          *)
(* committed, and writes the status it concludes, all without a lock: it   *)
(* is split in three.  A receipt locks the purchase order and is split     *)
(* only around the raw material it read.  The edit of a purchase order     *)
(* reads the row in one step and writes it whole in another.               *)
(*                                                                         *)
(* Amounts are whole units of money.  A purchase has one or more lines of  *)
(* the raw material, of one unit each, for which every line has its own    *)
(* copy of the row.  The forms for suppliers and customers bound a payment *)
(* from above only; the ledger ignores what is not positive.  Accounts,    *)
(* methods, costs and the audit trail are left out.                        *)
(***************************************************************************)
EXTENDS Integers, FiniteSets

CONSTANTS
    Offices,        \* the businesses and how they work, see office below
    Clerks,         \* requests that record a payment
    MaxAmount,      \* bound: the total of a document, the size of a payment
    MaxPaid,        \* bound: payments of a document when another is begun
    MaxUnbooked,    \* bound: what payments below zero of a document add up to
    MaxOverwrites,  \* bound: receipts that a stale edit hides
    MaxStock        \* bound: stock of the raw material

Docs    == {"purchase", "sale", "expense"}
Amounts == 1 .. MaxAmount
Signed  == -MaxAmount .. MaxAmount
Stages  == {"none", "draft", "received", "open", "gone"}
Pays    == {"paid", "partial", "unpaid"}

VARIABLES
    office,     \* which books it keeps, whether documents are edited, whether
                \* payments of zero or less are recorded, how many lines of one
                \* material a purchase may have, whether requests come one at a
                \* time and whether they may die
    stage,      \* stage[d]: PurchaseOrder.status; "open" for sales and expenses
    status,     \* status[d]: payment_status, transaction_type
    total,      \* total[d]
    paid,       \* paid[d]: sum of its SupplierPayments, CustomerPayments, ...
    kept,       \* documents with a payment
    unbooked,   \* unbooked[d]: what payments below zero took back
    cash,       \* cash[d]: what the ledger moved for it
    entries,    \* entries[d]: ledger entries PO-pk, SALE-pk, EXP-pk
    order,      \* customer_payment_status of the order the sale comes from
    lines,      \* lines of the raw material in the purchase
    receipts,   \* times the purchase was received into stock
    overwrites, \* receipts hidden by an edit that had read the order before
    stock,      \* RawMaterial.stock
    journal,    \* sum of its StockMovements
    clerk,      \* clerk[c]: a payment request
    editing,    \* an edit has read the purchase order
    receipt,    \* the stock a receipt has read, while it locks the order
    adjusting,  \* a stock adjustment that was validated
    recording   \* the amount of a paid expense not in the ledger yet

docs     == <<stage, status, total>>
money    == <<paid, kept, unbooked, cash, entries, order>>
goods    == <<lines, receipts, overwrites, stock, journal>>
requests == <<clerk, editing, receipt, adjusting, recording>>
vars     == <<office, docs, money, goods, requests>>

Idle     == [at |-> "idle"]
Payments ==
    [at : {"checked"}, doc : Docs, amount : Signed, total : 0 .. MaxAmount]
        \cup [at : {"adding"}, doc : Docs, amount : Signed, total : 0 .. MaxAmount,
               before : Int]
Reading  == [at : {"reading"}, stock : Nat]
Moving   == [at : {"moving"}, stock : Nat, by : {-1, 1}]

TypeOK ==
    /\ office \in Offices
    /\ stage \in [Docs -> Stages] /\ status \in [Docs -> Pays]
    /\ total \in [Docs -> 0 .. MaxAmount]
    /\ paid \in [Docs -> Int] /\ kept \subseteq Docs /\ unbooked \in [Docs -> Nat]
    /\ cash \in [Docs -> Nat] /\ entries \in [Docs -> Nat]
    /\ order \in {"none", "paid", "unpaid"}
    /\ lines \in Nat /\ receipts \in Nat /\ overwrites \in 0 .. MaxOverwrites
    /\ stock \in Nat /\ journal \in Int
    /\ clerk \in [Clerks -> {Idle} \cup Payments]
    /\ editing \in BOOLEAN
    /\ receipt \in {Idle} \cup Reading
    /\ adjusting \in {Idle} \cup Moving
    /\ recording \in 0 .. MaxAmount

Init ==
    /\ office \in Offices
    /\ stage = [d \in Docs |-> "none"] /\ status = [d \in Docs |-> "unpaid"]
    /\ total = [d \in Docs |-> 0] /\ paid = [d \in Docs |-> 0]
    /\ kept = {} /\ unbooked = [d \in Docs |-> 0]
    /\ cash = [d \in Docs |-> 0] /\ entries = [d \in Docs |-> 0]
    /\ order = "none"
    /\ lines = 1 /\ receipts = 0 /\ overwrites = 0 /\ stock = 0 /\ journal = 0
    /\ clerk = [c \in Clerks |-> Idle]
    /\ editing = FALSE /\ receipt = Idle /\ adjusting = Idle /\ recording = 0

-----------------------------------------------------------------------------
(* State formulae *)

Standing == {"draft", "received", "open"}
Stands(d) == stage[d] \in Standing

\* No request is between two of its steps.
Quiet ==
    /\ \A c \in Clerks : clerk[c] = Idle
    /\ ~editing /\ receipt = Idle /\ adjusting = Idle /\ recording = 0

\* A request may begin.
Free == office.solo => Quiet

\* A receipt holds the row of the order.
Unlocked == receipt = Idle

Greater(a, b) == IF a >= b THEN a ELSE b

\* What the forms of Finance offer.
Listed(d) ==
    CASE d = "purchase" -> stage[d] = "received" /\ status[d] # "paid"
      [] d = "sale"     -> stage[d] = "open" /\ status[d] # "paid"
      [] d = "expense"  -> stage[d] = "open" /\ status[d] = "unpaid"

\* A mutated form of Limit: what was paid before does not count.
WholeLimit(d) == total[d]

\* The largest amount a payment form accepts; an expense's form compares with
\* the whole expense.
Limit(d) == IF d = "expense" THEN total[d] ELSE total[d] - paid[d]

\* The balance finance_dashboard shows, nothing when the document is not shown.
Balance(d) ==
    IF ~Listed(d) THEN 0
    ELSE IF d = "expense" THEN total[d] ELSE Greater(0, total[d] - paid[d])

\* The status a payment request writes.
Settled(d, sum, whole) ==
    CASE sum >= whole                    -> "paid"
      [] sum < whole /\ d = "expense"    -> "unpaid"
      [] sum < whole /\ d # "expense"    -> "partial"

\* A document comes to exist; the actions that use it say what was paid.
New(d, at, s, n) ==
    /\ d \in office.books /\ stage[d] = "none" /\ n \in Amounts
    /\ stage' = [stage EXCEPT ![d] = at]
    /\ status' = [status EXCEPT ![d] = s]
    /\ total' = [total EXCEPT ![d] = n]

\* record_cash under the reference of the document itself.
Post(d, n) ==
    /\ cash' = [cash EXCEPT ![d] = @ + n]
    /\ entries' = [entries EXCEPT ![d] = @ + 1]

-----------------------------------------------------------------------------
(* Purchase orders *)

\* A mutated form of Outstanding: the ledger is not searched for the order.
OutstandingAgain(s, n) == IF s = "paid" THEN Greater(0, n - paid["purchase"]) ELSE 0

\* What _ensure_po_payment_recorded finds to record for an order of status s
\* and total n.
Outstanding(s, n) ==
    IF s = "paid" /\ entries["purchase"] = 0 THEN Greater(0, n - paid["purchase"]) ELSE 0

EnsurePaymentRecorded(s, n) ==
    IF Outstanding(s, n) > 0 THEN Post("purchase", Outstanding(s, n))
                             ELSE UNCHANGED <<cash, entries>>

\* What may be paid with a new order of status s and total n.
PaidNow(s, n) == CASE s = "partial" -> 1 .. n [] s = "unpaid" -> {0} [] s = "paid" -> {0, n}

\* po_form for a new order.  An amount that covers a partial order makes the
\* view treat it as paid, but the row is saved as partial: nothing is recorded.
CreatePurchase(s, n, now) ==
    /\ New("purchase", "draft", s, n)
    /\ lines' \in 1 .. office.lines
    /\ now \in PaidNow(s, n)
    /\ IF s = "partial" /\ now < n
       THEN /\ paid' = [paid EXCEPT !["purchase"] = now]
            /\ kept' = kept \cup {"purchase"}
            /\ cash' = [cash EXCEPT !["purchase"] = now]
            /\ UNCHANGED entries
       ELSE EnsurePaymentRecorded(s, n) /\ UNCHANGED <<paid, kept>>
    /\ UNCHANGED <<office, unbooked, order, receipts, overwrites, stock, journal, requests>>

\* po_form for an existing order: the request reads the row.
ReadPurchase ==
    /\ office.edited /\ ~editing /\ stage["purchase"] = "draft"
    /\ editing' = TRUE
    /\ UNCHANGED <<office, docs, money, goods, clerk, receipt, adjusting, recording>>

\* ... and saves all of it, with the status it read.
SavePurchase(s, n) ==
    /\ editing /\ Unlocked
    /\ stage["purchase"] = "received" => overwrites < MaxOverwrites
    /\ stage' = [stage EXCEPT !["purchase"] = "draft"]
    /\ status' = [status EXCEPT !["purchase"] = s]
    /\ total' = [total EXCEPT !["purchase"] = n]
    /\ lines' \in 1 .. office.lines
    /\ overwrites' = overwrites + (IF stage["purchase"] = "received" THEN 1 ELSE 0)
    /\ EnsurePaymentRecorded(s, n)
    /\ editing' = FALSE
    /\ UNCHANGED <<office, paid, kept, unbooked, order, receipts, stock, journal, clerk,
                   receipt, adjusting, recording>>

\* A mutated form of Receivable: the status is not looked at under the lock.
AnyStanding == stage["purchase"] \in {"draft", "received"}

Receivable == stage["purchase"] = "draft"

\* po_receive locks the order, looks at its status again and reads its items
\* with their raw material.
LockForReceipt ==
    /\ Unlocked /\ Receivable
    /\ stock < MaxStock /\ journal + lines <= MaxStock
    /\ receipt' = [at |-> "reading", stock |-> stock]
    /\ UNCHANGED <<office, docs, money, goods, clerk, editing, adjusting, recording>>

\* Every line adds its unit to the stock its own copy was read with.
Receive ==
    /\ receipt.at = "reading"
    /\ stock' = receipt.stock + 1
    /\ journal' = journal + lines
    /\ receipts' = receipts + 1
    /\ stage' = [stage EXCEPT !["purchase"] = "received"]
    /\ EnsurePaymentRecorded(status["purchase"], total["purchase"])
    /\ receipt' = Idle
    /\ UNCHANGED <<office, status, total, paid, kept, unbooked, order, lines, overwrites,
                   clerk, editing, adjusting, recording>>

-----------------------------------------------------------------------------
(* Sales and expenses *)

\* A customer's sale: sale_form of a wholesale business, or the completion of a
\* production order, whose payment status then follows the sale's.
CreateSale(s, n, fromOrder) ==
    /\ s \in {"paid", "unpaid"}
    /\ New("sale", "open", s, n)
    /\ order' = IF fromOrder THEN s ELSE "none"
    /\ IF s = "paid" THEN Post("sale", n) ELSE UNCHANGED <<cash, entries>>
    /\ UNCHANGED <<office, paid, kept, unbooked, goods, requests>>

\* expense_form saves the expense and records it in the ledger afterwards, not
\* in one transaction.
CreateExpense(s, n) ==
    /\ s \in {"paid", "unpaid"}
    /\ New("expense", "open", s, n)
    /\ recording' = IF s = "paid" THEN n ELSE 0
    /\ UNCHANGED <<office, money, goods, clerk, editing, receipt, adjusting>>

RecordExpense ==
    /\ recording > 0
    /\ Post("expense", recording)
    /\ recording' = 0
    /\ UNCHANGED <<office, docs, paid, kept, unbooked, order, goods, clerk, editing, receipt,
                   adjusting>>

ExpenseRequestDies ==
    /\ office.dies /\ recording > 0
    /\ recording' = 0
    /\ UNCHANGED <<office, docs, money, goods, clerk, editing, receipt, adjusting>>

\* All fields come from the form; nothing reaches the ledger.
EditExpense(s, n) ==
    /\ office.edited /\ s \in {"paid", "unpaid"} /\ stage["expense"] = "open"
    /\ status' = [status EXCEPT !["expense"] = s]
    /\ total' = [total EXCEPT !["expense"] = n]
    /\ UNCHANGED <<office, stage, money, goods, requests>>

-----------------------------------------------------------------------------
(* Payments recorded by Finance *)

At(c, step) == clerk[c].at = step

Continue(c, step) == clerk' = [clerk EXCEPT ![c] = step]

Others == <<office, goods, editing, receipt, adjusting, recording>>

\* Only the form of expenses asks for a positive amount.
Accepts(d, n) ==
    /\ n <= Limit(d)
    /\ n > 0 \/ (office.corrects /\ d # "expense" /\ unbooked[d] - n <= MaxUnbooked)

\* The form is valid.
CheckPayment(c, d, n) ==
    /\ At(c, "idle")
    /\ Listed(d) /\ Accepts(d, n)
    /\ paid[d] + n <= MaxPaid
    /\ Continue(c, [at |-> "checked", doc |-> d, amount |-> n, total |-> total[d]])
    /\ UNCHANGED <<docs, money, Others>>

\* The other payments of the document that have committed.
Before(c) == paid[clerk[c].doc]

\* The payment is inserted and the others are added up.
AddUpPayments(c) ==
    /\ At(c, "checked") /\ Stands(clerk[c].doc)
    /\ Continue(c, [at |-> "adding", doc |-> clerk[c].doc, amount |-> clerk[c].amount,
                    total |-> clerk[c].total, before |-> Before(c)])
    /\ UNCHANGED <<docs, money, Others>>

\* The document was deleted meanwhile: the update of its status finds no row.
PaymentFails(c) ==
    /\ ~At(c, "idle") /\ ~Stands(clerk[c].doc)
    /\ Continue(c, Idle)
    /\ UNCHANGED <<docs, money, Others>>

\* The status is written, a positive amount entered in the ledger, and all of it
\* committed.
CommitPayment(c) ==
    LET d == clerk[c].doc
        n == clerk[c].amount
        s == Settled(d, clerk[c].before + n, clerk[c].total)
    IN  /\ At(c, "adding") /\ Stands(d)
        /\ d = "purchase" => Unlocked
        /\ paid' = [paid EXCEPT ![d] = @ + n]
        /\ kept' = kept \cup {d}
        /\ unbooked' = [unbooked EXCEPT ![d] = @ + Greater(0, -n)]
        /\ cash' = [cash EXCEPT ![d] = @ + Greater(0, n)]
        /\ status' = [status EXCEPT ![d] = s]
        /\ order' = IF d = "sale" /\ order # "none" /\ s = "paid" THEN "paid" ELSE order
        /\ Continue(c, Idle)
        /\ UNCHANGED <<stage, total, entries, Others>>

-----------------------------------------------------------------------------
(* Adjustments and deletions *)

Suffices(n) == stock + n >= 0

\* stock_adjustment_form, and operational_supply_dispense for what goes out: the
\* material is read with the form and written later.
CheckAdjustment(n) ==
    /\ office.stockroom /\ adjusting = Idle
    /\ Suffices(n)
    /\ {stock + n, journal + n} \subseteq -MaxStock .. MaxStock
    /\ adjusting' = [at |-> "moving", stock |-> stock, by |-> n]
    /\ UNCHANGED <<office, docs, money, goods, clerk, editing, receipt, recording>>

Adjust ==
    /\ adjusting.at = "moving"
    /\ stock' = adjusting.stock + adjusting.by
    /\ journal' = journal + adjusting.by
    /\ adjusting' = Idle
    /\ UNCHANGED <<office, docs, money, lines, receipts, overwrites, clerk, editing, receipt,
                   recording>>

\* Payments that have committed refer to their document with on_delete=PROTECT.
Protected(d) == d \in kept

\* po_delete, sale_delete, expense_delete.  A row deleted while it is edited
\* would be inserted again by the edit, which is left out.
Delete(d) ==
    /\ Stands(d) /\ ~Protected(d)
    /\ d = "purchase" => Unlocked /\ ~editing
    /\ stage' = [stage EXCEPT ![d] = "gone"]
    /\ UNCHANGED <<office, status, total, money, goods, requests>>

-----------------------------------------------------------------------------

Begin ==
    \/ \E s \in Pays, n \in Amounts :
        \/ \E now \in 0 .. n : CreatePurchase(s, n, now)
        \/ \E fromOrder \in BOOLEAN : CreateSale(s, n, fromOrder)
        \/ CreateExpense(s, n)
        \/ EditExpense(s, n)
    \/ \E c \in Clerks, d \in Docs, n \in Signed : CheckPayment(c, d, n)
    \/ ReadPurchase \/ LockForReceipt
    \/ \E n \in {-1, 1} : CheckAdjustment(n)
    \/ \E d \in Docs : Delete(d)

Proceed ==
    \/ \E s \in Pays, n \in Amounts : SavePurchase(s, n)
    \/ Receive \/ RecordExpense \/ ExpenseRequestDies \/ Adjust
    \/ \E c \in Clerks : AddUpPayments(c) \/ PaymentFails(c) \/ CommitPayment(c)

Next == (Free /\ Begin) \/ Proceed

Spec == Init /\ [][Next]_vars

-----------------------------------------------------------------------------
(* Properties *)

(***************************************************************************)
(* A document that is shown as paid is covered by money in the ledger, and *)
(* so is the order behind a sale, however the payments overlap and         *)
(* whatever their sign: the requests add up what others have committed     *)
(* (finance_views.py:198, 222, expenses/views.py:77), which is never more  *)
(* than the ledger has, and a document with payments cannot be deleted.    *)
(* For documents nobody edits, once a new expense is in the ledger.        *)
(***************************************************************************)
PaidIsCovered ==
    /\ \A d \in kept : Stands(d)
    /\ ~office.edited =>
          /\ \A d \in Docs :
                /\ Stands(d) /\ status[d] = "paid"
                /\ d = "expense" => ~office.dies /\ recording = 0
                => cash[d] >= total[d]
          /\ Stands("sale") /\ order = "paid" => cash["sale"] >= total["sale"]

(***************************************************************************)
(* However edits and receipts of a purchase order interleave, the ledger   *)
(* has one entry of its own for it, and every receipt of its goods beyond  *)
(* the first follows an edit that wrote back the status it had read before *)
(* the receipt (procurement/views.py:27, 157).                             *)
(***************************************************************************)
PurchaseBookedOnce ==
    /\ entries["purchase"] <= 1
    /\ receipts <= 1 + overwrites

(***************************************************************************)
(* When requests come one at a time and documents are not edited, the      *)
(* books differ by no more than the code drops: Finance shows what is      *)
(* still owed for a purchase or a sale, too much only by the payments      *)
(* below zero that the ledger ignores (core/services.py:17); no more was   *)
(* paid than owed (less than twice for an expense, whose form does not     *)
(* count earlier payments); and the stock is that of its journal, less the *)
(* lines of a received purchase whose material another line has too        *)
(* (inventory/services.py:24).                                             *)
(***************************************************************************)
InOrder == office.solo /\ ~office.edited /\ ~office.dies /\ Quiet

BooksAgree ==
    InOrder =>
        /\ \A d \in {"purchase", "sale"} : stage[d] \in {"received", "open"} =>
              Balance(d) = total[d] - cash[d] + unbooked[d]
        /\ Stands("expense") =>
              cash["expense"] < (IF status["expense"] = "paid" THEN 2 ELSE 1) * total["expense"]
        /\ stock = journal - (IF receipts > 0 THEN lines - 1 ELSE 0)
=============================================================================
