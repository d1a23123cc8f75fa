---------------------------- MODULE Bookkeeping ----------------------------
(***************************************************************************)
(* What customers and suppliers owe a business and have paid: the books of *)
(* TradeLedger, and the receipts of a web order with the sales they pay.   *)
(***************************************************************************)
EXTENDS ReceiptAllocation

CONSTANTS Offices, Clerks, MaxPaid, MaxUnbooked, MaxOverwrites, MaxStock

VARIABLES
    office, stage, status, total, paid, kept, unbooked, cash, entries, order, lines, receipts,
    overwrites, stock, journal, clerk, editing, receipt, adjusting, recording

Ledger == INSTANCE TradeLedger

ASSUME LedgerAssumption ==
    /\ Offices \subseteq
          [books : SUBSET Ledger!Docs, stockroom : BOOLEAN, edited : BOOLEAN,
           corrects : BOOLEAN, lines : Nat, solo : BOOLEAN, dies : BOOLEAN]
    /\ {MaxPaid, MaxUnbooked, MaxOverwrites, MaxStock} \subseteq Nat

ledger ==
    <<office, stage, status, total, paid, kept, unbooked, cash, entries, order, lines, receipts,
      overwrites, stock, journal, clerk, editing, receipt, adjusting, recording>>
vars   == <<web, ledger>>

TypeOK == ReceiptsTypeOK /\ Ledger!TypeOK

\* A business is looked at in its books or in its web order: an office without
\* books makes no document, and an order without sales is never accepted.
Init ==
    /\ ReceiptsInit /\ Ledger!Init
    /\ shop.payable = 0 \/ (office.books = {} /\ ~office.stockroom)

Next ==
    \/ shop.payable > 0 /\ ReceiptsNext /\ UNCHANGED ledger
    \/ Ledger!Next /\ UNCHANGED web

Spec == Init /\ [][Next]_vars

PurchaseBookedOnce == Ledger!PurchaseBookedOnce
BooksAgree         == Ledger!BooksAgree

(***************************************************************************)
(* Whatever is shown as paid is backed by money: documents that Finance    *)
(* settles, and sales and orders that web receipts pay.                    *)
(***************************************************************************)
PaidIsBacked == Ledger!PaidIsCovered /\ ShownPaidIsBacked
=============================================================================
