---------------------------- MODULE MarketStock ----------------------------
(***************************************************************************)
(* Market stock of one finished good: the lots that production receives    *)
(* for distribution, their release to customers, transfer to the shelf,    *)
(* return, expiry and reversal, and the sales that take units off the      *)
(* shelf while part of them was put there from market stock.               *)
(*                                                                         *)
(* Every service of inventory/services.py is one transaction that locks    *)
(* the rows it decides on and is one action.  What reads and writes the    *)
(* good in separate steps is split: a direct sale, the shipment of a       *)
(* storefront order, a stock adjustment and an edit of the product.        *)
(*                                                                         *)
(* Stock moves in whole units; a sale line stores batches and pieces, and  *)
(* are units again by the units_per_batch of the time they are read.  A    *)
(* blank shelf stock counts as none; prices, costs, checkouts' holds (see  *)
(* CheckoutReservation) and the deletion of sales are left out.            *)
(***************************************************************************)
EXTENDS Integers, FiniteSets, FiniteSetsExt

CONSTANTS
    Houses,      \* the businesses and their staff, see house below
    Clerks,      \* requests that sell off the shelf or adjust it
    MaxLots,     \* bound: lots that come to exist
    MaxSales,    \* bound: distribution sales that come to exist
    MaxUnits,    \* bound: units of one receipt, sale or movement
    MaxCounter,  \* bound: units delivered to the shelf, and asked for from it
    MaxPack,     \* bound on units_per_batch
    MaxDay       \* bound on the calendar

Lots    == 1 .. MaxLots
Sales   == 1 .. MaxSales
Days    == 0 .. MaxDay
Never   == MaxDay + 1          \* no expiry date: sorted last

\* The origins of sale lines without a batch: a form may list the product twice.
Shelf      == 0
SecondLine == -1
ShelfLines == {Shelf, SecondLine}
Origins    == Lots \cup ShelfLines

Packs == 1 .. MaxPack

\* batch_qty and piece_qty of a line
Lines   == [packs : Nat, pieces : Nat]
NoUnits == [packs |-> 0, pieces |-> 0]

ASSUME MarketAssumption ==
    /\ Houses \subseteq
          [vertical : {"production", "wholesale", "retail"}, listed : BOOLEAN,
           pack : Packs,              \* units_per_batch to begin with
           edited : BOOLEAN, backdated : BOOLEAN, adjusted : BOOLEAN,
           repeats : BOOLEAN,         \* sale forms list the product twice
           lots : Nat, sales : Nat,   \* bounds: how many of them come to exist
           clerks : SUBSET Clerks]
    /\ \A h \in Houses : h.vertical # "production" => h.listed
    /\ IsFiniteSet(Clerks)
    /\ {MaxLots, MaxSales, MaxUnits, MaxCounter, MaxPack, MaxDay} \subseteq Nat

VARIABLES
    house,      \* how this business works; never changes
    day,        \* timezone.localdate()
    lot,        \* rows of MarketStockLot, what is written once
    left,       \* left[l]: its quantity_available
    closed,     \* closed[l]: its closed_reason, "open" while it is active
    journal,    \* journal[l]: units of its MarketStockMovements, by type
    line,       \* line[s][o]: the line of sale s that came from o
    sold,       \* sold[s][o]: the units that moved when it was sold
    returned,   \* returned[s][o]: units of its DistributionReturns
    scrapped,   \* units returned damaged
    pack,       \* FinishedGood.units_per_batch
    shelf,      \* FinishedGood.stock
    allowance,  \* FinishedGood.transferred_market_stock
    counter,    \* units delivered and transferred to the shelf, adjusted and
                \* sold off it so far, and those sold after others took theirs
    clerk,      \* clerk[c]: what the request of c has read
    editing     \* what the product form shows and has read

lots   == <<lot, left, closed, journal>>
trade  == <<line, sold, returned, scrapped>>
rack   == <<pack, shelf, allowance, counter>>
vars   == <<house, day, lots, trade, rack, clerk, editing>>

-----------------------------------------------------------------------------
(* Values *)

Reasons == {"open", "released", "transferred_physical", "expired", "reversed"}

\* A row before it is inserted has the source "none".
LotRows ==
    [source : {"none", "production", "return"}, expiry : 0 .. Never, received : Days,
     got : Nat]

Types == {"release", "transfer_physical", "expiry", "reversal"}

Idle == [at |-> "idle"]

\* since counts the units that others took off the shelf after the check.
Requests ==
    [at : {"checked"}, lines : [ShelfLines -> Lines], since : Nat]
        \cup [at : {"selling"}, lines : [ShelfLines -> Lines], units : [ShelfLines -> Nat],
              allowance : Int, since : Nat]
        \cup [at : {"shipping"}, units : Nat, pack : Packs, allowance : Int, since : Nat]
        \cup [at : {"adjusting"}, change : Int, since : Nat]

Forms ==
    [at : {"shown"}, stock : Int]
        \cup [at : {"saving"}, stock : Int, pack : Packs, allowance : Int]

Counters == [delivered : Nat, transferred : Nat, adjusted : Int, gone : Nat, late : Nat]

TypeOK ==
    /\ house \in Houses
    /\ day \in Days
    /\ lot \in [Lots -> LotRows]
    /\ left \in [Lots -> Nat]
    /\ closed \in [Lots -> Reasons]
    /\ journal \in [Lots -> [Types -> Nat]]
    /\ line \in [Sales -> [Origins -> Lines]]
    /\ sold \in [Sales -> [Origins -> Nat]]
    /\ returned \in [Sales -> [Origins -> Nat]]
    /\ scrapped \in Nat
    /\ pack \in Packs
    /\ shelf \in Int
    /\ allowance \in Int
    /\ counter \in Counters
    /\ clerk \in [Clerks -> {Idle} \cup Requests]
    /\ editing = Idle \/ editing \in Forms

Init ==
    /\ house \in Houses
    /\ day = 0
    /\ lot = [l \in Lots |->
                [source |-> "none", expiry |-> Never, received |-> 0, got |-> 0]]
    /\ left = [l \in Lots |-> 0]
    /\ closed = [l \in Lots |-> "open"]
    /\ journal = [l \in Lots |-> [t \in Types |-> 0]]
    /\ line = [s \in Sales |-> [o \in Origins |-> NoUnits]]
    /\ sold = [s \in Sales |-> [o \in Origins |-> 0]]
    /\ returned = [s \in Sales |-> [o \in Origins |-> 0]]
    /\ scrapped = 0
    /\ pack = house.pack
    /\ shelf = 0
    /\ allowance = 0
    /\ counter = [delivered |-> 0, transferred |-> 0, adjusted |-> 0, gone |-> 0, late |-> 0]
    /\ clerk = [c \in Clerks |-> Idle]
    /\ editing = Idle

Lesser(m, n)  == IF m < n THEN m ELSE n
Greater(m, n) == IF m < n THEN n ELSE m
Total(f)      == MapThenSumSet(LAMBDA x : f[x], DOMAIN f)

-----------------------------------------------------------------------------
(* Lots *)

Exists(l) == lot[l].source # "none"
Active(l) == Exists(l) /\ closed[l] = "open"

\* The dates a form may carry: today's, or an earlier one where staff backdate.
Dates == IF house.backdated THEN 0 .. day ELSE {day}

\* A mutated form of SellableOn: the expiry date is not looked at.
FreshOrNot(l, date) == Active(l) /\ left[l] > 0 /\ lot[l].received <= date

\* _sellable_market_lots
SellableOn(l, date) ==
    /\ Active(l)
    /\ left[l] > 0
    /\ lot[l].received <= date
    /\ lot[l].expiry >= date

\* Its order: first expiring, first received, first created.
Before(l, k) ==
    \/ lot[l].expiry < lot[k].expiry
    \/ lot[l].expiry = lot[k].expiry /\ lot[l].received < lot[k].received
    \/ lot[l].expiry = lot[k].expiry /\ lot[l].received = lot[k].received /\ l < k

\* MarketStockReleaseForm and MarketStockTransferForm offer the product only
\* when a lot has not expired today.
Offered == \E l \in Lots : Active(l) /\ left[l] > 0 /\ lot[l].expiry >= day

\* The loop over the locked lots: each is emptied before the next is touched.
Fefo(taken, units, date) ==
    /\ Total(taken) = units
    /\ \A l \in Lots :
          /\ taken[l] > 0 => SellableOn(l, date)
          /\ taken[l] <= left[l]
          /\ taken[l] > 0 => \A k \in Lots :
                SellableOn(k, date) /\ Before(k, l) => taken[k] = left[k]

\* A lot is closed by what empties it.
Draw(taken, reason) ==
    LET Emptied(l) == taken[l] > 0 /\ taken[l] = left[l]
    IN  /\ left' = [l \in Lots |-> left[l] - taken[l]]
        /\ closed' = [l \in Lots |-> IF Emptied(l) THEN reason ELSE closed[l]]
        /\ UNCHANGED lot

\* _record_market_movement, for every lot a movement touches.
Journalled(taken, type) ==
    [l \in Lots |-> [journal[l] EXCEPT ![type] = @ + taken[l]]]

\* A new row: ids are handed out in order.
Insert(source, expiry, received, units) ==
    \E l \in Lots :
        /\ l <= house.lots
        /\ ~Exists(l)
        /\ \A k \in 1 .. l - 1 : Exists(k)
        /\ lot' = [lot EXCEPT ![l] =
              [source |-> source, expiry |-> expiry, received |-> received, got |-> units]]
        /\ left' = [left EXCEPT ![l] = units]
        /\ UNCHANGED <<closed, journal>>

NewSale(s) ==
    /\ s <= house.sales
    /\ Total(sold[s]) = 0
    /\ \A r \in 1 .. s - 1 : Total(sold[r]) > 0

\* How many units a line stands for depends on what a batch holds.
Units(row, p) == row.packs * p + row.pieces
Packed(n, p)  == [packs |-> n \div p, pieces |-> n % p]

\* The lines of a new sale, as they are stored and as they moved.
Enter(s, rows, units) ==
    /\ NewSale(s)
    /\ line' = [line EXCEPT ![s] = [o \in Origins |-> IF o \in DOMAIN rows THEN rows[o] ELSE NoUnits]]
    /\ sold' = [sold EXCEPT ![s] = [o \in Origins |-> IF o \in DOMAIN units THEN units[o] ELSE 0]]
    /\ UNCHANGED <<returned, scrapped>>

-----------------------------------------------------------------------------
(* Services of inventory/services.py *)

\* receive_market_production, in the transaction that completes the order.
ReceiveMarketProduction(units, expiry) ==
    /\ house.vertical = "production" /\ expiry >= day
    /\ Insert("production", expiry, day, units)
    /\ UNCHANGED <<house, day, trade, rack, clerk, editing>>

\* release_market_stock: a sale with a line for every lot taken from.
ReleaseMarketStock(s, taken, date) ==
    /\ Offered
    /\ Fefo(taken, Total(taken), date)
    /\ Total(taken) \in 1 .. MaxUnits
    /\ Draw(taken, "released")
    /\ journal' = Journalled(taken, "release")
    /\ Enter(s, [l \in Lots |-> Packed(taken[l], pack)], taken)
    /\ UNCHANGED <<house, day, rack, clerk, editing>>

PutOnShelf(units) ==
    /\ shelf' = shelf + units
    /\ allowance' = allowance + units
    /\ UNCHANGED pack

\* transfer_market_stock_to_physical, under the lock of the good.
TransferToPhysical(taken, date) ==
    /\ Offered
    /\ Fefo(taken, Total(taken), date)
    /\ Total(taken) \in 1 .. MaxUnits
    /\ Draw(taken, "transferred_physical")
    /\ journal' = Journalled(taken, "transfer_physical")
    /\ PutOnShelf(Total(taken))
    /\ counter' = [counter EXCEPT !.transferred = @ + Total(taken)]
    /\ UNCHANGED <<house, day, trade, clerk, editing>>

\* A mutated form of Returnable: earlier returns of the line are not counted.
SoldUnits(s, o) == Units(line[s][o], pack)

\* The sale item is locked while its returns are added up; what it sold is
\* computed again with what a batch holds today.
Returnable(s, o) == Greater(0, Units(line[s][o], pack) - returned[s][o])

\* A mutated form of ExpiryOf: a return starts a new life.
NoExpiryOf(o) == Never

\* The batch of the line has the expiry date; a shelf line has no batch.
ExpiryOf(o) == IF o \in Lots THEN lot[o].expiry ELSE Never

\* record_distribution_return, redistributable
Redistribute(s, o, units, date) ==
    /\ units <= Returnable(s, o)
    /\ ExpiryOf(o) >= date
    /\ Insert("return", ExpiryOf(o), date, units)
    /\ returned' = [returned EXCEPT ![s][o] = @ + units]
    /\ UNCHANGED <<house, day, line, sold, scrapped, rack, clerk, editing>>

\* record_distribution_return, damaged
Scrap(s, o, units) ==
    /\ units <= Returnable(s, o)
    /\ returned' = [returned EXCEPT ![s][o] = @ + units]
    /\ scrapped' = scrapped + units
    /\ UNCHANGED <<house, day, lots, line, sold, rack, clerk, editing>>

Only(l, units) == [k \in Lots |-> IF k = l THEN units ELSE 0]

\* reconcile_expired_market_lot, with today's date
ReconcileExpired(l) ==
    /\ Exists(l)
    /\ lot[l].expiry < day
    /\ left[l] > 0
    /\ Draw(Only(l, left[l]), "expired")
    /\ journal' = Journalled(Only(l, left[l]), "expiry")
    /\ UNCHANGED <<house, day, trade, rack, clerk, editing>>

\* A mutated form of Untouched: some of the lot is still there.
SomeLeft(l) == left[l] > 0

\* The lot is locked; downstream movements refuse the reversal.
Untouched(l) ==
    /\ \A t \in Types : journal[l][t] = 0
    /\ left[l] = lot[l].got

\* reverse_market_production_lot, called by the reversal of the order
ReverseProductionLot(l) ==
    /\ lot[l].source = "production"
    /\ Untouched(l)
    /\ Draw(Only(l, left[l]), "reversed")
    /\ journal' = Journalled(Only(l, left[l]), "reversal")
    /\ UNCHANGED <<house, day, trade, rack, clerk, editing>>

-----------------------------------------------------------------------------
(* The shelf *)

\* physical_saleable_stock: what an unlisted product may be sold from the shelf
\* is what market stock was transferred to it.
Saleable ==
    IF house.listed THEN Greater(0, shelf)
                    ELSE Lesser(Greater(0, shelf), Greater(0, allowance))

CanSell == house.listed \/ allowance > 0

At(c, stage) == clerk[c].at = stage
On(c)        == c \in house.clerks
Asked(units) == counter.gone + units <= MaxCounter
Asks(c, r)   == clerk' = [clerk EXCEPT ![c] = r]
Done(c)      == Asks(c, Idle)

\* sale_form checks each line alone; only a listed product may be forced.
CheckSale(c, rows) ==
    /\ On(c) /\ At(c, "idle")
    /\ Units(rows[Shelf], pack) > 0
    /\ rows[SecondLine] = NoUnits \/ house.repeats
    /\ Asked(Units(rows[Shelf], pack) + Units(rows[SecondLine], pack))
    /\ CanSell
    /\ house.listed \/ \A i \in ShelfLines : Units(rows[i], pack) <= Saleable
    /\ Asks(c, [at |-> "checked", lines |-> rows, since |-> 0])
    /\ UNCHANGED <<house, day, lots, trade, rack, editing>>

\* Its transaction begins: each item is read with a copy of its product.
OpenSale(c) ==
    /\ At(c, "checked")
    /\ Asks(c, [at |-> "selling", lines |-> clerk[c].lines,
                units |-> [i \in ShelfLines |-> Units(clerk[c].lines[i], pack)],
                allowance |-> allowance, since |-> clerk[c].since])
    /\ UNCHANGED <<house, day, lots, trade, rack, editing>>

\* A mutated form of Consumed: the allowance is left to the next sale.
NothingConsumed(c, units) == 0

\* consume_transferred_physical_stock, from the product as it was read.
Consumed(c, units) == Greater(0, Lesser(clerk[c].allowance, units))

\* record_finished_good_movement subtracts under the lock of the good, then
\* the database subtracts from the allowance.  The others see less than they
\* may have checked.
TakeOffShelf(c, units, consumed, late) ==
    /\ shelf' = shelf - units
    /\ allowance' = allowance - consumed
    /\ counter' = [counter EXCEPT !.gone = @ + units, !.late = @ + late]
    /\ clerk' = [k \in Clerks |->
          IF k = c \/ At(k, "idle") THEN Idle ELSE [clerk[k] EXCEPT !.since = @ + units]]
    /\ UNCHANGED pack

\* Every line consumes from its own copy.  A wholesale business enters a
\* distribution sale, whose lines may be returned.
CommitSale(c) ==
    /\ At(c, "selling")
    /\ LET one == clerk[c].units[Shelf]
           two == clerk[c].units[SecondLine]
       IN  TakeOffShelf(c, one + two, Consumed(c, one) + Consumed(c, two),
              Lesser(one, clerk[c].since) + Lesser(two, clerk[c].since + one))
    /\ IF house.vertical = "wholesale"
          THEN \E s \in Sales : Enter(s, clerk[c].lines, clerk[c].units)
          ELSE UNCHANGED trade
    /\ UNCHANGED <<house, day, lots, editing>>

\* accept_intake reads the items with their product and settles what to ship.
OpenShipment(c, units) ==
    /\ On(c) /\ At(c, "idle") /\ Asked(units)
    /\ units <= Saleable
    /\ Asks(c, [at |-> "shipping", units |-> units, pack |-> pack,
                allowance |-> allowance, since |-> 0])
    /\ UNCHANGED <<house, day, lots, trade, rack, editing>>

\* _make_physical_sale looks again under the lock.  An order over the
\* distribution channel becomes a distribution sale.
MakePhysicalSale(c) ==
    /\ At(c, "shipping")
    /\ clerk[c].units <= Saleable
    /\ TakeOffShelf(c, clerk[c].units, Consumed(c, clerk[c].units), 0)
    /\ \/ \E s \in Sales : Enter(s, [i \in {Shelf} |-> Packed(clerk[c].units, clerk[c].pack)],
                                    [i \in {Shelf} |-> clerk[c].units])
       \/ UNCHANGED trade
    /\ UNCHANGED <<house, day, lots, editing>>

ShipmentRefused(c) ==
    /\ At(c, "shipping")
    /\ clerk[c].units > Saleable
    /\ Done(c)
    /\ UNCHANGED <<house, day, lots, trade, rack, editing>>

\* stock_adjustment_form checks the stock of the product the form has read.
CheckAdjustment(c, change) ==
    /\ On(c) /\ At(c, "idle") /\ house.adjusted
    /\ -MaxCounter <= counter.adjusted + change /\ counter.adjusted + change <= 0
    /\ shelf + change >= 0
    /\ Asks(c, [at |-> "adjusting", change |-> change, since |-> 0])
    /\ UNCHANGED <<house, day, lots, trade, rack, editing>>

\* It moves the shelf under the lock and leaves the allowance alone.
Adjust(c) ==
    /\ At(c, "adjusting")
    /\ shelf' = shelf + clerk[c].change
    /\ counter' = [counter EXCEPT !.adjusted = @ + clerk[c].change]
    /\ Done(c)
    /\ UNCHANGED <<house, day, lots, trade, pack, allowance, editing>>

\* Production for the shelf, or a purchase.
Deliver(units) ==
    /\ counter.delivered + units <= MaxCounter
    /\ shelf' = shelf + units
    /\ counter' = [counter EXCEPT !.delivered = @ + units]
    /\ UNCHANGED <<house, day, lots, trade, pack, allowance, clerk, editing>>

\* finished_good_form: the page shows the stock and what a batch holds; the
\* request that saves it reads the row and writes it back whole.
ShowForm ==
    /\ house.edited /\ editing = Idle
    /\ editing' = [at |-> "shown", stock |-> shelf]
    /\ UNCHANGED <<house, day, lots, trade, rack, clerk>>

\* Only a business that produces is asked what a batch holds.
PostForm(p) ==
    /\ editing.at = "shown"
    /\ house.vertical = "production" \/ p = pack
    /\ editing' = [at |-> "saving", stock |-> editing.stock, pack |-> p, allowance |-> allowance]
    /\ UNCHANGED <<house, day, lots, trade, rack, clerk>>

SaveForm ==
    /\ editing.at = "saving"
    /\ shelf' = editing.stock
    /\ pack' = editing.pack
    /\ allowance' = editing.allowance
    /\ editing' = Idle
    /\ UNCHANGED <<house, day, lots, trade, counter, clerk>>

\* Midnight.
NextDay ==
    /\ day < MaxDay
    /\ day' = day + 1
    /\ UNCHANGED <<house, lots, trade, rack, clerk, editing>>

Amounts == 1 .. MaxUnits
Takings == [Lots -> 0 .. MaxUnits]
Baskets == [ShelfLines -> [packs : 0 .. MaxUnits, pieces : 0 .. MaxUnits]]

Stockroom ==
    \/ \E n \in Amounts, e \in 0 .. Never : ReceiveMarketProduction(n, e)
    \/ \E s \in Sales, taken \in Takings, d \in Dates : ReleaseMarketStock(s, taken, d)
    \/ \E taken \in Takings, d \in Dates : TransferToPhysical(taken, d)
    \/ \E l \in Lots : ReconcileExpired(l) \/ ReverseProductionLot(l)

Customers ==
    \E s \in Sales, o \in Origins, n \in Amounts :
        (\E d \in Dates : Redistribute(s, o, n, d)) \/ Scrap(s, o, n)

Counter ==
    \E c \in Clerks :
        \/ \E rows \in Baskets : CheckSale(c, rows)
        \/ \E n \in Amounts : OpenShipment(c, n) \/ CheckAdjustment(c, n) \/ CheckAdjustment(c, -n)
        \/ OpenSale(c) \/ CommitSale(c) \/ MakePhysicalSale(c) \/ ShipmentRefused(c) \/ Adjust(c)

Office ==
    \/ \E n \in Amounts : Deliver(n)
    \/ ShowForm \/ SaveForm \/ \E p \in Packs : PostForm(p)
    \/ NextDay

Next == Stockroom \/ Customers \/ Counter \/ Office

Spec == Init /\ [][Next]_vars

-----------------------------------------------------------------------------
(* Properties *)

(***************************************************************************)
(* No unit is in two places.  Every lot accounts for its units: what it    *)
(* received is what it has left and what its movements took (release,      *)
(* transfer, expiry and reversal of inventory/services.py on the same      *)
(* lots), and what was released is on the lines of distribution sales.     *)
(* What production made and the shelf received is in lots, on the shelf,   *)
(* with customers or written off, however often it was released,           *)
(* transferred, shipped and returned in between.  Of a product that is     *)
(* never edited no customer returns more than they got, and the shelf is   *)
(* kept too.                                                               *)
(***************************************************************************)
LotsAgreeWithJournal ==
    \A l \in Lots :
        /\ lot[l].got = left[l] + Total(journal[l])
        /\ journal[l]["release"] = Total([s \in Sales |-> sold[s][l]])

Made       == Total([l \in Lots |-> IF lot[l].source = "production" THEN lot[l].got ELSE 0])
InLots     == Total([l \in Lots |-> left[l]])
WrittenOff == Total([l \in Lots |-> journal[l]["expiry"] + journal[l]["reversal"]])
Moved(t)   == Total([l \in Lots |-> journal[l][t]])
SentBack   == Total([s \in Sales |-> Total(returned[s])])
Shipped    == Total([s \in Sales |-> sold[s][Shelf] + sold[s][SecondLine]])
WithDistributors == Total([s \in Sales |-> Total(sold[s])]) - SentBack

UnitsConserved ==
    /\ LotsAgreeWithJournal
    /\ ~house.edited => \A s \in Sales, o \in Origins : returned[s][o] <= sold[s][o]
    /\ Made + Shipped =
          InLots + WithDistributors + counter.transferred + WrittenOff + scrapped
    /\ counter.transferred = Moved("transfer_physical")
    /\ ~house.edited =>
          shelf + counter.gone = counter.delivered + counter.transferred + counter.adjusted

(***************************************************************************)
(* The units of a production that was reversed reached nobody: not a       *)
(* customer, not the shelf (reverse_market_production_lot looks at the     *)
(* movements of the lot under its lock).                                   *)
(***************************************************************************)
ReversedReachedNobody ==
    \A l \in Lots : closed[l] = "reversed" =>
        /\ left[l] = 0
        /\ journal[l]["release"] = 0
        /\ journal[l]["transfer_physical"] = 0
        /\ \A s \in Sales : sold[s][l] = 0

(***************************************************************************)
(* A product that is not normally for shelf sale is sold off the shelf     *)
(* only up to what was transferred to it, and what may still be sold is    *)
(* there (docs/COMMERCE_INTEGRATION.md:177), but for what direct sales     *)
(* take after another sale, or another line of the same sale, was taken    *)
(* off the shelf since sale_form checked them: counter.late adds that up.  *)
(* So sales one after the other, of one line, never exceed the transfers,  *)
(* and a shipment adds nothing.  A stock-taking that lowers the shelf      *)
(* leaves the allowance above it.  For a product nobody edits meanwhile.   *)
(***************************************************************************)
UnlistedSalesAreCovered ==
    ~house.listed /\ ~house.edited =>
        /\ counter.gone + Greater(0, allowance) <= counter.transferred + counter.late
        /\ 0 <= allowance + counter.late
        /\ allowance <= shelf - counter.adjusted + counter.late

(***************************************************************************)
(* Where forms carry today's date, nothing expired is sold or put on the   *)
(* shelf, also after it was returned and released again                    *)
(* (docs/COMMERCE_INTEGRATION.md:172), and nothing is written off early.   *)
(***************************************************************************)
Leaving(l, t) == journal'[l][t] > journal[l][t]

ExpiredUnitsStay ==
    \A l \in Lots :
        /\ Leaving(l, "release") \/ Leaving(l, "transfer_physical")
              => house.backdated \/ day <= lot[l].expiry
        /\ Leaving(l, "expiry") => lot[l].expiry < day

OnlyFreshStockLeaves == [][ExpiredUnitsStay]_vars

(***************************************************************************)
(* A lot never gains units and a closed one never opens again: what comes  *)
(* back makes a lot of its own that expires when the units it is made of   *)
(* expire.                                                                 *)
(***************************************************************************)
ReturnKeepsExpiry(l) ==
    \E s \in Sales, o \in Origins :
        /\ returned'[s][o] > returned[s][o]
        /\ lot'[l].expiry = IF o \in ShelfLines THEN Never ELSE lot[o].expiry

LotsShrink ==
    \A l \in Lots :
        /\ Exists(l) => /\ left'[l] <= left[l]
                        /\ closed[l] # "open" => closed'[l] = closed[l]
                        /\ lot'[l] = lot[l]
        /\ ~Exists(l) /\ lot'[l].source = "return" => ReturnKeepsExpiry(l)

LotsOnlyShrink == [][LotsShrink]_vars
=============================================================================
