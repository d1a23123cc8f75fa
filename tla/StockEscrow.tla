---------------------------- MODULE StockEscrow ----------------------------
(***************************************************************************)
(* What a shelf-stock reservation promises, without checkouts, payments or *)
(* clocks: a holder may set units aside only while enough units are free,  *)
(* holds may lapse, and units leave the shelf only in a shipment that      *)
(* leaves every other holder's units there.  CheckoutReservation shows     *)
(* that the website checkout implements this specification.                *)
(***************************************************************************)
EXTENDS Integers, FiniteSets

CONSTANTS
    Goods,      \* finished goods sold from the shelf
    Holders,    \* those who may hold units (the checkout sessions)
    MaxUnits,   \* bound: most units of one good in one basket
    MaxStock    \* bound: a delivery never fills a shelf beyond this

ASSUME EscrowAssumption ==
    /\ IsFiniteSet(Holders)
    /\ MaxUnits \in Nat
    /\ MaxStock \in Nat

VARIABLES
    onHand,     \* onHand[g]: units of g on the shelf
    held        \* held[h][g]: units of g set aside for h

vars == <<onHand, held>>

Baskets == [Goods -> 0 .. MaxUnits]

Nothing == [g \in Goods |-> 0]

\* The units of g in the baskets of the members of `who`, one element per unit.
UnitsIn(baskets, g, who) ==
    {unit \in who \X (1 .. MaxUnits) : unit[2] <= baskets[unit[1]][g]}

\* How many units of g they hold.
Held(g, who) == Cardinality(UnitsIn(held, g, who))

\* Shelves are never below zero, and holds are baskets.
TypeOK ==
    /\ onHand \in [Goods -> Nat]
    /\ held \in [Holders -> Baskets]

Init ==
    /\ onHand \in [Goods -> 0 .. MaxStock]
    /\ held = [h \in Holders |-> Nothing]

-----------------------------------------------------------------------------

\* A mutated form of Reserve: each basket is compared with the whole shelf.
ReserveBlindly(h, units) ==
    /\ held[h] = Nothing
    /\ \A g \in Goods : units[g] <= onHand[g]
    /\ held' = [held EXCEPT ![h] = units]
    /\ UNCHANGED onHand

\* A holder with nothing set aside reserves units that nobody holds.
Reserve(h, units) ==
    /\ held[h] = Nothing
    /\ \A g \in Goods : units[g] > 0 => units[g] + Held(g, Holders) <= onHand[g]
    /\ held' = [held EXCEPT ![h] = units]
    /\ UNCHANGED onHand

\* Some holds end with nothing shipped: expiry, cancellation, staff review.
Lapse(who) ==
    /\ held' = [h \in Holders |-> IF h \in who THEN Nothing ELSE held[h]]
    /\ UNCHANGED onHand

\* Units leave the shelf for h, whose hold ends; the others' units stay.
Ship(h, units) ==
    /\ \A g \in Goods :
          units[g] > 0 => units[g] + Held(g, Holders \ {h}) <= onHand[g]
    /\ onHand' = [g \in Goods |-> onHand[g] - units[g]]
    /\ held' = [held EXCEPT ![h] = Nothing]

\* Goods arrive on the shelf.
Deliver(g, n) ==
    /\ onHand[g] + n <= MaxStock
    /\ onHand' = [onHand EXCEPT ![g] = @ + n]
    /\ UNCHANGED held

Next ==
    \/ \E h \in Holders, units \in Baskets : Reserve(h, units) \/ Ship(h, units)
    \/ \E who \in SUBSET Holders : Lapse(who)
    \/ \E g \in Goods, n \in 1 .. MaxStock : Deliver(g, n)

Spec == Init /\ [][Next]_vars

-----------------------------------------------------------------------------

(***************************************************************************)
(* Every unit set aside is on the shelf: whatever reservations, lapses,    *)
(* shipments and deliveries do, no good has more units held for checkouts  *)
(* (checkout_services.py, reserved_stock_for_good) than it has in stock.   *)
(***************************************************************************)
HoldsCovered == \A g \in Goods : Held(g, Holders) <= onHand[g]
=============================================================================
