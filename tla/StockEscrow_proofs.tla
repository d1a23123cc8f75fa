-------------------------- MODULE StockEscrow_proofs --------------------------
(***************************************************************************)
(* Whatever the holders, goods and bounds, the escrow never holds more     *)
(* than is on the shelf.                                                   *)
(***************************************************************************)
EXTENDS StockEscrow, TLAPS, FiniteSetTheorems

-----------------------------------------------------------------------------
(* Counting held units *)

\* The units held by any group of holders can be counted.
LEMMA UnitsAreFinite ==
    ASSUME NEW b \in [Holders -> Baskets], NEW g \in Goods, NEW who \in SUBSET Holders
    PROVE  /\ IsFiniteSet(UnitsIn(b, g, who))
           /\ Cardinality(UnitsIn(b, g, who)) \in Nat
<1>1. IsFiniteSet(1 .. MaxUnits)
  BY EscrowAssumption, FS_Interval
<1>2. IsFiniteSet(who)
  BY EscrowAssumption, FS_Subset
<1>3. IsFiniteSet(who \X (1 .. MaxUnits))
  BY <1>1, <1>2, FS_Product
<1>4. UnitsIn(b, g, who) \in SUBSET (who \X (1 .. MaxUnits))
  BY DEF UnitsIn
<1>5. IsFiniteSet(UnitsIn(b, g, who))
  BY <1>3, <1>4, FS_Subset
<1> QED
  BY <1>5, FS_CardinalityType

\* One holder holds as many units of a good as its basket says.
LEMMA OwnUnits ==
    ASSUME NEW b \in [Holders -> Baskets], NEW g \in Goods, NEW h \in Holders
    PROVE  Cardinality(UnitsIn(b, g, {h})) = b[h][g]
<1>1. b[h][g] \in 0 .. MaxUnits /\ b[h][g] \in Nat
  BY EscrowAssumption DEF Baskets
<1>2. UnitsIn(b, g, {h}) = {h} \X (1 .. b[h][g])
  BY <1>1, EscrowAssumption DEF UnitsIn
<1>3. \A n \in Nat : IsFiniteSet(1 .. n) /\ Cardinality(1 .. n) = n
  BY FS_Interval
<1>4. IsFiniteSet({h}) /\ Cardinality({h}) = 1
  BY FS_Singleton
<1>5. Cardinality({h} \X (1 .. b[h][g])) = Cardinality({h}) * Cardinality(1 .. b[h][g])
  <2>1. IsFiniteSet(1 .. b[h][g]) /\ Cardinality(1 .. b[h][g]) = b[h][g]
    BY <1>1, <1>3
  <2> QED
    BY <2>1, <1>4, FS_Product
<1>6. Cardinality({h}) * Cardinality(1 .. b[h][g]) = b[h][g]
  BY <1>1, <1>3, <1>4
<1> QED
  BY <1>2, <1>5, <1>6

\* What is held is what one holder holds and what the others hold.
LEMMA HeldSplits ==
    ASSUME NEW b \in [Holders -> Baskets], NEW g \in Goods, NEW h \in Holders
    PROVE  Cardinality(UnitsIn(b, g, Holders)) =
              b[h][g] + Cardinality(UnitsIn(b, g, Holders \ {h}))
<1> DEFINE own == UnitsIn(b, g, {h})
           others == UnitsIn(b, g, Holders \ {h})
<1>1. /\ IsFiniteSet(own) /\ Cardinality(own) = b[h][g]
      /\ IsFiniteSet(others) /\ Cardinality(others) \in Nat
      /\ b[h][g] \in Nat
  <2>1. {h} \in SUBSET Holders /\ Holders \ {h} \in SUBSET Holders
    OBVIOUS
  <2>2. b[h][g] \in Nat
    BY EscrowAssumption DEF Baskets
  <2> QED
    BY <2>1, <2>2, UnitsAreFinite, OwnUnits
<1>2. UnitsIn(b, g, Holders) = own \cup others
  BY DEF UnitsIn
<1>3. own \cap others = {}
  BY DEF UnitsIn
<1> HIDE DEF own, others
<1>4. Cardinality(own \cup others) =
         Cardinality(own) + Cardinality(others) - Cardinality({})
  BY <1>1, <1>3, FS_Union
<1>5. Cardinality({}) = 0
  BY FS_EmptySet
<1> QED
  BY <1>1, <1>2, <1>4, <1>5 DEF own, others

\* Taking units out of baskets does not raise what is held.
LEMMA HeldShrinks ==
    ASSUME NEW b \in [Holders -> Baskets], NEW smaller \in [Holders -> Baskets],
           NEW g \in Goods, NEW who \in SUBSET Holders,
           \A h \in who : smaller[h][g] <= b[h][g]
    PROVE  Cardinality(UnitsIn(smaller, g, who)) <= Cardinality(UnitsIn(b, g, who))
<1>1. \A h \in who : b[h][g] \in Nat /\ smaller[h][g] \in Nat
  BY EscrowAssumption DEF Baskets
<1>2. UnitsIn(smaller, g, who) \in SUBSET UnitsIn(b, g, who)
  BY <1>1, EscrowAssumption DEF UnitsIn
<1> QED
  BY <1>2, UnitsAreFinite, FS_Subset

-----------------------------------------------------------------------------
(* The inductive invariant: holds are covered, and shelves and baskets have *)
(* their types, so that what is left of a shelf is a count.                 *)

Inv == TypeOK /\ HoldsCovered

\* At first nothing is held.
LEMMA InitCovered == Init => Inv
<1> SUFFICES ASSUME Init PROVE Inv
  OBVIOUS
<1>1. TypeOK
  BY EscrowAssumption DEF Init, TypeOK, Baskets, Nothing
<1>2. ASSUME NEW g \in Goods PROVE Held(g, Holders) <= onHand[g]
  <2>1. UnitsIn(held, g, Holders) = {}
    BY EscrowAssumption DEF Init, UnitsIn, Nothing
  <2> QED
    BY <1>1, <2>1, FS_EmptySet DEF Held, TypeOK
<1> QED
  BY <1>1, <1>2 DEF Inv, HoldsCovered

\* A new hold fits beside those there are.
LEMMA ReserveCovered ==
    ASSUME Inv, NEW h \in Holders, NEW units \in Baskets, Reserve(h, units)
    PROVE  Inv'
<1>1. TypeOK'
  BY DEF Inv, TypeOK, Reserve
<1>2. ASSUME NEW g \in Goods PROVE Held(g, Holders)' <= onHand'[g]
  <2> DEFINE before == Cardinality(UnitsIn(held, g, Holders \ {h}))
             after == Cardinality(UnitsIn(held', g, Holders \ {h}))
  <2>1. Held(g, Holders) = 0 + before /\ Held(g, Holders)' = units[g] + after
    <3>1. held[h][g] = 0 /\ held'[h] = units
      BY DEF Inv, TypeOK, Reserve, Nothing
    <3> QED
      BY <1>1, <3>1, HeldSplits DEF Inv, TypeOK, Held
  <2>2. after <= before /\ after \in Nat /\ before \in Nat
    <3>1. \A x \in Holders \ {h} : held'[x] = held[x]
      BY DEF Inv, TypeOK, Reserve
    <3>2. \A x \in Holders : held[x][g] \in Nat
      BY EscrowAssumption DEF Inv, TypeOK, Baskets
    <3>3. \A x \in Holders \ {h} : held'[x][g] <= held[x][g]
      BY <3>1, <3>2
    <3> QED
      BY <1>1, <3>3, HeldShrinks, UnitsAreFinite DEF Inv, TypeOK
  <2>3. units[g] \in Nat /\ onHand[g] \in Nat /\ onHand'[g] = onHand[g]
    BY EscrowAssumption DEF Inv, TypeOK, Baskets, Reserve
  <2> HIDE DEF before, after
  <2>4. Held(g, Holders) <= onHand[g]
    BY DEF Inv, HoldsCovered
  <2>5. CASE units[g] = 0
    BY <2>1, <2>2, <2>3, <2>4, <2>5
  <2>6. CASE units[g] > 0
    <3>1. units[g] + Held(g, Holders) <= onHand[g]
      BY <2>6 DEF Reserve
    <3> QED
      BY <2>1, <2>2, <2>3, <3>1
  <2> QED
    BY <2>3, <2>5, <2>6
<1> QED
  BY <1>1, <1>2 DEF Inv, HoldsCovered

\* Lapsing holds free units.
LEMMA LapseCovered ==
    ASSUME Inv, NEW who \in SUBSET Holders, Lapse(who)
    PROVE  Inv'
<1>1. TypeOK'
  BY EscrowAssumption DEF Inv, TypeOK, Lapse, Baskets, Nothing
<1>2. ASSUME NEW g \in Goods PROVE Held(g, Holders)' <= onHand'[g]
  <2>1. \A x \in Holders : held[x][g] \in Nat
    BY EscrowAssumption DEF Inv, TypeOK, Baskets
  <2>2. \A x \in Holders : held'[x][g] <= held[x][g]
    BY <2>1 DEF Lapse, Nothing
  <2>3. Held(g, Holders)' <= Held(g, Holders) /\ Held(g, Holders)' \in Nat /\ Held(g, Holders) \in Nat
    BY <1>1, <2>2, HeldShrinks, UnitsAreFinite DEF Inv, TypeOK, Held
  <2> QED
    BY <2>3 DEF Inv, TypeOK, HoldsCovered, Lapse
<1> QED
  BY <1>1, <1>2 DEF Inv, HoldsCovered

\* A shipment leaves the others' units on the shelf.
LEMMA ShipCovered ==
    ASSUME Inv, NEW h \in Holders, NEW units \in Baskets, Ship(h, units)
    PROVE  Inv'
<1> DEFINE others(g) == Cardinality(UnitsIn(held, g, Holders \ {h}))
<1>1. held' \in [Holders -> Baskets]
  BY EscrowAssumption DEF Inv, TypeOK, Ship, Baskets, Nothing
<1>2. ASSUME NEW g \in Goods
      PROVE  /\ units[g] \in Nat /\ onHand[g] \in Nat /\ others(g) \in Nat
             /\ onHand'[g] = onHand[g] - units[g]
             /\ units[g] + others(g) <= onHand[g]
  <2>1. units[g] \in Nat /\ onHand[g] \in Nat /\ onHand'[g] = onHand[g] - units[g]
    BY EscrowAssumption DEF Inv, TypeOK, Baskets, Ship
  <2>2. others(g) \in Nat /\ held[h][g] \in Nat
    BY EscrowAssumption, UnitsAreFinite DEF Inv, TypeOK, Baskets
  <2>3. held[h][g] + others(g) <= onHand[g]
    BY HeldSplits DEF Inv, TypeOK, HoldsCovered, Held
  <2>4. units[g] > 0 => units[g] + others(g) <= onHand[g]
    BY DEF Ship, Held
  <2> QED
    BY <2>1, <2>2, <2>3, <2>4
<1>3. TypeOK'
  <2>1. \A g \in Goods : onHand[g] - units[g] \in Nat
    BY <1>2
  <2>2. onHand' = [g \in Goods |-> onHand[g] - units[g]]
    BY DEF Ship
  <2> QED
    BY <1>1, <2>1, <2>2 DEF TypeOK
<1>4. ASSUME NEW g \in Goods PROVE Held(g, Holders)' <= onHand'[g]
  <2> DEFINE after == Cardinality(UnitsIn(held', g, Holders \ {h}))
  <2>1. Held(g, Holders)' = 0 + after
    <3>1. held'[h][g] = 0
      BY DEF Inv, TypeOK, Ship, Nothing
    <3> QED
      BY <1>1, <3>1, HeldSplits DEF Held
  <2>2. after <= others(g) /\ after \in Nat
    <3>1. \A x \in Holders \ {h} : held'[x][g] <= held[x][g]
      BY EscrowAssumption DEF Inv, TypeOK, Ship, Baskets
    <3> QED
      BY <1>1, <3>1, HeldShrinks, UnitsAreFinite DEF Inv, TypeOK
  <2> HIDE DEF after, others
  <2> QED
    BY <1>2, <2>1, <2>2
<1> QED
  BY <1>3, <1>4 DEF Inv, HoldsCovered

\* A delivery changes no hold.
LEMMA DeliverCovered ==
    ASSUME Inv, NEW g \in Goods, NEW n \in 1 .. MaxStock, Deliver(g, n)
    PROVE  Inv'
<1>1. TypeOK'
  BY EscrowAssumption DEF Inv, TypeOK, Deliver
<1>2. ASSUME NEW x \in Goods PROVE Held(x, Holders)' <= onHand'[x]
  <2>1. Held(x, Holders)' = Held(x, Holders) /\ Held(x, Holders) \in Nat
    BY UnitsAreFinite DEF Deliver, Held, Inv, TypeOK
  <2>2. onHand[x] <= onHand'[x] /\ onHand[x] \in Nat /\ onHand'[x] \in Nat
    BY <1>1, EscrowAssumption DEF Inv, TypeOK, Deliver
  <2> QED
    BY <2>1, <2>2 DEF Inv, HoldsCovered
<1> QED
  BY <1>1, <1>2 DEF Inv, HoldsCovered

(***************************************************************************)
(* Shelves never go below zero and every held unit is on the shelf, for    *)
(* every finite set of holders, every set of goods and all bounds.         *)
(***************************************************************************)
THEOREM EscrowIsCovered == Spec => [](TypeOK /\ HoldsCovered)
<1>1. Inv /\ [Next]_vars => Inv'
  <2> SUFFICES ASSUME Inv, [Next]_vars PROVE Inv'
    OBVIOUS
  <2>1. CASE UNCHANGED vars
    BY <2>1 DEF Inv, TypeOK, HoldsCovered, Held, vars
  <2>2. CASE Next
    BY <2>2, ReserveCovered, LapseCovered, ShipCovered, DeliverCovered DEF Next
  <2> QED
    BY <2>1, <2>2
<1>2. Inv => TypeOK /\ HoldsCovered
  BY DEF Inv
<1> QED
  BY InitCovered, <1>1, <1>2, PTL DEF Spec
=============================================================================
