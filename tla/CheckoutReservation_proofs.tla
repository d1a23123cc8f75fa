---------------------- MODULE CheckoutReservation_proofs ----------------------
(***************************************************************************)
(* Type correctness and the bookkeeping of checkouts, payments, intakes    *)
(* and requests, for any number of each, any catalogue and any bounds;     *)
(* then what customers can count on.  Every order is paid in full, final   *)
(* once accepted, and delivers what was paid; no shipment takes what is    *)
(* held for others; a paid checkout can be made an order.  On a shelf that *)
(* only checkouts take from, they implement the escrow, so every unit held *)
(* is there, a payment in time is honoured and held units are shipped.     *)
(***************************************************************************)
EXTENDS CheckoutReservation, TLAPS, FiniteSetTheorems

-----------------------------------------------------------------------------
(* Counting reserved units *)

\* The units any group of checkouts holds can be counted.
LEMMA ReservedIsNatural ==
    ASSUME NEW g \in Goods, NEW who \in SUBSET Checkouts
    PROVE  Reserved(g, who) \in Nat
<1>1. IsFiniteSet(1 .. MaxUnits)
  BY ConstantsAssumption, FS_Interval
<1>2. IsFiniteSet(who)
  BY ConstantsAssumption, FS_Subset
<1>3. IsFiniteSet(who \X (1 .. MaxUnits))
  BY <1>1, <1>2, FS_Product
<1>4. HeldUnits(g, who) \in SUBSET (who \X (1 .. MaxUnits))
  BY DEF HeldUnits
<1>5. IsFiniteSet(HeldUnits(g, who))
  BY <1>3, <1>4, FS_Subset
<1> QED
  BY <1>5, FS_CardinalityType DEF Reserved

\* What is available is a count, even when the stock is negative.
LEMMA AvailableIsNatural ==
    ASSUME TypeOK, NEW g \in Goods, NEW who \in SUBSET Checkouts
    PROVE  Available(g, who) \in Nat
<1>1. stock[g] \in Int
  BY DEF TypeOK, ShelfTyped
<1> QED
  BY <1>1, ReservedIsNatural DEF Available

\* A request cut down to what is available exceeds neither.
LEMMA LesserIsBounded ==
    ASSUME NEW n \in 0 .. MaxUnits, NEW m \in Nat
    PROVE  Lesser(n, m) \in 0 .. MaxUnits /\ Lesser(n, m) <= n /\ Lesser(n, m) <= m
BY ConstantsAssumption DEF Lesser

-----------------------------------------------------------------------------
(* The inductive invariant *)

\* The facts on single checkouts and requests that the theorems rest on.
CheckoutsKept ==
    \A c \in Checkouts :
       /\ status[c] \in {"none", "awaiting_payment"} => ~released[c] /\ intake[c] = "none"
       /\ status[c] \in {"paid_review", "expired", "cancelled"} => released[c]
       /\ initiated[c] => status[c] # "none"
       /\ paid[c] > 0 => initiated[c]
       /\ \A g \in Goods : reserve[c][g] <= payable[c][g]
       /\ intake[c] \in Open \cup {"none"} => sold[c] = Nothing /\ made[c] = Nothing

ReviewsKept ==
    \A r \in Reviewers : reviewing[r] # NotReviewing =>
       status[reviewing[r].checkout] \notin {"none", "awaiting_payment"}

\* A recovery that has added up the receipts found all of the money and no
\* order, and is the only one that has the checkout locked.
LocksKept ==
    \A r \in Reviewers : reviewing[r].step = "summed" =>
       /\ intake[reviewing[r].checkout] = "none"
       /\ reviewing[r].funds = Price
       /\ \A q \in Reviewers :
             reviewing[q].step = "summed" /\ reviewing[q].checkout = reviewing[r].checkout
             => q = r

AcceptancesKept ==
    \A k \in Clerks : accepting[k] # NotAccepting =>
       /\ intake[accepting[k].checkout] \in Open
       /\ \A g \in Goods : accepting[k].take[g] <= payable[accepting[k].checkout][g]
       /\ \A j \in Clerks : accepting[j].checkout = accepting[k].checkout => j = k

Bookkeeping == TypeOK /\ CheckoutsKept /\ ReviewsKept /\ LocksKept /\ AcceptancesKept

\* At first nothing exists.
LEMMA InitKept == Init => Bookkeeping
<1> SUFFICES ASSUME Init PROVE Bookkeeping
  OBVIOUS
<1>1. Nothing \in Baskets
  BY ConstantsAssumption DEF Nothing, Baskets
<1>2. TypeOK
  <2>1. ShelfTyped
    <3>1. 0 \in 0 .. MaxTime /\ \A n \in 0 .. MaxStock : n \in Int
      BY ConstantsAssumption
    <3> QED
      BY <3>1 DEF Init, ShelfTyped
  <2>2. SessionsTyped
    BY <1>1 DEF Init, SessionsTyped, Status
  <2>3. MoneyTyped
    <3>1. 0 \in 0 .. Price
      BY ConstantsAssumption
    <3> QED
      BY <3>1 DEF Init, MoneyTyped
  <2>4. OrdersTyped
    BY <1>1 DEF Init, OrdersTyped, IntakeStatus
  <2>5. RequestsTyped
    BY DEF Init, RequestsTyped
  <2> QED
    BY <2>1, <2>2, <2>3, <2>4, <2>5 DEF TypeOK
<1>3. CheckoutsKept
  <2> SUFFICES ASSUME NEW c \in Checkouts
               PROVE  /\ ~released[c] /\ intake[c] = "none"
                      /\ status[c] = "none" /\ ~initiated[c]
                      /\ paid[c] = 0
                      /\ \A g \in Goods : reserve[c][g] = 0 /\ payable[c][g] = 0
                      /\ sold[c] = Nothing /\ made[c] = Nothing
    BY DEF CheckoutsKept
  <2> QED
    BY DEF Init, Nothing
<1>4. ReviewsKept /\ LocksKept /\ AcceptancesKept
  BY DEF Init, ReviewsKept, LocksKept, NotReviewing, AcceptancesKept
<1> QED
  BY <1>2, <1>3, <1>4 DEF Bookkeeping

\* Creating a checkout prices and reserves at most what was asked for.
LEMMA CreateKept ==
    ASSUME Bookkeeping, NEW c \in Checkouts, NEW basket \in Baskets, NEW policy \in Policies,
           NEW fulfil \in {"stock", "preorder"}, CreateCheckout(c, basket, policy, fulfil)
    PROVE  Bookkeeping'
<1> DEFINE inStock(g) == Lesser(basket[g], Available(g, Checkouts))
           held == [g \in Goods |-> IF fulfil = "stock" THEN inStock(g) ELSE 0]
           due == [g \in Goods |->
                     IF fulfil = "stock" /\ policy = "reduce" THEN inStock(g) ELSE basket[g]]
<1>1. \A g \in Goods : inStock(g) \in 0 .. MaxUnits /\ inStock(g) <= basket[g]
  BY AvailableIsNatural, LesserIsBounded DEF Bookkeeping, Baskets
<1>2. held \in Baskets /\ due \in Baskets /\ \A g \in Goods : held[g] <= due[g]
  BY <1>1, ConstantsAssumption DEF Baskets
<1>3. /\ status[c] = "none"
      /\ status' = [status EXCEPT ![c] = "awaiting_payment"]
      /\ mode' = [mode EXCEPT ![c] = fulfil]
      /\ expires' = [expires EXCEPT ![c] = now + Lifetime]
      /\ reserve' = [reserve EXCEPT ![c] = held]
      /\ payable' = [payable EXCEPT ![c] = due]
      /\ UNCHANGED <<now, stock, released, error>>
      /\ UNCHANGED <<initiated, paid, credited>>
      /\ UNCHANGED <<intake, sold, made>>
      /\ UNCHANGED <<polling, reviewing, accepting, taking>>
  BY DEF CreateCheckout, money, order, requests
<1> HIDE DEF held, due
<1>4. TypeOK'
  <2>1. ShelfTyped'
    BY <1>3 DEF Bookkeeping, TypeOK, ShelfTyped
  <2>2. SessionsTyped'
    <3>1. now + Lifetime \in Nat
      BY ConstantsAssumption DEF Bookkeeping, TypeOK, ShelfTyped
    <3> QED
      BY <1>2, <1>3, <3>1 DEF Bookkeeping, TypeOK, SessionsTyped, Status
  <2>3. MoneyTyped' /\ OrdersTyped'
    BY <1>3 DEF Bookkeeping, TypeOK, MoneyTyped, OrdersTyped
  <2>4. RequestsTyped'
    BY <1>3 DEF Bookkeeping, TypeOK, RequestsTyped
  <2> QED
    BY <2>1, <2>2, <2>3, <2>4 DEF TypeOK
<1>5. CheckoutsKept'
  BY <1>2, <1>3 DEF Bookkeeping, TypeOK, SessionsTyped, CheckoutsKept, Open
<1>6. ReviewsKept' /\ LocksKept'
  BY <1>3 DEF Bookkeeping, TypeOK, SessionsTyped, RequestsTyped, Reviews, ReviewsKept, LocksKept
<1>7. AcceptancesKept'
  <2>1. intake[c] = "none"
    BY <1>3 DEF Bookkeeping, CheckoutsKept
  <2>2. \A k \in Clerks : accepting[k] # NotAccepting =>
            accepting[k].checkout \in Checkouts /\ accepting[k].checkout # c
    BY <2>1 DEF Bookkeeping, TypeOK, RequestsTyped, AcceptancesKept, Acceptances, Open
  <2>3. \A x \in Checkouts : x # c => payable'[x] = payable[x]
    BY <1>3 DEF Bookkeeping, TypeOK, SessionsTyped
  <2> QED
    BY <1>3, <2>2, <2>3 DEF Bookkeeping, AcceptancesKept
<1> QED
  BY <1>4, <1>5, <1>6, <1>7 DEF Bookkeeping

\* Whatever touches only the clock, the shelf and idle requests keeps all of it.
LEMMA UntouchedKept ==
    ASSUME Bookkeeping, ShelfTyped', RequestsTyped',
           UNCHANGED <<session, money, order, reviewing, accepting>>
    PROVE  Bookkeeping'
<1>1. /\ UNCHANGED <<status, mode, expires, released, error, payable, reserve>>
      /\ UNCHANGED <<initiated, paid, credited>>
      /\ UNCHANGED <<intake, sold, made>>
      /\ UNCHANGED <<reviewing, accepting>>
  BY DEF session, money, order
<1>2. SessionsTyped' /\ MoneyTyped' /\ OrdersTyped'
  BY <1>1 DEF Bookkeeping, TypeOK, SessionsTyped, MoneyTyped, OrdersTyped
<1>3. CheckoutsKept'
  BY <1>1 DEF Bookkeeping, CheckoutsKept
<1>4. ReviewsKept' /\ LocksKept' /\ AcceptancesKept'
  BY <1>1 DEF Bookkeeping, ReviewsKept, LocksKept, AcceptancesKept
<1> QED
  BY <1>2, <1>3, <1>4 DEF Bookkeeping, TypeOK

\* The clock, the displays and the shelf's other users touch nothing else.
LEMMA ClockAndShelfKept ==
    ASSUME Bookkeeping,
           \/ Tick
           \/ \E p \in Pollers, c \in Checkouts : ReadForDisplay(p, c)
           \/ ShelfStep
    PROVE  Bookkeeping'
<1>1. CASE Tick
  <2>1. ShelfTyped'
    BY <1>1, ConstantsAssumption DEF Bookkeeping, TypeOK, ShelfTyped, Tick
  <2>2. RequestsTyped'
    BY <1>1 DEF Bookkeeping, TypeOK, RequestsTyped, Tick, requests
  <2>3. UNCHANGED <<session, money, order, reviewing, accepting>>
    BY <1>1 DEF Tick, requests
  <2> QED
    BY <2>1, <2>2, <2>3, UntouchedKept
<1>2. ASSUME NEW p \in Pollers, NEW c \in Checkouts, ReadForDisplay(p, c)
      PROVE  Bookkeeping'
  <2>1. ShelfTyped' /\ RequestsTyped'
    BY <1>2 DEF Bookkeeping, TypeOK, ShelfTyped, RequestsTyped, ReadForDisplay
  <2>2. UNCHANGED <<session, money, order, reviewing, accepting>>
    BY <1>2 DEF ReadForDisplay
  <2> QED
    BY <2>1, <2>2, UntouchedKept
<1>3. ASSUME NEW s \in ShelfUsers, TakeFromShelf(s)
      PROVE  Bookkeeping'
  <2>1. taking[s] \in Removals
    BY <1>3 DEF Bookkeeping, TypeOK, RequestsTyped, TakeFromShelf
  <2>2. taking[s].good \in Goods /\ taking[s].units \in Int
    BY <2>1, ConstantsAssumption DEF Removals
  <2>3. ShelfTyped' /\ RequestsTyped'
    BY <1>3, <2>2 DEF Bookkeeping, TypeOK, ShelfTyped, RequestsTyped, TakeFromShelf
  <2>4. UNCHANGED <<session, money, order, reviewing, accepting>>
    BY <1>3 DEF TakeFromShelf
  <2> QED
    BY <2>3, <2>4, UntouchedKept
<1>4. ASSUME NEW s \in ShelfUsers, NEW g \in Goods, NEW first \in 1 .. MaxUnits,
             NEW second \in 0 .. MaxUnits, NEW force \in BOOLEAN,
             CheckSale(s, g, first, second, force)
      PROVE  Bookkeeping'
  <2>1. [kind |-> "sale", good |-> g, units |-> first + second] \in Removals
    BY ConstantsAssumption DEF Removals
  <2>3. ShelfTyped' /\ RequestsTyped'
    BY <1>4, <2>1 DEF Bookkeeping, TypeOK, ShelfTyped, RequestsTyped, CheckSale
  <2>4. UNCHANGED <<session, money, order, reviewing, accepting>>
    BY <1>4 DEF CheckSale
  <2> QED
    BY <2>3, <2>4, UntouchedKept
<1>5. ASSUME NEW s \in ShelfUsers, NEW g \in Goods, NEW units \in 1 .. MaxUnits,
             CheckAdjustment(s, g, units)
      PROVE  Bookkeeping'
  <2>1. [kind |-> "adjustment", good |-> g, units |-> units] \in Removals
    BY ConstantsAssumption DEF Removals
  <2>2. ShelfTyped' /\ RequestsTyped'
    BY <1>5, <2>1 DEF Bookkeeping, TypeOK, ShelfTyped, RequestsTyped, CheckAdjustment
  <2>3. UNCHANGED <<session, money, order, reviewing, accepting>>
    BY <1>5 DEF CheckAdjustment
  <2> QED
    BY <2>2, <2>3, UntouchedKept
<1>6. ASSUME NEW g \in Goods, NEW units \in 1 .. MaxStock, Restock(g, units)
      PROVE  Bookkeeping'
  <2>1. ShelfTyped'
    BY <1>6 DEF Bookkeeping, TypeOK, ShelfTyped, Restock
  <2>2. RequestsTyped'
    BY <1>6 DEF Bookkeeping, TypeOK, RequestsTyped, Restock, requests
  <2>3. UNCHANGED <<session, money, order, reviewing, accepting>>
    BY <1>6 DEF Restock, requests
  <2> QED
    BY <2>1, <2>2, <2>3, UntouchedKept
<1> QED
  BY <1>1, <1>2, <1>3, <1>4, <1>5, <1>6 DEF ShelfStep

\* A cancelled checkout has let its reservation go.
LEMMA CancelKept ==
    ASSUME Bookkeeping, NEW c \in Checkouts, CancelUnpaidCheckout(c)
    PROVE  Bookkeeping'
<1>1. /\ status[c] = "awaiting_payment"
      /\ status' = [status EXCEPT ![c] = "cancelled"]
      /\ released' = [released EXCEPT ![c] = TRUE]
      /\ error' = [error EXCEPT ![c] = "cancelled"]
      /\ UNCHANGED <<now, stock, mode, expires, payable, reserve>>
      /\ UNCHANGED <<initiated, paid, credited>>
      /\ UNCHANGED <<intake, sold, made>>
      /\ UNCHANGED <<polling, reviewing, accepting, taking>>
  BY DEF CancelUnpaidCheckout, money, order, requests
<1>2. TypeOK'
  <2>1. ShelfTyped' /\ MoneyTyped' /\ OrdersTyped' /\ RequestsTyped'
    BY <1>1 DEF Bookkeeping, TypeOK, ShelfTyped, MoneyTyped, OrdersTyped, RequestsTyped
  <2>2. SessionsTyped'
    BY <1>1 DEF Bookkeeping, TypeOK, SessionsTyped, Status
  <2> QED
    BY <2>1, <2>2 DEF TypeOK
<1>3. CheckoutsKept'
  BY <1>1 DEF Bookkeeping, TypeOK, SessionsTyped, CheckoutsKept
<1>4. ReviewsKept'
  BY <1>1 DEF Bookkeeping, TypeOK, SessionsTyped, RequestsTyped, Reviews, ReviewsKept
<1>5. LocksKept' /\ AcceptancesKept'
  BY <1>1 DEF Bookkeeping, LocksKept, AcceptancesKept
<1> QED
  BY <1>2, <1>3, <1>4, <1>5 DEF Bookkeeping

\* So has an expired one, even when the row had changed since it was read.
LEMMA ExpireKept ==
    ASSUME Bookkeeping, NEW p \in Pollers, ExpireIfNeeded(p)
    PROVE  Bookkeeping'
<1> DEFINE c == polling[p]
<1>1. c \in Checkouts
  BY DEF Bookkeeping, TypeOK, RequestsTyped, ExpireIfNeeded
<1>2. /\ polling' = [polling EXCEPT ![p] = None]
      /\ \/ /\ status' = [status EXCEPT ![c] = "expired"]
            /\ released' = [released EXCEPT ![c] = TRUE]
         \/ UNCHANGED <<status, released>>
      /\ UNCHANGED <<now, stock, mode, expires, error, payable, reserve>>
      /\ UNCHANGED <<initiated, paid, credited>>
      /\ UNCHANGED <<intake, sold, made>>
      /\ UNCHANGED <<reviewing, accepting, taking>>
  BY DEF ExpireIfNeeded, money, order
<1> HIDE DEF c
<1>3. TypeOK'
  <2>1. ShelfTyped' /\ MoneyTyped' /\ OrdersTyped' /\ RequestsTyped'
    BY <1>2 DEF Bookkeeping, TypeOK, ShelfTyped, MoneyTyped, OrdersTyped, RequestsTyped
  <2>2. SessionsTyped'
    BY <1>1, <1>2 DEF Bookkeeping, TypeOK, SessionsTyped, Status
  <2> QED
    BY <2>1, <2>2 DEF TypeOK
<1>4. CheckoutsKept'
  BY <1>1, <1>2 DEF Bookkeeping, TypeOK, SessionsTyped, CheckoutsKept
<1>5. ReviewsKept'
  BY <1>1, <1>2 DEF Bookkeeping, TypeOK, SessionsTyped, RequestsTyped, Reviews, ReviewsKept
<1>6. LocksKept' /\ AcceptancesKept'
  BY <1>2 DEF Bookkeeping, LocksKept, AcceptancesKept
<1> QED
  BY <1>3, <1>4, <1>5, <1>6 DEF Bookkeeping

\* Opening a payment and reversing a receipt change only the money.
LEMMA PaymentKept ==
    ASSUME Bookkeeping, NEW c \in Checkouts,
           \/ InitiatePayment(c)
           \/ \E amount \in 1 .. Price : ReversePaymentReceipt(c, amount)
    PROVE  Bookkeeping'
<1>1. /\ UNCHANGED <<now, stock>>
      /\ UNCHANGED <<status, mode, expires, released, error, payable, reserve>>
      /\ UNCHANGED <<intake, sold, made>>
      /\ UNCHANGED <<polling, reviewing, accepting, taking>>
  BY DEF InitiatePayment, ReversePaymentReceipt, session, order, requests
<1>2. \/ /\ status[c] = "awaiting_payment"
         /\ initiated' = [initiated EXCEPT ![c] = TRUE]
         /\ UNCHANGED <<paid, credited>>
      \/ /\ UNCHANGED <<initiated, credited>>
         /\ \E amount \in 1 .. Price : /\ amount <= paid[c]
                                       /\ paid' = [paid EXCEPT ![c] = @ - amount]
      \/ /\ UNCHANGED <<initiated, paid>>
         /\ \E amount \in 1 .. Price : /\ amount <= credited[c]
                                       /\ credited' = [credited EXCEPT ![c] = @ - amount]
  BY DEF InitiatePayment, ReversePaymentReceipt
<1>3. MoneyTyped'
  <2>1. CASE UNCHANGED <<paid, credited>>
    BY <1>2, <2>1 DEF Bookkeeping, TypeOK, MoneyTyped
  <2>2. ASSUME NEW amount \in 1 .. Price, NEW n \in 0 .. Price, amount <= n
        PROVE  n - amount \in 0 .. Price
    BY <2>2, ConstantsAssumption
  <2> QED
    BY <1>2, <2>1, <2>2 DEF Bookkeeping, TypeOK, MoneyTyped
<1>4. ShelfTyped' /\ SessionsTyped' /\ OrdersTyped' /\ RequestsTyped'
  BY <1>1 DEF Bookkeeping, TypeOK, ShelfTyped, SessionsTyped, OrdersTyped, RequestsTyped
<1>5. CheckoutsKept'
  <2>1. \A x \in Checkouts : /\ initiated'[x] => status[x] # "none"
                             /\ paid'[x] > 0 => initiated'[x]
    BY <1>2, ConstantsAssumption DEF Bookkeeping, TypeOK, MoneyTyped, CheckoutsKept
  <2> QED
    BY <1>1, <2>1 DEF Bookkeeping, CheckoutsKept
<1>6. ReviewsKept' /\ LocksKept' /\ AcceptancesKept'
  BY <1>1 DEF Bookkeeping, ReviewsKept, LocksKept, AcceptancesKept
<1> QED
  BY <1>3, <1>4, <1>5, <1>6 DEF Bookkeeping, TypeOK

\* What an attempt to materialize, or the note that it failed, does.
Verdict(c, funds) ==
    \/ \E cause \in {"late", "stock", "failed"} :
          SendToReview(c, funds, cause) /\ (cause = "stock" => ~StillCovered(c))
    \/ intake[c] = "none" /\ CreateIntake(c, funds)

\* It leaves an order or a review, and touches no other checkout.
LEMMA MaterializeKept ==
    ASSUME Bookkeeping, NEW c \in Checkouts, NEW funds \in 0 .. Price, Verdict(c, funds),
           status[c] # "none", funds > 0 => initiated[c],
           UNCHANGED <<mode, expires, payable, reserve, initiated, sold, made, accepting>>,
           ShelfTyped', RequestsTyped',
           \A r \in Reviewers :
              \/ reviewing'[r] = NotReviewing
              \/ reviewing'[r] = reviewing[r] /\ ~(reviewing[r].step = "summed"
                                                   /\ reviewing[r].checkout = c)
    PROVE  Bookkeeping'
<1>1. \/ /\ status' = [status EXCEPT ![c] = "paid_review"]
         /\ released' = [released EXCEPT ![c] = TRUE]
         /\ \E cause \in {"late", "stock", "failed"} : error' = [error EXCEPT ![c] = cause]
         /\ paid' = [paid EXCEPT ![c] = funds]
         /\ UNCHANGED <<credited, intake>>
      \/ /\ intake[c] = "none"
         /\ status' = [status EXCEPT ![c] = "materialized"]
         /\ error' = [error EXCEPT ![c] = ""]
         /\ intake' = [intake EXCEPT ![c] = "pending"]
         /\ credited' = [credited EXCEPT ![c] = funds]
         /\ paid' = [paid EXCEPT ![c] = 0]
         /\ UNCHANGED released
  BY DEF Verdict, SendToReview, CreateIntake
<1>2. /\ SessionsTyped' /\ MoneyTyped' /\ OrdersTyped'
      /\ \A x \in Checkouts \ {c} : /\ status'[x] = status[x] /\ released'[x] = released[x]
                                    /\ paid'[x] = paid[x] /\ intake'[x] = intake[x]
      /\ \/ status'[c] = "paid_review" /\ released'[c] /\ paid'[c] = funds /\ UNCHANGED intake
         \/ status'[c] = "materialized" /\ paid'[c] = 0 /\ intake[c] = "none"
  <2>1. CASE /\ status' = [status EXCEPT ![c] = "paid_review"]
             /\ released' = [released EXCEPT ![c] = TRUE]
             /\ \E cause \in {"late", "stock", "failed"} : error' = [error EXCEPT ![c] = cause]
             /\ paid' = [paid EXCEPT ![c] = funds]
             /\ UNCHANGED <<credited, intake>>
    <3>1. SessionsTyped'
      BY <2>1 DEF Bookkeeping, TypeOK, SessionsTyped, Status
    <3>2. MoneyTyped' /\ OrdersTyped'
      BY <2>1 DEF Bookkeeping, TypeOK, MoneyTyped, OrdersTyped
    <3> QED
      BY <2>1, <3>1, <3>2 DEF Bookkeeping, TypeOK, SessionsTyped, MoneyTyped
  <2>2. CASE /\ intake[c] = "none"
             /\ status' = [status EXCEPT ![c] = "materialized"]
             /\ error' = [error EXCEPT ![c] = ""]
             /\ intake' = [intake EXCEPT ![c] = "pending"]
             /\ credited' = [credited EXCEPT ![c] = funds]
             /\ paid' = [paid EXCEPT ![c] = 0]
             /\ UNCHANGED released
    <3>1. SessionsTyped'
      BY <2>2 DEF Bookkeeping, TypeOK, SessionsTyped, Status
    <3>2. MoneyTyped'
      <4>1. 0 \in 0 .. Price
        BY ConstantsAssumption
      <4> QED
        BY <2>2, <4>1 DEF Bookkeeping, TypeOK, MoneyTyped
    <3>3. OrdersTyped'
      BY <2>2 DEF Bookkeeping, TypeOK, OrdersTyped, IntakeStatus
    <3> QED
      BY <2>2, <3>1, <3>2, <3>3 DEF Bookkeeping, TypeOK, SessionsTyped, MoneyTyped, OrdersTyped
  <2> QED
    BY <1>1, <2>1, <2>2
<1>3. CheckoutsKept'
  <2>1. ASSUME NEW x \in Checkouts
        PROVE  /\ status'[x] \in {"none", "awaiting_payment"} =>
                     ~released'[x] /\ intake'[x] = "none"
               /\ status'[x] \in {"paid_review", "expired", "cancelled"} => released'[x]
               /\ initiated'[x] => status'[x] # "none"
               /\ paid'[x] > 0 => initiated'[x]
    <3>1. CASE x = c
      BY <1>2, <3>1
    <3>2. CASE x # c
      BY <1>2, <3>2 DEF Bookkeeping, CheckoutsKept
    <3> QED
      BY <3>1, <3>2
  <2>2. \A x \in Checkouts :
           intake'[x] \in Open \cup {"none"} => sold'[x] = Nothing /\ made'[x] = Nothing
    BY <1>1 DEF Bookkeeping, TypeOK, OrdersTyped, CheckoutsKept
  <2> QED
    BY <2>1, <2>2 DEF Bookkeeping, CheckoutsKept
<1>4. ReviewsKept'
  <2> SUFFICES ASSUME NEW r \in Reviewers, reviewing'[r] # NotReviewing
               PROVE  status'[reviewing'[r].checkout] \notin {"none", "awaiting_payment"}
    BY DEF ReviewsKept
  <2>1. reviewing'[r] = reviewing[r] /\ reviewing[r].checkout \in Checkouts
    BY DEF Bookkeeping, TypeOK, RequestsTyped, Reviews
  <2> QED
    BY <1>2, <2>1 DEF Bookkeeping, ReviewsKept
<1>5. LocksKept'
  <2>1. \A r \in Reviewers : reviewing'[r].step = "summed" =>
           /\ reviewing'[r] = reviewing[r]
           /\ reviewing[r].checkout \in Checkouts \ {c}
    BY DEF NotReviewing, Bookkeeping, TypeOK, RequestsTyped, Reviews
  <2> QED
    BY <1>2, <2>1 DEF Bookkeeping, LocksKept
<1>6. AcceptancesKept'
  <2>1. \A k \in Clerks : accepting[k] # NotAccepting =>
            accepting[k].checkout \in Checkouts /\ intake'[accepting[k].checkout] \in Open
    BY <1>2 DEF Bookkeeping, TypeOK, RequestsTyped, AcceptancesKept, Acceptances, Open
  <2> QED
    BY <2>1 DEF Bookkeeping, AcceptancesKept
<1> QED
  BY <1>2, <1>3, <1>4, <1>5, <1>6 DEF Bookkeeping, TypeOK

\* The attempt made in the payment's transaction is one of these.
LEMMA AttemptIsVerdict ==
    ASSUME NEW c \in Checkouts, NEW funds, AttemptMaterialize(c, funds), intake[c] = "none"
    PROVE  Verdict(c, funds)
<1>1. \/ SendToReview(c, funds, "late") \/ SendToReview(c, funds, "failed")
      \/ SendToReview(c, funds, "stock") /\ ~StillCovered(c)
      \/ CreateIntake(c, funds)
  BY DEF AttemptMaterialize
<1> QED
  BY <1>1 DEF Verdict

\* Verified money waits for the rest, materializes the checkout or tops up
\* what an intake has received.
LEMMA RecordKept ==
    ASSUME Bookkeeping, NEW c \in Checkouts, NEW amount \in 1 .. Price,
           RecordVerifiedPayment(c, amount)
    PROVE  Bookkeeping'
<1> DEFINE funds == paid[c] + amount
<1>1. /\ initiated[c]
      /\ UNCHANGED <<now, stock, mode, expires, payable, reserve, initiated, sold, made>>
      /\ UNCHANGED <<polling, reviewing, accepting, taking>>
  BY DEF RecordVerifiedPayment, requests
<1>3. ShelfTyped' /\ RequestsTyped'
  BY <1>1 DEF Bookkeeping, TypeOK, ShelfTyped, RequestsTyped
<1>4. CASE intake[c] = "none" /\ funds = Price /\ ~Locked(c) /\ AttemptMaterialize(c, funds)
  <2>1. status[c] # "none"
    BY <1>1 DEF Bookkeeping, CheckoutsKept
  <2>2. funds \in 0 .. Price
    BY <1>4, ConstantsAssumption
  <2>3. Verdict(c, funds)
    BY <1>4, AttemptIsVerdict
  <2>4. \A r \in Reviewers :
           /\ reviewing'[r] = reviewing[r]
           /\ ~(reviewing[r].step = "summed" /\ reviewing[r].checkout = c)
    BY <1>1, <1>4 DEF Locked
  <2> HIDE DEF funds
  <2> QED
    BY <1>1, <1>3, <2>1, <2>2, <2>3, <2>4, MaterializeKept
<1>5. ASSUME UNCHANGED <<status, released, error, intake>>, MoneyTyped',
             \A x \in Checkouts : paid'[x] > 0 => initiated[x]
      PROVE  Bookkeeping'
  <2>1. SessionsTyped' /\ OrdersTyped'
    BY <1>1, <1>5 DEF Bookkeeping, TypeOK, SessionsTyped, OrdersTyped
  <2>2. CheckoutsKept'
    BY <1>1, <1>5 DEF Bookkeeping, CheckoutsKept
  <2>3. ReviewsKept' /\ LocksKept' /\ AcceptancesKept'
    BY <1>1, <1>5 DEF Bookkeeping, ReviewsKept, LocksKept, AcceptancesKept
  <2> QED
    BY <1>3, <1>5, <2>1, <2>2, <2>3 DEF Bookkeeping, TypeOK
<1>6. CASE /\ funds < Price
           /\ paid' = [paid EXCEPT ![c] = funds]
           /\ UNCHANGED <<status, released, error, credited, intake>>
  <2>1. funds \in 0 .. Price
    BY <1>6, ConstantsAssumption DEF Bookkeeping, TypeOK, MoneyTyped
  <2>2. MoneyTyped'
    BY <1>1, <1>6, <2>1 DEF Bookkeeping, TypeOK, MoneyTyped
  <2>3. \A x \in Checkouts : paid'[x] > 0 => initiated[x]
    BY <1>1, <1>6 DEF Bookkeeping, TypeOK, MoneyTyped, CheckoutsKept
  <2> QED
    BY <1>5, <1>6, <2>2, <2>3
<1>7. CASE /\ credited[c] + amount <= Price
           /\ credited' = [credited EXCEPT ![c] = @ + amount]
           /\ UNCHANGED <<status, released, error, paid, intake>>
  <2>1. credited[c] + amount \in 0 .. Price
    BY <1>7, ConstantsAssumption DEF Bookkeeping, TypeOK, MoneyTyped
  <2>2. MoneyTyped'
    BY <1>1, <1>7, <2>1 DEF Bookkeeping, TypeOK, MoneyTyped
  <2>3. \A x \in Checkouts : paid'[x] > 0 => initiated[x]
    BY <1>7 DEF Bookkeeping, CheckoutsKept
  <2> QED
    BY <1>5, <1>7, <2>2, <2>3
<1> QED
  BY <1>4, <1>6, <1>7 DEF RecordVerifiedPayment

\* A recovery under way has a checkout that is past payment.
LEMMA RecoveryIsTyped ==
    ASSUME Bookkeeping, NEW r \in Reviewers, reviewing[r].step # "idle"
    PROVE  LET c == reviewing[r].checkout
           IN  /\ c \in Checkouts
               /\ status[c] \notin {"none", "awaiting_payment"}
               /\ paid[c] \in 0 .. Price /\ (paid[c] > 0 => initiated[c])
               /\ reviewing[r].step = "summed" => intake[c] = "none"
<1>1. reviewing[r] # NotReviewing /\ reviewing[r] \in Reviews
  BY DEF NotReviewing, Bookkeeping, TypeOK, RequestsTyped
<1>2. reviewing[r].checkout \in Checkouts
  BY <1>1 DEF Reviews
<1> QED
  BY <1>1, <1>2
     DEF Bookkeeping, TypeOK, MoneyTyped, CheckoutsKept, ReviewsKept, LocksKept

\* The steps of a recovery after it has looked at the status.
RecoveryStep(r) == LockForRecovery(r) \/ FinishRecovery(r) \/ RecordFailure(r)

\* A step of a recovery only changes how far it has come, or comes to a
\* verdict; an order comes from the sum it made under the lock.
LEMMA RecoveryWrites ==
    ASSUME Bookkeeping, NEW r \in Reviewers, RecoveryStep(r)
    PROVE  LET c == reviewing[r].checkout
           IN  /\ c \in Checkouts
               /\ status[c] \notin {"none", "awaiting_payment"}
               /\ UNCHANGED <<now, stock, mode, expires, payable, reserve, initiated, sold,
                              made, polling, accepting, taking>>
               /\ \/ UNCHANGED <<status, released, error, paid, credited, intake>>
                  \/ /\ Verdict(c, paid[c])
                     /\ reviewing' = [reviewing EXCEPT ![r] = NotReviewing]
                     /\ intake'[c] # intake[c] => reviewing[r].step = "summed"
<1> DEFINE c == reviewing[r].checkout
<1>1. reviewing[r].step # "idle"
  BY DEF RecoveryStep, LockForRecovery, FinishRecovery, RecordFailure
<1>2. /\ c \in Checkouts
      /\ status[c] \notin {"none", "awaiting_payment"}
      /\ reviewing[r].step = "summed" => intake[c] = "none"
  BY <1>1, RecoveryIsTyped
<1>3. UNCHANGED <<now, stock, mode, expires, payable, reserve, initiated, sold,
                  made, polling, accepting, taking>>
  BY DEF RecoveryStep, LockForRecovery, FinishRecovery, RecordFailure, session, money, order
<1>4. CASE LockForRecovery(r)
  BY <1>2, <1>3, <1>4 DEF LockForRecovery, session, money, order
<1>5. CASE FinishRecovery(r)
  <2>1. CASE /\ ~StillCovered(c)
             /\ SendToReview(c, paid[c], "stock")
             /\ reviewing' = [reviewing EXCEPT ![r] = NotReviewing]
    <3>1. Verdict(c, paid[c]) /\ reviewing[r].step = "summed"
      BY <1>5, <2>1 DEF Verdict, FinishRecovery
    <3> QED
      BY <1>2, <1>3, <2>1, <3>1
  <2>2. CASE /\ CreateIntake(c, paid[c])
             /\ reviewing' = [reviewing EXCEPT ![r] = NotReviewing]
    <3>1. Verdict(c, paid[c]) /\ reviewing[r].step = "summed"
      BY <1>2, <1>5, <2>2 DEF Verdict, FinishRecovery
    <3> QED
      BY <1>2, <1>3, <2>2, <3>1
  <2>3. CASE UNCHANGED <<status, released, error, paid, credited, intake>>
    BY <1>2, <1>3, <2>3
  <2> QED
    BY <1>5, <2>1, <2>2, <2>3 DEF FinishRecovery
<1>6. CASE RecordFailure(r)
  <2>1. SendToReview(c, paid[c], "failed") /\ reviewing' = [reviewing EXCEPT ![r] = NotReviewing]
    BY <1>6 DEF RecordFailure
  <2>2. Verdict(c, paid[c]) /\ UNCHANGED intake
    BY <2>1 DEF Verdict, SendToReview
  <2> QED
    BY <1>2, <1>3, <2>1, <2>2
<1> QED
  BY <1>4, <1>5, <1>6 DEF RecoveryStep

\* A staff review was opened on a checkout that is past payment, and stays so.
LEMMA ReviewKept ==
    ASSUME Bookkeeping, NEW r \in Reviewers,
           RecoveryStep(r) \/ \E c \in Checkouts : OpenRecovery(r, c)
    PROVE  Bookkeeping'
<1>1. ASSUME NEW c \in Checkouts, status[c] \notin {"none", "awaiting_payment"},
             NEW next \in Reviews \cup {NotReviewing},
             next # NotReviewing => next.checkout = c,
             next.step = "summed" => /\ intake[c] = "none" /\ next.funds = Price
                                     /\ ~Locked(c),
             reviewing' = [reviewing EXCEPT ![r] = next],
             UNCHANGED <<now, stock, status, mode, expires, released, error, payable, reserve>>,
             UNCHANGED <<initiated, paid, credited, intake, sold, made>>,
             UNCHANGED <<polling, accepting, taking>>
      PROVE  Bookkeeping'
  <2>2. TypeOK'
    BY <1>1 DEF Bookkeeping, TypeOK, ShelfTyped, SessionsTyped, MoneyTyped, OrdersTyped,
                RequestsTyped
  <2>3. CheckoutsKept' /\ AcceptancesKept'
    BY <1>1 DEF Bookkeeping, CheckoutsKept, AcceptancesKept
  <2>4. ReviewsKept'
    BY <1>1 DEF Bookkeeping, TypeOK, RequestsTyped, ReviewsKept
  <2>5. LocksKept'
    <3>1. /\ reviewing'[r] = next
          /\ \A q \in Reviewers \ {r} : reviewing'[q] = reviewing[q]
      BY <1>1 DEF Bookkeeping, TypeOK, RequestsTyped
    <3>2. next.step = "summed" => next.checkout = c
      BY <1>1 DEF NotReviewing
    <3>3. UNCHANGED intake
      BY <1>1
    <3>4. next.step = "summed" => /\ intake[c] = "none" /\ next.funds = Price
                                  /\ \A q \in Reviewers : ~(reviewing[q].step = "summed"
                                                            /\ reviewing[q].checkout = c)
      BY <1>1 DEF Locked
    <3> QED
      BY <3>1, <3>2, <3>3, <3>4 DEF Bookkeeping, LocksKept
  <2> QED
    BY <2>2, <2>3, <2>4, <2>5 DEF Bookkeeping
<1>2. ASSUME NEW c \in Checkouts, OpenRecovery(r, c) PROVE Bookkeeping'
  <2> DEFINE next == [checkout |-> c, step |-> "opened", funds |-> 0]
  <2>1. /\ status[c] = "paid_review"
        /\ reviewing' = [reviewing EXCEPT ![r] = next]
        /\ UNCHANGED <<now, stock, status, mode, expires, released, error, payable, reserve>>
        /\ UNCHANGED <<initiated, paid, credited, intake, sold, made>>
        /\ UNCHANGED <<polling, accepting, taking>>
    BY <1>2 DEF OpenRecovery, session, money, order
  <2>2. next \in Reviews
    BY ConstantsAssumption DEF Reviews
  <2>3. next.checkout = c /\ next.step # "summed"
    OBVIOUS
  <2> HIDE DEF next
  <2> QED
    BY <1>1, <2>1, <2>2, <2>3
<1>3. CASE LockForRecovery(r)
  <2> DEFINE c == reviewing[r].checkout
             next == IF HasIntake(c) THEN NotReviewing
                     ELSE IF FullyPaid(paid[c])
                             THEN [checkout |-> c, step |-> "summed", funds |-> paid[c]]
                             ELSE [checkout |-> c, step |-> "failed", funds |-> 0]
  <2>1. /\ c \in Checkouts /\ paid[c] \in 0 .. Price
        /\ status[c] \notin {"none", "awaiting_payment"}
    BY <1>3, RecoveryIsTyped DEF LockForRecovery
  <2>2. /\ ~Locked(c)
        /\ reviewing' = [reviewing EXCEPT ![r] = next]
        /\ UNCHANGED <<now, stock, status, mode, expires, released, error, payable, reserve>>
        /\ UNCHANGED <<initiated, paid, credited, intake, sold, made>>
        /\ UNCHANGED <<polling, accepting, taking>>
    BY <1>3 DEF LockForRecovery, session, money, order
  <2>3. next \in Reviews \cup {NotReviewing}
    BY <2>1, ConstantsAssumption DEF Reviews
  <2>4. /\ next # NotReviewing => next.checkout = c
        /\ next.step = "summed" => intake[c] = "none" /\ next.funds = paid[c]
                                   /\ FullyPaid(paid[c])
    BY DEF NotReviewing, HasIntake
  <2>5. FullyPaid(paid[c]) => paid[c] = Price
    BY <2>1, ConstantsAssumption DEF FullyPaid
  <2> HIDE DEF next, c
  <2> QED
    BY <1>1, <2>1, <2>2, <2>3, <2>4, <2>5
<1>4. CASE /\ FinishRecovery(r)
           /\ UNCHANGED <<status, released, error, paid, credited, intake>>
  <2> DEFINE c == reviewing[r].checkout
             next == [checkout |-> c, step |-> "failed", funds |-> 0]
  <2>1. c \in Checkouts /\ status[c] \notin {"none", "awaiting_payment"}
    BY <1>4, RecoveryIsTyped DEF FinishRecovery
  <2>2. UNCHANGED <<now, stock, mode, expires, payable, reserve, initiated, sold, made,
                    polling, accepting, taking>>
    BY <1>4 DEF FinishRecovery
  <2>3. next \in Reviews /\ next.checkout = c /\ next.step # "summed"
    BY <2>1, ConstantsAssumption DEF Reviews
  <2>4. NotReviewing.step # "summed"
    BY DEF NotReviewing
  <2>5. \/ reviewing' = [reviewing EXCEPT ![r] = next]
        \/ reviewing' = [reviewing EXCEPT ![r] = NotReviewing]
    BY <1>4 DEF FinishRecovery
  <2> HIDE DEF next, c
  <2> QED
    BY <1>1, <1>4, <2>1, <2>2, <2>3, <2>4, <2>5
<1>5. ASSUME Verdict(reviewing[r].checkout, paid[reviewing[r].checkout]),
             reviewing' = [reviewing EXCEPT ![r] = NotReviewing],
             FinishRecovery(r) \/ RecordFailure(r)
      PROVE  Bookkeeping'
  <2> DEFINE c == reviewing[r].checkout
  <2>1. /\ c \in Checkouts /\ paid[c] \in 0 .. Price /\ (paid[c] > 0 => initiated[c])
        /\ status[c] # "none"
    BY <1>5, RecoveryIsTyped DEF FinishRecovery, RecordFailure
  <2>2. UNCHANGED <<now, stock, mode, expires, payable, reserve, initiated, sold, made,
                    polling, accepting, taking>>
    BY <1>5 DEF FinishRecovery, RecordFailure
  <2>3. ShelfTyped' /\ RequestsTyped'
    BY <1>5, <2>2 DEF Bookkeeping, TypeOK, ShelfTyped, RequestsTyped
  <2>4. /\ reviewing'[r] = NotReviewing
        /\ \A q \in Reviewers \ {r} : reviewing'[q] = reviewing[q]
    BY <1>5 DEF Bookkeeping, TypeOK, RequestsTyped
  <2>5. \A q \in Reviewers \ {r} : ~(reviewing[q].step = "summed" /\ reviewing[q].checkout = c)
    BY <1>5 DEF FinishRecovery, RecordFailure, Locked, Bookkeeping, LocksKept
  <2>6. \A q \in Reviewers :
           \/ reviewing'[q] = NotReviewing
           \/ reviewing'[q] = reviewing[q] /\ ~(reviewing[q].step = "summed"
                                                /\ reviewing[q].checkout = c)
    BY <2>4, <2>5
  <2>7. Verdict(c, paid[c])
    BY <1>5
  <2>8. UNCHANGED <<mode, expires, payable, reserve, initiated, sold, made, accepting>>
    BY <2>2
  <2> HIDE DEF c
  <2> QED
    BY <2>1, <2>3, <2>6, <2>7, <2>8, MaterializeKept
<1>6. CASE RecordFailure(r)
  <2>1. SendToReview(reviewing[r].checkout, paid[reviewing[r].checkout], "failed")
    BY <1>6 DEF RecordFailure
  <2>2. Verdict(reviewing[r].checkout, paid[reviewing[r].checkout])
    BY <2>1 DEF Verdict
  <2> QED
    BY <1>5, <1>6, <2>2 DEF RecordFailure
<1>7. CASE FinishRecovery(r)
  BY <1>4, <1>5, <1>7, RecoveryWrites DEF RecoveryStep
<1> QED
  BY <1>2, <1>3, <1>6, <1>7 DEF RecoveryStep

\* A clerk starts on an open intake nobody else has, with no more than it asks.
LEMMA BeginKept ==
    ASSUME Bookkeeping, NEW k \in Clerks, NEW c \in Checkouts, NEW policy \in Policies,
           BeginAccept(k, c, policy)
    PROVE  Bookkeeping'
<1> DEFINE take == [g \in Goods |-> Lesser(payable[c][g], Available(g, Others(c)))]
           short == \E g \in Goods : payable[c][g] > take[g]
           work == [checkout |-> c, take |-> take, split |-> short /\ policy = "split"]
<1>1. take \in Baskets /\ \A g \in Goods : take[g] <= payable[c][g]
  <2>1. \A g \in Goods : payable[c][g] \in 0 .. MaxUnits
    BY DEF Bookkeeping, TypeOK, SessionsTyped, Baskets
  <2>2. \A g \in Goods : Available(g, Others(c)) \in Nat
    BY AvailableIsNatural DEF Bookkeeping, Others
  <2> QED
    BY <2>1, <2>2, LesserIsBounded DEF Baskets
<1>2. /\ accepting[k] = NotAccepting
      /\ intake[c] \in Open
      /\ Unlocked(c)
      /\ \/ /\ \E outcome \in {"rejected", "awaiting_preorder"} :
                  intake' = [intake EXCEPT ![c] = outcome]
            /\ UNCHANGED accepting
         \/ /\ accepting' = [accepting EXCEPT ![k] = work]
            /\ UNCHANGED intake
      /\ UNCHANGED <<now, stock>>
      /\ UNCHANGED <<status, mode, expires, released, error, payable, reserve>>
      /\ UNCHANGED <<initiated, paid, credited>>
      /\ UNCHANGED <<sold, made, polling, reviewing, taking>>
  BY DEF BeginAccept, session, money
<1>3. work \in Acceptances
  <2>1. (short /\ policy = "split") \in BOOLEAN
    OBVIOUS
  <2> HIDE DEF take, short
  <2> QED
    BY <1>1, <2>1 DEF Acceptances
<1>4. work.checkout = c /\ work.take = take
  OBVIOUS
<1> HIDE DEF take, short, work
<1>5. TypeOK'
  <2>1. ShelfTyped' /\ SessionsTyped' /\ MoneyTyped'
    BY <1>2 DEF Bookkeeping, TypeOK, ShelfTyped, SessionsTyped, MoneyTyped
  <2>2. OrdersTyped'
    BY <1>2 DEF Bookkeeping, TypeOK, OrdersTyped, IntakeStatus
  <2>3. RequestsTyped'
    BY <1>2, <1>3 DEF Bookkeeping, TypeOK, RequestsTyped
  <2> QED
    BY <2>1, <2>2, <2>3 DEF TypeOK
<1>6. CheckoutsKept'
  <2>1. \A x \in Checkouts : /\ intake'[x] = "none" <=> intake[x] = "none"
                             /\ intake'[x] \in Open \cup {"none"} =>
                                   intake[x] \in Open \cup {"none"}
    BY <1>2 DEF Bookkeeping, TypeOK, OrdersTyped, Open
  <2> QED
    BY <1>2, <2>1 DEF Bookkeeping, CheckoutsKept
<1>7. ReviewsKept' /\ LocksKept'
  <2>1. \A x \in Checkouts : intake[x] = "none" => intake'[x] = "none"
    BY <1>2 DEF Bookkeeping, TypeOK, OrdersTyped, Open
  <2>2. \A r \in Reviewers : reviewing[r].step = "summed" => reviewing[r].checkout \in Checkouts
    BY RecoveryIsTyped
  <2> QED
    BY <1>2, <2>1, <2>2 DEF Bookkeeping, ReviewsKept, LocksKept
<1>8. AcceptancesKept'
  <2>1. CASE UNCHANGED accepting
    <3>1. \A j \in Clerks : accepting[j].checkout # c
      BY <1>2 DEF Unlocked
    <3>2. \A x \in Checkouts : x # c => intake'[x] = intake[x]
      BY <1>2 DEF Bookkeeping, TypeOK, OrdersTyped
    <3>3. \A j \in Clerks : accepting[j] # NotAccepting => accepting[j].checkout \in Checkouts
      BY DEF Bookkeeping, TypeOK, RequestsTyped, Acceptances
    <3> QED
      BY <1>2, <2>1, <3>1, <3>2, <3>3 DEF Bookkeeping, AcceptancesKept
  <2>2. CASE accepting' = [accepting EXCEPT ![k] = work] /\ UNCHANGED intake
    <3> SUFFICES ASSUME NEW i \in Clerks, accepting'[i] # NotAccepting
                 PROVE  /\ intake'[accepting'[i].checkout] \in Open
                        /\ \A g \in Goods :
                              accepting'[i].take[g] <= payable'[accepting'[i].checkout][g]
                        /\ \A j \in Clerks :
                              accepting'[j].checkout = accepting'[i].checkout => j = i
      BY DEF AcceptancesKept
    <3>1. accepting'[k] = work /\ \A j \in Clerks \ {k} : accepting'[j] = accepting[j]
      BY <2>2 DEF Bookkeeping, TypeOK, RequestsTyped
    <3>2. \A j \in Clerks \ {k} : accepting'[j].checkout # c
      BY <1>2, <3>1 DEF Unlocked
    <3>3. CASE i = k
      BY <1>1, <1>2, <1>4, <2>2, <3>1, <3>2, <3>3
    <3>4. CASE i # k
      BY <1>2, <1>4, <2>2, <3>1, <3>2, <3>4 DEF Bookkeeping, AcceptancesKept
    <3> QED
      BY <3>3, <3>4
  <2> QED
    BY <1>2, <2>1, <2>2
<1> QED
  BY <1>5, <1>6, <1>7, <1>8 DEF Bookkeeping

\* Settling an open intake ends every claim on it.
LEMMA SettleKept ==
    ASSUME Bookkeeping, NEW c \in Checkouts, NEW outcome \in {"accepted", "rejected"},
           Settle(c, outcome), intake[c] \in Open,
           sold' \in [Checkouts -> Baskets], made' \in [Checkouts -> Baskets],
           mode' \in [Checkouts -> {"stock", "preorder"}],
           \A x \in Checkouts \ {c} : sold'[x] = sold[x] /\ made'[x] = made[x],
           UNCHANGED <<status, expires, error, payable, reserve, initiated, paid, credited,
                       reviewing>>,
           ShelfTyped', RequestsTyped',
           \A k \in Clerks : accepting'[k] \in {NotAccepting, accepting[k]},
           \A k \in Clerks : accepting'[k] # NotAccepting => accepting[k].checkout # c
    PROVE  Bookkeeping'
<1>1. /\ intake' = [intake EXCEPT ![c] = outcome]
      /\ released' = [released EXCEPT ![c] = TRUE]
  BY DEF Settle
<1>2. SessionsTyped' /\ MoneyTyped'
  BY <1>1 DEF Bookkeeping, TypeOK, SessionsTyped, MoneyTyped
<1>3. OrdersTyped'
  BY <1>1 DEF Bookkeeping, TypeOK, OrdersTyped, IntakeStatus
<1>4. \A x \in Checkouts \ {c} : intake'[x] = intake[x] /\ released'[x] = released[x]
  BY <1>1 DEF Bookkeeping, TypeOK, OrdersTyped, SessionsTyped
<1>5. intake'[c] = outcome /\ released'[c]
  BY <1>1 DEF Bookkeeping, TypeOK, OrdersTyped, SessionsTyped
<1>6. CheckoutsKept'
  <2> SUFFICES ASSUME NEW x \in Checkouts
               PROVE  /\ status'[x] \in {"none", "awaiting_payment"} =>
                            ~released'[x] /\ intake'[x] = "none"
                      /\ status'[x] \in {"paid_review", "expired", "cancelled"} => released'[x]
                      /\ initiated'[x] => status'[x] # "none"
                      /\ paid'[x] > 0 => initiated'[x]
                      /\ \A g \in Goods : reserve'[x][g] <= payable'[x][g]
                      /\ intake'[x] \in Open \cup {"none"} =>
                            sold'[x] = Nothing /\ made'[x] = Nothing
    BY DEF CheckoutsKept
  <2>1. CASE x = c
    BY <1>5, <2>1 DEF Bookkeeping, CheckoutsKept, Open
  <2>2. CASE x # c
    BY <1>4, <2>2 DEF Bookkeeping, CheckoutsKept
  <2> QED
    BY <2>1, <2>2
<1>7. ReviewsKept' /\ LocksKept'
  <2>1. \A x \in Checkouts : intake[x] = "none" => intake'[x] = "none"
    BY <1>4 DEF Open
  <2>2. \A r \in Reviewers : reviewing[r].step = "summed" => reviewing[r].checkout \in Checkouts
    BY RecoveryIsTyped
  <2> QED
    BY <2>1, <2>2 DEF Bookkeeping, ReviewsKept, LocksKept
<1>8. AcceptancesKept'
  <2> SUFFICES ASSUME NEW i \in Clerks, accepting'[i] # NotAccepting
               PROVE  /\ intake'[accepting'[i].checkout] \in Open
                      /\ \A g \in Goods :
                            accepting'[i].take[g] <= payable'[accepting'[i].checkout][g]
                      /\ \A j \in Clerks :
                            accepting'[j].checkout = accepting'[i].checkout => j = i
    BY DEF AcceptancesKept
  <2>1. /\ accepting'[i] = accepting[i]
        /\ accepting[i].checkout \in Checkouts \ {c}
    BY DEF Bookkeeping, TypeOK, RequestsTyped, Acceptances
  <2>2. \A j \in Clerks : accepting'[j].checkout = accepting[i].checkout =>
           accepting'[j] = accepting[j]
    BY <2>1, ConstantsAssumption DEF NotAccepting
  <2> QED
    BY <1>4, <2>1, <2>2 DEF Bookkeeping, AcceptancesKept
<1> QED
  BY <1>2, <1>3, <1>6, <1>7, <1>8 DEF Bookkeeping, TypeOK

\* A clerk ends with the intake settled or, if the units are gone, untouched.
LEMMA CommitKept ==
    ASSUME Bookkeeping, NEW k \in Clerks, CommitAccept(k)
    PROVE  Bookkeeping'
<1> DEFINE c == accepting[k].checkout
           take == accepting[k].take
           split == accepting[k].split
<1>1. /\ accepting[k] # NotAccepting
      /\ accepting' = [accepting EXCEPT ![k] = NotAccepting]
      /\ UNCHANGED now
      /\ UNCHANGED <<status, mode, expires, error, payable, reserve>>
      /\ UNCHANGED <<initiated, paid, credited>>
      /\ UNCHANGED <<polling, reviewing, taking>>
  BY DEF CommitAccept, money
<1>2. c \in Checkouts /\ take \in Baskets /\ split \in BOOLEAN
  BY <1>1 DEF Bookkeeping, TypeOK, RequestsTyped, Acceptances
<1>3. RequestsTyped'
  BY <1>1 DEF Bookkeeping, TypeOK, RequestsTyped
<1>4. /\ accepting'[k] = NotAccepting
      /\ \A j \in Clerks \ {k} : accepting'[j] = accepting[j]
  BY <1>1 DEF Bookkeeping, TypeOK, RequestsTyped
<1>5. CASE UNCHANGED <<stock, released, order>>
  <2>1. UNCHANGED <<intake, sold, made>>
    BY <1>5 DEF order
  <2>2. ShelfTyped' /\ SessionsTyped' /\ MoneyTyped' /\ OrdersTyped'
    BY <1>1, <1>5, <2>1
       DEF Bookkeeping, TypeOK, ShelfTyped, SessionsTyped, MoneyTyped, OrdersTyped
  <2>3. CheckoutsKept' /\ ReviewsKept' /\ LocksKept'
    BY <1>1, <1>5, <2>1 DEF Bookkeeping, CheckoutsKept, ReviewsKept, LocksKept
  <2>4. AcceptancesKept'
    <3> SUFFICES ASSUME NEW i \in Clerks, accepting'[i] # NotAccepting
                 PROVE  /\ intake'[accepting'[i].checkout] \in Open
                        /\ \A g \in Goods :
                              accepting'[i].take[g] <= payable'[accepting'[i].checkout][g]
                        /\ \A j \in Clerks :
                              accepting'[j].checkout = accepting'[i].checkout => j = i
      BY DEF AcceptancesKept
    <3>1. accepting'[i] = accepting[i] /\ accepting[i].checkout \in Checkouts
      BY <1>4 DEF Bookkeeping, TypeOK, RequestsTyped, Acceptances
    <3>2. accepting'[k].checkout # accepting[i].checkout
      BY <1>4, <3>1, ConstantsAssumption DEF NotAccepting
    <3> QED
      BY <1>1, <1>4, <2>1, <3>1, <3>2 DEF Bookkeeping, AcceptancesKept
  <2> QED
    BY <1>3, <2>2, <2>3, <2>4 DEF Bookkeeping, TypeOK
<1>6. CASE /\ stock' = [g \in Goods |-> stock[g] - take[g]]
           /\ sold' = [sold EXCEPT ![c] = take]
           /\ made' = [made EXCEPT ![c] = ToProduction(c, take, split)]
           /\ Settle(c, IF take = Nothing /\ ~split THEN "rejected" ELSE "accepted")
  <2>1. ShelfTyped'
    <3>1. \A g \in Goods : stock[g] - take[g] \in Int
      BY <1>2 DEF Bookkeeping, TypeOK, ShelfTyped, Baskets
    <3> QED
      BY <1>1, <1>6, <3>1 DEF Bookkeeping, TypeOK, ShelfTyped
  <2>2. ToProduction(c, take, split) \in Baskets
    <3>1. \A g \in Goods : payable[c][g] - take[g] \in 0 .. MaxUnits
      <4>1. \A g \in Goods : /\ payable[c][g] \in 0 .. MaxUnits
                             /\ take[g] \in 0 .. MaxUnits
                             /\ take[g] <= payable[c][g]
        BY <1>1, <1>2
           DEF Bookkeeping, TypeOK, SessionsTyped, AcceptancesKept, Baskets
      <4> QED
        BY <4>1, ConstantsAssumption
    <3>2. 0 \in 0 .. MaxUnits
      BY ConstantsAssumption
    <3> HIDE DEF c, take, split
    <3> QED
      BY <3>1, <3>2 DEF ToProduction, Baskets
  <2>3. intake[c] \in Open
    BY <1>1 DEF Bookkeeping, AcceptancesKept
  <2>4. /\ sold' \in [Checkouts -> Baskets] /\ made' \in [Checkouts -> Baskets]
        /\ \A x \in Checkouts \ {c} : sold'[x] = sold[x] /\ made'[x] = made[x]
    BY <1>2, <1>6, <2>2 DEF Bookkeeping, TypeOK, OrdersTyped
  <2>5. mode' \in [Checkouts -> {"stock", "preorder"}]
    BY <1>1 DEF Bookkeeping, TypeOK, SessionsTyped
  <2>6. /\ \A j \in Clerks : accepting'[j] \in {NotAccepting, accepting[j]}
        /\ \A j \in Clerks : accepting'[j] # NotAccepting => accepting[j].checkout # c
    BY <1>1, <1>4 DEF Bookkeeping, AcceptancesKept
  <2>7. \E outcome \in {"accepted", "rejected"} : Settle(c, outcome)
    BY <1>6
  <2> HIDE DEF c, take, split
  <2> QED
    BY <1>1, <1>2, <1>3, <2>1, <2>3, <2>4, <2>5, <2>6, <2>7, SettleKept
<1> QED
  BY <1>5, <1>6 DEF CommitAccept

\* A pre-order is settled with all of its units passed on to production.
LEMMA PreorderKept ==
    ASSUME Bookkeeping, NEW c \in Checkouts, AcceptPreorder(c)
    PROVE  Bookkeeping'
<1>1. /\ Unlocked(c)
      /\ intake[c] \in Open
      /\ mode' = [mode EXCEPT ![c] = "preorder"]
      /\ made' = [made EXCEPT ![c] = payable[c]]
      /\ Settle(c, "accepted")
      /\ UNCHANGED <<now, stock, status, expires, error, payable, reserve, sold>>
      /\ UNCHANGED <<initiated, paid, credited>>
      /\ UNCHANGED <<polling, reviewing, accepting, taking>>
  BY DEF AcceptPreorder, Open, money, requests
<1>2. ShelfTyped' /\ RequestsTyped'
  BY <1>1 DEF Bookkeeping, TypeOK, ShelfTyped, RequestsTyped
<1>3. /\ sold' \in [Checkouts -> Baskets] /\ made' \in [Checkouts -> Baskets]
      /\ mode' \in [Checkouts -> {"stock", "preorder"}]
      /\ \A x \in Checkouts \ {c} : sold'[x] = sold[x] /\ made'[x] = made[x]
  BY <1>1 DEF Bookkeeping, TypeOK, SessionsTyped, OrdersTyped
<1>4. \A k \in Clerks : /\ accepting'[k] \in {NotAccepting, accepting[k]}
                        /\ accepting'[k] # NotAccepting => accepting[k].checkout # c
  BY <1>1 DEF Unlocked
<1> QED
  BY <1>1, <1>2, <1>3, <1>4, SettleKept

\* One case for each way the system can move.
LEMMA StepKept == Bookkeeping /\ [Next]_vars => Bookkeeping'
<1> SUFFICES ASSUME Bookkeeping, [Next]_vars PROVE Bookkeeping'
  OBVIOUS
<1>1. CASE UNCHANGED vars
  <2>1. /\ UNCHANGED <<session, money, order, reviewing, accepting>>
        /\ UNCHANGED <<now, stock, polling, taking>>
    BY <1>1 DEF vars, requests
  <2>2. ShelfTyped' /\ RequestsTyped'
    BY <2>1 DEF Bookkeeping, TypeOK, ShelfTyped, RequestsTyped
  <2> QED
    BY <2>1, <2>2, UntouchedKept
<1>2. CASE Tick \/ ShelfStep
  BY <1>2, ClockAndShelfKept
<1>3. CASE \E c \in Checkouts : CheckoutStep(c)
  BY <1>3, CreateKept, CancelKept, PaymentKept, RecordKept, PreorderKept DEF CheckoutStep
<1>4. CASE RequestStep
  BY <1>4, ExpireKept, ClockAndShelfKept, ReviewKept, BeginKept, CommitKept
     DEF RequestStep, RecoveryStep
<1> QED
  BY <1>1, <1>2, <1>3, <1>4 DEF Next

\* The bookkeeping is kept in every reachable state.
THEOREM BookkeepingIsKept == Spec => []Bookkeeping
BY InitKept, StepKept, PTL DEF Spec

(***************************************************************************)
(* Whatever the interleaving of customers, gateways, staff and direct      *)
(* sales, every row and every request keeps its type: reserved, sold and   *)
(* produced quantities are baskets, receipts never exceed the price.       *)
(***************************************************************************)
THEOREM TypeCorrect == Spec => []TypeOK
<1>1. Bookkeeping => TypeOK
  BY DEF Bookkeeping
<1> QED
  BY BookkeepingIsKept, <1>1, PTL

-----------------------------------------------------------------------------
(* The four things a step can do to one checkout's order *)

Untouched(c) == intake'[c] = intake[c] /\ sold'[c] = sold[c] /\ made'[c] = made[c]

\* A recovery has added up all of the money under the checkout's lock.
SummedUp(c) ==
    \E r \in Reviewers :
       reviewing[r].checkout = c /\ reviewing[r].step = "summed" /\ reviewing[r].funds = Price

Materialized(c) ==
    /\ intake[c] = "none" /\ intake'[c] = "pending"
    /\ sold'[c] = sold[c] /\ made'[c] = made[c]
    /\ credited'[c] = Price \/ SummedUp(c)
    /\ status'[c] = "materialized"

Refused(c) ==
    /\ intake[c] \in Open /\ intake'[c] \in {"awaiting_preorder", "rejected"}
    /\ sold'[c] = sold[c] /\ made'[c] = made[c]

Settled(c) == intake[c] \in Open /\ intake'[c] \in {"accepted", "rejected"}

OrderStep(c) == Untouched(c) \/ Materialized(c) \/ Refused(c) \/ Settled(c)

\* A step that does not write orders leaves them untouched.
LEMMA OrdersUntouched ==
    ASSUME UNCHANGED order
    PROVE  \A c \in Checkouts : OrderStep(c)
BY DEF OrderStep, Untouched, order

\* Materializing one checkout leaves the others' orders alone.
LEMMA MaterializeSteps ==
    ASSUME Bookkeeping, NEW c \in Checkouts, NEW funds \in 0 .. Price, Verdict(c, funds),
           intake'[c] # intake[c] => funds = Price \/ SummedUp(c), UNCHANGED <<sold, made>>
    PROVE  \A x \in Checkouts : OrderStep(x)
<1>1. \/ UNCHANGED intake
      \/ /\ intake[c] = "none"
         /\ status' = [status EXCEPT ![c] = "materialized"]
         /\ intake' = [intake EXCEPT ![c] = "pending"]
         /\ credited' = [credited EXCEPT ![c] = funds]
  BY DEF Verdict, SendToReview, CreateIntake
<1>2. ASSUME NEW x \in Checkouts PROVE OrderStep(x)
  <2>1. CASE x = c
    <3>1. CASE UNCHANGED intake
      BY <3>1 DEF OrderStep, Untouched
    <3>2. CASE /\ intake[c] = "none"
               /\ status' = [status EXCEPT ![c] = "materialized"]
               /\ intake' = [intake EXCEPT ![c] = "pending"]
               /\ credited' = [credited EXCEPT ![c] = funds]
      <4>1. /\ intake'[c] = "pending" /\ credited'[c] = funds
            /\ status'[c] = "materialized"
        BY <3>2 DEF Bookkeeping, TypeOK, SessionsTyped, MoneyTyped, OrdersTyped
      <4> QED
        BY <2>1, <3>2, <4>1 DEF OrderStep, Materialized
    <3> QED
      BY <1>1, <3>1, <3>2
  <2>2. CASE x # c
    BY <1>1, <2>2 DEF Bookkeeping, TypeOK, OrdersTyped, OrderStep, Untouched
  <2> QED
    BY <2>1, <2>2
<1> QED
  BY <1>2

\* Every step of the system is one of the four for every checkout.
LEMMA OrderSteps ==
    ASSUME Bookkeeping, [Next]_vars
    PROVE  \A x \in Checkouts : OrderStep(x)
<1>1. CASE UNCHANGED vars \/ Tick \/ ShelfStep
  <2>1. UNCHANGED order
    BY <1>1 DEF vars, Tick, ShelfStep, CheckSale, CheckAdjustment, TakeFromShelf, Restock
  <2> QED
    BY <2>1, OrdersUntouched
<1>2. ASSUME NEW c \in Checkouts, CheckoutStep(c)
      PROVE  \A x \in Checkouts : OrderStep(x)
  <2>1. CASE \/ CancelUnpaidCheckout(c) \/ InitiatePayment(c)
             \/ \E amount \in 1 .. Price : ReversePaymentReceipt(c, amount)
             \/ \E basket \in Baskets, policy \in Policies, fulfil \in {"stock", "preorder"} :
                   CreateCheckout(c, basket, policy, fulfil)
    <3>1. UNCHANGED order
      BY <2>1 DEF CancelUnpaidCheckout, InitiatePayment, ReversePaymentReceipt, CreateCheckout
    <3> QED
      BY <3>1, OrdersUntouched
  <2>3. ASSUME NEW amount \in 1 .. Price, RecordVerifiedPayment(c, amount)
        PROVE  \A x \in Checkouts : OrderStep(x)
    <3>1. UNCHANGED <<sold, made>>
      BY <2>3 DEF RecordVerifiedPayment
    <3>2. CASE /\ intake[c] = "none" /\ paid[c] + amount = Price
               /\ AttemptMaterialize(c, paid[c] + amount)
      <4>1. AttemptMaterialize(c, Price)
        BY <3>2
      <4>2. Price \in 0 .. Price
        BY ConstantsAssumption
      <4> QED
        BY <3>1, <3>2, <4>1, <4>2, AttemptIsVerdict, MaterializeSteps
    <3>3. CASE UNCHANGED intake
      BY <3>1, <3>3, OrdersUntouched DEF order
    <3> QED
      BY <2>3, <3>2, <3>3 DEF RecordVerifiedPayment
  <2>4. CASE AcceptPreorder(c)
    <3>1. /\ intake[c] \in Open
          /\ intake' = [intake EXCEPT ![c] = "accepted"]
          /\ made' = [made EXCEPT ![c] = payable[c]]
          /\ UNCHANGED sold
      BY <2>4 DEF AcceptPreorder, Open, Settle
    <3> QED
      BY <3>1 DEF Bookkeeping, TypeOK, OrdersTyped, OrderStep, Untouched, Settled
  <2> QED
    BY <1>2, <2>1, <2>3, <2>4 DEF CheckoutStep
<1>3. CASE RequestStep
  <2>1. ASSUME NEW p \in Pollers,
               ExpireIfNeeded(p) \/ \E c \in Checkouts : ReadForDisplay(p, c)
        PROVE  \A x \in Checkouts : OrderStep(x)
    BY <2>1, OrdersUntouched DEF ExpireIfNeeded, ReadForDisplay
  <2>2. ASSUME NEW r \in Reviewers, NEW c \in Checkouts, OpenRecovery(r, c)
        PROVE  \A x \in Checkouts : OrderStep(x)
    BY <2>2, OrdersUntouched DEF OpenRecovery
  <2>3. ASSUME NEW r \in Reviewers, RecoveryStep(r)
        PROVE  \A x \in Checkouts : OrderStep(x)
    <3> DEFINE c == reviewing[r].checkout
    <3>1. /\ c \in Checkouts
          /\ UNCHANGED <<sold, made>>
          /\ \/ UNCHANGED <<status, released, error, paid, credited, intake>>
             \/ /\ Verdict(c, paid[c])
                /\ intake'[c] # intake[c] => reviewing[r].step = "summed"
      BY <2>3, RecoveryWrites
    <3>2. reviewing[r].step = "summed" => SummedUp(c)
      BY DEF SummedUp, Bookkeeping, LocksKept
    <3>3. paid[c] \in 0 .. Price
      BY <3>1 DEF Bookkeeping, TypeOK, MoneyTyped
    <3> HIDE DEF c
    <3>4. CASE UNCHANGED intake
      BY <3>1, <3>4, OrdersUntouched DEF order
    <3> QED
      BY <3>1, <3>2, <3>3, <3>4, MaterializeSteps
  <2>4. ASSUME NEW k \in Clerks, NEW c \in Checkouts, NEW policy \in Policies,
               BeginAccept(k, c, policy)
        PROVE  \A x \in Checkouts : OrderStep(x)
    <3>1. /\ intake[c] \in Open
          /\ \/ UNCHANGED intake
             \/ \E outcome \in {"awaiting_preorder", "rejected"} :
                   intake' = [intake EXCEPT ![c] = outcome]
          /\ UNCHANGED <<sold, made>>
      BY <2>4 DEF BeginAccept
    <3> QED
      BY <3>1 DEF Bookkeeping, TypeOK, OrdersTyped, OrderStep, Untouched, Refused
  <2>5. ASSUME NEW k \in Clerks, CommitAccept(k)
        PROVE  \A x \in Checkouts : OrderStep(x)
    <3> DEFINE c == accepting[k].checkout
    <3>1. c \in Checkouts /\ intake[c] \in Open
      BY <2>5 DEF CommitAccept, Bookkeeping, TypeOK, RequestsTyped, AcceptancesKept, Acceptances
    <3>3. \/ UNCHANGED order
          \/ \E outcome \in {"accepted", "rejected"} : \E take, rest :
                /\ intake' = [intake EXCEPT ![c] = outcome]
                /\ sold' = [sold EXCEPT ![c] = take]
                /\ made' = [made EXCEPT ![c] = rest]
      BY <2>5 DEF CommitAccept, Settle
    <3> HIDE DEF c
    <3> QED
      BY <3>1, <3>3, OrdersUntouched
         DEF Bookkeeping, TypeOK, OrdersTyped, OrderStep, Untouched, Settled
  <2> QED
    BY <1>3, <2>1, <2>2, <2>3, <2>4, <2>5 DEF RequestStep, RecoveryStep
<1> QED
  BY <1>1, <1>2, <1>3 DEF Next

-----------------------------------------------------------------------------
(* Who starts, ships and accepts an order *)

\* A clerk at work has a checkout, and units of it to take.
LEMMA AcceptanceIsTyped ==
    ASSUME Bookkeeping, NEW k \in Clerks, accepting[k] # NotAccepting
    PROVE  /\ accepting[k].checkout \in Checkouts
           /\ accepting[k].take \in Baskets
           /\ accepting[k].split \in BOOLEAN
           /\ intake[accepting[k].checkout] \in Open
           /\ status[accepting[k].checkout] # "none"
BY DEF Bookkeeping, TypeOK, RequestsTyped, Acceptances, AcceptancesKept, CheckoutsKept, Open

\* The items of a checkout are written when it is created and never again.
LEMMA ItemsAreFixed ==
    ASSUME Bookkeeping, [Next]_vars, NEW c \in Checkouts, status[c] # "none"
    PROVE  payable'[c] = payable[c] /\ reserve'[c] = reserve[c]
<1>1. ASSUME NEW x \in Checkouts, NEW basket \in Baskets, NEW policy \in Policies,
             NEW fulfil \in {"stock", "preorder"}, CreateCheckout(x, basket, policy, fulfil)
      PROVE  payable'[c] = payable[c] /\ reserve'[c] = reserve[c]
  <2>1. x # c
    BY <1>1 DEF CreateCheckout
  <2>2. \E held, due : /\ reserve' = [reserve EXCEPT ![x] = held]
                       /\ payable' = [payable EXCEPT ![x] = due]
    BY <1>1 DEF CreateCheckout
  <2> QED
    BY <2>1, <2>2 DEF Bookkeeping, TypeOK, SessionsTyped
<1>2. CASE UNCHANGED <<payable, reserve>>
  BY <1>2
<1>3. CASE UNCHANGED vars \/ Tick \/ ShelfStep
  BY <1>2, <1>3
     DEF vars, session, Tick, ShelfStep, CheckSale, CheckAdjustment, TakeFromShelf, Restock
<1>4. CASE \E x \in Checkouts : CheckoutStep(x)
  BY <1>1, <1>2, <1>4
     DEF CheckoutStep, CancelUnpaidCheckout, InitiatePayment, ReversePaymentReceipt,
         RecordVerifiedPayment, AcceptPreorder, session
<1>5. CASE RequestStep
  BY <1>2, <1>5
     DEF RequestStep, ExpireIfNeeded, ReadForDisplay, OpenRecovery, LockForRecovery,
         FinishRecovery, RecordFailure, CommitAccept, BeginAccept, session
<1> QED
  BY <1>3, <1>4, <1>5 DEF Next

\* What a clerk who finds the units still there does to the order and the shelf.
Shipped(c, take, split) ==
    /\ Enough(c, take)
    /\ stock' = [g \in Goods |-> stock[g] - take[g]]
    /\ sold' = [sold EXCEPT ![c] = take]
    /\ made' = [made EXCEPT ![c] = ToProduction(c, take, split)]
    /\ intake' = [intake EXCEPT ![c] =
                     IF take = Nothing /\ ~split THEN "rejected" ELSE "accepted"]
    /\ released' = [released EXCEPT ![c] = TRUE]
    /\ UNCHANGED <<now, status, mode, expires, payable, reserve>>

\* Orders are accepted, and units leave the shelf for them, in no other way.
LEMMA WhoAccepts ==
    ASSUME Bookkeeping, [Next]_vars, NEW c \in Checkouts,
           (intake[c] # "accepted" /\ intake'[c] = "accepted") \/ sold'[c] # sold[c]
    PROVE  \/ AcceptPreorder(c)
           \/ \E k \in Clerks : /\ accepting[k] # NotAccepting
                               /\ accepting[k].checkout = c
                               /\ Shipped(c, accepting[k].take, accepting[k].split)
<1>1. \A x \in Checkouts, status1 \in {"pending", "awaiting_preorder", "rejected"} :
         ~ (UNCHANGED sold /\ intake' = [intake EXCEPT ![x] = status1])
  BY DEF Bookkeeping, TypeOK, OrdersTyped
<1>2. ~ UNCHANGED <<intake, sold>>
  OBVIOUS
<1>3. ~ (UNCHANGED vars \/ Tick \/ ShelfStep)
  BY <1>2 DEF vars, order, Tick, ShelfStep, CheckSale, CheckAdjustment, TakeFromShelf, Restock
<1>4. ASSUME NEW x \in Checkouts, NEW funds, Verdict(x, funds), UNCHANGED sold
      PROVE  FALSE
  BY <1>1, <1>2, <1>4 DEF Verdict, SendToReview, CreateIntake
<1>5. ASSUME NEW x \in Checkouts, CheckoutStep(x)
      PROVE  AcceptPreorder(c)
  <2>1. ~ \E amount \in 1 .. Price : RecordVerifiedPayment(x, amount)
    BY <1>2, <1>4, AttemptIsVerdict DEF RecordVerifiedPayment
  <2>2. AcceptPreorder(x)
    BY <1>2, <1>5, <2>1
       DEF CheckoutStep, CreateCheckout, CancelUnpaidCheckout, InitiatePayment,
           ReversePaymentReceipt, order
  <2>3. intake' = [intake EXCEPT ![x] = "accepted"] /\ UNCHANGED sold
    BY <2>2 DEF AcceptPreorder, Settle
  <2> QED
    BY <2>2, <2>3 DEF Bookkeeping, TypeOK, OrdersTyped
<1>6. CASE RequestStep
  <2>1. ASSUME NEW r \in Reviewers, RecoveryStep(r) PROVE FALSE
    BY <1>2, <1>4, <2>1, RecoveryWrites
  <2>2. ASSUME NEW k \in Clerks, NEW x \in Checkouts, NEW policy \in Policies,
               BeginAccept(k, x, policy)
        PROVE  FALSE
    BY <1>1, <1>2, <2>2 DEF BeginAccept
  <2>3. PICK k \in Clerks : CommitAccept(k)
    BY <1>2, <1>6, <2>1, <2>2
       DEF RequestStep, RecoveryStep, ExpireIfNeeded, ReadForDisplay, OpenRecovery, order
  <2>4. accepting[k] # NotAccepting /\ accepting[k].checkout \in Checkouts
    BY <2>3, AcceptanceIsTyped DEF CommitAccept
  <2>5. Shipped(accepting[k].checkout, accepting[k].take, accepting[k].split)
    BY <1>2, <2>3 DEF CommitAccept, Settle, Shipped, order
  <2>6. accepting[k].checkout = c
    BY <2>4, <2>5 DEF Shipped, Bookkeeping, TypeOK, OrdersTyped
  <2> QED
    BY <2>4, <2>5, <2>6
<1> QED
  BY <1>3, <1>5, <1>6 DEF Next

\* A clerk at work after a step was at work before it, or has just begun.
LEMMA WhoBegins ==
    ASSUME Bookkeeping, [Next]_vars, NEW k \in Clerks, accepting'[k] # NotAccepting
    PROVE  \/ accepting'[k] = accepting[k]
           \/ \E c \in Checkouts, policy \in Policies :
                 BeginAccept(k, c, policy) /\ accepting'[k].checkout = c
<1>1. CASE UNCHANGED accepting
  BY <1>1
<1>2. ASSUME NEW j \in Clerks, CommitAccept(j)
      PROVE  accepting'[k] = accepting[k]
  BY <1>2 DEF CommitAccept, Bookkeeping, TypeOK, RequestsTyped
<1>3. ASSUME NEW j \in Clerks, NEW c \in Checkouts, NEW policy \in Policies,
             BeginAccept(j, c, policy)
      PROVE  \/ accepting'[k] = accepting[k]
             \/ BeginAccept(k, c, policy) /\ accepting'[k].checkout = c
  <2>1. \/ UNCHANGED accepting
        \/ \E take, split : accepting' = [accepting EXCEPT ![j] =
              [checkout |-> c, take |-> take, split |-> split]]
    BY <1>3 DEF BeginAccept
  <2> QED
    BY <1>3, <2>1 DEF Bookkeeping, TypeOK, RequestsTyped
<1>4. CASE UNCHANGED vars \/ Tick \/ ShelfStep
  BY <1>1, <1>4
     DEF vars, requests, Tick, ShelfStep, CheckSale, CheckAdjustment, TakeFromShelf, Restock
<1>5. CASE \E x \in Checkouts : CheckoutStep(x)
  BY <1>1, <1>5
     DEF CheckoutStep, CreateCheckout, CancelUnpaidCheckout, InitiatePayment,
         ReversePaymentReceipt, RecordVerifiedPayment, AcceptPreorder, requests
<1>6. CASE RequestStep
  BY <1>1, <1>2, <1>3, <1>6
     DEF RequestStep, ExpireIfNeeded, ReadForDisplay, OpenRecovery, LockForRecovery,
         FinishRecovery, RecordFailure
<1> QED
  BY <1>4, <1>5, <1>6 DEF Next

-----------------------------------------------------------------------------
(* Paid, final and never recovered again *)

(***************************************************************************)
(* Every order is created on receipts that cover it, however its payment,  *)
(* its expiry, reversals and concurrent recoveries interleave; only a      *)
(* recovery that added them up before a reversal creates it on less        *)
(* (materialize_paid_checkout).                                            *)
(***************************************************************************)
THEOREM OrdersArePaid == Spec => OrderPaidInFull
<1>1. Bookkeeping /\ [Next]_vars =>
         [\A c \in Checkouts : intake[c] = "none" /\ intake'[c] # "none" =>
             \/ credited'[c] = Price
             \/ \E r \in Reviewers :
                   reviewing[r].checkout = c /\ reviewing[r].step = "summed"
                   /\ reviewing[r].funds = Price]_vars
  BY OrderSteps DEF OrderStep, Untouched, Materialized, Refused, Settled, Open, SummedUp
<1> QED
  BY BookkeepingIsKept, <1>1, PTL DEF Spec, OrderPaidInFull

\* A review is opened by an attempt that finds no order or by the late note
\* of a failure.
LEMMA WhoSendsToReview ==
    ASSUME Bookkeeping, [Next]_vars, NEW c \in Checkouts, status'[c] = "paid_review",
           status[c] # "paid_review"
    PROVE  \/ intake'[c] = "none"
           \/ \E r \in Reviewers : /\ reviewing[r].checkout = c
                                   /\ reviewing[r].step = "failed"
                                   /\ reviewing'[r] = NotReviewing
<1>1. ~ UNCHANGED status
  OBVIOUS
<1>2. ASSUME NEW x \in Checkouts, NEW value, status' = [status EXCEPT ![x] = value]
      PROVE  x = c /\ value = "paid_review"
  BY <1>2 DEF Bookkeeping, TypeOK, SessionsTyped
<1>3. ASSUME NEW x \in Checkouts, CheckoutStep(x)
      PROVE  intake'[c] = "none"
  <2>1. PICK amount \in 1 .. Price : RecordVerifiedPayment(x, amount)
    <3>1. ~(CancelUnpaidCheckout(x) \/ \E basket \in Baskets, policy \in Policies,
                fulfil \in {"stock", "preorder"} : CreateCheckout(x, basket, policy, fulfil))
      BY <1>2 DEF CancelUnpaidCheckout, CreateCheckout
    <3> QED
      BY <1>1, <1>3, <3>1 DEF CheckoutStep, InitiatePayment, ReversePaymentReceipt,
                              AcceptPreorder, session
  <2>2. intake[x] = "none" /\ AttemptMaterialize(x, paid[x] + amount)
    BY <1>1, <2>1 DEF RecordVerifiedPayment
  <2>3. \/ status' = [status EXCEPT ![x] = "paid_review"] /\ UNCHANGED intake
        \/ status' = [status EXCEPT ![x] = "materialized"]
    BY <2>2 DEF AttemptMaterialize, SendToReview, CreateIntake
  <2> QED
    BY <1>2, <2>2, <2>3
<1>4. CASE RequestStep
  <2>1. ASSUME NEW p \in Pollers PROVE ~ExpireIfNeeded(p)
    BY <1>1, <1>2 DEF ExpireIfNeeded, Bookkeeping, TypeOK, RequestsTyped
  <2>2. PICK r \in Reviewers : FinishRecovery(r) \/ RecordFailure(r)
    BY <1>1, <1>4, <2>1
       DEF RequestStep, ReadForDisplay, OpenRecovery, LockForRecovery, BeginAccept,
           CommitAccept, session
  <2>3. reviewing[r].checkout \in Checkouts
    BY <2>2, RecoveryIsTyped DEF FinishRecovery, RecordFailure
  <2>4. CASE FinishRecovery(r)
    <3>1. intake[reviewing[r].checkout] = "none"
      BY <2>4, RecoveryIsTyped DEF FinishRecovery
    <3>2. \/ /\ status' = [status EXCEPT ![reviewing[r].checkout] = "paid_review"]
             /\ UNCHANGED intake
          \/ status' = [status EXCEPT ![reviewing[r].checkout] = "materialized"]
      BY <1>1, <2>4 DEF FinishRecovery, SendToReview, CreateIntake
    <3> QED
      BY <1>2, <2>3, <3>1, <3>2
  <2>5. CASE RecordFailure(r)
    <3>1. /\ status' = [status EXCEPT ![reviewing[r].checkout] = "paid_review"]
          /\ reviewing' = [reviewing EXCEPT ![r] = NotReviewing]
          /\ reviewing[r].step = "failed"
      BY <2>5 DEF RecordFailure, SendToReview
    <3>2. reviewing'[r] = NotReviewing
      BY <3>1 DEF Bookkeeping, TypeOK, RequestsTyped
    <3> QED
      BY <1>2, <2>3, <3>1, <3>2
  <2> QED
    BY <2>2, <2>4, <2>5
<1>5. ~ (UNCHANGED vars \/ Tick \/ ShelfStep)
  BY <1>1
     DEF vars, session, Tick, ShelfStep, CheckSale, CheckAdjustment, TakeFromShelf, Restock
<1> QED
  BY <1>3, <1>4, <1>5 DEF Next

\* A recovery fails under the lock, where it has seen that there is no order.
LEMMA WhoFails ==
    ASSUME Bookkeeping, [Next]_vars, NEW r \in Reviewers, reviewing'[r].step = "failed",
           reviewing[r].step # "failed"
    PROVE  intake[reviewing[r].checkout] = "none"
<1>1. ~ UNCHANGED reviewing
  OBVIOUS
<1>2. ASSUME NEW q \in Reviewers, NEW next, reviewing' = [reviewing EXCEPT ![q] = next]
      PROVE  q = r /\ next.step = "failed"
  BY <1>2 DEF Bookkeeping, TypeOK, RequestsTyped
<1>3. CASE RequestStep
  <2>1. ASSUME NEW q \in Reviewers, NEW c \in Checkouts PROVE ~OpenRecovery(q, c)
    <3>1. ASSUME OpenRecovery(q, c)
          PROVE  [checkout |-> c, step |-> "opened", funds |-> 0].step = "failed"
      BY <1>2, <3>1 DEF OpenRecovery
    <3> QED
      BY <3>1
  <2>2. ASSUME NEW q \in Reviewers PROVE ~RecordFailure(q)
    BY <1>2 DEF RecordFailure, NotReviewing
  <2>3. PICK q \in Reviewers : LockForRecovery(q) \/ FinishRecovery(q)
    BY <1>1, <1>3, <2>1, <2>2
       DEF RequestStep, ExpireIfNeeded, ReadForDisplay, BeginAccept, CommitAccept
  <2>4. q = r
    BY <1>2, <2>3 DEF LockForRecovery, FinishRecovery
  <2>5. CASE LockForRecovery(q)
    <3>1. ~HasIntake(reviewing[q].checkout)
      BY <1>2, <2>5 DEF LockForRecovery, NotReviewing
    <3> QED
      BY <2>4, <3>1 DEF HasIntake
  <2>6. CASE FinishRecovery(q)
    BY <2>4, <2>6, RecoveryIsTyped DEF FinishRecovery
  <2> QED
    BY <2>3, <2>5, <2>6
<1>4. ~ (UNCHANGED vars \/ Tick \/ ShelfStep)
  BY <1>1
     DEF vars, requests, Tick, ShelfStep, CheckSale, CheckAdjustment, TakeFromShelf, Restock
<1>5. ~ \E x \in Checkouts : CheckoutStep(x)
  BY <1>1
     DEF CheckoutStep, CreateCheckout, CancelUnpaidCheckout, InitiatePayment,
         ReversePaymentReceipt, RecordVerifiedPayment, AcceptPreorder, requests
<1> QED
  BY <1>3, <1>4, <1>5 DEF Next

(***************************************************************************)
(* Recoveries fail over checkouts that have no order at that moment, and   *)
(* only the note of such a failure, written after the lock is gone, can    *)
(* send a checkout to review that has become an order meanwhile            *)
(* (attempt_materialize_paid_checkout, checkout_recover).                  *)
(***************************************************************************)
THEOREM OrdersAreReviewedOnlyLate == Spec => OrderReviewedOnlyLate
<1>1. ASSUME Bookkeeping, [Next]_vars, NEW c \in Checkouts,
             intake'[c] # "none", status'[c] = "paid_review"
      PROVE  \/ intake[c] # "none" /\ status[c] = "paid_review"
             \/ \E r \in Reviewers : /\ reviewing[r].checkout = c
                                     /\ reviewing[r].step = "failed"
                                     /\ reviewing'[r] = NotReviewing
  <2>1. intake[c] # "none"  \/ status'[c] = "materialized"
    BY <1>1, OrderSteps DEF OrderStep, Untouched, Materialized, Refused, Settled, Open
  <2> QED
    BY <1>1, <2>1, WhoSendsToReview
<1>2. Bookkeeping /\ [Next]_vars =>
         [/\ \A r \in Reviewers :
                reviewing'[r].step = "failed" /\ reviewing[r].step # "failed" =>
                   intake[reviewing[r].checkout] = "none"
          /\ \A c \in Checkouts :
                intake'[c] # "none" /\ status'[c] = "paid_review" =>
                   \/ intake[c] # "none" /\ status[c] = "paid_review"
                   \/ \E r \in Reviewers :
                         /\ reviewing[r].checkout = c /\ reviewing[r].step = "failed"
                         /\ reviewing'[r] = NotReviewing]_vars
  BY <1>1, WhoFails
<1> QED
  BY BookkeepingIsKept, <1>2, PTL DEF Spec, OrderReviewedOnlyLate

(***************************************************************************)
(* An accepted or rejected order stays as it is, whatever other clerks and *)
(* the customer do at the same time (accept_intake).                       *)
(***************************************************************************)
THEOREM OutcomesAreFinal == Spec => OrderOutcomeIsFinal
<1>1. Bookkeeping /\ [Next]_vars =>
         [\A c \in Checkouts : intake[c] \in {"accepted", "rejected"} =>
             /\ intake'[c] = intake[c]
             /\ sold'[c] = sold[c]
             /\ made'[c] = made[c]]_vars
  BY OrderSteps DEF OrderStep, Untouched, Materialized, Refused, Settled, Open
<1> QED
  BY BookkeepingIsKept, <1>1, PTL DEF Spec, OrderOutcomeIsFinal

-----------------------------------------------------------------------------
(* Delivery of what was paid *)

\* A clerk who found less than was paid for passes the rest on to production,
\* or works under the policy that reduces the order.
AcceptancesFit ==
    \A k \in Clerks : accepting[k] # NotAccepting =>
       \/ accepting[k].split
       \/ "reduce" \in Policies
       \/ accepting[k].take = payable[accepting[k].checkout]

\* Quantities are counts.
LEMMA BasketsCount ==
    ASSUME NEW basket \in Baskets, NEW g \in Goods
    PROVE  basket[g] \in Nat /\ basket[g] \in 0 .. MaxUnits
BY ConstantsAssumption DEF Baskets

\* What a clerk finds when starting fits.
LEMMA BeginFits ==
    ASSUME Bookkeeping, NEW k \in Clerks, NEW c \in Checkouts, NEW policy \in Policies,
           BeginAccept(k, c, policy), accepting'[k] # NotAccepting
    PROVE  \/ accepting'[k].split
           \/ "reduce" \in Policies
           \/ accepting'[k].take = payable[c]
<1> DEFINE take == [g \in Goods |-> Lesser(payable[c][g], Available(g, Others(c)))]
           short == \E g \in Goods : payable[c][g] > take[g]
<1>1. /\ accepting'[k].take = take
      /\ accepting'[k].split <=> short /\ policy = "split"
      /\ short => policy \in {"reduce", "split"}
  <2> DEFINE work == [checkout |-> c, take |-> take, split |-> short /\ policy = "split"]
  <2>1. accepting[k] = NotAccepting
    BY DEF BeginAccept
  <2>2. /\ short => policy \in {"reduce", "split"}
        /\ accepting' = [accepting EXCEPT ![k] = work]
    BY <2>1 DEF BeginAccept
  <2>3. accepting'[k] = work
    BY <2>2 DEF Bookkeeping, TypeOK, RequestsTyped
  <2>4. work.take = take /\ (work.split <=> short /\ policy = "split")
    OBVIOUS
  <2> HIDE DEF work
  <2> QED
    BY <2>2, <2>3, <2>4
<1>2. payable[c] \in Baskets /\ \A g \in Goods : take[g] <= payable[c][g] /\ take[g] \in Nat
  <2>1. payable[c] \in Baskets
    BY DEF Bookkeeping, TypeOK, SessionsTyped
  <2>2. \A g \in Goods : Available(g, Others(c)) \in Nat
    BY AvailableIsNatural DEF Bookkeeping, Others
  <2>3. \A g \in Goods : take[g] \in 0 .. MaxUnits /\ take[g] <= payable[c][g]
    BY <2>1, <2>2, BasketsCount, LesserIsBounded
  <2> QED
    BY <2>1, <2>3, ConstantsAssumption
<1>3. ~short => take = payable[c]
  <2>1. \A g \in Goods : payable[c][g] \in Nat
    BY <1>2, ConstantsAssumption DEF Baskets
  <2>2. ~short => \A g \in Goods : take[g] = payable[c][g]
    BY <1>2, <2>1
  <2> HIDE DEF short
  <2>3. payable[c] = [g \in Goods |-> payable[c][g]]
    BY <1>2 DEF Baskets
  <2> QED
    BY <2>2, <2>3
<1> HIDE DEF take, short
<1> QED
  BY <1>1, <1>3

\* So every acceptance in progress fits, and none outlives a change of items.
LEMMA FitKept == Bookkeeping /\ AcceptancesFit /\ [Next]_vars => AcceptancesFit'
<1> SUFFICES ASSUME Bookkeeping, AcceptancesFit, [Next]_vars,
                    NEW k \in Clerks, accepting'[k] # NotAccepting
             PROVE  \/ accepting'[k].split
                    \/ "reduce" \in Policies
                    \/ accepting'[k].take = payable'[accepting'[k].checkout]
  BY DEF AcceptancesFit
<1>1. CASE accepting'[k] = accepting[k]
  <2>1. payable'[accepting[k].checkout] = payable[accepting[k].checkout]
    BY <1>1, AcceptanceIsTyped, ItemsAreFixed
  <2> QED
    BY <1>1, <2>1 DEF AcceptancesFit
<1>2. ASSUME NEW c \in Checkouts, NEW policy \in Policies,
             BeginAccept(k, c, policy), accepting'[k].checkout = c
      PROVE  \/ accepting'[k].split
             \/ "reduce" \in Policies
             \/ accepting'[k].take = payable'[accepting'[k].checkout]
  <2>1. payable'[c] = payable[c]
    BY <1>2 DEF BeginAccept, session
  <2> QED
    BY <1>2, <2>1, BeginFits
<1> QED
  BY <1>1, <1>2, WhoBegins

\* The quantities of one accepted order.
Delivered(c) ==
    \/ \A g \in Goods : sold[c][g] + made[c][g] = payable[c][g]
    \/ /\ "reduce" \in Policies
       /\ sold[c] # Nothing /\ made[c] = Nothing
       /\ \A g \in Goods : sold[c][g] <= payable[c][g]

\* A clerk's acceptance delivers.
LEMMA ShippedIsDelivered ==
    ASSUME Bookkeeping, AcceptancesFit, NEW k \in Clerks, NEW c \in Checkouts,
           accepting[k] # NotAccepting, accepting[k].checkout = c,
           Shipped(c, accepting[k].take, accepting[k].split), intake'[c] = "accepted"
    PROVE  Delivered(c)'
<1> DEFINE take == accepting[k].take
           split == accepting[k].split
<1>1. take \in Baskets /\ split \in BOOLEAN
  BY AcceptanceIsTyped
<1>2. /\ sold'[c] = take /\ made'[c] = ToProduction(c, take, split)
      /\ payable'[c] = payable[c]
      /\ ~ (take = Nothing /\ ~split)
  BY DEF Shipped, Bookkeeping, TypeOK, OrdersTyped
<1>3. \A g \in Goods : /\ take[g] \in Nat /\ payable[c][g] \in Nat
                       /\ take[g] <= payable[c][g]
  <2>1. payable[c] \in Baskets
    BY DEF Bookkeeping, TypeOK, SessionsTyped
  <2>2. \A g \in Goods : take[g] <= payable[c][g]
    BY DEF Bookkeeping, AcceptancesKept
  <2> QED
    BY <1>1, <2>1, <2>2, BasketsCount
<1>4. split \/ "reduce" \in Policies \/ take = payable[c]
  BY DEF AcceptancesFit
<1> HIDE DEF take, split
<1>5. CASE split
  BY <1>2, <1>3, <1>5 DEF ToProduction, Delivered
<1>6. CASE ~split /\ take = payable[c]
  BY <1>2, <1>3, <1>6 DEF ToProduction, Delivered
<1>7. CASE ~split /\ "reduce" \in Policies
  <2>1. made'[c] = Nothing
    BY <1>2, <1>7 DEF ToProduction, Nothing
  <2>2. \A g \in Goods : sold'[c][g] <= payable'[c][g]
    BY <1>2, <1>3
  <2>3. sold'[c] # Nothing
    BY <1>2, <1>7
  <2> QED
    BY <1>7, <2>1, <2>2, <2>3 DEF Delivered, Nothing
<1> QED
  BY <1>1, <1>4, <1>5, <1>6, <1>7

\* So does a pre-order's, of which nothing was sold from the shelf.
LEMMA PreorderIsDelivered ==
    ASSUME Bookkeeping, NEW c \in Checkouts, AcceptPreorder(c)
    PROVE  Delivered(c)'
<1>1. sold'[c] = Nothing /\ made'[c] = payable[c] /\ payable'[c] = payable[c]
  BY DEF AcceptPreorder, Open, Bookkeeping, TypeOK, OrdersTyped, CheckoutsKept
<1>2. \A g \in Goods : payable[c][g] \in Nat
  BY BasketsCount DEF Bookkeeping, TypeOK, SessionsTyped
<1> QED
  BY <1>1, <1>2 DEF Delivered, Nothing

(***************************************************************************)
(* Every accepted order ships or produces all that was paid for, unless a  *)
(* policy that reduces orders is in use, whatever happened to the stock    *)
(* since the payment and since the clerk looked (accept_intake).           *)
(***************************************************************************)
THEOREM OrdersDeliver == Spec => []OrderDeliversWhatWasPaid
<1> DEFINE Inv == Bookkeeping /\ AcceptancesFit /\ OrderDeliversWhatWasPaid
<1>1. Init => AcceptancesFit /\ OrderDeliversWhatWasPaid
  BY DEF Init, AcceptancesFit, OrderDeliversWhatWasPaid
<1>2. Inv /\ [Next]_vars => OrderDeliversWhatWasPaid'
  <2> SUFFICES ASSUME Inv, [Next]_vars, NEW c \in Checkouts, intake'[c] = "accepted"
               PROVE  Delivered(c)'
    BY DEF OrderDeliversWhatWasPaid, Delivered
  <2>1. CASE intake[c] = "accepted"
    <3>1. sold'[c] = sold[c] /\ made'[c] = made[c]
      BY <2>1, OrderSteps DEF OrderStep, Untouched, Materialized, Refused, Settled, Open
    <3>2. payable'[c] = payable[c]
      BY <2>1, ItemsAreFixed DEF Bookkeeping, CheckoutsKept
    <3> QED
      BY <2>1, <3>1, <3>2 DEF OrderDeliversWhatWasPaid, Delivered, Nothing
  <2>2. CASE intake[c] # "accepted"
    BY <2>2, WhoAccepts, ShippedIsDelivered, PreorderIsDelivered
  <2> QED
    BY <2>1, <2>2
<1> QED
  BY BookkeepingIsKept, FitKept, <1>1, <1>2, PTL DEF Spec

-----------------------------------------------------------------------------
(* Shipments and the units held for others *)

\* Once a checkout's hold has ended, what is held is what the others hold.
LEMMA OnlyOthersHold ==
    ASSUME NEW c \in Checkouts, NEW g \in Goods, ~Active(c)',
           \A x \in Checkouts \ {c} : Active(x)' <=> Active(x),
           UNCHANGED reserve
    PROVE  Reserved(g, Checkouts)' = Reserved(g, Others(c))
<1>1. HeldUnits(g, Checkouts)' = HeldUnits(g, Others(c))
  BY DEF HeldUnits, Others
<1> QED
  BY <1>1 DEF Reserved

(***************************************************************************)
(* No shipment takes a unit that is held for another checkout, in any      *)
(* interleaving of clerks, sales and reservations (_make_physical_sale).   *)
(***************************************************************************)
THEOREM ShipmentsSpareHolds == Spec => ShipmentSparesOtherHolds
<1>1. Bookkeeping /\ [Next]_vars =>
         [\A c \in Checkouts, g \in Goods : sold'[c][g] > sold[c][g] =>
             Reserved(g, Checkouts)' <= stock'[g]]_vars
  <2> SUFFICES ASSUME Bookkeeping, [Next]_vars, NEW c \in Checkouts, NEW g \in Goods,
                      sold'[c][g] > sold[c][g]
               PROVE  Reserved(g, Checkouts)' <= stock'[g]
    OBVIOUS
  <2>1. sold[c][g] \in Nat /\ stock[g] \in Int
    BY ConstantsAssumption DEF Bookkeeping, TypeOK, OrdersTyped, ShelfTyped, Baskets
  <2>2. sold'[c] # sold[c]
    BY <2>1
  <2>3. ~AcceptPreorder(c)
    BY <2>2 DEF AcceptPreorder
  <2>4. PICK k \in Clerks : /\ accepting[k] # NotAccepting
                            /\ accepting[k].checkout = c
                            /\ Shipped(c, accepting[k].take, accepting[k].split)
    BY <2>2, <2>3, WhoAccepts
  <2>5. PICK take \in Baskets : take = accepting[k].take
    BY <2>4, AcceptanceIsTyped
  <2>6. /\ take[g] \in Nat
        /\ sold'[c][g] = take[g]
        /\ stock'[g] = stock[g] - take[g]
        /\ take[g] > 0 => take[g] <= Available(g, Others(c))
    BY <2>4, <2>5, ConstantsAssumption
       DEF Shipped, Enough, Bookkeeping, TypeOK, OrdersTyped, Baskets
  <2>7. /\ released'[c] /\ \A x \in Checkouts \ {c} : released'[x] = released[x]
        /\ UNCHANGED <<now, status, expires, reserve>>
    BY <2>4 DEF Shipped, Bookkeeping, TypeOK, SessionsTyped
  <2>8. Reserved(g, Checkouts)' = Reserved(g, Others(c))
    BY <2>7, OnlyOthersHold DEF Active
  <2>9. Reserved(g, Others(c)) \in Nat
    BY ReservedIsNatural DEF Others
  <2> QED
    BY <2>1, <2>6, <2>8, <2>9 DEF Available
<1> QED
  BY BookkeepingIsKept, <1>1, PTL DEF Spec, ShipmentSparesOtherHolds

-----------------------------------------------------------------------------
(* Paid checkouts without an order *)

\* Materializing moves the money to the order or the checkout to review.
LEMMA MaterializingKeepsRecoverable ==
    ASSUME Bookkeeping, PaidCheckoutIsRecoverable, NEW c \in Checkouts, NEW funds,
           Verdict(c, funds)
    PROVE  PaidCheckoutIsRecoverable'
<1>1. /\ \A x \in Checkouts \ {c} : status'[x] = status[x] /\ paid'[x] = paid[x]
      /\ status'[c] = "paid_review" \/ paid'[c] = 0
  BY DEF Verdict, SendToReview, CreateIntake, Bookkeeping, TypeOK, SessionsTyped, MoneyTyped
<1> QED
  BY <1>1, ConstantsAssumption DEF PaidCheckoutIsRecoverable

\* Steps that change neither money nor status keep it too.
LEMMA RecoverableUnchanged ==
    ASSUME PaidCheckoutIsRecoverable, UNCHANGED <<status, paid>>
    PROVE  PaidCheckoutIsRecoverable'
BY DEF PaidCheckoutIsRecoverable

\* One case for each way a checkout's money or status moves.
LEMMA RecoverableKept ==
    ASSUME Pollers = {}
    PROVE  Bookkeeping /\ PaidCheckoutIsRecoverable /\ [Next]_vars => PaidCheckoutIsRecoverable'
<1> SUFFICES ASSUME Bookkeeping, PaidCheckoutIsRecoverable, [Next]_vars
             PROVE  PaidCheckoutIsRecoverable'
  OBVIOUS
<1>1. CASE UNCHANGED vars \/ Tick \/ ShelfStep
  BY <1>1, RecoverableUnchanged
     DEF vars, session, money, Tick, ShelfStep, CheckSale, CheckAdjustment, TakeFromShelf, Restock
<1>2. ASSUME NEW c \in Checkouts, CheckoutStep(c)
      PROVE  PaidCheckoutIsRecoverable'
  <2>1. CASE \/ CancelUnpaidCheckout(c)
             \/ \E basket \in Baskets, policy \in Policies, fulfil \in {"stock", "preorder"} :
                   CreateCheckout(c, basket, policy, fulfil)
    <3>1. paid[c] # Price
      BY <2>1, ConstantsAssumption
         DEF CancelUnpaidCheckout, CreateCheckout, Bookkeeping, TypeOK, MoneyTyped, CheckoutsKept
    <3>2. /\ UNCHANGED paid
          /\ \E value \in Status : status' = [status EXCEPT ![c] = value]
      BY <2>1 DEF CancelUnpaidCheckout, CreateCheckout, money, Status
    <3> QED
      BY <3>1, <3>2 DEF PaidCheckoutIsRecoverable, Bookkeeping, TypeOK, SessionsTyped
  <2>2. ASSUME NEW amount \in 1 .. Price, ReversePaymentReceipt(c, amount)
        PROVE  PaidCheckoutIsRecoverable'
    <3>1. /\ UNCHANGED status
          /\ paid[c] - amount # Price
          /\ paid' = [paid EXCEPT ![c] = @ - amount] \/ UNCHANGED paid
      BY <2>2, ConstantsAssumption
         DEF ReversePaymentReceipt, session, Bookkeeping, TypeOK, MoneyTyped
    <3> QED
      BY <3>1 DEF PaidCheckoutIsRecoverable, Bookkeeping, TypeOK, MoneyTyped
  <2>3. ASSUME NEW amount \in 1 .. Price, RecordVerifiedPayment(c, amount)
        PROVE  PaidCheckoutIsRecoverable'
    <3>1. CASE /\ paid[c] + amount < Price
               /\ paid' = [paid EXCEPT ![c] = paid[c] + amount]
               /\ UNCHANGED status
      <4>1. paid[c] + amount # Price
        BY <3>1, ConstantsAssumption DEF Bookkeeping, TypeOK, MoneyTyped
      <4> QED
        BY <3>1, <4>1 DEF PaidCheckoutIsRecoverable, Bookkeeping, TypeOK, MoneyTyped
    <3> QED
      BY <2>3, <3>1, AttemptIsVerdict, MaterializingKeepsRecoverable, RecoverableUnchanged
         DEF RecordVerifiedPayment
  <2>4. CASE InitiatePayment(c) \/ AcceptPreorder(c)
    BY <2>4, RecoverableUnchanged DEF InitiatePayment, AcceptPreorder, session, money
  <2> QED
    BY <1>2, <2>1, <2>2, <2>3, <2>4 DEF CheckoutStep
<1>3. CASE RequestStep
  <2>1. ASSUME NEW r \in Reviewers, RecoveryStep(r)
        PROVE  PaidCheckoutIsRecoverable'
    BY <2>1, RecoveryWrites, MaterializingKeepsRecoverable, RecoverableUnchanged
  <2> QED
    BY <1>3, <2>1, RecoverableUnchanged
       DEF RequestStep, RecoveryStep, OpenRecovery, BeginAccept, CommitAccept, session, money
<1> QED
  BY <1>1, <1>2, <1>3 DEF Next

(***************************************************************************)
(* As long as no display writes to a checkout, one that is fully paid and  *)
(* has no order is in review, where staff can still make it one, whatever  *)
(* receipts are reversed and recoveries fail                               *)
(* (attempt_materialize_paid_checkout, checkout_recover).                  *)
(***************************************************************************)
THEOREM PaidCheckoutsAreRecoverable ==
    ASSUME Pollers = {}
    PROVE  Spec => []PaidCheckoutIsRecoverable
<1>1. Init => PaidCheckoutIsRecoverable
  BY ConstantsAssumption DEF Init, PaidCheckoutIsRecoverable
<1> QED
  BY BookkeepingIsKept, RecoverableKept, <1>1, PTL DEF Spec

\* The abstract specification with what is proved of it.
Counting == INSTANCE StockEscrow_proofs WITH
    Holders <- Checkouts,
    onHand <- stock,
    held <- Holding

-----------------------------------------------------------------------------
(* The two ways of counting agree *)

\* The instances of FiniteSets mean the same sets and numbers.
LEMMA SameFiniteness == \A S : IsFiniteSet(S) <=> Counting!IsFiniteSet(S)
BY DEF IsFiniteSet, Counting!IsFiniteSet

\* So do their numbers of elements.
LEMMA SameCounting ==
    ASSUME NEW S
    PROVE  Cardinality(S) = Escrow!Cardinality(S) /\ Cardinality(S) = Counting!Cardinality(S)
BY DEF Cardinality, Escrow!Cardinality, Counting!Cardinality

\* What the checkouts hold is a basket each, as the escrow wants it.
LEMMA HoldingIsTyped ==
    ASSUME TypeOK
    PROVE  Holding \in [Checkouts -> Baskets]
<1>1. Nothing \in Baskets
  BY ConstantsAssumption DEF Baskets, Nothing
<1> QED
  BY <1>1 DEF TypeOK, SessionsTyped, Holding

\* What is reserved for a group of checkouts is what the escrow holds for it.
LEMMA SameHolds ==
    ASSUME TypeOK, NEW g \in Goods, NEW who \in SUBSET Checkouts
    PROVE  Reserved(g, who) = Escrow!Held(g, who) /\ Reserved(g, who) = Counting!Held(g, who)
<1>1. \A c \in Checkouts : \A i \in 1 .. MaxUnits :
         i <= Holding[c][g] <=> Active(c) /\ i <= reserve[c][g]
  BY ConstantsAssumption DEF Holding, Nothing
<1>2. HeldUnits(g, who) = Escrow!UnitsIn(Holding, g, who)
  BY <1>1 DEF HeldUnits, Escrow!UnitsIn
<1>3. HeldUnits(g, who) = Counting!UnitsIn(Holding, g, who)
  BY <1>1 DEF HeldUnits, Counting!UnitsIn
<1> QED
  BY <1>2, <1>3, SameCounting DEF Reserved, Escrow!Held, Counting!Held

\* The clock and the instants it is compared with are numbers.
LEMMA ClockIsTyped ==
    ASSUME Bookkeeping
    PROVE  now \in Nat /\ \A c \in Checkouts : expires[c] \in Nat
<1>1. now \in Nat
  BY ConstantsAssumption DEF Bookkeeping, TypeOK, ShelfTyped
<1>2. \A c \in Checkouts : expires[c] \in Nat
  BY DEF Bookkeeping, TypeOK, SessionsTyped
<1> QED
  BY <1>1, <1>2

-----------------------------------------------------------------------------
(* Steps that take no new hold *)

\* Some holds end, the shelf stays: holds lapse.
LEMMA HoldsLapse ==
    ASSUME UNCHANGED <<stock, reserve>>, \A c \in Checkouts : Active(c)' => Active(c)
    PROVE  Escrow!Next
<1> DEFINE who == {c \in Checkouts : ~Active(c)'}
<1>1. Holding' = [c \in Checkouts |-> IF c \in who THEN Nothing ELSE Holding[c]]
  BY DEF Holding
<1>2. Escrow!Lapse(who)
  BY <1>1 DEF Escrow!Lapse, Escrow!Nothing, Nothing
<1>3. who \in SUBSET Checkouts
  OBVIOUS
<1> QED
  BY <1>2, <1>3 DEF Escrow!Next

\* Materializing a checkout that is past or in time takes no hold it lost.
LEMMA MaterializingTakesNoHold ==
    ASSUME Bookkeeping, NEW c \in Checkouts, NEW funds, Verdict(c, funds),
           intake'[c] # intake[c] => ~Late(c) \/ status[c] # "awaiting_payment",
           status[c] # "none", UNCHANGED <<now, expires>>
    PROVE  \A x \in Checkouts : Active(x)' => Active(x)
<1>1. CASE /\ status' = [status EXCEPT ![c] = "paid_review"]
           /\ released' = [released EXCEPT ![c] = TRUE]
  BY <1>1 DEF Bookkeeping, TypeOK, SessionsTyped, Active
<1>2. CASE /\ status' = [status EXCEPT ![c] = "materialized"]
           /\ UNCHANGED released
           /\ ~Late(c) \/ status[c] # "awaiting_payment"
  <2>1. ~Late(c) => expires[c] > now
    BY ClockIsTyped DEF Late
  <2>2. ~released[c] => status[c] \in {"awaiting_payment", "materialized"}
    BY DEF Bookkeeping, TypeOK, SessionsTyped, CheckoutsKept, Status
  <2>3. ~released[c] => Active(c)
    BY <1>2, <2>1, <2>2 DEF Active
  <2> QED
    BY <1>2, <2>3 DEF Bookkeeping, TypeOK, SessionsTyped, Active
<1>3. CreateIntake(c, funds) /\ intake[c] = "none" => intake'[c] # intake[c]
  BY DEF CreateIntake, Bookkeeping, TypeOK, OrdersTyped
<1> QED
  BY <1>1, <1>2, <1>3 DEF Verdict, SendToReview, CreateIntake

\* Nor does any step of requests and payments that leaves the shelf alone.
QuietStep ==
    \/ UNCHANGED vars
    \/ Tick
    \/ \E c \in Checkouts :
          \/ CancelUnpaidCheckout(c) \/ InitiatePayment(c) \/ AcceptPreorder(c)
          \/ \E amount \in 1 .. Price : ReversePaymentReceipt(c, amount)
          \/ \E p \in Pollers : ReadForDisplay(p, c)
          \/ \E r \in Reviewers : OpenRecovery(r, c)
          \/ \E k \in Clerks, policy \in Policies : BeginAccept(k, c, policy)
    \/ \E p \in Pollers : ExpireIfNeeded(p)

LEMMA QuietStepsTakeNoHold ==
    ASSUME Bookkeeping, QuietStep
    PROVE  UNCHANGED <<stock, reserve>> /\ \A x \in Checkouts : Active(x)' => Active(x)
<1>1. UNCHANGED <<stock, reserve>>
  BY DEF QuietStep, vars, session, Tick, CancelUnpaidCheckout, InitiatePayment, AcceptPreorder,
         ReversePaymentReceipt, ReadForDisplay, OpenRecovery, BeginAccept, ExpireIfNeeded
<1>2. CASE Tick
  <2>1. UNCHANGED <<status, expires, released>> /\ now' = now + 1
    BY <1>2 DEF Tick, session
  <2> QED
    BY <1>1, <2>1, ClockIsTyped DEF Active
<1>3. CASE UNCHANGED <<now, status, expires, released>>
  BY <1>1, <1>3 DEF Active
<1>4. ASSUME NEW c \in Checkouts,
             \/ CancelUnpaidCheckout(c)
             \/ AcceptPreorder(c)
             \/ \E p \in Pollers : ExpireIfNeeded(p)
      PROVE  \A x \in Checkouts : Active(x)' => Active(x)
  <2>1. UNCHANGED <<now, expires>>
    BY <1>4 DEF CancelUnpaidCheckout, AcceptPreorder, ExpireIfNeeded
  <2>2. \A x \in Checkouts :
           \/ released'[x]
           \/ status'[x] = status[x] /\ released'[x] = released[x]
    BY <1>4 DEF CancelUnpaidCheckout, AcceptPreorder, Settle, ExpireIfNeeded, Bookkeeping,
                TypeOK, SessionsTyped, RequestsTyped
  <2> QED
    BY <2>1, <2>2 DEF Active
<1>5. ASSUME NEW p \in Pollers, ExpireIfNeeded(p)
      PROVE  \E c \in Checkouts : TRUE
  BY <1>5 DEF ExpireIfNeeded, Bookkeeping, TypeOK, RequestsTyped
<1> QED
  BY <1>1, <1>2, <1>3, <1>4, <1>5
     DEF QuietStep, vars, session, InitiatePayment, ReversePaymentReceipt, ReadForDisplay,
         OpenRecovery, BeginAccept

\* Nor do verified payments and recoveries.
PayingStep ==
    \/ \E c \in Checkouts, amount \in 1 .. Price : RecordVerifiedPayment(c, amount)
    \/ \E r \in Reviewers : RecoveryStep(r)

LEMMA PayingStepsTakeNoHold ==
    ASSUME Bookkeeping, PayingStep
    PROVE  UNCHANGED <<stock, reserve>> /\ \A x \in Checkouts : Active(x)' => Active(x)
<1>1. UNCHANGED <<stock, reserve, now, expires>>
  BY RecoveryWrites DEF PayingStep, RecordVerifiedPayment
<1>2. CASE UNCHANGED <<status, released>>
  BY <1>1, <1>2 DEF Active
<1>3. ASSUME NEW c \in Checkouts, NEW amount \in 1 .. Price, RecordVerifiedPayment(c, amount),
             intake[c] = "none", AttemptMaterialize(c, paid[c] + amount)
      PROVE  \A x \in Checkouts : Active(x)' => Active(x)
  <2>1. status[c] # "none"
    BY <1>3 DEF RecordVerifiedPayment, Bookkeeping, CheckoutsKept
  <2>2. intake'[c] # intake[c] => ~Late(c)
    BY <1>3 DEF AttemptMaterialize, SendToReview
  <2>3. Verdict(c, paid[c] + amount)
    BY <1>3, AttemptIsVerdict
  <2> QED
    BY <1>1, <2>1, <2>2, <2>3, MaterializingTakesNoHold
<1>4. ASSUME NEW r \in Reviewers, RecoveryStep(r)
      PROVE  \A x \in Checkouts : Active(x)' => Active(x)
  BY <1>1, <1>2, <1>4, RecoveryWrites, MaterializingTakesNoHold
<1> QED
  BY <1>1, <1>2, <1>3, <1>4 DEF PayingStep, RecordVerifiedPayment

-----------------------------------------------------------------------------
(* Steps that take, ship or bring units *)

\* A checkout reserves what nobody holds, under the goods' locks.
LEMMA CreatingReserves ==
    ASSUME Bookkeeping, NEW c \in Checkouts, NEW basket \in Baskets, NEW policy \in Policies,
           NEW fulfil \in {"stock", "preorder"}, CreateCheckout(c, basket, policy, fulfil)
    PROVE  Escrow!Next
<1> DEFINE inStock(g) == Lesser(basket[g], Available(g, Checkouts))
           units == [g \in Goods |-> IF fulfil = "stock" THEN inStock(g) ELSE 0]
<1>1. /\ status[c] = "none"
      /\ status' = [status EXCEPT ![c] = "awaiting_payment"]
      /\ expires' = [expires EXCEPT ![c] = now + Lifetime]
      /\ reserve' = [reserve EXCEPT ![c] = units]
      /\ UNCHANGED <<now, stock, released>>
  BY DEF CreateCheckout
<1>2. \A g \in Goods : units[g] \in 0 .. MaxUnits /\ units[g] <= Available(g, Checkouts)
  <2>1. \A g \in Goods : /\ inStock(g) \in 0 .. MaxUnits
                         /\ inStock(g) <= Available(g, Checkouts)
                         /\ Available(g, Checkouts) \in Nat
    BY AvailableIsNatural, LesserIsBounded DEF Bookkeeping, Baskets
  <2> QED
    BY <2>1, ConstantsAssumption
<1>3. units \in Baskets
  BY <1>2 DEF Baskets
<1> HIDE DEF units
<1>4. ~released[c] /\ Holding[c] = Nothing
  BY <1>1 DEF Bookkeeping, CheckoutsKept, Holding, Active
<1>5. Active(c)'
  <2>1. expires'[c] > now'
    <3>1. expires'[c] = now + Lifetime /\ now' = now
      BY <1>1 DEF Bookkeeping, TypeOK, SessionsTyped
    <3> QED
      BY <3>1, ClockIsTyped, ConstantsAssumption
  <2> QED
    BY <1>1, <1>4, <2>1 DEF Active, Bookkeeping, TypeOK, SessionsTyped
<1>6. \A x \in Checkouts \ {c} : (Active(x)' <=> Active(x)) /\ reserve'[x] = reserve[x]
  BY <1>1 DEF Active, Bookkeeping, TypeOK, SessionsTyped
<1>7. reserve'[c] = units
  BY <1>1 DEF Bookkeeping, TypeOK, SessionsTyped
<1>8. Holding' = [Holding EXCEPT ![c] = units]
  BY <1>5, <1>6, <1>7 DEF Holding
<1>9. \A g \in Goods : units[g] > 0 => units[g] + Escrow!Held(g, Checkouts) <= stock[g]
  <2> SUFFICES ASSUME NEW g \in Goods, units[g] > 0
               PROVE  units[g] + Reserved(g, Checkouts) <= stock[g]
    BY SameHolds DEF Bookkeeping
  <2>1. units[g] \in Nat /\ stock[g] \in Int /\ Reserved(g, Checkouts) \in Nat
    BY <1>2, ReservedIsNatural, ConstantsAssumption DEF Bookkeeping, TypeOK, ShelfTyped
  <2> QED
    BY <1>2, <2>1 DEF Available
<1>10. Escrow!Reserve(c, units)
  BY <1>1, <1>4, <1>8, <1>9 DEF Escrow!Reserve, Escrow!Nothing, Nothing
<1> QED
  BY <1>3, <1>10 DEF Escrow!Next, Escrow!Baskets, Baskets

\* An acceptance ships what the others do not hold.
LEMMA AcceptingShips ==
    ASSUME Bookkeeping, NEW k \in Clerks, CommitAccept(k)
    PROVE  Escrow!Next
<1>1. /\ accepting[k] # NotAccepting
      /\ UNCHANGED <<now, status, expires, reserve>>
  BY DEF CommitAccept
<1>2. PICK c \in Checkouts, take \in Baskets :
         c = accepting[k].checkout /\ take = accepting[k].take
  BY <1>1 DEF Bookkeeping, TypeOK, RequestsTyped, Acceptances
<1>3. CASE UNCHANGED <<stock, released, order>>
  BY <1>1, <1>3, HoldsLapse DEF Active
<1>4. CASE /\ Enough(c, take)
           /\ stock' = [g \in Goods |-> stock[g] - take[g]]
           /\ released' = [released EXCEPT ![c] = TRUE]
  <2>1. released'[c] /\ \A x \in Checkouts \ {c} : released'[x] = released[x]
    BY <1>2, <1>4 DEF Bookkeeping, TypeOK, SessionsTyped
  <2>2. ~Active(c)' /\ \A x \in Checkouts \ {c} : Active(x)' <=> Active(x)
    BY <1>1, <2>1 DEF Active
  <2>3. Holding' = [Holding EXCEPT ![c] = Nothing]
    BY <1>1, <2>2 DEF Holding
  <2>4. \A g \in Goods :
           take[g] > 0 => take[g] + Escrow!Held(g, Checkouts \ {c}) <= stock[g]
    <3> SUFFICES ASSUME NEW g \in Goods, take[g] > 0
                 PROVE  take[g] + Reserved(g, Others(c)) <= stock[g]
      BY SameHolds DEF Bookkeeping, Others
    <3>1. take[g] \in Nat /\ stock[g] \in Int /\ Reserved(g, Others(c)) \in Nat
      BY <1>2, ReservedIsNatural, ConstantsAssumption
         DEF Bookkeeping, TypeOK, ShelfTyped, Baskets, Others
    <3> QED
      BY <1>4, <3>1 DEF Enough, Available
  <2>5. Escrow!Ship(c, take)
    BY <1>4, <2>3, <2>4 DEF Escrow!Ship, Escrow!Nothing, Nothing
  <2> QED
    BY <1>2, <2>5 DEF Escrow!Next, Escrow!Baskets, Baskets
<1> QED
  BY <1>2, <1>3, <1>4 DEF CommitAccept, Settle

\* Restocking is a delivery.
LEMMA RestockingDelivers ==
    ASSUME NEW g \in Goods, NEW units \in 1 .. MaxStock, Restock(g, units)
    PROVE  Escrow!Next
<1>1. UNCHANGED Holding
  BY DEF Restock, session, Holding, Active
<1>2. Escrow!Deliver(g, units)
  BY <1>1 DEF Restock, Escrow!Deliver
<1> QED
  BY <1>2 DEF Escrow!Next

-----------------------------------------------------------------------------
(* The escrow *)

(***************************************************************************)
(* If only checkouts take from the shelf, every step of the checkouts, of  *)
(* their payments, displays, recoveries and acceptances is a reservation,  *)
(* lapse, shipment or delivery of the escrow, or none of its business.     *)
(***************************************************************************)
THEOREM CheckoutsImplementEscrow ==
    ASSUME ShelfUsers = {}
    PROVE  Spec => EscrowKept
<1>1. Init => Escrow!Init
  <2> SUFFICES ASSUME Init PROVE Escrow!Init
    OBVIOUS
  <2>1. Holding = [c \in Checkouts |-> Nothing]
    BY DEF Init, Holding, Active
  <2> QED
    BY <2>1 DEF Init, Escrow!Init, Escrow!Nothing, Nothing
<1>2. Bookkeeping /\ [Next]_vars => [Escrow!Next]_(Escrow!vars)
  <2> SUFFICES ASSUME Bookkeeping, [Next]_vars PROVE Escrow!Next
    OBVIOUS
  <2>1. CASE QuietStep \/ PayingStep
    BY <2>1, QuietStepsTakeNoHold, PayingStepsTakeNoHold, HoldsLapse
  <2>2. CASE \E c \in Checkouts : CheckoutStep(c)
    BY <2>1, <2>2, CreatingReserves DEF CheckoutStep, QuietStep, PayingStep
  <2>3. CASE RequestStep
    BY <2>1, <2>3, AcceptingShips DEF RequestStep, RecoveryStep, QuietStep, PayingStep
  <2>4. CASE ShelfStep
    BY <2>4, RestockingDelivers DEF ShelfStep
  <2> QED
    BY <2>1, <2>2, <2>3, <2>4 DEF Next, QuietStep
<1> QED
  BY BookkeepingIsKept, <1>1, <1>2, PTL DEF Spec, EscrowKept, Escrow!Spec

(***************************************************************************)
(* Every unit held for a customer is on the shelf, for any number of       *)
(* checkouts, displays, reviewers and clerks: the escrow's own theorem,    *)
(* carried over (reserved_stock_for_good, create_checkout, accept_intake). *)
(***************************************************************************)
THEOREM HeldUnitsAreOnTheShelf ==
    ASSUME ShelfUsers = {}
    PROVE  Spec => []HoldsCovered
<1>1. EscrowKept => Counting!Spec
  <2>1. Escrow!Init <=> Counting!Init
    BY DEF Escrow!Init, Counting!Init, Escrow!Nothing, Counting!Nothing
  <2>2. \A g, who : Escrow!Held(g, who) = Counting!Held(g, who)
    BY SameCounting
       DEF Escrow!Held, Counting!Held, Escrow!UnitsIn, Counting!UnitsIn
  <2>3. [Escrow!Next]_(Escrow!vars) <=> [Counting!Next]_(Counting!vars)
    BY <2>2 DEF Escrow!Next, Counting!Next, Escrow!vars, Counting!vars,
       Escrow!Baskets, Counting!Baskets, Escrow!Nothing, Counting!Nothing,
       Escrow!Reserve, Counting!Reserve, Escrow!Lapse, Counting!Lapse,
       Escrow!Ship, Counting!Ship, Escrow!Deliver, Counting!Deliver
  <2> QED
    BY <2>1, <2>3, PTL DEF EscrowKept, Escrow!Spec, Counting!Spec
<1>2. Counting!Spec => [](Counting!TypeOK /\ Counting!HoldsCovered)
  BY Counting!EscrowIsCovered, SameFiniteness, ConstantsAssumption
<1>3. Bookkeeping /\ Counting!TypeOK /\ Counting!HoldsCovered => HoldsCovered
  BY SameHolds DEF Bookkeeping, HoldsCovered, Counting!HoldsCovered
<1> QED
  BY CheckoutsImplementEscrow, BookkeepingIsKept, <1>1, <1>2, <1>3, PTL

-----------------------------------------------------------------------------
(* What a hold is worth on such a shelf *)

\* The units a checkout holds can be allocated to it beside everybody else's.
LEMMA HeldIsAvailable ==
    ASSUME Bookkeeping, HoldsCovered, NEW c \in Checkouts, Active(c), NEW g \in Goods
    PROVE  reserve[c][g] <= Available(g, Others(c))
<1>1. Holding \in [Checkouts -> Baskets] /\ Holding[c] = reserve[c]
  BY HoldingIsTyped DEF Holding, Bookkeeping
<1>2. Counting!Held(g, Checkouts) = Holding[c][g] + Counting!Held(g, Checkouts \ {c})
  BY <1>1, Counting!HeldSplits, SameFiniteness, ConstantsAssumption
     DEF Counting!Held, Baskets, Counting!Baskets
<1>3. Reserved(g, Checkouts) = reserve[c][g] + Reserved(g, Others(c))
  BY <1>1, <1>2, SameHolds DEF Bookkeeping, Others
<1>4. /\ reserve[c][g] \in Nat /\ stock[g] \in Int
      /\ Reserved(g, Others(c)) \in Nat
      /\ Reserved(g, Checkouts) <= stock[g]
  BY BasketsCount, ReservedIsNatural
     DEF Bookkeeping, TypeOK, SessionsTyped, ShelfTyped, HoldsCovered, Others
<1> QED
  BY <1>3, <1>4 DEF Available

\* A hold, once ended, does not come back.
LEMMA HoldsDoNotReturn ==
    ASSUME Bookkeeping, [Next]_vars, NEW c \in Checkouts, status[c] # "none", Active(c)'
    PROVE  Active(c)
<1>1. CASE QuietStep \/ PayingStep
  BY <1>1, QuietStepsTakeNoHold, PayingStepsTakeNoHold
<1>2. ASSUME NEW x \in Checkouts, NEW basket \in Baskets, NEW policy \in Policies,
             NEW fulfil \in {"stock", "preorder"}, CreateCheckout(x, basket, policy, fulfil)
      PROVE  Active(c)
  <2>1. /\ status[x] = "none"
        /\ status' = [status EXCEPT ![x] = "awaiting_payment"]
        /\ expires' = [expires EXCEPT ![x] = now + Lifetime]
        /\ UNCHANGED <<now, released>>
    BY <1>2 DEF CreateCheckout
  <2> QED
    BY <2>1 DEF Active, Bookkeeping, TypeOK, SessionsTyped
<1>3. ASSUME NEW k \in Clerks, CommitAccept(k)
      PROVE  Active(c)
  <2>1. /\ UNCHANGED <<now, status, expires>>
        /\ \/ UNCHANGED released
           \/ \E x \in Checkouts : released' = [released EXCEPT ![x] = TRUE]
    BY <1>3, AcceptanceIsTyped DEF CommitAccept, Settle
  <2> QED
    BY <2>1 DEF Active, Bookkeeping, TypeOK, SessionsTyped
<1>4. CASE ShelfStep
  BY <1>4 DEF ShelfStep, CheckSale, CheckAdjustment, TakeFromShelf, Restock, session, Active
<1>5. CASE \E x \in Checkouts : CheckoutStep(x)
  BY <1>1, <1>2, <1>5 DEF CheckoutStep, QuietStep, PayingStep
<1>6. CASE RequestStep
  BY <1>1, <1>3, <1>6 DEF RequestStep, RecoveryStep, QuietStep, PayingStep
<1> QED
  BY <1>1, <1>4, <1>5, <1>6 DEF Next, QuietStep

\* A clerk at work on a checkout that still holds units is taking all of them.
AcceptancesHonourHolds ==
    \A k \in Clerks : accepting[k] # NotAccepting /\ Active(accepting[k].checkout) =>
       \A g \in Goods : reserve[accepting[k].checkout][g] <= accepting[k].take[g]

LEMMA HonourKept ==
    Bookkeeping /\ HoldsCovered /\ AcceptancesHonourHolds /\ [Next]_vars =>
       AcceptancesHonourHolds'
<1> SUFFICES ASSUME Bookkeeping, HoldsCovered, AcceptancesHonourHolds, [Next]_vars,
                    NEW k \in Clerks, accepting'[k] # NotAccepting,
                    Active(accepting[k].checkout)', NEW g \in Goods
             PROVE  reserve'[accepting'[k].checkout][g] <= accepting'[k].take[g]
  BY DEF AcceptancesHonourHolds
<1>1. CASE accepting'[k] = accepting[k]
  <2>1. PICK c \in Checkouts : c = accepting[k].checkout /\ status[c] # "none"
    BY <1>1, AcceptanceIsTyped
  <2>2. Active(c)'
    BY <1>1, <2>1 DEF Active
  <2>3. Active(c) /\ reserve'[c] = reserve[c]
    BY <2>1, <2>2, HoldsDoNotReturn, ItemsAreFixed
  <2> QED
    BY <1>1, <2>1, <2>3 DEF AcceptancesHonourHolds
<1>2. ASSUME NEW c \in Checkouts, NEW policy \in Policies,
             BeginAccept(k, c, policy), accepting'[k].checkout = c
      PROVE  reserve'[accepting'[k].checkout][g] <= accepting'[k].take[g]
  <2>1. /\ UNCHANGED <<now, status, expires, released, reserve>>
        /\ accepting[k] = NotAccepting
    BY <1>2 DEF BeginAccept, session
  <2>2. Active(c)
    BY <1>2, <2>1 DEF Active
  <2>3. accepting'[k].take[g] = Lesser(payable[c][g], Available(g, Others(c)))
    <3> DEFINE take == [x \in Goods |-> Lesser(payable[c][x], Available(x, Others(c)))]
    <3>1. \E split : accepting' =
             [accepting EXCEPT ![k] = [checkout |-> c, take |-> take, split |-> split]]
      BY <1>2, <2>1 DEF BeginAccept
    <3>2. accepting'[k].take = take
      BY <3>1 DEF Bookkeeping, TypeOK, RequestsTyped
    <3> QED
      BY <3>2
  <2>4. reserve[c][g] <= Available(g, Others(c)) /\ reserve[c][g] <= payable[c][g]
    BY <2>2, HeldIsAvailable DEF Bookkeeping, CheckoutsKept
  <2> QED
    BY <1>2, <2>1, <2>3, <2>4 DEF Lesser
<1> QED
  BY <1>1, <1>2, WhoBegins

(***************************************************************************)
(* An order accepted from stock while its hold stands ships at least what  *)
(* was reserved, although the clerk's quantities are computed before the   *)
(* goods are locked (accept_intake).                                       *)
(***************************************************************************)
THEOREM HeldOrdersShip ==
    ASSUME ShelfUsers = {}
    PROVE  Spec => HeldOrderShipsReservedUnits
<1>1. Init => AcceptancesHonourHolds
  BY DEF Init, AcceptancesHonourHolds
<1>2. Bookkeeping /\ AcceptancesHonourHolds /\ [Next]_vars =>
         [\A c \in Checkouts :
             Active(c) /\ intake[c] \in Open /\ intake'[c] = "accepted" /\ mode'[c] = "stock"
             => \A g \in Goods : sold'[c][g] >= reserve[c][g]]_vars
  <2> SUFFICES ASSUME Bookkeeping, AcceptancesHonourHolds, [Next]_vars, NEW c \in Checkouts,
                      Active(c), intake[c] \in Open, intake'[c] = "accepted",
                      mode'[c] = "stock", NEW g \in Goods
               PROVE  sold'[c][g] >= reserve[c][g]
    OBVIOUS
  <2>1. ~AcceptPreorder(c)
    BY DEF AcceptPreorder, Bookkeeping, TypeOK, SessionsTyped
  <2>2. PICK k \in Clerks : /\ accepting[k] # NotAccepting
                            /\ accepting[k].checkout = c
                            /\ Shipped(c, accepting[k].take, accepting[k].split)
    BY <2>1, WhoAccepts DEF Open
  <2>3. sold'[c] = accepting[k].take
    BY <2>2 DEF Shipped, Bookkeeping, TypeOK, OrdersTyped
  <2>4. accepting[k].take \in Baskets /\ reserve[c] \in Baskets
    BY <2>2, AcceptanceIsTyped DEF Bookkeeping, TypeOK, SessionsTyped
  <2>5. accepting[k].take[g] \in Nat /\ reserve[c][g] \in Nat
    BY <2>4, BasketsCount
  <2>6. reserve[c][g] <= accepting[k].take[g]
    BY <2>2 DEF AcceptancesHonourHolds
  <2> QED
    BY <2>3, <2>5, <2>6
<1> QED
  BY BookkeepingIsKept, HeldUnitsAreOnTheShelf, HonourKept, <1>1, <1>2, PTL
     DEF Spec, HeldOrderShipsReservedUnits

\* Nothing is reported of a checkout before it is paid or ended.
ErrorsKept ==
    \A c \in Checkouts : status[c] \in {"none", "awaiting_payment"} => error[c] = ""

\* A checkout that awaits its payment after a step did, or was not there, before.
LEMMA ErrorsAreKept == Bookkeeping /\ ErrorsKept /\ [Next]_vars => ErrorsKept'
<1> SUFFICES ASSUME Bookkeeping, ErrorsKept, [Next]_vars PROVE ErrorsKept'
  OBVIOUS
<1>1. CASE UNCHANGED <<status, error>>
  BY <1>1 DEF ErrorsKept
<1>2. ASSUME NEW c \in Checkouts, NEW cause, NEW value,
             value \notin {"none", "awaiting_payment"},
             status' = [status EXCEPT ![c] = value],
             error' = [error EXCEPT ![c] = cause] \/ UNCHANGED error
      PROVE  ErrorsKept'
  <2>1. /\ status'[c] \notin {"none", "awaiting_payment"}
        /\ \A x \in Checkouts \ {c} : status'[x] = status[x] /\ error'[x] = error[x]
    BY <1>2 DEF Bookkeeping, TypeOK, SessionsTyped
  <2> QED
    BY <2>1 DEF ErrorsKept
<1>3. ASSUME NEW c \in Checkouts, NEW funds, Verdict(c, funds)
      PROVE  ErrorsKept'
  BY <1>2, <1>3 DEF Verdict, SendToReview, CreateIntake
<1>4. CASE UNCHANGED vars \/ Tick \/ ShelfStep
  BY <1>1, <1>4
     DEF vars, session, Tick, ShelfStep, CheckSale, CheckAdjustment, TakeFromShelf, Restock
<1>5. ASSUME NEW c \in Checkouts, CheckoutStep(c)
      PROVE  ErrorsKept'
  <2>1. ASSUME NEW basket \in Baskets, NEW policy \in Policies,
               NEW fulfil \in {"stock", "preorder"}, CreateCheckout(c, basket, policy, fulfil)
        PROVE  ErrorsKept'
    BY <2>1 DEF CreateCheckout, ErrorsKept, Bookkeeping, TypeOK, SessionsTyped
  <2>2. CASE CancelUnpaidCheckout(c)
    BY <1>2, <2>2 DEF CancelUnpaidCheckout
  <2>3. CASE \E amount \in 1 .. Price : RecordVerifiedPayment(c, amount)
    BY <1>1, <1>3, <2>3, AttemptIsVerdict DEF RecordVerifiedPayment
  <2>4. CASE \/ InitiatePayment(c) \/ AcceptPreorder(c)
             \/ \E amount \in 1 .. Price : ReversePaymentReceipt(c, amount)
    BY <1>1, <2>4 DEF InitiatePayment, AcceptPreorder, ReversePaymentReceipt, session
  <2> QED
    BY <1>5, <2>1, <2>2, <2>3, <2>4 DEF CheckoutStep
<1>6. CASE RequestStep
  <2>1. ASSUME NEW p \in Pollers, ExpireIfNeeded(p) PROVE ErrorsKept'
    <3>1. polling[p] \in Checkouts
      BY <2>1 DEF ExpireIfNeeded, Bookkeeping, TypeOK, RequestsTyped
    <3> QED
      BY <1>1, <1>2, <2>1, <3>1 DEF ExpireIfNeeded
  <2>2. ASSUME NEW r \in Reviewers, RecoveryStep(r) PROVE ErrorsKept'
    BY <1>1, <1>3, <2>2, RecoveryWrites
  <2> QED
    BY <1>1, <1>6, <2>1, <2>2
       DEF RequestStep, RecoveryStep, ReadForDisplay, OpenRecovery, BeginAccept, CommitAccept,
           session
<1> QED
  BY <1>4, <1>5, <1>6 DEF Next

\* Only a materialization that finds the units gone reports a want of stock.
LEMMA WhoReportsStock ==
    ASSUME Bookkeeping, [Next]_vars, NEW c \in Checkouts,
           status[c] = "awaiting_payment", ~Late(c), error[c] = "", error'[c] = "stock"
    PROVE  ~StillCovered(c)
<1>1. ~ UNCHANGED error
  OBVIOUS
<1>2. ASSUME NEW x \in Checkouts, NEW funds, Verdict(x, funds)
      PROVE  x = c /\ ~StillCovered(c)
  <2>1. \E cause \in {"", "late", "stock", "failed"} :
           /\ error' = [error EXCEPT ![x] = cause]
           /\ cause = "stock" => ~StillCovered(x)
    BY <1>2 DEF Verdict, SendToReview, CreateIntake
  <2> QED
    BY <2>1 DEF Bookkeeping, TypeOK, SessionsTyped
<1>3. ASSUME NEW x \in Checkouts, CheckoutStep(x)
      PROVE  ~StillCovered(c)
  <2>1. ~CancelUnpaidCheckout(x)
    BY DEF CancelUnpaidCheckout, Bookkeeping, TypeOK, SessionsTyped
  <2> QED
    BY <1>1, <1>2, <1>3, <2>1, AttemptIsVerdict
       DEF CheckoutStep, CreateCheckout, InitiatePayment, AcceptPreorder,
           ReversePaymentReceipt, RecordVerifiedPayment, session
<1>4. CASE RequestStep
  <2>1. ASSUME NEW r \in Reviewers, RecoveryStep(r) PROVE ~StillCovered(c)
    BY <1>1, <1>2, <2>1, RecoveryWrites
  <2> QED
    BY <1>1, <1>4, <2>1
       DEF RequestStep, RecoveryStep, ExpireIfNeeded, ReadForDisplay, OpenRecovery,
           BeginAccept, CommitAccept, session
<1>5. ~ (UNCHANGED vars \/ Tick \/ ShelfStep)
  BY <1>1
     DEF vars, session, Tick, ShelfStep, CheckSale, CheckAdjustment, TakeFromShelf, Restock
<1> QED
  BY <1>3, <1>4, <1>5 DEF Next

(***************************************************************************)
(* Whoever pays in full while the reservation is valid gets the order, or  *)
(* at worst a review for another reason: the units are there               *)
(* (materialize_paid_checkout, reserved_stock_for_good).                   *)
(***************************************************************************)
THEOREM TimelyPaymentsAreHonoured ==
    ASSUME ShelfUsers = {}
    PROVE  Spec => TimelyPaymentIsHonoured
<1>1. Init => ErrorsKept
  BY DEF Init, ErrorsKept
<1>2. Bookkeeping /\ ErrorsKept /\ HoldsCovered /\ [Next]_vars =>
         [\A c \in Checkouts : status[c] = "awaiting_payment" /\ ~Late(c) =>
             error'[c] # "stock"]_vars
  <2> SUFFICES ASSUME Bookkeeping, ErrorsKept, HoldsCovered, [Next]_vars, NEW c \in Checkouts,
                      status[c] = "awaiting_payment", ~Late(c), error'[c] = "stock"
               PROVE  FALSE
    OBVIOUS
  <2>1. ~StillCovered(c)
    BY WhoReportsStock DEF ErrorsKept
  <2>2. Active(c)
    BY ClockIsTyped DEF Active, Late, Bookkeeping, CheckoutsKept
  <2> QED
    BY <2>1, <2>2, HeldIsAvailable DEF StillCovered
<1> QED
  BY BookkeepingIsKept, HeldUnitsAreOnTheShelf, ErrorsAreKept, <1>1, <1>2, PTL
     DEF Spec, TimelyPaymentIsHonoured
=============================================================================
