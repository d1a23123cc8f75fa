----------------------- MODULE CommercePayments_proofs -----------------------
(***************************************************************************)
(* For any number of payments, requests, workers and staff: a payment is   *)
(* never overpaid, the gateway's money is entered once, an event that was  *)
(* acknowledged has its receipt, what is confirmed is paid, and switching  *)
(* the method of payment touches no money.                                 *)
(***************************************************************************)
EXTENDS CommercePayments, TLAPS, FiniteSetTheorems

-----------------------------------------------------------------------------
(* Counting money *)

\* The money of finitely many receipts can be counted.
LEMMA MoneyIsFinite ==
    ASSUME NEW rs, IsFiniteSet(rs)
    PROVE  IsFiniteSet(LiveUnits(rs)) /\ Cardinality(LiveUnits(rs)) \in Nat
<1>1. IsFiniteSet(1 .. Amount)
  BY PaymentsAssumption, FS_Interval
<1>2. IsFiniteSet(rs \X (1 .. Amount))
  BY <1>1, FS_Product
<1>3. LiveUnits(rs) \in SUBSET (rs \X (1 .. Amount))
  BY DEF LiveUnits
<1>4. IsFiniteSet(LiveUnits(rs))
  BY <1>2, <1>3, FS_Subset
<1> QED
  BY <1>4, FS_CardinalityType

\* What a payment has received is a natural number.
LEMMA PaidIsNatural ==
    ASSUME NEW rs, IsFiniteSet(rs), NEW p
    PROVE  PaidIn(rs, p) \in Nat
<1>1. IsFiniteSet({r \in rs : r.payment = p})
  BY FS_Subset
<1> QED
  BY <1>1, MoneyIsFinite DEF PaidIn

\* A payment without receipts has received nothing.
LEMMA NothingReceived ==
    ASSUME NEW rs, NEW p, {r \in rs : r.payment = p} = {}
    PROVE  PaidIn(rs, p) = 0
<1>1. LiveUnits({}) = {}
  BY DEF LiveUnits
<1> QED
  BY <1>1, FS_EmptySet DEF PaidIn

\* Fewer live units are less money.
LEMMA FewerUnits ==
    ASSUME NEW rs, NEW ts, IsFiniteSet(rs), NEW p,
           LiveUnits({r \in ts : r.payment = p}) \subseteq LiveUnits({r \in rs : r.payment = p})
    PROVE  PaidIn(ts, p) <= PaidIn(rs, p)
<1>1. IsFiniteSet({r \in rs : r.payment = p})
  BY FS_Subset
<1>2. IsFiniteSet(LiveUnits({r \in rs : r.payment = p}))
  BY <1>1, MoneyIsFinite
<1> QED
  BY <1>2, FS_Subset DEF PaidIn

\* A new receipt brings at most its amount, to its payment.
LEMMA ReceiptAdds ==
    ASSUME NEW rs, IsFiniteSet(rs), NEW new \in Receipts
    PROVE  /\ PaidIn(rs \cup {new}, new.payment) <= PaidIn(rs, new.payment) + new.amount
           /\ \A p : p # new.payment => PaidIn(rs \cup {new}, p) = PaidIn(rs, p)
<1> DEFINE p == new.payment
           old == LiveUnits({r \in rs : r.payment = p})
           own == {new} \X (1 .. new.amount)
<1>1. new.amount \in 1 .. Amount /\ new.amount \in Nat /\ ~(1 > new.amount)
  BY PaymentsAssumption DEF Receipts
<1>2. IsFiniteSet(1 .. new.amount) /\ Cardinality(1 .. new.amount) = new.amount
  BY <1>1, FS_Interval
<1>3. IsFiniteSet({new}) /\ Cardinality({new}) = 1
  BY FS_Singleton
<1>4. IsFiniteSet(own) /\ Cardinality(own) = 1 * new.amount
  BY <1>2, <1>3, FS_Product
<1>5. IsFiniteSet(old) /\ Cardinality(old) \in Nat
  <2>1. IsFiniteSet({r \in rs : r.payment = p})
    BY FS_Subset
  <2> QED
    BY <2>1, MoneyIsFinite
<1>6. IsFiniteSet(old \cup own)
      /\ Cardinality(old \cup own) =
            Cardinality(old) + Cardinality(own) - Cardinality(old \cap own)
  BY <1>4, <1>5, FS_Union
<1>7. Cardinality(old \cap own) \in Nat
  <2>1. IsFiniteSet(old \cap own)
    BY <1>5, FS_Subset
  <2> QED
    BY <2>1, FS_CardinalityType
<1>8. LiveUnits({r \in rs \cup {new} : r.payment = p}) \in SUBSET (old \cup own)
  BY <1>1 DEF LiveUnits
<1>9. Cardinality(LiveUnits({r \in rs \cup {new} : r.payment = p})) <= Cardinality(old \cup own)
  BY <1>6, <1>8, FS_Subset
<1>10. IsFiniteSet(LiveUnits({r \in rs \cup {new} : r.payment = p}))
  BY <1>6, <1>8, FS_Subset
<1>11. Cardinality(LiveUnits({r \in rs \cup {new} : r.payment = p})) \in Nat
  BY <1>10, FS_CardinalityType
<1>12. Cardinality(old \cup own) \in Nat
  BY <1>6, FS_CardinalityType
<1>13. PaidIn(rs \cup {new}, p) <= PaidIn(rs, p) + new.amount
  <2>1. Cardinality(own) = new.amount
    BY <1>1, <1>4
  <2> HIDE DEF old, own
  <2>2. Cardinality(old \cup own) <= Cardinality(old) + new.amount
    BY <1>1, <1>5, <1>6, <1>7, <2>1
  <2>3. Cardinality(LiveUnits({r \in rs \cup {new} : r.payment = p})) <= Cardinality(old) + new.amount
    BY <1>1, <1>5, <1>9, <1>11, <1>12, <2>2
  <2> QED
    BY <2>3 DEF PaidIn, old
<1>14. \A q : q # p => PaidIn(rs \cup {new}, q) = PaidIn(rs, q)
  <2>1. SUFFICES ASSUME NEW q, q # p
                 PROVE  PaidIn(rs \cup {new}, q) = PaidIn(rs, q)
    OBVIOUS
  <2>2. {r \in rs \cup {new} : r.payment = q} = {r \in rs : r.payment = q}
    BY <2>1
  <2> QED
    BY <2>2 DEF PaidIn
<1> QED
  BY <1>13, <1>14

-----------------------------------------------------------------------------
(* The inductive invariant *)

AtGateway(p) == method[p] \in {"card", "transfer", "terminal"}

\* Entered without a gateway's event is cash only.
CashByHand == \A r \in receipts : ~FromGateway(r.key) => method[r.payment] = "cash"

\* The references of a payment's gateway receipts are unique.
OneReference ==
    \A r, t \in receipts :
        /\ r.payment = t.payment /\ r.reference = t.reference
        /\ FromGateway(r.key) /\ FromGateway(t.key)
        => r = t

\* A gateway knows and collects only what is paid through it.
ChargesAtGateway ==
    \A p \in Payments :
        link[p] # "none" \/ opened[p] # 0 \/ collected[p] # {} => AtGateway(p)

PagesShowCash ==
    \A s \in Staff : confirming[s] # Idle => method[confirming[s].payment] = "cash"

\* An event that found nothing due found the gateway's receipt.
EventsAreRead ==
    \A w \in Workers : settling[w] # Idle =>
        /\ FromGateway(settling[w].key)
        /\ settling[w].key[1] = "webhook" => settling[w].key[2] \in Charges
        /\ settling[w].owed <= 0 => GatewayReceipts(settling[w].payment) # {}

Books ==
    /\ receipts \subseteq Receipts
    /\ IsFiniteSet(receipts)
    /\ NeverOverpaid
    /\ OneReference
    /\ CashByHand

Inv ==
    /\ CheckoutTyped /\ PaymentsTyped /\ ActorsTyped
    /\ Books
    /\ ChargesAtGateway
    /\ PagesShowCash
    /\ EventsAreRead
    /\ ProcessedIsRecorded

\* A gateway receipt stays in the books, reversed or not.
ReceiptsStay ==
    \A p \in Payments : GatewayReceipts(p) # {} => GatewayReceipts(p)' # {}

\* What a receipt or a reversal makes of the payment and the intake.
RefreshTyped ==
    /\ status' \in [Payments -> Statuses]
    /\ confirmed' \in BOOLEAN
    /\ stage' \in Stages

\* What is due of a payment is a number; nothing is due of a paid payment.
LEMMA BalanceIsNumber ==
    ASSUME Inv, NEW p \in Payments
    PROVE  /\ Balance(p) \in Int
           /\ AtGateway(p) /\ Balance(p) <= 0 => GatewayReceipts(p) # {}
<1>1. Paid(p) \in Nat
  BY PaidIsNatural DEF Paid, Inv, Books
<1>2. Balance(p) \in Int
  BY <1>1, PaymentsAssumption DEF Balance
<1>3. ASSUME AtGateway(p), Balance(p) <= 0
      PROVE  GatewayReceipts(p) # {}
  <2>1. Paid(p) # 0
    BY <1>1, <1>3, PaymentsAssumption DEF Balance
  <2>2. PICK r \in receipts : r.payment = p
    BY <2>1, NothingReceived DEF Paid
  <2>3. FromGateway(r.key)
    BY <1>3, <2>2 DEF Inv, Books, CashByHand, AtGateway
  <2> QED
    BY <2>2, <2>3 DEF GatewayReceipts
<1> QED
  BY <1>2, <1>3

\* The version on a staff page is a number.
LEMMA VersionIsNumber ==
    ASSUME Inv, NEW p \in Payments
    PROVE  Version(p) \in Nat
<1>1. IsFiniteSet(receipts)
  BY DEF Inv, Books
<1>2. IsFiniteSet({r \in receipts : r.payment = p})
      /\ IsFiniteSet({r \in receipts : r.payment = p /\ r.reversed})
  BY <1>1, FS_Subset
<1> QED
  BY <1>2, FS_CardinalityType DEF Version

\* The new status of a payment is one of its statuses.
LEMMA StatusTyped ==
    ASSUME NEW p \in Payments, NEW paid \in Nat
    PROVE  StatusFor(p, paid) \in Statuses
<1>1. CASE paid >= Amount
  BY <1>1, PaymentsAssumption DEF StatusFor, Statuses
<1>2. CASE paid \in 1 .. Amount - 1
  BY <1>2, PaymentsAssumption DEF StatusFor, Statuses
<1>3. CASE paid <= 0
  BY <1>3, PaymentsAssumption DEF StatusFor, Statuses
<1> QED
  BY <1>1, <1>2, <1>3, PaymentsAssumption

\* _refresh_payment leaves values of the right kind.
LEMMA RefreshIsTyped ==
    ASSUME Inv, NEW p \in Payments, IsFiniteSet(receipts'), Refresh(p)
    PROVE  status' \in [Payments -> Statuses] /\ confirmed' \in BOOLEAN
<1>1. PaidIn(receipts', p) \in Nat
  BY PaidIsNatural
<1>2. StatusFor(p, PaidIn(receipts', p)) \in Statuses
  BY <1>1, StatusTyped
<1> QED
  BY <1>2 DEF Refresh, Inv, PaymentsTyped, CheckoutTyped

-----------------------------------------------------------------------------
(* What a receipt and a reversal do to the books *)

\* record_verified_payment, by hand for cash only, keeps the books; what a
\* gateway's event records is in them afterwards.
LEMMA RecordKeepsBooks ==
    ASSUME Inv, NEW p \in Payments, NEW key \in Keys, NEW amount \in Int,
           NEW reference \in Charges \cup {0},
           RecordVerifiedPayment(p, amount, key, reference), method' = method,
           FromGateway(key) \/ method[p] = "cash"
    PROVE  Books' /\ RefreshTyped /\ ReceiptsStay
           /\ (FromGateway(key) => GatewayReceipts(p)' # {})
<1>1. CASE Recorded(p, key) /\ UNCHANGED <<receipts, status, confirmed, stage>>
  <2>1. Books'
    BY <1>1 DEF Inv, Books, NeverOverpaid, Paid, OneReference, CashByHand
  <2>2. RefreshTyped
    BY <1>1 DEF RefreshTyped, Inv, PaymentsTyped, CheckoutTyped
  <2>3. ReceiptsStay /\ (FromGateway(key) => GatewayReceipts(p)' # {})
    BY <1>1 DEF Recorded, ReceiptsStay, GatewayReceipts
  <2> QED
    BY <2>1, <2>2, <2>3
<1>2. CASE ~Recorded(p, key) /\ ~(Recorded(p, key) /\ UNCHANGED <<receipts, status, confirmed, stage>>)
  <2> DEFINE new == [payment |-> p, key |-> key, reference |-> reference,
                     amount |-> amount, reversed |-> FALSE]
  <2>1. /\ CanRecord(p, amount, key, reference)
        /\ receipts' = receipts \cup {new}
        /\ RefreshAndMaterialize(p)
    BY <1>2 DEF RecordVerifiedPayment
  <2>2. Paid(p) \in Nat
    BY PaidIsNatural DEF Paid, Inv, Books
  <2>3. amount > 0 /\ amount <= Amount - Paid(p) /\ amount \in 1 .. Amount
    BY <2>1, <2>2, PaymentsAssumption DEF CanRecord, WithinBalance, Balance
  <2>4. new \in Receipts
    BY <2>3 DEF Receipts
  <2>5. receipts' \subseteq Receipts /\ IsFiniteSet(receipts')
    BY <2>1, <2>4, FS_AddElement DEF Inv, Books
  <2>6. NeverOverpaid'
    <3>1. PaidIn(receipts', p) <= Paid(p) + amount
          /\ \A q : q # p => PaidIn(receipts', q) = Paid(q)
      BY <2>1, <2>4, ReceiptAdds DEF Inv, Books, Paid
    <3>2. PaidIn(receipts', p) \in Nat
      BY <2>5, PaidIsNatural
    <3>3. PaidIn(receipts', p) <= Amount
      BY <2>2, <2>3, <3>1, <3>2, PaymentsAssumption
    <3> QED
      BY <3>1, <3>3 DEF Inv, Books, NeverOverpaid, Paid
  <2>7. OneReference'
    <3>1. FromGateway(key) => \A r \in GatewayReceipts(p) : r.reference # reference
      BY <2>1 DEF CanRecord, ReferenceSettled
    <3>2. FromGateway(key) =>
            \A r \in receipts : r.payment = p /\ r.reference = reference => ~FromGateway(r.key)
      BY <3>1 DEF GatewayReceipts
    <3>3. /\ new.payment = p /\ new.key = key /\ new.reference = reference
          /\ receipts' = receipts \cup {new}
      BY <2>1
    <3> HIDE DEF new
    <3>4. SUFFICES ASSUME NEW r \in receipts \cup {new}, NEW t \in receipts \cup {new},
                          r.payment = t.payment, r.reference = t.reference,
                          FromGateway(r.key), FromGateway(t.key)
                   PROVE  r = t
      BY <3>3 DEF OneReference
    <3>5. CASE r \in receipts /\ t \in receipts
      BY <3>4, <3>5 DEF Inv, Books, OneReference
    <3>6. CASE r = new \/ t = new
      BY <3>2, <3>3, <3>4, <3>6
    <3> QED
      BY <3>5, <3>6
  <2>8. CashByHand'
    BY <2>1 DEF Inv, Books, CashByHand
  <2>9. RefreshTyped
    <3>1. PaidIn(receipts', p) \in Nat
      BY <2>5, PaidIsNatural
    <3>2. CASE Refresh(p) /\ UNCHANGED stage
      BY <2>5, <3>2, RefreshIsTyped DEF RefreshTyped, Inv, CheckoutTyped
    <3>3. CASE status' = [status EXCEPT ![p] = "paid"] /\ AttemptMaterialize
      BY <3>3 DEF RefreshTyped, AttemptMaterialize, Inv, PaymentsTyped, CheckoutTyped,
                  Statuses, Stages
    <3> QED
      BY <2>1, <3>2, <3>3 DEF RefreshAndMaterialize
  <2>10. ReceiptsStay /\ (FromGateway(key) => GatewayReceipts(p)' # {})
    <3>1. ReceiptsStay
      BY <2>1 DEF ReceiptsStay, GatewayReceipts
    <3>2. FromGateway(key) => new \in GatewayReceipts(p)'
      BY <2>1 DEF GatewayReceipts
    <3> QED
      BY <3>1, <3>2
  <2> QED
    BY <2>5, <2>6, <2>7, <2>8, <2>9, <2>10 DEF Books
<1> QED
  BY <1>1, <1>2 DEF RecordVerifiedPayment

\* A reversed receipt stays in the books and counts for nothing.
LEMMA ReversalKeepsBooks ==
    ASSUME Inv, NEW r \in receipts, ReversePaymentReceipt(r)
    PROVE  Books' /\ RefreshTyped /\ ReceiptsStay
<1> DEFINE gone == [r EXCEPT !.reversed = TRUE]
<1>1. receipts' = (receipts \ {r}) \cup {gone} /\ method' = method /\ ~r.reversed
  BY DEF ReversePaymentReceipt
<1>2. r \in Receipts /\ r.payment \in Payments
  BY DEF Inv, Books, Receipts
<1>3. /\ gone \in Receipts /\ gone.payment = r.payment /\ gone.key = r.key /\ gone.reversed
      /\ gone.reference = r.reference
  BY <1>2 DEF Receipts
<1> HIDE DEF gone
<1>4. receipts' \subseteq Receipts
  BY <1>1, <1>3 DEF Inv, Books
<1>5. IsFiniteSet(receipts')
  <2>1. IsFiniteSet(receipts \ {r})
    BY FS_Difference DEF Inv, Books
  <2> QED
    BY <1>1, <2>1, FS_AddElement
<1>6. NeverOverpaid'
  <2>1. SUFFICES ASSUME NEW p \in Payments
                 PROVE  PaidIn(receipts', p) <= Amount
    BY DEF NeverOverpaid, Paid
  <2>2. LiveUnits({t \in receipts' : t.payment = p})
            \subseteq LiveUnits({t \in receipts : t.payment = p})
    BY <1>1, <1>3 DEF LiveUnits
  <2>3. PaidIn(receipts', p) <= PaidIn(receipts, p)
    BY <2>2, FewerUnits DEF Inv, Books
  <2>4. PaidIn(receipts', p) \in Nat /\ PaidIn(receipts, p) \in Nat
    BY <1>5, PaidIsNatural DEF Inv, Books
  <2>5. PaidIn(receipts, p) <= Amount
    BY DEF Inv, Books, NeverOverpaid, Paid
  <2> QED
    BY <2>3, <2>4, <2>5, PaymentsAssumption
<1>7. OneReference'
  BY <1>1, <1>3 DEF Inv, Books, OneReference
<1>8. CashByHand'
  BY <1>1, <1>3 DEF Inv, Books, CashByHand
<1>9. RefreshTyped
  <2>1. CASE Refresh(r.payment) /\ UNCHANGED stage
    BY <1>2, <1>5, <2>1, RefreshIsTyped DEF RefreshTyped, Inv, CheckoutTyped
  <2>2. CASE UndercutsRecovery(r.payment)
    <3>1. StatusFor(r.payment, PaidIn(receipts', r.payment)) \in Statuses
      BY <1>2, <1>5, PaidIsNatural, StatusTyped
    <3> QED
      BY <2>2, <3>1 DEF UndercutsRecovery, RefreshTyped, Stages, Inv, PaymentsTyped
  <2> QED
    BY <2>1, <2>2 DEF ReversePaymentReceipt
<1>10. ReceiptsStay
  <2>1. SUFFICES ASSUME NEW p \in Payments, NEW t \in GatewayReceipts(p)
                 PROVE  GatewayReceipts(p)' # {}
    BY DEF ReceiptsStay
  <2>2. CASE t = r
    BY <1>1, <1>3, <2>1, <2>2 DEF GatewayReceipts
  <2>3. CASE t # r
    BY <1>1, <2>1, <2>3 DEF GatewayReceipts
  <2> QED
    BY <2>2, <2>3
<1> QED
  BY <1>4, <1>5, <1>6, <1>7, <1>8, <1>9, <1>10 DEF Books

-----------------------------------------------------------------------------
(* The invariant is kept *)

\* A method, once chosen, is never changed.
MethodsStay == \A p \in Payments : method[p] # "none" => method'[p] = method[p]

\* Without a receipt or a reversal the books stay as they are.
LEMMA BooksAsTheyAre ==
    ASSUME Inv, receipts' = receipts, MethodsStay
    PROVE  Books' /\ ReceiptsStay
<1>1. NeverOverpaid' /\ OneReference'
  BY DEF Inv, Books, NeverOverpaid, Paid, OneReference
<1>2. CashByHand'
  BY DEF Inv, Books, CashByHand, MethodsStay, Receipts
<1>3. ReceiptsStay
  BY DEF ReceiptsStay, GatewayReceipts
<1> QED
  BY <1>1, <1>2, <1>3 DEF Inv, Books

\* What events and pages have read stays true.
LEMMA ReadingsHold ==
    ASSUME Inv, ReceiptsStay, MethodsStay, UNCHANGED <<acknowledged, ignored, settling, confirming>>
    PROVE  PagesShowCash' /\ EventsAreRead' /\ ProcessedIsRecorded'
<1>1. PagesShowCash'
  <2>1. SUFFICES ASSUME NEW s \in Staff, confirming[s] # Idle
                 PROVE  method'[confirming[s].payment] = "cash"
    BY DEF PagesShowCash
  <2>2. confirming[s].payment \in Payments
    BY <2>1 DEF Inv, ActorsTyped
  <2>3. method[confirming[s].payment] = "cash"
    BY <2>1 DEF Inv, PagesShowCash
  <2> QED
    BY <2>2, <2>3 DEF MethodsStay
<1>2. EventsAreRead'
  <2>1. SUFFICES ASSUME NEW w \in Workers, settling[w] # Idle
                 PROVE  /\ FromGateway(settling[w].key)
                        /\ settling[w].key[1] = "webhook" => settling[w].key[2] \in Charges
                        /\ settling[w].owed <= 0 => GatewayReceipts(settling[w].payment)' # {}
    BY DEF EventsAreRead
  <2>2. settling[w].payment \in Payments
    BY <2>1 DEF Inv, ActorsTyped
  <2> QED
    BY <2>1, <2>2 DEF Inv, EventsAreRead, ReceiptsStay
<1>3. ProcessedIsRecorded'
  BY DEF Inv, ProcessedIsRecorded, ReceiptsStay, MethodsStay
<1> QED
  BY <1>1, <1>2, <1>3

\* The invariant holds at first.
LEMMA InitKept ==
    ASSUME Init
    PROVE  Inv
<1>1. CheckoutTyped
  BY DEF Init, CheckoutTyped, Stages
<1>2. PaymentsTyped
  BY PaymentsAssumption DEF Init, PaymentsTyped, Statuses
<1>3. ActorsTyped
  BY DEF Init, ActorsTyped
<1>4. Books
  <2>1. NeverOverpaid
    BY NothingReceived, PaymentsAssumption DEF Init, NeverOverpaid, Paid
  <2> QED
    BY <2>1, FS_EmptySet DEF Init, Books, OneReference, CashByHand
<1>5. ChargesAtGateway /\ PagesShowCash /\ EventsAreRead /\ ProcessedIsRecorded
  BY DEF Init, ChargesAtGateway, PagesShowCash, EventsAreRead, ProcessedIsRecorded
<1> QED
  BY <1>1, <1>2, <1>3, <1>4, <1>5 DEF Inv

\* Within the bound, a request's charge is one of the charges; cash has none.
LEMMA NextChargeIsCharge ==
    ASSUME Inv, NEW r, NEW p \in Payments, NEW m \in Methods, Proceed(r, p, m)
    PROVE  NextCharge(p, m) \in Charges \cup {0} /\ (m # "cash" => NextCharge(p, m) # 0)
<1>1. NextCharge(p, m) <= MaxCharges
  BY DEF Proceed
<1>2. sent[p] \in Nat
  BY DEF Inv, PaymentsTyped, Charges
<1>3. CASE m = "cash"
  BY <1>3 DEF NextCharge
<1>4. CASE m = "terminal"
  <2>1. NextCharge(p, m) = sent[p] + 1
    BY <1>4 DEF NextCharge
  <2> QED
    BY <1>1, <1>2, <2>1, PaymentsAssumption DEF Charges
<1>5. CASE m \in {"card", "transfer"}
  <2>1. NextCharge(p, m) = 1
    BY <1>5 DEF NextCharge
  <2> QED
    BY <1>1, <2>1, PaymentsAssumption DEF Charges
<1> QED
  BY <1>3, <1>4, <1>5 DEF Methods

\* A request goes on with a payment: what it owes is a number.
LEMMA ProceedIsTyped ==
    ASSUME Inv, NEW r \in Requests, NEW p \in Payments, NEW m \in Methods, Proceed(r, p, m)
    PROVE  /\ requesting' \in [Requests ->
                 [payment : Payments, charge : Charges \cup {0}, owed : Int] \cup {Idle}]
           /\ link' \in [Payments -> {"none", "checkout", "intake"}]
           /\ sent' \in [Payments -> Charges \cup {0}]
           /\ \A q \in Payments : link'[q] # link[q] => q = p /\ m # "cash"
<1>1. Balance(p) \in Int
  BY BalanceIsNumber
<1>2. NextCharge(p, m) \in Charges \cup {0}
  BY NextChargeIsCharge
<1>3. requesting' \in [Requests ->
         [payment : Payments, charge : Charges \cup {0}, owed : Int] \cup {Idle}]
  BY <1>1, <1>2 DEF Proceed, Inv, ActorsTyped
<1>4. Side \in {"none", "checkout", "intake"}
  BY DEF Side
<1>5. sent' \in [Payments -> Charges \cup {0}]
  BY <1>2 DEF Proceed, Inv, PaymentsTyped
<1>6. /\ link' \in [Payments -> {"none", "checkout", "intake"}]
      /\ \A q \in Payments : link'[q] # link[q] => q = p /\ m # "cash"
  BY <1>4 DEF Proceed, Inv, PaymentsTyped
<1> QED
  BY <1>3, <1>5, <1>6

LEMMA StartPaymentKept ==
    ASSUME Inv, NEW r \in Requests, NEW m \in Methods, StartPayment(r, m)
    PROVE  Inv'
<1>1. PICK p \in Payments :
        /\ method[p] = "none"
        /\ method' = [method EXCEPT ![p] = m]
        /\ status' = [q \in Payments |->
              CASE q = p -> IF m = "cash" THEN "pending" ELSE "awaiting_customer"
                [] q # p /\ SwitchedAway(q, m) -> "cancelled"
                [] OTHER -> status[q]]
        /\ Proceed(r, p, m)
  BY DEF StartPayment
<1>2. /\ UNCHANGED <<scene, stage, confirmed, opened, collected, acknowledged, ignored,
                  reconciles>>
      /\ UNCHANGED <<receipts, settling, confirming>>
  BY DEF StartPayment, checkout, events
<1>3. MethodsStay
  BY <1>1 DEF MethodsStay, Inv, PaymentsTyped
<1>4. CheckoutTyped'
  BY <1>2 DEF Inv, CheckoutTyped
<1>5. PaymentsTyped'
  <2>1. status' \in [Payments -> Statuses]
    <3>1. \A q \in Payments : status[q] \in Statuses
      BY DEF Inv, PaymentsTyped
    <3>2. {"pending", "awaiting_customer", "cancelled"} \subseteq Statuses
      BY DEF Statuses
    <3>3. \A q \in Payments :
            (CASE q = p -> IF m = "cash" THEN "pending" ELSE "awaiting_customer"
               [] q # p /\ SwitchedAway(q, m) -> "cancelled"
               [] OTHER -> status[q]) \in Statuses
      BY <3>1, <3>2, Zenon
    <3> QED
      BY <1>1, <3>3, Zenon
  <2> QED
    BY <1>1, <1>2, <2>1, ProceedIsTyped DEF Inv, PaymentsTyped
<1>6. ActorsTyped'
  BY <1>1, <1>2, ProceedIsTyped DEF Inv, ActorsTyped
<1>7. ChargesAtGateway'
  <2>1. \A q \in Payments : link'[q] # link[q] => q = p /\ m # "cash"
    BY <1>1, ProceedIsTyped
  <2> QED
    BY <1>1, <1>2, <2>1 DEF Inv, ChargesAtGateway, AtGateway, PaymentsTyped, Methods
<1>8. Books' /\ PagesShowCash' /\ EventsAreRead' /\ ProcessedIsRecorded'
  BY <1>2, <1>3, BooksAsTheyAre, ReadingsHold
<1> QED
  BY <1>4, <1>5, <1>6, <1>7, <1>8 DEF Inv

LEMMA RepeatPaymentKept ==
    ASSUME Inv, NEW r \in Requests, NEW p \in Payments, RepeatPayment(r, p)
    PROVE  Inv'
<1>1. Proceed(r, p, method[p]) /\ method[p] \in Methods
  BY DEF RepeatPayment, Inv, PaymentsTyped
<1>2. /\ UNCHANGED <<scene, stage, confirmed, method, status, opened, collected>>
      /\ UNCHANGED <<acknowledged, ignored, reconciles, receipts, settling, confirming>>
  BY DEF RepeatPayment, checkout, payment, events
<1>3. MethodsStay
  BY <1>2 DEF MethodsStay
<1>4. CheckoutTyped' /\ PaymentsTyped'
  BY <1>1, <1>2, ProceedIsTyped DEF Inv, CheckoutTyped, PaymentsTyped
<1>5. ActorsTyped'
  BY <1>1, <1>2, ProceedIsTyped DEF Inv, ActorsTyped
<1>6. ChargesAtGateway'
  <2>1. \A q \in Payments : link'[q] # link[q] => q = p /\ method[p] # "cash"
    BY <1>1, ProceedIsTyped
  <2> QED
    BY <1>1, <1>2, <2>1 DEF Inv, ChargesAtGateway, AtGateway, PaymentsTyped, Methods
<1>7. Books' /\ PagesShowCash' /\ EventsAreRead' /\ ProcessedIsRecorded'
  BY <1>2, <1>3, BooksAsTheyAre, ReadingsHold
<1> QED
  BY <1>4, <1>5, <1>6, <1>7 DEF Inv

\* The gateway's answer and a request that fails touch no receipt.
LEMMA RequestAnsweredKept ==
    ASSUME Inv, NEW r \in Requests, GatewayAnswers(r) \/ RequestFails(r)
    PROVE  Inv'
<1>1. /\ UNCHANGED <<scene, stage, confirmed, method, sent, collected, acknowledged, ignored>>
      /\ UNCHANGED <<reconciles, receipts, settling, confirming>>
      /\ Done(r) /\ requesting[r] # Idle
  BY DEF GatewayAnswers, RequestFails, checkout, payment, gateway, events
<1>2. MethodsStay
  BY <1>1 DEF MethodsStay
<1>3. requesting[r].payment \in Payments
  BY <1>1 DEF Inv, ActorsTyped
<1>4. /\ status' \in [Payments -> Statuses]
      /\ opened' \in [Payments -> Charges \cup {0}]
      /\ link' \in [Payments -> {"none", "checkout", "intake"}]
      /\ \A p \in Payments : link'[p] = "none" \/ link'[p] = link[p]
      /\ \A p \in Payments : opened'[p] = opened[p] \/ AtGateway(p)
  <2>1. CASE GatewayAnswers(r)
    <3>1. requesting[r].charge \in Charges \cup {0}
      BY <1>1 DEF Inv, ActorsTyped
    <3> QED
      BY <1>3, <2>1, <3>1 DEF GatewayAnswers, gateway, Statuses, AtGateway, Inv, PaymentsTyped
  <2>2. CASE RequestFails(r)
    BY <1>3, <2>2 DEF RequestFails, payment, Inv, PaymentsTyped
  <2> QED
    BY <2>1, <2>2
<1>5. CheckoutTyped' /\ PaymentsTyped'
  BY <1>1, <1>4 DEF Inv, CheckoutTyped, PaymentsTyped
<1>6. ActorsTyped'
  BY <1>1 DEF Done, Inv, ActorsTyped
<1>7. ChargesAtGateway'
  BY <1>1, <1>4 DEF Inv, ChargesAtGateway, AtGateway
<1>8. Books' /\ PagesShowCash' /\ EventsAreRead' /\ ProcessedIsRecorded'
  BY <1>1, <1>2, BooksAsTheyAre, ReadingsHold
<1> QED
  BY <1>5, <1>6, <1>7, <1>8 DEF Inv

LEMMA RecordPosCashKept ==
    ASSUME Inv, NEW r \in Requests, RecordPosCash(r)
    PROVE  Inv'
<1> DEFINE p == requesting[r].payment
           amount == requesting[r].owed
           key == <<"pos", 0>>
<1>1. /\ requesting[r] # Idle /\ method[p] = "cash" /\ Done(r)
      /\ \/ RecordVerifiedPayment(p, amount, key, 0)
         \/ UNCHANGED <<receipts, status, confirmed, stage>>
      /\ UNCHANGED <<scene, method, opened, link, sent, collected, acknowledged, ignored>>
      /\ UNCHANGED <<reconciles, settling, confirming>>
  BY DEF RecordPosCash, gateway, events
<1>2. p \in Payments /\ amount \in Int /\ key \in Keys /\ ~FromGateway(key)
  BY <1>1 DEF Inv, ActorsTyped, Keys, FromGateway
<1> HIDE DEF p, amount, key
<1>3. MethodsStay
  BY <1>1 DEF MethodsStay
<1>4. Books' /\ RefreshTyped /\ ReceiptsStay
  <2>1. CASE RecordVerifiedPayment(p, amount, key, 0)
    BY <1>1, <1>2, <2>1, RecordKeepsBooks
  <2>2. CASE UNCHANGED <<receipts, status, confirmed, stage>>
    BY <1>3, <2>2, BooksAsTheyAre DEF RefreshTyped, Inv, PaymentsTyped, CheckoutTyped
  <2> QED
    BY <1>1, <2>1, <2>2
<1>5. CheckoutTyped' /\ PaymentsTyped'
  BY <1>1, <1>4 DEF RefreshTyped, Inv, CheckoutTyped, PaymentsTyped
<1>6. ActorsTyped'
  BY <1>1 DEF Done, Inv, ActorsTyped
<1>7. ChargesAtGateway'
  BY <1>1 DEF Inv, ChargesAtGateway, AtGateway
<1>8. PagesShowCash' /\ EventsAreRead' /\ ProcessedIsRecorded'
  BY <1>1, <1>3, <1>4, ReadingsHold
<1> QED
  BY <1>4, <1>5, <1>6, <1>7, <1>8 DEF Inv

\* Closing the checkout, recovering it and collecting money touch no receipt.
LEMMA NoReceiptKept ==
    ASSUME Inv,
           \/ CancelUnpaidCheckout \/ ExpireCheckout \/ CheckoutRecover
           \/ \E p \in Payments, c \in Charges : Collect(p, c)
    PROVE  Inv'
<1>1. /\ UNCHANGED <<scene, method, opened, link, sent, acknowledged, ignored, reconciles>>
      /\ UNCHANGED <<receipts, requesting, settling, confirming>>
  BY DEF CancelUnpaidCheckout, ExpireCheckout, CheckoutRecover, Collect,
         checkout, payment, gateway, events, actors
<1>2. /\ RefreshTyped
      /\ collected' \in [Payments -> SUBSET Charges]
      /\ \A p \in Payments : collected'[p] # {} =>
            collected[p] # {} \/ opened[p] # 0 \/ method[p] = "terminal"
  <2>1. CASE CancelUnpaidCheckout
    <3>1. status' \in [Payments -> Statuses]
      BY <2>1 DEF CancelUnpaidCheckout, Statuses, Inv, PaymentsTyped
    <3> QED
      BY <2>1, <3>1 DEF CancelUnpaidCheckout, gateway, RefreshTyped, Stages, Inv,
                        PaymentsTyped, CheckoutTyped
  <2>2. CASE ExpireCheckout
    BY <2>2 DEF ExpireCheckout, payment, gateway, RefreshTyped, Stages, Inv,
                PaymentsTyped, CheckoutTyped
  <2>3. CASE CheckoutRecover
    BY <2>3 DEF CheckoutRecover, AttemptMaterialize, payment, gateway, RefreshTyped, Stages,
                Inv, PaymentsTyped, CheckoutTyped
  <2>4. CASE \E p \in Payments, c \in Charges : Collect(p, c)
    BY <2>4 DEF Collect, checkout, payment, RefreshTyped, Inv, PaymentsTyped, CheckoutTyped,
                Charges
  <2> QED
    BY <2>1, <2>2, <2>3, <2>4
<1>3. MethodsStay
  BY <1>1 DEF MethodsStay
<1>4. CheckoutTyped' /\ PaymentsTyped'
  BY <1>1, <1>2 DEF RefreshTyped, Inv, CheckoutTyped, PaymentsTyped
<1>5. ActorsTyped'
  BY <1>1 DEF Inv, ActorsTyped
<1>6. ChargesAtGateway'
  BY <1>1, <1>2 DEF Inv, ChargesAtGateway, AtGateway
<1>7. Books' /\ PagesShowCash' /\ EventsAreRead' /\ ProcessedIsRecorded'
  BY <1>1, <1>3, BooksAsTheyAre, ReadingsHold
<1> QED
  BY <1>4, <1>5, <1>6, <1>7 DEF Inv

\* An event that is read remembers whether anything is due.
LEMMA ReadKept ==
    ASSUME Inv, NEW p \in Payments, NEW c \in Charges, NEW w \in Workers,
           DeliverWebhook(p, c, w) \/ PaymentReconcile(p, w)
    PROVE  Inv'
<1>1. /\ UNCHANGED <<scene, stage, confirmed, method, status, opened, link, sent, collected>>
      /\ UNCHANGED <<acknowledged, ignored, receipts, requesting, confirming>>
  BY DEF DeliverWebhook, PaymentReconcile, checkout, payment, gateway, events
<1>2. reconciles' \in 0 .. MaxReconciles
  BY PaymentsAssumption DEF DeliverWebhook, PaymentReconcile, events, Inv, PaymentsTyped
<1>3. AtGateway(p)
  BY DEF DeliverWebhook, Announced, PaymentReconcile, AtGateway, Inv, ChargesAtGateway
<1>4. PICK key \in Keys :
         /\ ReadAndVerify(w, p, key) /\ FromGateway(key)
         /\ key[1] = "webhook" => key[2] \in Charges
  BY DEF DeliverWebhook, PaymentReconcile, Keys, FromGateway, Charges, Inv, PaymentsTyped
<1> DEFINE event == [payment |-> p, key |-> key, reference |-> Reference(p),
                     owed |-> Balance(p), verified |-> Verified(p)]
<1>5. settling' = [settling EXCEPT ![w] = event]
  BY <1>4 DEF ReadAndVerify
<1>6. Verified(p) \in BOOLEAN /\ Reference(p) \in Charges \cup {0}
  BY PaymentsAssumption DEF Verified, Reference, Charges, Inv, PaymentsTyped
<1>7. event \in [payment : Payments, key : Keys, reference : Charges \cup {0},
                  owed : Int, verified : BOOLEAN]
  BY <1>6, BalanceIsNumber
<1>8. /\ FromGateway(event.key)
      /\ event.key[1] = "webhook" => event.key[2] \in Charges
      /\ event.owed <= 0 => GatewayReceipts(event.payment) # {}
  BY <1>3, <1>4, BalanceIsNumber
<1> HIDE DEF event
<1>9. MethodsStay
  BY <1>1 DEF MethodsStay
<1>10. Books' /\ ReceiptsStay
  BY <1>1, <1>9, BooksAsTheyAre
<1>11. CheckoutTyped' /\ PaymentsTyped'
  BY <1>1, <1>2 DEF Inv, CheckoutTyped, PaymentsTyped
<1>12. ActorsTyped'
  BY <1>1, <1>5, <1>7 DEF Inv, ActorsTyped
<1>13. ChargesAtGateway' /\ PagesShowCash' /\ ProcessedIsRecorded'
  BY <1>1 DEF Inv, ChargesAtGateway, AtGateway, PagesShowCash, ProcessedIsRecorded,
              GatewayReceipts
<1>14. EventsAreRead'
  BY <1>1, <1>5, <1>8 DEF Inv, ActorsTyped, EventsAreRead, GatewayReceipts
<1> QED
  BY <1>10, <1>11, <1>12, <1>13, <1>14 DEF Inv

\* An event that is ignored is a terminal's.
LEMMA IgnoreEventKept ==
    ASSUME Inv, NEW p \in Payments, NEW c \in Charges, IgnoreEvent(p, c)
    PROVE  Inv'
<1>1. /\ UNCHANGED <<scene, stage, confirmed, method, status, opened, link, sent, collected>>
      /\ UNCHANGED <<acknowledged, reconciles, receipts, requesting, settling, confirming>>
      /\ ignored' = [ignored EXCEPT ![p] = @ \cup {c}]
  BY DEF IgnoreEvent, checkout, payment, gateway, actors
<1>2. method[p] = "terminal"
  BY DEF IgnoreEvent, EventNames, Matches
<1>3. MethodsStay
  BY <1>1 DEF MethodsStay
<1>4. Books' /\ ReceiptsStay
  BY <1>1, <1>3, BooksAsTheyAre
<1>5. CheckoutTyped' /\ PaymentsTyped' /\ ActorsTyped'
  BY <1>1 DEF Inv, CheckoutTyped, PaymentsTyped, ActorsTyped
<1>6. ChargesAtGateway' /\ PagesShowCash' /\ EventsAreRead'
  BY <1>1 DEF Inv, ChargesAtGateway, AtGateway, PagesShowCash, EventsAreRead, GatewayReceipts
<1>7. ProcessedIsRecorded'
  BY <1>1, <1>2 DEF Inv, PaymentsTyped, ProcessedIsRecorded, GatewayReceipts
<1> QED
  BY <1>4, <1>5, <1>6, <1>7 DEF Inv

\* An event is acknowledged only with a receipt of the gateway in the books.
LEMMA SettleEventKept ==
    ASSUME Inv, NEW w \in Workers, SettleEvent(w)
    PROVE  Inv'
<1>0. PICK event, p : event = settling[w] /\ p = event.payment
  OBVIOUS
<1> DEFINE recorded == RecordVerifiedPayment(p, event.owed, event.key, event.reference)
           unchanged == UNCHANGED <<receipts, status, confirmed, stage>>
<1>1. /\ event # Idle
      /\ settling' = [settling EXCEPT ![w] = Idle]
      /\ UNCHANGED <<scene, method, opened, link, sent, collected, ignored, reconciles>>
      /\ UNCHANGED <<requesting, confirming>>
      /\ \/ unchanged /\ UNCHANGED acknowledged
         \/ unchanged /\ event.owed <= 0 /\ Acknowledge(event)
         \/ recorded /\ Acknowledge(event)
  BY <1>0 DEF SettleEvent, NothingDue, gateway
<1>2. /\ p \in Payments /\ event.key \in Keys /\ event.owed \in Int
      /\ event.reference \in Charges \cup {0}
      /\ FromGateway(event.key)
      /\ event.owed <= 0 => GatewayReceipts(p) # {}
  BY <1>0, <1>1 DEF Inv, ActorsTyped, EventsAreRead
<1>3. MethodsStay
  BY <1>1 DEF MethodsStay
<1>4. /\ Books' /\ RefreshTyped /\ ReceiptsStay
      /\ recorded => GatewayReceipts(p)' # {}
  <2>1. CASE recorded
    BY <1>1, <1>2, <2>1, RecordKeepsBooks
  <2>2. CASE ~recorded
    BY <1>1, <1>3, <2>2, BooksAsTheyAre DEF RefreshTyped, Inv, PaymentsTyped, CheckoutTyped
  <2> QED
    BY <2>1, <2>2
<1>5. \A q \in Payments : acknowledged'[q] # acknowledged[q] => GatewayReceipts(q)' # {}
  <2>1. CASE Acknowledge(event)
    <3>1. GatewayReceipts(p)' # {} \/ acknowledged' = acknowledged
      BY <1>1, <1>2, <1>4 DEF ReceiptsStay
    <3>2. \A q \in Payments : q # p => acknowledged'[q] = acknowledged[q]
      BY <1>0, <1>2, <2>1 DEF Acknowledge, Inv, PaymentsTyped
    <3> QED
      BY <3>1, <3>2
  <2>2. CASE UNCHANGED acknowledged
    BY <2>2
  <2> QED
    BY <1>1, <2>1, <2>2
<1>6. acknowledged' \in [Payments -> SUBSET Charges]
  <2>1. event.key[1] = "webhook" => event.key[2] \in Charges
    BY <1>0, <1>1 DEF Inv, EventsAreRead
  <2> QED
    BY <1>0, <1>1, <1>2, <2>1 DEF Acknowledge, Inv, PaymentsTyped
<1>7. CheckoutTyped' /\ PaymentsTyped'
  BY <1>1, <1>4, <1>6 DEF RefreshTyped, Inv, CheckoutTyped, PaymentsTyped
<1>8. ActorsTyped'
  BY <1>1 DEF Inv, ActorsTyped
<1>9. ChargesAtGateway' /\ PagesShowCash'
  BY <1>1 DEF Inv, ChargesAtGateway, AtGateway, PagesShowCash
<1>10. EventsAreRead'
  <2>1. SUFFICES ASSUME NEW v \in Workers, settling'[v] # Idle
                 PROVE  /\ FromGateway(settling'[v].key)
                        /\ settling'[v].key[1] = "webhook" => settling'[v].key[2] \in Charges
                        /\ settling'[v].owed <= 0 => GatewayReceipts(settling[v].payment)' # {}
    BY DEF EventsAreRead
  <2>2. settling'[v] = settling[v]
    BY <1>1, <2>1 DEF Inv, ActorsTyped
  <2>3. PICK q : q = settling[v].payment
    OBVIOUS
  <2>4. q \in Payments
    BY <2>1, <2>2, <2>3 DEF Inv, ActorsTyped
  <2>5. /\ FromGateway(settling[v].key)
        /\ settling[v].key[1] = "webhook" => settling[v].key[2] \in Charges
        /\ settling[v].owed <= 0 => GatewayReceipts(q) # {}
    BY <2>1, <2>2, <2>3 DEF Inv, EventsAreRead
  <2> QED
    BY <1>4, <2>2, <2>3, <2>4, <2>5 DEF ReceiptsStay
<1>11. ProcessedIsRecorded'
  BY <1>1, <1>4, <1>5 DEF Inv, ProcessedIsRecorded, ReceiptsStay
<1> QED
  BY <1>4, <1>7, <1>8, <1>9, <1>10, <1>11 DEF Inv

LEMMA OpenQueueKept ==
    ASSUME Inv, NEW s \in Staff, NEW p \in Payments, OpenQueue(s, p)
    PROVE  Inv'
<1>1. /\ UNCHANGED <<scene, stage, confirmed, method, status, opened, link, sent, collected>>
      /\ UNCHANGED <<acknowledged, ignored, reconciles, receipts, requesting, settling>>
      /\ method[p] = "cash"
      /\ confirming' = [confirming EXCEPT ![s] = [payment |-> p, version |-> Version(p)]]
  BY DEF OpenQueue, checkout, payment, gateway, events
<1>2. MethodsStay
  BY <1>1 DEF MethodsStay
<1>3. Books' /\ ReceiptsStay
  BY <1>1, <1>2, BooksAsTheyAre
<1>4. CheckoutTyped' /\ PaymentsTyped'
  BY <1>1 DEF Inv, CheckoutTyped, PaymentsTyped
<1>5. ActorsTyped'
  BY <1>1, VersionIsNumber DEF Inv, ActorsTyped
<1>6. PagesShowCash'
  BY <1>1 DEF Inv, PagesShowCash, ActorsTyped
<1>7. ChargesAtGateway' /\ EventsAreRead' /\ ProcessedIsRecorded'
  BY <1>1 DEF Inv, ChargesAtGateway, AtGateway, EventsAreRead, ProcessedIsRecorded,
              GatewayReceipts
<1> QED
  BY <1>3, <1>4, <1>5, <1>6, <1>7 DEF Inv

LEMMA PaymentConfirmKept ==
    ASSUME Inv, NEW s \in Staff, NEW amount \in 1 .. Amount, PaymentConfirm(s, amount)
    PROVE  Inv'
<1> DEFINE p == confirming[s].payment
           key == <<"manual", confirming[s].version>>
<1>1. /\ confirming[s] # Idle
      /\ RecordVerifiedPayment(p, amount, key, 0)
      /\ UNCHANGED <<scene, method, opened, link, sent, collected, acknowledged, ignored>>
      /\ UNCHANGED <<reconciles, requesting, settling, confirming>>
  BY DEF PaymentConfirm, gateway, events, actors
<1>2. p \in Payments /\ key \in Keys /\ amount \in Int /\ method[p] = "cash"
  BY <1>1, PaymentsAssumption DEF Inv, ActorsTyped, PagesShowCash, Keys
<1> HIDE DEF p, key
<1>3. MethodsStay
  BY <1>1 DEF MethodsStay
<1>4. Books' /\ RefreshTyped /\ ReceiptsStay
  BY <1>1, <1>2, RecordKeepsBooks
<1>5. CheckoutTyped' /\ PaymentsTyped'
  BY <1>1, <1>4 DEF RefreshTyped, Inv, CheckoutTyped, PaymentsTyped
<1>6. ActorsTyped'
  BY <1>1 DEF Inv, ActorsTyped
<1>7. ChargesAtGateway'
  BY <1>1 DEF Inv, ChargesAtGateway, AtGateway
<1>8. PagesShowCash' /\ EventsAreRead' /\ ProcessedIsRecorded'
  BY <1>1, <1>3, <1>4, ReadingsHold
<1> QED
  BY <1>4, <1>5, <1>6, <1>7, <1>8 DEF Inv

LEMMA ReversePaymentReceiptKept ==
    ASSUME Inv, NEW r \in receipts, ReversePaymentReceipt(r)
    PROVE  Inv'
<1>1. /\ UNCHANGED <<scene, method, opened, link, sent, collected, acknowledged, ignored>>
      /\ UNCHANGED <<reconciles, requesting, settling, confirming>>
  BY DEF ReversePaymentReceipt, gateway, events, actors
<1>2. MethodsStay
  BY <1>1 DEF MethodsStay
<1>3. Books' /\ RefreshTyped /\ ReceiptsStay
  BY ReversalKeepsBooks
<1>4. CheckoutTyped' /\ PaymentsTyped'
  BY <1>1, <1>3 DEF RefreshTyped, Inv, CheckoutTyped, PaymentsTyped
<1>5. ActorsTyped'
  BY <1>1 DEF Inv, ActorsTyped
<1>6. ChargesAtGateway'
  BY <1>1 DEF Inv, ChargesAtGateway, AtGateway
<1>7. PagesShowCash' /\ EventsAreRead' /\ ProcessedIsRecorded'
  BY <1>1, <1>2, <1>3, ReadingsHold
<1> QED
  BY <1>3, <1>4, <1>5, <1>6, <1>7 DEF Inv

LEMMA StutterKept ==
    ASSUME Inv, UNCHANGED vars
    PROVE  Inv'
<1>1. /\ UNCHANGED <<scene, stage, confirmed, method, status, opened, link, sent, collected>>
      /\ UNCHANGED <<acknowledged, ignored, reconciles, receipts, requesting, settling>>
      /\ UNCHANGED confirming
  BY DEF vars, checkout, payment, gateway, events, actors
<1>2. MethodsStay
  BY <1>1 DEF MethodsStay
<1>3. Books' /\ PagesShowCash' /\ EventsAreRead' /\ ProcessedIsRecorded'
  BY <1>1, <1>2, BooksAsTheyAre, ReadingsHold
<1>4. CheckoutTyped' /\ PaymentsTyped' /\ ActorsTyped' /\ ChargesAtGateway'
  BY <1>1 DEF Inv, CheckoutTyped, PaymentsTyped, ActorsTyped, ChargesAtGateway, AtGateway
<1> QED
  BY <1>3, <1>4 DEF Inv

\* Every step keeps the invariant.
LEMMA StepKept ==
    ASSUME Inv, [Next]_vars
    PROVE  Inv'
<1>1. CASE UNCHANGED vars
  BY <1>1, StutterKept
<1>2. CASE \E r \in Requests : RequestStep(r)
  BY <1>2, StartPaymentKept, RepeatPaymentKept, RequestAnsweredKept, RecordPosCashKept
     DEF RequestStep
<1>3. CASE GatewayStep
  <2>1. 1 \in Charges
    BY PaymentsAssumption DEF Charges
  <2>2. CASE \E p \in Payments, c \in Charges : Collect(p, c) \/ IgnoreEvent(p, c)
    BY <2>2, NoReceiptKept, IgnoreEventKept
  <2>3. CASE \E p \in Payments, c \in Charges, w \in Workers : DeliverWebhook(p, c, w)
    BY <2>3, ReadKept
  <2>4. CASE \E p \in Payments, w \in Workers : PaymentReconcile(p, w)
    BY <2>1, <2>4, ReadKept
  <2>5. CASE \E w \in Workers : SettleEvent(w)
    BY <2>5, SettleEventKept
  <2> QED
    BY <1>3, <2>2, <2>3, <2>4, <2>5 DEF GatewayStep
<1>4. CASE StaffStep
  BY <1>4, OpenQueueKept, PaymentConfirmKept, ReversePaymentReceiptKept, NoReceiptKept
     DEF StaffStep
<1>5. CASE CheckoutStep
  BY <1>5, NoReceiptKept DEF CheckoutStep
<1> QED
  BY <1>1, <1>2, <1>3, <1>4, <1>5 DEF Next

\* The invariant holds in every state.
THEOREM PaymentsInvariant == Spec => []Inv
<1>1. Init => Inv
  BY InitKept
<1>2. Inv /\ [Next]_vars => Inv'
  BY StepKept
<1> QED
  BY <1>1, <1>2, PTL DEF Spec

-----------------------------------------------------------------------------
(* Results *)

(***************************************************************************)
(* Every variable keeps its type: what requests, workers and staff carry   *)
(* from one transaction to the next is always a payment of this checkout.  *)
(***************************************************************************)
THEOREM PaymentsTypeCorrect == Spec => []TypeOK
<1>1. Inv => TypeOK
  BY DEF Inv, Books, TypeOK
<1> QED
  BY <1>1, PaymentsInvariant, PTL

(***************************************************************************)
(* For any number of events, reconciliations, cash pages and reversals at  *)
(* the same time, a payment's receipts never exceed its amount.            *)
(***************************************************************************)
THEOREM PaymentsNeverOverpaid == Spec => []NeverOverpaid
<1>1. Inv => NeverOverpaid
  BY DEF Inv, Books
<1> QED
  BY <1>1, PaymentsInvariant, PTL

(***************************************************************************)
(* The gateway's money for a charge is entered at most once, whichever of  *)
(* its events and the staff's reconciliations get there first.             *)
(***************************************************************************)
THEOREM PaymentsReferenceSettledOnce == Spec => []ReferenceSettledOnce
<1>1. ASSUME Inv
      PROVE  ReferenceSettledOnce
  <2> SUFFICES ASSUME NEW p \in Payments, NEW c \in Charges
               PROVE  Cardinality({r \in GatewayReceipts(p) : r.reference = c}) <= 1
    BY DEF ReferenceSettledOnce
  <2> DEFINE settled == {r \in GatewayReceipts(p) : r.reference = c}
  <2>1. CASE settled = {}
    BY <2>1, FS_EmptySet
  <2>2. CASE settled # {}
    <3>1. PICK r : r \in settled
      BY <2>2
    <3>2. settled = {r}
      BY <1>1, <3>1 DEF Inv, Books, OneReference, GatewayReceipts
    <3>3. Cardinality({r}) = 1
      BY FS_Singleton
    <3> QED
      BY <3>2, <3>3
  <2> QED
    BY <2>1, <2>2
<1> QED
  BY <1>1, PaymentsInvariant, PTL

(***************************************************************************)
(* A payment with an event that is processed, and which the gateway will   *)
(* not send again, has its receipt in the books; what is answered without  *)
(* belongs to a terminal (gateway_webhook, process_gateway_event).         *)
(***************************************************************************)
THEOREM PaymentsProcessedIsRecorded == Spec => []ProcessedIsRecorded
<1>1. Inv => ProcessedIsRecorded
  BY DEF Inv
<1> QED
  BY <1>1, PaymentsInvariant, PTL

-----------------------------------------------------------------------------
(* What a receipt or a reversal shows on the payment and the intake *)

\* A payment's money is part of the checkout's.
LEMMA PaidIsInTotal ==
    ASSUME NEW rs, IsFiniteSet(rs), NEW p
    PROVE  PaidIn(rs, p) <= Cardinality(LiveUnits(rs)) /\ Cardinality(LiveUnits(rs)) \in Nat
<1>1. IsFiniteSet(LiveUnits(rs)) /\ Cardinality(LiveUnits(rs)) \in Nat
  BY MoneyIsFinite
<1>2. LiveUnits({r \in rs : r.payment = p}) \in SUBSET LiveUnits(rs)
  BY DEF LiveUnits
<1> QED
  BY <1>1, <1>2, FS_Subset DEF PaidIn

\* The status computed from the receipts says what they amount to.
LEMMA StatusTellsPaid ==
    ASSUME NEW p, NEW paid \in Nat
    PROVE  /\ StatusFor(p, paid) = "paid" => paid >= Amount
           /\ StatusFor(p, paid) \in {"pending", "awaiting_customer"} => paid = 0
           /\ StatusFor(p, paid) # "cancelled"
<1>1. CASE paid >= Amount
  <2>1. StatusFor(p, paid) = "paid"
    BY <1>1, PaymentsAssumption DEF StatusFor
  <2> QED
    BY <1>1, <2>1
<1>2. CASE paid \in 1 .. Amount - 1
  <2>1. StatusFor(p, paid) = "partially_paid"
    BY <1>2, PaymentsAssumption DEF StatusFor
  <2> QED
    BY <2>1
<1>3. CASE paid = 0
  <2>1. StatusFor(p, paid) \in {"pending", "awaiting_customer"}
    BY <1>3, PaymentsAssumption DEF StatusFor
  <2> QED
    BY <1>3, <2>1
<1> QED
  BY <1>1, <1>2, <1>3, PaymentsAssumption

\* The receipts of one payment changed, and the payment with them.
Posted(p) ==
    /\ \A q \in Payments \ {p} : PaidIn(receipts', q) = PaidIn(receipts, q)
    /\ status' = [status EXCEPT ![p] = StatusFor(p, PaidIn(receipts', p))]
    /\ \/ /\ UNCHANGED stage
          /\ confirmed' = IF stage = "materialized" THEN status'[p] = "paid" ELSE confirmed
       \/ /\ stage # "materialized" /\ status'[p] = "paid"
          /\ \/ stage' = "materialized"
             \/ stage' = "review" /\ UNCHANGED confirmed
       \/ ReversedUnderRecovery /\ stage' = "materialized"

\* Recording posts one payment, or changes nothing.
LEMMA RecordPosts ==
    ASSUME Inv, NEW p \in Payments, NEW key \in Keys, NEW amount \in Int, NEW reference,
           RecordVerifiedPayment(p, amount, key, reference)
    PROVE  Posted(p) \/ UNCHANGED <<receipts, status, confirmed, stage>>
<1> DEFINE new == [payment |-> p, key |-> key, reference |-> reference,
                   amount |-> amount, reversed |-> FALSE]
<1> SUFFICES ASSUME CanRecord(p, amount, key, reference), receipts' = receipts \cup {new},
                    RefreshAndMaterialize(p)
             PROVE  Posted(p)
  BY DEF RecordVerifiedPayment
<1>1. \A q \in Payments \ {p} : PaidIn(receipts', q) = PaidIn(receipts, q)
  <2>1. new.payment = p
    OBVIOUS
  <2>2. \A q : q # p =>
           {r \in receipts' : r.payment = q} = {r \in receipts : r.payment = q}
    BY <2>1
  <2> QED
    BY <2>2 DEF PaidIn
<1>2. CASE Refresh(p) /\ UNCHANGED stage
  BY <1>1, <1>2 DEF Refresh, Posted
<1>3. CASE /\ stage # "materialized" /\ StatusFor(p, PaidIn(receipts', p)) = "paid"
           /\ status' = [status EXCEPT ![p] = "paid"]
           /\ AttemptMaterialize
  <2>1. status'[p] = "paid"
    BY <1>3 DEF Inv, PaymentsTyped
  <2> QED
    BY <1>1, <1>3, <2>1 DEF AttemptMaterialize, Posted
<1> QED
  BY <1>2, <1>3 DEF RefreshAndMaterialize

\* So does a reversal.
LEMMA ReversalPosts ==
    ASSUME Inv, NEW r \in receipts, ReversePaymentReceipt(r)
    PROVE  r.payment \in Payments /\ Posted(r.payment)
<1> DEFINE gone == [r EXCEPT !.reversed = TRUE]
<1>1. r \in Receipts /\ r.payment \in Payments
  BY DEF Inv, Books, Receipts
<1>2. gone.payment = r.payment
  BY <1>1 DEF Receipts
<1>3. receipts' = (receipts \ {r}) \cup {gone} /\ ~r.reversed
  BY DEF ReversePaymentReceipt
<1>4. gone # r
  BY <1>1, <1>3 DEF Receipts
<1> HIDE DEF gone
<1>5. \A q : q # r.payment =>
         {t \in receipts' : t.payment = q} = {t \in receipts : t.payment = q}
  BY <1>2, <1>3
<1>6. CASE Refresh(r.payment) /\ UNCHANGED stage
  BY <1>1, <1>5, <1>6 DEF Refresh, Posted, PaidIn
<1>7. CASE UndercutsRecovery(r.payment)
  <2>1. ~(receipts \subseteq receipts')
    BY <1>3, <1>4
  <2> QED
    BY <1>1, <1>5, <1>7, <2>1 DEF UndercutsRecovery, ReversedUnderRecovery, Posted, PaidIn
<1> QED
  BY <1>6, <1>7 DEF ReversePaymentReceipt

\* The steps that leave every receipt as it is.
QuietStep ==
    \/ UNCHANGED vars
    \/ \E r \in Requests :
          \/ \E m \in Methods : StartPayment(r, m)
          \/ \E p \in Payments : RepeatPayment(r, p)
          \/ GatewayAnswers(r) \/ RequestFails(r)
    \/ \E p \in Payments :
          \/ \E c \in Charges : Collect(p, c) \/ IgnoreEvent(p, c)
          \/ \E c \in Charges, w \in Workers : DeliverWebhook(p, c, w)
          \/ \E w \in Workers : PaymentReconcile(p, w)
          \/ \E s \in Staff : OpenQueue(s, p)
    \/ CancelUnpaidCheckout \/ ExpireCheckout \/ CheckoutRecover

\* Every step is quiet, or posts one payment, or changes no money after all.
LEMMA MoneySteps ==
    ASSUME Inv, [Next]_vars
    PROVE  \/ QuietStep
           \/ \E p \in Payments : Posted(p)
           \/ UNCHANGED <<receipts, status, confirmed, stage>>
<1>1. ASSUME NEW r \in Requests, RecordPosCash(r)
      PROVE  \/ \E p \in Payments : Posted(p)
             \/ UNCHANGED <<receipts, status, confirmed, stage>>
  <2>1. requesting[r].payment \in Payments /\ requesting[r].owed \in Int
    BY <1>1 DEF RecordPosCash, Inv, ActorsTyped
  <2>2. <<"pos", 0>> \in Keys
    BY DEF Keys
  <2> QED
    BY <1>1, <2>1, <2>2, RecordPosts DEF RecordPosCash
<1>2. ASSUME NEW w \in Workers, SettleEvent(w)
      PROVE  \/ \E p \in Payments : Posted(p)
             \/ UNCHANGED <<receipts, status, confirmed, stage>>
  <2>1. /\ settling[w].payment \in Payments /\ settling[w].owed \in Int
        /\ settling[w].key \in Keys
    BY <1>2 DEF SettleEvent, Inv, ActorsTyped
  <2> QED
    BY <1>2, <2>1, RecordPosts DEF SettleEvent
<1>3. ASSUME NEW s \in Staff, NEW amount \in 1 .. Amount, PaymentConfirm(s, amount)
      PROVE  \/ \E p \in Payments : Posted(p)
             \/ UNCHANGED <<receipts, status, confirmed, stage>>
  <2>1. /\ confirming[s].payment \in Payments /\ amount \in Int
        /\ <<"manual", confirming[s].version>> \in Keys
    BY <1>3, PaymentsAssumption DEF PaymentConfirm, Inv, ActorsTyped, Keys
  <2> QED
    BY <1>3, <2>1, RecordPosts DEF PaymentConfirm
<1>4. CASE \E r \in Requests : RequestStep(r)
  BY <1>1, <1>4 DEF RequestStep, QuietStep
<1>5. CASE GatewayStep
  BY <1>2, <1>5 DEF GatewayStep, QuietStep
<1>6. CASE StaffStep
  BY <1>3, <1>6, ReversalPosts DEF StaffStep, QuietStep
<1>7. CASE CheckoutStep \/ UNCHANGED vars
  BY <1>7 DEF CheckoutStep, QuietStep
<1> QED
  BY <1>4, <1>5, <1>6, <1>7 DEF Next

-----------------------------------------------------------------------------
(* The intake's payment state *)

\* Before there is an intake nothing is confirmed.
OnlyIntakesConfirmed == confirmed => stage = "materialized"

\* What ConfirmedIsPaid says of a step.
PaidWhenConfirmed ==
    confirmed' /\ (~confirmed \/ receipts' # receipts) =>
        /\ stage' = "materialized"
        /\ TotalPaid' >= Amount \/ ReversedUnderRecovery

\* A posting confirms an intake with the money to show for it.
LEMMA PostingConfirms ==
    ASSUME Inv, Inv', OnlyIntakesConfirmed, NEW p \in Payments, Posted(p)
    PROVE  OnlyIntakesConfirmed' /\ PaidWhenConfirmed
<1>1. PaidIn(receipts', p) \in Nat /\ PaidIn(receipts', p) <= TotalPaid' /\ TotalPaid' \in Nat
  BY PaidIsNatural, PaidIsInTotal DEF Inv, Books, TotalPaid
<1>2. status'[p] = "paid" => PaidIn(receipts', p) >= Amount
  BY <1>1, StatusTellsPaid DEF Posted, Inv, PaymentsTyped
<1>3. status'[p] = "paid" => TotalPaid' >= Amount
  BY <1>1, <1>2, PaymentsAssumption
<1> QED
  BY <1>3 DEF OnlyIntakesConfirmed, PaidWhenConfirmed, Posted

\* A quiet step leaves it, or recovers a checkout that is paid.
LEMMA QuietlyConfirmed ==
    ASSUME OnlyIntakesConfirmed, QuietStep
    PROVE  OnlyIntakesConfirmed' /\ PaidWhenConfirmed
<1>1. CASE CheckoutRecover
  BY <1>1 DEF CheckoutRecover, AttemptMaterialize, OnlyIntakesConfirmed, PaidWhenConfirmed,
              TotalPaid
<1>2. CASE ~CheckoutRecover
  <2>1. UNCHANGED <<receipts, confirmed>> /\ (UNCHANGED stage \/ stage = "awaiting")
    BY <1>2 DEF QuietStep, vars, checkout, StartPayment, RepeatPayment, GatewayAnswers,
                RequestFails, Collect, IgnoreEvent, DeliverWebhook, PaymentReconcile, OpenQueue,
                CancelUnpaidCheckout, ExpireCheckout
  <2> QED
    BY <2>1 DEF OnlyIntakesConfirmed, PaidWhenConfirmed
<1> QED
  BY <1>1, <1>2

(***************************************************************************)
(* An intake comes to be shown as paid, or stays so through a receipt or a *)
(* reversal, only with its whole amount received, through any number of    *)
(* payments, late events and recoveries, but for a reversal that falls     *)
(* into a recovery (_refresh_payment, materialize_paid_checkout).          *)
(***************************************************************************)
THEOREM PaymentsConfirmedIsPaid == Spec => ConfirmedIsPaid
<1>1. Init => OnlyIntakesConfirmed
  BY DEF Init, OnlyIntakesConfirmed
<1>2. Inv /\ Inv' /\ OnlyIntakesConfirmed /\ [Next]_vars => OnlyIntakesConfirmed' /\ PaidWhenConfirmed
  BY MoneySteps, PostingConfirms, QuietlyConfirmed
     DEF OnlyIntakesConfirmed, PaidWhenConfirmed
<1>3. Inv /\ Inv' /\ OnlyIntakesConfirmed /\ [Next]_vars =>
         [confirmed' /\ (~confirmed \/ receipts' # receipts) =>
             /\ stage' = "materialized"
             /\ TotalPaid' >= Amount \/ ReversedUnderRecovery]_vars
  BY <1>2 DEF PaidWhenConfirmed
<1> QED
  BY PaymentsInvariant, <1>1, <1>2, <1>3, PTL DEF Spec, ConfirmedIsPaid

-----------------------------------------------------------------------------
(* Calls to the gateway *)

Online(p) == method[p] \in {"card", "transfer"}

\* A request waits for the charge it has made.  At most one at a time waits on
\* an online payment, which has no answer yet: a second call would write over
\* what the first brought.  At the terminal it may.
CallsAreSingle ==
    \A r \in Requests : requesting[r] # Idle =>
       /\ method[requesting[r].payment] # "none"
       /\ AtGateway(requesting[r].payment) => requesting[r].charge # 0
       /\ Online(requesting[r].payment) =>
            /\ link[requesting[r].payment] # "none"
            /\ opened[requesting[r].payment] = 0
            /\ \A q \in Requests : requesting[q].payment = requesting[r].payment => q = r

\* The gateway's money enters the books only after its answer was stored.
OpenedFirst ==
    /\ \A p \in Payments : opened[p] # 0 => AtGateway(p)
    /\ \A p \in Payments : collected[p] # {} => opened[p] # 0 \/ method[p] = "terminal"
    /\ \A w \in Workers :
          settling[w] # Idle /\ settling[w].verified => opened[settling[w].payment] # 0
    /\ \A r \in receipts : FromGateway(r.key) => opened[r.payment] # 0

Calls == CallsAreSingle /\ OpenedFirst

\* At the gateway, a payment without a stored answer has received nothing.
LEMMA UnopenedIsUnpaid ==
    ASSUME Inv, OpenedFirst, NEW p \in Payments, opened[p] = 0, method[p] # "cash"
    PROVE  Paid(p) = 0
<1>1. {r \in receipts : r.payment = p} = {}
  BY DEF OpenedFirst, Inv, Books, CashByHand
<1> QED
  BY <1>1, NothingReceived DEF Paid

\* New receipts from the gateway are of payments with an answer stored.
LEMMA ReceiptsAfterAnswer ==
    ASSUME Inv, OpenedFirst, UNCHANGED <<method, opened, collected>>,
           \A w \in Workers : settling'[w] \in {Idle, settling[w]},
           \A r \in receipts' : FromGateway(r.key) =>
              \/ opened[r.payment] # 0
              \/ \E t \in receipts : t.key = r.key /\ t.payment = r.payment
    PROVE  OpenedFirst'
<1>1. \A w \in Workers : settling'[w] # Idle => settling'[w] = settling[w]
  OBVIOUS
<1> QED
  BY <1>1 DEF OpenedFirst, AtGateway

\* The receipt of a recorded payment is its own.
LEMMA RecordedReceipt ==
    ASSUME NEW p, NEW key, NEW amount, NEW reference,
           RecordVerifiedPayment(p, amount, key, reference),
           FromGateway(key) => opened[p] # 0
    PROVE  \A r \in receipts' : FromGateway(r.key) =>
              \/ opened[r.payment] # 0
              \/ \E t \in receipts : t.key = r.key /\ t.payment = r.payment
<1> DEFINE new == [payment |-> p, key |-> key, reference |-> reference,
                   amount |-> amount, reversed |-> FALSE]
<1>1. new.payment = p /\ new.key = key
  OBVIOUS
<1>2. receipts' = receipts \/ receipts' = receipts \cup {new}
  BY DEF RecordVerifiedPayment
<1> HIDE DEF new
<1> QED
  BY <1>1, <1>2

\* Steps that start no request leave the calls as they are.
LEMMA CallsStand ==
    ASSUME CallsAreSingle, UNCHANGED <<method, opened, link>>,
           \A r \in Requests : requesting'[r] \in {Idle, requesting[r]}, 0 \notin Payments,
           \A r \in Requests : requesting[r] # Idle => requesting[r].payment \in Payments
    PROVE  CallsAreSingle'
<1> SUFFICES ASSUME NEW r \in Requests, requesting'[r] # Idle
             PROVE  /\ method[requesting[r].payment] # "none"
                    /\ AtGateway(requesting[r].payment) => requesting'[r].charge # 0
                    /\ Online(requesting[r].payment) =>
                         /\ link[requesting[r].payment] # "none"
                         /\ opened[requesting[r].payment] = 0
                         /\ \A q \in Requests :
                              requesting'[q].payment = requesting[r].payment => q = r
  BY DEF CallsAreSingle, AtGateway, Online
<1>1. requesting'[r] = requesting[r] /\ requesting[r].payment \in Payments
  OBVIOUS
<1>2. \A q \in Requests :
         requesting'[q].payment = requesting[r].payment => requesting'[q] = requesting[q]
  BY <1>1 DEF Idle
<1> QED
  BY <1>1, <1>2 DEF CallsAreSingle

\* What a request may start with: a payment that no other waits for.
LEMMA ProceedIsSingle ==
    ASSUME Inv, Calls, NEW r \in Requests, NEW p \in Payments, NEW m \in Methods,
           Proceed(r, p, m), requesting[r] = Idle, method'[p] = m,
           m # "cash" => link[p] = "none" \/ method[p] = "none",
           m # "cash" => opened[p] = 0,
           \A q \in Payments : method[q] # "none" => method'[q] = method[q],
           UNCHANGED opened
    PROVE  CallsAreSingle'
<1> DEFINE online == m \in {"card", "transfer"}
<1> SUFFICES ASSUME NEW x \in Requests, requesting'[x] # Idle
             PROVE  /\ method'[requesting'[x].payment] # "none"
                    /\ method'[requesting'[x].payment] \in {"card", "transfer", "terminal"} =>
                         requesting'[x].charge # 0
                    /\ method'[requesting'[x].payment] \in {"card", "transfer"} =>
                         /\ link'[requesting'[x].payment] # "none"
                         /\ opened[requesting'[x].payment] = 0
                         /\ \A q \in Requests :
                              requesting'[q].payment = requesting'[x].payment => q = x
  BY DEF CallsAreSingle, AtGateway, Online
<1>1. /\ requesting'[r].payment = p
      /\ requesting'[r].charge = NextCharge(p, m)
      /\ \A x1 \in Requests \ {r} : requesting'[x1] = requesting[x1]
      /\ link' = IF online THEN [link EXCEPT ![p] = Side] ELSE link
  BY DEF Proceed, Inv, ActorsTyped
<1>2. online => \A q \in Requests \ {r} : requesting[q].payment # p
  <2>1. SUFFICES ASSUME online, NEW q \in Requests \ {r}, requesting[q].payment = p
                 PROVE  FALSE
    OBVIOUS
  <2>2. requesting[q] # Idle
    BY <2>1 DEF Idle, Payments
  <2>3. method[p] # "none"
    BY <2>1, <2>2 DEF Calls, CallsAreSingle
  <2>4. link[p] = "none" /\ method[p] = m
    BY <2>1, <2>3
  <2>5. Online(p)
    BY <2>1, <2>4 DEF Online
  <2> QED
    BY <2>1, <2>2, <2>4, <2>5 DEF Calls, CallsAreSingle
<1>3. CASE x = r
  <2>1. method'[p] = m /\ m # "none" /\ (m # "cash" => NextCharge(p, m) # 0)
    BY NextChargeIsCharge DEF Methods
  <2>2. CASE ~online
    BY <1>1, <1>3, <2>1, <2>2
  <2>3. CASE online
    <3>1. link'[p] # "none"
      BY <1>1, <2>3 DEF Side, Inv, PaymentsTyped
    <3> QED
      BY <1>1, <1>2, <1>3, <2>1, <2>3, <3>1
  <2> QED
    BY <2>2, <2>3
<1>4. CASE x # r
  <2>1. requesting'[x] = requesting[x] /\ requesting[x] # Idle
    BY <1>1, <1>4
  <2>2. PICK y \in Payments : y = requesting[x].payment
    BY <2>1 DEF Inv, ActorsTyped
  <2>3. method'[y] = method[y] /\ method[y] # "none"
    BY <2>2, <2>1 DEF Calls, CallsAreSingle
  <2>4. method[y] \in {"card", "transfer", "terminal"} => requesting'[x].charge # 0
    BY <2>1, <2>2 DEF Calls, CallsAreSingle, AtGateway
  <2>5. y = p => ~online
    BY <1>2, <1>4, <2>2
  <2>6. CASE y = p
    BY <2>2, <2>1, <2>3, <2>4, <2>5, <2>6
  <2>7. CASE y # p
    <3>1. link'[y] = link[y]
      BY <1>1, <2>1, <2>7 DEF Inv, PaymentsTyped
    <3> QED
      BY <1>1, <2>2, <2>1, <2>3, <2>4, <2>7, <3>1 DEF Calls, CallsAreSingle, Online
  <2> QED
    BY <2>6, <2>7
<1> QED
  BY <1>3, <1>4

LEMMA StartKeepsCalls ==
    ASSUME Inv, Calls, NEW r \in Requests, NEW m \in Methods, StartPayment(r, m)
    PROVE  Calls'
<1>1. PICK p \in Payments :
         method[p] = "none" /\ method' = [method EXCEPT ![p] = m] /\ Proceed(r, p, m)
  BY DEF StartPayment
<1>2. requesting[r] = Idle /\ UNCHANGED <<opened, collected, receipts, settling>>
  BY DEF StartPayment
<1>3. opened[p] = 0
  BY <1>1 DEF Calls, OpenedFirst, AtGateway
<1>4. method'[p] = m /\ \A q \in Payments : method[q] # "none" => method'[q] = method[q]
  BY <1>1 DEF Inv, PaymentsTyped
<1>5. CallsAreSingle'
  BY <1>1, <1>2, <1>3, <1>4, ProceedIsSingle
<1>6. OpenedFirst'
  BY <1>2, <1>4 DEF Calls, OpenedFirst, AtGateway
<1> QED
  BY <1>5, <1>6 DEF Calls

LEMMA RepeatKeepsCalls ==
    ASSUME Inv, Calls, NEW r \in Requests, NEW p \in Payments, RepeatPayment(r, p)
    PROVE  Calls'
<1>1. /\ Proceed(r, p, method[p]) /\ method[p] \in Methods
      /\ opened[p] = 0 /\ link[p] = "none"
      /\ requesting[r] = Idle
      /\ UNCHANGED <<method, opened, collected, receipts, settling>>
  BY DEF RepeatPayment, payment, Inv, PaymentsTyped
<1>2. CallsAreSingle'
  BY <1>1, ProceedIsSingle
<1>3. OpenedFirst'
  BY <1>1 DEF Calls, OpenedFirst, AtGateway
<1> QED
  BY <1>2, <1>3 DEF Calls

LEMMA AnswerKeepsCalls ==
    ASSUME Inv, Calls, NEW r \in Requests, GatewayAnswers(r) \/ RequestFails(r)
    PROVE  Calls'
<1>1. PICK p \in Payments : p = requesting[r].payment
  BY DEF GatewayAnswers, RequestFails, Inv, ActorsTyped
<1>2. /\ requesting[r] # Idle
      /\ requesting' = [requesting EXCEPT ![r] = Idle]
      /\ UNCHANGED <<method, collected, receipts, settling>>
      /\ \/ opened' = opened
         \/ opened' = [opened EXCEPT ![p] = requesting[r].charge] /\ AtGateway(p)
      /\ link' = link \/ link' = [link EXCEPT ![p] = "none"]
  BY <1>1 DEF GatewayAnswers, RequestFails, Done, AtGateway, payment, gateway
<1>3. method[p] # "none"
  BY <1>1, <1>2 DEF Calls, CallsAreSingle
<1>4. AtGateway(p) => requesting[r].charge # 0
  BY <1>1, <1>2 DEF Calls, CallsAreSingle
<1>5. /\ \A q \in Payments : opened'[q] # 0 => opened[q] # 0 \/ (q = p /\ AtGateway(p))
      /\ \A q \in Payments : opened[q] # 0 => opened'[q] # 0
  BY <1>2, <1>4 DEF Inv, PaymentsTyped
<1>6. OpenedFirst'
  <2>1. \A t \in receipts : t.payment \in Payments
    BY DEF Inv, Books, Receipts
  <2>2. \A w \in Workers : settling[w] # Idle => settling[w].payment \in Payments
    BY DEF Inv, ActorsTyped
  <2> QED
    BY <1>2, <1>5, <2>1, <2>2 DEF Calls, OpenedFirst, AtGateway
<1>7. CallsAreSingle'
  <2> SUFFICES ASSUME NEW x \in Requests, requesting'[x] # Idle
               PROVE  /\ method[requesting'[x].payment] # "none"
                      /\ AtGateway(requesting'[x].payment) => requesting'[x].charge # 0
                      /\ Online(requesting'[x].payment) =>
                           /\ link'[requesting'[x].payment] # "none"
                           /\ opened'[requesting'[x].payment] = 0
                           /\ \A q \in Requests :
                                requesting'[q].payment = requesting'[x].payment => q = x
    BY <1>2 DEF CallsAreSingle, AtGateway, Online
  <2>1. x # r /\ requesting'[x] = requesting[x] /\ requesting[x].payment \in Payments
    BY <1>2 DEF Inv, ActorsTyped
  <2>2. CASE Online(requesting[x].payment)
    <3>1. requesting[x].payment # p
      BY <1>1, <2>1, <2>2 DEF Calls, CallsAreSingle
    <3>2. \A q \in Requests :
             requesting'[q].payment = requesting[x].payment => requesting'[q] = requesting[q]
      BY <1>2, <2>1 DEF Inv, ActorsTyped, Idle, Payments
    <3>3. link'[requesting[x].payment] = link[requesting[x].payment]
          /\ opened'[requesting[x].payment] = opened[requesting[x].payment]
      BY <1>2, <2>1, <3>1 DEF Inv, PaymentsTyped
    <3> QED
      BY <2>1, <2>2, <3>2, <3>3 DEF Calls, CallsAreSingle
  <2>3. CASE ~Online(requesting[x].payment)
    BY <2>1, <2>3 DEF Calls, CallsAreSingle
  <2> QED
    BY <2>2, <2>3
<1> QED
  BY <1>6, <1>7 DEF Calls

\* Events are verified, and receipts recorded, for payments with an answer.
LEMMA EventsKeepCalls ==
    ASSUME Inv, Calls, GatewayStep
    PROVE  Calls'
<1>1. UNCHANGED <<method, opened, link, requesting>>
  BY DEF GatewayStep, Collect, IgnoreEvent, DeliverWebhook, PaymentReconcile, SettleEvent,
         payment, gateway, actors
<1>2. CallsAreSingle'
  <2>1. 0 \notin Payments
    BY DEF Payments
  <2> QED
    BY <1>1, <2>1, CallsStand DEF Calls, Inv, ActorsTyped
<1>3. ASSUME NEW p \in Payments, NEW c \in Charges, Collect(p, c) \/ IgnoreEvent(p, c)
      PROVE  OpenedFirst'
  <2>1. UNCHANGED <<receipts, settling>>
    BY <1>3 DEF Collect, IgnoreEvent, actors
  <2>2. \A q \in Payments : collected'[q] # {} =>
           collected[q] # {} \/ opened[q] # 0 \/ method[q] = "terminal"
    BY <1>3 DEF Collect, IgnoreEvent, gateway, Charges, Inv, PaymentsTyped
  <2> QED
    BY <1>1, <2>1, <2>2 DEF Calls, OpenedFirst, AtGateway
<1>4. ASSUME NEW p \in Payments, NEW c, NEW w \in Workers,
             DeliverWebhook(p, c, w) \/ PaymentReconcile(p, w)
      PROVE  OpenedFirst'
  <2>1. /\ UNCHANGED <<collected, receipts>>
        /\ \E key : settling' = [settling EXCEPT ![w] =
              [payment |-> p, key |-> key, reference |-> Reference(p), owed |-> Balance(p),
               verified |-> Verified(p)]]
    BY <1>4 DEF DeliverWebhook, PaymentReconcile, ReadAndVerify, gateway
  <2>2. Verified(p) => opened[p] # 0
    BY DEF Verified, Reference, Calls, OpenedFirst, Charges, Inv, PaymentsTyped
  <2>3. \A v \in Workers : settling'[v] # Idle /\ settling'[v].verified =>
            opened[settling'[v].payment] # 0
    <3>1. settling'[w].payment = p /\ settling'[w].verified = Verified(p)
      BY <2>1 DEF Inv, ActorsTyped
    <3>2. \A v \in Workers \ {w} : settling'[v] = settling[v]
      BY <2>1 DEF Inv, ActorsTyped
    <3> QED
      BY <2>2, <3>1, <3>2 DEF Calls, OpenedFirst
  <2> QED
    BY <1>1, <2>1, <2>3 DEF Calls, OpenedFirst, AtGateway
<1>5. ASSUME NEW w \in Workers, SettleEvent(w)
      PROVE  OpenedFirst'
  <2>1. /\ settling[w] # Idle
        /\ settling' = [settling EXCEPT ![w] = Idle]
        /\ UNCHANGED collected
        /\ \/ UNCHANGED receipts
           \/ /\ settling[w].verified
              /\ RecordVerifiedPayment(settling[w].payment, settling[w].owed,
                                       settling[w].key, settling[w].reference)
    BY <1>5 DEF SettleEvent, gateway
  <2>2. \A v \in Workers : settling'[v] \in {Idle, settling[v]}
    BY <2>1 DEF Inv, ActorsTyped
  <2>3. CASE UNCHANGED receipts
    BY <1>1, <2>1, <2>2, <2>3, ReceiptsAfterAnswer DEF Calls
  <2>4. CASE /\ settling[w].verified
             /\ RecordVerifiedPayment(settling[w].payment, settling[w].owed,
                                       settling[w].key, settling[w].reference)
    <3>1. opened[settling[w].payment] # 0
      BY <2>1, <2>4 DEF Calls, OpenedFirst
    <3> QED
      BY <1>1, <2>1, <2>2, <2>4, <3>1, RecordedReceipt, ReceiptsAfterAnswer DEF Calls
  <2> QED
    BY <2>1, <2>3, <2>4
<1> QED
  BY <1>2, <1>3, <1>4, <1>5 DEF GatewayStep, Calls

\* Cash, pages, reversals and the checkout's own steps make no call.
LEMMA OthersKeepCalls ==
    ASSUME Inv, Calls,
           UNCHANGED vars \/ StaffStep \/ CheckoutStep \/ \E r \in Requests : RecordPosCash(r)
    PROVE  Calls'
<1>1. /\ UNCHANGED <<method, opened, link, collected, settling>>
      /\ \A r \in Requests : requesting'[r] \in {Idle, requesting[r]}
  BY DEF vars, StaffStep, CheckoutStep, RecordPosCash, OpenQueue, PaymentConfirm,
         ReversePaymentReceipt, CheckoutRecover, CancelUnpaidCheckout, ExpireCheckout, Done,
         payment, gateway, actors, Inv, ActorsTyped
<1>2. CallsAreSingle'
  <2>1. 0 \notin Payments
    BY DEF Payments
  <2> QED
    BY <1>1, <2>1, CallsStand DEF Calls, Inv, ActorsTyped
<1>3. \A r \in receipts' : FromGateway(r.key) =>
         \/ opened[r.payment] # 0
         \/ \E t \in receipts : t.key = r.key /\ t.payment = r.payment
  <2>1. CASE UNCHANGED receipts
    BY <2>1
  <2>2. ASSUME NEW r \in Requests, RecordPosCash(r), ~UNCHANGED receipts
        PROVE  RecordVerifiedPayment(requesting[r].payment, requesting[r].owed, <<"pos", 0>>, 0)
    BY <2>2 DEF RecordPosCash
  <2>3. ~FromGateway(<<"pos", 0>>)
    BY DEF FromGateway
  <2>4. ASSUME NEW s \in Staff, NEW amount, PaymentConfirm(s, amount)
        PROVE  RecordVerifiedPayment(confirming[s].payment, amount,
                                     <<"manual", confirming[s].version>>, 0)
    BY <2>4 DEF PaymentConfirm
  <2>5. \A s \in Staff : ~FromGateway(<<"manual", confirming[s].version>>)
    BY DEF FromGateway
  <2>6. ASSUME NEW r \in receipts, ReversePaymentReceipt(r)
        PROVE  \A x \in receipts' :
                  \E t \in receipts : t.key = x.key /\ t.payment = x.payment
    <3>1. r \in Receipts
      BY DEF Inv, Books
    <3>2. /\ [r EXCEPT !.reversed = TRUE].key = r.key
          /\ [r EXCEPT !.reversed = TRUE].payment = r.payment
      BY <3>1 DEF Receipts
    <3>3. receipts' = (receipts \ {r}) \cup {[r EXCEPT !.reversed = TRUE]}
      BY <2>6 DEF ReversePaymentReceipt
    <3> QED
      BY <3>2, <3>3
  <2>7. UNCHANGED receipts \/ ~ (UNCHANGED vars \/ CheckoutStep \/ CheckoutRecover
             \/ \E s \in Staff, p \in Payments : OpenQueue(s, p))
    BY DEF vars, CheckoutStep, CheckoutRecover, CancelUnpaidCheckout, ExpireCheckout, OpenQueue
  <2> QED
    BY <2>1, <2>2, <2>3, <2>4, <2>5, <2>6, <2>7, RecordedReceipt DEF StaffStep
<1>4. OpenedFirst'
  BY <1>1, <1>3, ReceiptsAfterAnswer DEF Calls
<1> QED
  BY <1>2, <1>4 DEF Calls

LEMMA CallsKept == Inv /\ Calls /\ [Next]_vars => Calls'
BY StartKeepsCalls, RepeatKeepsCalls, AnswerKeepsCalls, EventsKeepCalls, OthersKeepCalls
   DEF Next, RequestStep

-----------------------------------------------------------------------------
(* Payments at the counter *)

\* A terminal belongs to the counter, and a receipt from the gateway is for the
\* whole amount, so that its checkout awaits no payment any more.
AtCounter ==
    /\ \A p \in Payments : method[p] = "terminal" => scene.surface = "pos"
    /\ \A w \in Workers :
          settling[w] # Idle => settling[w].owed <= 0 \/ settling[w].owed = Amount
    /\ \A r \in receipts : FromGateway(r.key) => r.amount = Amount /\ stage # "awaiting"

\* A receipt that is not reversed counts with its amount.
LEMMA ReceiptCounts ==
    ASSUME NEW rs, IsFiniteSet(rs), NEW r \in rs, r \in Receipts, ~r.reversed
    PROVE  PaidIn(rs, r.payment) >= r.amount /\ PaidIn(rs, r.payment) \in Nat
<1> DEFINE own == {r} \X (1 .. r.amount)
           live == LiveUnits({t \in rs : t.payment = r.payment})
<1>1. r.amount \in 1 .. Amount /\ r.amount \in Nat /\ ~(1 > r.amount)
  BY PaymentsAssumption DEF Receipts
<1>2. IsFiniteSet(1 .. r.amount) /\ Cardinality(1 .. r.amount) = r.amount
  BY <1>1, FS_Interval
<1>3. IsFiniteSet({r}) /\ Cardinality({r}) = 1
  BY FS_Singleton
<1>4. Cardinality(own) = 1 * r.amount
  BY <1>2, <1>3, FS_Product
<1>5. IsFiniteSet(live) /\ Cardinality(live) \in Nat
  <2>1. IsFiniteSet({t \in rs : t.payment = r.payment})
    BY FS_Subset
  <2> QED
    BY <2>1, MoneyIsFinite
<1>6. own \in SUBSET live
  BY <1>1, PaymentsAssumption DEF LiveUnits
<1>7. Cardinality(own) <= Cardinality(live)
  BY <1>5, <1>6, FS_Subset
<1> HIDE DEF own, live
<1> QED
  BY <1>1, <1>4, <1>5, <1>7 DEF PaidIn, live

\* At the gateway all of a payment is due, or nothing.
LEMMA AllOrNothing ==
    ASSUME Inv, AtCounter, NEW p \in Payments, AtGateway(p)
    PROVE  Balance(p) <= 0 \/ Balance(p) = Amount
<1> DEFINE own == {r \in receipts : r.payment = p}
<1>1. Paid(p) \in Nat
  BY PaidIsNatural DEF Paid, Inv, Books
<1>2. CASE \E r \in own : ~r.reversed
  <2>1. PICK r \in receipts : r.payment = p /\ ~r.reversed
    BY <1>2
  <2>2. r.amount = Amount
    BY <2>1 DEF AtCounter, AtGateway, Inv, Books, CashByHand
  <2>3. Paid(p) >= Amount
    BY <2>1, <2>2, ReceiptCounts DEF Paid, Inv, Books
  <2> QED
    BY <2>3 DEF Balance
<1>3. CASE \A r \in own : r.reversed
  <2>1. LiveUnits(own) = {}
    BY <1>3 DEF LiveUnits
  <2>2. Paid(p) = 0
    BY <2>1, FS_EmptySet DEF Paid, PaidIn
  <2> QED
    BY <2>2, PaymentsAssumption DEF Balance
<1> QED
  BY <1>2, <1>3

\* What is recorded for a gateway settles the checkout.
LEMMA RecordingLeaves ==
    ASSUME Inv, Inv', AtCounter, NEW p \in Payments, NEW key \in Keys, NEW amount \in Int,
           NEW reference \in Charges \cup {0}, RecordVerifiedPayment(p, amount, key, reference),
           FromGateway(key) => amount = Amount
    PROVE  \A r \in receipts' : FromGateway(r.key) => r.amount = Amount /\ stage' # "awaiting"
<1> DEFINE new == [payment |-> p, key |-> key, reference |-> reference,
                   amount |-> amount, reversed |-> FALSE]
<1>1. stage' = "awaiting" => stage = "awaiting"
  BY DEF RecordVerifiedPayment, RefreshAndMaterialize, AttemptMaterialize
<1>2. CASE receipts' = receipts
  BY <1>1, <1>2 DEF AtCounter
<1>3. CASE receipts' # receipts
  <2>1. receipts' = receipts \cup {new} /\ RefreshAndMaterialize(p)
    BY <1>3 DEF RecordVerifiedPayment
  <2>2. new.key = key /\ new.amount = amount /\ new.payment = p /\ ~new.reversed
    OBVIOUS
  <2> HIDE DEF new
  <2>3. ASSUME FromGateway(key)
        PROVE  stage' # "awaiting"
    <3>1. new \in receipts' /\ new \in Receipts /\ IsFiniteSet(receipts')
      BY <2>1 DEF Inv, Books
    <3>2. PaidIn(receipts', p) >= Amount /\ PaidIn(receipts', p) \in Nat
      BY <2>2, <2>3, <3>1, ReceiptCounts
    <3>3. StatusFor(p, PaidIn(receipts', p)) = "paid"
      BY <3>2, PaymentsAssumption DEF StatusFor
    <3> QED
      BY <2>1, <3>3 DEF RefreshAndMaterialize, AttemptMaterialize
  <2> QED
    BY <1>1, <2>1, <2>2, <2>3 DEF AtCounter
<1> QED
  BY <1>2, <1>3

\* Every step keeps it.
LEMMA CounterKept ==
    ASSUME Inv, Inv', AtCounter, [Next]_vars
    PROVE  AtCounter'
<1>1. scene' = scene
  BY DEF Next, vars, RequestStep, GatewayStep, StaffStep, CheckoutStep, checkout, StartPayment,
         RepeatPayment, GatewayAnswers, RequestFails, RecordPosCash, Collect, IgnoreEvent,
         DeliverWebhook, PaymentReconcile, SettleEvent, OpenQueue, PaymentConfirm,
         ReversePaymentReceipt, CheckoutRecover, CancelUnpaidCheckout, ExpireCheckout
<1>2. \A p \in Payments : method'[p] = "terminal" => scene.surface = "pos"
  <2>1. CASE \E r \in Requests, m \in Methods : StartPayment(r, m)
    <3>1. PICK m \in Methods, p \in Payments :
            m \in Eligible /\ method' = [method EXCEPT ![p] = m]
      BY <2>1 DEF StartPayment
    <3>2. m = "terminal" => scene.surface = "pos"
      BY <3>1, PaymentsAssumption DEF Eligible, Inv, CheckoutTyped
    <3> QED
      BY <3>1, <3>2 DEF AtCounter, Inv, PaymentsTyped
  <2>2. CASE ~\E r \in Requests, m \in Methods : StartPayment(r, m)
    <3>1. method' = method
      BY <2>2 DEF Next, vars, RequestStep, GatewayStep, StaffStep, CheckoutStep, payment,
         RepeatPayment, GatewayAnswers, RequestFails, RecordPosCash, Collect, IgnoreEvent,
         DeliverWebhook, PaymentReconcile, SettleEvent, OpenQueue, PaymentConfirm,
         ReversePaymentReceipt, CheckoutRecover, CancelUnpaidCheckout, ExpireCheckout
    <3> QED
      BY <3>1 DEF AtCounter
  <2> QED
    BY <2>1, <2>2
<1>3. \A w \in Workers :
         settling'[w] # Idle => settling'[w].owed <= 0 \/ settling'[w].owed = Amount
  <2>1. ASSUME NEW p \in Payments, NEW c \in Charges, NEW w \in Workers,
               DeliverWebhook(p, c, w) \/ PaymentReconcile(p, w)
        PROVE  \A v \in Workers :
                  settling'[v] # Idle => settling'[v].owed <= 0 \/ settling'[v].owed = Amount
    <3>1. AtGateway(p)
      BY <2>1 DEF DeliverWebhook, Announced, PaymentReconcile, AtGateway, Inv, ChargesAtGateway
    <3>2. PICK key : settling' = [settling EXCEPT ![w] =
            [payment |-> p, key |-> key, reference |-> Reference(p), owed |-> Balance(p),
             verified |-> Verified(p)]]
      BY <2>1 DEF DeliverWebhook, PaymentReconcile, ReadAndVerify
    <3>3. settling'[w].owed = Balance(p) /\ \A v \in Workers \ {w} : settling'[v] = settling[v]
      BY <3>2 DEF Inv, ActorsTyped
    <3> QED
      BY <3>1, <3>3, AllOrNothing DEF AtCounter
  <2>2. ASSUME NEW w \in Workers, SettleEvent(w)
        PROVE  \A v \in Workers : settling'[v] = Idle \/ settling'[v] = settling[v]
    BY <2>2 DEF SettleEvent, Inv, ActorsTyped
  <2>3. 1 \in Charges
    BY PaymentsAssumption DEF Charges
  <2>4. \/ settling' = settling
        \/ \E p \in Payments, c \in Charges, w \in Workers : DeliverWebhook(p, c, w)
        \/ \E p \in Payments, w \in Workers : PaymentReconcile(p, w)
        \/ \E w \in Workers : SettleEvent(w)
    BY DEF Next, vars, actors, RequestStep, GatewayStep, StaffStep, CheckoutStep, StartPayment,
         RepeatPayment, GatewayAnswers, RequestFails, RecordPosCash, Collect, IgnoreEvent,
         OpenQueue, PaymentConfirm, ReversePaymentReceipt, CheckoutRecover,
         CancelUnpaidCheckout, ExpireCheckout
  <2> QED
    BY <2>1, <2>2, <2>3, <2>4 DEF AtCounter
<1>4. \A r \in receipts' : FromGateway(r.key) => r.amount = Amount /\ stage' # "awaiting"
  <2>1. CASE QuietStep
    <3>1. UNCHANGED receipts /\ (stage' = "awaiting" => stage = "awaiting")
      BY <2>1 DEF QuietStep, vars, checkout, StartPayment, RepeatPayment, GatewayAnswers,
                  RequestFails, Collect, IgnoreEvent, DeliverWebhook, PaymentReconcile,
                  OpenQueue, CancelUnpaidCheckout, ExpireCheckout, CheckoutRecover,
                  AttemptMaterialize
    <3> QED
      BY <3>1 DEF AtCounter
  <2>2. ASSUME NEW r \in Requests, RecordPosCash(r)
        PROVE  \A t \in receipts' : FromGateway(t.key) => t.amount = Amount /\ stage' # "awaiting"
    <3>1. /\ requesting[r].payment \in Payments /\ requesting[r].owed \in Int
          /\ <<"pos", 0>> \in Keys /\ ~FromGateway(<<"pos", 0>>)
      BY <2>2 DEF RecordPosCash, Inv, ActorsTyped, Keys, FromGateway
    <3>2. CASE RecordVerifiedPayment(requesting[r].payment, requesting[r].owed, <<"pos", 0>>, 0)
      BY <3>1, <3>2, RecordingLeaves
    <3>3. CASE UNCHANGED <<receipts, stage>>
      BY <3>3 DEF AtCounter
    <3> QED
      BY <2>2, <3>2, <3>3 DEF RecordPosCash
  <2>3. ASSUME NEW w \in Workers, SettleEvent(w)
        PROVE  \A t \in receipts' : FromGateway(t.key) => t.amount = Amount /\ stage' # "awaiting"
    <3>1. PICK event : event = settling[w]
      OBVIOUS
    <3>2. /\ event.payment \in Payments /\ event.owed \in Int /\ event.key \in Keys
          /\ event.reference \in Charges \cup {0}
          /\ event.owed <= 0 \/ event.owed = Amount
      BY <2>3, <3>1 DEF SettleEvent, Inv, ActorsTyped, AtCounter
    <3>3. CASE /\ ~NothingDue(event)
               /\ RecordVerifiedPayment(event.payment, event.owed, event.key, event.reference)
      BY <3>2, <3>3, RecordingLeaves DEF NothingDue
    <3>4. CASE UNCHANGED <<receipts, stage>>
      BY <3>4 DEF AtCounter
    <3> QED
      BY <2>3, <3>1, <3>3, <3>4 DEF SettleEvent
  <2>4. ASSUME NEW s \in Staff, NEW amount \in 1 .. Amount, PaymentConfirm(s, amount)
        PROVE  \A t \in receipts' : FromGateway(t.key) => t.amount = Amount /\ stage' # "awaiting"
    <3>1. /\ confirming[s].payment \in Payments /\ amount \in Int
          /\ <<"manual", confirming[s].version>> \in Keys
          /\ ~FromGateway(<<"manual", confirming[s].version>>)
      BY <2>4, PaymentsAssumption DEF PaymentConfirm, Inv, ActorsTyped, Keys, FromGateway
    <3> QED
      BY <2>4, <3>1, RecordingLeaves DEF PaymentConfirm
  <2>5. ASSUME NEW r \in receipts, ReversePaymentReceipt(r)
        PROVE  \A t \in receipts' : FromGateway(t.key) => t.amount = Amount /\ stage' # "awaiting"
    <3>1. PICK gone : gone = [r EXCEPT !.reversed = TRUE]
      OBVIOUS
    <3>2. gone.key = r.key /\ gone.amount = r.amount
      BY <3>1 DEF Inv, Books, Receipts
    <3>3. /\ receipts' = (receipts \ {r}) \cup {gone}
          /\ stage' = stage \/ stage' = "materialized"
      BY <2>5, <3>1 DEF ReversePaymentReceipt, UndercutsRecovery
    <3> QED
      BY <3>2, <3>3 DEF AtCounter
  <2> QED
    BY <2>1, <2>2, <2>3, <2>4, <2>5 DEF Next, RequestStep, GatewayStep, StaffStep, CheckoutStep,
       QuietStep
<1> QED
  BY <1>1, <1>2, <1>3, <1>4 DEF AtCounter

\* A terminal's payment stays one.
LEMMA TerminalsStay ==
    ASSUME Inv, [Next]_vars, NEW p \in Payments, method[p] = "terminal"
    PROVE  method'[p] = "terminal"
<1>1. CASE \E r \in Requests, m \in Methods : StartPayment(r, m)
  BY <1>1 DEF StartPayment, Inv, PaymentsTyped
<1>2. CASE ~\E r \in Requests, m \in Methods : StartPayment(r, m)
  BY <1>2 DEF Next, vars, RequestStep, GatewayStep, StaffStep, CheckoutStep, payment,
     RepeatPayment, GatewayAnswers, RequestFails, RecordPosCash, Collect, IgnoreEvent,
     DeliverWebhook, PaymentReconcile, SettleEvent, OpenQueue, PaymentConfirm,
     ReversePaymentReceipt, CheckoutRecover, CancelUnpaidCheckout, ExpireCheckout
<1> QED
  BY <1>1, <1>2

\* Once a terminal's payment holds money, no other payment can be started.
LEMMA TerminalsAreLeft ==
    ASSUME Inv, AtCounter, MayStart, NEW p \in Payments, method[p] = "terminal"
    PROVE  Paid(p) = 0
<1>1. SUFFICES ASSUME Paid(p) # 0
               PROVE  FALSE
  OBVIOUS
<1>2. PICK r \in receipts : r.payment = p
  BY <1>1, NothingReceived DEF Paid
<1>3. FromGateway(r.key)
  BY <1>2 DEF Inv, Books, CashByHand
<1> QED
  BY <1>2, <1>3 DEF AtCounter, MayStart

-----------------------------------------------------------------------------
(* What a cancelled payment holds *)

\* A payment that is shown as due has received nothing, except at the terminal,
\* where a second answer is stored over what the first has brought.
UnpaidWhileDue ==
    \A p \in Payments :
        status[p] \in {"pending", "awaiting_customer"} => Paid(p) = 0 \/ method[p] = "terminal"

\* A payment's status moves in a quiet step when it is opened, answered or
\* cancelled, and then it holds no money.
LEMMA QuietStatus ==
    ASSUME Inv, Calls, AtCounter, UnpaidWhileDue, QuietStep
    PROVE  /\ UNCHANGED receipts
           /\ \A p \in Payments : status'[p] # status[p] =>
                Paid(p) = 0 \/ (method'[p] = "terminal" /\ status'[p] = "awaiting_customer")
<1>1. UNCHANGED receipts
  BY DEF QuietStep, vars, StartPayment, RepeatPayment, GatewayAnswers, RequestFails, Collect,
         IgnoreEvent, DeliverWebhook, PaymentReconcile, OpenQueue, CancelUnpaidCheckout,
         ExpireCheckout, CheckoutRecover
<1>2. ASSUME NEW r \in Requests, NEW m \in Methods, StartPayment(r, m)
      PROVE  \A p \in Payments : status'[p] # status[p] => Paid(p) = 0
  <2>1. PICK p \in Payments :
          /\ method[p] = "none"
          /\ status' = [q \in Payments |->
                CASE q = p -> IF m = "cash" THEN "pending" ELSE "awaiting_customer"
                  [] q # p /\ SwitchedAway(q, m) -> "cancelled"
                  [] OTHER -> status[q]]
    BY <1>2 DEF StartPayment
  <2>2. Paid(p) = 0
    BY <2>1, UnopenedIsUnpaid DEF Calls, OpenedFirst, AtGateway
  <2>3. \A q \in Payments : q # p /\ SwitchedAway(q, m) => Paid(q) = 0
    BY <1>2, TerminalsAreLeft DEF StartPayment, SwitchedAway, UnpaidWhileDue
  <2>4. \A q \in Payments : q # p /\ ~SwitchedAway(q, m) => status'[q] = status[q]
    <3>1. \A q \in Payments : status'[q] =
             CASE q = p -> IF m = "cash" THEN "pending" ELSE "awaiting_customer"
               [] q # p /\ SwitchedAway(q, m) -> "cancelled"
               [] OTHER -> status[q]
      BY <2>1, Zenon
    <3> QED
      BY <3>1
  <2> QED
    BY <2>2, <2>3, <2>4
<1>3. ASSUME NEW r \in Requests, GatewayAnswers(r)
      PROVE  \A p \in Payments : status'[p] # status[p] =>
                Paid(p) = 0 \/ (method'[p] = "terminal" /\ status'[p] = "awaiting_customer")
  <2>1. PICK p \in Payments : p = requesting[r].payment
    BY <1>3 DEF GatewayAnswers, Inv, ActorsTyped
  <2>2. /\ requesting[r] # Idle /\ method[p] \in {"card", "transfer", "terminal"}
        /\ status' = [status EXCEPT ![p] = "awaiting_customer"]
        /\ method' = method
    BY <1>3, <2>1 DEF GatewayAnswers
  <2>3. CASE method[p] = "terminal"
    BY <2>2, <2>3 DEF Inv, PaymentsTyped
  <2>4. CASE Online(p)
    <3>1. opened[p] = 0
      BY <2>1, <2>2, <2>4 DEF Calls, CallsAreSingle
    <3>2. Paid(p) = 0
      BY <2>2, <2>4, <3>1, UnopenedIsUnpaid DEF Calls, Online
    <3> QED
      BY <2>2, <3>2 DEF Inv, PaymentsTyped
  <2> QED
    BY <2>2, <2>3, <2>4 DEF Online
<1>4. ASSUME CancelUnpaidCheckout PROVE \A p \in Payments : Paid(p) = 0
  <2>1. TotalPaid = 0 /\ IsFiniteSet(receipts)
    BY <1>4 DEF CancelUnpaidCheckout, Unpaid, Inv, Books
  <2>2. \A p \in Payments : Paid(p) <= TotalPaid /\ Paid(p) \in Nat
    BY <2>1, PaidIsInTotal, PaidIsNatural DEF Paid, TotalPaid
  <2> QED
    BY <2>1, <2>2
<1>5. \/ \E r \in Requests, m \in Methods : StartPayment(r, m)
      \/ \E r \in Requests : GatewayAnswers(r)
      \/ CancelUnpaidCheckout
      \/ UNCHANGED status
  BY DEF QuietStep, vars, payment, RepeatPayment, RequestFails, Collect, IgnoreEvent, DeliverWebhook,
         PaymentReconcile, OpenQueue, ExpireCheckout, CheckoutRecover
<1>6. \A p \in Payments : status'[p] # status[p] =>
         Paid(p) = 0 \/ (method'[p] = "terminal" /\ status'[p] = "awaiting_customer")
  <2> SUFFICES ASSUME NEW p \in Payments, status'[p] # status[p], Paid(p) # 0
               PROVE  method'[p] = "terminal" /\ status'[p] = "awaiting_customer"
    OBVIOUS
  <2>1. PICK r \in Requests : GatewayAnswers(r)
    BY <1>2, <1>4, <1>5
  <2> QED
    BY <1>3, <2>1
<1> QED
  BY <1>1, <1>6

\* A posted payment shows what it has received and is never cancelled by it.
LEMMA PostedStatus ==
    ASSUME Inv, Inv', NEW p \in Payments, Posted(p)
    PROVE  /\ \A q \in Payments \ {p} : status'[q] = status[q] /\ Paid(q)' = Paid(q)
           /\ status'[p] # "cancelled"
           /\ status'[p] \in {"pending", "awaiting_customer"} => Paid(p)' = 0
<1>1. PaidIn(receipts', p) \in Nat
  BY PaidIsNatural DEF Inv, Books
<1>2. status'[p] = StatusFor(p, PaidIn(receipts', p))
  BY DEF Posted, Inv, PaymentsTyped
<1>3. \A q \in Payments \ {p} : status'[q] = status[q] /\ Paid(q)' = Paid(q)
  BY DEF Posted, Paid, Inv, PaymentsTyped
<1> QED
  BY <1>1, <1>2, <1>3, StatusTellsPaid DEF Paid

(***************************************************************************)
(* No payment that holds money is ever cancelled by a switch to another    *)
(* method or by giving up a sale: a second call to the gateway, a late     *)
(* answer or a repeated request cannot make a paid payment look due again  *)
(* (initiate_payment, cancel_unpaid_checkout).                             *)
(***************************************************************************)
THEOREM PaymentsSwitchSparesMoney == Spec => SwitchSparesMoney
<1>1. Init => Calls /\ AtCounter /\ UnpaidWhileDue
  <2>1. Init => CallsAreSingle /\ OpenedFirst
    BY DEF Init, CallsAreSingle, OpenedFirst
  <2>2. Init => UnpaidWhileDue
    BY DEF Init, UnpaidWhileDue
  <2>3. Init => AtCounter
    BY DEF Init, AtCounter
  <2> QED
    BY <2>1, <2>2, <2>3 DEF Calls
<1>2. Inv /\ Inv' /\ Calls /\ AtCounter /\ UnpaidWhileDue /\ [Next]_vars => UnpaidWhileDue'
  <2> SUFFICES ASSUME Inv, Inv', Calls, AtCounter, UnpaidWhileDue, [Next]_vars
               PROVE  UnpaidWhileDue'
    OBVIOUS
  <2>1. CASE QuietStep
    <3>1. \A p \in Payments : Paid(p)' = Paid(p)
      BY <2>1, QuietStatus DEF Paid
    <3> QED
      BY <2>1, <3>1, QuietStatus, TerminalsStay DEF UnpaidWhileDue
  <2>2. CASE \E p \in Payments : Posted(p)
    BY <2>2, PostedStatus, TerminalsStay DEF UnpaidWhileDue
  <2>3. CASE UNCHANGED <<receipts, status, confirmed, stage>>
    <3>1. \A p \in Payments : Paid(p)' = Paid(p) /\ status'[p] = status[p]
      BY <2>3 DEF Paid
    <3> QED
      BY <3>1, TerminalsStay DEF UnpaidWhileDue
  <2> QED
    BY <2>1, <2>2, <2>3, MoneySteps
<1>3. Inv /\ Inv' /\ Calls /\ AtCounter /\ UnpaidWhileDue /\ [Next]_vars =>
         [\A p \in Payments :
             status[p] # "cancelled" /\ status'[p] = "cancelled" =>
                PaidIn(receipts', p) = 0]_vars
  <2> SUFFICES ASSUME Inv, Inv', Calls, AtCounter, UnpaidWhileDue, [Next]_vars, NEW p \in Payments,
                      status[p] # "cancelled", status'[p] = "cancelled"
               PROVE  PaidIn(receipts', p) = 0
    OBVIOUS
  <2>1. CASE QuietStep
    BY <2>1, QuietStatus DEF Paid
  <2>2. ASSUME NEW q \in Payments, Posted(q) PROVE FALSE
    BY <2>2, PostedStatus
  <2> QED
    BY <2>1, <2>2, MoneySteps
<1> QED
  BY PaymentsInvariant, CallsKept, CounterKept, <1>1, <1>2, <1>3, PTL DEF Spec, SwitchSparesMoney
=============================================================================
