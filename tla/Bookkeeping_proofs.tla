-------------------------- MODULE Bookkeeping_proofs --------------------------
(***************************************************************************)
(* Theorems of Bookkeeping, for any offices, clerks, orders, receipts and  *)
(* bounds: first the books of trade, then the receipts of a web order.     *)
(***************************************************************************)
EXTENDS Bookkeeping, FiniteSetTheorems, WellFoundedInduction, TLAPS

-----------------------------------------------------------------------------
(* The books of trade *)

\* No request is left of a deleted order, and every receipt beyond the first
\* has an overwrite.
Booked ==
    /\ entries["purchase"] <= 1
    /\ receipts <= 1 + overwrites
    /\ stage["purchase"] \in {"none", "draft"} => receipts <= overwrites
    /\ receipt.at = "reading" => stage["purchase"] = "draft"
    /\ editing => stage["purchase"] \in {"draft", "received"} /\ office.edited
    /\ ~office.edited => overwrites = 0

\* What a payment request has read of its document.
Working(c) == clerk[c].at # "idle"

\* A document that was not made has no money, and a request has a document.
Begun ==
    /\ \A d \in Ledger!Docs : stage[d] = "none" =>
          d \notin kept /\ paid[d] = 0 /\ unbooked[d] = 0 /\ cash[d] = 0 /\ entries[d] = 0
    /\ \A c \in Clerks : Working(c) => stage[clerk[c].doc] # "none"
    /\ stage["purchase"] # "open" /\ stage["sale"] \notin {"draft", "received"}
    /\ recording > 0 => stage["expense"] # "none"
    /\ adjusting.at = "moving" => adjusting.stock + adjusting.by >= 0

\* What has been paid is in the ledger, of a document that is still there, and
\* covers what is shown as paid; what a request has added up is in the ledger,
\* even when a payment below zero has lowered the sum since.
Backed ==
    /\ \A d \in Ledger!Docs : cash[d] >= paid[d]
    /\ \A d \in kept : Ledger!Stands(d)
    /\ \A c \in Clerks : clerk[c].at = "adding" => clerk[c].before <= cash[clerk[c].doc]
    /\ ~office.edited =>
          /\ recording > 0 => recording = total["expense"]
          /\ \A c \in Clerks : Working(c) => clerk[c].total = total[clerk[c].doc]
          /\ \A d \in Ledger!Docs :
                /\ Ledger!Stands(d) /\ status[d] = "paid"
                /\ d = "expense" => ~office.dies /\ recording = 0
                => cash[d] >= total[d]
          /\ Ledger!Stands("sale") /\ order = "paid" => cash["sale"] >= total["sale"]

LedgerInv == Ledger!TypeOK /\ Booked /\ Begun /\ Backed

LEMMA Bounds ==
    /\ MaxAmount \in Nat /\ MaxReceipts \in Nat
    /\ MaxPaid \in Nat /\ MaxUnbooked \in Nat /\ MaxOverwrites \in Nat /\ MaxStock \in Nat
BY LedgerAssumption, ShopsAssumption

LEMMA OneOf ==
    /\ Ledger!Docs = {"purchase", "sale", "expense"}
    /\ Ledger!Amounts \subseteq 0 .. MaxAmount
    /\ Ledger!Amounts \subseteq Nat \ {0}
    /\ Ledger!Signed \subseteq Int
BY Bounds DEF Ledger!Docs, Ledger!Amounts, Ledger!Signed

\* What an order adds to the ledger.
LEMMA Recording ==
    ASSUME Ledger!TypeOK, NEW s, NEW n \in Nat, Ledger!EnsurePaymentRecorded(s, n)
    PROVE  /\ Ledger!Outstanding(s, n) \in Nat
           /\ Ledger!Outstanding(s, n) =
                 IF s = "paid" /\ entries["purchase"] = 0 /\ n > paid["purchase"]
                 THEN n - paid["purchase"] ELSE 0
           /\ cash' = [cash EXCEPT !["purchase"] = @ + Ledger!Outstanding(s, n)]
           /\ entries' = [entries EXCEPT !["purchase"] =
                             @ + (IF Ledger!Outstanding(s, n) > 0 THEN 1 ELSE 0)]
<1> DEFINE k == Ledger!Outstanding(s, n)
<1>1. cash \in [Ledger!Docs -> Nat] /\ entries \in [Ledger!Docs -> Nat] /\ paid \in [Ledger!Docs -> Int]
  BY DEF Ledger!TypeOK
<1>2. "purchase" \in Ledger!Docs
  BY OneOf
<1>3. paid["purchase"] \in Int /\ cash["purchase"] \in Nat /\ entries["purchase"] \in Nat
  BY <1>1, <1>2
<1>4. /\ k = IF s = "paid" /\ entries["purchase"] = 0 /\ n > paid["purchase"]
             THEN n - paid["purchase"] ELSE 0
      /\ k \in Nat
  BY <1>3 DEF Ledger!Outstanding, Ledger!Greater
<1>5. CASE k > 0
  <2>1. /\ cash' = [cash EXCEPT !["purchase"] = @ + k]
        /\ entries' = [entries EXCEPT !["purchase"] = @ + 1]
    BY <1>5 DEF Ledger!EnsurePaymentRecorded, Ledger!Post
  <2> HIDE DEF k
  <2> QED  BY <1>4, <1>5, <2>1 DEF k
<1>6. CASE ~(k > 0)
  <2>1. cash' = cash /\ entries' = entries /\ k = 0
    BY <1>4, <1>6 DEF Ledger!EnsurePaymentRecorded
  <2>2. cash' = [cash EXCEPT !["purchase"] = @ + k]
    BY <1>1, <1>3, <2>1
  <2>3. entries' = [entries EXCEPT !["purchase"] = @ + 0]
    BY <1>1, <1>3, <2>1
  <2> HIDE DEF k
  <2> QED  BY <1>4, <1>6, <2>1, <2>2, <2>3 DEF k
<1> QED  BY <1>5, <1>6

LEMMA LedgerInit == Ledger!Init => LedgerInv
<1> SUFFICES ASSUME Ledger!Init PROVE LedgerInv
  OBVIOUS
<1>1. \A c \in Clerks : clerk[c] = Ledger!Idle
  BY DEF Ledger!Init
<1>2. Ledger!Idle.at = "idle"
  BY DEF Ledger!Idle
<1>3. Ledger!TypeOK
  <2>1. /\ "none" \in Ledger!Stages /\ "unpaid" \in Ledger!Pays
        /\ 0 \in 0 .. MaxAmount /\ 0 \in 0 .. MaxOverwrites
    BY Bounds DEF Ledger!Stages, Ledger!Pays
  <2>2. stage \in [Ledger!Docs -> Ledger!Stages] /\ status \in [Ledger!Docs -> Ledger!Pays]
    BY <2>1 DEF Ledger!Init
  <2>3. /\ total \in [Ledger!Docs -> 0 .. MaxAmount] /\ paid \in [Ledger!Docs -> Int]
        /\ kept \subseteq Ledger!Docs /\ unbooked \in [Ledger!Docs -> Nat] /\ lines \in Nat
    BY <2>1 DEF Ledger!Init
  <2>4. cash \in [Ledger!Docs -> Nat] /\ entries \in [Ledger!Docs -> Nat]
    BY DEF Ledger!Init
  <2>5. clerk \in [Clerks -> {Ledger!Idle} \cup Ledger!Payments]
    BY DEF Ledger!Init
  <2>6. office \in Offices /\ order \in {"none", "paid", "unpaid"} /\ editing \in BOOLEAN
    BY DEF Ledger!Init
  <2>7. /\ receipts \in Nat /\ overwrites \in 0 .. MaxOverwrites /\ stock \in Nat /\ journal \in Int
        /\ recording \in 0 .. MaxAmount
    BY <2>1 DEF Ledger!Init
  <2>8. receipt \in {Ledger!Idle} \cup Ledger!Reading /\ adjusting \in {Ledger!Idle} \cup Ledger!Moving
    BY DEF Ledger!Init
  <2> QED  BY <2>2, <2>3, <2>4, <2>5, <2>6, <2>7, <2>8 DEF Ledger!TypeOK
<1>4. Booked /\ Begun
  BY <1>1, <1>2, OneOf DEF Ledger!Init, Booked, Begun, Working
<1>5. Backed
  BY <1>1, <1>2, OneOf DEF Ledger!Init, Backed, Working, Ledger!Stands, Ledger!Standing
<1> QED  BY <1>3, <1>4, <1>5 DEF LedgerInv

LEMMA Requests2 ==
    ASSUME Ledger!TypeOK, NEW c \in Clerks, Working(c)
    PROVE  /\ clerk[c] \in Ledger!Payments
           /\ clerk[c].doc \in Ledger!Docs /\ clerk[c].amount \in Ledger!Signed
           /\ clerk[c].total \in 0 .. MaxAmount
           /\ clerk[c].at = "adding" => clerk[c].before \in Int
<1>1. clerk[c] \in {Ledger!Idle} \cup Ledger!Payments
  BY DEF Ledger!TypeOK
<1>2. clerk[c] # Ledger!Idle
  BY DEF Working, Ledger!Idle
<1> QED  BY <1>1, <1>2 DEF Ledger!Payments

\* A document is made.
LEMMA CreatePurchaseKeeps ==
    ASSUME LedgerInv, NEW s \in Ledger!Pays, NEW n \in Ledger!Amounts, NEW now \in 0 .. n,
           Ledger!CreatePurchase(s, n, now)
    PROVE  LedgerInv'
<1>1. Ledger!TypeOK /\ Booked /\ Begun /\ Backed
  BY DEF LedgerInv
<1>2. /\ stage["purchase"] = "none"
      /\ stage' = [stage EXCEPT !["purchase"] = "draft"]
      /\ status' = [status EXCEPT !["purchase"] = s]
      /\ total' = [total EXCEPT !["purchase"] = n]
      /\ lines' \in 1 .. office.lines
      /\ UNCHANGED <<office, unbooked, order, receipts, overwrites, stock, journal, clerk, editing,
                     receipt, adjusting, recording>>
  BY DEF Ledger!CreatePurchase, Ledger!New, Ledger!requests
<1>3. "purchase" \in Ledger!Docs /\ n \in Nat /\ n > 0 /\ n <= MaxAmount /\ now \in Nat
  BY OneOf, Bounds DEF Ledger!Amounts
<1>4. paid["purchase"] = 0 /\ cash["purchase"] = 0 /\ entries["purchase"] = 0
  BY <1>1, <1>2, <1>3 DEF Begun
<1> DEFINE a == IF s = "partial" /\ now < n THEN now ELSE 0
           b == IF s = "paid" THEN n ELSE a
           e == IF s = "paid" THEN 1 ELSE 0
<1>11. /\ paid' = [paid EXCEPT !["purchase"] = a]
       /\ cash' = [cash EXCEPT !["purchase"] = b]
       /\ entries' = [entries EXCEPT !["purchase"] = e]
  <2>1. CASE s = "partial" /\ now < n
    <3>1. /\ paid' = [paid EXCEPT !["purchase"] = now]
          /\ cash' = [cash EXCEPT !["purchase"] = now]
          /\ entries' = entries
      BY <2>1 DEF Ledger!CreatePurchase
    <3>2. entries' = [entries EXCEPT !["purchase"] = 0]
      BY <3>1, <1>1, <1>4 DEF Ledger!TypeOK
    <3> QED  BY <2>1, <3>1, <3>2, <1>3
  <2>2. CASE ~(s = "partial" /\ now < n)
    <3> DEFINE k == Ledger!Outstanding(s, n)
    <3>1. Ledger!EnsurePaymentRecorded(s, n) /\ paid' = paid
      BY <2>2 DEF Ledger!CreatePurchase
    <3>2. /\ k \in Nat /\ k = IF s = "paid" THEN n ELSE 0
          /\ cash' = [cash EXCEPT !["purchase"] = @ + k]
          /\ entries' = [entries EXCEPT !["purchase"] = @ + (IF k > 0 THEN 1 ELSE 0)]
      BY <1>1, <1>3, <1>4, <3>1, Recording
    <3> HIDE DEF k
    <3>3. paid' = [paid EXCEPT !["purchase"] = 0]
      BY <3>1, <1>1, <1>4 DEF Ledger!TypeOK
    <3>4. 0 + k = b /\ 0 + (IF k > 0 THEN 1 ELSE 0) = e /\ a = 0
      BY <2>2, <3>2, <1>3
    <3>5. cash' = [cash EXCEPT !["purchase"] = b]
      BY <3>2, <3>4, <1>4
    <3>6. entries' = [entries EXCEPT !["purchase"] = e]
      BY <3>2, <3>4, <1>4
    <3> QED  BY <3>3, <3>4, <3>5, <3>6
  <2> QED  BY <2>1, <2>2
<1>5. a \in Nat /\ b \in Nat /\ e \in {0, 1} /\ b >= a /\ (s = "paid" => b = n)
  BY <1>3
<1>12. kept' \in {kept, kept \cup {"purchase"}} /\ lines' \in Nat
  BY <1>1, <1>2, Bounds DEF Ledger!CreatePurchase, Ledger!TypeOK
<1> HIDE DEF a, b, e
<1>6. Ledger!TypeOK'
  <2>1. kept' \subseteq Ledger!Docs
    BY <1>1, <1>3, <1>12 DEF Ledger!TypeOK
  <2> QED  BY <1>1, <1>2, <1>3, <1>5, <1>11, <1>12, <2>1 DEF Ledger!TypeOK, Ledger!Stages
<1>7. Booked'
  BY <1>1, <1>2, <1>3, <1>5, <1>11 DEF Ledger!TypeOK, Booked
<1>8. Begun'
  BY <1>1, <1>2, <1>3, <1>5, <1>11, <1>12, OneOf DEF Ledger!TypeOK, Begun, Working
<1>9. \A c \in Clerks : Working(c) => clerk[c].doc # "purchase"
  BY <1>1, <1>2 DEF Begun
<1>10. Backed'
  BY <1>1, <1>2, <1>3, <1>5, <1>11, <1>12, <1>9, OneOf, Requests2
     DEF Ledger!TypeOK, Backed, Working, Ledger!Stands, Ledger!Standing
<1> QED  BY <1>6, <1>7, <1>8, <1>10 DEF LedgerInv

\* What a request has added up stays in a ledger that only grows.
LEMMA AddedUp ==
    ASSUME LedgerInv, \A d \in Ledger!Docs : cash'[d] >= cash[d] /\ cash'[d] \in Nat
    PROVE  \A c \in Clerks : clerk[c].at = "adding" => clerk[c].before <= cash'[clerk[c].doc]
<1> SUFFICES ASSUME NEW c \in Clerks, clerk[c].at = "adding"
             PROVE  clerk[c].before <= cash'[clerk[c].doc]
  OBVIOUS
<1>1. clerk[c].doc \in Ledger!Docs /\ clerk[c].before \in Int
  BY Requests2 DEF LedgerInv, Working
<1>2. clerk[c].before <= cash[clerk[c].doc] /\ cash[clerk[c].doc] \in Nat
  BY <1>1 DEF LedgerInv, Backed, Ledger!TypeOK
<1> QED  BY <1>1, <1>2

\* A purchase order is written back, or received.
LEMMA SavePurchaseKeeps ==
    ASSUME LedgerInv, NEW s \in Ledger!Pays, NEW n \in Ledger!Amounts, Ledger!SavePurchase(s, n)
    PROVE  LedgerInv'
<1>1. Ledger!TypeOK /\ Booked /\ Begun /\ Backed
  BY DEF LedgerInv
<1>2. /\ editing /\ receipt = Ledger!Idle
      /\ stage["purchase"] = "received" => overwrites < MaxOverwrites
      /\ stage' = [stage EXCEPT !["purchase"] = "draft"]
      /\ status' = [status EXCEPT !["purchase"] = s]
      /\ total' = [total EXCEPT !["purchase"] = n]
      /\ overwrites' = overwrites + (IF stage["purchase"] = "received" THEN 1 ELSE 0)
      /\ lines' \in 1 .. office.lines
      /\ UNCHANGED <<office, paid, kept, unbooked, order, receipts, stock, journal, clerk, receipt,
                     adjusting, recording>>
  BY DEF Ledger!SavePurchase, Ledger!Unlocked
<1>12. editing' = FALSE
  BY DEF Ledger!SavePurchase
<1>3. "purchase" \in Ledger!Docs /\ n \in Nat /\ n <= MaxAmount
  BY OneOf, Bounds DEF Ledger!Amounts
<1>4. stage["purchase"] \in {"draft", "received"} /\ office.edited
  BY <1>1, <1>2 DEF Booked
<1> DEFINE k == Ledger!Outstanding(s, n)
<1>5. /\ k \in Nat
      /\ k > 0 => entries["purchase"] = 0
      /\ cash' = [cash EXCEPT !["purchase"] = @ + k]
      /\ entries' = [entries EXCEPT !["purchase"] = @ + (IF k > 0 THEN 1 ELSE 0)]
  <2>1. Ledger!EnsurePaymentRecorded(s, n)
    BY DEF Ledger!SavePurchase
  <2> QED  BY <2>1, <1>1, <1>3, Recording
<1> HIDE DEF k
<1>6. Ledger!TypeOK'
  <2>1. overwrites' \in 0 .. MaxOverwrites
    BY <1>1, <1>2, Bounds DEF Ledger!TypeOK
  <2>2. editing' \in BOOLEAN
    BY <1>12
  <2>3. lines' \in Nat
    <3>1. office.lines \in Nat
      BY <1>1, LedgerAssumption DEF Ledger!TypeOK
    <3> QED  BY <1>2, <3>1
  <2> QED  BY <1>1, <1>2, <1>3, <1>5, <2>1, <2>2, <2>3 DEF Ledger!TypeOK, Ledger!Stages
<1>7. Booked'
  <2>1. entries'["purchase"] <= 1
    BY <1>1, <1>3, <1>5 DEF Ledger!TypeOK, Booked
  <2>2. receipts' <= overwrites' /\ overwrites' \in Nat
    BY <1>1, <1>2, <1>4 DEF Ledger!TypeOK, Booked
  <2>3. receipt'.at # "reading"
    BY <1>2 DEF Ledger!Idle
  <2>4. (editing' => stage'["purchase"] \in {"draft", "received"}) /\ office'.edited
    BY <1>2, <1>4, <1>12
  <2>5. receipts' \in Nat
    BY <1>1, <1>2 DEF Ledger!TypeOK
  <2>6. receipts' <= 1 + overwrites'
    <3>1. overwrites' \in Int /\ receipts' \in Int
      BY <2>2, <2>5
    <3>2. \A x, y \in Int : x <= y => x <= 1 + y
      OBVIOUS
    <3> QED  BY <2>2, <3>1, <3>2
  <2> QED  BY <2>1, <2>2, <2>3, <2>4, <2>6 DEF Booked
<1>8. Begun'
  BY <1>1, <1>2, <1>3, <1>4, <1>5, OneOf DEF Ledger!TypeOK, Begun, Working
<1>9. Backed'
  <2>1. \A d \in Ledger!Docs : cash'[d] >= cash[d] /\ cash'[d] \in Nat
    BY <1>1, <1>5 DEF Ledger!TypeOK
  <2>2. \A d \in Ledger!Docs : paid'[d] = paid[d] /\ cash[d] >= paid[d] /\ paid[d] \in Int /\ cash[d] \in Nat
    BY <1>1, <1>2 DEF Backed, Ledger!TypeOK
  <2>3. \A d \in Ledger!Docs : cash'[d] >= paid'[d]
    BY <2>1, <2>2
  <2>4. \A d \in Ledger!Docs : Ledger!Stands(d) => Ledger!Stands(d)'
    BY <1>1, <1>2 DEF Ledger!TypeOK, Ledger!Stands, Ledger!Standing
  <2>5. \A c \in Clerks : clerk'[c].at = "adding" => clerk'[c].before <= cash'[clerk'[c].doc]
    BY <1>1, <1>2, <2>1, <2>2, AddedUp
  <2>6. \A d \in kept' : Ledger!Stands(d)'
    BY <1>1, <1>2, <2>4 DEF Backed, Ledger!TypeOK
  <2> QED  BY <1>1, <1>2, <1>4, <2>3, <2>5, <2>6 DEF Backed
<1> QED  BY <1>6, <1>7, <1>8, <1>9 DEF LedgerInv

LEMMA ReceiveKeeps ==
    ASSUME LedgerInv, Ledger!Receive
    PROVE  LedgerInv'
<1>1. Ledger!TypeOK /\ Booked /\ Begun /\ Backed
  BY DEF LedgerInv
<1>2. /\ receipt.at = "reading"
      /\ stock' = receipt.stock + 1
      /\ journal' = journal + lines
      /\ receipts' = receipts + 1
      /\ stage' = [stage EXCEPT !["purchase"] = "received"]
      /\ receipt' = Ledger!Idle
      /\ UNCHANGED <<office, status, total, paid, kept, unbooked, order, lines, overwrites, clerk, editing,
                     adjusting, recording>>
  BY DEF Ledger!Receive
<1>3. "purchase" \in Ledger!Docs /\ total["purchase"] \in Nat
  BY <1>1, OneOf DEF Ledger!TypeOK
<1>4. stage["purchase"] = "draft"
  BY <1>1, <1>2 DEF Booked
<1> DEFINE k == Ledger!Outstanding(status["purchase"], total["purchase"])
<1>5. /\ k \in Nat
      /\ k > 0 => entries["purchase"] = 0
      /\ cash' = [cash EXCEPT !["purchase"] = @ + k]
      /\ entries' = [entries EXCEPT !["purchase"] = @ + (IF k > 0 THEN 1 ELSE 0)]
  <2>1. Ledger!EnsurePaymentRecorded(status["purchase"], total["purchase"])
    BY DEF Ledger!Receive
  <2> QED  BY <2>1, <1>1, <1>3, Recording
<1> HIDE DEF k
<1>6. Ledger!TypeOK'
  <2>1. receipt.stock \in Nat
    BY <1>1, <1>2 DEF Ledger!TypeOK, Ledger!Reading, Ledger!Idle
  <2>2. stage' \in [Ledger!Docs -> Ledger!Stages]
    BY <1>1, <1>2 DEF Ledger!TypeOK, Ledger!Stages
  <2>6. cash["purchase"] + k \in Nat /\ entries["purchase"] + (IF k > 0 THEN 1 ELSE 0) \in Nat
    BY <1>1, <1>3, <1>5 DEF Ledger!TypeOK
  <2>4. cash' \in [Ledger!Docs -> Nat]
    BY <1>1, <1>5, <2>6 DEF Ledger!TypeOK
  <2>5. entries' \in [Ledger!Docs -> Nat]
    BY <1>1, <1>5, <2>6 DEF Ledger!TypeOK
  <2>3. stock' \in Nat /\ journal' \in Int /\ receipts' \in Nat
    BY <1>1, <1>2, <2>1 DEF Ledger!TypeOK
  <2> QED  BY <1>1, <1>2, <2>2, <2>3, <2>4, <2>5 DEF Ledger!TypeOK
<1>7. Booked'
  <2>1. entries'["purchase"] <= 1
    BY <1>1, <1>3, <1>5 DEF Ledger!TypeOK, Booked
  <2>2. receipts' <= 1 + overwrites'
    BY <1>1, <1>2, <1>4 DEF Ledger!TypeOK, Booked
  <2>3. receipt'.at # "reading" /\ stage'["purchase"] = "received"
    BY <1>1, <1>2, <1>3 DEF Ledger!Idle, Ledger!TypeOK
  <2>4. (editing' => office'.edited) /\ (~office'.edited => overwrites' = 0)
    BY <1>1, <1>2 DEF Booked
  <2> QED  BY <2>1, <2>2, <2>3, <2>4 DEF Booked
<1>8. Begun'
  BY <1>1, <1>2, <1>3, <1>4, <1>5, OneOf DEF Ledger!TypeOK, Begun, Working
<1>9. Backed'
  <2>1. \A d \in Ledger!Docs : cash'[d] >= cash[d] /\ cash'[d] \in Nat
    BY <1>1, <1>5 DEF Ledger!TypeOK
  <2>2. \A d \in Ledger!Docs : paid'[d] = paid[d] /\ cash[d] >= paid[d] /\ paid[d] \in Int /\ cash[d] \in Nat
                               /\ total[d] \in Nat
    BY <1>1, <1>2, Bounds DEF Backed, Ledger!TypeOK
  <2>3. \A d \in Ledger!Docs : cash'[d] >= paid'[d]
    BY <2>1, <2>2
  <2>4. \A d \in Ledger!Docs : Ledger!Stands(d)' <=> Ledger!Stands(d)
    BY <1>1, <1>2, <1>4 DEF Ledger!TypeOK, Ledger!Stands, Ledger!Standing
  <2>5. \A d \in Ledger!Docs : cash[d] >= total[d] => cash'[d] >= total'[d]
    BY <1>2, <2>1, <2>2
  <2>6. \A c \in Clerks : clerk'[c].at = "adding" => clerk'[c].before <= cash'[clerk'[c].doc]
    BY <1>2, <2>1, <2>2, AddedUp
  <2>7. \A d \in kept' : Ledger!Stands(d)'
    BY <1>1, <1>2, <2>4 DEF Backed, Ledger!TypeOK
  <2> QED  BY <1>1, <1>2, <2>3, <2>4, <2>5, <2>6, <2>7, OneOf DEF Backed, Working
<1> QED  BY <1>6, <1>7, <1>8, <1>9 DEF LedgerInv

\* Steps that leave documents and money alone, apart from requests.
LEMMA RequestsKeep ==
    ASSUME LedgerInv, Ledger!TypeOK',
           UNCHANGED <<office, stage, status, total, paid, kept, unbooked, cash, entries, order, lines,
                  receipts, overwrites>>,
           \A c \in Clerks : Working(c)' =>
              \/ clerk'[c] = clerk[c]
              \/ /\ stage[clerk'[c].doc] # "none"
                 /\ clerk'[c].total = total[clerk'[c].doc] \/ office.edited
                 /\ clerk'[c].at = "adding" => clerk'[c].before <= cash[clerk'[c].doc],
           receipt'.at = "reading" => stage["purchase"] = "draft",
           editing' => stage["purchase"] \in {"draft", "received"} /\ office.edited,
           recording' = recording \/ (recording' = 0 /\ office.dies),
           adjusting'.at = "moving" => adjusting'.stock + adjusting'.by >= 0
    PROVE  LedgerInv'
<1>1. Ledger!TypeOK /\ Booked /\ Begun /\ Backed
  BY DEF LedgerInv
<1>2. Booked'
  BY <1>1 DEF Booked
<1>3. Begun'
  BY <1>1 DEF Begun, Working
<1>4. Backed'
  <2>1. \A d \in Ledger!Docs : Ledger!Stands(d)' <=> Ledger!Stands(d)
    BY DEF Ledger!Stands
  <2>2. \A c \in Clerks : clerk'[c].at = "adding" => clerk'[c].before <= cash[clerk'[c].doc]
    BY <1>1 DEF Backed, Working
  <2>3. ASSUME ~office.edited
        PROVE  \A c \in Clerks : Working(c)' => clerk'[c].total = total[clerk'[c].doc]
    BY <1>1, <2>3 DEF Backed, Working
  <2>4. recording' > 0 => recording' = recording
    OBVIOUS
  <2>5. office.dies \/ recording' = recording
    OBVIOUS
  <2>6. (\A d \in Ledger!Docs : cash'[d] >= paid'[d]) /\ \A d \in kept' : Ledger!Stands(d)'
    BY <1>1, <2>1 DEF Backed, Ledger!TypeOK
  <2>7. ASSUME ~office.edited, NEW d \in Ledger!Docs, Ledger!Stands(d)', status[d] = "paid",
               d = "expense" => ~office.dies /\ recording' = 0
        PROVE  cash[d] >= total[d]
    BY <1>1, <2>1, <2>5, <2>7 DEF Backed
  <2>8. ASSUME ~office.edited, Ledger!Stands("sale")', order = "paid"
        PROVE  cash["sale"] >= total["sale"]
    BY <1>1, <2>1, <2>8, OneOf DEF Backed
  <2>9. ~office.edited => (recording' > 0 => recording' = total["expense"])
    BY <1>1, <2>4 DEF Backed
  <2> QED  BY <2>2, <2>3, <2>6, <2>7, <2>8, <2>9 DEF Backed
<1> QED  BY <1>2, <1>3, <1>4 DEF LedgerInv

\* Sales and expenses.
LEMMA CreateSaleKeeps ==
    ASSUME LedgerInv, NEW s \in Ledger!Pays, NEW n \in Ledger!Amounts, NEW fromOrder \in BOOLEAN,
           Ledger!CreateSale(s, n, fromOrder)
    PROVE  LedgerInv'
<1>1. Ledger!TypeOK /\ Booked /\ Begun /\ Backed
  BY DEF LedgerInv
<1>2. /\ stage["sale"] = "none"
      /\ stage' = [stage EXCEPT !["sale"] = "open"]
      /\ status' = [status EXCEPT !["sale"] = s]
      /\ total' = [total EXCEPT !["sale"] = n]
      /\ s \in {"paid", "unpaid"}
      /\ order' \in {s, "none"}
      /\ UNCHANGED <<office, paid, kept, unbooked, lines, receipts, overwrites, stock, journal, clerk,
                     editing, receipt, adjusting, recording>>
  BY DEF Ledger!CreateSale, Ledger!New, Ledger!goods, Ledger!requests
<1>3. "sale" \in Ledger!Docs /\ n \in Nat /\ n > 0 /\ n <= MaxAmount
  BY OneOf, Bounds DEF Ledger!Amounts
<1>4. "sale" \notin kept /\ paid["sale"] = 0 /\ cash["sale"] = 0 /\ entries["sale"] = 0
  BY <1>1, <1>2, <1>3 DEF Begun
<1> DEFINE b == IF s = "paid" THEN n ELSE 0
           e == IF s = "paid" THEN 1 ELSE 0
<1>5. /\ cash' = [cash EXCEPT !["sale"] = b]
      /\ entries' = [entries EXCEPT !["sale"] = e]
  <2>1. CASE s = "paid"
    <3>1. /\ cash' = [cash EXCEPT !["sale"] = @ + n]
          /\ entries' = [entries EXCEPT !["sale"] = @ + 1]
      BY <2>1 DEF Ledger!CreateSale, Ledger!Post
    <3>2. 0 + n = b /\ 0 + 1 = e
      BY <2>1, <1>3
    <3> QED  BY <3>1, <3>2, <1>4
  <2>2. CASE s # "paid"
    <3>1. cash' = cash /\ entries' = entries
      BY <2>2 DEF Ledger!CreateSale
    <3> QED  BY <2>2, <3>1, <1>1, <1>4 DEF Ledger!TypeOK
  <2> QED  BY <2>1, <2>2
<1>6. b \in Nat /\ e \in Nat /\ (s = "paid" => b >= n)
  BY <1>3
<1> HIDE DEF b, e
<1>7. Ledger!TypeOK'
  <2>1. stage' \in [Ledger!Docs -> Ledger!Stages] /\ status' \in [Ledger!Docs -> Ledger!Pays]
    BY <1>1, <1>2 DEF Ledger!TypeOK, Ledger!Stages
  <2>2. total' \in [Ledger!Docs -> 0 .. MaxAmount]
    BY <1>1, <1>2, <1>3, Bounds DEF Ledger!TypeOK
  <2>3. cash' \in [Ledger!Docs -> Nat] /\ entries' \in [Ledger!Docs -> Nat]
    BY <1>1, <1>5, <1>6 DEF Ledger!TypeOK
  <2>4. order' \in {"none", "paid", "unpaid"}
    BY <1>2
  <2> QED  BY <1>1, <1>2, <2>1, <2>2, <2>3, <2>4 DEF Ledger!TypeOK
<1>8. Booked'
  <2>1. entries'["purchase"] = entries["purchase"] /\ stage'["purchase"] = stage["purchase"]
    BY <1>1, <1>2, <1>5, OneOf DEF Ledger!TypeOK
  <2> QED  BY <1>1, <1>2, <2>1 DEF Booked
<1>9. Begun'
  <2>1. \A d \in Ledger!Docs : d # "sale" =>
          /\ stage'[d] = stage[d] /\ paid'[d] = paid[d] /\ cash'[d] = cash[d] /\ entries'[d] = entries[d]
    BY <1>1, <1>2, <1>5 DEF Ledger!TypeOK
  <2>2. stage'["sale"] = "open"
    BY <1>1, <1>2, <1>3 DEF Ledger!TypeOK
  <2> QED  BY <1>1, <1>2, <2>1, <2>2, OneOf, Requests2 DEF Begun, Working
<1>10. \A c \in Clerks : Working(c) => clerk[c].doc # "sale"
  BY <1>1, <1>2 DEF Begun
<1>11. Backed'
  <2>1. \A d \in Ledger!Docs : d # "sale" =>
          /\ paid'[d] = paid[d] /\ cash'[d] = cash[d] /\ total'[d] = total[d] /\ status'[d] = status[d]
          /\ Ledger!Stands(d)' <=> Ledger!Stands(d)
    BY <1>1, <1>2, <1>5 DEF Ledger!TypeOK, Ledger!Stands
  <2>2. /\ stage'["sale"] = "open" /\ paid'["sale"] = 0 /\ cash'["sale"] = b /\ total'["sale"] = n
        /\ status'["sale"] = s
    BY <1>1, <1>2, <1>3, <1>4, <1>5 DEF Ledger!TypeOK
  <2>3. Ledger!Stands("sale")'
    BY <2>2 DEF Ledger!Stands, Ledger!Standing
  <2>4. \A d \in Ledger!Docs : cash'[d] >= paid'[d]
    <3> TAKE d \in Ledger!Docs
    <3>1. CASE d = "sale"
      BY <3>1, <2>2, <1>6
    <3>2. CASE d # "sale"
      BY <3>2, <2>1, <1>1 DEF Backed
    <3> QED  BY <3>1, <3>2
  <2>9. \A d \in kept' : Ledger!Stands(d)'
    BY <1>1, <1>2, <1>4, <2>1 DEF Backed, Ledger!TypeOK
  <2>5. \A c \in Clerks : clerk'[c].at = "adding" => clerk'[c].before <= cash'[clerk'[c].doc]
    <3>1. \A d \in Ledger!Docs : cash'[d] >= cash[d] /\ cash'[d] \in Nat
      BY <1>1, <1>4, <1>6, <2>1, <2>2 DEF Ledger!TypeOK
    <3> QED  BY <1>2, <3>1, AddedUp
  <2>6. ASSUME ~office.edited
        PROVE  /\ recording' > 0 => recording' = total'["expense"]
               /\ \A c \in Clerks : Working(c)' => clerk'[c].total = total'[clerk'[c].doc]
    BY <1>1, <1>2, <1>10, <2>1, <2>6, OneOf, Requests2 DEF Backed, Working
  <2>7. ASSUME ~office.edited, NEW d \in Ledger!Docs, Ledger!Stands(d)', status'[d] = "paid",
               d = "expense" => ~office.dies /\ recording = 0
        PROVE  cash'[d] >= total'[d]
    <3>1. CASE d = "sale"
      BY <3>1, <2>2, <2>7, <1>6
    <3>2. CASE d # "sale"
      BY <3>2, <2>1, <2>7, <1>1 DEF Backed
    <3> QED  BY <3>1, <3>2
  <2>8. order' = "paid" => cash'["sale"] >= total'["sale"]
    BY <1>2, <1>6, <2>2
  <2> QED  BY <1>2, <2>4, <2>5, <2>6, <2>7, <2>8, <2>9 DEF Backed
<1> QED  BY <1>7, <1>8, <1>9, <1>11 DEF LedgerInv

LEMMA CreateExpenseKeeps ==
    ASSUME LedgerInv, NEW s \in Ledger!Pays, NEW n \in Ledger!Amounts, Ledger!CreateExpense(s, n)
    PROVE  LedgerInv'
<1>1. Ledger!TypeOK /\ Booked /\ Begun /\ Backed
  BY DEF LedgerInv
<1>2. /\ stage["expense"] = "none"
      /\ stage' = [stage EXCEPT !["expense"] = "open"]
      /\ status' = [status EXCEPT !["expense"] = s]
      /\ total' = [total EXCEPT !["expense"] = n]
      /\ s \in {"paid", "unpaid"}
      /\ recording' = IF s = "paid" THEN n ELSE 0
      /\ UNCHANGED <<office, paid, kept, unbooked, cash, entries, order, lines, receipts, overwrites,
                     stock, journal, clerk, editing, receipt, adjusting>>
  BY DEF Ledger!CreateExpense, Ledger!New, Ledger!goods, Ledger!money
<1>3. "expense" \in Ledger!Docs /\ n \in Nat /\ n > 0 /\ n <= MaxAmount
  BY OneOf, Bounds DEF Ledger!Amounts
<1>4. "expense" \notin kept /\ paid["expense"] = 0 /\ cash["expense"] = 0 /\ entries["expense"] = 0
  BY <1>1, <1>2, <1>3 DEF Begun
<1>7. Ledger!TypeOK'
  <2>1. stage' \in [Ledger!Docs -> Ledger!Stages] /\ status' \in [Ledger!Docs -> Ledger!Pays]
    BY <1>1, <1>2 DEF Ledger!TypeOK, Ledger!Stages
  <2>2. total' \in [Ledger!Docs -> 0 .. MaxAmount] /\ recording' \in 0 .. MaxAmount
    BY <1>1, <1>2, <1>3, Bounds DEF Ledger!TypeOK
  <2> QED  BY <1>1, <1>2, <2>1, <2>2 DEF Ledger!TypeOK
<1>8. Booked'
  <2>1. stage'["purchase"] = stage["purchase"]
    BY <1>1, <1>2, OneOf DEF Ledger!TypeOK
  <2> QED  BY <1>1, <1>2, <2>1 DEF Booked
<1>9. Begun'
  <2>1. \A d \in Ledger!Docs : d # "expense" => stage'[d] = stage[d]
    BY <1>1, <1>2 DEF Ledger!TypeOK
  <2>2. stage'["expense"] = "open"
    BY <1>1, <1>2, <1>3 DEF Ledger!TypeOK
  <2> QED  BY <1>1, <1>2, <2>1, <2>2, OneOf, Requests2 DEF Begun, Working
<1>10. \A c \in Clerks : Working(c) => clerk[c].doc # "expense"
  BY <1>1, <1>2 DEF Begun
<1>11. Backed'
  <2>1. \A d \in Ledger!Docs : d # "expense" =>
          /\ total'[d] = total[d] /\ status'[d] = status[d]
          /\ Ledger!Stands(d)' <=> Ledger!Stands(d)
    BY <1>1, <1>2 DEF Ledger!TypeOK, Ledger!Stands
  <2>2. stage'["expense"] = "open" /\ total'["expense"] = n /\ status'["expense"] = s
    BY <1>1, <1>2, <1>3 DEF Ledger!TypeOK
  <2>4. (\A d \in Ledger!Docs : cash'[d] >= paid'[d]) /\ \A d \in kept' : Ledger!Stands(d)'
    BY <1>1, <1>2, <1>4, <2>1 DEF Backed, Ledger!TypeOK
  <2>5. \A c \in Clerks : clerk'[c].at = "adding" => clerk'[c].before <= cash'[clerk'[c].doc]
    BY <1>1, <1>2 DEF Backed
  <2>6. ASSUME ~office.edited
        PROVE  /\ recording' > 0 => recording' = total'["expense"]
               /\ \A c \in Clerks : Working(c)' => clerk'[c].total = total'[clerk'[c].doc]
    BY <1>1, <1>2, <1>10, <2>1, <2>2, <2>6, OneOf, Requests2 DEF Backed, Working
  <2>7. ASSUME ~office.edited, NEW d \in Ledger!Docs, Ledger!Stands(d)', status'[d] = "paid",
               d = "expense" => ~office.dies /\ recording' = 0
        PROVE  cash'[d] >= total'[d]
    <3>1. CASE d = "expense"
      BY <3>1, <2>2, <2>7, <1>2, <1>3
    <3>2. CASE d # "expense"
      BY <3>2, <2>1, <2>7, <1>1, <1>2 DEF Backed
    <3> QED  BY <3>1, <3>2
  <2>8. ASSUME ~office.edited, Ledger!Stands("sale")', order' = "paid"
        PROVE  cash'["sale"] >= total'["sale"]
    BY <1>1, <1>2, <2>1, <2>8, OneOf DEF Backed
  <2> QED  BY <1>2, <2>4, <2>5, <2>6, <2>7, <2>8 DEF Backed
<1> QED  BY <1>7, <1>8, <1>9, <1>11 DEF LedgerInv

LEMMA RecordExpenseKeeps ==
    ASSUME LedgerInv, Ledger!RecordExpense
    PROVE  LedgerInv'
<1>1. Ledger!TypeOK /\ Booked /\ Begun /\ Backed
  BY DEF LedgerInv
<1>2. /\ recording > 0 /\ recording' = 0
      /\ cash' = [cash EXCEPT !["expense"] = @ + recording]
      /\ entries' = [entries EXCEPT !["expense"] = @ + 1]
      /\ UNCHANGED <<office, stage, status, total, paid, kept, unbooked, order, lines, receipts,
                     overwrites, stock, journal, clerk, editing, receipt, adjusting>>
  BY DEF Ledger!RecordExpense, Ledger!Post, Ledger!docs, Ledger!goods
<1>3. "expense" \in Ledger!Docs /\ recording \in Nat /\ stage["expense"] # "none"
  BY <1>1, <1>2, OneOf, Bounds DEF Ledger!TypeOK, Begun
<1>4. Ledger!TypeOK'
  <2>1. cash' \in [Ledger!Docs -> Nat]
    BY <1>1, <1>2, <1>3 DEF Ledger!TypeOK
  <2>2. entries' \in [Ledger!Docs -> Nat]
    BY <1>1, <1>2, <1>3 DEF Ledger!TypeOK
  <2>3. recording' \in 0 .. MaxAmount
    BY <1>2, Bounds
  <2> QED  BY <1>1, <1>2, <2>1, <2>2, <2>3 DEF Ledger!TypeOK
<1>5. Booked'
  <2>1. entries'["purchase"] = entries["purchase"]
    BY <1>1, <1>2, OneOf DEF Ledger!TypeOK
  <2> QED  BY <1>1, <1>2, <2>1 DEF Booked
<1>6. Begun'
  <2>1. \A d \in Ledger!Docs : d # "expense" => cash'[d] = cash[d] /\ entries'[d] = entries[d]
    BY <1>1, <1>2 DEF Ledger!TypeOK
  <2> QED  BY <1>1, <1>2, <1>3, <2>1 DEF Begun, Working
<1>7. Backed'
  <2>1. \A d \in Ledger!Docs : d # "expense" => cash'[d] = cash[d]
    BY <1>1, <1>2 DEF Ledger!TypeOK
  <2>2. cash'["expense"] = cash["expense"] + recording /\ cash["expense"] \in Nat /\ paid["expense"] \in Int
    BY <1>1, <1>2, <1>3 DEF Ledger!TypeOK
  <2>3. \A d \in Ledger!Docs : Ledger!Stands(d)' <=> Ledger!Stands(d)
    BY <1>2 DEF Ledger!Stands
  <2>4. \A d \in Ledger!Docs : cash'[d] >= paid'[d]
    <3> TAKE d \in Ledger!Docs
    <3>1. cash[d] >= paid[d]
      BY <1>1 DEF Backed
    <3>2. CASE d = "expense"
      BY <3>1, <3>2, <1>2, <1>3, <2>2
    <3>3. CASE d # "expense"
      BY <3>1, <3>3, <1>2, <2>1
    <3> QED  BY <3>2, <3>3
  <2>9. \A d \in kept' : Ledger!Stands(d)'
    BY <1>1, <1>2, <2>3 DEF Backed, Ledger!TypeOK
  <2>5. \A c \in Clerks : clerk'[c].at = "adding" => clerk'[c].before <= cash'[clerk'[c].doc]
    <3>1. \A d \in Ledger!Docs : cash'[d] >= cash[d] /\ cash'[d] \in Nat
      BY <1>1, <1>3, <2>1, <2>2 DEF Ledger!TypeOK
    <3> QED  BY <1>2, <3>1, AddedUp
  <2>6. ASSUME ~office.edited
        PROVE  /\ recording' > 0 => recording' = total'["expense"]
               /\ \A c \in Clerks : Working(c)' => clerk'[c].total = total'[clerk'[c].doc]
    BY <1>1, <1>2, <2>6 DEF Backed, Working
  <2>7. ASSUME ~office.edited, NEW d \in Ledger!Docs, Ledger!Stands(d)', status'[d] = "paid"
        PROVE  cash'[d] >= total'[d]
    <3>1. CASE d = "expense"
      <4>1. recording = total["expense"]
        BY <1>1, <1>2, <2>7 DEF Backed
      <4> QED  BY <3>1, <4>1, <1>2, <1>3, <2>2
    <3>2. CASE d # "expense"
      BY <3>2, <2>1, <2>3, <2>7, <1>1, <1>2 DEF Backed
    <3> QED  BY <3>1, <3>2
  <2>8. ASSUME ~office.edited, Ledger!Stands("sale")', order' = "paid"
        PROVE  cash'["sale"] >= total'["sale"]
    BY <1>1, <1>2, <2>1, <2>3, <2>8, OneOf DEF Backed
  <2> QED  BY <1>2, <2>4, <2>5, <2>6, <2>7, <2>8, <2>9 DEF Backed
<1> QED  BY <1>4, <1>5, <1>6, <1>7 DEF LedgerInv

\* The form of an expense overwrites what it is and costs.
LEMMA EditExpenseKeeps ==
    ASSUME LedgerInv, NEW s \in Ledger!Pays, NEW n \in Ledger!Amounts, Ledger!EditExpense(s, n)
    PROVE  LedgerInv'
<1>1. Ledger!TypeOK /\ Booked /\ Begun /\ Backed
  BY DEF LedgerInv
<1>2. /\ office.edited
      /\ status' = [status EXCEPT !["expense"] = s]
      /\ total' = [total EXCEPT !["expense"] = n]
      /\ UNCHANGED <<office, stage, paid, kept, unbooked, cash, entries, order, lines, receipts, overwrites,
                     stock, journal, clerk, editing, receipt, adjusting, recording>>
  BY DEF Ledger!EditExpense, Ledger!goods, Ledger!money, Ledger!requests
<1>3. n \in 0 .. MaxAmount
  BY OneOf
<1>4. Ledger!TypeOK'
  <2>1. status' \in [Ledger!Docs -> Ledger!Pays] /\ total' \in [Ledger!Docs -> 0 .. MaxAmount]
    BY <1>1, <1>2, <1>3 DEF Ledger!TypeOK
  <2> QED  BY <1>1, <1>2, <2>1 DEF Ledger!TypeOK
<1>5. Booked'
  BY <1>1, <1>2 DEF Booked
<1>6. Begun'
  BY <1>1, <1>2 DEF Begun, Working
<1>7. Backed'
  <2>1. \A d \in Ledger!Docs : Ledger!Stands(d)' <=> Ledger!Stands(d)
    BY <1>2 DEF Ledger!Stands
  <2>2. \A c \in Clerks : clerk'[c].at = "adding" => clerk'[c].before <= cash'[clerk'[c].doc]
    BY <1>1, <1>2 DEF Backed
  <2>3. \A d \in kept' : Ledger!Stands(d)'
    BY <1>1, <1>2, <2>1 DEF Backed, Ledger!TypeOK
  <2> QED  BY <1>1, <1>2, <2>1, <2>2, <2>3 DEF Backed
<1> QED  BY <1>4, <1>5, <1>6, <1>7 DEF LedgerInv

\* A payment is committed: its request has added up no more than the ledger
\* has, to which it adds what is positive.
LEMMA CommitPaymentKeeps ==
    ASSUME LedgerInv, NEW c \in Clerks, Ledger!CommitPayment(c)
    PROVE  LedgerInv'
<1>1. Ledger!TypeOK /\ Booked /\ Begun /\ Backed
  BY DEF LedgerInv
<1> DEFINE d == clerk[c].doc
           n == clerk[c].amount
           before == clerk[c].before
           whole == clerk[c].total
           s == Ledger!Settled(d, before + n, whole)
           in == Ledger!Greater(0, n)
           back == Ledger!Greater(0, -n)
<1>2. /\ clerk[c].at = "adding" /\ Ledger!Stands(d)
      /\ paid' = [paid EXCEPT ![d] = @ + n]
      /\ kept' = kept \cup {d}
      /\ unbooked' = [unbooked EXCEPT ![d] = @ + back]
      /\ cash' = [cash EXCEPT ![d] = @ + in]
      /\ status' = [status EXCEPT ![d] = s]
      /\ order' = IF d = "sale" /\ order # "none" /\ s = "paid" THEN "paid" ELSE order
      /\ clerk' = [clerk EXCEPT ![c] = Ledger!Idle]
      /\ UNCHANGED <<office, stage, total, entries, lines, receipts, overwrites, stock, journal, editing,
                     receipt, adjusting, recording>>
  BY DEF Ledger!CommitPayment, Ledger!At, Ledger!Continue, Ledger!Others, Ledger!goods
<1>3. d \in Ledger!Docs /\ n \in Int /\ before \in Int /\ whole \in Nat
  <2>1. /\ d \in Ledger!Docs /\ n \in Ledger!Signed /\ before \in Int
        /\ whole \in 0 .. MaxAmount
    BY <1>1, <1>2, Requests2 DEF Working
  <2> HIDE DEF d, n, before, whole
  <2> QED  BY <2>1, OneOf, Bounds
<1>4. before <= cash[d] /\ (~office.edited => whole = total[d])
  BY <1>1, <1>2 DEF Backed, Working
<1>14. in \in Nat /\ back \in Nat /\ in >= n
  BY <1>3 DEF Ledger!Greater
<1>5. s \in Ledger!Pays /\ (s = "paid" => before + n >= whole)
  BY <1>3 DEF Ledger!Settled, Ledger!Pays
<1>6. Ledger!Idle.at = "idle"
  BY DEF Ledger!Idle
<1> HIDE DEF d, n, before, whole, s, in, back
<1>7. /\ paid[d] \in Int /\ cash[d] \in Nat /\ total[d] \in Nat
      /\ cash[d] >= paid[d]
  BY <1>1, <1>3, Bounds DEF Ledger!TypeOK, Backed
<1>8. \A e \in Clerks : clerk'[e] = IF e = c THEN Ledger!Idle ELSE clerk[e]
  BY <1>1, <1>2 DEF Ledger!TypeOK
<1>9. \A x \in Ledger!Docs :
         /\ paid'[x] = IF x = d THEN paid[d] + n ELSE paid[x]
         /\ cash'[x] = IF x = d THEN cash[d] + in ELSE cash[x]
         /\ status'[x] = IF x = d THEN s ELSE status[x]
         /\ Ledger!Stands(x)' <=> Ledger!Stands(x)
  BY <1>1, <1>2, <1>3 DEF Ledger!TypeOK, Ledger!Stands
<1>10. Ledger!TypeOK'
  <2>1. paid' \in [Ledger!Docs -> Int] /\ kept' \subseteq Ledger!Docs
    BY <1>1, <1>2, <1>3, <1>7 DEF Ledger!TypeOK
  <2>2. cash' \in [Ledger!Docs -> Nat]
    BY <1>1, <1>2, <1>3, <1>7, <1>14 DEF Ledger!TypeOK
  <2>6. unbooked' \in [Ledger!Docs -> Nat]
    BY <1>1, <1>2, <1>3, <1>14 DEF Ledger!TypeOK
  <2>3. status' \in [Ledger!Docs -> Ledger!Pays]
    BY <1>1, <1>2, <1>5 DEF Ledger!TypeOK
  <2>4. clerk' \in [Clerks -> {Ledger!Idle} \cup Ledger!Payments]
    BY <1>1, <1>2 DEF Ledger!TypeOK
  <2>5. order' \in {"none", "paid", "unpaid"}
    BY <1>1, <1>2 DEF Ledger!TypeOK
  <2> QED  BY <1>1, <1>2, <2>1, <2>2, <2>3, <2>4, <2>5, <2>6 DEF Ledger!TypeOK
<1>11. Booked'
  BY <1>1, <1>2 DEF Booked
<1>12. Begun'
  <2>1. stage[d] # "none"
    BY <1>2 DEF Ledger!Stands, Ledger!Standing
  <2>2. \A x \in Ledger!Docs :
           stage'[x] = "none" =>
              x \notin kept' /\ paid'[x] = 0 /\ unbooked'[x] = 0 /\ cash'[x] = 0 /\ entries'[x] = 0
    BY <1>1, <1>2, <1>9, <2>1 DEF Begun
  <2>3. \A e \in Clerks : Working(e)' => stage'[clerk'[e].doc] # "none"
    BY <1>1, <1>2, <1>6, <1>8 DEF Begun, Working
  <2> QED  BY <1>1, <1>2, <2>2, <2>3 DEF Begun
<1>13. Backed'
  <2>1. \A x \in Ledger!Docs : cash'[x] >= paid'[x]
    <3> TAKE x \in Ledger!Docs
    <3>1. CASE x = d
      BY <3>1, <1>2, <1>3, <1>7, <1>9, <1>14
    <3>2. CASE x # d
      BY <3>2, <1>1, <1>9 DEF Backed
    <3> QED  BY <3>1, <3>2
  <2>9. \A x \in kept' : Ledger!Stands(x)'
    BY <1>1, <1>2, <1>3, <1>9 DEF Backed, Ledger!TypeOK
  <2>2. \A e \in Clerks : clerk'[e].at = "adding" => clerk'[e].before <= cash'[clerk'[e].doc]
    <3>1. \A x \in Ledger!Docs : cash'[x] >= cash[x] /\ cash'[x] \in Nat
      BY <1>1, <1>3, <1>7, <1>9, <1>14 DEF Ledger!TypeOK
    <3> QED  BY <1>6, <1>8, <3>1, AddedUp
  <2>3. ASSUME ~office.edited
        PROVE  /\ recording > 0 => recording = total["expense"]
               /\ \A e \in Clerks : Working(e) => clerk[e].total = total[clerk[e].doc]
    BY <1>1, <2>3 DEF Backed
  <2>4. ASSUME ~office.edited
        PROVE  \A e \in Clerks : Working(e)' => clerk'[e].total = total'[clerk'[e].doc]
    BY <1>2, <1>6, <1>8, <2>3, <2>4 DEF Working
  <2>5. ASSUME ~office.edited, s = "paid"
        PROVE  cash[d] + in >= total[d]
    BY <2>5, <1>3, <1>4, <1>5, <1>7, <1>14
  <2>6. \A x \in Ledger!Docs : cash[x] \in Nat /\ total[x] \in Nat /\ cash[x] >= total[x] => cash'[x] >= total[x]
    BY <1>3, <1>9, <1>14
  <2>7. ASSUME ~office.edited, NEW x \in Ledger!Docs, Ledger!Stands(x)', status'[x] = "paid",
               x = "expense" => ~office.dies /\ recording = 0
        PROVE  cash'[x] >= total[x]
    <3>1. CASE x = d
      BY <3>1, <2>5, <2>7, <1>9
    <3>2. CASE x # d
      BY <3>2, <2>7, <1>1, <1>9 DEF Backed
    <3> QED  BY <3>1, <3>2
  <2>8. ASSUME ~office.edited, Ledger!Stands("sale")', order' = "paid"
        PROVE  cash'["sale"] >= total["sale"]
    <3>1. CASE order = "paid"
      <4>1. Ledger!Stands("sale")
        BY <2>8, <1>9, OneOf
      <4>2. cash["sale"] >= total["sale"]
        BY <1>1, <2>8, <3>1, <4>1 DEF Backed
      <4>3. cash["sale"] \in Nat /\ total["sale"] \in Nat /\ "sale" \in Ledger!Docs
        BY <1>1, Bounds, OneOf DEF Ledger!TypeOK
      <4> QED  BY <2>6, <4>2, <4>3
    <3>2. CASE order # "paid"
      <4>1. d = "sale" /\ s = "paid"
        BY <2>8, <3>2, <1>2
      <4> QED  BY <2>5, <2>8, <4>1, <1>3, <1>9
    <3> QED  BY <3>1, <3>2
  <2> QED  BY <1>2, <2>1, <2>2, <2>3, <2>4, <2>7, <2>8, <2>9 DEF Backed
<1> QED  BY <1>10, <1>11, <1>12, <1>13 DEF LedgerInv

LEMMA DeleteKeeps ==
    ASSUME LedgerInv, NEW d \in Ledger!Docs, Ledger!Delete(d)
    PROVE  LedgerInv'
<1>1. Ledger!TypeOK /\ Booked /\ Begun /\ Backed
  BY DEF LedgerInv
<1>2. /\ Ledger!Stands(d) /\ d \notin kept
      /\ d = "purchase" => receipt = Ledger!Idle /\ ~editing
      /\ stage' = [stage EXCEPT ![d] = "gone"]
      /\ UNCHANGED <<office, status, total, paid, kept, unbooked, cash, entries, order, lines, receipts,
                     overwrites, stock, journal, clerk, editing, receipt, adjusting, recording>>
  BY DEF Ledger!Delete, Ledger!Protected, Ledger!Unlocked, Ledger!money, Ledger!goods, Ledger!requests
<1>3. \A x \in Ledger!Docs : stage'[x] = IF x = d THEN "gone" ELSE stage[x]
  BY <1>1, <1>2 DEF Ledger!TypeOK
<1>4. \A x \in Ledger!Docs : Ledger!Stands(x)' <=> Ledger!Stands(x) /\ x # d
  BY <1>3 DEF Ledger!Stands, Ledger!Standing
<1>5. Ledger!TypeOK'
  <2>1. stage' \in [Ledger!Docs -> Ledger!Stages]
    BY <1>1, <1>2 DEF Ledger!TypeOK, Ledger!Stages
  <2> QED  BY <1>1, <1>2, <2>1 DEF Ledger!TypeOK
<1>6. Booked'
  <2>1. Ledger!Idle.at = "idle" /\ "purchase" \in Ledger!Docs
    BY OneOf DEF Ledger!Idle
  <2> QED  BY <1>1, <1>2, <1>3, <2>1 DEF Booked
<1>7. Begun'
  BY <1>1, <1>2, <1>3, OneOf, Requests2 DEF Begun, Working
<1>8. Backed'
  <2>1. (\A x \in Ledger!Docs : cash'[x] >= paid'[x]) /\ \A x \in kept' : Ledger!Stands(x)'
    BY <1>1, <1>2, <1>4 DEF Backed, Ledger!TypeOK
  <2>2. \A c \in Clerks : clerk'[c].at = "adding" => clerk'[c].before <= cash'[clerk'[c].doc]
    BY <1>1, <1>2 DEF Backed
  <2>3. ASSUME ~office.edited
        PROVE  /\ recording' > 0 => recording' = total'["expense"]
               /\ \A c \in Clerks : Working(c)' => clerk'[c].total = total'[clerk'[c].doc]
    BY <1>1, <1>2, <2>3 DEF Backed, Working
  <2>4. ASSUME ~office.edited, NEW x \in Ledger!Docs, Ledger!Stands(x)', status[x] = "paid",
               x = "expense" => ~office.dies /\ recording = 0
        PROVE  cash[x] >= total[x]
    BY <1>1, <1>4, <2>4 DEF Backed
  <2>5. ASSUME ~office.edited, Ledger!Stands("sale")', order = "paid"
        PROVE  cash["sale"] >= total["sale"]
    BY <1>1, <1>4, <2>5, OneOf DEF Backed
  <2> QED  BY <1>2, <2>1, <2>2, <2>3, <2>4, <2>5 DEF Backed
<1> QED  BY <1>5, <1>6, <1>7, <1>8 DEF LedgerInv

LEMMA PurchaseReadsKeep ==
    ASSUME LedgerInv, Ledger!ReadPurchase \/ Ledger!LockForReceipt
    PROVE  LedgerInv'
<1>1. Ledger!TypeOK /\ Booked /\ Begun /\ Backed
  BY DEF LedgerInv
<1>2. UNCHANGED <<office, stage, status, total, paid, kept, unbooked, cash, entries, order, lines,
                  receipts, overwrites,
                  stock, journal, clerk, adjusting, recording>>
  BY DEF Ledger!ReadPurchase, Ledger!LockForReceipt, Ledger!docs, Ledger!money, Ledger!goods
<1>3. \/ /\ editing' = TRUE /\ office.edited /\ stage["purchase"] = "draft"
         /\ receipt' = receipt
      \/ /\ receipt' = [at |-> "reading", stock |-> stock] /\ stage["purchase"] = "draft"
         /\ editing' = editing
  BY DEF Ledger!ReadPurchase, Ledger!LockForReceipt, Ledger!Receivable
<1>4. receipt' \in {Ledger!Idle} \cup Ledger!Reading
  BY <1>1, <1>3 DEF Ledger!TypeOK, Ledger!Reading
<1>5. editing' \in BOOLEAN
  BY <1>1, <1>3 DEF Ledger!TypeOK
<1>6. Ledger!TypeOK'
  BY <1>1, <1>2, <1>4, <1>5 DEF Ledger!TypeOK
<1>7. receipt'.at = "reading" => stage["purchase"] = "draft"
  BY <1>1, <1>3 DEF Booked
<1>8. editing' => stage["purchase"] \in {"draft", "received"} /\ office.edited
  BY <1>1, <1>3 DEF Booked
<1>9. adjusting'.at = "moving" => adjusting'.stock + adjusting'.by >= 0
  BY <1>1, <1>2 DEF Begun
<1>10. \A c \in Clerks : clerk'[c] = clerk[c]
  BY <1>2
<1> QED  BY <1>2, <1>6, <1>7, <1>8, <1>9, <1>10, RequestsKeep

LEMMA AdjustmentsKeep ==
    ASSUME LedgerInv,
           (\E n \in {-1, 1} : Ledger!CheckAdjustment(n)) \/ Ledger!Adjust \/ Ledger!ExpenseRequestDies
    PROVE  LedgerInv'
<1>1. Ledger!TypeOK /\ Booked /\ Begun /\ Backed
  BY DEF LedgerInv
<1>2. UNCHANGED <<office, stage, status, total, paid, kept, unbooked, cash, entries, order, lines,
                  receipts, overwrites,
                  clerk, editing, receipt>>
  BY DEF Ledger!CheckAdjustment, Ledger!Adjust, Ledger!ExpenseRequestDies, Ledger!docs, Ledger!money,
         Ledger!goods
<1>3. recording' = recording \/ (recording' = 0 /\ office.dies)
  BY DEF Ledger!CheckAdjustment, Ledger!Adjust, Ledger!ExpenseRequestDies
<1>4. /\ Ledger!TypeOK'
      /\ adjusting'.at = "moving" => adjusting'.stock + adjusting'.by >= 0
  <2>0. recording' \in 0 .. MaxAmount
    BY <1>1, <1>3, Bounds DEF Ledger!TypeOK
  <2>1. ASSUME NEW n \in {-1, 1}, Ledger!CheckAdjustment(n)
        PROVE  /\ adjusting' \in {Ledger!Idle} \cup Ledger!Moving
               /\ stock' \in Nat /\ journal' \in Int
               /\ adjusting'.at = "moving" => adjusting'.stock + adjusting'.by >= 0
    BY <1>1, <2>1 DEF Ledger!TypeOK, Ledger!Moving, Ledger!CheckAdjustment, Ledger!Suffices, Ledger!goods
  <2>2. ASSUME Ledger!Adjust
        PROVE  /\ adjusting' = Ledger!Idle
               /\ stock' \in Nat /\ journal' \in Int
    <3>1. /\ adjusting.at = "moving" /\ adjusting' = Ledger!Idle
          /\ stock' = adjusting.stock + adjusting.by /\ journal' = journal + adjusting.by
      BY <2>2 DEF Ledger!Adjust
    <3>2. adjusting \in Ledger!Moving
      BY <1>1, <3>1 DEF Ledger!TypeOK, Ledger!Idle
    <3>3. adjusting.stock \in Int /\ adjusting.by \in Int
      BY <3>2 DEF Ledger!Moving
    <3> QED  BY <1>1, <3>1, <3>3 DEF Ledger!TypeOK, Begun
  <2>3. ASSUME Ledger!ExpenseRequestDies
        PROVE  stock' = stock /\ journal' = journal /\ adjusting' = adjusting
    BY <2>3 DEF Ledger!ExpenseRequestDies, Ledger!goods
  <2>4. Ledger!Idle.at = "idle"
    BY DEF Ledger!Idle
  <2>5. /\ adjusting' \in {Ledger!Idle} \cup Ledger!Moving
        /\ stock' \in Nat /\ journal' \in Int
        /\ adjusting'.at = "moving" => adjusting'.stock + adjusting'.by >= 0
    BY <1>1, <2>1, <2>2, <2>3, <2>4 DEF Ledger!TypeOK, Begun
  <2> QED  BY <1>1, <1>2, <2>0, <2>5 DEF Ledger!TypeOK
<1>5. receipt'.at = "reading" => stage["purchase"] = "draft"
  BY <1>1, <1>2 DEF Booked
<1>6. editing' => stage["purchase"] \in {"draft", "received"} /\ office.edited
  BY <1>1, <1>2 DEF Booked
<1>7. \A c \in Clerks : clerk'[c] = clerk[c]
  BY <1>2
<1> QED  BY <1>2, <1>3, <1>4, <1>5, <1>6, <1>7, RequestsKeep

LEMMA PaymentRequestsKeep ==
    ASSUME LedgerInv, NEW c \in Clerks,
           \/ \E d \in Ledger!Docs, n \in Ledger!Signed : Ledger!CheckPayment(c, d, n)
           \/ Ledger!AddUpPayments(c) \/ Ledger!PaymentFails(c)
    PROVE  LedgerInv'
<1>1. Ledger!TypeOK /\ Booked /\ Begun /\ Backed
  BY DEF LedgerInv
<1>2. UNCHANGED <<office, stage, status, total, paid, kept, unbooked, cash, entries, order, lines,
                  receipts, overwrites,
                  stock, journal, editing, receipt, adjusting, recording>>
  BY DEF Ledger!CheckPayment, Ledger!AddUpPayments, Ledger!PaymentFails, Ledger!docs, Ledger!money,
         Ledger!Others, Ledger!goods
<1> DEFINE Right(r) ==
              /\ r \in {Ledger!Idle} \cup Ledger!Payments
              /\ r.at # "idle" =>
                    /\ stage[r.doc] # "none"
                    /\ r.total = total[r.doc] \/ office.edited
                    /\ r.at = "adding" => r.before <= cash[r.doc]
<1>3. Right(Ledger!Idle)
  BY DEF Ledger!Idle
<1>4. ASSUME NEW d \in Ledger!Docs, NEW n \in Ledger!Signed, Ledger!CheckPayment(c, d, n)
      PROVE  \E r : clerk' = [clerk EXCEPT ![c] = r] /\ Right(r)
  <2> DEFINE r == [at |-> "checked", doc |-> d, amount |-> n, total |-> total[d]]
  <2>1. /\ Ledger!Listed(d)
        /\ clerk' = [clerk EXCEPT ![c] = r]
    BY <1>4 DEF Ledger!CheckPayment, Ledger!Continue
  <2>2. stage[d] # "none"
    BY <2>1, OneOf DEF Ledger!Listed
  <2>3. total[d] \in 0 .. MaxAmount
    BY <1>1 DEF Ledger!TypeOK
  <2>4. r \in Ledger!Payments
    BY <2>3 DEF Ledger!Payments
  <2>5. Right(r)
    BY <2>2, <2>4
  <2> QED  BY <2>1, <2>5
<1>5. ASSUME Ledger!AddUpPayments(c)
      PROVE  \E r : clerk' = [clerk EXCEPT ![c] = r] /\ Right(r)
  <2> DEFINE r == [at |-> "adding", doc |-> clerk[c].doc, amount |-> clerk[c].amount,
                   total |-> clerk[c].total, before |-> paid[clerk[c].doc]]
  <2>1. /\ clerk[c].at = "checked"
        /\ clerk' = [clerk EXCEPT ![c] = r]
    BY <1>5 DEF Ledger!AddUpPayments, Ledger!Continue, Ledger!At, Ledger!Before
  <2>2. /\ clerk[c].doc \in Ledger!Docs /\ clerk[c].amount \in Ledger!Signed
        /\ clerk[c].total \in 0 .. MaxAmount
    BY <1>1, <2>1, Requests2 DEF Working
  <2>3. paid[clerk[c].doc] \in Int /\ paid[clerk[c].doc] <= cash[clerk[c].doc]
    BY <1>1, <2>2 DEF Ledger!TypeOK, Backed
  <2>4. /\ stage[clerk[c].doc] # "none"
        /\ clerk[c].total = total[clerk[c].doc] \/ office.edited
    BY <1>1, <2>1 DEF Begun, Backed, Working
  <2>5. r \in Ledger!Payments
    BY <2>2, <2>3 DEF Ledger!Payments
  <2>6. Right(r)
    BY <2>3, <2>4, <2>5
  <2> QED  BY <2>1, <2>6
<1>6. PICK r : clerk' = [clerk EXCEPT ![c] = r] /\ Right(r)
  <2>1. ASSUME Ledger!PaymentFails(c)
        PROVE  clerk' = [clerk EXCEPT ![c] = Ledger!Idle]
    BY <2>1 DEF Ledger!PaymentFails, Ledger!Continue
  <2> HIDE DEF Right
  <2> QED  BY <1>3, <1>4, <1>5, <2>1
<1>7. Ledger!TypeOK'
  <2>1. clerk' \in [Clerks -> {Ledger!Idle} \cup Ledger!Payments]
    BY <1>1, <1>6 DEF Ledger!TypeOK
  <2> QED  BY <1>1, <1>2, <2>1 DEF Ledger!TypeOK
<1>8. \A e \in Clerks : clerk'[e] = IF e = c THEN r ELSE clerk[e]
  BY <1>1, <1>6 DEF Ledger!TypeOK
<1>9. \A e \in Clerks : Working(e)' =>
         \/ clerk'[e] = clerk[e]
         \/ /\ stage[clerk'[e].doc] # "none"
            /\ clerk'[e].total = total[clerk'[e].doc] \/ office.edited
            /\ clerk'[e].at = "adding" => clerk'[e].before <= cash[clerk'[e].doc]
  BY <1>6, <1>8 DEF Working
<1>10. receipt'.at = "reading" => stage["purchase"] = "draft"
  BY <1>1, <1>2 DEF Booked
<1>11. editing' => stage["purchase"] \in {"draft", "received"} /\ office.edited
  BY <1>1, <1>2 DEF Booked
<1>12. adjusting'.at = "moving" => adjusting'.stock + adjusting'.by >= 0
  BY <1>1, <1>2 DEF Begun
<1> QED  BY <1>2, <1>7, <1>9, <1>10, <1>11, <1>12, RequestsKeep

LEMMA LedgerStill ==
    ASSUME LedgerInv, UNCHANGED ledger
    PROVE  LedgerInv'
<1>1. Ledger!TypeOK /\ Booked /\ Begun /\ Backed
  BY DEF LedgerInv
<1>2. UNCHANGED <<office, stage, status, total, paid, kept, unbooked, cash, entries, order, lines,
                  receipts, overwrites,
                  stock, journal, clerk, editing, receipt, adjusting, recording>>
  BY DEF ledger
<1>3. Ledger!TypeOK'
  BY <1>1, <1>2 DEF Ledger!TypeOK
<1>4. \A c \in Clerks : clerk'[c] = clerk[c]
  BY <1>2
<1>5. receipt'.at = "reading" => stage["purchase"] = "draft"
  BY <1>1, <1>2 DEF Booked
<1>6. editing' => stage["purchase"] \in {"draft", "received"} /\ office.edited
  BY <1>1, <1>2 DEF Booked
<1>7. adjusting'.at = "moving" => adjusting'.stock + adjusting'.by >= 0
  BY <1>1, <1>2 DEF Begun
<1> QED  BY <1>2, <1>3, <1>4, <1>5, <1>6, <1>7, RequestsKeep

LEMMA LedgerNext ==
    ASSUME LedgerInv, Ledger!Next
    PROVE  LedgerInv'
<1>1. CASE \E s \in Ledger!Pays, n \in Ledger!Amounts : \E now \in 0 .. n :
              Ledger!CreatePurchase(s, n, now)
  BY <1>1, CreatePurchaseKeeps
<1>2. CASE \E s \in Ledger!Pays, n \in Ledger!Amounts, fromOrder \in BOOLEAN :
              Ledger!CreateSale(s, n, fromOrder)
  BY <1>2, CreateSaleKeeps
<1>3. CASE \E s \in Ledger!Pays, n \in Ledger!Amounts : Ledger!CreateExpense(s, n)
  BY <1>3, CreateExpenseKeeps
<1>4. CASE \E s \in Ledger!Pays, n \in Ledger!Amounts : Ledger!EditExpense(s, n)
  BY <1>4, EditExpenseKeeps
<1>5. CASE \E c \in Clerks, d \in Ledger!Docs, n \in Ledger!Signed : Ledger!CheckPayment(c, d, n)
  BY <1>5, PaymentRequestsKeep
<1>6. CASE Ledger!ReadPurchase \/ Ledger!LockForReceipt
  BY <1>6, PurchaseReadsKeep
<1>7. CASE \/ \E n \in {-1, 1} : Ledger!CheckAdjustment(n)
           \/ Ledger!Adjust \/ Ledger!ExpenseRequestDies
  BY <1>7, AdjustmentsKeep
<1>8. CASE \E d \in Ledger!Docs : Ledger!Delete(d)
  BY <1>8, DeleteKeeps
<1>9. CASE \E s \in Ledger!Pays, n \in Ledger!Amounts : Ledger!SavePurchase(s, n)
  BY <1>9, SavePurchaseKeeps
<1>10. CASE Ledger!Receive
  BY <1>10, ReceiveKeeps
<1>11. CASE Ledger!RecordExpense
  BY <1>11, RecordExpenseKeeps
<1>12. CASE \E c \in Clerks : Ledger!AddUpPayments(c) \/ Ledger!PaymentFails(c)
  BY <1>12, PaymentRequestsKeep
<1>13. CASE \E c \in Clerks : Ledger!CommitPayment(c)
  BY <1>13, CommitPaymentKeeps
<1> QED
  BY <1>1, <1>2, <1>3, <1>4, <1>5, <1>6, <1>7, <1>8, <1>9, <1>10, <1>11, <1>12, <1>13
     DEF Ledger!Next, Ledger!Begin, Ledger!Proceed

LEMMA LedgerAlways == Spec => []LedgerInv
<1>1. Init => LedgerInv
  BY LedgerInit DEF Init
<1>2. LedgerInv /\ [Next]_vars => LedgerInv'
  <2> SUFFICES ASSUME LedgerInv, [Next]_vars PROVE LedgerInv'
    OBVIOUS
  <2>1. CASE UNCHANGED ledger
    BY <2>1, LedgerStill
  <2>2. CASE Ledger!Next
    BY <2>2, LedgerNext
  <2> QED  BY <2>1, <2>2 DEF Next, vars
<1> QED  BY <1>1, <1>2, PTL DEF Spec

\* However edits and receipts of a purchase order interleave, the ledger has
\* one entry of its own for it, and every receipt beyond the first follows an
\* edit that hid the one before (po_receive and po_form).
THEOREM PurchasesBookedOnce == Spec => []PurchaseBookedOnce
<1>1. LedgerInv => PurchaseBookedOnce
  BY DEF LedgerInv, Booked, PurchaseBookedOnce, Ledger!PurchaseBookedOnce
<1> QED  BY <1>1, LedgerAlways, PTL

\* What is shown as paid in the books is covered by the ledger.
LEMMA LedgerCovers == LedgerInv => Ledger!PaidIsCovered
BY DEF LedgerInv, Backed, Ledger!PaidIsCovered

\* One request at a time, over documents that are not edited: what each of them
\* has read is still so, and what is owed is what was not paid.
Orderly == office.solo /\ ~office.edited /\ ~office.dies

Alone ==
    /\ \A c, e \in Clerks : Working(c) /\ Working(e) => c = e
    /\ \A c \in Clerks : Working(c) =>
          receipt = Ledger!Idle /\ adjusting = Ledger!Idle /\ recording = 0
    /\ receipt # Ledger!Idle => adjusting = Ledger!Idle /\ recording = 0
    /\ adjusting # Ledger!Idle => recording = 0

Counted ==
    /\ stock = journal - (IF receipts > 0 THEN lines - 1 ELSE 0)
    /\ receipt.at = "reading" => receipt.stock = stock
    /\ adjusting.at = "moving" => adjusting.stock = stock

Owed(d) ==
    /\ d # "expense" /\ status[d] = "paid" => cash[d] = total[d] + unbooked[d]
    /\ d # "expense" /\ status[d] # "paid" => cash[d] = paid[d] + unbooked[d] /\ paid[d] <= total[d]
    /\ d = "expense" /\ recording > 0 => status[d] = "paid" /\ cash[d] = 0
    /\ d = "expense" /\ ~(recording > 0) =>
          IF status[d] = "paid" THEN cash[d] < 2 * total[d]
          ELSE cash[d] = paid[d] /\ paid[d] < total[d]

AllOwed ==
    /\ \A d \in Ledger!Docs : Ledger!Stands(d) => Owed(d)
    /\ stage["purchase"] = "draft" /\ status["purchase"] = "paid" => entries["purchase"] > 0

Promised ==
    \A c \in Clerks : Working(c) =>
        /\ Ledger!Listed(clerk[c].doc) /\ clerk[c].amount <= Ledger!Limit(clerk[c].doc)
        /\ clerk[c].doc = "expense" => clerk[c].amount > 0
        /\ clerk[c].at = "adding" => clerk[c].before = paid[clerk[c].doc]

InTurn == Orderly => Alone /\ Counted /\ AllOwed /\ Promised

LEMMA InTurnInit == Ledger!Init => InTurn
<1> SUFFICES ASSUME Ledger!Init PROVE Alone /\ Counted /\ AllOwed /\ Promised
  BY DEF InTurn
<1>1. \A c \in Clerks : ~Working(c)
  BY DEF Ledger!Init, Ledger!Idle, Working
<1>2. \A d \in Ledger!Docs : ~Ledger!Stands(d)
  BY DEF Ledger!Init, Ledger!Stands, Ledger!Standing
<1>3. /\ receipt = Ledger!Idle /\ adjusting = Ledger!Idle /\ recording = 0
      /\ stock = 0 /\ journal = 0 /\ receipts = 0
  BY DEF Ledger!Init
<1>4. Ledger!Idle.at = "idle" /\ stage["purchase"] = "none"
  BY OneOf DEF Ledger!Idle, Ledger!Init
<1> QED  BY <1>1, <1>2, <1>3, <1>4 DEF Alone, Counted, AllOwed, Promised

\* What the start of a request may rely on.
LEMMA QuietMeans ==
    ASSUME Ledger!Quiet
    PROVE  /\ \A c \in Clerks : ~Working(c)
           /\ receipt = Ledger!Idle /\ adjusting = Ledger!Idle /\ recording = 0
BY DEF Ledger!Quiet, Working, Ledger!Idle

LEMMA Numbers ==
    ASSUME Ledger!TypeOK, NEW d \in Ledger!Docs
    PROVE  /\ paid[d] \in Int /\ unbooked[d] \in Nat /\ cash[d] \in Nat /\ total[d] \in Nat /\ entries[d] \in Nat
           /\ recording \in Nat
BY Bounds DEF Ledger!TypeOK

\* Documents and money stay as they are.
LEMMA OwedStill ==
    ASSUME AllOwed, UNCHANGED <<stage, status, total, paid, unbooked, cash, entries, recording>>
    PROVE  AllOwed'
BY DEF AllOwed, Owed, Ledger!Stands

\* A step that begins a request or ends the only one: afterwards there is none,
\* but for a receipt, an adjustment or an expense.
LEMMA NoPayments ==
    ASSUME \A c \in Clerks : ~Working(c)', 
           \/ receipt' = Ledger!Idle /\ adjusting' = Ledger!Idle
           \/ receipt' = Ledger!Idle /\ recording' = 0
           \/ adjusting' = Ledger!Idle /\ recording' = 0
    PROVE  Alone' /\ Promised'
BY DEF Alone, Promised

\* Receipts and adjustments.
LEMMA StockInTurn ==
    ASSUME LedgerInv, Orderly, Alone, Counted, AllOwed, Promised,
           \/ Ledger!Quiet /\ Ledger!LockForReceipt
           \/ Ledger!Quiet /\ \E n \in {-1, 1} : Ledger!CheckAdjustment(n)
           \/ Ledger!Receive
           \/ Ledger!Adjust
    PROVE  Alone' /\ Counted' /\ AllOwed' /\ Promised'
<1>1. Ledger!TypeOK /\ Booked /\ Begun /\ Backed
  BY DEF LedgerInv
<1>2. Ledger!Idle.at = "idle"
  BY DEF Ledger!Idle
<1>3. CASE Ledger!Quiet /\ Ledger!LockForReceipt
  <2>1. /\ receipt' = [at |-> "reading", stock |-> stock]
        /\ UNCHANGED <<stage, status, total, paid, unbooked, cash, entries, recording, lines, receipts,
                       stock, journal, clerk, adjusting>>
    BY <1>3 DEF Ledger!LockForReceipt, Ledger!docs, Ledger!money, Ledger!goods
  <2>2. Counted'
    BY <1>2, <1>3, <2>1, QuietMeans DEF Counted
  <2>3. \A c \in Clerks : ~Working(c)'
    BY <1>3, <2>1, QuietMeans DEF Working
  <2>4. adjusting' = Ledger!Idle /\ recording' = 0
    BY <1>3, <2>1, QuietMeans
  <2> QED  BY <2>1, <2>2, <2>3, <2>4, OwedStill, NoPayments
<1>4. ASSUME Ledger!Quiet, NEW n \in {-1, 1}, Ledger!CheckAdjustment(n)
      PROVE  Alone' /\ Counted' /\ AllOwed' /\ Promised'
  <2>1. /\ adjusting' = [at |-> "moving", stock |-> stock, by |-> n]
        /\ UNCHANGED <<stage, status, total, paid, unbooked, cash, entries, recording, lines, receipts,
                       stock, journal, clerk, receipt>>
    BY <1>4 DEF Ledger!CheckAdjustment, Ledger!docs, Ledger!money, Ledger!goods
  <2>2. Counted'
    BY <1>2, <1>4, <2>1, QuietMeans DEF Counted
  <2>3. \A c \in Clerks : ~Working(c)'
    BY <1>4, <2>1, QuietMeans DEF Working
  <2>4. receipt' = Ledger!Idle /\ recording' = 0
    BY <1>4, <2>1, QuietMeans
  <2> QED  BY <2>1, <2>2, <2>3, <2>4, OwedStill, NoPayments
<1>5. CASE Ledger!Receive
  <2>1. /\ receipt.at = "reading"
        /\ stock' = receipt.stock + 1 /\ journal' = journal + lines /\ receipts' = receipts + 1
        /\ stage' = [stage EXCEPT !["purchase"] = "received"]
        /\ receipt' = Ledger!Idle
        /\ UNCHANGED <<status, total, paid, unbooked, lines, clerk, adjusting, recording>>
    BY <1>5 DEF Ledger!Receive
  <2>2. stage["purchase"] = "draft" /\ "purchase" \in Ledger!Docs
    BY <1>1, <2>1, OneOf DEF Booked
  <2>3. cash' = cash /\ entries' = entries
    <3>1. Ledger!EnsurePaymentRecorded(status["purchase"], total["purchase"])
      BY <1>5 DEF Ledger!Receive
    <3>2. entries["purchase"] # 0 \/ status["purchase"] # "paid"
      BY <1>1, <2>2, Numbers DEF AllOwed
    <3>3. Ledger!Outstanding(status["purchase"], total["purchase"]) = 0
      BY <3>2 DEF Ledger!Outstanding
    <3> QED  BY <3>1, <3>3 DEF Ledger!EnsurePaymentRecorded
  <2>4. adjusting = Ledger!Idle /\ recording = 0 /\ \A c \in Clerks : ~Working(c)
    BY <1>2, <2>1 DEF Alone
  <2>5. Counted'
    <3>1. receipts = 0
      <4>1. receipts <= overwrites /\ overwrites = 0 /\ receipts \in Nat
        BY <1>1, <2>2 DEF Booked, Orderly, Ledger!TypeOK
      <4> QED  BY <4>1
    <3>2. receipt.stock = journal /\ journal \in Int /\ lines \in Nat
      BY <1>1, <2>1, <3>1 DEF Counted, Ledger!TypeOK
    <3>3. receipts' = 1 /\ stock' = journal + 1 /\ journal' = journal + lines
      BY <2>1, <3>1, <3>2
    <3>4. stock' = journal' - (lines' - 1) /\ receipts' > 0
      BY <2>1, <3>2, <3>3
    <3>5. receipt'.at # "reading" /\ adjusting'.at # "moving"
      BY <1>2, <2>1, <2>4
    <3> QED  BY <3>4, <3>5 DEF Counted
  <2>6. AllOwed'
    <3>1. Ledger!Stands("purchase")
      BY <2>2 DEF Ledger!Stands, Ledger!Standing
    <3>2. \A d \in Ledger!Docs : Ledger!Stands(d)' => Ledger!Stands(d)
      BY <1>1, <2>1, <3>1 DEF Ledger!Stands, Ledger!TypeOK
    <3>3. \A d \in Ledger!Docs : Owed(d)' <=> Owed(d)
      BY <2>1, <2>3 DEF Owed
    <3>4. stage'["purchase"] = "received"
      BY <1>1, <2>1, <2>2 DEF Ledger!TypeOK
    <3> QED  BY <3>2, <3>3, <3>4 DEF AllOwed
  <2>7. \A c \in Clerks : ~Working(c)'
    BY <2>1, <2>4 DEF Working
  <2> QED  BY <2>1, <2>4, <2>5, <2>6, <2>7, NoPayments
<1>6. CASE Ledger!Adjust
  <2>1. /\ adjusting.at = "moving" /\ adjusting' = Ledger!Idle
        /\ stock' = adjusting.stock + adjusting.by /\ journal' = journal + adjusting.by
        /\ UNCHANGED <<stage, status, total, paid, unbooked, cash, entries, lines, receipts, clerk, receipt,
                       recording>>
    BY <1>6 DEF Ledger!Adjust, Ledger!docs, Ledger!money
  <2>2. receipt = Ledger!Idle /\ recording = 0 /\ \A c \in Clerks : ~Working(c)
    BY <1>2, <2>1 DEF Alone
  <2>3. Counted'
    <3>1. adjusting \in Ledger!Moving
      BY <1>1, <1>2, <2>1 DEF Ledger!TypeOK
    <3>2. adjusting.by \in Int /\ journal \in Int /\ lines \in Nat
      BY <1>1, <3>1 DEF Ledger!Moving, Ledger!TypeOK
    <3> DEFINE hidden == IF receipts > 0 THEN lines - 1 ELSE 0
    <3>3. hidden \in Int /\ hidden' = hidden /\ adjusting.stock = journal - hidden
      BY <2>1, <3>2 DEF Counted
    <3> HIDE DEF hidden
    <3>4. stock' = journal' - hidden'
      BY <2>1, <3>2, <3>3
    <3>5. receipt'.at # "reading" /\ adjusting'.at # "moving"
      BY <1>2, <2>1, <2>2
    <3> QED  BY <3>4, <3>5 DEF Counted, hidden
  <2>4. \A c \in Clerks : ~Working(c)'
    BY <2>1, <2>2 DEF Working
  <2> QED  BY <2>1, <2>2, <2>3, <2>4, OwedStill, NoPayments
<1> QED  BY <1>3, <1>4, <1>5, <1>6

\* Documents come and go.
LEMMA DocumentsInTurn ==
    ASSUME LedgerInv, Orderly, Alone, Counted, AllOwed, Promised,
           \/ /\ Ledger!Quiet
              /\ \/ \E s \in Ledger!Pays, n \in Ledger!Amounts :
                       \/ \E now \in 0 .. n : Ledger!CreatePurchase(s, n, now)
                       \/ \E fromOrder \in BOOLEAN : Ledger!CreateSale(s, n, fromOrder)
                       \/ Ledger!CreateExpense(s, n)
                 \/ \E d \in Ledger!Docs : Ledger!Delete(d)
           \/ Ledger!RecordExpense
    PROVE  Alone' /\ Counted' /\ AllOwed' /\ Promised'
<1>1. Ledger!TypeOK /\ Booked /\ Begun /\ Backed
  BY DEF LedgerInv
<1>2. Ledger!Idle.at = "idle"
  BY DEF Ledger!Idle
<1>3. UNCHANGED <<stock, journal, clerk, receipt, adjusting>>
  BY DEF Ledger!CreatePurchase, Ledger!CreateSale, Ledger!CreateExpense, Ledger!Delete,
         Ledger!RecordExpense, Ledger!goods, Ledger!requests
<1>4. receipt = Ledger!Idle /\ adjusting = Ledger!Idle /\ \A c \in Clerks : ~Working(c)
  <2>1. CASE Ledger!Quiet
    BY <2>1, QuietMeans
  <2>2. CASE Ledger!RecordExpense
    BY <1>1, <2>2, Numbers, OneOf DEF Alone, Ledger!RecordExpense
  <2> QED  BY <2>1, <2>2
<1>5. Counted'
  <2>1. receipts' = receipts
    BY DEF Ledger!CreatePurchase, Ledger!CreateSale, Ledger!CreateExpense, Ledger!Delete,
           Ledger!RecordExpense, Ledger!goods
  <2>2. receipts = 0 \/ lines' = lines
    <3>1. ASSUME NEW s \in Ledger!Pays, NEW n \in Ledger!Amounts, NEW now \in 0 .. n,
                 Ledger!CreatePurchase(s, n, now)
          PROVE  receipts = 0
      <4>1. stage["purchase"] = "none"
        BY <3>1 DEF Ledger!CreatePurchase, Ledger!New
      <4>2. receipts <= overwrites /\ overwrites = 0 /\ receipts \in Nat
        BY <1>1, <4>1 DEF Booked, Orderly, Ledger!TypeOK
      <4> QED  BY <4>2
    <3> QED
      BY <3>1 DEF Ledger!CreateSale, Ledger!CreateExpense, Ledger!Delete, Ledger!RecordExpense, Ledger!goods
  <2>3. stock' = journal' - (IF receipts' > 0 THEN lines' - 1 ELSE 0)
    BY <1>3, <2>1, <2>2 DEF Counted
  <2> QED  BY <1>3, <2>3 DEF Counted
<1>6. \A c \in Clerks : ~Working(c)'
  BY <1>3, <1>4 DEF Working
<1>7. Alone' /\ Promised'
  BY <1>3, <1>4, <1>6, NoPayments
<1>8. ASSUME Ledger!Quiet, NEW s \in Ledger!Pays, NEW n \in Ledger!Amounts, NEW now \in 0 .. n,
             Ledger!CreatePurchase(s, n, now)
      PROVE  AllOwed'
  <2>1. "purchase" \in Ledger!Docs /\ n \in Nat /\ n > 0 /\ now \in Nat
    BY OneOf
  <2>2. /\ stage["purchase"] = "none" /\ now \in Ledger!PaidNow(s, n)
        /\ stage' = [stage EXCEPT !["purchase"] = "draft"]
        /\ status' = [status EXCEPT !["purchase"] = s]
        /\ total' = [total EXCEPT !["purchase"] = n]
        /\ recording' = recording /\ unbooked' = unbooked
    BY <1>8 DEF Ledger!CreatePurchase, Ledger!New, Ledger!requests
  <2>3. paid["purchase"] = 0 /\ unbooked["purchase"] = 0 /\ cash["purchase"] = 0 /\ entries["purchase"] = 0
    BY <1>1, <2>1, <2>2 DEF Begun
  <2>4. \A d \in Ledger!Docs : d # "purchase" =>
           /\ stage'[d] = stage[d] /\ status'[d] = status[d] /\ total'[d] = total[d]
           /\ paid'[d] = paid[d] /\ cash'[d] = cash[d]
    BY <1>1, <1>8, <2>2 DEF Ledger!TypeOK, Ledger!CreatePurchase, Ledger!EnsurePaymentRecorded, Ledger!Post
  <2>5. status'["purchase"] = s /\ total'["purchase"] = n
    BY <1>1, <2>1, <2>2 DEF Ledger!TypeOK
  <2>6. /\ paid'["purchase"] \in Int
        /\ s = "paid" => cash'["purchase"] = n /\ entries'["purchase"] > 0
        /\ s # "paid" => cash'["purchase"] = paid'["purchase"] /\ paid'["purchase"] <= n
    <3>1. CASE s = "partial" /\ now < n
      <4>1. /\ paid' = [paid EXCEPT !["purchase"] = now]
            /\ cash' = [cash EXCEPT !["purchase"] = now]
        BY <3>1, <1>8 DEF Ledger!CreatePurchase
      <4> QED  BY <3>1, <4>1, <1>1, <2>1 DEF Ledger!TypeOK
    <3>2. CASE ~(s = "partial" /\ now < n)
      <4> DEFINE k == Ledger!Outstanding(s, n)
      <4>1. Ledger!EnsurePaymentRecorded(s, n) /\ paid' = paid
        BY <3>2, <1>8 DEF Ledger!CreatePurchase
      <4>2. /\ k = IF s = "paid" THEN n ELSE 0
            /\ cash' = [cash EXCEPT !["purchase"] = @ + k]
            /\ entries' = [entries EXCEPT !["purchase"] = @ + (IF k > 0 THEN 1 ELSE 0)]
        BY <1>1, <2>1, <2>3, <4>1, Recording
      <4> HIDE DEF k
      <4>3. cash'["purchase"] = k /\ entries'["purchase"] = (IF k > 0 THEN 1 ELSE 0)
        <5>1. k \in Nat
          BY <2>1, <4>2
        <5>2. cash'["purchase"] = 0 + k /\ entries'["purchase"] = 0 + (IF k > 0 THEN 1 ELSE 0)
          BY <1>1, <2>1, <2>3, <4>2 DEF Ledger!TypeOK
        <5> QED  BY <5>1, <5>2
      <4> QED  BY <2>1, <2>3, <4>1, <4>2, <4>3
    <3> QED  BY <3>1, <3>2
  <2>7. Owed("purchase")'
    <3>1. unbooked'["purchase"] = 0
      BY <2>2, <2>3
    <3> QED  BY <2>1, <2>5, <2>6, <3>1 DEF Owed
  <2>8. \A d \in Ledger!Docs : d # "purchase" => (Ledger!Stands(d)' => Owed(d)')
    BY <2>2, <2>4 DEF AllOwed, Owed, Ledger!Stands
  <2> QED  BY <2>5, <2>6, <2>7, <2>8 DEF AllOwed
<1>9. ASSUME Ledger!Quiet, NEW s \in Ledger!Pays, NEW n \in Ledger!Amounts, NEW fromOrder \in BOOLEAN,
             Ledger!CreateSale(s, n, fromOrder)
      PROVE  AllOwed'
  <2>1. "sale" \in Ledger!Docs /\ n \in Nat /\ n > 0
    BY OneOf
  <2>2. /\ stage["sale"] = "none"
        /\ stage' = [stage EXCEPT !["sale"] = "open"]
        /\ status' = [status EXCEPT !["sale"] = s]
        /\ total' = [total EXCEPT !["sale"] = n]
        /\ paid' = paid /\ unbooked' = unbooked /\ recording' = recording
    BY <1>9 DEF Ledger!CreateSale, Ledger!New, Ledger!requests
  <2>3. paid["sale"] = 0 /\ unbooked["sale"] = 0 /\ cash["sale"] = 0
    BY <1>1, <2>1, <2>2 DEF Begun
  <2>4. \A d \in Ledger!Docs : d # "sale" =>
           /\ stage'[d] = stage[d] /\ status'[d] = status[d] /\ total'[d] = total[d]
           /\ cash'[d] = cash[d] /\ entries'[d] = entries[d]
    BY <1>1, <1>9, <2>2 DEF Ledger!TypeOK, Ledger!CreateSale, Ledger!Post
  <2>5. status'["sale"] = s /\ total'["sale"] = n
    BY <1>1, <2>1, <2>2 DEF Ledger!TypeOK
  <2>6. cash'["sale"] = IF s = "paid" THEN n ELSE 0
    <3>1. CASE s = "paid"
      <4>1. cash' = [cash EXCEPT !["sale"] = @ + n]
        BY <3>1, <1>9 DEF Ledger!CreateSale, Ledger!Post
      <4>2. cash'["sale"] = 0 + n
        BY <4>1, <1>1, <2>1, <2>3 DEF Ledger!TypeOK
      <4> QED  BY <3>1, <4>2, <2>1
    <3>2. CASE s # "paid"
      BY <3>2, <1>9, <2>3 DEF Ledger!CreateSale
    <3> QED  BY <3>1, <3>2
  <2>7. Owed("sale")'
    BY <2>1, <2>2, <2>3, <2>5, <2>6 DEF Owed
  <2>8. \A d \in Ledger!Docs : d # "sale" => (Ledger!Stands(d)' => Owed(d)')
    BY <2>2, <2>4 DEF AllOwed, Owed, Ledger!Stands
  <2>9. stage'["purchase"] = "draft" /\ status'["purchase"] = "paid" => entries'["purchase"] > 0
    BY <2>4, OneOf DEF AllOwed
  <2> QED  BY <2>7, <2>8, <2>9 DEF AllOwed
<1>10. ASSUME Ledger!Quiet, NEW s \in Ledger!Pays, NEW n \in Ledger!Amounts, Ledger!CreateExpense(s, n)
      PROVE  AllOwed'
  <2>1. "expense" \in Ledger!Docs /\ n \in Nat /\ n > 0
    BY OneOf
  <2>2. /\ stage["expense"] = "none"
        /\ stage' = [stage EXCEPT !["expense"] = "open"]
        /\ status' = [status EXCEPT !["expense"] = s]
        /\ total' = [total EXCEPT !["expense"] = n]
        /\ recording' = IF s = "paid" THEN n ELSE 0
        /\ paid' = paid /\ unbooked' = unbooked /\ cash' = cash /\ entries' = entries
    BY <1>10 DEF Ledger!CreateExpense, Ledger!New, Ledger!money
  <2>3. paid["expense"] = 0 /\ cash["expense"] = 0
    BY <1>1, <2>1, <2>2 DEF Begun
  <2>4. \A d \in Ledger!Docs : d # "expense" =>
           stage'[d] = stage[d] /\ status'[d] = status[d] /\ total'[d] = total[d]
    BY <1>1, <2>2 DEF Ledger!TypeOK
  <2>5. status'["expense"] = s /\ total'["expense"] = n
    BY <1>1, <2>1, <2>2 DEF Ledger!TypeOK
  <2>7. Owed("expense")'
    BY <2>1, <2>2, <2>3, <2>5 DEF Owed
  <2>8. \A d \in Ledger!Docs : d # "expense" => (Ledger!Stands(d)' => Owed(d)')
    BY <2>2, <2>4 DEF AllOwed, Owed, Ledger!Stands
  <2>9. stage'["purchase"] = "draft" /\ status'["purchase"] = "paid" => entries'["purchase"] > 0
    BY <2>2, <2>4, OneOf DEF AllOwed
  <2> QED  BY <2>7, <2>8, <2>9 DEF AllOwed
<1>11. ASSUME NEW d \in Ledger!Docs, Ledger!Delete(d)
      PROVE  AllOwed'
  <2>1. /\ stage' = [stage EXCEPT ![d] = "gone"]
        /\ UNCHANGED <<status, total, paid, unbooked, cash, entries, recording>>
    BY <1>11 DEF Ledger!Delete, Ledger!money, Ledger!requests
  <2>2. \A x \in Ledger!Docs : stage'[x] = IF x = d THEN "gone" ELSE stage[x]
    BY <1>1, <2>1 DEF Ledger!TypeOK
  <2>3. \A x \in Ledger!Docs : Ledger!Stands(x)' => Ledger!Stands(x)
    BY <2>2 DEF Ledger!Stands, Ledger!Standing
  <2>4. \A x \in Ledger!Docs : Owed(x)' <=> Owed(x)
    BY <2>1 DEF Owed
  <2>5. stage'["purchase"] = "draft" /\ status'["purchase"] = "paid" => entries'["purchase"] > 0
    BY <2>1, <2>2, OneOf DEF AllOwed
  <2> QED  BY <2>3, <2>4, <2>5 DEF AllOwed
<1>12. ASSUME Ledger!RecordExpense
      PROVE  AllOwed'
  <2>1. /\ recording > 0 /\ recording' = 0
        /\ cash' = [cash EXCEPT !["expense"] = @ + recording]
        /\ entries' = [entries EXCEPT !["expense"] = @ + 1]
        /\ UNCHANGED <<stage, status, total, paid, unbooked>>
    BY <1>12 DEF Ledger!RecordExpense, Ledger!Post, Ledger!docs
  <2>2. "expense" \in Ledger!Docs
    BY OneOf
  <2>3. recording = total["expense"] /\ recording \in Nat /\ cash["expense"] \in Nat
    BY <1>1, <2>1, <2>2, Numbers DEF Backed, Orderly
  <2>4. \A d \in Ledger!Docs : d # "expense" => cash'[d] = cash[d] /\ entries'[d] = entries[d]
    BY <1>1, <2>1 DEF Ledger!TypeOK
  <2>5. cash'["expense"] = cash["expense"] + recording
    BY <1>1, <2>1, <2>2 DEF Ledger!TypeOK
  <2>6. Ledger!Stands("expense")' => Owed("expense")'
    <3> SUFFICES ASSUME Ledger!Stands("expense")' PROVE Owed("expense")'
      OBVIOUS
    <3>1. Ledger!Stands("expense")
      BY <2>1 DEF Ledger!Stands
    <3>2. status["expense"] = "paid" /\ cash["expense"] = 0
      BY <2>1, <2>2, <3>1 DEF AllOwed, Owed
    <3> QED  BY <2>1, <2>3, <2>5, <3>2 DEF Owed
  <2>7. \A d \in Ledger!Docs : d # "expense" => (Ledger!Stands(d)' => Owed(d)')
    BY <2>1, <2>4 DEF AllOwed, Owed, Ledger!Stands
  <2>8. stage'["purchase"] = "draft" /\ status'["purchase"] = "paid" => entries'["purchase"] > 0
    BY <2>1, <2>4, OneOf DEF AllOwed
  <2> QED  BY <2>6, <2>7, <2>8 DEF AllOwed
<1>13. AllOwed'
  BY <1>8, <1>9, <1>10, <1>11, <1>12
<1> QED  BY <1>5, <1>7, <1>13

\* What a form offers stands, is not paid, and costs at least what was paid.
LEMMA ListedMeans ==
    ASSUME LedgerInv, AllOwed, ~(recording > 0), NEW d \in Ledger!Docs, Ledger!Listed(d)
    PROVE  /\ Ledger!Stands(d) /\ status[d] # "paid"
           /\ d = "expense" =>
                 cash[d] = paid[d] /\ paid[d] < total[d] /\ Ledger!Limit(d) = total[d]
           /\ d # "expense" =>
                 /\ cash[d] = paid[d] + unbooked[d] /\ paid[d] <= total[d]
                 /\ Ledger!Limit(d) = total[d] - paid[d]
<1>1. Ledger!Stands(d) /\ status[d] # "paid"
  BY OneOf DEF Ledger!Listed, Ledger!Stands, Ledger!Standing
<1>2. Owed(d)
  BY <1>1 DEF AllOwed
<1>3. paid[d] \in Int /\ total[d] \in Nat
  BY Numbers DEF LedgerInv
<1> QED  BY <1>1, <1>2, <1>3 DEF Owed, Ledger!Limit

LEMMA PaymentsInTurn ==
    ASSUME LedgerInv, Orderly, Alone, Counted, AllOwed, Promised, NEW c \in Clerks,
           \/ /\ Ledger!Quiet
              /\ \E d \in Ledger!Docs, n \in Ledger!Signed : Ledger!CheckPayment(c, d, n)
           \/ Ledger!AddUpPayments(c) \/ Ledger!PaymentFails(c)
    PROVE  Alone' /\ Counted' /\ AllOwed' /\ Promised'
<1>1. Ledger!TypeOK /\ Booked /\ Begun /\ Backed
  BY DEF LedgerInv
<1>2. UNCHANGED <<stage, status, total, paid, unbooked, cash, entries, lines, receipts, stock, journal,
                  receipt, adjusting, recording>>
  BY DEF Ledger!CheckPayment, Ledger!AddUpPayments, Ledger!PaymentFails, Ledger!docs, Ledger!money,
         Ledger!Others, Ledger!goods
<1>3. receipt = Ledger!Idle /\ adjusting = Ledger!Idle /\ recording = 0
      /\ \A e \in Clerks : Working(e) => e = c
  <2>1. CASE Ledger!Quiet
    BY <2>1, QuietMeans
  <2>2. CASE Ledger!AddUpPayments(c) \/ Ledger!PaymentFails(c)
    <3>1. Working(c)
      BY <2>2 DEF Ledger!AddUpPayments, Ledger!PaymentFails, Ledger!At, Working
    <3> QED  BY <3>1 DEF Alone
  <2> QED  BY <2>1, <2>2
<1> DEFINE Agreed(r) == r.at # "idle" =>
              /\ Ledger!Listed(r.doc) /\ r.amount <= Ledger!Limit(r.doc)
              /\ r.doc = "expense" => r.amount > 0
              /\ r.at = "adding" => r.before = paid[r.doc]
<1>4. PICK r : clerk' = [clerk EXCEPT ![c] = r] /\ Agreed(r)
  <2>1. ASSUME NEW d \in Ledger!Docs, NEW n \in Ledger!Signed, Ledger!CheckPayment(c, d, n)
        PROVE  \E r : clerk' = [clerk EXCEPT ![c] = r] /\ Agreed(r)
    <3> DEFINE q == [at |-> "checked", doc |-> d, amount |-> n, total |-> total[d]]
    <3>1. /\ Ledger!Listed(d) /\ n <= Ledger!Limit(d) /\ (d = "expense" => n > 0)
          /\ clerk' = [clerk EXCEPT ![c] = q]
      BY <2>1 DEF Ledger!CheckPayment, Ledger!Accepts, Ledger!Continue
    <3>2. Agreed(q)
      BY <3>1
    <3> QED  BY <3>1, <3>2
  <2>2. ASSUME Ledger!AddUpPayments(c)
        PROVE  \E r : clerk' = [clerk EXCEPT ![c] = r] /\ Agreed(r)
    <3> DEFINE q == [at |-> "adding", doc |-> clerk[c].doc, amount |-> clerk[c].amount,
                     total |-> clerk[c].total, before |-> paid[clerk[c].doc]]
    <3>1. /\ clerk[c].at = "checked"
          /\ clerk' = [clerk EXCEPT ![c] = q]
      BY <2>2 DEF Ledger!AddUpPayments, Ledger!Continue, Ledger!At, Ledger!Before
    <3>2. /\ Ledger!Listed(clerk[c].doc) /\ clerk[c].amount <= Ledger!Limit(clerk[c].doc)
          /\ clerk[c].doc = "expense" => clerk[c].amount > 0
      BY <3>1 DEF Promised, Working
    <3>3. Agreed(q)
      BY <3>2
    <3> QED  BY <3>1, <3>3
  <2>3. ASSUME Ledger!PaymentFails(c)
        PROVE  \E r : clerk' = [clerk EXCEPT ![c] = r] /\ Agreed(r)
    <3>1. clerk' = [clerk EXCEPT ![c] = Ledger!Idle]
      BY <2>3 DEF Ledger!PaymentFails, Ledger!Continue
    <3>2. Agreed(Ledger!Idle)
      BY DEF Ledger!Idle
    <3> QED  BY <3>1, <3>2
  <2> HIDE DEF Agreed
  <2> QED  BY <2>1, <2>2, <2>3
<1>5. \A e \in Clerks : clerk'[e] = IF e = c THEN r ELSE clerk[e]
  BY <1>1, <1>4 DEF Ledger!TypeOK
<1>6. \A e \in Clerks : Working(e)' => e = c /\ clerk'[e] = r
  BY <1>3, <1>5 DEF Working
<1>7. Alone'
  BY <1>2, <1>3, <1>6 DEF Alone
<1>8. Counted'
  BY <1>2 DEF Counted
<1>9. Promised'
  <2>1. \A d \in Ledger!Docs : (Ledger!Listed(d)' <=> Ledger!Listed(d))
    BY <1>2 DEF Ledger!Listed
  <2> SUFFICES ASSUME NEW e \in Clerks, Working(e)'
               PROVE  /\ Ledger!Listed(clerk[e].doc)' /\ clerk'[e].amount <= Ledger!Limit(clerk[e].doc)'
                      /\ clerk'[e].doc = "expense" => clerk'[e].amount > 0
                      /\ clerk'[e].at = "adding" => clerk'[e].before = paid'[clerk'[e].doc]
    BY DEF Promised
  <2>2. clerk'[e] = r /\ r.at # "idle"
    BY <1>6 DEF Working
  <2>3. /\ Ledger!Listed(r.doc) /\ r.amount <= Ledger!Limit(r.doc)
        /\ r.doc = "expense" => r.amount > 0
        /\ r.at = "adding" => r.before = paid[r.doc]
    BY <1>4, <2>2
  <2> QED  BY <1>2, <2>2, <2>3 DEF Ledger!Listed, Ledger!Limit
<1> QED  BY <1>2, <1>7, <1>8, <1>9, OwedStill

LEMMA SettledMeans ==
    ASSUME NEW d, NEW sum \in Int, NEW whole \in Int
    PROVE  Ledger!Settled(d, sum, whole) = "paid" <=> sum >= whole
<1>1. CASE sum >= whole
  BY <1>1 DEF Ledger!Settled
<1>2. CASE sum < whole /\ d = "expense"
  BY <1>2 DEF Ledger!Settled
<1>3. CASE sum < whole /\ d # "expense"
  BY <1>3 DEF Ledger!Settled
<1> QED  BY <1>1, <1>2, <1>3

LEMMA CommitInTurn ==
    ASSUME LedgerInv, Orderly, Alone, Counted, AllOwed, Promised, NEW c \in Clerks,
           Ledger!CommitPayment(c)
    PROVE  Alone' /\ Counted' /\ AllOwed' /\ Promised'
<1>1. Ledger!TypeOK /\ Booked /\ Begun /\ Backed
  BY DEF LedgerInv
<1>0. PICK d, n, s, in, back :
         /\ d = clerk[c].doc /\ n = clerk[c].amount
         /\ in = Ledger!Greater(0, n) /\ back = Ledger!Greater(0, -n)
         /\ s = Ledger!Settled(d, clerk[c].before + n, clerk[c].total)
  OBVIOUS
<1>2. /\ clerk[c].at = "adding" /\ Ledger!Stands(d)
      /\ paid' = [paid EXCEPT ![d] = @ + n]
      /\ unbooked' = [unbooked EXCEPT ![d] = @ + back]
      /\ cash' = [cash EXCEPT ![d] = @ + in]
      /\ status' = [status EXCEPT ![d] = s]
      /\ clerk' = [clerk EXCEPT ![c] = Ledger!Idle]
      /\ UNCHANGED <<stage, total, entries, lines, receipts, stock, journal, receipt, adjusting, recording>>
  BY <1>0 DEF Ledger!CommitPayment, Ledger!At, Ledger!Continue, Ledger!Others, Ledger!goods
<1>3. Working(c) /\ d \in Ledger!Docs /\ n \in Int
  BY <1>0, <1>1, <1>2, Requests2, OneOf DEF Working
<1>15. in \in Nat /\ back \in Nat /\ in = n + back /\ (n > 0 => in = n)
  BY <1>0, <1>3 DEF Ledger!Greater
<1>4. /\ Ledger!Listed(d) /\ n <= Ledger!Limit(d) /\ (d = "expense" => n > 0)
      /\ clerk[c].before = paid[d] /\ clerk[c].total = total[d]
  BY <1>0, <1>1, <1>2, <1>3 DEF Promised, Backed, Orderly
<1>5. s = Ledger!Settled(d, paid[d] + n, total[d])
  BY <1>0, <1>4
<1>6. /\ receipt = Ledger!Idle /\ adjusting = Ledger!Idle /\ recording = 0
      /\ \A e \in Clerks : Working(e) => e = c
  BY <1>3 DEF Alone
<1>7. /\ paid[d] \in Int /\ unbooked[d] \in Nat /\ cash[d] \in Nat /\ total[d] \in Nat
      /\ d = "expense" => cash[d] = paid[d] /\ paid[d] < total[d] /\ n <= total[d]
      /\ d # "expense" =>
            cash[d] = paid[d] + unbooked[d] /\ paid[d] <= total[d] /\ n <= total[d] - paid[d]
  BY <1>1, <1>3, <1>4, <1>6, ListedMeans, Numbers
<1>8. \A e \in Clerks : clerk'[e] = IF e = c THEN Ledger!Idle ELSE clerk[e]
  BY <1>1, <1>2 DEF Ledger!TypeOK
<1>9. \A e \in Clerks : ~Working(e)'
  BY <1>6, <1>8 DEF Working, Ledger!Idle
<1>10. Alone' /\ Promised'
  BY <1>2, <1>6, <1>9, NoPayments
<1>11. Counted'
  BY <1>2 DEF Counted
<1>12. \A x \in Ledger!Docs :
          /\ paid'[x] = IF x = d THEN paid[d] + n ELSE paid[x]
          /\ unbooked'[x] = IF x = d THEN unbooked[d] + back ELSE unbooked[x]
          /\ cash'[x] = IF x = d THEN cash[d] + in ELSE cash[x]
          /\ status'[x] = IF x = d THEN s ELSE status[x]
          /\ Ledger!Stands(x)' <=> Ledger!Stands(x)
  BY <1>1, <1>2, <1>3 DEF Ledger!TypeOK, Ledger!Stands
<1>13. Owed(d)'
  <2>1. /\ paid'[d] = paid[d] + n /\ status'[d] = s
        /\ d = "expense" => cash'[d] = paid'[d]
        /\ d # "expense" => cash'[d] = paid'[d] + unbooked'[d]
        /\ total' = total /\ ~(recording' > 0)
        /\ paid'[d] \in Int /\ unbooked'[d] \in Nat
    BY <1>2, <1>3, <1>4, <1>6, <1>7, <1>12, <1>15
  <2>2. CASE paid[d] + n >= total[d]
    <3>1. s = "paid"
      BY <1>3, <1>5, <1>7, <2>2, SettledMeans
    <3>2. d # "expense" => paid[d] + n = total[d]
      BY <1>3, <1>7, <2>2
    <3>3. d = "expense" => paid[d] + n < 2 * total[d]
      BY <1>3, <1>7
    <3> QED  BY <2>1, <3>1, <3>2, <3>3 DEF Owed
  <2>3. CASE ~(paid[d] + n >= total[d])
    <3>1. s # "paid"
      BY <1>3, <1>5, <1>7, <2>3, SettledMeans
    <3>2. paid[d] + n < total[d] /\ paid[d] + n <= total[d]
      BY <1>3, <1>7, <2>3
    <3> QED  BY <2>1, <3>1, <3>2 DEF Owed
  <2> QED  BY <2>2, <2>3
<1>14. AllOwed'
  <2>1. \A x \in Ledger!Docs : Ledger!Stands(x)' => Owed(x)'
    <3> SUFFICES ASSUME NEW x \in Ledger!Docs, Ledger!Stands(x)' PROVE Owed(x)'
      OBVIOUS
    <3>1. CASE x = d
      BY <3>1, <1>13
    <3>2. CASE x # d
      <4>1. Owed(x)
        BY <1>12 DEF AllOwed
      <4>2. /\ paid'[x] = paid[x] /\ unbooked'[x] = unbooked[x]
            /\ cash'[x] = cash[x] /\ status'[x] = status[x]
        BY <3>2, <1>12
      <4>3. total' = total /\ recording' = recording
        BY <1>2
      <4> QED  BY <4>1, <4>2, <4>3 DEF Owed
    <3> QED  BY <3>1, <3>2
  <2>2. d = "purchase" => stage["purchase"] # "draft"
    BY <1>4 DEF Ledger!Listed
  <2>3. stage'["purchase"] = "draft" /\ status'["purchase"] = "paid" => entries'["purchase"] > 0
    BY <1>2, <1>12, <2>2, OneOf DEF AllOwed
  <2> QED  BY <2>1, <2>3 DEF AllOwed
<1> QED  BY <1>10, <1>11, <1>14

LEMMA InTurnNext ==
    ASSUME LedgerInv, InTurn, Ledger!Next \/ UNCHANGED ledger
    PROVE  InTurn'
<1> SUFFICES ASSUME Orderly' PROVE Alone' /\ Counted' /\ AllOwed' /\ Promised'
  BY DEF InTurn
<1>1. office' = office
  BY DEF ledger, Ledger!Next, Ledger!Begin, Ledger!Proceed, Ledger!CreatePurchase, Ledger!CreateSale,
         Ledger!CreateExpense, Ledger!EditExpense, Ledger!CheckPayment, Ledger!ReadPurchase,
         Ledger!LockForReceipt, Ledger!CheckAdjustment, Ledger!Delete, Ledger!SavePurchase,
         Ledger!Receive, Ledger!RecordExpense, Ledger!ExpenseRequestDies, Ledger!Adjust,
         Ledger!AddUpPayments, Ledger!PaymentFails, Ledger!CommitPayment, Ledger!Others
<1>2. Orderly /\ Alone /\ Counted /\ AllOwed /\ Promised
  BY <1>1 DEF Orderly, InTurn
<1>3. office.solo /\ ~office.edited /\ ~office.dies /\ ~editing
  BY <1>2 DEF Orderly, LedgerInv, Booked
<1>4. CASE UNCHANGED ledger
  <2>1. UNCHANGED <<stage, status, total, paid, unbooked, cash, entries, lines, receipts, stock, journal,
                    clerk, receipt, adjusting, recording>>
    BY <1>4 DEF ledger
  <2>2. Alone'
    BY <1>2, <2>1 DEF Alone, Working
  <2>3. Counted'
    BY <1>2, <2>1 DEF Counted
  <2>4. AllOwed'
    BY <1>2, <2>1, OwedStill
  <2>5. Promised'
    BY <1>2, <2>1 DEF Promised, Working, Ledger!Listed, Ledger!Limit
  <2> QED  BY <2>2, <2>3, <2>4, <2>5
<1>5. CASE Ledger!Free /\ Ledger!Begin
  <2>1. Ledger!Quiet
    BY <1>3, <1>5 DEF Ledger!Free
  <2>2. \/ \E s \in Ledger!Pays, n \in Ledger!Amounts :
              \/ \E now \in 0 .. n : Ledger!CreatePurchase(s, n, now)
              \/ \E fromOrder \in BOOLEAN : Ledger!CreateSale(s, n, fromOrder)
              \/ Ledger!CreateExpense(s, n)
        \/ \E c \in Clerks, d \in Ledger!Docs, n \in Ledger!Signed : Ledger!CheckPayment(c, d, n)
        \/ Ledger!LockForReceipt
        \/ \E n \in {-1, 1} : Ledger!CheckAdjustment(n)
        \/ \E d \in Ledger!Docs : Ledger!Delete(d)
    BY <1>3, <1>5 DEF Ledger!Begin, Ledger!EditExpense, Ledger!ReadPurchase
  <2>3. CASE \/ \E s \in Ledger!Pays, n \in Ledger!Amounts :
                   \/ \E now \in 0 .. n : Ledger!CreatePurchase(s, n, now)
                   \/ \E fromOrder \in BOOLEAN : Ledger!CreateSale(s, n, fromOrder)
                   \/ Ledger!CreateExpense(s, n)
             \/ \E d \in Ledger!Docs : Ledger!Delete(d)
    BY <1>2, <2>1, <2>3, DocumentsInTurn
  <2>4. CASE Ledger!LockForReceipt \/ \E n \in {-1, 1} : Ledger!CheckAdjustment(n)
    BY <1>2, <2>1, <2>4, StockInTurn
  <2>5. CASE \E c \in Clerks, d \in Ledger!Docs, n \in Ledger!Signed : Ledger!CheckPayment(c, d, n)
    BY <1>2, <2>1, <2>5, PaymentsInTurn
  <2> QED  BY <2>2, <2>3, <2>4, <2>5
<1>6. CASE Ledger!Proceed
  <2>1. \/ Ledger!Receive \/ Ledger!RecordExpense \/ Ledger!Adjust
        \/ \E c \in Clerks : Ledger!AddUpPayments(c) \/ Ledger!PaymentFails(c) \/ Ledger!CommitPayment(c)
    BY <1>3, <1>6 DEF Ledger!Proceed, Ledger!SavePurchase, Ledger!ExpenseRequestDies
  <2>2. CASE Ledger!Receive \/ Ledger!Adjust
    BY <1>2, <2>2, StockInTurn
  <2>3. CASE Ledger!RecordExpense
    BY <1>2, <2>3, DocumentsInTurn
  <2>4. CASE \E c \in Clerks : Ledger!AddUpPayments(c) \/ Ledger!PaymentFails(c)
    BY <1>2, <2>4, PaymentsInTurn
  <2>5. CASE \E c \in Clerks : Ledger!CommitPayment(c)
    BY <1>2, <2>5, CommitInTurn
  <2> QED  BY <2>1, <2>2, <2>3, <2>4, <2>5
<1> QED  BY <1>4, <1>5, <1>6 DEF Ledger!Next

\* When requests come one at a time over documents that are not edited, Finance
\* shows what is owed but for what payments below zero took back, nothing is
\* paid beyond it (an expense less than twice), and the stock is that of its
\* journal but for the lines of a material beyond the first (po_receive).
THEOREM BooksAlwaysAgree == Spec => []BooksAgree
<1>1. Init => InTurn
  BY InTurnInit DEF Init
<1>2. LedgerInv /\ InTurn /\ [Next]_vars => InTurn'
  BY InTurnNext DEF Next, vars
<1>3. ASSUME LedgerInv, InTurn
      PROVE  BooksAgree
  <2> SUFFICES ASSUME Ledger!InOrder
               PROVE  /\ \A d \in {"purchase", "sale"} : stage[d] \in {"received", "open"} =>
                            Ledger!Balance(d) = total[d] - cash[d] + unbooked[d]
                      /\ Ledger!Stands("expense") =>
                            cash["expense"] <
                               (IF status["expense"] = "paid" THEN 2 ELSE 1) * total["expense"]
                      /\ stock = journal - (IF receipts > 0 THEN lines - 1 ELSE 0)
    BY DEF BooksAgree, Ledger!BooksAgree
  <2>1. Ledger!Quiet /\ Counted /\ AllOwed
    BY <1>3 DEF Ledger!InOrder, InTurn, Orderly
  <2>2. recording = 0 /\ ~(recording > 0)
    BY <2>1, QuietMeans
  <2>3. ASSUME NEW d \in {"purchase", "sale"}, stage[d] \in {"received", "open"}
        PROVE  Ledger!Balance(d) = total[d] - cash[d] + unbooked[d]
    <3>1. d \in Ledger!Docs /\ Ledger!Stands(d) /\ d # "expense"
      BY <2>3, OneOf DEF Ledger!Stands, Ledger!Standing
    <3>2. paid[d] \in Int /\ unbooked[d] \in Nat /\ cash[d] \in Nat /\ total[d] \in Nat
      BY <1>3, <3>1, Numbers DEF LedgerInv
    <3>3. Owed(d)
      BY <2>1, <3>1 DEF AllOwed
    <3>4. CASE status[d] = "paid"
      <4>1. ~Ledger!Listed(d)
        BY <2>3, <3>4 DEF Ledger!Listed
      <4> QED  BY <3>1, <3>2, <3>3, <3>4, <4>1 DEF Owed, Ledger!Balance
    <3>5. CASE status[d] # "paid"
      <4>1. Ledger!Listed(d)
        BY <1>3, <2>3, <3>5 DEF Ledger!Listed, LedgerInv, Begun
      <4> QED  BY <3>1, <3>2, <3>3, <3>5, <4>1 DEF Owed, Ledger!Balance, Ledger!Greater
    <3> QED  BY <3>4, <3>5
  <2>4. ASSUME Ledger!Stands("expense")
        PROVE  cash["expense"] < (IF status["expense"] = "paid" THEN 2 ELSE 1) * total["expense"]
    <3>1. "expense" \in Ledger!Docs
      BY OneOf
    <3>2. Owed("expense") /\ cash["expense"] \in Nat /\ total["expense"] \in Nat
      BY <1>3, <2>1, <2>4, <3>1, Numbers DEF AllOwed, LedgerInv
    <3>3. CASE status["expense"] = "paid"
      BY <2>2, <3>2, <3>3 DEF Owed
    <3>4. CASE status["expense"] # "paid"
      BY <2>2, <3>2, <3>4 DEF Owed
    <3> QED  BY <3>3, <3>4
  <2> QED  BY <2>1, <2>3, <2>4 DEF Counted
<1> QED  BY <1>1, <1>2, <1>3, LedgerAlways, PTL DEF Spec

-----------------------------------------------------------------------------
(* Adding up.  The laws of sums that the receipts need: a sum over the      *)
(* first receipts is that over the ones before and the next, and what       *)
(* follows from it, by a least counterexample.                              *)

\* Natural numbers that hold zero and every successor are all of them.
LEMMA Naturals ==
    ASSUME NEW P \in SUBSET Nat, 0 \in P, \A n \in P : n + 1 \in P
    PROVE  P = Nat
  <1>1. SUFFICES ASSUME Nat \ P # {} PROVE FALSE
    OBVIOUS
  <1>2. PICK n \in Nat \ P : \A m \in Nat \ P : ~(<<m, n>> \in OpToRel(<, Nat))
    <2>1. Nat \ P \subseteq Nat /\ Nat \ P # {}
      BY <1>1
    <2> QED  BY <2>1, NatLessThanWellFounded, WFMin, Zenon
  <1>3. n # 0 /\ n - 1 \in Nat /\ n - 1 \notin P
    <2>1. n \in Nat /\ n \notin P /\ n # 0
      OBVIOUS
    <2>2. n - 1 \in Nat /\ (n - 1) + 1 = n
      BY <2>1
    <2> QED  BY <2>1, <2>2
  <1>4. <<n - 1, n>> \in OpToRel(<, Nat)
    BY <1>3 DEF OpToRel
  <1> QED  BY <1>2, <1>3, <1>4

\* The index a sum begins with, and the table of the sums of f over subsets.
Any(s) == CHOOSE x \in s : TRUE

Tables(g, f, S) ==
    g = [s \in SUBSET S |-> IF s = {} THEN 0 ELSE f[Any(s)] + g[s \ {Any(s)}]]

TablesUpTo(g, f, S, n) ==
    g = [s \in {t \in SUBSET S : Cardinality(t) <= n} |->
            IF s = {} THEN 0 ELSE f[Any(s)] + g[s \ {Any(s)}]]

Table(f, S) == CHOOSE g : Tables(g, f, S)

Unfolds(g, f, S) ==
    \A s \in SUBSET S : g[s] = IF s = {} THEN 0 ELSE f[Any(s)] + g[s \ {Any(s)}]

LEMMA AnyIn == ASSUME NEW s, s # {} PROVE Any(s) \in s
  BY DEF Any

LEMMA Sizes ==
    ASSUME NEW S, IsFiniteSet(S)
    PROVE  \A t \in SUBSET S : /\ IsFiniteSet(t) /\ Cardinality(t) \in Nat
                               /\ Cardinality(t) <= Cardinality(S)
                               /\ Cardinality(t) = 0 <=> t = {}
                               /\ \A x \in t : Cardinality(t \ {x}) = Cardinality(t) - 1
  BY FS_Subset, FS_CardinalityType, FS_EmptySet, FS_RemoveElement

LEMMA TableExists ==
    ASSUME NEW f, NEW S, IsFiniteSet(S)
    PROVE  \E g : Tables(g, f, S)
  <1> DEFINE P == {n \in Nat : \E g : TablesUpTo(g, f, S, n)}
  <1>2. 0 \in P
    <2> DEFINE g == [s \in {t \in SUBSET S : Cardinality(t) <= 0} |-> 0]
    <2>1. \A s \in {t \in SUBSET S : Cardinality(t) <= 0} : s = {}
      BY Sizes
    <2>2. g = [s \in {t \in SUBSET S : Cardinality(t) <= 0} |->
              IF s = {} THEN 0 ELSE f[Any(s)] + g[s \ {Any(s)}]]
      BY <2>1
    <2> HIDE DEF g
    <2> QED  BY <2>2 DEF TablesUpTo
  <1>3. ASSUME NEW n \in P PROVE n + 1 \in P
    <2>1. PICK g : TablesUpTo(g, f, S, n)
      OBVIOUS
    <2> DEFINE D == {t \in SUBSET S : Cardinality(t) <= n}
               E == {t \in SUBSET S : Cardinality(t) <= n + 1}
               h == [s \in E |-> IF s = {} THEN 0 ELSE f[Any(s)] + g[s \ {Any(s)}]]
    <2>2. \A s \in D : g[s] = IF s = {} THEN 0 ELSE f[Any(s)] + g[s \ {Any(s)}]
      BY <2>1 DEF TablesUpTo
    <2>3. \A s \in E : s # {} => s \ {Any(s)} \in D
      BY Sizes, AnyIn
    <2>4. \A s \in D : s \in E /\ h[s] = g[s]
      BY Sizes, <2>2
    <2>5. h = [s \in E |-> IF s = {} THEN 0 ELSE f[Any(s)] + h[s \ {Any(s)}]]
      BY <2>3, <2>4
    <2> HIDE DEF h
    <2>6. TablesUpTo(h, f, S, n + 1)
      BY <2>5, Zenon DEF TablesUpTo
    <2>7. n + 1 \in Nat
      OBVIOUS
    <2> QED  BY <2>6, <2>7
  <1> HIDE DEF P
  <1>4. P = Nat
    BY <1>2, <1>3, Naturals DEF P
  <1>5. PICK g : TablesUpTo(g, f, S, Cardinality(S))
    BY Sizes, <1>4 DEF P
  <1>6. {t \in SUBSET S : Cardinality(t) <= Cardinality(S)} = SUBSET S
    BY Sizes
  <1> QED  BY <1>5, <1>6 DEF TablesUpTo, Tables

LEMMA TableUnfolds ==
    ASSUME NEW f, NEW S, IsFiniteSet(S)
    PROVE  Unfolds(Table(f, S), f, S)
  <1>1. Tables(Table(f, S), f, S)
    BY TableExists DEF Table
  <1> QED  BY <1>1 DEF Tables, Unfolds

LEMMA SumIsTabled == ASSUME NEW f, NEW S PROVE Sum(f, S) = Table(f, S)[S]
  BY DEF Sum, FoldFunctionOnSet, MapThenFoldSet, Table, Tables, Any

LEMMA TableIsInt ==
    ASSUME NEW S, IsFiniteSet(S), NEW f, \A x \in S : f[x] \in Int
    PROVE  \A s \in SUBSET S : Table(f, S)[s] \in Int
  <1> DEFINE g == Table(f, S)
             C == {n \in Nat : \A s \in SUBSET S : Cardinality(s) = n => g[s] \in Int}
  <1>1. \A s \in SUBSET S : g[s] = IF s = {} THEN 0 ELSE f[Any(s)] + g[s \ {Any(s)}]
    BY TableUnfolds DEF Unfolds
  <1> HIDE DEF g
  <1>2. 0 \in C
    <2>1. \A s \in SUBSET S : Cardinality(s) = 0 => s = {}
      BY Sizes
    <2>2. {} \in SUBSET S /\ g[{}] = 0
      BY <1>1
    <2> QED  BY <2>1, <2>2
  <1>3. ASSUME NEW n \in C PROVE n + 1 \in C
    <2> SUFFICES ASSUME NEW s \in SUBSET S, Cardinality(s) = n + 1 PROVE g[s] \in Int
      OBVIOUS
    <2>1. s # {}
      BY Sizes
    <2> DEFINE a == Any(s)
    <2>2. a \in s /\ g[s] = f[a] + g[s \ {a}]
      BY <1>1, <2>1, AnyIn
    <2> HIDE DEF a
    <2>3. s \ {a} \in SUBSET S /\ Cardinality(s \ {a}) = n
      BY <2>2, Sizes
    <2>4. g[s \ {a}] \in Int /\ f[a] \in Int
      BY <2>2, <2>3
    <2> QED  BY <2>2, <2>4
  <1> HIDE DEF C
  <1>4. C = Nat
    BY <1>2, <1>3, Naturals DEF C
  <1> QED  BY <1>4, Sizes DEF C, g

\* Sums depend on the values they add up only.
LEMMA TablesAgree ==
    ASSUME NEW S, IsFiniteSet(S), NEW T \in SUBSET S, NEW f, NEW h, \A x \in T : h[x] = f[x]
    PROVE  \A s \in SUBSET T : Table(h, T)[s] = Table(f, S)[s]
  <1> DEFINE u == Table(h, T)
             v == Table(f, S)
             C == {n \in Nat : \A s \in SUBSET T : Cardinality(s) = n => u[s] = v[s]}
  <1>0. IsFiniteSet(T)
    BY FS_Subset
  <1>1. Unfolds(u, h, T) /\ Unfolds(v, f, S)
    BY <1>0, TableUnfolds, Zenon
  <1> HIDE DEF u, v
  <1>2. 0 \in C
    BY <1>1, Sizes DEF Unfolds
  <1>3. ASSUME NEW n \in C PROVE n + 1 \in C
    <2> SUFFICES ASSUME NEW s \in SUBSET T, Cardinality(s) = n + 1 PROVE u[s] = v[s]
      OBVIOUS
    <2>1. s # {} /\ s \in SUBSET S
      BY Sizes
    <2> DEFINE a == Any(s)
    <2>2. a \in s /\ u[s] = h[a] + u[s \ {a}] /\ v[s] = f[a] + v[s \ {a}] /\ h[a] = f[a]
      BY <1>1, <2>1, AnyIn DEF Unfolds
    <2> HIDE DEF a
    <2>3. s \ {a} \in SUBSET T /\ Cardinality(s \ {a}) = n
      BY <2>1, <2>2, Sizes
    <2> QED  BY <2>2, <2>3
  <1> HIDE DEF C
  <1>4. C = Nat
    BY <1>2, <1>3, Naturals DEF C
  <1> QED  BY <1>0, <1>4, Sizes DEF C, u, v

\* The order does not matter: any element may come first.
LEMMA TableOfAny ==
    ASSUME NEW S, IsFiniteSet(S), NEW f, \A x \in S : f[x] \in Int
    PROVE  \A s \in SUBSET S : \A x \in s : Table(f, S)[s] = f[x] + Table(f, S)[s \ {x}]
  <1> DEFINE g == Table(f, S)
  <1>1. \A s \in SUBSET S : g[s] = IF s = {} THEN 0 ELSE f[Any(s)] + g[s \ {Any(s)}]
    BY TableUnfolds DEF Unfolds
  <1>2. \A s \in SUBSET S : g[s] \in Int
    BY TableIsInt
  <1> HIDE DEF g
  <1> DEFINE C == {n \in Nat : \A s \in SUBSET S : Cardinality(s) = n =>
                                    \A x \in s : g[s] = f[x] + g[s \ {x}]}
  <1>5. 0 \in C
    BY Sizes
  <1>6. ASSUME NEW n \in C PROVE n + 1 \in C
    <2> SUFFICES ASSUME NEW s \in SUBSET S, Cardinality(s) = n + 1, NEW x \in s
                 PROVE  g[s] = f[x] + g[s \ {x}]
      OBVIOUS
    <2> DEFINE a == Any(s)
    <2>1. a \in s /\ g[s] = f[a] + g[s \ {a}]
      BY <1>1, AnyIn
    <2> HIDE DEF a
    <2>2. CASE x = a
      <3>1. s \ {x} = s \ {a} /\ f[x] = f[a]
        BY <2>2
      <3> QED  BY <2>1, <3>1
    <2>3. CASE x # a
      <3>1. /\ Cardinality(s \ {a}) = n /\ Cardinality(s \ {x}) = n
            /\ x \in s \ {a} /\ a \in s \ {x}
        BY Sizes, <2>1, <2>3
      <3>2. g[s \ {a}] = f[x] + g[(s \ {a}) \ {x}]
        BY <3>1
      <3>3. g[s \ {x}] = f[a] + g[(s \ {x}) \ {a}]
        BY <3>1
      <3>4. (s \ {a}) \ {x} = (s \ {x}) \ {a}
        OBVIOUS
      <3> DEFINE r == g[(s \ {a}) \ {x}]
      <3>5. r \in Int /\ f[a] \in Int /\ f[x] \in Int
        BY <1>2, <2>1
      <3>6. g[s \ {a}] = f[x] + r /\ g[s \ {x}] = f[a] + r
        BY <3>2, <3>3, <3>4
      <3> HIDE DEF r
      <3>7. g[s] = f[a] + (f[x] + r)
        BY <2>1, <3>6
      <3> QED  BY <3>5, <3>6, <3>7
    <2> QED  BY <2>2, <2>3, Zenon
  <1> HIDE DEF C
  <1>7. C = Nat
    BY <1>5, <1>6, Naturals DEF C
  <1> QED  BY Sizes, <1>7 DEF C, g

LEMMA SumOfNone == ASSUME NEW f PROVE Sum(f, {}) = 0
  <1>1. Unfolds(Table(f, {}), f, {})
    BY FS_EmptySet, TableUnfolds
  <1> QED  BY <1>1, SumIsTabled DEF Unfolds

LEMMA SumIsInt ==
    ASSUME NEW S, IsFiniteSet(S), NEW f, \A x \in S : f[x] \in Int
    PROVE  Sum(f, S) \in Int
  BY SumIsTabled, TableIsInt

LEMMA SumOfSame ==
    ASSUME NEW S, IsFiniteSet(S), NEW f, NEW h, \A x \in S : h[x] = f[x]
    PROVE  Sum(h, S) = Sum(f, S)
  BY SumIsTabled, TablesAgree

LEMMA SumSplits ==
    ASSUME NEW S, IsFiniteSet(S), NEW f, \A x \in S : f[x] \in Int, NEW x \in S
    PROVE  Sum(f, S) = f[x] + Sum(f, S \ {x})
  <1>1. Sum(f, S) = Table(f, S)[S] /\ Sum(f, S \ {x}) = Table(f, S \ {x})[S \ {x}]
    BY SumIsTabled
  <1>2. Table(f, S)[S] = f[x] + Table(f, S)[S \ {x}]
    BY TableOfAny
  <1> DEFINE T == S \ {x}
  <1>3. Table(f, S \ {x})[S \ {x}] = Table(f, S)[S \ {x}]
    <2>1. T \in SUBSET S /\ T \in SUBSET T /\ \A y \in T : f[y] = f[y]
      OBVIOUS
    <2> HIDE DEF T
    <2>2. Table(f, T)[T] = Table(f, S)[T]
      BY <2>1, TablesAgree
    <2> QED  BY <2>2 DEF T
  <1> QED  BY <1>1, <1>2, <1>3

\* Sums over the first indices.
LEMMA Firsts ==
    ASSUME NEW n \in Nat
    PROVE  /\ IsFiniteSet(1 .. n)
           /\ (1 .. n + 1) \ {n + 1} = 1 .. n
           /\ n + 1 \in 1 .. n + 1
           /\ \A i \in 1 .. n : i \in 1 .. n + 1
  BY FS_Interval

LEMMA SumGrows ==
    ASSUME NEW n \in Nat, NEW f, \A i \in 1 .. n + 1 : f[i] \in Int
    PROVE  /\ Sum(f, 1 .. n + 1) = Sum(f, 1 .. n) + f[n + 1]
           /\ Sum(f, 1 .. n) \in Int /\ f[n + 1] \in Int
  <1>1. IsFiniteSet(1 .. n + 1) /\ n + 1 \in 1 .. n + 1 /\ (1 .. n + 1) \ {n + 1} = 1 .. n
    BY Firsts, FS_Interval
  <1>2. Sum(f, 1 .. n + 1) = f[n + 1] + Sum(f, (1 .. n + 1) \ {n + 1})
    BY <1>1, SumSplits
  <1>3. Sum(f, 1 .. n + 1) = f[n + 1] + Sum(f, 1 .. n)
    BY <1>1, <1>2
  <1>4. Sum(f, 1 .. n) \in Int
    BY Firsts, SumIsInt
  <1> QED  BY <1>1, <1>3, <1>4

LEMMA SumOfFirsts == ASSUME NEW f PROVE Sum(f, 1 .. 0) = 0
  <1>1. 1 .. 0 = {}
    OBVIOUS
  <1> QED  BY <1>1, SumOfNone

\* A sum depends on the values, and the sum of what is added is that of the sums.
LEMMA SumsAdd ==
    ASSUME NEW n \in Nat, NEW f, NEW g, NEW h,
           \A i \in 1 .. n : f[i] \in Int /\ g[i] \in Int /\ h[i] = f[i] + g[i]
    PROVE  Sum(h, 1 .. n) = Sum(f, 1 .. n) + Sum(g, 1 .. n)
  <1> DEFINE P == {m \in Nat : m <= n => Sum(h, 1 .. m) = Sum(f, 1 .. m) + Sum(g, 1 .. m)}
  <1>1. 0 \in P
    BY SumOfFirsts
  <1>2. ASSUME NEW m \in P PROVE m + 1 \in P
    <2> SUFFICES ASSUME m + 1 <= n
                 PROVE  Sum(h, 1 .. m + 1) = Sum(f, 1 .. m + 1) + Sum(g, 1 .. m + 1)
      OBVIOUS
    <2>0. \A i \in 1 .. m + 1 : i \in 1 .. n
      OBVIOUS
    <2>1. \A i \in 1 .. m + 1 : f[i] \in Int /\ g[i] \in Int /\ h[i] \in Int /\ h[i] = f[i] + g[i]
      BY <2>0
    <2>2. Sum(h, 1 .. m + 1) = Sum(h, 1 .. m) + h[m + 1]
      BY <2>1, SumGrows
    <2>3. /\ Sum(f, 1 .. m + 1) = Sum(f, 1 .. m) + f[m + 1]
          /\ Sum(f, 1 .. m) \in Int /\ f[m + 1] \in Int
      BY <2>1, SumGrows
    <2>4. /\ Sum(g, 1 .. m + 1) = Sum(g, 1 .. m) + g[m + 1]
          /\ Sum(g, 1 .. m) \in Int /\ g[m + 1] \in Int
      BY <2>1, SumGrows
    <2>5. Sum(h, 1 .. m) = Sum(f, 1 .. m) + Sum(g, 1 .. m) /\ h[m + 1] = f[m + 1] + g[m + 1]
      BY <2>1, Firsts
    <2> QED  BY <2>2, <2>3, <2>4, <2>5
  <1> HIDE DEF P
  <1>3. P = Nat
    BY <1>1, <1>2, Naturals DEF P
  <1> QED  BY <1>3 DEF P

LEMMA SumOfNats ==
    ASSUME NEW n \in Nat, NEW f, \A i \in 1 .. n : f[i] \in Nat
    PROVE  /\ Sum(f, 1 .. n) \in Nat
           /\ \A i \in 1 .. n : f[i] <= Sum(f, 1 .. n)
  <1> DEFINE P == {m \in Nat : m <= n => /\ Sum(f, 1 .. m) \in Nat
                                         /\ \A i \in 1 .. m : f[i] <= Sum(f, 1 .. m)}
  <1>1. 0 \in P
    BY SumOfFirsts
  <1>2. ASSUME NEW m \in P PROVE m + 1 \in P
    <2> SUFFICES ASSUME m + 1 <= n
                 PROVE  /\ Sum(f, 1 .. m + 1) \in Nat
                        /\ \A i \in 1 .. m + 1 : f[i] <= Sum(f, 1 .. m + 1)
      OBVIOUS
    <2>1. \A i \in 1 .. m + 1 : f[i] \in Nat
      OBVIOUS
    <2>2. Sum(f, 1 .. m + 1) = Sum(f, 1 .. m) + f[m + 1] /\ f[m + 1] \in Nat
      BY <2>1, SumGrows, Firsts
    <2>3. Sum(f, 1 .. m) \in Nat /\ \A i \in 1 .. m : f[i] <= Sum(f, 1 .. m)
      OBVIOUS
    <2>4. \A i \in 1 .. m + 1 : i = m + 1 \/ i \in 1 .. m
      OBVIOUS
    <2> HIDE DEF P
    <2> QED  BY <2>1, <2>2, <2>3, <2>4
  <1> HIDE DEF P
  <1>3. P = Nat
    BY <1>1, <1>2, Naturals DEF P
  <1> QED  BY <1>3 DEF P

LEMMA SumOfZeros ==
    ASSUME NEW n \in Nat, NEW f, \A i \in 1 .. n : f[i] = 0
    PROVE  Sum(f, 1 .. n) = 0
  <1>1. Sum(f, 1 .. n) = Sum(f, 1 .. n) + Sum(f, 1 .. n)
    <2>1. \A i \in 1 .. n : f[i] \in Int /\ f[i] \in Int /\ f[i] = f[i] + f[i]
      OBVIOUS
    <2> QED  BY <2>1, SumsAdd
  <1>2. Sum(f, 1 .. n) \in Int
    BY Firsts, SumIsInt
  <1> QED  BY <1>1, <1>2

\* A sum in which one value is changed.
LEMMA SumChanges ==
    ASSUME NEW n \in Nat, NEW f, NEW h, NEW a \in 1 .. n,
           \A i \in 1 .. n : f[i] \in Int /\ h[i] \in Int,
           \A i \in 1 .. n : i # a => h[i] = f[i]
    PROVE  Sum(h, 1 .. n) = Sum(f, 1 .. n) + h[a] - f[a]
  <1>1. IsFiniteSet(1 .. n) /\ IsFiniteSet((1 .. n) \ {a})
    BY Firsts, FS_Subset
  <1>2. Sum(h, 1 .. n) = h[a] + Sum(h, (1 .. n) \ {a})
    BY <1>1, SumSplits
  <1>3. Sum(f, 1 .. n) = f[a] + Sum(f, (1 .. n) \ {a})
    BY <1>1, SumSplits
  <1>4. Sum(h, (1 .. n) \ {a}) = Sum(f, (1 .. n) \ {a}) /\ Sum(f, (1 .. n) \ {a}) \in Int
    BY <1>1, SumOfSame, SumIsInt
  <1>5. f[a] \in Int /\ h[a] \in Int
    OBVIOUS
  <1> QED  BY <1>2, <1>3, <1>4, <1>5

\* A sum that is no larger term by term.
LEMMA SumsCompare ==
    ASSUME NEW n \in Nat, NEW f, NEW h, \A i \in 1 .. n : f[i] \in Int /\ h[i] \in Int /\ f[i] <= h[i]
    PROVE  Sum(f, 1 .. n) <= Sum(h, 1 .. n)
  <1> DEFINE d == [i \in 1 .. n |-> h[i] - f[i]]
  <1>1. \A i \in 1 .. n : d[i] \in Nat
    OBVIOUS
  <1>2. \A i \in 1 .. n : f[i] \in Int /\ d[i] \in Int /\ h[i] = f[i] + d[i]
    OBVIOUS
  <1> HIDE DEF d
  <1>3. Sum(h, 1 .. n) = Sum(f, 1 .. n) + Sum(d, 1 .. n)
    BY <1>2, SumsAdd
  <1>4. Sum(d, 1 .. n) \in Nat /\ Sum(f, 1 .. n) \in Int
    BY <1>1, SumOfNats, Firsts, SumIsInt
  <1> QED  BY <1>3, <1>4

-----------------------------------------------------------------------------
(* Laying receipts and sales end to end *)

\* How far l from a on and d from b on overlap.
Overlap(a, l, b, d) == Greatest(0, Least(a + l, b + d) - Greatest(a, b))

LEMMA OverlapIs ==
    ASSUME NEW a \in Nat, NEW l \in Nat, NEW b \in Nat, NEW d \in Nat
    PROVE  /\ Overlap(a, l, b, d) \in Nat
           /\ Overlap(a, l, b, d) <= l /\ Overlap(a, l, b, d) <= d
           /\ Overlap(a, l, b, d) = Overlap(b, d, a, l)
           /\ b <= a /\ a + l <= b + d => Overlap(a, l, b, d) = l
  BY DEF Overlap, Greatest, Least

LEMMA OverlapSplits ==
    ASSUME NEW a \in Nat, NEW l \in Nat, NEW b \in Nat, NEW d \in Nat, NEW e \in Nat
    PROVE  Overlap(a, l, b, d) + Overlap(a, l, b + d, e) = Overlap(a, l, b, d + e)
  BY DEF Overlap, Greatest, Least

LEMMA ThreeSales ==
    ASSUME NEW f, \A s \in Sales : f[s] \in Int
    PROVE  /\ Sum(f, Sales) = f[1] + f[2] + f[3]
           /\ Sum(f, 1 .. 1 - 1) = 0
           /\ Sum(f, 1 .. 2 - 1) = f[1]
           /\ Sum(f, 1 .. 3 - 1) = f[1] + f[2]
  <1>1. f[1] \in Int /\ f[2] \in Int /\ f[3] \in Int
    BY DEF Sales
  <1>2. 1 - 1 = 0 /\ 2 - 1 = 1 /\ 3 - 1 = 2 /\ 0 + 1 = 1 /\ 1 + 1 = 2 /\ 2 + 1 = 3
    OBVIOUS
  <1>3. Sum(f, 1 .. 0) = 0
    BY SumOfFirsts
  <1>4. Sum(f, 1 .. 0 + 1) = Sum(f, 1 .. 0) + f[0 + 1]
    <2>1. \A i \in 1 .. 0 + 1 : f[i] \in Int
      BY DEF Sales
    <2> QED  BY <2>1, SumGrows
  <1>5. Sum(f, 1 .. 1 + 1) = Sum(f, 1 .. 1) + f[1 + 1]
    <2>1. \A i \in 1 .. 1 + 1 : f[i] \in Int
      BY DEF Sales
    <2> QED  BY <2>1, SumGrows
  <1>6. Sum(f, 1 .. 2 + 1) = Sum(f, 1 .. 2) + f[2 + 1]
    <2>1. \A i \in 1 .. 2 + 1 : f[i] \in Int
      BY DEF Sales
    <2> QED  BY <2>1, SumGrows
  <1> QED  BY <1>1, <1>2, <1>3, <1>4, <1>5, <1>6 DEF Sales

\* What is allocated is no more than is left of a receipt and than is due of a
\* sale, and it exhausts one or the other.
LEMMA AllocationFills ==
    ASSUME NEW left \in [Receipts -> Nat], NEW due \in [Sales -> Nat],
           NEW plan, plan = Allocation(left, due)
    PROVE  /\ plan \in [Receipts -> [Sales -> Nat]]
           /\ \A r \in Receipts : Sum(plan[r], Sales) <= left[r]
           /\ \A s \in Sales : Sum([r \in Receipts |-> plan[r][s]], Receipts) <= due[s]
           /\ \A r \in Receipts, s \in Sales :
                 plan[r][s] <= left[r] /\ plan[r][s] <= due[s]
           /\ \A r \in Receipts, s \in Sales :
                 \/ Sum(plan[r], Sales) = left[r]
                 \/ Sum([q \in Receipts |-> plan[q][s]], Receipts) = due[s]
  <1> DEFINE from(r) == Sum(left, 1 .. r - 1)
             start(s) == Sum(due, 1 .. s - 1)
             D == due[1] + due[2] + due[3]
             P(n) == Sum(left, 1 .. n)
  <1>0. MaxReceipts \in Nat /\ Receipts = 1 .. MaxReceipts /\ Sales = {1, 2, 3}
    BY ShopsAssumption DEF Receipts, Sales
  <1>1. /\ due[1] \in Nat /\ due[2] \in Nat /\ due[3] \in Nat /\ D \in Nat
        /\ start(1) = 0 /\ start(2) = due[1] /\ start(3) = due[1] + due[2]
    BY <1>0, ThreeSales
  <1>2. \A s \in Sales : start(s) \in Nat /\ due[s] \in Nat /\ start(s) + due[s] <= D
    <2> SUFFICES ASSUME NEW s \in Sales
                 PROVE  start(s) \in Nat /\ due[s] \in Nat /\ start(s) + due[s] <= D
      OBVIOUS
    <2>1. CASE s = 1
      BY <1>1, <2>1
    <2>2. CASE s = 2
      BY <1>1, <2>2
    <2>3. CASE s = 3
      BY <1>1, <2>3
    <2> QED  BY <1>0, <2>1, <2>2, <2>3
  <1>3. \A n \in Nat : n <= MaxReceipts => P(n) \in Nat
    <2> SUFFICES ASSUME NEW n \in Nat, n <= MaxReceipts PROVE P(n) \in Nat
      OBVIOUS
    <2>1. \A i \in 1 .. n : left[i] \in Nat
      BY <1>0
    <2> QED  BY <2>1, SumOfNats
  <1>4. \A n \in Nat : n + 1 <= MaxReceipts => P(n + 1) = P(n) + left[n + 1] /\ left[n + 1] \in Nat
    <2> SUFFICES ASSUME NEW n \in Nat, n + 1 <= MaxReceipts
                 PROVE  P(n + 1) = P(n) + left[n + 1] /\ left[n + 1] \in Nat
      OBVIOUS
    <2>1. \A i \in 1 .. n + 1 : i \in Receipts
      BY <1>0
    <2>2. \A i \in 1 .. n + 1 : left[i] \in Int
      BY <2>1
    <2>3. Sum(left, 1 .. n + 1) = Sum(left, 1 .. n) + left[n + 1]
      BY <2>2, SumGrows
    <2>4. left[n + 1] \in Nat
      BY <2>1, Firsts
    <2> QED  BY <2>3, <2>4
  <1>5. \A r \in Receipts : /\ from(r) = P(r - 1) /\ from(r) \in Nat /\ left[r] \in Nat
                            /\ from(r) + left[r] = P(r)
    <2> SUFFICES ASSUME NEW r \in Receipts
                 PROVE  /\ from(r) = P(r - 1) /\ from(r) \in Nat /\ left[r] \in Nat
                        /\ from(r) + left[r] = P(r)
      OBVIOUS
    <2>1. r - 1 \in Nat /\ (r - 1) + 1 = r /\ r <= MaxReceipts /\ r - 1 <= MaxReceipts
      BY <1>0
    <2>2. P(r) = P(r - 1) + left[r]
      BY <1>4, <2>1
    <2>3. P(r - 1) \in Nat
      BY <1>3, <2>1
    <2> QED  BY <2>2, <2>3
  <1>6. \A r \in Receipts, s \in Sales : plan[r][s] = Overlap(from(r), left[r], start(s), due[s])
    BY DEF Allocation, Overlap
  <1>7. \A r \in Receipts, s \in Sales :
           plan[r][s] \in Nat /\ plan[r][s] <= left[r] /\ plan[r][s] <= due[s]
    <2> SUFFICES ASSUME NEW r \in Receipts, NEW s \in Sales
                 PROVE  plan[r][s] \in Nat /\ plan[r][s] <= left[r] /\ plan[r][s] <= due[s]
      OBVIOUS
    <2>1. from(r) \in Nat /\ left[r] \in Nat /\ start(s) \in Nat /\ due[s] \in Nat
      BY <1>2, <1>5
    <2>2. plan[r][s] = Overlap(from(r), left[r], start(s), due[s])
      BY <1>6
    <2> HIDE DEF from, start
    <2> QED  BY <2>1, <2>2, OverlapIs
  <1>8. plan \in [Receipts -> [Sales -> Nat]]
    <2>1. plan = [r \in Receipts |-> [s \in Sales |-> plan[r][s]]]
      BY DEF Allocation
    <2> QED  BY <1>7, <2>1
  <1>9. \A r \in Receipts : Sum(plan[r], Sales) = Overlap(from(r), left[r], 0, D)
    <2> SUFFICES ASSUME NEW r \in Receipts
                 PROVE  Sum(plan[r], Sales) = Overlap(from(r), left[r], 0, D)
      OBVIOUS
    <2> DEFINE a == from(r)
               l == left[r]
               x == due[1]
               y == due[2]
               z == due[3]
    <2>1. a \in Nat /\ l \in Nat /\ x \in Nat /\ y \in Nat /\ z \in Nat
      BY <1>1, <1>5
    <2>2. /\ plan[r][1] = Overlap(a, l, 0, x)
          /\ plan[r][2] = Overlap(a, l, x, y)
          /\ plan[r][3] = Overlap(a, l, x + y, z)
      BY <1>0, <1>1, <1>6
    <2>3. Sum(plan[r], Sales) = plan[r][1] + plan[r][2] + plan[r][3]
      BY <1>7, ThreeSales
    <2>4. D = x + y + z
      OBVIOUS
    <2> HIDE DEF a, l, x, y, z, D
    <2>5. Overlap(a, l, 0, x) + Overlap(a, l, 0 + x, y) = Overlap(a, l, 0, x + y)
      BY <2>1, OverlapSplits
    <2>6. Overlap(a, l, 0, x + y) + Overlap(a, l, 0 + (x + y), z) = Overlap(a, l, 0, (x + y) + z)
      <3>1. x + y \in Nat /\ 0 \in Nat
        BY <2>1
      <3> QED  BY <2>1, <3>1, OverlapSplits
    <2>7. 0 + x = x /\ 0 + (x + y) = x + y
      BY <2>1
    <2>8. Sum(plan[r], Sales) = Overlap(a, l, 0, x + y + z)
      BY <2>2, <2>3, <2>5, <2>6, <2>7
    <2> QED  BY <2>4, <2>8 DEF a, l
  <1>10. \A s \in Sales : Sum([r \in Receipts |-> plan[r][s]], Receipts)
                             = Overlap(0, P(MaxReceipts), start(s), due[s])
    <2> SUFFICES ASSUME NEW s \in Sales
                 PROVE  Sum([r \in Receipts |-> plan[r][s]], Receipts)
                           = Overlap(0, P(MaxReceipts), start(s), due[s])
      OBVIOUS
    <2> DEFINE f == [r \in Receipts |-> plan[r][s]]
               b == start(s)
               d == due[s]
               C == {n \in Nat : n <= MaxReceipts => Sum(f, 1 .. n) = Overlap(0, P(n), b, d)}
    <2>1. b \in Nat /\ d \in Nat
      BY <1>2
    <2>2. \A r \in Receipts : f[r] = Overlap(from(r), left[r], b, d) /\ f[r] \in Nat
      BY <1>6, <1>7
    <2> HIDE DEF f, b, d
    <2>3. 0 \in C
      <3>1. Sum(f, 1 .. 0) = 0 /\ P(0) = 0
        BY SumOfFirsts
      <3>2. Overlap(0, 0, b, d) = 0
        BY <2>1 DEF Overlap, Greatest, Least
      <3> HIDE DEF P
      <3> QED  BY <3>1, <3>2
    <2>4. ASSUME NEW n \in C PROVE n + 1 \in C
      <3> SUFFICES ASSUME n + 1 <= MaxReceipts
                   PROVE  Sum(f, 1 .. n + 1) = Overlap(0, P(n + 1), b, d)
        OBVIOUS
      <3>1. n \in Nat /\ n + 1 \in Receipts /\ n <= MaxReceipts /\ (n + 1) - 1 = n
        BY <1>0
      <3>2. \A i \in 1 .. n + 1 : f[i] \in Int
        <4>1. \A i \in 1 .. n + 1 : i \in Receipts
          BY <1>0
        <4> QED  BY <2>2, <4>1
      <3>3. Sum(f, 1 .. n + 1) = Sum(f, 1 .. n) + f[n + 1]
        BY <3>1, <3>2, SumGrows
      <3>4. Sum(f, 1 .. n) = Overlap(0, P(n), b, d)
        BY <3>1
      <3>5. from(n + 1) = P(n)
        BY <1>5, <3>1
      <3>6. f[n + 1] = Overlap(P(n), left[n + 1], b, d)
        BY <2>2, <3>1, <3>5
      <3>7. P(n + 1) = P(n) + left[n + 1] /\ left[n + 1] \in Nat /\ P(n) \in Nat
        BY <1>3, <1>4, <3>1
      <3> DEFINE p == P(n)
                 l == left[n + 1]
      <3> HIDE DEF p, l
      <3>8. p \in Nat /\ l \in Nat
        BY <3>7 DEF p, l
      <3>9. Overlap(0, p, b, d) = Overlap(b, d, 0, p) /\ Overlap(p, l, b, d) = Overlap(b, d, p, l)
            /\ Overlap(0, p + l, b, d) = Overlap(b, d, 0, p + l)
        <4>1. p + l \in Nat /\ 0 \in Nat
          BY <3>8
        <4>2. Overlap(0, p, b, d) = Overlap(b, d, 0, p)
          BY <2>1, <3>8, <4>1, OverlapIs
        <4>3. Overlap(p, l, b, d) = Overlap(b, d, p, l)
          BY <2>1, <3>8, OverlapIs
        <4>4. Overlap(0, p + l, b, d) = Overlap(b, d, 0, p + l)
          BY <2>1, <4>1, OverlapIs
        <4> QED  BY <4>2, <4>3, <4>4
      <3>10. Overlap(b, d, 0, p) + Overlap(b, d, 0 + p, l) = Overlap(b, d, 0, p + l) /\ 0 + p = p
        BY <2>1, <3>8, OverlapSplits
      <3>11. Overlap(0, p, b, d) + Overlap(p, l, b, d) = Overlap(0, p + l, b, d)
        BY <3>9, <3>10
      <3> HIDE DEF P
      <3> QED  BY <3>3, <3>4, <3>6, <3>7, <3>11 DEF p, l
    <2> HIDE DEF C
    <2>5. C = Nat
      BY <2>3, <2>4, Naturals DEF C
    <2>6. Sum(f, 1 .. MaxReceipts) = Overlap(0, P(MaxReceipts), b, d)
      BY <1>0, <2>5 DEF C
    <2> QED  BY <1>0, <2>6 DEF f, b, d
  <1>11. \A r \in Receipts : P(r) <= P(MaxReceipts)
    <2> DEFINE C == {n \in Nat : \A m \in Nat : n + m <= MaxReceipts => P(n) <= P(n + m)}
               E == {m \in Nat : \A n \in Nat : n + m <= MaxReceipts => P(n) <= P(n + m)}
    <2>1. 0 \in E
      BY <1>3
    <2>2. ASSUME NEW m \in E PROVE m + 1 \in E
      <3> SUFFICES ASSUME NEW n \in Nat, n + (m + 1) <= MaxReceipts PROVE P(n) <= P(n + (m + 1))
        OBVIOUS
      <3>1. m \in Nat /\ n + m \in Nat /\ n + m <= MaxReceipts /\ n <= MaxReceipts
            /\ (n + m) + 1 = n + (m + 1) /\ (n + m) + 1 <= MaxReceipts
        BY <1>0
      <3>2. P(n) <= P(n + m)
        BY <3>1
      <3>3. P((n + m) + 1) = P(n + m) + left[(n + m) + 1] /\ left[(n + m) + 1] \in Nat
        BY <1>4, <3>1
      <3>4. P(n) \in Nat /\ P(n + m) \in Nat
        BY <1>3, <3>1
      <3> HIDE DEF P
      <3> QED  BY <3>1, <3>2, <3>3, <3>4
    <2> HIDE DEF E
    <2>3. E = Nat
      BY <2>1, <2>2, Naturals DEF E
    <2> SUFFICES ASSUME NEW r \in Receipts PROVE P(r) <= P(MaxReceipts)
      OBVIOUS
    <2>4. r \in Nat /\ \E m \in Nat : r + m = MaxReceipts
      <3>1. MaxReceipts - r \in Nat /\ r + (MaxReceipts - r) = MaxReceipts /\ r \in Nat
        BY <1>0
      <3> QED  BY <3>1
    <2>5. PICK m \in Nat : r + m = MaxReceipts
      BY <2>4
    <2>6. m \in E
      BY <2>3
    <2>7. r + m <= MaxReceipts
      BY <1>0, <2>5
    <2>8. P(r) <= P(r + m)
      BY <2>4, <2>6, <2>7 DEF E
    <2> HIDE DEF P
    <2> QED  BY <2>5, <2>8
  <1>12. \A r \in Receipts, s \in Sales :
            \/ Sum(plan[r], Sales) = left[r]
            \/ Sum([q \in Receipts |-> plan[q][s]], Receipts) = due[s]
    <2> SUFFICES ASSUME NEW r \in Receipts, NEW s \in Sales
                 PROVE  \/ Sum(plan[r], Sales) = left[r]
                        \/ Sum([q \in Receipts |-> plan[q][s]], Receipts) = due[s]
      OBVIOUS
    <2> DEFINE all == P(MaxReceipts)
               a == from(r)
               l == left[r]
               b == start(s)
               d == due[s]
    <2>1. a \in Nat /\ l \in Nat /\ a + l <= all /\ all \in Nat /\ D \in Nat
      <3>1. a + l = P(r) /\ P(r) <= all
        BY <1>5, <1>11
      <3> QED  BY <1>0, <1>1, <1>3, <1>5, <3>1
    <2>2. b \in Nat /\ d \in Nat /\ b + d <= D
      BY <1>2
    <2>3. Sum(plan[r], Sales) = Overlap(a, l, 0, D)
      BY <1>9
    <2>4. Sum([q \in Receipts |-> plan[q][s]], Receipts) = Overlap(0, all, b, d)
      BY <1>10
    <2> HIDE DEF all, a, l, b, d, D
    <2>5. CASE all <= D
      <3>1. 0 <= a /\ a + l <= 0 + D
        BY <2>1, <2>5
      <3>2. Overlap(a, l, 0, D) = l
        BY <2>1, <3>1, OverlapIs
      <3> QED  BY <2>3, <3>2 DEF l
    <2>6. CASE D <= all
      <3>1. 0 <= b /\ b + d <= 0 + all
        BY <2>1, <2>2, <2>6
      <3>2. Overlap(b, d, 0, all) = d /\ Overlap(0, all, b, d) = Overlap(b, d, 0, all)
        <4>1. 0 \in Nat
          OBVIOUS
        <4>2. Overlap(b, d, 0, all) = d
          BY <2>1, <2>2, <3>1, <4>1, OverlapIs
        <4>3. Overlap(0, all, b, d) = Overlap(b, d, 0, all)
          BY <2>1, <2>2, <4>1, OverlapIs
        <4> QED  BY <4>2, <4>3
      <3> QED  BY <2>4, <3>2 DEF d
    <2> QED  BY <2>1, <2>5, <2>6
  <1>13. \A r \in Receipts : Sum(plan[r], Sales) <= left[r]
    BY <1>1, <1>5, <1>9, OverlapIs
  <1>14. \A s \in Sales : Sum([r \in Receipts |-> plan[r][s]], Receipts) <= due[s]
    <2>1. P(MaxReceipts) \in Nat
      BY <1>0, <1>3
    <2> SUFFICES ASSUME NEW s \in Sales
                 PROVE  Sum([r \in Receipts |-> plan[r][s]], Receipts) <= due[s]
      OBVIOUS
    <2>2. Sum([r \in Receipts |-> plan[r][s]], Receipts) = Overlap(0, P(MaxReceipts), start(s), due[s])
      BY <1>10
    <2>3. start(s) \in Nat /\ due[s] \in Nat /\ 0 \in Nat
      BY <1>2
    <2> HIDE DEF P, start
    <2> QED  BY <2>1, <2>2, <2>3, OverlapIs
  <1> QED  BY <1>7, <1>8, <1>12, <1>13, <1>14

-----------------------------------------------------------------------------
(* The receipts of a web order *)

\* What a request goes by.
Holding(w)      == w.at \in {"listed", "allocated"}
Own(w)          == {r \in Receipts : w.of = "record" /\ NextId(r)}
Known(w)        == Sold \cup Made(w.of)
AmountOf(w, r)  == IF amount[r] = 0 THEN w.n ELSE amount[r]
Planned(w, s)   == Sum([r \in Receipts |-> w.plan[r][s]], Receipts)

\* Nobody else changes the order while its intake is held.
Locked(w) ==
    Holding(w) =>
        /\ w.of = "accept" => progress = "pending"
        /\ w.of = "complete" => progress = "accepted"
        /\ w.of = "record" => w.n > 0
        /\ ~shop.marks => w.of # "complete" \/ ~w.marked

\* What a request has read or plans that no other request can spoil.
Reads(w) ==
    /\ w.at = "listed" => w.seen \subseteq {r \in Receipts : amount[r] > 0} \cup Own(w)
    /\ w.at = "allocated" =>
          /\ \A r \in Receipts, s \in Sales : w.plan[r][s] > 0 =>
                (amount[r] > 0 \/ r \in Own(w)) /\ s \in Known(w)
          /\ \A r \in Receipts : Sum(w.plan[r], Sales) <= Left(r, AmountOf(w, r))
          /\ ~shop.finance => \A s \in Sales : Paid(s) + Planned(w, s) <= shop.price[s]
    /\ w.at = "reversing" =>
          /\ w.receipt \in Standing
          /\ w.from = {s \in Sales : alloc[w.receipt][s] > 0}
    /\ w.at \in {"checked", "adding"} => shop.finance /\ w.sale \in Sold

\* What it has read that holds as long as reversals stay apart, and of sales
\* whose payments were not lowered behind somebody's back.
Fresh(w) ==
    /\ Holding(w) /\ w.of = "complete" => w.marked = orderPaid
    /\ w.at = "listed" => w.seen = Standing \cup Own(w)
    /\ w.at = "allocated" =>
          /\ \A r \in Standing \cup Own(w), s \in Known(w) \ lowered :
                \/ Left(r, AmountOf(w, r)) = Sum(w.plan[r], Sales)
                \/ Paid(s) + Planned(w, s) >= shop.price[s]
          /\ \A s \in Sales \ lowered : w.sum[s] <= Paid(s) + Planned(w, s)
    /\ w.at = "reversing" => \A s \in Sales : w.sum[s] = Paid(s) - alloc[w.receipt][s]
    /\ w.at = "adding" => w.sale \in lowered \/ w.before <= Paid(w.sale)

Informs(w) == Locked(w) /\ Reads(w) /\ (~shop.crossing => Fresh(w))
Informed   == \A q \in Requests, w \in Works : w = work[q] => Informs(w)

\* The intake has one holder, a receipt is reversed once at a time, and where
\* reversals do not overlap with other requests they are alone.
Apart ==
    /\ \A p, q \in Requests : Holding(work[p]) /\ Holding(work[q]) => p = q
    /\ \A p, q \in Requests : At(p, "reversing") /\ At(q, "reversing")
                                 /\ work[p].receipt = work[q].receipt => p = q
    /\ ~shop.crossing => \A p, q \in Requests : At(q, "reversing") => p = q \/ At(p, "idle")

Spending ==
    /\ \A r \in Receipts : Left(r, amount[r]) >= 0
    /\ \A r \in reversed : amount[r] > 0
    /\ \A r \in Receipts, s \in Sales : <<r, s>> \in undone => r \in reversed /\ alloc[r][s] > 0
    /\ ~shop.finance => \A s \in Sales : taken[s] = 0 /\ Paid(s) <= shop.price[s]
    /\ \A s \in Sales \ Sold : taken[s] = 0

Reached ==
    ~shop.crossing /\ ~disturbed =>
        \A r \in Standing, s \in Sold \ lowered :
            Left(r, amount[r]) = 0 \/ Paid(s) >= shop.price[s]

Unmarked == ~shop.marks => booked = 0 /\ (progress # "completed" => ~orderPaid)

Shows ==
    ~shop.crossing =>
        /\ \A s \in Sales \ lowered : shown[s] = "paid" => Covered(s)
        /\ orderPaid /\ progress = "completed" /\ shop.price[Offcut] = 0 =>
              Covered(Main) \/ Main \in lowered

ReceiptsInv == ReceiptsTypeOK /\ Informed /\ Apart /\ Spending /\ Reached /\ Unmarked /\ Shows

LEMMA ReceiptsAre ==
    /\ MaxReceipts \in Nat /\ MaxAmount \in Nat
    /\ Receipts = 1 .. MaxReceipts /\ IsFiniteSet(Receipts)
    /\ Sales = {1, 2, 3} /\ 0 \in 0 .. MaxAmount
    /\ Amounts \subseteq Nat \ {0} /\ Amounts \subseteq 0 .. MaxAmount /\ Signed \subseteq Int
<1>1. MaxReceipts \in Nat /\ MaxAmount \in Nat
  BY ShopsAssumption
<1>2. Receipts = 1 .. MaxReceipts /\ IsFiniteSet(Receipts)
  BY <1>1, FS_Interval DEF Receipts
<1>3. Sales = {1, 2, 3} /\ 0 \in 0 .. MaxAmount
  BY <1>1 DEF Sales
<1>4. Amounts \subseteq Nat \ {0} /\ Amounts \subseteq 0 .. MaxAmount /\ Signed \subseteq Int
  BY <1>1 DEF Amounts, Signed
<1> QED  BY <1>1, <1>2, <1>3, <1>4

LEMMA ShopIs ==
    ASSUME ReceiptsTypeOK
    PROVE  /\ \A s \in Sales : shop.price[s] \in Nat /\ shop.price[s] <= MaxAmount
           /\ shop.payable \in Nat
           /\ shop.marks \in BOOLEAN /\ shop.finance \in BOOLEAN
           /\ shop.reverses \in BOOLEAN /\ shop.crossing \in BOOLEAN
<1>1. shop \in [price : [Sales -> 0 .. MaxAmount], payable : Nat, marks : BOOLEAN,
                finance : BOOLEAN, corrects : BOOLEAN, reverses : BOOLEAN, crossing : BOOLEAN]
  BY ShopsAssumption DEF ReceiptsTypeOK
<1>2. MaxAmount \in Nat
  BY ReceiptsAre
<1> QED  BY <1>1, <1>2

LEMMA WorkIs ==
    ASSUME ReceiptsTypeOK, NEW q \in Requests, NEW w, w = work[q]
    PROVE  /\ w \in Works
           /\ Holding(w) => w.of \in Kinds /\ w.n \in 0 .. MaxAmount /\ w.marked \in BOOLEAN
           /\ w.at = "listed" => w.seen \subseteq Receipts
           /\ w.at = "allocated" => w.plan \in Plans /\ w.sum \in [Sales -> Int]
           /\ w.at = "reversing" => w.receipt \in Receipts /\ w.from \subseteq Sales
                                       /\ w.sum \in [Sales -> Int]
           /\ w.at \in {"checked", "adding"} => w.sale \in Sales /\ w.n \in Signed
           /\ w.at = "adding" => w.before \in Int
<1>1. w \in Works
  BY DEF ReceiptsTypeOK
<1>2. Idle.at = "idle"
  BY DEF Idle
<1> QED  BY <1>1, <1>2 DEF Works, Holding

\* Rows of amounts.
LEMMA RowsAre ==
    ASSUME ReceiptsTypeOK
    PROVE  /\ \A r \in Receipts, s \in Sales : alloc[r][s] \in Nat /\ alloc[r][s] <= MaxAmount
           /\ \A r \in Receipts : amount[r] \in Nat /\ amount[r] <= MaxAmount
           /\ \A s \in Sales : taken[s] \in Int
BY ReceiptsAre DEF ReceiptsTypeOK, Plans

LEMMA LeftIs ==
    ASSUME ReceiptsTypeOK, NEW r \in Receipts, NEW n \in Int
    PROVE  /\ Left(r, n) = n - (alloc[r][1] + alloc[r][2] + alloc[r][3])
           /\ Left(r, n) \in Int /\ Left(r, n) <= n
<1>1. \A s \in Sales : alloc[r][s] \in Nat
  BY RowsAre
<1>2. alloc[r][1] \in Nat /\ alloc[r][2] \in Nat /\ alloc[r][3] \in Nat
  BY <1>1, ReceiptsAre
<1>3. Sum(alloc[r], Sales) = alloc[r][1] + alloc[r][2] + alloc[r][3]
  BY <1>1, ThreeSales
<1> QED  BY <1>2, <1>3 DEF Left

\* What counts of the allocations of a sale.
Counts(s) == [r \in Receipts |-> IF <<r, s>> \in undone THEN 0 ELSE alloc[r][s]]

LEMMA PaidIs ==
    ASSUME ReceiptsTypeOK, NEW s \in Sales
    PROVE  /\ Paid(s) = taken[s] + Sum(Counts(s), Receipts)
           /\ Paid(s) \in Int /\ Sum(Counts(s), Receipts) \in Nat /\ taken[s] \in Int
           /\ \A r \in Receipts : Counts(s)[r] \in Nat
<1>1. \A r \in Receipts : Counts(s)[r] \in Nat
  BY RowsAre DEF Counts
<1>2. Sum(Counts(s), Receipts) \in Nat
  <2>1. MaxReceipts \in Nat /\ Receipts = 1 .. MaxReceipts
    BY ReceiptsAre
  <2> QED  BY <1>1, <2>1, SumOfNats
<1>3. taken[s] \in Int
  BY RowsAre
<1>4. Paid(s) = taken[s] + Sum(Counts(s), Receipts)
  BY DEF Paid, Counts
<1> QED  BY <1>1, <1>2, <1>3, <1>4

LEMMA PlannedIs ==
    ASSUME NEW w, w.plan \in Plans, NEW s \in Sales
    PROVE  /\ Planned(w, s) \in Nat
           /\ \A r \in Receipts : w.plan[r][s] \in Nat /\ w.plan[r][s] <= Planned(w, s)
<1>1. MaxReceipts \in Nat /\ Receipts = 1 .. MaxReceipts
  BY ReceiptsAre
<1>2. \A r \in Receipts : w.plan[r][s] \in Nat
  BY ReceiptsAre DEF Plans
<1> DEFINE f == [r \in Receipts |-> w.plan[r][s]]
<1>3. \A r \in 1 .. MaxReceipts : f[r] \in Nat /\ f[r] = w.plan[r][s]
  BY <1>1, <1>2
<1>4. Planned(w, s) = Sum(f, 1 .. MaxReceipts)
  BY <1>1 DEF Planned
<1> HIDE DEF f
<1>5. Sum(f, 1 .. MaxReceipts) \in Nat /\ \A r \in 1 .. MaxReceipts : f[r] <= Sum(f, 1 .. MaxReceipts)
  BY <1>1, <1>3, SumOfNats
<1> QED  BY <1>1, <1>2, <1>3, <1>4, <1>5

LEMMA RowPlanned ==
    ASSUME NEW w, w.plan \in Plans, NEW r \in Receipts
    PROVE  /\ Sum(w.plan[r], Sales) = w.plan[r][1] + w.plan[r][2] + w.plan[r][3]
           /\ w.plan[r][1] \in Nat /\ w.plan[r][2] \in Nat /\ w.plan[r][3] \in Nat
<1>1. \A s \in Sales : w.plan[r][s] \in Nat
  BY ReceiptsAre DEF Plans
<1> QED  BY <1>1, ReceiptsAre, ThreeSales

\* Nothing but what requests are doing changes.
LEMMA PaidStays ==
    ASSUME UNCHANGED <<taken, alloc, undone>>, NEW s
    PROVE  Paid(s)' = Paid(s)
BY DEF Paid

LEMMA InformedStays ==
    ASSUME UNCHANGED <<shop, trade, money>>, NEW w
    PROVE  Informs(w)' <=> Informs(w)
<1>1. UNCHANGED <<shop, progress, orderPaid, booked, shown, taken, amount, reversed, alloc, undone,
                  disturbed, lowered>>
  BY DEF trade, money
<1>2. Own(w)' = Own(w) /\ Known(w)' = Known(w) /\ Standing' = Standing /\ Sold' = Sold
  BY <1>1 DEF Own, Known, Standing, Sold, Made, NextId
<1>3. \A r, n : Left(r, n)' = Left(r, n)
  BY <1>1 DEF Left
<1>4. \A r : AmountOf(w, r)' = AmountOf(w, r)
  BY <1>1 DEF AmountOf
<1>5. \A s : Paid(s)' = Paid(s)
  BY <1>1 DEF Paid
<1>6. \A s : Planned(w, s)' = Planned(w, s)
  BY DEF Planned
<1>7. Locked(w)' <=> Locked(w)
  BY <1>1 DEF Locked, Holding
<1>8. Reads(w)' <=> Reads(w)
  BY <1>1, <1>2, <1>3, <1>4, <1>5, <1>6 DEF Reads
<1>9. Fresh(w)' <=> Fresh(w)
  BY <1>1, <1>2, <1>3, <1>4, <1>5, <1>6 DEF Fresh, Holding
<1> QED  BY <1>1, <1>7, <1>8, <1>9 DEF Informs

LEMMA ApartAfter ==
    ASSUME ReceiptsTypeOK, Apart, NEW q \in Requests, NEW w,
           shop' = shop, work' = [work EXCEPT ![q] = w],
           \A p \in Others(q) :
              /\ Holding(w) => ~Holding(work[p])
              /\ w.at = "reversing" /\ At(p, "reversing") => work[p].receipt # w.receipt
              /\ ~shop.crossing /\ w.at = "reversing" => At(p, "idle")
              /\ ~shop.crossing /\ w.at # "idle" => ~At(p, "reversing")
    PROVE  Apart'
<1>1. \A p \in Requests : work'[p] = IF p = q THEN w ELSE work[p]
  BY DEF ReceiptsTypeOK
<1>2. \A o, p \in Requests : Holding(work'[o]) /\ Holding(work'[p]) => o = p
  BY <1>1 DEF Apart, Holding, Others
<1>3. \A o, p \in Requests : work'[o].at = "reversing" /\ work'[p].at = "reversing"
                                /\ work'[o].receipt = work'[p].receipt => o = p
  BY <1>1 DEF Apart, At, Others
<1>4. ~shop.crossing => \A o, p \in Requests :
          work'[p].at = "reversing" => o = p \/ work'[o].at = "idle"
  BY <1>1 DEF Apart, At, Others
<1> QED  BY <1>2, <1>3, <1>4 DEF Apart, Holding, At

\* Requests that begin, or go on, without anything else being changed.
LEMMA RequestMoves ==
    ASSUME ReceiptsInv, UNCHANGED <<shop, trade, money>>, NEW q \in Requests,
           NEW w \in Works, work' = [work EXCEPT ![q] = w], Informs(w), Apart'
    PROVE  ReceiptsInv'
<1>1. UNCHANGED <<shop, progress, orderPaid, booked, shown, taken, amount, reversed, alloc, undone,
                  disturbed, lowered>>
  BY DEF trade, money
<1>2. ReceiptsTypeOK'
  <2>1. work' \in [Requests -> Works]
    BY DEF ReceiptsInv, ReceiptsTypeOK
  <2>2. orderPaid' \in BOOLEAN /\ disturbed' \in BOOLEAN
    BY <1>1, Zenon DEF ReceiptsInv, ReceiptsTypeOK
  <2> QED  BY <1>1, <2>1, <2>2 DEF ReceiptsInv, ReceiptsTypeOK
<1>3. Informed'
  <2> SUFFICES ASSUME NEW p \in Requests, NEW v \in Works, v = work'[p] PROVE Informs(v)'
    BY DEF Informed
  <2>1. Informs(v)
    <3>1. v = IF p = q THEN w ELSE work[p]
      BY DEF ReceiptsInv, ReceiptsTypeOK
    <3> QED  BY <3>1 DEF ReceiptsInv, Informed
  <2> QED  BY <2>1, InformedStays
<1>4. Standing' = Standing /\ Sold' = Sold /\ \A s : Paid(s)' = Paid(s)
  BY <1>1 DEF Standing, Sold, Paid
<1>5. \A r : Left(r, amount[r])' = Left(r, amount[r])
  BY <1>1 DEF Left
<1>6. Spending' /\ Unmarked'
  <2>1. Spending /\ Unmarked
    BY DEF ReceiptsInv
  <2>2. Spending'
    BY <1>1, <1>4, <1>5, <2>1 DEF Spending
  <2>3. Unmarked'
    BY <1>1, <2>1 DEF Unmarked
  <2> QED  BY <2>2, <2>3
<1>7. Reached'
  <2>1. Reached
    BY DEF ReceiptsInv
  <2> QED  BY <1>1, <1>4, <1>5, <2>1 DEF Reached
<1>8. Shows'
  <2>1. Shows
    BY DEF ReceiptsInv
  <2>2. \A s : Covered(s)' = Covered(s)
    BY <1>1, <1>4 DEF Covered
  <2> QED  BY <1>1, <2>1, <2>2 DEF Shows
<1> QED  BY <1>2, <1>3, <1>6, <1>7, <1>8 DEF ReceiptsInv

LEMMA IdleInforms == Idle \in Works /\ Idle.at = "idle" /\ Informs(Idle)
<1>1. Idle.at = "idle" /\ Idle \in Works
  BY DEF Idle, Works
<1> QED  BY <1>1 DEF Informs, Locked, Reads, Fresh, Holding

LEMMA OneNextId ==
    ASSUME ReceiptsTypeOK, NEW r \in Receipts, NextId(r)
    PROVE  {p \in Receipts : NextId(p)} = {r}
<1> SUFFICES ASSUME NEW p \in Receipts, NextId(p), p # r PROVE FALSE
  OBVIOUS
<1>1. r \in Nat /\ p \in Nat /\ 1 <= r /\ 1 <= p
  BY ReceiptsAre
<1>2. CASE p < r
  BY <1>1, <1>2 DEF NextId
<1>3. CASE r < p
  BY <1>1, <1>3 DEF NextId
<1> QED  BY <1>1, <1>2, <1>3

LEMMA ListMoves ==
    ASSUME ReceiptsInv, UNCHANGED <<shop, trade, money>>, NEW q \in Requests,
           NEW kind \in Kinds, NEW n \in 0 .. MaxAmount,
           NEW own, own = {r \in Receipts : kind = "record" /\ NextId(r)},
           MayBegin(q), Unlocked, List(q, kind, n, own),
           kind = "accept" => progress = "pending",
           kind = "complete" => progress = "accepted",
           kind = "record" => n > 0
    PROVE  ReceiptsInv'
<1> DEFINE w == [at |-> "listed", of |-> kind, n |-> n, seen |-> Standing \cup own,
                 marked |-> orderPaid]
<1>1. work' = [work EXCEPT ![q] = w]
  BY DEF List, Continue
<1>2. orderPaid \in BOOLEAN /\ ReceiptsTypeOK /\ Apart /\ Unmarked
  BY DEF ReceiptsInv, ReceiptsTypeOK
<1>3. Standing \cup own \subseteq Receipts
  BY DEF Standing
<1>4. w \in Works
  BY <1>2, <1>3 DEF Works
<1>5. /\ w.at = "listed" /\ w.of = kind /\ w.n = n /\ w.seen = Standing \cup own
      /\ w.marked = orderPaid
  OBVIOUS
<1> HIDE DEF w
<1>6. Own(w) = own
  BY <1>5 DEF Own
<1>7. Locked(w)
  <2>1. ~shop.marks => w.of # "complete" \/ ~w.marked
    BY <1>2, <1>5 DEF Unmarked
  <2> QED  BY <1>5, <2>1 DEF Locked
<1>8. Reads(w)
  <2>1. w.seen \subseteq {r \in Receipts : amount[r] > 0} \cup Own(w)
    BY <1>5, <1>6 DEF Standing
  <2> QED  BY <1>5, <2>1 DEF Reads
<1>9. Fresh(w)
  BY <1>5, <1>6 DEF Fresh
<1>10. Apart'
  <2>1. \A p \in Others(q) : ~Holding(work[p])
    BY DEF Unlocked, Holding, At, Others
  <2>2. ~shop.crossing => \A p \in Requests : ~At(p, "reversing")
    BY DEF MayBegin, Reversing
  <2>3. Others(q) \subseteq Requests /\ shop' = shop
    BY DEF Others
  <2> QED  BY <1>1, <1>2, <1>5, <2>1, <2>2, <2>3, ApartAfter
<1> QED  BY <1>1, <1>4, <1>7, <1>8, <1>9, <1>10, RequestMoves DEF Informs

LEMMA BeginAcceptKeeps ==
    ASSUME ReceiptsInv, NEW q \in Requests, BeginAccept(q)
    PROVE  ReceiptsInv'
<1>1. {} = {r \in Receipts : "accept" = "record" /\ NextId(r)}
  OBVIOUS
<1>2. "accept" \in Kinds /\ 0 \in 0 .. MaxAmount
  BY ReceiptsAre DEF Kinds
<1> QED  BY <1>1, <1>2, ListMoves DEF BeginAccept

LEMMA BeginCompleteKeeps ==
    ASSUME ReceiptsInv, NEW q \in Requests, BeginComplete(q)
    PROVE  ReceiptsInv'
<1>1. {} = {r \in Receipts : "complete" = "record" /\ NextId(r)}
  OBVIOUS
<1>2. "complete" \in Kinds /\ 0 \in 0 .. MaxAmount
  BY ReceiptsAre DEF Kinds
<1>3. Field \in Searched
  BY DEF Field, Searched
<1>4. List(q, "complete", 0, {})
  BY <1>3 DEF BeginComplete
<1> QED  BY <1>1, <1>2, <1>4, ListMoves DEF BeginComplete

LEMMA BeginRecordKeeps ==
    ASSUME ReceiptsInv, NEW q \in Requests, NEW r \in Receipts, NEW n \in Amounts,
           BeginRecord(q, r, n)
    PROVE  ReceiptsInv'
<1>1. {r} = {p \in Receipts : "record" = "record" /\ NextId(p)}
  BY OneNextId DEF BeginRecord, ReceiptsInv
<1>2. "record" \in Kinds /\ n \in 0 .. MaxAmount /\ n > 0
  BY ReceiptsAre DEF Kinds
<1> QED  BY <1>1, <1>2, ListMoves DEF BeginRecord

LEMMA AllocationRefusedKeeps ==
    ASSUME ReceiptsInv, NEW q \in Requests, AllocationRefused(q)
    PROVE  ReceiptsInv'
<1>1. work' = [work EXCEPT ![q] = Idle] /\ UNCHANGED <<shop, trade, money>>
  BY DEF AllocationRefused, Continue
<1>2. Apart'
  BY <1>1, IdleInforms, ApartAfter DEF ReceiptsInv, Holding
<1> QED  BY <1>1, <1>2, IdleInforms, RequestMoves

LEMMA LeftOver ==
    ASSUME ReceiptsTypeOK, Spending, NEW w, w.n \in Nat, NEW r \in Receipts
    PROVE  Left(r, AmountOf(w, r)) \in Nat
<1>1. amount[r] \in Nat /\ Left(r, amount[r]) >= 0
  BY RowsAre DEF Spending
<1>2. AmountOf(w, r) \in Nat /\ AmountOf(w, r) >= amount[r]
  BY <1>1 DEF AmountOf
<1> DEFINE n == AmountOf(w, r)
           m == amount[r]
           x == alloc[r][1] + alloc[r][2] + alloc[r][3]
<1>3. n \in Nat /\ m \in Nat /\ n >= m
  BY <1>1, <1>2
<1>4. Left(r, n) = n - x /\ Left(r, n) \in Int
  BY <1>3, LeftIs
<1>5. Left(r, m) = m - x /\ Left(r, m) \in Int
  BY <1>3, LeftIs
<1>6. x \in Int
  <2>1. \A s \in Sales : alloc[r][s] \in Nat
    BY RowsAre
  <2>2. 1 \in Sales /\ 2 \in Sales /\ 3 \in Sales
    BY DEF Sales
  <2>3. alloc[r][1] \in Nat /\ alloc[r][2] \in Nat /\ alloc[r][3] \in Nat
    BY <2>1, <2>2
  <2> QED  BY <2>3
<1> HIDE DEF n, m, x
<1>7. Left(r, n) >= 0
  BY <1>1, <1>3, <1>4, <1>5, <1>6 DEF m
<1> QED  BY <1>4, <1>7 DEF n

LEMMA AllocateKeeps ==
    ASSUME ReceiptsInv, NEW q \in Requests, Allocate(q)
    PROVE  ReceiptsInv'
<1> DEFINE u    == work[q]
           left == [r \in Receipts |-> IF r \in u.seen THEN Left(r, AmountOf(u, r)) ELSE 0]
           due  == [s \in Sales |-> IF s \in Known(u) THEN Due(s) ELSE 0]
           plan == Allocation(left, due)
           sum  == [s \in Sales |-> Paid(s) + Sum([r \in Receipts |-> plan[r][s]], Receipts)]
           w    == [at |-> "allocated", of |-> u.of, n |-> u.n, marked |-> u.marked,
                    plan |-> plan, sum |-> sum]
<1>1. /\ At(q, "listed") /\ UNCHANGED <<shop, trade, money>>
      /\ work' = [work EXCEPT ![q] = w]
  BY DEF Allocate, Continue, AmountOf, Known
<1>2. ReceiptsTypeOK /\ Spending /\ Apart /\ u \in Works /\ Informs(u)
  BY WorkIs DEF ReceiptsInv, Informed
<1>3. /\ u.at = "listed" /\ Holding(u) /\ u.of \in Kinds /\ u.n \in 0 .. MaxAmount /\ u.n \in Nat
      /\ u.marked \in BOOLEAN /\ u.seen \subseteq Receipts
  <2>1. u.at = "listed" /\ Holding(u)
    BY <1>1 DEF At, Holding
  <2> HIDE DEF u
  <2>2. u.of \in Kinds /\ u.n \in 0 .. MaxAmount /\ u.marked \in BOOLEAN /\ u.seen \subseteq Receipts
    BY <1>2, <2>1, WorkIs DEF u
  <2>3. u.n \in Nat
    BY <2>2, ReceiptsAre
  <2> QED  BY <2>1, <2>2, <2>3
<1>4. \A s \in Sales : Paid(s) \in Int /\ shop.price[s] \in Nat
  BY <1>2, PaidIs, ShopIs
<1>5. left \in [Receipts -> Nat]
  BY <1>2, <1>3, LeftOver
<1>6. \A s \in Sales : /\ due[s] \in Nat
                       /\ due[s] <= Greatest(0, shop.price[s] - Paid(s))
                       /\ due[s] > 0 => s \in Known(u)
                       /\ s \in Known(u) => due[s] >= shop.price[s] - Paid(s)
  <2> SUFFICES ASSUME NEW s \in Sales
               PROVE  /\ due[s] \in Nat
                      /\ due[s] <= Greatest(0, shop.price[s] - Paid(s))
                      /\ due[s] > 0 => s \in Known(u)
                      /\ s \in Known(u) => due[s] >= shop.price[s] - Paid(s)
    OBVIOUS
  <2> DEFINE p == shop.price[s]
             m == Paid(s)
             d == due[s]
  <2>1. p \in Nat /\ m \in Int
    BY <1>4
  <2>2. (s \in Known(u) => d = Greatest(0, p - m)) /\ (s \notin Known(u) => d = 0)
    BY DEF Due
  <2> HIDE DEF p, m, d
  <2>3. /\ d \in Nat /\ d <= Greatest(0, p - m)
        /\ d > 0 => s \in Known(u)
        /\ s \in Known(u) => d >= p - m
    BY <2>1, <2>2 DEF Greatest
  <2> QED  BY <2>3 DEF p, m, d
<1>7. due \in [Sales -> Nat]
  BY <1>6
<1>8. \A r \in Receipts : left[r] <= Left(r, AmountOf(u, r))
                          /\ (left[r] > 0 => r \in u.seen)
                          /\ (r \in u.seen => left[r] = Left(r, AmountOf(u, r)))
                          /\ left[r] <= MaxAmount
  <2> SUFFICES ASSUME NEW r \in Receipts
               PROVE  /\ left[r] <= Left(r, AmountOf(u, r))
                      /\ (left[r] > 0 => r \in u.seen)
                      /\ (r \in u.seen => left[r] = Left(r, AmountOf(u, r)))
                      /\ left[r] <= MaxAmount
    OBVIOUS
  <2>1. AmountOf(u, r) \in Int /\ AmountOf(u, r) <= MaxAmount /\ MaxAmount \in Nat
    <3>1. amount[r] \in Nat /\ amount[r] <= MaxAmount /\ u.n <= MaxAmount
      BY <1>2, <1>3, RowsAre, ReceiptsAre
    <3> QED  BY <1>3, <3>1, ReceiptsAre DEF AmountOf
  <2> DEFINE k == Left(r, AmountOf(u, r))
             a == AmountOf(u, r)
  <2>2. k \in Nat /\ k <= a
    BY <1>2, <1>3, <2>1, LeftOver, LeftIs
  <2>3. left[r] = IF r \in u.seen THEN k ELSE 0
    OBVIOUS
  <2> HIDE DEF u, left, k, a
  <2>4. a \in Int /\ a <= MaxAmount /\ MaxAmount \in Nat
    BY <2>1 DEF a
  <2>5. left[r] <= k /\ (left[r] > 0 => r \in u.seen) /\ (r \in u.seen => left[r] = k)
        /\ left[r] <= MaxAmount
    BY <2>2, <2>3, <2>4
  <2> QED  BY <2>5 DEF k
<1> HIDE DEF u, left, due
<1>9. /\ plan \in [Receipts -> [Sales -> Nat]]
      /\ \A r \in Receipts : Sum(plan[r], Sales) <= left[r]
      /\ \A s \in Sales : Sum([r \in Receipts |-> plan[r][s]], Receipts) <= due[s]
      /\ \A r \in Receipts, s \in Sales : plan[r][s] <= left[r] /\ plan[r][s] <= due[s]
      /\ \A r \in Receipts, s \in Sales :
            \/ Sum(plan[r], Sales) = left[r]
            \/ Sum([p \in Receipts |-> plan[p][s]], Receipts) = due[s]
  BY <1>5, <1>7, AllocationFills
<1> HIDE DEF plan
<1>10. plan \in Plans
  <2>1. \A r \in Receipts, s \in Sales : plan[r][s] \in 0 .. MaxAmount
    <3> SUFFICES ASSUME NEW r \in Receipts, NEW s \in Sales PROVE plan[r][s] \in 0 .. MaxAmount
      OBVIOUS
    <3>1. plan[r][s] \in Nat /\ plan[r][s] <= left[r]
      BY <1>9
    <3>2. left[r] \in Nat /\ left[r] <= MaxAmount /\ MaxAmount \in Nat
      BY <1>5, <1>8, ReceiptsAre
    <3> QED  BY <3>1, <3>2
  <2> QED  BY <1>9, <2>1 DEF Plans
<1>11. /\ w.at = "allocated" /\ Holding(w) /\ w.of = u.of /\ w.n = u.n /\ w.marked = u.marked
       /\ w.plan = plan /\ w.sum = sum
  BY DEF Holding
<1>12. \A s \in Sales : Planned(w, s) = Sum([r \in Receipts |-> plan[r][s]], Receipts)
  BY <1>11 DEF Planned
<1>13. \A s \in Sales : Planned(w, s) \in Nat /\ Planned(w, s) <= due[s]
                        /\ w.sum[s] = Paid(s) + Planned(w, s)
  BY <1>9, <1>10, <1>11, <1>12, PlannedIs
<1>14. w \in Works
  <2>1. sum \in [Sales -> Int]
    <3>1. \A s \in Sales : sum[s] \in Int
      <4> SUFFICES ASSUME NEW s \in Sales PROVE sum[s] \in Int
        OBVIOUS
      <4>1. sum[s] = Paid(s) + Planned(w, s)
        BY <1>11, <1>13
      <4>2. Paid(s) \in Int /\ Planned(w, s) \in Nat
        BY <1>4, <1>13
      <4> HIDE DEF w, sum
      <4> QED  BY <4>1, <4>2
    <3> QED  BY <3>1
  <2> HIDE DEF sum
  <2> QED  BY <1>3, <1>10, <2>1 DEF Works
<1> HIDE DEF w, sum
<1>15. Own(w) = Own(u) /\ Known(w) = Known(u) /\ \A r : AmountOf(w, r) = AmountOf(u, r)
  BY <1>11 DEF Own, Known, AmountOf
<1>16. Locked(w)
  BY <1>2, <1>3, <1>11 DEF Informs, Locked
<1>17. Reads(w)
  <2>1. \A r \in Receipts, s \in Sales : plan[r][s] > 0 =>
           (amount[r] > 0 \/ r \in Own(w)) /\ s \in Known(w)
    <3> SUFFICES ASSUME NEW r \in Receipts, NEW s \in Sales, plan[r][s] > 0
                 PROVE  (amount[r] > 0 \/ r \in Own(w)) /\ s \in Known(w)
      OBVIOUS
    <3>1. plan[r][s] \in Nat /\ left[r] \in Nat /\ due[s] \in Nat
      BY <1>5, <1>6, <1>9
    <3>2. left[r] > 0 /\ due[s] > 0
      BY <1>9, <3>1
    <3>3. r \in u.seen /\ s \in Known(w)
      BY <1>6, <1>8, <1>15, <3>2
    <3> QED  BY <1>2, <1>3, <1>15, <3>3 DEF Informs, Reads
  <2>2. \A r \in Receipts : Sum(plan[r], Sales) <= Left(r, AmountOf(w, r))
    <3> SUFFICES ASSUME NEW r \in Receipts PROVE Sum(plan[r], Sales) <= Left(r, AmountOf(w, r))
      OBVIOUS
    <3>1. Sum(plan[r], Sales) <= left[r] /\ left[r] <= Left(r, AmountOf(w, r)) /\ left[r] \in Nat
      BY <1>5, <1>8, <1>9, <1>15
    <3>2. Left(r, AmountOf(w, r)) \in Int
      BY <1>2, <1>3, <1>15, LeftOver
    <3>3. Sum(plan[r], Sales) \in Int
      BY <1>10, <1>11, RowPlanned
    <3> QED  BY <3>1, <3>2, <3>3
  <2>3. ~shop.finance => \A s \in Sales : Paid(s) + Planned(w, s) <= shop.price[s]
    <3> SUFFICES ASSUME ~shop.finance, NEW s \in Sales
                 PROVE  Paid(s) + Planned(w, s) <= shop.price[s]
      OBVIOUS
    <3>1. Paid(s) <= shop.price[s]
      BY <1>2 DEF Spending
    <3>2. /\ Planned(w, s) <= due[s] /\ due[s] <= Greatest(0, shop.price[s] - Paid(s))
          /\ Planned(w, s) \in Nat /\ due[s] \in Nat
      BY <1>6, <1>13
    <3> QED  BY <1>4, <3>1, <3>2 DEF Greatest
  <2> QED  BY <1>11, <2>1, <2>2, <2>3 DEF Reads
<1>18. ~shop.crossing => Fresh(w)
  <2> SUFFICES ASSUME ~shop.crossing PROVE Fresh(w)
    OBVIOUS
  <2>1. u.seen = Standing \cup Own(u) /\ (u.of = "complete" => u.marked = orderPaid)
    BY <1>2, <1>3 DEF Informs, Fresh
  <2>2. \A r \in Standing \cup Own(w), s \in Known(w) \ lowered :
           \/ Left(r, AmountOf(w, r)) = Sum(w.plan[r], Sales)
           \/ Paid(s) + Planned(w, s) >= shop.price[s]
    <3> SUFFICES ASSUME NEW r \in Standing \cup Own(w), NEW s \in Known(w)
                 PROVE  \/ Left(r, AmountOf(w, r)) = Sum(w.plan[r], Sales)
                        \/ Paid(s) + Planned(w, s) >= shop.price[s]
      OBVIOUS
    <3>1. r \in Receipts /\ r \in u.seen /\ s \in Sales /\ s \in Known(u)
      BY <1>15, <2>1 DEF Standing, Own, Known, Sold, Made
    <3>2. left[r] = Left(r, AmountOf(w, r))
      BY <1>8, <1>15, <3>1
    <3>3. Sum(plan[r], Sales) = left[r] \/ Planned(w, s) = due[s]
      BY <1>9, <1>12, <3>1
    <3>4. due[s] >= shop.price[s] - Paid(s)
      BY <1>6, <3>1
    <3>5. Paid(s) \in Int /\ shop.price[s] \in Nat /\ due[s] \in Nat
      BY <1>4, <1>6, <3>1
    <3>6. Planned(w, s) = due[s] => Paid(s) + Planned(w, s) >= shop.price[s]
      BY <3>4, <3>5
    <3> QED  BY <1>11, <3>2, <3>3, <3>6
  <2>3. \A s \in Sales \ lowered : w.sum[s] <= Paid(s) + Planned(w, s)
    BY <1>4, <1>13
  <2> QED  BY <1>11, <2>1, <2>2, <2>3 DEF Fresh
<1>19. Apart'
  <2>1. \A p \in Others(q) : ~Holding(work[p])
    BY <1>2, <1>3 DEF Apart, Others, u
  <2>2. ~shop.crossing => \A p \in Others(q) : ~At(p, "reversing")
    BY <1>1, <1>2 DEF Apart, Others, At
  <2> QED  BY <1>1, <1>2, <1>11, <2>1, <2>2, ApartAfter
<1> QED  BY <1>1, <1>14, <1>16, <1>17, <1>18, <1>19, RequestMoves DEF Informs

LEMMA BeginReverseKeeps ==
    ASSUME ReceiptsInv, NEW q \in Requests, NEW r \in Receipts, BeginReverse(q, r)
    PROVE  ReceiptsInv'
<1> DEFINE w == [at |-> "reversing", receipt |-> r, from |-> {s \in Sales : alloc[r][s] > 0},
                 sum |-> [s \in Sales |-> Paid(s) - alloc[r][s]]]
<1>1. work' = [work EXCEPT ![q] = w] /\ UNCHANGED <<shop, trade, money>>
  BY DEF BeginReverse, Continue
<1>2. ReceiptsTypeOK /\ Apart
  BY DEF ReceiptsInv
<1>3. [s \in Sales |-> Paid(s) - alloc[r][s]] \in [Sales -> Int]
  BY <1>2, PaidIs, RowsAre
<1>4. w \in Works
  BY <1>3 DEF Works
<1>5. /\ w.at = "reversing" /\ w.receipt = r /\ w.from = {s \in Sales : alloc[r][s] > 0}
      /\ \A s \in Sales : w.sum[s] = Paid(s) - alloc[r][s]
  OBVIOUS
<1> HIDE DEF w
<1>6. Informs(w)
  BY <1>5 DEF Informs, Locked, Reads, Fresh, Holding, BeginReverse
<1>7. Apart'
  <2>1. \A p \in Others(q) : At(p, "reversing") => work[p].receipt # r
    BY DEF BeginReverse, Reversing, Others
  <2>2. ~shop.crossing => \A p \in Others(q) : At(p, "idle")
    BY DEF BeginReverse
  <2>3. \A p \in Requests : At(p, "idle") => ~At(p, "reversing")
    BY DEF At
  <2>4. Others(q) \subseteq Requests
    BY DEF Others
  <2> QED  BY <1>1, <1>2, <1>5, <2>1, <2>2, <2>3, <2>4, ApartAfter DEF Holding
<1> QED  BY <1>1, <1>4, <1>6, <1>7, RequestMoves

LEMMA CheckPaymentKeeps ==
    ASSUME ReceiptsInv, NEW q \in Requests, NEW s \in Sales, NEW n \in Signed,
           CheckPayment(q, s, n)
    PROVE  ReceiptsInv'
<1> DEFINE w == [at |-> "checked", sale |-> s, n |-> n]
<1>1. work' = [work EXCEPT ![q] = w] /\ UNCHANGED <<shop, trade, money>>
  BY DEF CheckPayment, Continue
<1>2. w \in Works /\ w.at = "checked" /\ w.sale = s
  BY DEF Works
<1> HIDE DEF w
<1>3. Informs(w)
  BY <1>2 DEF Informs, Locked, Reads, Fresh, Holding, CheckPayment
<1>4. Apart'
  <2>1. \A p \in Others(q) : ~shop.crossing => ~At(p, "reversing")
    BY DEF CheckPayment, MayBegin, Reversing, Others
  <2> QED  BY <1>1, <1>2, <2>1, ApartAfter DEF Holding, ReceiptsInv
<1> QED  BY <1>1, <1>2, <1>3, <1>4, RequestMoves

LEMMA AddUpKeeps ==
    ASSUME ReceiptsInv, NEW q \in Requests, AddUp(q)
    PROVE  ReceiptsInv'
<1> DEFINE u == work[q]
           b == Paid(u.sale)
           w == [at |-> "adding", sale |-> u.sale, n |-> u.n, before |-> b]
<1>1. work' = [work EXCEPT ![q] = w] /\ UNCHANGED <<shop, trade, money>> /\ u.at = "checked"
  BY DEF AddUp, Continue, At
<1>2. ReceiptsTypeOK /\ Apart /\ u \in Works /\ Informs(u) /\ u.sale \in Sales /\ u.n \in Signed
  BY <1>1, WorkIs DEF ReceiptsInv, Informed
<1> HIDE DEF u
<1>3. b \in Int
  BY <1>2, PaidIs
<1> HIDE DEF b
<1>4. w \in Works /\ w.at = "adding" /\ w.sale = u.sale /\ w.before = b
  BY <1>2, <1>3 DEF Works
<1> HIDE DEF w
<1>5. Informs(w)
  <2>1. shop.finance /\ w.sale \in Sold
    BY <1>1, <1>2, <1>4 DEF Informs, Reads
  <2>2. w.before <= Paid(w.sale)
    BY <1>3, <1>4 DEF b
  <2> QED  BY <1>4, <2>1, <2>2 DEF Informs, Locked, Reads, Fresh, Holding
<1>6. Apart'
  <2>1. \A p \in Others(q) : ~shop.crossing => ~At(p, "reversing")
    BY <1>1, <1>2 DEF Apart, Others, At, u
  <2> QED  BY <1>1, <1>2, <1>4, <2>1, ApartAfter DEF Holding
<1> QED  BY <1>1, <1>4, <1>5, <1>6, RequestMoves

\* Steps that move the order only.
LEMMA TradeMoves ==
    ASSUME UNCHANGED <<shop, taken, money>>, NEW w, Informs(w), Sold' = Sold,
           Holding(w) => progress' = progress,
           Holding(w) /\ w.of = "complete" => orderPaid' = orderPaid
    PROVE  Informs(w)'
<1>1. UNCHANGED <<shop, taken, amount, reversed, alloc, undone, disturbed, lowered>>
  BY DEF money
<1>2. Own(w)' = Own(w) /\ Known(w)' = Known(w) /\ Standing' = Standing
  BY <1>1 DEF Own, Known, Standing, Made, NextId
<1>3. \A r, n : Left(r, n)' = Left(r, n)
  BY <1>1 DEF Left
<1>4. \A r : AmountOf(w, r)' = AmountOf(w, r)
  BY <1>1 DEF AmountOf
<1>5. \A s : Paid(s)' = Paid(s)
  BY <1>1 DEF Paid
<1>6. \A s : Planned(w, s)' = Planned(w, s)
  BY DEF Planned
<1>7. Locked(w)'
  BY <1>1 DEF Locked, Holding, Informs
<1>8. Reads(w)'
  BY <1>1, <1>2, <1>3, <1>4, <1>5, <1>6 DEF Reads, Informs
<1>9. ~shop.crossing => Fresh(w)'
  <2> SUFFICES ASSUME ~shop.crossing PROVE Fresh(w)'
    OBVIOUS
  <2>1. Fresh(w)
    BY DEF Informs
  <2>2. Holding(w) /\ w.of = "complete" => w.marked = orderPaid'
    BY <2>1 DEF Fresh
  <2> QED  BY <1>1, <1>2, <1>3, <1>4, <1>5, <1>6, <2>1, <2>2 DEF Fresh, Holding
<1> QED  BY <1>1, <1>7, <1>8, <1>9 DEF Informs

LEMMA OrderMoves ==
    ASSUME ReceiptsInv, UNCHANGED <<shop, booked, shown, taken, money, work>>,
           progress' \in {"pending", "accepted", "completed"}, orderPaid' \in BOOLEAN,
           Sold' = Sold, progress' # "completed",
           ~shop.marks => orderPaid' = orderPaid, progress # "completed",
           \A w \in Works : Holding(w) /\ (\E q \in Requests : w = work[q]) =>
              progress' = progress /\ (w.of = "complete" => orderPaid' = orderPaid)
    PROVE  ReceiptsInv'
<1>1. UNCHANGED <<shop, booked, shown, taken, amount, reversed, alloc, undone, disturbed, lowered, work>>
  BY DEF money
<1>2. ReceiptsTypeOK'
  <2>1. disturbed' \in BOOLEAN
    BY <1>1, Zenon DEF ReceiptsInv, ReceiptsTypeOK
  <2> QED  BY <1>1, <2>1 DEF ReceiptsInv, ReceiptsTypeOK
<1>3. Informed'
  <2> SUFFICES ASSUME NEW p \in Requests, NEW v \in Works, v = work'[p] PROVE Informs(v)'
    BY DEF Informed
  <2>1. v = work[p]
    BY <1>1
  <2>2. Informs(v)
    BY <2>1 DEF ReceiptsInv, Informed
  <2> QED  BY <2>1, <2>2, TradeMoves
<1>4. Apart'
  <2>1. Apart
    BY DEF ReceiptsInv
  <2> QED  BY <1>1, <2>1 DEF Apart, At, Holding
<1>5. Standing' = Standing /\ \A s : Paid(s)' = Paid(s)
  BY <1>1 DEF Standing, Paid
<1>6. \A r : Left(r, amount[r])' = Left(r, amount[r])
  BY <1>1 DEF Left
<1>7. Spending'
  <2>1. Spending
    BY DEF ReceiptsInv
  <2> QED  BY <1>1, <1>5, <1>6, <2>1 DEF Spending
<1>8. Unmarked'
  <2>1. Unmarked
    BY DEF ReceiptsInv
  <2> QED  BY <1>1, <2>1 DEF Unmarked
<1>9. Reached'
  <2>1. Reached
    BY DEF ReceiptsInv
  <2> QED  BY <1>1, <1>5, <1>6, <2>1 DEF Reached
<1>10. Shows'
  <2>1. Shows
    BY DEF ReceiptsInv
  <2>2. \A s : Covered(s)' = Covered(s)
    BY <1>1, <1>5 DEF Covered
  <2> QED  BY <1>1, <2>1, <2>2 DEF Shows
<1> QED  BY <1>2, <1>3, <1>4, <1>7, <1>8, <1>9, <1>10 DEF ReceiptsInv

LEMMA AcceptPreorderKeeps ==
    ASSUME ReceiptsInv, NEW q \in Requests, AcceptPreorder(q)
    PROVE  ReceiptsInv'
<1>1. UNCHANGED <<shop, orderPaid, booked, shown, taken, money, work>>
      /\ progress = "pending" /\ progress' = "accepted"
  BY DEF AcceptPreorder
<1>2. Sold' = Sold
  BY <1>1 DEF Sold, AcceptPreorder, FromShelf, Shelf
<1>3. orderPaid' \in BOOLEAN
  BY <1>1, Zenon DEF ReceiptsInv, ReceiptsTypeOK
<1>4. \A w : Holding(w) => ~\E p \in Requests : w = work[p]
  BY DEF AcceptPreorder, Unlocked, Holding, At
<1> QED  BY <1>1, <1>2, <1>3, <1>4, OrderMoves

LEMMA MarkOrderKeeps ==
    ASSUME ReceiptsInv, NEW fully \in BOOLEAN, MarkOrder(fully)
    PROVE  ReceiptsInv'
<1>1. /\ UNCHANGED <<shop, progress, booked, shown, taken, money, work>>
      /\ shop.marks /\ progress = "accepted" /\ orderPaid' \in BOOLEAN
  BY DEF MarkOrder
<1>2. Sold' = Sold
  BY <1>1 DEF Sold
<1>3. \A w : Holding(w) /\ (\E p \in Requests : w = work[p]) => w.of # "complete"
  BY DEF MarkOrder, Holding, At
<1> QED  BY <1>1, <1>2, <1>3, OrderMoves

LEMMA SettledIs ==
    ASSUME ReceiptsTypeOK, NEW s \in Sales, NEW x \in Int
    PROVE  Settled(s, x) \in Shown /\ (Settled(s, x) = "paid" <=> x >= shop.price[s])
BY DEF Settled, Shown

LEMMA StatusIs ==
    ASSUME ReceiptsTypeOK, NEW s \in Sales, NEW x \in Int
    PROVE  StatusOf(s, x) \in Shown /\ (StatusOf(s, x) = "paid" => x >= shop.price[s])
<1>1. CASE StatusOf(s, x) = "unpaid"
  BY <1>1 DEF Shown
<1>2. CASE StatusOf(s, x) = Settled(s, x)
  BY <1>2, SettledIs
<1> QED  BY <1>1, <1>2 DEF StatusOf

\* What a request that ends leaves to the others.
LEMMA OthersInformed ==
    ASSUME ReceiptsTypeOK, NEW q \in Requests, work' = [work EXCEPT ![q] = Idle],
           \A p \in Others(q), w \in Works : w = work[p] => Informs(w)'
    PROVE  Informed'
<1> SUFFICES ASSUME NEW p \in Requests, NEW v \in Works, v = work'[p] PROVE Informs(v)'
  BY DEF Informed
<1>1. v = IF p = q THEN Idle ELSE work[p]
  BY DEF ReceiptsTypeOK
<1>2. CASE p = q
  <2>1. v.at = "idle"
    BY <1>1, <1>2, IdleInforms
  <2> QED  BY <2>1 DEF Informs, Locked, Reads, Fresh, Holding
<1>3. CASE p # q
  BY <1>1, <1>3 DEF Others
<1> QED  BY <1>2, <1>3

LEMMA WorkEnds ==
    ASSUME ReceiptsTypeOK, Apart, NEW q \in Requests, shop' = shop, Continue(q, Idle)
    PROVE  Apart' /\ work' \in [Requests -> Works] /\ work' = [work EXCEPT ![q] = Idle]
<1>1. work' = [work EXCEPT ![q] = Idle]
  BY DEF Continue
<1>2. Apart'
  BY <1>1, IdleInforms, ApartAfter DEF Holding
<1> QED  BY <1>1, <1>2, IdleInforms DEF ReceiptsTypeOK

LEMMA WebPaymentKeeps ==
    ASSUME ReceiptsInv, NEW q \in Requests, CommitPayment(q)
    PROVE  ReceiptsInv'
<1>0. PICK u : u = work[q]
  OBVIOUS
<1>a. PICK s0 : s0 = u.sale
  OBVIOUS
<1> DEFINE sum == u.before + u.n
<1>1. /\ u.at = "adding" /\ taken' = [taken EXCEPT ![s0] = @ + u.n]
      /\ shown' = [shown EXCEPT ![s0] = Settled(s0, sum)]
      /\ orderPaid' = (orderPaid \/ (s0 \in Linked /\ sum >= shop.price[s0]))
      /\ disturbed' = (disturbed \/ u.n < 0)
      /\ lowered' = IF u.n < 0 /\ (Covered(s0) \/ SummedByOthers(q, s0))
                    THEN lowered \cup {s0} ELSE lowered
      /\ Continue(q, Idle)
      /\ UNCHANGED <<shop, progress, booked, amount, reversed, alloc, undone>>
  BY <1>0, <1>a DEF CommitPayment, At
<1>2. /\ ReceiptsTypeOK /\ Spending /\ Apart /\ Informed /\ Reached /\ Unmarked /\ Shows
      /\ u \in Works /\ Informs(u)
  BY <1>0, WorkIs DEF ReceiptsInv, Informed
<1>3. s0 \in Sales /\ u.n \in Int /\ u.before \in Int
  <2>1. u.sale \in Sales /\ u.n \in Signed /\ u.before \in Int
    BY <1>0, <1>1, <1>2, WorkIs
  <2> QED  BY <1>a, <2>1, ReceiptsAre
<1>4. shop.finance /\ s0 \in Sold /\ (~shop.crossing => s0 \in lowered \/ u.before <= Paid(s0))
  BY <1>a, <1>1, <1>2 DEF Informs, Reads, Fresh
<1>5. sum \in Int
  BY <1>3
<1>6. Apart' /\ work' \in [Requests -> Works] /\ work' = [work EXCEPT ![q] = Idle]
  BY <1>1, <1>2, WorkEnds
<1>7. Standing' = Standing /\ Sold' = Sold
  BY <1>1 DEF Standing, Sold
<1>8. \A r, n : Left(r, n)' = Left(r, n)
  BY <1>1 DEF Left
<1>9. \A s \in Sales : /\ Paid(s)' = Paid(s) + (IF s = s0 THEN u.n ELSE 0)
                       /\ Paid(s) \in Int /\ Paid(s)' \in Int /\ shop.price[s] \in Nat
  <2> SUFFICES ASSUME NEW s \in Sales
               PROVE  /\ Paid(s)' = Paid(s) + (IF s = s0 THEN u.n ELSE 0)
                      /\ Paid(s) \in Int /\ Paid(s)' \in Int /\ shop.price[s] \in Nat
    OBVIOUS
  <2> DEFINE c == Sum(Counts(s), Receipts)
  <2>1. Paid(s) = taken[s] + c /\ c \in Nat /\ taken[s] \in Int /\ shop.price[s] \in Nat
    BY <1>2, PaidIs, ShopIs
  <2>2. Paid(s)' = taken'[s] + c
    BY <1>1 DEF Paid, Counts
  <2>3. taken'[s] = taken[s] + (IF s = s0 THEN u.n ELSE 0)
    BY <1>1, <1>2, <1>3, <2>1 DEF ReceiptsTypeOK
  <2> HIDE DEF c
  <2> QED  BY <1>3, <2>1, <2>2, <2>3
\* A sale is paid less only when a payment is taken back.
<1>10. lowered \subseteq lowered' /\ lowered' \subseteq lowered \cup {s0}
  BY <1>1
<1>11. ASSUME NEW s \in Sales, s # s0 \/ u.n >= 0 PROVE Paid(s)' >= Paid(s)
  BY <1>3, <1>9, <1>11
<1>12. s0 \notin lowered' /\ ~(u.n >= 0) => ~Covered(s0) /\ ~SummedByOthers(q, s0)
  BY <1>1, <1>3
<1>13. sum >= shop.price[s0] /\ ~shop.crossing /\ s0 \notin lowered' => Paid(s0)' >= shop.price[s0]
  <2> SUFFICES ASSUME sum >= shop.price[s0], ~shop.crossing, s0 \notin lowered'
               PROVE  Paid(s0)' >= shop.price[s0]
    OBVIOUS
  <2>1. u.before <= Paid(s0)
    BY <1>4, <1>10
  <2>2. Paid(s0)' = Paid(s0) + u.n /\ Paid(s0) \in Int /\ shop.price[s0] \in Nat
    BY <1>3, <1>9
  <2> QED  BY <1>3, <2>1, <2>2
<1>14. s0 \in Linked => progress = "completed" /\ shop.price[s0] > 0
  BY <1>4 DEF Linked, Sold, Offcut, Main, Shelf
<1> HIDE DEF sum
<1>15. orderPaid \in BOOLEAN /\ orderPaid' \in BOOLEAN
  <2>1. orderPaid \in BOOLEAN
    BY <1>2 DEF ReceiptsTypeOK
  <2>2. orderPaid' \in BOOLEAN
    BY <1>1, <2>1
  <2> QED  BY <2>1, <2>2
<1>16. ReceiptsTypeOK'
  <2>1. disturbed' \in BOOLEAN
    <3>1. disturbed \in BOOLEAN
      BY <1>2 DEF ReceiptsTypeOK
    <3> DEFINE back == u.n < 0
    <3>2. disturbed' = (disturbed \/ back)
      BY <1>1, Zenon
    <3>3. back \in BOOLEAN
      OBVIOUS
    <3> HIDE DEF back
    <3> QED  BY <3>1, <3>2, <3>3
  <2>2. taken' \in [Sales -> Int]
    <3>1. \A s \in Sales : taken[s] + u.n \in Int
      BY <1>2, <1>3, RowsAre
    <3> QED  BY <1>1, <1>2, <3>1 DEF ReceiptsTypeOK
  <2>3. shown' \in [Sales -> Shown]
    <3>1. Settled(s0, sum) \in Shown
      BY <1>2, <1>3, <1>5, SettledIs
    <3> QED  BY <1>1, <1>2, <3>1 DEF ReceiptsTypeOK
  <2>4. lowered' \subseteq Sales
    BY <1>2, <1>3, <1>10 DEF ReceiptsTypeOK
  <2> QED  BY <1>1, <1>2, <1>6, <1>15, <2>1, <2>2, <2>3, <2>4 DEF ReceiptsTypeOK
<1>17. Informed'
  <2> SUFFICES ASSUME NEW p \in Others(q), NEW v \in Works, v = work[p] PROVE Informs(v)'
    BY <1>2, <1>6, OthersInformed
  <2>0. p \in Requests /\ p # q
    BY DEF Others
  <2>1. Informs(v)
    BY <1>2, <2>0 DEF Informed
  <2>2. Own(v)' = Own(v) /\ Known(v)' = Known(v)
    BY <1>1, <1>7 DEF Own, Known, Made, NextId
  <2>3. \A r : AmountOf(v, r)' = AmountOf(v, r)
    BY <1>1 DEF AmountOf
  <2>4. \A s : Planned(v, s)' = Planned(v, s)
    BY DEF Planned
  <2>5. Locked(v)'
    BY <1>1, <2>1 DEF Locked, Holding, Informs
  <2>6. Reads(v)'
    BY <1>1, <1>4, <1>7, <1>8, <2>1, <2>2, <2>3 DEF Informs, Reads
  <2>7. ~shop.crossing => Fresh(v)'
    <3> SUFFICES ASSUME ~shop.crossing PROVE Fresh(v)'
      OBVIOUS
    <3>1. Fresh(v) /\ Locked(v) /\ Reads(v)
      BY <2>1 DEF Informs
    <3>2. Holding(v) /\ v.of = "complete" => v.marked = orderPaid'
      <4> SUFFICES ASSUME Holding(v), v.of = "complete" PROVE v.marked = orderPaid'
        OBVIOUS
      <4>1. progress = "accepted" /\ v.marked = orderPaid
        BY <3>1 DEF Locked, Fresh
      <4>2. orderPaid' = orderPaid
        BY <1>1, <1>14, <1>15, <4>1
      <4> QED  BY <4>1, <4>2
    <3>3. v.at = "listed" => v.seen = Standing' \cup Own(v)'
      BY <1>7, <2>2, <3>1 DEF Fresh
    <3>4. v.at # "reversing"
      BY <1>0, <1>1, <1>2, <2>0 DEF Apart, At
    \* The sales the other request goes by are not paid less, or noted.
    <3>5. v.at = "adding" => v.sale \in lowered' \/ v.before <= Paid(v.sale)'
      <4> SUFFICES ASSUME v.at = "adding", v.sale \notin lowered' PROVE v.before <= Paid(v.sale)'
        OBVIOUS
      <4>1. v.sale \in Sales /\ v.before \in Int /\ v.before <= Paid(v.sale)
        BY <1>2, <1>10, <2>0, <3>1, WorkIs DEF Fresh
      <4>2. PICK s \in Sales : s = v.sale
        BY <4>1
      <4>3. s # s0 \/ u.n >= 0
        <5> SUFFICES ASSUME s = s0, ~(u.n >= 0) PROVE FALSE
          OBVIOUS
        <5>1. SummedByOthers(q, s0)
          BY <4>2 DEF SummedByOthers, At
        <5> QED  BY <1>12, <4>2, <5>1
      <4>4. Paid(s)' >= Paid(s) /\ Paid(s) \in Int /\ Paid(s)' \in Int
        BY <1>9, <1>11, <4>3
      <4>5. v.before <= Paid(s)'
        BY <4>1, <4>2, <4>4
      <4> QED  BY <4>2, <4>5
    <3>6. CASE v.at = "allocated"
      <4>1. v.plan \in Plans /\ v.sum \in [Sales -> Int]
        BY <1>2, <2>0, <3>6, WorkIs
      <4>2. \A s \in Sales : Planned(v, s) \in Nat
        BY <4>1, PlannedIs
      <4>3. \A s \in Sales \ lowered' : Paid(s)' >= Paid(s)
        <5> SUFFICES ASSUME NEW s \in Sales \ lowered' PROVE Paid(s)' >= Paid(s)
          OBVIOUS
        <5>1. SummedByOthers(q, s0)
          BY <3>6 DEF SummedByOthers, At
        <5>2. s # s0 \/ u.n >= 0
          BY <1>12, <5>1
        <5> QED  BY <1>11, <5>2
      <4>4. \A r \in Standing' \cup Own(v)', s \in Known(v)' \ lowered' :
               \/ Left(r, AmountOf(v, r))' = Sum(v.plan[r], Sales)
               \/ Paid(s)' + Planned(v, s) >= shop.price[s]
        <5> SUFFICES ASSUME NEW r \in Standing \cup Own(v), NEW s \in Known(v) \ lowered'
                     PROVE  \/ Left(r, AmountOf(v, r)) = Sum(v.plan[r], Sales)
                            \/ Paid(s)' + Planned(v, s) >= shop.price[s]
          BY <1>7, <1>8, <2>2, <2>3
        <5>1. \/ Left(r, AmountOf(v, r)) = Sum(v.plan[r], Sales)
              \/ Paid(s) + Planned(v, s) >= shop.price[s]
          BY <1>10, <3>1, <3>6 DEF Fresh
        <5>2. s \in Sales /\ s \notin lowered'
          BY DEF Known, Sold, Made
        <5>3. Paid(s)' >= Paid(s) /\ Planned(v, s) \in Nat
          BY <4>2, <4>3, <5>2
        <5>4. Paid(s) \in Int /\ Paid(s)' \in Int /\ shop.price[s] \in Nat
          BY <1>9, <5>2
        <5>5. Paid(s) + Planned(v, s) >= shop.price[s]
                 => Paid(s)' + Planned(v, s) >= shop.price[s]
          BY <5>3, <5>4
        <5> QED  BY <5>1, <5>5
      <4>5. \A s \in Sales \ lowered' : v.sum[s] <= Paid(s)' + Planned(v, s)
        <5> SUFFICES ASSUME NEW s \in Sales \ lowered'
                     PROVE  v.sum[s] <= Paid(s)' + Planned(v, s)
          OBVIOUS
        <5>1. v.sum[s] <= Paid(s) + Planned(v, s) /\ v.sum[s] \in Int
          BY <1>10, <3>1, <3>6, <4>1 DEF Fresh
        <5>2. Paid(s) \in Int /\ Paid(s)' \in Int /\ Paid(s)' >= Paid(s) /\ Planned(v, s) \in Nat
          BY <1>9, <4>2, <4>3
        <5> QED  BY <5>1, <5>2
      <4> QED  BY <1>1, <2>4, <3>2, <3>6, <4>4, <4>5 DEF Fresh, Holding
    <3> QED  BY <3>2, <3>3, <3>4, <3>5, <3>6 DEF Fresh, Holding
  <2> QED  BY <1>1, <2>5, <2>6, <2>7 DEF Informs
<1>18. Spending'
  <2>1. \A s \in Sales \ Sold : taken'[s] = 0
    <3> SUFFICES ASSUME NEW s \in Sales \ Sold PROVE taken'[s] = 0
      OBVIOUS
    <3>1. s # s0 /\ taken[s] = 0
      BY <1>2, <1>4 DEF Spending
    <3> QED  BY <1>1, <1>2, <3>1 DEF ReceiptsTypeOK
  <2> QED  BY <1>1, <1>2, <1>4, <1>7, <1>8, <2>1 DEF Spending
<1>19. Reached'
  <2> SUFFICES ASSUME ~shop.crossing, ~disturbed', NEW r \in Standing, NEW s \in Sold \ lowered'
               PROVE  Left(r, amount[r]) = 0 \/ Paid(s)' >= shop.price[s]
    BY <1>1, <1>7, <1>8 DEF Reached
  <2>1. ~disturbed /\ u.n >= 0
    <3>1. ~disturbed /\ ~(u.n < 0)
      BY <1>1, Zenon
    <3> QED  BY <1>3, <3>1
  <2>2. Left(r, amount[r]) = 0 \/ Paid(s) >= shop.price[s]
    BY <1>2, <1>10, <2>1 DEF Reached
  <2>3. s \in Sales
    BY DEF Sold
  <2>4. Paid(s)' >= Paid(s) /\ Paid(s) \in Int /\ Paid(s)' \in Int /\ shop.price[s] \in Nat
    BY <1>9, <1>11, <2>1, <2>3
  <2> QED  BY <2>2, <2>4
<1>20. Unmarked'
  <2> SUFFICES ASSUME ~shop.marks PROVE booked = 0 /\ (progress # "completed" => ~orderPaid')
    BY <1>1 DEF Unmarked
  <2> QED  BY <1>1, <1>2, <1>14 DEF Unmarked
<1>21. Shows'
  <2> SUFFICES ASSUME ~shop.crossing
               PROVE  /\ \A s \in Sales \ lowered' : shown'[s] = "paid" => Covered(s)'
                      /\ orderPaid' /\ progress = "completed" /\ shop.price[Offcut] = 0
                            => Covered(Main)' \/ Main \in lowered'
    BY <1>1 DEF Shows
  <2>0. booked \in Nat
    BY <1>2, ReceiptsAre DEF ReceiptsTypeOK
  <2>1. \A s \in Sales : Covered(s)' <=> Paid(s)' + (IF s = Main THEN booked ELSE 0) >= shop.price[s]
    BY <1>1 DEF Covered
  <2>2. \A s \in Sales \ lowered' : Covered(s) => Covered(s)'
    <3> SUFFICES ASSUME NEW s \in Sales \ lowered', Covered(s) PROVE Covered(s)'
      OBVIOUS
    <3>1. Paid(s) + (IF s = Main THEN booked ELSE 0) >= shop.price[s]
      BY DEF Covered
    <3>2. s # s0 \/ u.n >= 0
      BY <1>12
    <3>3. Paid(s)' >= Paid(s) /\ Paid(s) \in Int /\ Paid(s)' \in Int /\ shop.price[s] \in Nat
      BY <1>9, <1>11, <3>2
    <3>4. Paid(s)' + (IF s = Main THEN booked ELSE 0) >= shop.price[s]
      BY <2>0, <3>1, <3>3
    <3> QED  BY <2>1, <3>4
  <2>3. sum >= shop.price[s0] /\ s0 \notin lowered' => Covered(s0)'
    <3> SUFFICES ASSUME sum >= shop.price[s0], s0 \notin lowered' PROVE Covered(s0)'
      OBVIOUS
    <3>1. Paid(s0)' >= shop.price[s0] /\ Paid(s0)' \in Int /\ shop.price[s0] \in Nat
      BY <1>3, <1>9, <1>13
    <3>2. Paid(s0)' + (IF s0 = Main THEN booked ELSE 0) >= shop.price[s0]
      BY <2>0, <3>1
    <3> QED  BY <1>3, <2>1, <3>2
  <2>4. ASSUME NEW s \in Sales \ lowered', shown'[s] = "paid" PROVE Covered(s)'
    <3>1. CASE s = s0
      <4>1. Settled(s0, sum) = "paid"
        BY <1>1, <1>2, <1>3, <2>4, <3>1 DEF ReceiptsTypeOK
      <4>2. sum >= shop.price[s0]
        BY <1>2, <1>3, <1>5, <4>1, SettledIs
      <4> QED  BY <2>3, <2>4, <3>1, <4>2
    <3>2. CASE s # s0
      <4>1. shown[s] = "paid"
        BY <1>1, <1>2, <2>4, <3>2 DEF ReceiptsTypeOK
      <4> QED  BY <1>2, <1>10, <2>2, <4>1 DEF Shows
    <3> QED  BY <3>1, <3>2
  <2>5. ASSUME orderPaid', progress = "completed", shop.price[Offcut] = 0, Main \notin lowered'
        PROVE  Covered(Main)'
    <3>1. Main \in Sales
      BY DEF Main, Sales
    <3>2. CASE orderPaid
      BY <1>2, <1>10, <2>2, <2>5, <3>1, <3>2 DEF Shows
    <3>3. CASE s0 \in Linked /\ sum >= shop.price[s0]
      <4>1. s0 = Main
        <5>1. s0 = Offcut \/ s0 = Main
          BY <3>3 DEF Linked
        <5>2. shop.price[s0] > 0
          BY <1>14, <3>3
        <5> QED  BY <2>5, <5>1, <5>2
      <4> QED  BY <2>3, <2>5, <3>3, <4>1
    <3> QED  BY <1>1, <2>5, <3>2, <3>3
  <2> QED  BY <2>4, <2>5
<1> QED  BY <1>6, <1>16, <1>17, <1>18, <1>19, <1>20, <1>21 DEF ReceiptsInv

LEMMA CommitReverseKeeps ==
    ASSUME ReceiptsInv, NEW q \in Requests, CommitReverse(q)
    PROVE  ReceiptsInv'
<1>0. PICK u : u = work[q]
  OBVIOUS
<1>1. /\ u.at = "reversing"
      /\ reversed' = reversed \cup {u.receipt}
      /\ undone' = undone \cup ({u.receipt} \X u.from)
      /\ shown' = [s \in Sales |-> IF s \in u.from THEN StatusOf(s, u.sum[s]) ELSE shown[s]]
      /\ orderPaid' = (orderPaid /\ \A s \in u.from \cap Linked : u.sum[s] >= shop.price[s])
      /\ disturbed' = TRUE /\ Continue(q, Idle)
      /\ UNCHANGED <<shop, progress, booked, taken, amount, alloc, lowered>>
  BY <1>0 DEF CommitReverse, At
<1>2. /\ ReceiptsTypeOK /\ Spending /\ Apart /\ Informed /\ Unmarked /\ Shows
      /\ u \in Works /\ Informs(u)
  BY <1>0, WorkIs DEF ReceiptsInv, Informed
<1>3. u.receipt \in Receipts /\ u.from \subseteq Sales /\ u.sum \in [Sales -> Int]
  BY <1>0, <1>1, <1>2, WorkIs
<1>4. u.receipt \in Standing /\ u.from = {s \in Sales : alloc[u.receipt][s] > 0}
  BY <1>1, <1>2 DEF Informs, Reads
<1>5. Apart' /\ work' \in [Requests -> Works] /\ work' = [work EXCEPT ![q] = Idle]
  BY <1>1, <1>2, WorkEnds
<1>6. Sold' = Sold /\ Standing' = Standing \ {u.receipt}
  BY <1>1 DEF Standing, Sold
<1>7. \A r, n : Left(r, n)' = Left(r, n)
  BY <1>1 DEF Left
<1>8. \A s \in Sales : /\ Paid(s) \in Int /\ Paid(s)' \in Int /\ shop.price[s] \in Nat
                       /\ alloc[u.receipt][s] \in Nat
                       /\ Paid(s)' = Paid(s) - alloc[u.receipt][s]
  <2> SUFFICES ASSUME NEW s \in Sales
               PROVE  /\ Paid(s) \in Int /\ Paid(s)' \in Int /\ shop.price[s] \in Nat
                      /\ alloc[u.receipt][s] \in Nat
                      /\ Paid(s)' = Paid(s) - alloc[u.receipt][s]
    OBVIOUS
  <2> DEFINE f == Counts(s)
             h == [r \in Receipts |-> IF <<r, s>> \in undone' THEN 0 ELSE alloc[r][s]]
  <2>0. MaxReceipts \in Nat /\ Receipts = 1 .. MaxReceipts
    BY ReceiptsAre
  <2>1. \A r \in Receipts : f[r] \in Nat /\ alloc[r][s] \in Nat
    BY <1>2, PaidIs, RowsAre
  <2>2. \A r \in Receipts : h[r] \in Nat
    BY <2>1
  <2>3. \A r \in Receipts : r # u.receipt => h[r] = f[r]
    <3> SUFFICES ASSUME NEW r \in Receipts, r # u.receipt PROVE h[r] = f[r]
      OBVIOUS
    <3>1. <<r, s>> \in undone' <=> <<r, s>> \in undone
      BY <1>1
    <3> QED  BY <3>1 DEF Counts
  <2>4. f[u.receipt] = alloc[u.receipt][s] /\ h[u.receipt] = 0
    <3>1. <<u.receipt, s>> \notin undone
      BY <1>2, <1>3, <1>4 DEF Spending, Standing
    <3>2. f[u.receipt] = alloc[u.receipt][s]
      BY <1>3, <3>1 DEF Counts
    <3>3. CASE s \in u.from
      <4>1. <<u.receipt, s>> \in undone'
        BY <1>1, <3>3
      <4> QED  BY <1>3, <3>2, <4>1
    <3>4. CASE s \notin u.from
      <4>1. alloc[u.receipt][s] = 0
        BY <1>3, <1>4, <2>1, <3>4
      <4> QED  BY <1>3, <3>2, <4>1
    <3> QED  BY <3>3, <3>4
  <2>5. Sum(Counts(s), Receipts) = Sum(f, 1 .. MaxReceipts) /\ Paid(s) = taken[s] + Sum(f, 1 .. MaxReceipts)
        /\ taken[s] \in Int /\ Paid(s) \in Int /\ Sum(f, 1 .. MaxReceipts) \in Nat
    BY <1>2, <2>0, PaidIs
  <2>6. Paid(s)' = taken[s] + Sum(h, 1 .. MaxReceipts)
    BY <1>1, <2>0 DEF Paid
  <2> HIDE DEF f, h
  <2>7. Sum(h, 1 .. MaxReceipts) = Sum(f, 1 .. MaxReceipts) + h[u.receipt] - f[u.receipt]
    <3>1. \A r \in 1 .. MaxReceipts : f[r] \in Int /\ h[r] \in Int
      BY <2>0, <2>1, <2>2
    <3>2. \A r \in 1 .. MaxReceipts : r # u.receipt => h[r] = f[r]
      BY <2>0, <2>3
    <3>3. u.receipt \in 1 .. MaxReceipts
      BY <1>3, <2>0
    <3> QED  BY <2>0, <3>1, <3>2, <3>3, SumChanges
  <2>8. Sum(h, 1 .. MaxReceipts) \in Nat
    BY <2>0, <2>2, SumOfNats
  <2>9. alloc[u.receipt][s] \in Nat /\ shop.price[s] \in Nat
    BY <1>2, <1>3, <2>1, ShopIs
  <2> QED  BY <2>4, <2>5, <2>6, <2>7, <2>8, <2>9
<1>9. \A s \in Sales : Paid(s)' <= Paid(s)
  BY <1>8
<1>10. orderPaid' \in BOOLEAN /\ (orderPaid' => orderPaid)
  BY <1>1
<1>11. ReceiptsTypeOK'
  <2>1. disturbed' \in BOOLEAN
    BY <1>1
  <2>2. shown' \in [Sales -> Shown]
    <3>1. \A s \in Sales : StatusOf(s, u.sum[s]) \in Shown
      BY <1>2, <1>3, StatusIs
    <3> QED  BY <1>1, <1>2, <3>1 DEF ReceiptsTypeOK
  <2>3. reversed' \subseteq Receipts /\ undone' \subseteq Receipts \X Sales
    BY <1>1, <1>2, <1>3 DEF ReceiptsTypeOK
  <2> QED  BY <1>1, <1>2, <1>5, <1>10, <2>1, <2>2, <2>3 DEF ReceiptsTypeOK
<1>12. Informed'
  <2> SUFFICES ASSUME NEW p \in Others(q), NEW v \in Works, v = work[p] PROVE Informs(v)'
    BY <1>2, <1>5, OthersInformed
  <2>0. p \in Requests /\ p # q
    BY DEF Others
  <2>1. Informs(v)
    BY <1>2, <2>0 DEF Informed
  <2>2. Own(v)' = Own(v) /\ Known(v)' = Known(v)
    BY <1>1, <1>6 DEF Own, Known, Made, NextId
  <2>3. \A r : AmountOf(v, r)' = AmountOf(v, r)
    BY <1>1 DEF AmountOf
  <2>4. \A s : Planned(v, s)' = Planned(v, s)
    BY DEF Planned
  <2>5. Locked(v)'
    BY <1>1, <2>1 DEF Locked, Holding, Informs
  <2>6. Reads(v)'
    <3>1. Reads(v)
      BY <2>1 DEF Informs
    <3>2. v.at = "listed" => v.seen \subseteq {r \in Receipts : amount'[r] > 0} \cup Own(v)'
      BY <1>1, <2>2, <3>1 DEF Reads
    <3>3. v.at = "reversing" => /\ v.receipt \in Standing'
                                /\ v.from = {s \in Sales : alloc'[v.receipt][s] > 0}
      <4> SUFFICES ASSUME v.at = "reversing"
                   PROVE  /\ v.receipt \in Standing'
                          /\ v.from = {s \in Sales : alloc'[v.receipt][s] > 0}
        OBVIOUS
      <4>1. v.receipt # u.receipt
        BY <1>0, <1>1, <1>2, <2>0 DEF Apart, At
      <4> QED  BY <1>1, <1>6, <3>1, <4>1 DEF Reads
    <3>4. v.at \in {"checked", "adding"} => shop'.finance /\ v.sale \in Sold'
      BY <1>1, <1>6, <3>1 DEF Reads
    <3>5. v.at = "allocated" /\ ~shop.finance =>
             \A s \in Sales : Paid(s)' + Planned(v, s) <= shop.price[s]
      <4> SUFFICES ASSUME v.at = "allocated", ~shop.finance, NEW s \in Sales
                   PROVE  Paid(s)' + Planned(v, s) <= shop.price[s]
        OBVIOUS
      <4>1. Planned(v, s) \in Nat
        <5>1. v.plan \in Plans
          BY <1>2, <2>0, WorkIs
        <5> QED  BY <5>1, PlannedIs
      <4>2. Paid(s) + Planned(v, s) <= shop.price[s]
        BY <3>1 DEF Reads
      <4> QED  BY <1>8, <4>1, <4>2
    <3>6. v.at = "allocated" =>
             /\ \A r \in Receipts, s \in Sales : v.plan[r][s] > 0 =>
                   (amount'[r] > 0 \/ r \in Own(v)') /\ s \in Known(v)'
             /\ \A r \in Receipts : Sum(v.plan[r], Sales) <= Left(r, AmountOf(v, r))'
      BY <1>1, <1>7, <2>2, <2>3, <3>1 DEF Reads
    <3> QED  BY <1>1, <2>4, <3>2, <3>3, <3>4, <3>5, <3>6 DEF Reads
  <2>7. ~shop.crossing => Fresh(v)'
    <3> SUFFICES ASSUME ~shop.crossing PROVE Fresh(v)'
      OBVIOUS
    <3>1. v.at = "idle"
      BY <1>0, <1>1, <1>2, <2>0 DEF Apart, At
    <3> QED  BY <3>1 DEF Fresh, Holding
  <2> QED  BY <1>1, <2>5, <2>6, <2>7 DEF Informs
<1>13. Spending'
  <2>1. \A r \in Receipts : Left(r, amount[r])' >= 0
    BY <1>1, <1>2, <1>7 DEF Spending
  <2>2. \A r \in reversed' : amount'[r] > 0
    BY <1>1, <1>2, <1>4 DEF Spending, Standing
  <2>3. \A r \in Receipts, s \in Sales : <<r, s>> \in undone' => r \in reversed' /\ alloc'[r][s] > 0
    BY <1>1, <1>2, <1>4 DEF Spending
  <2>4. ~shop.finance => \A s \in Sales : taken[s] = 0 /\ Paid(s)' <= shop.price[s]
    <3> SUFFICES ASSUME ~shop.finance, NEW s \in Sales
                 PROVE  taken[s] = 0 /\ Paid(s)' <= shop.price[s]
      OBVIOUS
    <3>1. taken[s] = 0 /\ Paid(s) <= shop.price[s]
      BY <1>2 DEF Spending
    <3> QED  BY <1>8, <3>1
  <2>5. \A s \in Sales \ Sold' : taken'[s] = 0
    BY <1>1, <1>2, <1>6 DEF Spending
  <2> QED  BY <1>1, <2>1, <2>2, <2>3, <2>4, <2>5 DEF Spending
<1>14. Reached'
  BY <1>1 DEF Reached
<1>15. Unmarked'
  BY <1>1, <1>2, <1>10 DEF Unmarked
<1>16. Shows'
  <2> SUFFICES ASSUME ~shop.crossing
               PROVE  /\ \A s \in Sales \ lowered : shown'[s] = "paid" => Covered(s)'
                      /\ orderPaid' /\ progress = "completed" /\ shop.price[Offcut] = 0
                            => Covered(Main)' \/ Main \in lowered
    BY <1>1 DEF Shows
  <2>0. booked \in Nat
    BY <1>2, ReceiptsAre DEF ReceiptsTypeOK
  <2>1. \A s \in Sales : Covered(s)' <=> Paid(s)' + (IF s = Main THEN booked ELSE 0) >= shop.price[s]
    BY <1>1 DEF Covered
  <2>2. \A s \in Sales : s \notin u.from /\ Covered(s) => Covered(s)'
    <3> SUFFICES ASSUME NEW s \in Sales, s \notin u.from, Covered(s) PROVE Covered(s)'
      OBVIOUS
    <3>1. Paid(s)' = Paid(s)
      BY <1>4, <1>8
    <3> QED  BY <2>1, <3>1 DEF Covered
  <2>3. \A s \in Sales : u.sum[s] >= shop.price[s] => Covered(s)'
    <3> SUFFICES ASSUME NEW s \in Sales, u.sum[s] >= shop.price[s] PROVE Covered(s)'
      OBVIOUS
    <3>1. u.sum[s] = Paid(s)'
      BY <1>1, <1>2, <1>8 DEF Informs, Fresh
    <3> QED  BY <1>8, <2>0, <2>1, <3>1
  <2>4. ASSUME NEW s \in Sales \ lowered, shown'[s] = "paid" PROVE Covered(s)'
    <3>1. CASE s \in u.from
      <4>1. StatusOf(s, u.sum[s]) = "paid"
        BY <1>1, <2>4, <3>1
      <4>2. u.sum[s] >= shop.price[s]
        BY <1>2, <1>3, <4>1, StatusIs
      <4> QED  BY <2>3, <4>2
    <3>2. CASE s \notin u.from
      BY <1>1, <1>2, <2>2, <2>4, <3>2 DEF Shows
    <3> QED  BY <3>1, <3>2
  <2>5. ASSUME orderPaid', progress = "completed", shop.price[Offcut] = 0
        PROVE  Covered(Main)' \/ Main \in lowered
    <3>1. Main \in Sales /\ Main \in Linked
      BY DEF Main, Sales, Linked
    <3>2. CASE Main \in u.from
      <4>1. u.sum[Main] >= shop.price[Main]
        BY <1>1, <2>5, <3>1, <3>2
      <4> QED  BY <2>3, <3>1, <4>1
    <3>3. CASE Main \notin u.from
      BY <1>2, <1>10, <2>2, <2>5, <3>1, <3>3 DEF Shows
    <3> QED  BY <3>2, <3>3
  <2> QED  BY <2>4, <2>5
<1> QED  BY <1>5, <1>11, <1>12, <1>13, <1>14, <1>15, <1>16 DEF ReceiptsInv

LEMMA CommitDistributionKeeps ==
    ASSUME ReceiptsInv, NEW q \in Requests, CommitDistribution(q)
    PROVE  ReceiptsInv'
<1>0. PICK u : u = work[q]
  OBVIOUS
<1> DEFINE touched == {s \in Sales : \E r \in Receipts : u.plan[r][s] > 0}
<1>1. /\ u.at = "allocated"
      /\ amount' = [r \in Receipts |-> IF u.of = "record" /\ NextId(r) THEN u.n ELSE amount[r]]
      /\ alloc' = [r \in Receipts |-> [s \in Sales |-> alloc[r][s] + u.plan[r][s]]]
      /\ orderPaid' = (orderPaid \/ \E s \in touched \cap Linked : u.sum[s] >= shop.price[s])
      /\ disturbed' = FALSE /\ Continue(q, Idle)
      /\ UNCHANGED <<shop, taken, reversed, undone, lowered>>
  BY <1>0 DEF CommitDistribution, At, Pays
<1>2. /\ \A r \in Receipts, s \in Sales : u.plan[r][s] > 0 => ~(alloc[r][s] > 0)
      /\ \A p \in Reversing, s \in Sales : ~(u.plan[work[p].receipt][s] > 0)
  BY <1>0 DEF CommitDistribution, Duplicate, Pays
<1>3. booked' = IF u.of = "complete" /\ u.marked THEN shop.price[Main] ELSE booked
  BY <1>0 DEF CommitDistribution, Income
<1>4. /\ ReceiptsTypeOK /\ Spending /\ Apart /\ Informed /\ Unmarked /\ Shows
      /\ u \in Works /\ Informs(u)
  BY <1>0, WorkIs DEF ReceiptsInv, Informed
<1>5. /\ Holding(u) /\ u.of \in Kinds /\ u.n \in 0 .. MaxAmount /\ u.n \in Nat
      /\ u.marked \in BOOLEAN /\ u.plan \in Plans /\ u.sum \in [Sales -> Int]
  <2>1. Holding(u)
    BY <1>1 DEF Holding
  <2>2. /\ u.of \in Kinds /\ u.n \in 0 .. MaxAmount /\ u.marked \in BOOLEAN
        /\ u.plan \in Plans /\ u.sum \in [Sales -> Int]
    BY <1>0, <1>1, <1>4, <2>1, WorkIs
  <2> QED  BY <2>1, <2>2, ReceiptsAre
<1>6. progress' = IF u.of = "accept" THEN "accepted"
                  ELSE IF u.of = "complete" THEN "completed" ELSE progress
  <2>0. progress' = CASE u.of = "accept"   -> "accepted"
                      [] u.of = "complete" -> "completed"
                      [] u.of = "record"   -> progress
    BY <1>0 DEF CommitDistribution
  <2>1. CASE u.of = "accept"
    BY <2>0, <2>1
  <2>2. CASE u.of = "complete"
    BY <2>0, <2>2
  <2>3. CASE u.of = "record"
    BY <2>0, <2>3
  <2> QED  BY <1>5, <2>1, <2>2, <2>3 DEF Kinds
<1>7. /\ shown' \in [Sales -> Shown]
      /\ \A s \in touched : shown'[s] = Settled(s, u.sum[s])
      /\ \A s \in Sales \ touched : shown'[s] = shown[s]
                                    \/ (s = Main /\ s \in Made(u.of) /\ u.marked)
  <2>0. shown' = [s \in Sales |->
              CASE s \in touched -> Settled(s, u.sum[s])
                [] s \notin touched /\ s = Main /\ s \in Made(u.of) /\ u.marked -> "paid"
                [] OTHER -> shown[s]]
    BY <1>0 DEF CommitDistribution, Pays
  <2>1. \A s \in touched : shown'[s] = Settled(s, u.sum[s])
    <3> SUFFICES ASSUME NEW s \in touched PROVE shown'[s] = Settled(s, u.sum[s])
      OBVIOUS
    <3>1. s \in Sales
      OBVIOUS
    <3> HIDE DEF touched
    <3> QED  BY <2>0, <3>1
  <2>2. \A s \in Sales : s \notin touched /\ s = Main /\ s \in Made(u.of) /\ u.marked => shown'[s] = "paid"
    <3> HIDE DEF touched
    <3> QED  BY <2>0
  <2>3. \A s \in Sales : s \notin touched /\ ~(s = Main /\ s \in Made(u.of) /\ u.marked)
                            => shown'[s] = shown[s]
    <3> HIDE DEF touched
    <3> SUFFICES ASSUME NEW s \in Sales, s \notin touched,
                        ~(s = Main /\ s \in Made(u.of) /\ u.marked)
                 PROVE  shown'[s] = shown[s]
      OBVIOUS
    <3>1. ~(s \notin touched /\ s = Main /\ s \in Made(u.of) /\ u.marked)
      OBVIOUS
    <3> QED  BY <2>0, <3>1
  <2>4. \A s \in Sales : shown'[s] \in Shown
    <3> SUFFICES ASSUME NEW s \in Sales PROVE shown'[s] \in Shown
      OBVIOUS
    <3>1. Settled(s, u.sum[s]) \in Shown /\ "paid" \in Shown /\ shown[s] \in Shown
      BY <1>4, <1>5, SettledIs DEF ReceiptsTypeOK, Shown
    <3> HIDE DEF touched
    <3> QED  BY <2>1, <2>2, <2>3, <3>1
  <2>5. shown' = [s \in Sales |-> shown'[s]]
    <3> HIDE DEF touched
    <3> QED  BY <2>0
  <2> HIDE DEF touched
  <2> QED  BY <2>1, <2>3, <2>4, <2>5
<1>8. Apart' /\ work' \in [Requests -> Works] /\ work' = [work EXCEPT ![q] = Idle]
  BY <1>1, <1>4, WorkEnds
<1>9. \A p \in Others(q) : ~Holding(work[p])
  BY <1>0, <1>4, <1>5 DEF Apart, Others
<1>10. \A r \in Receipts, s \in Sales : /\ u.plan[r][s] \in Nat /\ u.plan[r][s] <= MaxAmount
                                        /\ alloc[r][s] \in Nat /\ alloc[r][s] <= MaxAmount
                                        /\ alloc'[r][s] = alloc[r][s] + u.plan[r][s]
                                        /\ u.plan[r][s] > 0 => alloc[r][s] = 0
  <2>1. \A r \in Receipts, s \in Sales : u.plan[r][s] \in Nat /\ u.plan[r][s] <= MaxAmount
    BY <1>5, ReceiptsAre DEF Plans
  <2>2. \A r \in Receipts, s \in Sales : alloc[r][s] \in Nat /\ alloc[r][s] <= MaxAmount
    BY <1>4, RowsAre
  <2>3. \A r \in Receipts, s \in Sales : alloc'[r][s] = alloc[r][s] + u.plan[r][s]
    BY <1>1
  <2>4. \A r \in Receipts, s \in Sales : u.plan[r][s] > 0 => alloc[r][s] = 0
    BY <1>2, <2>2
  <2> QED  BY <2>1, <2>2, <2>3, <2>4
<1>11. alloc' \in Plans
  <2>1. \A r \in Receipts, s \in Sales : alloc[r][s] + u.plan[r][s] \in 0 .. MaxAmount
    <3> SUFFICES ASSUME NEW r \in Receipts, NEW s \in Sales
                 PROVE  alloc[r][s] + u.plan[r][s] \in 0 .. MaxAmount
      OBVIOUS
    <3> DEFINE a == alloc[r][s]
               b == u.plan[r][s]
    <3>1. /\ a \in Nat /\ b \in Nat /\ a <= MaxAmount /\ b <= MaxAmount /\ MaxAmount \in Nat
          /\ b > 0 => a = 0
      BY <1>10, ReceiptsAre
    <3> HIDE DEF a, b
    <3>2. a + b \in 0 .. MaxAmount
      BY <3>1
    <3> QED  BY <3>2 DEF a, b
  <2> QED  BY <1>1, <2>1 DEF Plans
\* The receipts after the step.
<1>12. \A r \in Receipts : /\ amount'[r] = IF r \in Own(u) THEN u.n ELSE amount[r]
                           /\ amount[r] \in Nat /\ amount[r] <= MaxAmount
                           /\ r \in Own(u) => amount[r] = 0 /\ u.n > 0
                           /\ amount[r] > 0 \/ r \in Own(u) => amount'[r] = AmountOf(u, r)
                           /\ amount[r] > 0 => amount'[r] = amount[r]
                           /\ amount[r] = 0 /\ r \notin Own(u) => amount'[r] = 0
  <2> SUFFICES ASSUME NEW r \in Receipts
               PROVE       /\ amount'[r] = IF r \in Own(u) THEN u.n ELSE amount[r]
                           /\ amount[r] \in Nat /\ amount[r] <= MaxAmount
                           /\ r \in Own(u) => amount[r] = 0 /\ u.n > 0
                           /\ amount[r] > 0 \/ r \in Own(u) => amount'[r] = AmountOf(u, r)
                           /\ amount[r] > 0 => amount'[r] = amount[r]
                           /\ amount[r] = 0 /\ r \notin Own(u) => amount'[r] = 0
    OBVIOUS
  <2>1. amount'[r] = IF r \in Own(u) THEN u.n ELSE amount[r]
    BY <1>1 DEF Own
  <2>2. amount[r] \in Nat /\ amount[r] <= MaxAmount
    BY <1>4, RowsAre
  <2>3. r \in Own(u) => amount[r] = 0 /\ u.of = "record"
    BY DEF Own, NextId
  <2>4. u.of = "record" => u.n > 0
    BY <1>4, <1>5 DEF Informs, Locked
  <2> QED  BY <2>1, <2>2, <2>3, <2>4 DEF AmountOf
<1>13. Standing' = Standing \cup Own(u)
  <2>1. \A r \in Receipts : amount'[r] > 0 <=> amount[r] > 0 \/ r \in Own(u)
    BY <1>5, <1>12
  <2>2. \A r \in Own(u) : r \in Receipts /\ r \notin reversed
    BY <1>4, <1>12 DEF Own, Spending
  <2> QED  BY <1>1, <2>1, <2>2 DEF Standing
<1>14. /\ Sold' = Known(u) /\ Sold \subseteq Sold'
  <2>1. /\ u.of = "accept" => progress = "pending" /\ progress' = "accepted"
        /\ u.of = "complete" => progress = "accepted" /\ progress' = "completed"
        /\ u.of = "record" => progress' = progress
    BY <1>4, <1>5, <1>6 DEF Informs, Locked
  <2>2. shop' = shop
    BY <1>1
  <2>3. CASE u.of = "accept"
    BY <2>1, <2>2, <2>3 DEF Sold, Made, Known
  <2>4. CASE u.of = "complete"
    BY <2>1, <2>2, <2>4 DEF Sold, Made, Known
  <2>5. CASE u.of = "record"
    BY <2>1, <2>2, <2>5 DEF Sold, Made, Known
  <2> QED  BY <1>5, <2>3, <2>4, <2>5 DEF Kinds
<1>15. \A r \in Receipts, n \in Int : /\ Left(r, n)' = Left(r, n) - Sum(u.plan[r], Sales)
                                      /\ Left(r, n) \in Int /\ Sum(u.plan[r], Sales) \in Nat
  <2> SUFFICES ASSUME NEW r \in Receipts, NEW n \in Int
               PROVE  /\ Left(r, n)' = Left(r, n) - Sum(u.plan[r], Sales)
                      /\ Left(r, n) \in Int /\ Sum(u.plan[r], Sales) \in Nat
    OBVIOUS
  <2>1. \A s \in Sales : alloc'[r][s] \in Int
    BY <1>10
  <2>2. Sum(alloc'[r], Sales) = alloc'[r][1] + alloc'[r][2] + alloc'[r][3]
    BY <2>1, ThreeSales
  <2>3. Left(r, n)' = n - Sum(alloc'[r], Sales)
    BY DEF Left
  <2>4. /\ alloc'[r][1] = alloc[r][1] + u.plan[r][1]
        /\ alloc'[r][2] = alloc[r][2] + u.plan[r][2]
        /\ alloc'[r][3] = alloc[r][3] + u.plan[r][3]
        /\ alloc[r][1] \in Nat /\ alloc[r][2] \in Nat /\ alloc[r][3] \in Nat
    BY <1>10, ReceiptsAre
  <2>5. Left(r, n) = n - (alloc[r][1] + alloc[r][2] + alloc[r][3]) /\ Left(r, n) \in Int
    BY <1>4, LeftIs
  <2>6. /\ Sum(u.plan[r], Sales) = u.plan[r][1] + u.plan[r][2] + u.plan[r][3]
        /\ u.plan[r][1] \in Nat /\ u.plan[r][2] \in Nat /\ u.plan[r][3] \in Nat
    BY <1>5, RowPlanned
  <2> DEFINE a == alloc[r][1]
             b == alloc[r][2]
             c == alloc[r][3]
             d == u.plan[r][1]
             e == u.plan[r][2]
             f == u.plan[r][3]
  <2>7. Left(r, n)' = n - ((a + d) + (b + e) + (c + f))
    BY <2>2, <2>3, <2>4
  <2>8. Left(r, n) = n - (a + b + c) /\ Sum(u.plan[r], Sales) = d + e + f
        /\ a \in Nat /\ b \in Nat /\ c \in Nat /\ d \in Nat /\ e \in Nat /\ f \in Nat
    BY <2>4, <2>5, <2>6
  <2> HIDE DEF a, b, c, d, e, f
  <2> QED  BY <2>7, <2>8
\* What is left of a receipt after the step.
<1>16. \A r \in Receipts : /\ amount[r] > 0 \/ r \in Own(u) =>
                                  Left(r, amount[r])' = Left(r, AmountOf(u, r)) - Sum(u.plan[r], Sales)
                           /\ Left(r, amount[r])' >= 0
                           /\ Left(r, AmountOf(u, r)) \in Int /\ Sum(u.plan[r], Sales) \in Nat
  <2> SUFFICES ASSUME NEW r \in Receipts
               PROVE  /\ amount[r] > 0 \/ r \in Own(u) =>
                            Left(r, amount[r])' = Left(r, AmountOf(u, r)) - Sum(u.plan[r], Sales)
                      /\ Left(r, amount[r])' >= 0
                      /\ Left(r, AmountOf(u, r)) \in Int /\ Sum(u.plan[r], Sales) \in Nat
    OBVIOUS
  <2>1. PICK n : n = amount'[r]
    OBVIOUS
  <2>2. PICK m : m = AmountOf(u, r)
    OBVIOUS
  <2>3. n \in Int /\ m \in Int
    BY <1>5, <1>12, <2>1, <2>2 DEF AmountOf
  <2>4. Left(r, amount[r])' = Left(r, n)'
    BY <2>1 DEF Left
  <2>5. Left(r, n)' = Left(r, n) - Sum(u.plan[r], Sales) /\ Left(r, n) \in Int
        /\ Left(r, m) \in Int /\ Sum(u.plan[r], Sales) \in Nat
    BY <1>15, <2>3
  <2>6. CASE amount[r] > 0 \/ r \in Own(u)
    <3>1. n = m
      BY <1>12, <2>1, <2>2, <2>6
    <3>2. Sum(u.plan[r], Sales) <= Left(r, m)
      BY <1>1, <1>4, <2>2 DEF Informs, Reads
    <3>3. Left(r, n)' >= 0
      BY <2>5, <3>1, <3>2
    <3> QED  BY <2>2, <2>4, <2>5, <3>1, <3>3
  <2>7. CASE ~(amount[r] > 0) /\ r \notin Own(u)
    <3>1. amount[r] = 0 /\ n = amount[r]
      BY <1>12, <2>1, <2>7
    <3>2. Left(r, n) >= 0
      BY <1>4, <3>1 DEF Spending
    <3>3. \A s \in Sales : u.plan[r][s] = 0
      <4>1. \A s \in Sales : ~(u.plan[r][s] > 0)
        BY <1>1, <1>4, <2>7 DEF Informs, Reads
      <4> QED  BY <1>10, <4>1
    <3>4. Sum(u.plan[r], Sales) = 0
      <4>1. Sum(u.plan[r], Sales) = u.plan[r][1] + u.plan[r][2] + u.plan[r][3]
        BY <1>5, RowPlanned
      <4> QED  BY <3>3, <4>1, ReceiptsAre
    <3> QED  BY <2>2, <2>4, <2>5, <2>7, <3>2, <3>4
  <2> QED  BY <2>6, <2>7
\* What the sales are paid after the step.
<1>17. \A s \in Sales : /\ Paid(s)' = Paid(s) + Planned(u, s)
                        /\ Paid(s) \in Int /\ Planned(u, s) \in Nat /\ shop.price[s] \in Nat
  <2> SUFFICES ASSUME NEW s \in Sales
               PROVE  /\ Paid(s)' = Paid(s) + Planned(u, s)
                      /\ Paid(s) \in Int /\ Planned(u, s) \in Nat /\ shop.price[s] \in Nat
    OBVIOUS
  <2> DEFINE f == Counts(s)
             g == [r \in Receipts |-> u.plan[r][s]]
             h == [r \in Receipts |-> IF <<r, s>> \in undone THEN 0 ELSE alloc'[r][s]]
  <2>0. MaxReceipts \in Nat /\ Receipts = 1 .. MaxReceipts
    BY ReceiptsAre
  <2>1. \A r \in Receipts : f[r] \in Nat /\ g[r] \in Nat
    BY <1>4, <1>10, PaidIs
  <2>2. \A r \in Receipts : h[r] = f[r] + g[r]
    <3> SUFFICES ASSUME NEW r \in Receipts PROVE h[r] = f[r] + g[r]
      OBVIOUS
    <3>1. CASE <<r, s>> \in undone
      <4>1. alloc[r][s] > 0
        BY <1>4, <3>1 DEF Spending
      <4>2. g[r] = 0
        BY <1>10, <4>1
      <4> QED  BY <3>1, <4>2 DEF Counts
    <3>2. CASE <<r, s>> \notin undone
      BY <1>10, <3>2 DEF Counts
    <3> QED  BY <3>1, <3>2
  <2>3. /\ Paid(s) = taken[s] + Sum(f, 1 .. MaxReceipts) /\ Sum(f, 1 .. MaxReceipts) \in Nat
        /\ taken[s] \in Int /\ Paid(s) \in Int
    BY <1>4, <2>0, PaidIs
  <2>4. Paid(s)' = taken[s] + Sum(h, 1 .. MaxReceipts)
    BY <1>1, <2>0 DEF Paid
  <2>5. Planned(u, s) = Sum(g, 1 .. MaxReceipts)
    BY <2>0 DEF Planned
  <2>6. Planned(u, s) \in Nat /\ shop.price[s] \in Nat
    BY <1>4, <1>5, PlannedIs, ShopIs
  <2> HIDE DEF f, g, h
  <2>7. Sum(h, 1 .. MaxReceipts) = Sum(f, 1 .. MaxReceipts) + Sum(g, 1 .. MaxReceipts)
    <3>1. \A r \in 1 .. MaxReceipts : f[r] \in Int /\ g[r] \in Int /\ h[r] = f[r] + g[r]
      BY <2>0, <2>1, <2>2
    <3> QED  BY <2>0, <3>1, SumsAdd
  <2> QED  BY <2>3, <2>4, <2>5, <2>6, <2>7
<1>18. \A s \in touched : s \in Sales /\ s \in Sold' /\ shop.price[s] > 0
  <2> SUFFICES ASSUME NEW s \in touched PROVE s \in Sales /\ s \in Sold' /\ shop.price[s] > 0
    OBVIOUS
  <2>1. PICK r \in Receipts : u.plan[r][s] > 0
    OBVIOUS
  <2>2. s \in Sales /\ s \in Known(u)
    BY <1>1, <1>4, <2>1 DEF Informs, Reads
  <2> QED  BY <1>14, <2>2 DEF Known, Sold, Made
<1> HIDE DEF touched
<1>19. orderPaid \in BOOLEAN /\ orderPaid' \in BOOLEAN
  <2>1. orderPaid \in BOOLEAN
    BY <1>4 DEF ReceiptsTypeOK
  <2>2. orderPaid' \in BOOLEAN
    BY <1>1, <2>1
  <2> QED  BY <2>1, <2>2
<1>20. shop.price[Main] \in 0 .. MaxAmount /\ Main \in Sales /\ shop.price[Main] \in Nat
  <2>1. Main \in Sales
    BY DEF Main, Sales
  <2> QED  BY <1>4, <2>1, ShopIs, ReceiptsAre
<1>21. ReceiptsTypeOK'
  <2>1. disturbed' \in BOOLEAN
    BY <1>1
  <2>2. progress' \in {"pending", "accepted", "completed"}
    BY <1>4, <1>6 DEF ReceiptsTypeOK
  <2>3. booked' \in 0 .. MaxAmount
    BY <1>3, <1>4, <1>20 DEF ReceiptsTypeOK
  <2>4. amount' \in [Receipts -> 0 .. MaxAmount]
    <3>1. \A r \in Receipts : amount[r] \in 0 .. MaxAmount
      BY <1>4 DEF ReceiptsTypeOK
    <3> QED  BY <1>1, <1>5, <3>1
  <2> QED  BY <1>1, <1>4, <1>7, <1>8, <1>11, <1>19, <2>1, <2>2, <2>3, <2>4 DEF ReceiptsTypeOK
<1>22. Informed'
  <2> SUFFICES ASSUME NEW p \in Others(q), NEW v \in Works, v = work[p] PROVE Informs(v)'
    BY <1>4, <1>8, OthersInformed
  <2>0. p \in Requests /\ p # q /\ ~Holding(v)
    BY <1>9 DEF Others
  <2>1. Informs(v) /\ v.at # "listed" /\ v.at # "allocated"
    BY <1>4, <2>0 DEF Informed, Holding
  <2>2. Locked(v)'
    BY <2>0 DEF Locked, Holding
  <2>3. Reads(v)'
    <3>1. Reads(v)
      BY <2>1 DEF Informs
    <3>2. v.at = "reversing" => /\ v.receipt \in Standing'
                                /\ v.from = {s \in Sales : alloc'[v.receipt][s] > 0}
      <4> SUFFICES ASSUME v.at = "reversing"
                   PROVE  /\ v.receipt \in Standing'
                          /\ v.from = {s \in Sales : alloc'[v.receipt][s] > 0}
        OBVIOUS
      <4>1. v.receipt \in Standing /\ v.receipt \in Receipts
        BY <3>1 DEF Reads, Standing
      <4>2. p \in Reversing
        BY <2>0 DEF Reversing, At
      <4>3. \A s \in Sales : alloc'[v.receipt][s] = alloc[v.receipt][s]
        <5> SUFFICES ASSUME NEW s \in Sales PROVE alloc'[v.receipt][s] = alloc[v.receipt][s]
          OBVIOUS
        <5>1. ~(u.plan[v.receipt][s] > 0)
          BY <1>2, <4>2
        <5> QED  BY <1>10, <4>1, <5>1
      <4>4. v.from = {s \in Sales : alloc[v.receipt][s] > 0}
        BY <3>1 DEF Reads
      <4> QED  BY <1>13, <4>1, <4>3, <4>4
    <3>3. v.at \in {"checked", "adding"} => shop'.finance /\ v.sale \in Sold'
      BY <1>1, <1>14, <3>1 DEF Reads
    <3> QED  BY <1>1, <2>1, <3>2, <3>3 DEF Reads
  <2>4. ~shop.crossing => Fresh(v)'
    <3> SUFFICES ASSUME ~shop.crossing PROVE Fresh(v)'
      OBVIOUS
    <3>1. v.at # "reversing"
      BY <1>0, <1>1, <1>4, <2>0 DEF Apart, At
    <3>2. v.at = "adding" => v.sale \in lowered \/ v.before <= Paid(v.sale)'
      <4> SUFFICES ASSUME v.at = "adding", v.sale \notin lowered PROVE v.before <= Paid(v.sale)'
        OBVIOUS
      <4>1. v.sale \in Sales /\ v.before \in Int /\ v.before <= Paid(v.sale)
        BY <1>4, <2>0, <2>1, WorkIs DEF Fresh, Informs
      <4>2. PICK s \in Sales : s = v.sale
        BY <4>1
      <4>3. v.before <= Paid(s)'
        BY <1>17, <4>1, <4>2
      <4> QED  BY <4>2, <4>3
    <3> QED  BY <1>1, <2>0, <2>1, <3>1, <3>2 DEF Fresh, Holding
  <2> QED  BY <1>1, <2>2, <2>3, <2>4 DEF Informs
<1>23. Spending'
  <2>1. \A r \in reversed' : amount'[r] > 0
    <3>1. \A r \in reversed : r \in Receipts /\ amount[r] > 0
      BY <1>4 DEF Spending, ReceiptsTypeOK
    <3> QED  BY <1>1, <1>12, <3>1
  <2>2. \A r \in Receipts, s \in Sales : <<r, s>> \in undone' => r \in reversed' /\ alloc'[r][s] > 0
    <3> SUFFICES ASSUME NEW r \in Receipts, NEW s \in Sales, <<r, s>> \in undone
                 PROVE  r \in reversed /\ alloc'[r][s] > 0
      BY <1>1
    <3>1. r \in reversed /\ alloc[r][s] > 0
      BY <1>4 DEF Spending
    <3> QED  BY <1>10, <3>1
  <2>3. ~shop.finance => \A s \in Sales : taken[s] = 0 /\ Paid(s)' <= shop.price[s]
    <3> SUFFICES ASSUME ~shop.finance, NEW s \in Sales
                 PROVE  taken[s] = 0 /\ Paid(s)' <= shop.price[s]
      OBVIOUS
    <3>1. taken[s] = 0
      BY <1>4 DEF Spending
    <3>2. Paid(s) + Planned(u, s) <= shop.price[s]
      BY <1>1, <1>4 DEF Informs, Reads
    <3> QED  BY <1>17, <3>1, <3>2
  <2>4. \A s \in Sales \ Sold' : taken'[s] = 0
    BY <1>1, <1>4, <1>14 DEF Spending
  <2> QED  BY <1>1, <1>16, <2>1, <2>2, <2>3, <2>4 DEF Spending
<1>24. Reached'
  <2> SUFFICES ASSUME ~shop.crossing, NEW r \in Standing', NEW s \in Sold' \ lowered
               PROVE  Left(r, amount[r])' = 0 \/ Paid(s)' >= shop.price[s]
    BY <1>1 DEF Reached
  <2>1. r \in Receipts /\ r \in Standing \cup Own(u) /\ (amount[r] > 0 \/ r \in Own(u))
    BY <1>13 DEF Standing, Own
  <2>2. s \in Known(u) /\ s \in Sales
    BY <1>14 DEF Known, Sold, Made
  <2>3. \/ Left(r, AmountOf(u, r)) = Sum(u.plan[r], Sales)
        \/ Paid(s) + Planned(u, s) >= shop.price[s]
    BY <1>1, <1>4, <2>1, <2>2 DEF Informs, Fresh
  <2>4. CASE Left(r, AmountOf(u, r)) = Sum(u.plan[r], Sales)
    <3>1. Left(r, amount[r])' = Left(r, AmountOf(u, r)) - Sum(u.plan[r], Sales)
          /\ Sum(u.plan[r], Sales) \in Nat
      BY <1>16, <2>1
    <3> QED  BY <2>4, <3>1
  <2>5. CASE Paid(s) + Planned(u, s) >= shop.price[s]
    BY <1>17, <2>2, <2>5
  <2> QED  BY <2>3, <2>4, <2>5
<1>25. Unmarked'
  <2> SUFFICES ASSUME ~shop.marks PROVE booked' = 0 /\ (progress' # "completed" => ~orderPaid')
    BY <1>1 DEF Unmarked
  <2>1. booked = 0 /\ (progress # "completed" => ~orderPaid)
    BY <1>4 DEF Unmarked
  <2>2. ~(u.of = "complete" /\ u.marked)
    BY <1>4, <1>5 DEF Informs, Locked
  <2>3. ASSUME progress' # "completed" PROVE ~orderPaid'
    <3>1. progress # "completed"
      <4>1. u.of = "accept" => progress = "pending"
        BY <1>4, <1>5 DEF Informs, Locked
      <4> QED  BY <1>6, <2>3, <4>1
    <3>2. \A s \in touched : s \notin Linked
      <4> SUFFICES ASSUME NEW s \in touched, s \in Linked PROVE FALSE
        OBVIOUS
      <4>1. s # Shelf
        BY DEF Linked, Offcut, Main, Shelf
      <4>2. s \in Sold'
        BY <1>18
      <4> QED  BY <2>3, <4>1, <4>2 DEF Sold
    <3> QED  BY <1>1, <2>1, <3>1, <3>2
  <2> QED  BY <1>3, <2>1, <2>2, <2>3
<1>26. Shows'
  <2> SUFFICES ASSUME ~shop.crossing
               PROVE  /\ \A s \in Sales \ lowered : shown'[s] = "paid" => Covered(s)'
                      /\ orderPaid' /\ progress' = "completed" /\ shop.price[Offcut] = 0
                            => Covered(Main)' \/ Main \in lowered
    BY <1>1 DEF Shows
  <2>0. booked \in Nat /\ booked' \in Nat
    BY <1>4, <1>21, ReceiptsAre DEF ReceiptsTypeOK
  <2>1. \A s \in Sales : Covered(s)' <=> Paid(s)' + (IF s = Main THEN booked' ELSE 0) >= shop.price[s]
    BY <1>1 DEF Covered
  <2>2. u.of = "complete" /\ u.marked => Covered(Main)'
    <3> SUFFICES ASSUME u.of = "complete", u.marked PROVE Covered(Main)'
      OBVIOUS
    <3>1. booked' = shop.price[Main]
      BY <1>3
    <3>2. Main \notin Sold
      <4>1. progress = "accepted"
        BY <1>4, <1>5 DEF Informs, Locked
      <4> QED  BY <4>1 DEF Sold, Main, Shelf
    <3>3. taken[Main] = 0
      BY <1>4, <1>20, <3>2 DEF Spending
    <3>4. Paid(Main) >= 0
      <4>1. Paid(Main) = taken[Main] + Sum(Counts(Main), Receipts)
            /\ Sum(Counts(Main), Receipts) \in Nat
        BY <1>4, <1>20, PaidIs
      <4> QED  BY <3>3, <4>1
    <3>5. Paid(Main)' = Paid(Main) + Planned(u, Main) /\ Paid(Main) \in Int
          /\ Planned(u, Main) \in Nat
      BY <1>17, <1>20
    <3>6. Paid(Main)' >= 0 /\ Paid(Main)' \in Int
      BY <3>4, <3>5
    <3>7. Covered(Main)' <=> Paid(Main)' + booked' >= shop.price[Main]
      BY <1>20, <2>1
    <3> QED  BY <1>20, <3>1, <3>6, <3>7
  <2>3. \A s \in Sales : Covered(s) => Covered(s)'
    <3> SUFFICES ASSUME NEW s \in Sales, Covered(s) PROVE Covered(s)'
      OBVIOUS
    <3>1. CASE u.of = "complete" /\ u.marked /\ s = Main
      BY <2>2, <3>1
    <3>2. CASE ~(u.of = "complete" /\ u.marked /\ s = Main)
      <4>1. s = Main => booked' = booked
        BY <1>3, <3>2
      <4>2. Paid(s) + (IF s = Main THEN booked ELSE 0) >= shop.price[s]
        BY DEF Covered
      <4>3. Paid(s)' + (IF s = Main THEN booked' ELSE 0) >= shop.price[s]
        BY <1>17, <2>0, <4>1, <4>2
      <4> QED  BY <2>1, <4>3
    <3> QED  BY <3>1, <3>2
  <2>4. \A s \in Sales \ lowered : u.sum[s] >= shop.price[s] => Covered(s)'
    <3> SUFFICES ASSUME NEW s \in Sales \ lowered, u.sum[s] >= shop.price[s] PROVE Covered(s)'
      OBVIOUS
    <3>1. u.sum[s] <= Paid(s) + Planned(u, s)
      BY <1>1, <1>4 DEF Informs, Fresh
    <3>2. u.sum[s] \in Int
      BY <1>5
    <3> QED  BY <1>17, <2>0, <2>1, <3>1, <3>2
  <2>5. ASSUME NEW s \in Sales \ lowered, shown'[s] = "paid" PROVE Covered(s)'
    <3>1. CASE s \in touched
      <4>1. Settled(s, u.sum[s]) = "paid" /\ u.sum[s] \in Int
        BY <1>5, <1>7, <2>5, <3>1
      <4>2. u.sum[s] >= shop.price[s]
        BY <1>4, <4>1, SettledIs
      <4> QED  BY <2>4, <4>2
    <3>2. CASE s \notin touched /\ shown'[s] = shown[s]
      BY <1>4, <2>3, <2>5, <3>2 DEF Shows
    <3>3. CASE s = Main /\ s \in Made(u.of) /\ u.marked
      <4>1. u.of = "complete"
        BY <3>3 DEF Made, Main, Shelf
      <4> QED  BY <2>2, <3>3, <4>1
    <3> QED  BY <1>7, <3>1, <3>2, <3>3
  <2>6. ASSUME orderPaid', progress' = "completed", shop.price[Offcut] = 0
        PROVE  Covered(Main)' \/ Main \in lowered
    <3>1. CASE orderPaid /\ u.of = "complete"
      <4>1. u.marked = orderPaid
        BY <1>4, <1>5, <3>1 DEF Informs, Fresh
      <4> QED  BY <2>2, <3>1, <4>1
    <3>2. CASE orderPaid /\ u.of # "complete"
      <4>1. progress = "completed"
        BY <1>6, <2>6, <3>2
      <4> QED  BY <1>4, <1>20, <2>3, <2>6, <3>2, <4>1 DEF Shows
    <3>3. CASE \E s \in touched \cap Linked : u.sum[s] >= shop.price[s]
      <4>1. PICK s \in touched \cap Linked : u.sum[s] >= shop.price[s]
        BY <3>3
      <4>2. s \in Sales /\ shop.price[s] > 0
        BY <1>18
      <4>3. s = Main
        BY <2>6, <4>2 DEF Linked
      <4> QED  BY <2>4, <4>1, <4>2, <4>3
    <3> QED  BY <1>1, <2>6, <3>1, <3>2, <3>3
  <2> QED  BY <2>5, <2>6
<1> QED  BY <1>8, <1>21, <1>22, <1>23, <1>24, <1>25, <1>26 DEF ReceiptsInv

LEMMA ReceiptsStart == ReceiptsInit => ReceiptsInv
<1> SUFFICES ASSUME ReceiptsInit PROVE ReceiptsInv
  OBVIOUS
<1>1. /\ shop \in Shops /\ progress = "pending" /\ orderPaid = FALSE /\ booked = 0
      /\ shown = [s \in Sales |-> "unpaid"] /\ taken = [s \in Sales |-> 0]
      /\ amount = [r \in Receipts |-> 0] /\ reversed = {}
      /\ alloc = [r \in Receipts |-> [s \in Sales |-> 0]] /\ undone = {}
      /\ disturbed = FALSE /\ lowered = {}
      /\ work = [p \in Requests |-> Idle]
  BY DEF ReceiptsInit
<1>2. ReceiptsTypeOK
  <2>1. booked \in 0 .. MaxAmount /\ amount \in [Receipts -> 0 .. MaxAmount] /\ alloc \in Plans
    BY <1>1, ReceiptsAre DEF Plans
  <2>2. work \in [Requests -> Works]
    BY <1>1, IdleInforms
  <2>3. shown \in [Sales -> Shown] /\ taken \in [Sales -> Int]
    BY <1>1 DEF Shown
  <2>4. shop \in Shops /\ progress \in {"pending", "accepted", "completed"} /\ orderPaid \in BOOLEAN
    BY <1>1
  <2>5. /\ reversed \subseteq Receipts /\ undone \subseteq Receipts \X Sales
        /\ disturbed \in BOOLEAN /\ lowered \subseteq Sales
    BY <1>1
  <2> QED  BY <2>1, <2>2, <2>3, <2>4, <2>5 DEF ReceiptsTypeOK
<1>3. \A p \in Requests : work[p].at = "idle"
  BY <1>1, IdleInforms
<1>4. Informed
  BY <1>1, IdleInforms DEF Informed
<1>5. Apart
  BY <1>3 DEF Apart, Holding, At
<1>6. Sold = {}
  BY <1>1 DEF Sold
<1>7. Spending
  <2>1. \A r \in Receipts : Left(r, amount[r]) >= 0
    <3> SUFFICES ASSUME NEW r \in Receipts PROVE Left(r, amount[r]) >= 0
      OBVIOUS
    <3>1. amount[r] = 0
      BY <1>1
    <3>2. alloc[r][1] = 0 /\ alloc[r][2] = 0 /\ alloc[r][3] = 0
      BY <1>1, ReceiptsAre
    <3>3. Left(r, 0) = 0 - (alloc[r][1] + alloc[r][2] + alloc[r][3])
      BY <1>2, LeftIs
    <3> QED  BY <3>1, <3>2, <3>3
  <2>2. \A s \in Sales : taken[s] = 0 /\ Paid(s) <= shop.price[s]
    <3> SUFFICES ASSUME NEW s \in Sales PROVE taken[s] = 0 /\ Paid(s) <= shop.price[s]
      OBVIOUS
    <3>1. taken[s] = 0
      BY <1>1
    <3>2. MaxReceipts \in Nat /\ Receipts = 1 .. MaxReceipts
      BY ReceiptsAre
    <3>3. \A r \in 1 .. MaxReceipts : Counts(s)[r] = 0
      BY <1>1, <3>2 DEF Counts
    <3>4. Sum(Counts(s), Receipts) = 0
      BY <3>2, <3>3, SumOfZeros
    <3>5. Paid(s) = 0 /\ shop.price[s] \in Nat
      BY <1>2, <3>1, <3>4, PaidIs, ShopIs
    <3> QED  BY <3>1, <3>5
  <2> QED  BY <1>1, <2>1, <2>2 DEF Spending
<1>8. Reached
  BY <1>6 DEF Reached
<1>9. Unmarked
  BY <1>1 DEF Unmarked
<1>10. Shows
  BY <1>1 DEF Shows
<1> QED  BY <1>2, <1>4, <1>5, <1>7, <1>8, <1>9, <1>10 DEF ReceiptsInv

LEMMA ReceiptsStill ==
    ASSUME ReceiptsInv, UNCHANGED web
    PROVE  ReceiptsInv'
<1>1. UNCHANGED <<shop, booked, shown, taken, money, work>> /\ progress' = progress
      /\ orderPaid' = orderPaid /\ UNCHANGED <<shop, trade, money>>
  BY DEF web, trade
<1>2. UNCHANGED <<shop, progress, booked, shown, taken, amount, reversed, alloc, undone, disturbed, lowered, work>>
  BY <1>1 DEF money
<1>3. ReceiptsTypeOK'
  <2>1. orderPaid' \in BOOLEAN /\ disturbed' \in BOOLEAN
    BY <1>1, <1>2, Zenon DEF ReceiptsInv, ReceiptsTypeOK
  <2> QED  BY <1>2, <2>1 DEF ReceiptsInv, ReceiptsTypeOK
<1>4. Informed'
  <2> SUFFICES ASSUME NEW p \in Requests, NEW v \in Works, v = work'[p] PROVE Informs(v)'
    BY DEF Informed
  <2>1. Informs(v)
    BY <1>2 DEF ReceiptsInv, Informed
  <2> QED  BY <1>1, <2>1, InformedStays
<1>5. Apart'
  <2>1. Apart
    BY DEF ReceiptsInv
  <2> QED  BY <1>2, <2>1 DEF Apart, At, Holding
<1>6. Standing' = Standing /\ Sold' = Sold /\ \A s : Paid(s)' = Paid(s)
  BY <1>2 DEF Standing, Sold, Paid
<1>7. \A r : Left(r, amount[r])' = Left(r, amount[r])
  BY <1>2 DEF Left
<1>8. Spending'
  <2>1. Spending
    BY DEF ReceiptsInv
  <2> QED  BY <1>2, <1>6, <1>7, <2>1 DEF Spending
<1>9. Unmarked'
  <2>1. Unmarked
    BY DEF ReceiptsInv
  <2> QED  BY <1>1, <1>2, <2>1 DEF Unmarked
<1>10. Reached'
  <2>1. Reached
    BY DEF ReceiptsInv
  <2> QED  BY <1>2, <1>6, <1>7, <2>1 DEF Reached
<1>11. Shows'
  <2>1. Shows
    BY DEF ReceiptsInv
  <2>2. \A s : Covered(s)' = Covered(s)
    BY <1>2, <1>6 DEF Covered
  <2> QED  BY <1>1, <1>2, <2>1, <2>2 DEF Shows
<1> QED  BY <1>3, <1>4, <1>5, <1>8, <1>9, <1>10, <1>11 DEF ReceiptsInv

LEMMA ReceiptsStep ==
    ASSUME ReceiptsInv, ReceiptsNext
    PROVE  ReceiptsInv'
<1>1. ASSUME NEW q \in Requests, AcceptPreorder(q) PROVE ReceiptsInv'
  BY <1>1, AcceptPreorderKeeps
<1>2. ASSUME NEW q \in Requests, BeginAccept(q) PROVE ReceiptsInv'
  BY <1>2, BeginAcceptKeeps
<1>3. ASSUME NEW q \in Requests, BeginComplete(q) PROVE ReceiptsInv'
  BY <1>3, BeginCompleteKeeps
<1>4. ASSUME NEW q \in Requests, NEW r \in Receipts, NEW n \in Amounts, BeginRecord(q, r, n)
      PROVE  ReceiptsInv'
  BY <1>4, BeginRecordKeeps
<1>5. ASSUME NEW q \in Requests, Allocate(q) PROVE ReceiptsInv'
  BY <1>5, AllocateKeeps
<1>6. ASSUME NEW q \in Requests, AllocationRefused(q) PROVE ReceiptsInv'
  BY <1>6, AllocationRefusedKeeps
<1>7. ASSUME NEW q \in Requests, CommitDistribution(q) PROVE ReceiptsInv'
  BY <1>7, CommitDistributionKeeps
<1>8. ASSUME NEW q \in Requests, NEW r \in Receipts, BeginReverse(q, r) PROVE ReceiptsInv'
  BY <1>8, BeginReverseKeeps
<1>9. ASSUME NEW q \in Requests, CommitReverse(q) PROVE ReceiptsInv'
  BY <1>9, CommitReverseKeeps
<1>10. ASSUME NEW q \in Requests, NEW s \in Sales, NEW n \in Signed, CheckPayment(q, s, n)
       PROVE  ReceiptsInv'
  BY <1>10, CheckPaymentKeeps
<1>11. ASSUME NEW q \in Requests, AddUp(q) PROVE ReceiptsInv'
  BY <1>11, AddUpKeeps
<1>12. ASSUME NEW q \in Requests, CommitPayment(q) PROVE ReceiptsInv'
  BY <1>12, WebPaymentKeeps
<1>13. ASSUME NEW fully \in BOOLEAN, MarkOrder(fully) PROVE ReceiptsInv'
  BY <1>13, MarkOrderKeeps
<1> QED  BY <1>1, <1>2, <1>3, <1>4, <1>5, <1>6, <1>7, <1>8, <1>9, <1>10, <1>11, <1>12, <1>13
         DEF ReceiptsNext

LEMMA ReceiptsAlways == Spec => []ReceiptsInv
<1>1. Init => ReceiptsInv
  BY ReceiptsStart DEF Init
<1>2. ReceiptsInv /\ [Next]_vars => ReceiptsInv'
  <2>1. ASSUME ReceiptsInv, ReceiptsNext PROVE ReceiptsInv'
    BY <2>1, ReceiptsStep
  <2>2. ASSUME ReceiptsInv, UNCHANGED web PROVE ReceiptsInv'
    BY <2>2, ReceiptsStill
  <2>3. ASSUME ReceiptsInv, UNCHANGED vars PROVE ReceiptsInv'
    <3>1. UNCHANGED web
      BY <2>3 DEF vars
    <3> QED  BY <2>3, <3>1, ReceiptsStill
  <2> QED  BY <2>1, <2>2, <2>3 DEF Next
<1> QED  BY <1>1, <1>2, PTL DEF Spec

(***************************************************************************)
(* However acceptances, completions, receipts and reversals overlap, no    *)
(* receipt pays more than its amount and, where Finance takes no payments, *)
(* no sale is paid more than its total: sync_intake_payment_allocations    *)
(* distributes under the lock of the intake.                               *)
(***************************************************************************)
THEOREM ReceiptsNeverOverspent == Spec => []ReceiptsNotOverspent
<1>1. ReceiptsInv => ReceiptsNotOverspent
  BY DEF ReceiptsInv, Spending, ReceiptsNotOverspent
<1> QED  BY <1>1, ReceiptsAlways, PTL

(***************************************************************************)
(* Once the requests are done no receipt has money left while a sale of    *)
(* the order is due, in whatever order the receipts, the acceptance and    *)
(* the completion came, until a receipt is reversed or a payment is taken  *)
(* back; except sales that Finance took a payment back of when they were   *)
(* covered, or while another request went by their payments.               *)
(***************************************************************************)
THEOREM MoneyAlwaysReachesSales == Spec => []MoneyReachesSales
<1>1. ReceiptsInv => MoneyReachesSales
  <2> SUFFICES ASSUME ReceiptsInv, ~shop.crossing, ~disturbed, NEW r \in Standing,
                      NEW s \in Sold \ lowered
               PROVE  Left(r, amount[r]) = 0 \/ Due(s) = 0
    BY DEF MoneyReachesSales
  <2>1. Left(r, amount[r]) = 0 \/ Paid(s) >= shop.price[s]
    BY DEF ReceiptsInv, Reached
  <2>2. s \in Sales /\ ReceiptsTypeOK
    BY DEF Sold, ReceiptsInv
  <2>3. Paid(s) \in Int /\ shop.price[s] \in Nat
    BY <2>2, PaidIs, ShopIs
  <2> QED  BY <2>1, <2>3 DEF Due, Greatest
<1> QED  BY <1>1, ReceiptsAlways, PTL

(***************************************************************************)
(* What is shown as paid is backed by money: documents that Finance        *)
(* settles, and the sales and the order that receipts pay, except sales    *)
(* that Finance took a payment back of when they were covered, or while    *)
(* another request went by their payments.                                 *)
(***************************************************************************)
THEOREM WhatIsPaidIsBacked == Spec => []PaidIsBacked
<1>1. LedgerInv /\ ReceiptsInv => PaidIsBacked
  <2>1. ReceiptsInv => ShownPaidIsBacked
    BY DEF ReceiptsInv, Shows, Unmarked, ShownPaidIsBacked
  <2> QED  BY <2>1, LedgerCovers DEF PaidIsBacked
<1> QED  BY <1>1, LedgerAlways, ReceiptsAlways, PTL

\* The documents, their payments and requests, and the receipts of web orders
\* have their types.
THEOREM BooksTypeCorrect == Spec => []TypeOK
<1>1. LedgerInv /\ ReceiptsInv => TypeOK
  BY DEF LedgerInv, ReceiptsInv, TypeOK
<1> QED  BY <1>1, LedgerAlways, ReceiptsAlways, PTL
=============================================================================
