----------------------- MODULE ProductionOrders_proofs -----------------------
(***************************************************************************)
(* Theorems about ProductionOrders, for any orders, staff, duties, forms,  *)
(* batch numbers and yields: income follows sales, an approved order has   *)
(* its material, a stock below zero was forced, a unit is reconciled once, *)
(* and a reversed order has left nothing behind.                           *)
(***************************************************************************)
EXTENDS ProductionOrders, FiniteSetTheorems, WellFoundedInduction, TLAPS

Books == income \in [Orders -> Nat] /\ sales \in [Orders -> [paid : Nat, due : Nat]]

\* The invariant of the books: typed, and income counts the paid sales.
BooksInv == Books /\ IncomeFollowsSales

LEMMA BooksStutter ==
    ASSUME BooksInv, UNCHANGED books
    PROVE  BooksInv'
  BY DEF BooksInv, Books, IncomeFollowsSales, books

\* A sale and its entry of income are added together.
LEMMA SaleKeepsBooks ==
    ASSUME BooksInv, NEW o, NEW received \in Nat, NEW owed \in Nat,
           sales' = [sales EXCEPT
              ![o] = [paid |-> @.paid + received, due |-> @.due + owed]],
           income' = [income EXCEPT ![o] = @ + received]
    PROVE  BooksInv'
  <1> USE DEF BooksInv, Books, IncomeFollowsSales
  <1>1. income' \in [Orders -> Nat]
    <2>1. ASSUME NEW p \in Orders
          PROVE  income'[p] \in Nat
      <3>1. CASE p = o
        BY <3>1
      <3>2. CASE p # o
        BY <3>2
      <3> QED  BY <3>1, <3>2
    <2>2. DOMAIN income' = Orders /\ income' = [p \in DOMAIN income' |-> income'[p]]
      OBVIOUS
    <2> QED  BY <2>1, <2>2
  <1>2. ASSUME NEW p \in Orders
        PROVE  sales'[p] \in [paid : Nat, due : Nat]
    <2>1. sales[p] \in [paid : Nat, due : Nat]
      OBVIOUS
    <2>2. CASE p = o
      BY <2>1, <2>2
    <2>3. CASE p # o
      BY <2>1, <2>3
    <2> QED  BY <2>2, <2>3
  <1>3. sales' \in [Orders -> [paid : Nat, due : Nat]]
    BY <1>2
  <1>4. ASSUME NEW p \in Orders
        PROVE  income'[p] = sales'[p].paid
    OBVIOUS
  <1> QED  BY <1>1, <1>3, <1>4

LEMMA CompleteKeepsBooks ==
    ASSUME BooksInv, NEW s, NEW number, NEW saleable, NEW a,
           OrderComplete(s, number, saleable, a)
    PROVE  BooksInv'
  <1> DEFINE o == Its(s)
             d == doing[s].seen[o]
             received == IF d.kind = "customer" /\ d.paid THEN 1 ELSE 0
             owed == (IF d.kind = "customer" /\ ~d.paid THEN 1 ELSE 0)
                       + (IF a.given > 0 THEN 1 ELSE 0)
  <1>1. /\ sales' = [sales EXCEPT
              ![o] = [paid |-> @.paid + received, due |-> @.due + owed]]
        /\ income' = [income EXCEPT ![o] = @ + received]
    BY DEF OrderComplete
  <1>2. received \in Nat /\ owed \in Nat
    OBVIOUS
  <1> HIDE DEF o, received, owed
  <1> QED  BY <1>1, <1>2, SaleKeepsBooks

LEMMA ReverseKeepsBooks ==
    ASSUME BooksInv, NEW s, OrderReverse(s)
    PROVE  BooksInv'
  <1> DEFINE o == Its(s)
  <1>1. /\ sales' = [sales EXCEPT ![o] = [paid |-> 0, due |-> 0]]
        /\ income' = [income EXCEPT ![o] = 0]
    BY DEF OrderReverse, ReverseIncome
  <1> HIDE DEF o
  <1> QED  BY <1>1 DEF BooksInv, Books, IncomeFollowsSales

LEMMA BooksStep == BooksInv /\ [Next]_vars => BooksInv'
  <1> SUFFICES ASSUME BooksInv, [Next]_vars
               PROVE  BooksInv'
    OBVIOUS
  <1>1. ASSUME NEW o, NEW d, NEW inRun, CreateOrder(o, d, inRun)
        PROVE  BooksInv'
    BY <1>1, BooksStutter DEF CreateOrder
  <1>2. ASSUME NEW o, NEW copy, OrderRecreate(o, copy)
        PROVE  BooksInv'
    BY <1>2, BooksStutter DEF OrderRecreate
  <1>3. ASSUME NEW s, OrderStep(s)
        PROVE  BooksInv'
    <2>1. ASSUME NEW op, NEW o, NEW forced, BeginOnOrder(s, op, o, forced)
          PROVE  BooksInv'
      BY <2>1, BooksStutter DEF BeginOnOrder, Begin
    <2>2. ASSUME NEW d, NEW replaced, OrderEdit(s, d, replaced)
          PROVE  BooksInv'
      BY <2>2, BooksStutter DEF OrderEdit
    <2>3. CASE OrderReject(s)
      BY <2>3, BooksStutter DEF OrderReject
    <2>4. CASE OrderApprove(s)
      BY <2>4, BooksStutter DEF OrderApprove
    <2>5. ASSUME NEW number, NEW saleable, NEW a,
                 OrderComplete(s, number, saleable, a)
          PROVE  BooksInv'
      BY <2>5, CompleteKeepsBooks
    <2>6. CASE OrderReverse(s)
      BY <2>6, ReverseKeepsBooks
    <2>7. CASE OrderDelete(s)
      BY <2>7, BooksStutter DEF OrderDelete
    <2> QED  BY <1>3, <2>1, <2>2, <2>3, <2>4, <2>5, <2>6, <2>7 DEF OrderStep
  <1>4. ASSUME NEW s, RunStep(s)
        PROVE  BooksInv'
    BY <1>4, BooksStutter
       DEF RunStep, BeginLink, RunForm, BeginRunApproval, RunApprove,
           BeginRunDelete, RunDelete, Begin
  <1>5. ASSUME NEW s, BatchStep(s)
        PROVE  BooksInv'
    BY <1>5, BooksStutter DEF BatchStep, BeginReconcile, BatchReconcile
  <1>6. ASSUME NEW s, GiveUp(s)
        PROVE  BooksInv'
    BY <1>6, BooksStutter DEF GiveUp
  <1>7. ASSUME Deliver \/ SellFromShelf \/ \E id \in Batches : SellFromLot(id)
        PROVE  BooksInv'
    BY <1>7, BooksStutter DEF Deliver, SellFromShelf, SellFromLot
  <1>8. CASE UNCHANGED vars
    BY <1>8, BooksStutter DEF vars
  <1> QED  BY <1>1, <1>2, <1>3, <1>4, <1>5, <1>6, <1>7, <1>8 DEF Next

(***************************************************************************)
(* For every set of orders, members of staff and batch numbers, the live   *)
(* income entries of an order are as many as its live paid sales.          *)
(***************************************************************************)
THEOREM IncomeTheorem == Spec => []IncomeFollowsSales
  <1>1. Init => BooksInv
    BY DEF Init, BooksInv, Books, IncomeFollowsSales
  <1>2. BooksInv => IncomeFollowsSales
    BY DEF BooksInv
  <1> QED  BY <1>1, <1>2, BooksStep, PTL DEF Spec

-----------------------------------------------------------------------------
(* Material *)

RowsTyped ==
    /\ status \in [Orders -> Statuses]
    /\ details \in [Orders -> Details]
    /\ usage \in [Orders -> Nat]
    /\ stock \in Int
    /\ members \subseteq Orders

\* What a request on orders has read: orders, their forms, and, unless it is
\* forced, a stock that covers them.
Sound(r) ==
    /\ r.op \in {"edit", "reject", "delete", "approve", "complete", "reverse"} =>
          r.orders # {}
    /\ r.op \in Operations =>
          r.orders \subseteq Orders /\ r.seen \in [r.orders -> Details]
    /\ r.op \in {"approve", "approveRun"} =>
          /\ r.stock \in Int
          /\ r.forced \/ ~(Left(r.stock, r.orders, r.seen) < 0)

DoingSound == doing = [s \in Staff |-> doing[s]] /\ \A s \in Staff : Sound(doing[s])

MaterialInv ==
    /\ RowsTyped
    /\ DoingSound
    /\ ApprovedHasMaterial

LEMMA NeededType ==
    ASSUME NEW os \in SUBSET Orders, NEW of
    PROVE  Needed(os, of) \in Nat
  <1>1. IsFiniteSet(os) /\ IsFiniteSet(1 .. MaxUnits)
    BY FS_Subset, FS_Interval, ProductionAssumption
  <1>2. IsFiniteSet(os \X (1 .. MaxUnits))
    BY <1>1, FS_Product
  <1>3. IsFiniteSet({unit \in os \X (1 .. MaxUnits) : unit[2] <= of[unit[1]].planned})
    BY <1>2, FS_Subset
  <1> QED  BY <1>3, FS_CardinalityType DEF Needed

\* What a request wrote down of the orders it read is enough to say what it needs.
LEMMA NeededAsRead ==
    ASSUME NEW os, NEW of
    PROVE  Needed(os, [o \in os |-> of[o]]) = Needed(os, of)
  <1> DEFINE g == [o \in os |-> of[o]]
  <1>1. \A unit \in os \X (1 .. MaxUnits) : g[unit[1]] = of[unit[1]]
    OBVIOUS
  <1>2. {unit \in os \X (1 .. MaxUnits) : unit[2] <= g[unit[1]].planned}
          = {unit \in os \X (1 .. MaxUnits) : unit[2] <= of[unit[1]].planned}
    BY <1>1
  <1> QED  BY <1>2 DEF Needed

LEMMA ItsChosen ==
    ASSUME NEW s, doing[s].orders # {}
    PROVE  Its(s) \in doing[s].orders
  BY DEF Its

LEMMA SoundIdle == Sound(Idle)
  BY DEF Sound, Idle, Operations

LEMMA DoneIsSound ==
    ASSUME DoingSound, NEW s \in Staff, Done(s)
    PROVE  DoingSound'
  BY SoundIdle DEF DoingSound, Done

LEMMA BeginIsSound ==
    ASSUME DoingSound, RowsTyped, NEW s \in Staff, NEW op \in Operations,
           NEW os \in SUBSET Orders, NEW forced,
           op \notin {"link", "approveRun", "deleteRun"} => os # {},
           op \in {"approve", "approveRun"} => Enough(os, forced),
           Begin(s, op, os, forced)
    PROVE  DoingSound'
  <1> DEFINE r == [op |-> op, orders |-> os, seen |-> [o \in os |-> details[o]],
                   stock |-> IF op \in {"approve", "approveRun"} THEN stock ELSE 0,
                   forced |-> forced,
                   inRun |-> op = "complete" /\ os \subseteq members
                             /\ run \in {"approved", "completed"},
                   reversed |-> op = "delete" /\ \A o \in os : status[o] = "reversed"]
  <1>1. doing' = [doing EXCEPT ![s] = r]
    BY DEF Begin
  <1>2. /\ r.op = op
        /\ r.orders = os
        /\ r.seen = [o \in os |-> details[o]]
        /\ r.stock = IF op \in {"approve", "approveRun"} THEN stock ELSE 0
        /\ r.forced = forced
    OBVIOUS
  <1> HIDE DEF r
  <1>3. r.seen \in [r.orders -> Details]
    BY <1>2 DEF RowsTyped
  <1>4. ASSUME op \in {"approve", "approveRun"}
        PROVE  r.stock \in Int /\ (r.forced \/ ~(Left(r.stock, r.orders, r.seen) < 0))
    <2>1. r.stock = stock /\ Needed(r.orders, r.seen) = Needed(os, details)
      BY <1>2, <1>4, NeededAsRead
    <2>2. Left(r.stock, r.orders, r.seen) = Left(stock, os, details)
      BY <1>2, <2>1 DEF Left
    <2> QED  BY <1>2, <1>4, <2>1, <2>2 DEF Enough, RowsTyped
  <1>5. Sound(r)
    BY <1>2, <1>3, <1>4 DEF Sound, Operations
  <1> QED  BY <1>1, <1>5 DEF DoingSound

LEMMA RowsKept ==
    ASSUME RowsTyped, ApprovedHasMaterial, DoingSound',
           UNCHANGED <<status, details, usage, stock>>, members' \subseteq Orders
    PROVE  MaterialInv'
  BY DEF MaterialInv, RowsTyped, ApprovedHasMaterial

\* Every step but an approval leaves an order out of "approved" or as it was.
LEMMA RowWritten ==
    ASSUME RowsTyped, ApprovedHasMaterial, DoingSound', NEW o,
           NEW st \in Statuses \ {"approved"},
           status' = [status EXCEPT ![o] = st],
           details' \in [Orders -> Details],
           usage' \in [Orders -> Nat],
           \A other \in Orders : other # o => usage'[other] = usage[other],
           stock' \in Int, members' \subseteq Orders
    PROVE  MaterialInv'
  <1>1. status' \in [Orders -> Statuses]
    BY DEF RowsTyped
  <1>2. ASSUME NEW other \in Orders, status'[other] = "approved"
        PROVE  usage'[other] > 0
    BY <1>2 DEF RowsTyped, ApprovedHasMaterial
  <1> QED  BY <1>1, <1>2 DEF MaterialInv, RowsTyped, ApprovedHasMaterial

LEMMA BeginKeepsRows ==
    ASSUME MaterialInv, NEW s \in Staff, NEW op \in Operations,
           NEW os \in SUBSET Orders, NEW forced,
           op \notin {"link", "approveRun", "deleteRun"} => os # {},
           op \in {"approve", "approveRun"} => Enough(os, forced),
           Begin(s, op, os, forced)
    PROVE  MaterialInv'
  <1>1. DoingSound'
    BY BeginIsSound DEF MaterialInv
  <1> QED  BY <1>1, RowsKept DEF MaterialInv, RowsTyped, Begin, shared

\* An approval: every order of the request is given its material.
LEMMA ApprovalKeepsRows ==
    ASSUME MaterialInv, NEW s \in Staff, doing[s].op \in {"approve", "approveRun"},
           ReleaseUsage(s), Consume(s), Done(s),
           status' \in [Orders -> Statuses], details' \in [Orders -> Details],
           members' = members,
           \A o \in Orders :
              status'[o] = status[o] \/ (status'[o] = "approved" /\ o \in doing[s].orders)
    PROVE  MaterialInv'
  <1>1. /\ doing[s].orders \in SUBSET Orders
        /\ doing[s].seen \in [doing[s].orders -> Details]
        /\ doing[s].stock \in Int
    BY DEF MaterialInv, DoingSound, Sound, Operations
  <1>2. DoingSound'
    BY DoneIsSound DEF MaterialInv
  <1>3. stock' \in Int
    <2>1. Needed(doing[s].orders, doing[s].seen) \in Nat
      BY <1>1, NeededType
    <2> QED  BY <1>1, <2>1 DEF Consume, Left
  <1>4. \A o \in doing[s].orders : doing[s].seen[o].planned \in Nat \ {0}
    BY <1>1 DEF Details
  <1>5. /\ usage' \in [Orders -> Nat]
        /\ \A o \in doing[s].orders : usage'[o] > 0
        /\ \A o \in Orders : o \notin doing[s].orders => usage'[o] = usage[o]
    BY <1>1, <1>4 DEF ReleaseUsage, MaterialInv, RowsTyped
  <1>6. ASSUME NEW o \in Orders, status'[o] = "approved"
        PROVE  usage'[o] > 0
    <2>1. CASE o \in doing[s].orders
      BY <1>5, <2>1
    <2>2. CASE o \notin doing[s].orders
      BY <1>5, <1>6, <2>2 DEF MaterialInv, ApprovedHasMaterial
    <2> QED  BY <2>1, <2>2
  <1> QED  BY <1>2, <1>3, <1>5, <1>6 DEF MaterialInv, RowsTyped, ApprovedHasMaterial

LEMMA OrderStepKeepsMaterial ==
    ASSUME MaterialInv, NEW s \in Staff, OrderStep(s)
    PROVE  MaterialInv'
  <1> USE DEF MaterialInv
  <1>1. ASSUME NEW op \in {"edit", "reject", "approve", "complete", "reverse", "delete"},
               NEW o \in Orders, NEW forced, BeginOnOrder(s, op, o, forced)
        PROVE  MaterialInv'
    <2>1. op \in Operations /\ {o} \in SUBSET Orders
      BY DEF Operations
    <2>2. op \in {"approve", "approveRun"} => Enough({o}, forced)
      BY <1>1 DEF BeginOnOrder
    <2>3. Begin(s, op, {o}, forced)
      BY <1>1 DEF BeginOnOrder
    <2> QED  BY <2>1, <2>2, <2>3, BeginKeepsRows
  <1>2. ASSUME NEW d \in Forms, NEW replaced, OrderEdit(s, d, replaced)
        PROVE  MaterialInv'
    <2>1. DoingSound'
      BY <1>2, DoneIsSound DEF OrderEdit
    <2>2. d \in Details
      BY ProductionAssumption
    <2>3. /\ status' = [status EXCEPT ![Its(s)] = "pending"]
          /\ details' = [details EXCEPT ![Its(s)] = d]
          /\ usage' = IF replaced THEN [usage EXCEPT ![Its(s)] = 0] ELSE usage
          /\ UNCHANGED <<stock, members>>
      BY <1>2 DEF OrderEdit, shared
    <2>4. /\ details' \in [Orders -> Details]
          /\ usage' \in [Orders -> Nat]
          /\ \A other \in Orders : other # Its(s) => usage'[other] = usage[other]
      BY <2>2, <2>3 DEF RowsTyped
    <2> QED  BY <2>1, <2>3, <2>4, RowWritten DEF RowsTyped, Statuses
  <1>3. CASE OrderReject(s)
    <2>1. DoingSound'
      BY <1>3, DoneIsSound DEF OrderReject
    <2>2. Its(s) \in doing[s].orders /\ doing[s].seen \in [doing[s].orders -> Details]
      BY <1>3, ItsChosen DEF OrderReject, At, DoingSound, Sound, Operations
    <2>3. /\ status' = [status EXCEPT ![Its(s)] = "rejected"]
          /\ details' = [details EXCEPT ![Its(s)] = doing[s].seen[Its(s)]]
          /\ UNCHANGED <<usage, stock, members>>
      BY <1>3 DEF OrderReject, shared
    <2>4. details' \in [Orders -> Details]
      BY <2>2, <2>3 DEF RowsTyped
    <2> QED  BY <2>1, <2>3, <2>4, RowWritten DEF RowsTyped, Statuses
  <1>4. CASE OrderApprove(s)
    <2>1. Its(s) \in doing[s].orders /\ doing[s].seen \in [doing[s].orders -> Details]
      BY <1>4, ItsChosen DEF OrderApprove, At, DoingSound, Sound, Operations
    <2>2. /\ doing[s].op = "approve"
          /\ ReleaseUsage(s) /\ Consume(s) /\ Done(s)
          /\ status' = [status EXCEPT ![Its(s)] = "approved"]
          /\ details' = [details EXCEPT ![Its(s)] = doing[s].seen[Its(s)]]
          /\ members' = members
      BY <1>4 DEF OrderApprove, At, shared
    <2>3. status' \in [Orders -> Statuses] /\ details' \in [Orders -> Details]
      BY <2>1, <2>2 DEF RowsTyped, Statuses
    <2>4. \A o \in Orders :
             status'[o] = status[o] \/ (status'[o] = "approved" /\ o \in doing[s].orders)
      BY <2>1, <2>2 DEF RowsTyped
    <2> QED  BY <2>2, <2>3, <2>4, ApprovalKeepsRows
  <1>5. ASSUME NEW number, NEW saleable, NEW a, OrderComplete(s, number, saleable, a)
        PROVE  MaterialInv'
    <2>1. DoingSound'
      BY <1>5, DoneIsSound DEF OrderComplete
    <2>2. /\ status' = [status EXCEPT ![Its(s)] = "completed"]
          /\ UNCHANGED <<details, usage, stock, members>>
      BY <1>5 DEF OrderComplete
    <2> QED  BY <2>1, <2>2, RowWritten DEF RowsTyped, Statuses
  <1>6. CASE OrderReverse(s)
    <2>1. DoingSound'
      BY <1>6, DoneIsSound DEF OrderReverse
    <2>2. /\ status[Its(s)] = "completed"
          /\ stock' = stock + usage[Its(s)]
          /\ status' = [status EXCEPT ![Its(s)] = "reversed"]
          /\ UNCHANGED <<details, usage, members>>
      BY <1>6 DEF OrderReverse
    <2>3. Its(s) \in Orders
      BY <1>6, ItsChosen DEF OrderReverse, At, DoingSound, Sound, Operations
    <2>4. stock' \in Int
      BY <2>2, <2>3 DEF RowsTyped
    <2> QED  BY <2>1, <2>2, <2>4, RowWritten DEF RowsTyped, Statuses
  <1>7. CASE OrderDelete(s)
    <2>1. DoingSound'
      BY <1>7, DoneIsSound DEF OrderDelete
    <2>2. /\ status' = [status EXCEPT ![Its(s)] = "deleted"]
          /\ usage' = [usage EXCEPT ![Its(s)] = 0]
          /\ members' = members \ {Its(s)}
          /\ UNCHANGED <<details, stock>>
      BY <1>7 DEF OrderDelete
    <2>3. /\ usage' \in [Orders -> Nat]
          /\ \A other \in Orders : other # Its(s) => usage'[other] = usage[other]
      BY <2>2 DEF RowsTyped
    <2> QED  BY <2>1, <2>2, <2>3, RowWritten DEF RowsTyped, Statuses
  <1> HIDE DEF MaterialInv
  <1> QED  BY <1>1, <1>2, <1>3, <1>4, <1>5, <1>6, <1>7 DEF OrderStep

LEMMA RunStepKeepsMaterial ==
    ASSUME MaterialInv, NEW s \in Staff, RunStep(s)
    PROVE  MaterialInv'
  <1> USE DEF MaterialInv
  <1>1. ASSUME NEW os \in Groups, BeginLink(s, os)
        PROVE  MaterialInv'
    <2>1. os \in SUBSET Orders /\ "link" \in Operations
      BY ProductionAssumption DEF Operations
    <2> QED  BY <1>1, <2>1, BeginKeepsRows DEF BeginLink
  <1>2. CASE RunForm(s)
    <2>1. DoingSound'
      BY <1>2, DoneIsSound DEF RunForm
    <2>2. members' \subseteq Orders
      BY <1>2 DEF RunForm, At, DoingSound, Sound, Operations
    <2> QED  BY <1>2, <2>1, <2>2, RowsKept DEF RunForm
  <1>3. ASSUME NEW forced, BeginRunApproval(s, forced)
        PROVE  MaterialInv'
    <2>1. members \in SUBSET Orders /\ "approveRun" \in Operations
      BY DEF RowsTyped, Operations
    <2>2. Enough(members, forced) /\ Begin(s, "approveRun", members, forced)
      BY <1>3 DEF BeginRunApproval
    <2> QED  BY <2>1, <2>2, BeginKeepsRows
  <1>4. CASE RunApprove(s)
    <2>1. /\ doing[s].op = "approveRun"
          /\ ReleaseUsage(s) /\ Consume(s) /\ Done(s)
          /\ status' = [o \in Orders |->
                IF o \in doing[s].orders THEN "approved" ELSE status[o]]
          /\ UNCHANGED <<details, members>>
      BY <1>4 DEF RunApprove, At
    <2>2. status' \in [Orders -> Statuses]
      BY <2>1 DEF RowsTyped, Statuses
    <2> QED  BY <2>1, <2>2, ApprovalKeepsRows DEF RowsTyped
  <1>5. CASE BeginRunDelete(s)
    <2>1. {} \in SUBSET Orders /\ "deleteRun" \in Operations
      BY DEF Operations
    <2> QED  BY <1>5, <2>1, BeginKeepsRows DEF BeginRunDelete
  <1>6. CASE RunDelete(s)
    <2>1. DoingSound'
      BY <1>6, DoneIsSound DEF RunDelete
    <2> QED  BY <1>6, <2>1, RowsKept DEF RunDelete
  <1> HIDE DEF MaterialInv
  <1> QED  BY <1>1, <1>2, <1>3, <1>4, <1>5, <1>6 DEF RunStep

LEMMA BatchStepKeepsMaterial ==
    ASSUME MaterialInv, NEW s \in Staff, BatchStep(s)
    PROVE  MaterialInv'
  <1>1. ASSUME NEW from, NEW to, BeginReconcile(s, from, to)
        PROVE  MaterialInv'
    <2>1. Sound([op |-> "reconcile", source |-> from.id, target |-> to.id])
      BY DEF Sound, Operations
    <2>2. DoingSound'
      BY <1>1, <2>1 DEF BeginReconcile, MaterialInv, DoingSound
    <2> QED  BY <1>1, <2>2, RowsKept DEF BeginReconcile, MaterialInv, RowsTyped, shared
  <1>2. ASSUME NEW from, NEW to, NEW n, BatchReconcile(s, from, to, n)
        PROVE  MaterialInv'
    <2>1. DoingSound'
      BY <1>2, DoneIsSound DEF BatchReconcile, MaterialInv
    <2> QED  BY <1>2, <2>1, RowsKept DEF BatchReconcile, MaterialInv, RowsTyped, shared
  <1> QED  BY <1>1, <1>2 DEF BatchStep

LEMMA MaterialStep == MaterialInv /\ [Next]_vars => MaterialInv'
  <1> SUFFICES ASSUME MaterialInv, [Next]_vars
               PROVE  MaterialInv'
    OBVIOUS
  <1>1. ASSUME NEW o \in Orders, NEW d \in Forms, NEW inRun, CreateOrder(o, d, inRun)
        PROVE  MaterialInv'
    <2>1. DoingSound' /\ d \in Details
      BY <1>1, ProductionAssumption DEF CreateOrder, MaterialInv, DoingSound
    <2>2. /\ status' = [status EXCEPT ![o] = "pending"]
          /\ details' = [details EXCEPT ![o] = d]
          /\ members' \subseteq Orders
          /\ UNCHANGED <<usage, stock>>
      BY <1>1 DEF CreateOrder, MaterialInv, RowsTyped
    <2> QED  BY <2>1, <2>2, RowWritten DEF MaterialInv, RowsTyped, Statuses
  <1>2. ASSUME NEW o \in Orders, NEW copy \in Orders, OrderRecreate(o, copy)
        PROVE  MaterialInv'
    <2>1. DoingSound'
      BY <1>2 DEF OrderRecreate, MaterialInv, DoingSound
    <2>2. /\ status' = [status EXCEPT ![copy] = "pending"]
          /\ details' = [details EXCEPT ![copy] = details[o]]
          /\ UNCHANGED <<usage, stock, members>>
      BY <1>2 DEF OrderRecreate, shared
    <2> QED  BY <2>1, <2>2, RowWritten DEF MaterialInv, RowsTyped, Statuses
  <1>3. ASSUME NEW s \in Staff, GiveUp(s)
        PROVE  MaterialInv'
    <2>1. DoingSound'
      BY <1>3, DoneIsSound DEF GiveUp, MaterialInv
    <2> QED  BY <1>3, <2>1, RowsKept DEF GiveUp, MaterialInv, RowsTyped, shared
  <1>4. CASE Deliver
    BY <1>4 DEF Deliver, MaterialInv, RowsTyped, DoingSound, ApprovedHasMaterial, shared
  <1>5. ASSUME SellFromShelf \/ \E id \in Batches : SellFromLot(id)
        PROVE  MaterialInv'
    <2>1. UNCHANGED <<status, details, usage, stock, members, doing>>
      BY <1>5 DEF SellFromShelf, SellFromLot, shared
    <2> QED  BY <2>1, RowsKept DEF MaterialInv, RowsTyped, DoingSound
  <1>6. CASE UNCHANGED vars
    <2>1. UNCHANGED <<status, details, usage, stock, members, doing>>
      BY <1>6 DEF vars, shared
    <2> QED  BY <2>1, RowsKept DEF MaterialInv, RowsTyped, DoingSound
  <1> QED  BY <1>1, <1>2, <1>3, <1>4, <1>5, <1>6, OrderStepKeepsMaterial,
              RunStepKeepsMaterial, BatchStepKeepsMaterial DEF Next

LEMMA MaterialInit == Init => MaterialInv
  <1> SUFFICES ASSUME Init PROVE MaterialInv
    OBVIOUS
  <1>1. NoDetails \in Details
    BY ProductionAssumption DEF NoDetails
  <1>2. RowsTyped
    BY <1>1, ProductionAssumption DEF Init, RowsTyped, Statuses
  <1>3. DoingSound
    BY SoundIdle DEF Init, DoingSound
  <1> QED  BY <1>2, <1>3 DEF Init, MaterialInv, ApprovedHasMaterial

(***************************************************************************)
(* However edits, rejections and deletions overlap the approvals of orders *)
(* and of the shared run, an approved order has its material released.     *)
(***************************************************************************)
THEOREM ApprovedTheorem == Spec => []ApprovedHasMaterial
  <1>1. MaterialInv => ApprovedHasMaterial
    BY DEF MaterialInv
  <1> QED  BY <1>1, MaterialInit, MaterialStep, PTL DEF Spec

-----------------------------------------------------------------------------
(* Shortage *)

\* The stock a release leaves was computed from the stock its check had read.
LEMMA ReleaseIsForced ==
    ASSUME MaterialInv, NEW s \in Staff, doing[s].op \in {"approve", "approveRun"},
           Consume(s), Done(s), stock' < 0
    PROVE  BelowZeroIsForced
  <1>1. doing[s].forced
    BY DEF MaterialInv, DoingSound, Sound, Operations, Consume
  <1>2. doing[s] # Idle
    BY DEF Idle
  <1>3. doing'[s] = Idle
    BY DEF MaterialInv, DoingSound, Done
  <1> QED  BY <1>1, <1>2, <1>3 DEF BelowZeroIsForced

LEMMA StockKept ==
    ASSUME MaterialInv, UNCHANGED stock
    PROVE  BelowZeroIsForced
  BY DEF MaterialInv, RowsTyped, BelowZeroIsForced

LEMMA ShortageStep == MaterialInv /\ [Next]_vars => [BelowZeroIsForced]_vars
  <1> SUFFICES ASSUME MaterialInv, Next
               PROVE  BelowZeroIsForced
    OBVIOUS
  <1>1. ASSUME NEW s \in Staff, OrderApprove(s) \/ RunApprove(s)
        PROVE  BelowZeroIsForced
    <2>1. doing[s].op \in {"approve", "approveRun"} /\ Consume(s) /\ Done(s)
      BY <1>1 DEF OrderApprove, RunApprove, At
    <2> QED  BY <2>1, ReleaseIsForced DEF BelowZeroIsForced
  <1>2. ASSUME NEW s \in Staff, OrderReverse(s)
        PROVE  BelowZeroIsForced
    <2>1. stock' = stock + usage[Its(s)]
      BY <1>2 DEF OrderReverse
    <2>2. Its(s) \in Orders
      BY <1>2, ItsChosen DEF OrderReverse, At, MaterialInv, DoingSound, Sound, Operations
    <2> QED  BY <2>1, <2>2 DEF MaterialInv, RowsTyped, BelowZeroIsForced
  <1>3. CASE Deliver
    BY <1>3 DEF Deliver, MaterialInv, RowsTyped, BelowZeroIsForced
  <1>4. ASSUME NEW s \in Staff, OrderStep(s), ~OrderApprove(s), ~OrderReverse(s)
        PROVE  UNCHANGED stock
    BY <1>4 DEF OrderStep, BeginOnOrder, Begin, OrderEdit, OrderReject, OrderComplete,
                OrderDelete
  <1>5. ASSUME NEW s \in Staff, RunStep(s), ~RunApprove(s)
        PROVE  UNCHANGED stock
    BY <1>5 DEF RunStep, BeginLink, RunForm, BeginRunApproval, BeginRunDelete,
                RunDelete, Begin
  <1>6. ASSUME NEW s \in Staff, BatchStep(s) \/ GiveUp(s)
        PROVE  UNCHANGED stock
    BY <1>6 DEF BatchStep, BeginReconcile, BatchReconcile, GiveUp
  <1>7. ASSUME \/ \E o \in Orders, d \in Forms, inRun \in BOOLEAN : CreateOrder(o, d, inRun)
               \/ \E o, copy \in Orders : OrderRecreate(o, copy)
               \/ SellFromShelf
               \/ \E id \in Batches : SellFromLot(id)
        PROVE  UNCHANGED stock
    BY <1>7 DEF CreateOrder, OrderRecreate, SellFromShelf, SellFromLot
  <1> QED  BY <1>1, <1>2, <1>3, <1>4, <1>5, <1>6, <1>7, StockKept DEF Next

(***************************************************************************)
(* Two approvals that read the same stock may lose each other's release,   *)
(* but neither writes a stock below zero that nobody forced.               *)
(***************************************************************************)
THEOREM ShortageTheorem == Spec => ShortageNeedsForce
  BY MaterialInit, MaterialStep, ShortageStep, PTL DEF Spec, ShortageNeedsForce
-----------------------------------------------------------------------------
(* Adding up *)

\* Natural numbers that hold zero and every successor are all of them.
LEMMA Naturals ==
    ASSUME NEW P \in SUBSET Nat, 0 \in P, \A n \in P : n + 1 \in P
    PROVE  P = Nat
<1>1. SUFFICES ASSUME Nat \ P # {} PROVE FALSE
  OBVIOUS
<1>2. PICK n \in Nat \ P : \A m \in Nat \ P : ~(<<m, n>> \in OpToRel(<, Nat))
  <2>1. Nat \ P \subseteq Nat /\ Nat \ P # {}
    BY <1>1
  <2> QED
    BY <2>1, NatLessThanWellFounded, WFMin, Zenon
<1>3. n # 0 /\ n - 1 \in Nat /\ n - 1 \notin P
  <2>1. n \in Nat /\ n \notin P /\ n # 0
    OBVIOUS
  <2>2. n - 1 \in Nat /\ (n - 1) + 1 = n
    BY <2>1
  <2> QED
    BY <2>1, <2>2
<1>4. <<n - 1, n>> \in OpToRel(<, Nat)
  BY <1>3 DEF OpToRel
<1> QED
  BY <1>2, <1>3, <1>4

\* The element a sum begins with.
Any(s) == CHOOSE x \in s : TRUE
LEMMA AnyIn ==
    ASSUME NEW s, s # {}
    PROVE  Any(s) \in s
  BY DEF Any

\* The same for subsets of at most n elements.
SumsUpTo(f, S, n, g) ==
    g = [s \in {t \in SUBSET S : Cardinality(t) <= n} |->
            IF s = {} THEN 0 ELSE f[Any(s)] + g[s \ {Any(s)}]]

\* g is the table of the sums of f over the subsets of S.
Tables(g, f, S) ==
    g = [s \in SUBSET S |-> IF s = {} THEN 0 ELSE f[Any(s)] + g[s \ {Any(s)}]]

LEMMA SumsExist ==
    ASSUME NEW f, NEW S, IsFiniteSet(S)
    PROVE  \E g : Tables(g, f, S)
<1> DEFINE P == {n \in Nat : \E g : SumsUpTo(f, S, n, g)}
<1>1. \A t \in SUBSET S : /\ IsFiniteSet(t) /\ Cardinality(t) \in Nat
                          /\ Cardinality(t) <= Cardinality(S)
                          /\ Cardinality(t) = 0 <=> t = {}
                          /\ \A x \in t : Cardinality(t \ {x}) = Cardinality(t) - 1
  BY FS_Subset, FS_CardinalityType, FS_EmptySet, FS_RemoveElement
<1>2. 0 \in P
  <2> DEFINE g == [s \in {t \in SUBSET S : Cardinality(t) <= 0} |-> 0]
  <2>1. \A s \in {t \in SUBSET S : Cardinality(t) <= 0} : s = {}
    BY <1>1
  <2>2. g = [s \in {t \in SUBSET S : Cardinality(t) <= 0} |->
            IF s = {} THEN 0 ELSE f[Any(s)] + g[s \ {Any(s)}]]
    BY <2>1
  <2> HIDE DEF g
  <2> QED
    BY <2>2 DEF SumsUpTo
<1>3. ASSUME NEW n \in P PROVE n + 1 \in P
  <2>1. PICK g : SumsUpTo(f, S, n, g)
    OBVIOUS
  <2> DEFINE D == {t \in SUBSET S : Cardinality(t) <= n}
             E == {t \in SUBSET S : Cardinality(t) <= n + 1}
             h == [s \in E |-> IF s = {} THEN 0 ELSE f[Any(s)] + g[s \ {Any(s)}]]
  <2>2. \A s \in D : g[s] = IF s = {} THEN 0 ELSE f[Any(s)] + g[s \ {Any(s)}]
    BY <2>1 DEF SumsUpTo
  <2>3. \A s \in E : s # {} => s \ {Any(s)} \in D
    BY <1>1, AnyIn
  <2>4. \A s \in D : s \in E /\ h[s] = g[s]
    BY <1>1, <2>2
  <2>5. h = [s \in E |-> IF s = {} THEN 0 ELSE f[Any(s)] + h[s \ {Any(s)}]]
    BY <2>3, <2>4
  <2> HIDE DEF h
  <2>6. SumsUpTo(f, S, n + 1, h)
    BY <2>5, Zenon DEF SumsUpTo
  <2>7. n + 1 \in Nat
    OBVIOUS
  <2> QED
    BY <2>6, <2>7
<1> HIDE DEF P
<1>4. P = Nat
  BY <1>2, <1>3, Naturals DEF P
<1>5. PICK g : SumsUpTo(f, S, Cardinality(S), g)
  BY <1>1, <1>4 DEF P
<1>6. {t \in SUBSET S : Cardinality(t) <= Cardinality(S)} = SUBSET S
  BY <1>1
<1> QED
  BY <1>5, <1>6 DEF SumsUpTo, Tables

SumTable(f, S) == CHOOSE g : Tables(g, f, S)

LEMMA SumIsTabled == ASSUME NEW f PROVE SumFunction(f) = SumTable(f, DOMAIN f)[DOMAIN f]
  BY DEF SumFunction, SumFunctionOnSet, FoldFunctionOnSet, MapThenFoldSet, SumTable, Tables, Any

LEMMA TableUnfolds ==
    ASSUME NEW f, NEW S, IsFiniteSet(S)
    PROVE  \A s \in SUBSET S : SumTable(f, S)[s] =
              IF s = {} THEN 0 ELSE f[Any(s)] + SumTable(f, S)[s \ {Any(s)}]
<1>1. Tables(SumTable(f, S), f, S)
  BY SumsExist DEF SumTable
<1> QED
  BY <1>1 DEF Tables

LEMMA SumIsInt ==
    ASSUME NEW S, IsFiniteSet(S), NEW f \in [S -> Int]
    PROVE  SumFunction(f) \in Int
<1>1. \A t \in SUBSET S : /\ IsFiniteSet(t) /\ Cardinality(t) \in Nat
                          /\ Cardinality(t) = 0 <=> t = {}
                          /\ \A x \in t : Cardinality(t \ {x}) = Cardinality(t) - 1
  BY FS_Subset, FS_CardinalityType, FS_EmptySet, FS_RemoveElement
<1> DEFINE g == SumTable(f, S)
<1>2. \A s \in SUBSET S : g[s] = IF s = {} THEN 0 ELSE f[Any(s)] + g[s \ {Any(s)}]
  BY TableUnfolds
<1> HIDE DEF g
<1> DEFINE P == {n \in Nat : \A s \in SUBSET S : Cardinality(s) = n => g[s] \in Int}
<1>3. 0 \in P
  <2>1. g[{}] = 0
    BY <1>2
  <2> QED
    BY <1>1, <2>1
<1>4. ASSUME NEW n \in P PROVE n + 1 \in P
  <2> SUFFICES ASSUME NEW s \in SUBSET S, Cardinality(s) = n + 1
               PROVE g[s] \in Int
    OBVIOUS
  <2>1. s # {} /\ Any(s) \in s
    BY <1>1, AnyIn
  <2>2. Cardinality(s \ {Any(s)}) = n
    BY <1>1, <2>1
  <2> QED
    BY <1>2, <2>1, <2>2
<1> HIDE DEF P
<1>5. P = Nat
  BY <1>3, <1>4, Naturals DEF P
<1> QED
  BY <1>1, <1>5, SumIsTabled DEF P, g

LEMMA SumOfOne ==
    ASSUME NEW x, NEW f \in [{x} -> Int]
    PROVE  SumFunction(f) = f[x]
<1>1. IsFiniteSet({x}) /\ Any({x}) = x /\ {x} \ {x} = {} /\ {x} # {}
  BY FS_Singleton DEF Any
<1>2. SumTable(f, {x})[{}] = 0
  BY <1>1, TableUnfolds
<1>3. SumTable(f, {x})[{x}] = f[x] + SumTable(f, {x})[{}]
  BY <1>1, TableUnfolds
<1> QED
  BY <1>2, <1>3, SumIsTabled

-----------------------------------------------------------------------------
(* Batches *)

BatchesTyped ==
    /\ IsFiniteSet(batches) /\ batches \subseteq BatchRows
    /\ shelf \in Int /\ shelved \in [Orders -> Int]
    /\ lot \in [Batches -> Nat]
    /\ handedOn \in [Batches -> Nat] /\ madeUp \in [Batches -> Nat]

IdsAreUnique == \A b, c \in batches : b.id = c.id => b = c

\* Reconciliations protect their batches: an id without a batch has none.
UnusedIsUnreconciled ==
    \A id \in Batches : NumberFree(id) => handedOn[id] = 0 /\ madeUp[id] = 0

\* A lot holds no more than the batch sent to market.
LotsFit ==
    \A b \in batches : lot[b.id] <= b.market /\ (b.kind # "market" => b.market = 0)

BatchesInv ==
    BatchesTyped /\ IdsAreUnique /\ UnusedIsUnreconciled /\ LotsFit /\ ReconciledOnce

LEMMA BatchesUntouched ==
    ASSUME BatchesInv, UNCHANGED <<batches, goods>>
    PROVE  BatchesInv'
  BY DEF BatchesInv, BatchesTyped, IdsAreUnique, UnusedIsUnreconciled, LotsFit, ReconciledOnce,
         NumberFree, Shortage, goods, settled

LEMMA AllocationsAreNatural ==
    ASSUME NEW d \in Details, NEW saleable \in Nat, NEW a \in Allocations(d, saleable)
    PROVE  {a.kept, a.given, a.market} \subseteq Nat /\ (d.kind # "market" => a.market = 0)
  BY DEF Details, Allocations, Least, Positive

LEMMA ShelfUnitsAreNatural ==
    ASSUME NEW b \in BatchRows, NEW kind
    PROVE  ShelfUnits(kind, b) \in Nat
  BY DEF BatchRows, ShelfUnits, Least

LEMMA TakenBackIsInt ==
    ASSUME BatchesTyped, NEW o
    PROVE  TakenBack(o) \in Int
<1> DEFINE f == [b \in BatchesOf(o) |-> ShelfUnits(details[o].kind, b)]
<1>1. IsFiniteSet(BatchesOf(o))
  BY FS_Subset DEF BatchesTyped, BatchesOf
<1>2. f \in [BatchesOf(o) -> Int]
  BY ShelfUnitsAreNatural DEF BatchesTyped, BatchesOf
<1> QED
  BY <1>1, <1>2, SumIsInt DEF TakenBack

\* The request of s is about an order that exists.
LEMMA ItsIsAnOrder ==
    ASSUME MaterialInv, NEW s \in Staff, doing[s].op \in {"edit", "reject", "delete", "approve", "complete", "reverse"}
    PROVE  Its(s) \in Orders /\ doing[s].seen[Its(s)] \in Details
  BY ItsChosen DEF MaterialInv, DoingSound, Sound, Operations

\* A completion: the batch has a number of its own and is not reconciled yet.
LEMMA CompleteKeepsBatches ==
    ASSUME BatchesInv, MaterialInv, NEW s \in Staff, NEW number \in Numbers,
           NEW saleable \in Yields, NEW a, OrderComplete(s, number, saleable, a)
    PROVE  BatchesInv'
<1> DEFINE o == Its(s)
           d == doing[s].seen[o]
           b == Batch(o, number, d, saleable, a)
<1>1. o \in Orders /\ d \in Details /\ saleable \in Nat
  BY ItsIsAnOrder, ProductionAssumption DEF OrderComplete, At
<1>2. a \in Allocations(d, saleable) /\ NumberFree(b.id)
  BY DEF OrderComplete
<1>3. /\ batches' = batches \cup {b}
      /\ lot' = [lot EXCEPT ![b.id] = b.market]
      /\ shelf' = shelf + ShelfUnits(d.kind, b)
      /\ shelved' = [shelved EXCEPT ![o] = @ + ShelfUnits(d.kind, b)]
      /\ UNCHANGED <<handedOn, madeUp>>
  BY DEF OrderComplete, settled
<1>4. {a.kept, a.given, a.market} \subseteq Nat /\ (d.kind # "market" => a.market = 0)
  BY <1>1, <1>2, AllocationsAreNatural
<1>5. /\ b \in BatchRows /\ b.id = <<o, number>> /\ b.id \in Batches
      /\ b.kind # "market" => b.market = 0
      /\ b.market \in Nat /\ b.kept \in Nat /\ b.ordered \in Nat /\ b.saleable \in Nat
  BY <1>1, <1>4 DEF Batch, BatchRows, Batches, Details
<1>6. ShelfUnits(d.kind, b) \in Nat
  BY <1>5, ShelfUnitsAreNatural
<1> HIDE DEF o, d, b
<1>7. BatchesTyped'
  <2>1. IsFiniteSet(batches')
    BY <1>3, FS_AddElement DEF BatchesInv, BatchesTyped
  <2>2. shelf' \in Int /\ shelved' \in [Orders -> Int]
    BY <1>1, <1>3, <1>6 DEF BatchesInv, BatchesTyped
  <2>3. lot' \in [Batches -> Nat]
    BY <1>3, <1>5 DEF BatchesInv, BatchesTyped
  <2> QED
    BY <1>3, <1>5, <2>1, <2>2, <2>3 DEF BatchesInv, BatchesTyped
<1>8. IdsAreUnique'
  BY <1>2, <1>3 DEF BatchesInv, IdsAreUnique, NumberFree
<1>9. UnusedIsUnreconciled'
  BY <1>3 DEF BatchesInv, UnusedIsUnreconciled, NumberFree
<1>10. LotsFit'
  <2> SUFFICES ASSUME NEW c \in batches'
               PROVE  lot'[c.id] <= c.market /\ (c.kind # "market" => c.market = 0)
    BY DEF LotsFit
  <2>1. CASE c = b
    BY <1>3, <1>5, <2>1 DEF BatchesInv, BatchesTyped
  <2>2. CASE c # b
    <3>1. c \in batches /\ c.id # b.id
      BY <1>2, <1>3, <2>2 DEF NumberFree
    <3> QED
      BY <1>3, <3>1 DEF BatchesInv, BatchesTyped, LotsFit
  <2> QED
    BY <2>1, <2>2
<1>11. ReconciledOnce'
  <2>1. handedOn[b.id] = 0 /\ madeUp[b.id] = 0
    BY <1>2, <1>5 DEF BatchesInv, UnusedIsUnreconciled
  <2>2. handedOn[b.id] <= b.kept /\ madeUp[b.id] <= Shortage(b)
    BY <1>5, <2>1 DEF Shortage, Positive
  <2> QED
    BY <1>3, <2>2 DEF BatchesInv, ReconciledOnce, Shortage
<1> QED
  BY <1>7, <1>8, <1>9, <1>10, <1>11 DEF BatchesInv

\* The row of a batch of o once the order is reversed.
Reversed(b, o) == IF b.id[1] = o THEN [b EXCEPT !.reversed = TRUE] ELSE b

LEMMA ReversedIsABatch ==
    ASSUME NEW b \in BatchRows, NEW o
    PROVE  /\ Reversed(b, o) \in BatchRows
           /\ Reversed(b, o).id = b.id /\ Reversed(b, o).kind = b.kind
           /\ Reversed(b, o).ordered = b.ordered /\ Reversed(b, o).planned = b.planned
           /\ Reversed(b, o).saleable = b.saleable /\ Reversed(b, o).kept = b.kept
           /\ Reversed(b, o).market = b.market
           /\ Reversed(b, o).reversed = (b.id[1] = o \/ b.reversed)
  BY DEF Reversed, BatchRows

\* A reversal writes every batch of the order and keeps what it was made of.
LEMMA ReverseKeepsBatches ==
    ASSUME BatchesInv, MaterialInv, NEW s \in Staff, OrderReverse(s)
    PROVE  BatchesInv'
<1> DEFINE o == Its(s)
<1>1. o \in Orders
  BY ItsIsAnOrder DEF OrderReverse, At
<1>2. /\ batches' = {Reversed(b, o) : b \in batches}
      /\ shelf' = shelf - TakenBack(o)
      /\ shelved' = [shelved EXCEPT ![o] = @ - TakenBack(o)]
      /\ lot' = [id \in Batches |->
            IF details[o].kind = "market" /\ id[1] = o THEN 0 ELSE lot[id]]
      /\ UNCHANGED <<handedOn, madeUp>>
  BY DEF OrderReverse, settled, Reversed
<1>3. TakenBack(o) \in Int
  BY TakenBackIsInt DEF BatchesInv
<1> HIDE DEF o
<1>4. BatchesTyped'
  <2>1. batches' \subseteq BatchRows
    BY <1>2, ReversedIsABatch DEF BatchesInv, BatchesTyped
  <2>2. IsFiniteSet(batches')
    <3> DEFINE f == [b \in batches |-> Reversed(b, o)]
    <3>1. f \in Surjection(batches, batches')
      BY <1>2 DEF Surjection
    <3> QED
      BY <3>1, FS_Surjection DEF BatchesInv, BatchesTyped
  <2>3. shelf' \in Int /\ shelved' \in [Orders -> Int]
    BY <1>1, <1>2, <1>3 DEF BatchesInv, BatchesTyped
  <2> QED
    BY <1>2, <2>1, <2>2, <2>3 DEF BatchesInv, BatchesTyped
<1>5. \A c \in batches' : \E b \in batches : c = Reversed(b, o) /\ b \in BatchRows
  BY <1>2 DEF BatchesInv, BatchesTyped
<1>6. IdsAreUnique'
  BY <1>5, ReversedIsABatch DEF BatchesInv, IdsAreUnique
<1>7. UnusedIsUnreconciled'
  <2> SUFFICES ASSUME NEW id \in Batches, NumberFree(id)'
               PROVE  handedOn'[id] = 0 /\ madeUp'[id] = 0
    BY DEF UnusedIsUnreconciled
  <2>1. \A b \in batches : b.id # id
    BY <1>2, ReversedIsABatch DEF NumberFree, BatchesInv, BatchesTyped
  <2> QED
    BY <1>2, <2>1 DEF BatchesInv, UnusedIsUnreconciled, NumberFree
<1>8. LotsFit'
  <2> SUFFICES ASSUME NEW b \in batches, NEW c \in batches', c = Reversed(b, o)
               PROVE  lot'[c.id] <= c.market /\ (c.kind # "market" => c.market = 0)
    BY <1>5 DEF LotsFit
  <2>1. c.id = b.id /\ c.kind = b.kind /\ c.market = b.market /\ b.id \in Batches
        /\ b.market \in Nat
    BY ReversedIsABatch DEF BatchesInv, BatchesTyped, BatchRows
  <2>2. lot'[b.id] \in {0, lot[b.id]}
    BY <1>2, <2>1
  <2> QED
    BY <2>1, <2>2 DEF BatchesInv, LotsFit
<1>9. ReconciledOnce'
  BY <1>2, <1>5, ReversedIsABatch DEF BatchesInv, ReconciledOnce, Shortage
<1> QED
  BY <1>4, <1>6, <1>7, <1>8, <1>9 DEF BatchesInv

\* A deletion takes batches away that have not been reconciled.
LEMMA DeleteKeepsBatches ==
    ASSUME BatchesInv, NEW s \in Staff, OrderDelete(s)
    PROVE  BatchesInv'
<1> DEFINE o == Its(s)
<1>1. /\ \A b \in BatchesOf(o) : NotReconciled(b)
      /\ batches' = batches \ BatchesOf(o)
      /\ lot' = [id \in Batches |-> IF id[1] = o THEN 0 ELSE lot[id]]
      /\ UNCHANGED <<shelf, shelved, handedOn, madeUp>>
  BY DEF OrderDelete, settled
<1> HIDE DEF o
<1>2. BatchesTyped'
  <2>1. IsFiniteSet(batches')
    BY <1>1, FS_Subset DEF BatchesInv, BatchesTyped
  <2> QED
    BY <1>1, <2>1 DEF BatchesInv, BatchesTyped
<1>3. UnusedIsUnreconciled'
  BY <1>1 DEF BatchesInv, UnusedIsUnreconciled, NumberFree, NotReconciled, BatchesOf
<1>4. LotsFit'
  <2> SUFFICES ASSUME NEW b \in batches'
               PROVE  lot'[b.id] <= b.market /\ (b.kind # "market" => b.market = 0)
    BY DEF LotsFit
  <2>1. b \in batches /\ b.id \in Batches /\ b.market \in Nat
    BY <1>1 DEF BatchesInv, BatchesTyped, BatchRows
  <2>2. lot'[b.id] \in {0, lot[b.id]}
    BY <1>1, <2>1
  <2> QED
    BY <2>1, <2>2 DEF BatchesInv, LotsFit
<1> QED
  BY <1>1, <1>2, <1>3, <1>4 DEF BatchesInv, IdsAreUnique, ReconciledOnce, Shortage

\* A reconciliation is bounded by the surplus and the shortage it finds.
LEMMA ReconcileKeepsBatches ==
    ASSUME BatchesInv, NEW s \in Staff, NEW from \in batches, NEW to \in batches,
           NEW n \in 1 .. from.kept, BatchReconcile(s, from, to, n)
    PROVE  BatchesInv'
<1>1. /\ n <= Surplus(from) /\ n <= Outstanding(to)
      /\ handedOn' = [handedOn EXCEPT ![from.id] = @ + n]
      /\ madeUp' = [madeUp EXCEPT ![to.id] = @ + n]
      /\ shelf' = shelf - n
      /\ UNCHANGED <<batches, shelved, lot>>
  BY DEF BatchReconcile, StillReconcilable, Reconcilable
<1>2. \A b \in batches : /\ b.id \in Batches
                         /\ {b.kept, b.ordered, b.saleable} \subseteq Nat
                         /\ Shortage(b) \in Nat
  BY DEF BatchesInv, BatchesTyped, BatchRows, Shortage, Positive
<1>3. n \in Nat /\ n > 0
  BY <1>2
<1>4. handedOn[from.id] + n <= from.kept
  BY <1>1, <1>2, <1>3 DEF Surplus, Least, Positive, BatchesInv, BatchesTyped
<1>5. madeUp[to.id] + n <= Shortage(to)
  BY <1>1, <1>2, <1>3 DEF Outstanding, Positive, BatchesInv, BatchesTyped
<1>6. BatchesTyped'
  BY <1>1, <1>2, <1>3 DEF BatchesInv, BatchesTyped
<1>7. UnusedIsUnreconciled'
  <2> SUFFICES ASSUME NEW id \in Batches, NumberFree(id)
               PROVE  handedOn'[id] = 0 /\ madeUp'[id] = 0
    BY <1>1 DEF UnusedIsUnreconciled, NumberFree
  <2>1. id # from.id /\ id # to.id
    BY DEF NumberFree
  <2> QED
    BY <1>1, <2>1 DEF BatchesInv, BatchesTyped, UnusedIsUnreconciled
<1>8. ReconciledOnce'
  <2> SUFFICES ASSUME NEW b \in batches
               PROVE  handedOn'[b.id] <= b.kept /\ madeUp'[b.id] <= Shortage(b)
    BY <1>1 DEF ReconciledOnce, Shortage
  <2>1. handedOn'[b.id] <= b.kept
    <3>1. CASE b.id = from.id
      BY <1>1, <1>2, <1>4, <3>1 DEF BatchesInv, BatchesTyped, IdsAreUnique
    <3>2. CASE b.id # from.id
      BY <1>1, <1>2, <3>2 DEF BatchesInv, BatchesTyped, ReconciledOnce
    <3> QED
      BY <3>1, <3>2
  <2>2. madeUp'[b.id] <= Shortage(b)
    <3>1. CASE b.id = to.id
      BY <1>1, <1>2, <1>5, <3>1 DEF BatchesInv, BatchesTyped, IdsAreUnique
    <3>2. CASE b.id # to.id
      BY <1>1, <1>2, <3>2 DEF BatchesInv, BatchesTyped, ReconciledOnce
    <3> QED
      BY <3>1, <3>2
  <2> QED
    BY <2>1, <2>2
<1> QED
  BY <1>1, <1>6, <1>7, <1>8 DEF BatchesInv, IdsAreUnique, LotsFit

\* Every step leaves the batches alone or is one of five.
BatchSteps ==
    \/ UNCHANGED <<batches, goods>>
    \/ \E s \in Staff :
          \/ \E number \in Numbers, saleable \in Yields :
                \E a \in Allocations(doing[s].seen[Its(s)], saleable) :
                   OrderComplete(s, number, saleable, a)
          \/ OrderReverse(s)
          \/ OrderDelete(s)
          \/ \E from, to \in batches :
                \E n \in 1 .. from.kept : BatchReconcile(s, from, to, n)
    \/ SellFromShelf
    \/ \E id \in Batches : SellFromLot(id)

LEMMA WhatTouchesBatches ==
    ASSUME [Next]_vars
    PROVE  BatchSteps
<1>1. ASSUME NEW s \in Staff, OrderStep(s)
      PROVE  BatchSteps
  BY <1>1 DEF OrderStep, BatchSteps, BeginOnOrder, Begin, OrderEdit, OrderReject, OrderApprove
<1>2. ASSUME NEW s \in Staff, RunStep(s) \/ GiveUp(s)
      PROVE  UNCHANGED <<batches, goods>>
  BY <1>2 DEF RunStep, BeginLink, RunForm, BeginRunApproval, RunApprove, BeginRunDelete,
              RunDelete, Begin, GiveUp
<1>3. ASSUME NEW s \in Staff, BatchStep(s)
      PROVE  BatchSteps
  BY <1>3 DEF BatchStep, BatchSteps, BeginReconcile
<1>4. ASSUME \/ \E o \in Orders, d \in Forms, inRun \in BOOLEAN : CreateOrder(o, d, inRun)
             \/ \E o, copy \in Orders : OrderRecreate(o, copy)
             \/ Deliver
             \/ UNCHANGED vars
      PROVE  UNCHANGED <<batches, goods>>
  BY <1>4 DEF CreateOrder, OrderRecreate, Deliver, vars
<1> QED
  BY <1>1, <1>2, <1>3, <1>4 DEF Next, BatchSteps

LEMMA SalesKeepBatches ==
    ASSUME BatchesInv, SellFromShelf \/ \E id \in Batches : SellFromLot(id)
    PROVE  BatchesInv'
<1>1. UNCHANGED <<batches, shelved, handedOn, madeUp>>
  BY DEF SellFromShelf, SellFromLot, settled
<1>2. shelf' \in Int
  BY DEF SellFromShelf, SellFromLot, BatchesInv, BatchesTyped
<1>3. lot' \in [Batches -> Nat] /\ \A id \in Batches : lot'[id] <= lot[id]
  BY DEF SellFromShelf, SellFromLot, BatchesInv, BatchesTyped
<1>4. \A b \in batches : b.id \in Batches /\ b.market \in Nat
  BY DEF BatchesInv, BatchesTyped, BatchRows
<1>5. LotsFit'
  BY <1>1, <1>3, <1>4 DEF BatchesInv, BatchesTyped, LotsFit
<1> QED
  BY <1>1, <1>2, <1>3, <1>5
     DEF BatchesInv, BatchesTyped, IdsAreUnique, UnusedIsUnreconciled, NumberFree, ReconciledOnce,
         Shortage

LEMMA BatchesKept == BatchesInv /\ MaterialInv /\ [Next]_vars => BatchesInv'
<1> SUFFICES ASSUME BatchesInv, MaterialInv, [Next]_vars
             PROVE  BatchesInv'
  OBVIOUS
<1> QED
  BY WhatTouchesBatches, BatchesUntouched, CompleteKeepsBatches, ReverseKeepsBatches,
     DeleteKeepsBatches, ReconcileKeepsBatches, SalesKeepBatches DEF BatchSteps

LEMMA BatchesInit == Init => BatchesInv
<1> SUFFICES ASSUME Init PROVE BatchesInv
  OBVIOUS
<1>1. BatchesTyped
  BY FS_EmptySet DEF Init, BatchesTyped
<1> QED
  BY <1>1 DEF Init, BatchesInv, IdsAreUnique, UnusedIsUnreconciled, LotsFit, ReconciledOnce

(***************************************************************************)
(* Whoever reconciles, completes, reverses and deletes at the same time,   *)
(* no unit that a batch left on the shelf makes up two shortages, and no   *)
(* shortage is made up twice.                                              *)
(***************************************************************************)
THEOREM ReconciledTheorem == Spec => []ReconciledOnce
<1>1. BatchesInv => ReconciledOnce
  BY DEF BatchesInv
<1> QED
  BY <1>1, MaterialInit, MaterialStep, BatchesInit, BatchesKept, PTL DEF Spec

-----------------------------------------------------------------------------
(* Types *)

Asked(r) == r = Idle \/ Reconciling(r) \/ Reading(r)

RequestsTyped ==
    /\ run \in {"none", "draft", "approved", "completed", "deleted"}
    /\ \A s \in Staff : Asked(doing[s])

\* One request is read or ends.
LEMMA RequestMoves ==
    ASSUME MaterialInv, RequestsTyped, NEW s \in Staff, NEW r, Asked(r),
           doing' = [doing EXCEPT ![s] = r],
           run' \in {"none", "draft", "approved", "completed", "deleted"}
    PROVE  RequestsTyped'
<1>1. \A t \in Staff : doing'[t] = IF t = s THEN r ELSE doing[t]
  BY DEF MaterialInv, DoingSound
<1>2. ASSUME NEW t \in Staff PROVE Asked(doing'[t])
  BY <1>1, <1>2 DEF RequestsTyped
<1> QED  BY <1>2 DEF RequestsTyped, Asked, Idle, Reconciling, Reading

LEMMA BeginAsks ==
    ASSUME MaterialInv, RequestsTyped, NEW s \in Staff, NEW op \in Operations,
           NEW os \in SUBSET Orders, NEW forced \in BOOLEAN, Begin(s, op, os, forced)
    PROVE  RequestsTyped'
<1> DEFINE r == [op |-> op, orders |-> os, seen |-> [o \in os |-> details[o]],
                 stock |-> IF op \in {"approve", "approveRun"} THEN stock ELSE 0,
                 forced |-> forced,
                 inRun |-> op = "complete" /\ os \subseteq members
                           /\ run \in {"approved", "completed"},
                 reversed |-> op = "delete" /\ \A o \in os : status[o] = "reversed"]
<1>1. doing' = [doing EXCEPT ![s] = r] /\ run' = run
  BY DEF Begin, shared
<1>2. r.seen \in [r.orders -> Details] /\ r.stock \in Int
  BY DEF MaterialInv, RowsTyped
<1>3. r.op \in Operations /\ r.orders \subseteq Orders /\ {r.forced, r.inRun, r.reversed} \subseteq BOOLEAN
  OBVIOUS
<1> HIDE DEF r
<1>4. Asked(r)
  BY <1>2, <1>3 DEF Asked, Reading
<1> QED  BY <1>1, <1>4, RequestMoves DEF RequestsTyped

\* A request ends, and the run may take on another status.
LEMMA DoneAsks ==
    ASSUME MaterialInv, RequestsTyped, NEW s \in Staff, Done(s),
           run' \in {run, "draft", "approved", "completed", "deleted"}
    PROVE  RequestsTyped'
  BY RequestMoves DEF Done, Asked, RequestsTyped

LEMMA OthersAsk ==
    ASSUME RequestsTyped, UNCHANGED <<run, doing>>
    PROVE  RequestsTyped'
  BY DEF RequestsTyped, Asked, Idle, Reconciling, Reading

LEMMA RequestsStep ==
    ASSUME MaterialInv, BatchesInv, RequestsTyped, [Next]_vars
    PROVE  RequestsTyped'
<1>1. ASSUME NEW s \in Staff, OrderStep(s) PROVE RequestsTyped'
  <2>1. ASSUME NEW o \in Orders, NEW forced \in BOOLEAN,
               NEW op \in {"edit", "reject", "approve", "complete", "reverse", "delete"},
               BeginOnOrder(s, op, o, forced)
        PROVE  RequestsTyped'
    <3>1. op \in Operations /\ {o} \in SUBSET Orders
      BY DEF Operations
    <3> QED  BY <2>1, <3>1, BeginAsks DEF BeginOnOrder
  <2>2. ASSUME NEW d \in Forms, NEW replaced \in BOOLEAN, OrderEdit(s, d, replaced)
        PROVE  Done(s) /\ run' = run
    BY <2>2 DEF OrderEdit, shared
  <2>3. ASSUME OrderReject(s) \/ OrderApprove(s) \/ OrderDelete(s) PROVE Done(s) /\ run' = run
    BY <2>3 DEF OrderReject, OrderApprove, OrderDelete, shared
  <2>4. ASSUME NEW number, NEW saleable, NEW a, OrderComplete(s, number, saleable, a)
        PROVE  Done(s) /\ run' \in {run, "completed"}
    BY <2>4 DEF OrderComplete
  <2>5. ASSUME OrderReverse(s) PROVE Done(s) /\ run' \in {run, "approved"}
    BY <2>5 DEF OrderReverse
  <2> QED  BY <1>1, <2>1, <2>2, <2>3, <2>4, <2>5, DoneAsks DEF OrderStep
<1>2. ASSUME NEW s \in Staff, RunStep(s) PROVE RequestsTyped'
  <2>1. ASSUME NEW os \in Groups, BeginLink(s, os) PROVE RequestsTyped'
    <3>1. "link" \in Operations /\ os \in SUBSET Orders /\ FALSE \in BOOLEAN
      BY ProductionAssumption DEF Operations
    <3> QED  BY <2>1, <3>1, BeginAsks DEF BeginLink
  <2>2. ASSUME NEW forced \in BOOLEAN, BeginRunApproval(s, forced) PROVE RequestsTyped'
    <3>1. "approveRun" \in Operations /\ members \in SUBSET Orders
      BY DEF Operations, MaterialInv, RowsTyped
    <3> QED  BY <2>2, <3>1, BeginAsks DEF BeginRunApproval
  <2>3. ASSUME BeginRunDelete(s) PROVE RequestsTyped'
    <3>1. "deleteRun" \in Operations /\ {} \in SUBSET Orders /\ FALSE \in BOOLEAN
      BY DEF Operations
    <3> QED  BY <2>3, <3>1, BeginAsks DEF BeginRunDelete
  <2>4. ASSUME RunForm(s) \/ RunApprove(s) \/ RunDelete(s)
        PROVE  Done(s) /\ run' \in {"draft", "approved", "deleted"}
    BY <2>4 DEF RunForm, RunApprove, RunDelete
  <2> QED  BY <1>2, <2>1, <2>2, <2>3, <2>4, DoneAsks DEF RunStep
<1>3. ASSUME NEW s \in Staff, BatchStep(s) PROVE RequestsTyped'
  <2>1. PICK from \in batches, to \in batches :
          BeginReconcile(s, from, to) \/ \E n \in 1 .. from.kept : BatchReconcile(s, from, to, n)
    BY <1>3 DEF BatchStep
  <2>2. from.id \in Batches /\ to.id \in Batches
    BY DEF BatchesInv, BatchesTyped, BatchRows
  <2>3. CASE BeginReconcile(s, from, to)
    <3> DEFINE r == [op |-> "reconcile", source |-> from.id, target |-> to.id]
    <3>1. Asked(r)
      BY <2>2 DEF Asked, Reconciling
    <3>2. doing' = [doing EXCEPT ![s] = r] /\ run' = run
      BY <2>3 DEF BeginReconcile, shared
    <3> HIDE DEF r
    <3> QED  BY <3>1, <3>2, RequestMoves DEF RequestsTyped
  <2>4. ASSUME NEW n, BatchReconcile(s, from, to, n) PROVE Done(s) /\ run' = run
    BY <2>4 DEF BatchReconcile, shared
  <2> QED  BY <2>1, <2>3, <2>4, DoneAsks
<1>4. ASSUME NEW s \in Staff, GiveUp(s) PROVE RequestsTyped'
  BY <1>4, DoneAsks DEF GiveUp, shared
<1>5. ASSUME NEW o, NEW d, NEW inRun, CreateOrder(o, d, inRun) PROVE RequestsTyped'
  BY <1>5, OthersAsk DEF CreateOrder
<1>6. ASSUME NEW o, NEW copy, OrderRecreate(o, copy) PROVE RequestsTyped'
  BY <1>6, OthersAsk DEF OrderRecreate, shared
<1>7. ASSUME Deliver \/ SellFromShelf \/ \E id \in Batches : SellFromLot(id)
      PROVE  RequestsTyped'
  BY <1>7, OthersAsk DEF Deliver, SellFromShelf, SellFromLot, shared
<1>8. CASE UNCHANGED vars
  BY <1>8, OthersAsk DEF vars, shared
<1> QED  BY <1>1, <1>2, <1>3, <1>4, <1>5, <1>6, <1>7, <1>8 DEF Next

\* Rows, counts and requests have their types; only the shelf and the material
\* may be below zero.
THEOREM ProductionTypeCorrect == Spec => []TypeOK
<1> DEFINE Inv == MaterialInv /\ BatchesInv /\ BooksInv /\ RequestsTyped
<1>1. Init => Inv
  <2>1. Init => BooksInv
    BY DEF Init, BooksInv, Books, IncomeFollowsSales
  <2>2. Init => RequestsTyped
    BY DEF Init, RequestsTyped, Asked
  <2> QED  BY <2>1, <2>2, MaterialInit, BatchesInit
<1>2. Inv /\ [Next]_vars => Inv'
  BY MaterialStep, BatchesKept, BooksStep, RequestsStep
<1>3. Inv => TypeOK
  BY DEF MaterialInv, BatchesInv, BooksInv, RequestsTyped, RowsTyped, BatchesTyped, Books, Asked, TypeOK
<1> QED  BY <1>1, <1>2, <1>3, PTL DEF Spec

-----------------------------------------------------------------------------
(* Reversals *)

\* An order that was deleted is not written again by a request that read it
\* before.
DeletedStaysDeleted == \A o \in Orders : status[o] = "deleted" => status'[o] = "deleted"

\* An order without batches has not been completed and has put nothing anywhere.
NothingMade(o) ==
    BatchesOf(o) = {} =>
        /\ shelved[o] = 0
        /\ sales[o] = [paid |-> 0, due |-> 0]
        /\ status[o] \notin {"completed", "reversed"}

\* An order with one batch was completed once: its units are on the shelf until
\* a reversal takes them back.
MadeOnce(o) ==
    \A b \in batches : BatchesOf(o) = {b} =>
        /\ b.reversed \/ shelved[o] = ShelfUnits(b.kind, b)
        /\ status[o] = "completed" => ~b.reversed
        /\ status[o] = "reversed" =>
              /\ b.reversed
              /\ sales[o] = [paid |-> 0, due |-> 0]
              /\ details[o].kind = b.kind => shelved[o] = 0 /\ lot[b.id] = 0

Traced(o) == status[o] # "deleted" => NothingMade(o) /\ MadeOnce(o)

\* A step that is about another order, or a request that starts over.
LEMMA TraceUndisturbed ==
    ASSUME BatchesInv, BatchesInv', DeletedStaysDeleted, NEW o \in Orders, Traced(o),
           BatchesOf(o)' = BatchesOf(o),
           shelved'[o] = shelved[o], sales'[o] = sales[o],
           \A b \in BatchesOf(o) : lot'[b.id] <= lot[b.id],
           \/ status'[o] = status[o] /\ details'[o] = details[o]
           \/ status'[o] \in {"pending", "rejected", "approved"}
    PROVE  Traced(o)'
<1> SUFFICES ASSUME status'[o] # "deleted"
             PROVE  NothingMade(o)' /\ MadeOnce(o)'
  BY DEF Traced
<1>1. status[o] # "deleted"
  BY DEF DeletedStaysDeleted
<1>2. NothingMade(o)'
  BY <1>1 DEF Traced, NothingMade
<1>3. ASSUME NEW b \in batches', BatchesOf(o)' = {b}
      PROVE  /\ b.reversed \/ shelved'[o] = ShelfUnits(b.kind, b)
             /\ status'[o] = "completed" => ~b.reversed
             /\ status'[o] = "reversed" =>
                   /\ b.reversed
                   /\ sales'[o] = [paid |-> 0, due |-> 0]
                   /\ details'[o].kind = b.kind => shelved'[o] = 0 /\ lot'[b.id] = 0
  <2>1. b \in batches /\ BatchesOf(o) = {b}
    BY <1>3 DEF BatchesOf
  <2>2. b.id \in Batches /\ lot[b.id] \in Nat /\ lot'[b.id] \in Nat
    BY <2>1 DEF BatchesInv, BatchesTyped, BatchRows
  <2> QED
    BY <1>1, <2>1, <2>2 DEF Traced, MadeOnce
<1> QED
  BY <1>2, <1>3 DEF MadeOnce

\* A completion of an order without batches puts its units on the shelf; of one
\* with batches it is the second at least.
LEMMA CompleteTraces ==
    ASSUME BatchesInv, BatchesInv', BooksInv, MaterialInv, DeletedStaysDeleted,
           \A o \in Orders : Traced(o),
           NEW s \in Staff, NEW number \in Numbers, NEW saleable \in Yields, NEW a,
           OrderComplete(s, number, saleable, a), NEW o \in Orders
    PROVE  Traced(o)'
<1> DEFINE mine == Its(s)
           d == doing[s].seen[mine]
           b == Batch(mine, number, d, saleable, a)
<1>1. mine \in Orders
  BY ItsIsAnOrder DEF OrderComplete, At
<1>2. /\ status[mine] # "deleted" /\ NumberFree(b.id)
      /\ batches' = batches \cup {b}
      /\ lot' = [lot EXCEPT ![b.id] = b.market]
      /\ shelved' = [shelved EXCEPT ![mine] = @ + ShelfUnits(d.kind, b)]
      /\ status' = [status EXCEPT ![mine] = "completed"]
      /\ UNCHANGED details
  BY DEF OrderComplete
<1>3. \A p \in Orders : p # mine => sales'[p] = sales[p]
  BY DEF OrderComplete, BooksInv, Books
<1>4. b.id = <<mine, number>> /\ b.id[1] = mine /\ b.kind = d.kind /\ b.reversed = FALSE
  BY DEF Batch
<1> HIDE DEF mine, d, b
<1>5. CASE o # mine
  <2>1. BatchesOf(o)' = BatchesOf(o)
    BY <1>2, <1>4, <1>5 DEF BatchesOf
  <2>2. \A c \in BatchesOf(o) : lot'[c.id] = lot[c.id] /\ lot[c.id] \in Nat
    BY <1>2, <1>4, <1>5 DEF BatchesOf, BatchesInv, BatchesTyped, BatchRows
  <2>3. shelved'[o] = shelved[o] /\ status'[o] = status[o] /\ details'[o] = details[o]
    BY <1>2, <1>5 DEF BatchesInv, BatchesTyped, MaterialInv, RowsTyped
  <2> QED
    BY <1>3, <1>5, <2>1, <2>2, <2>3, TraceUndisturbed
<1>6. CASE o = mine
  <2>1. BatchesOf(o)' = BatchesOf(o) \cup {b} /\ b \notin BatchesOf(o)
    BY <1>2, <1>4, <1>6 DEF BatchesOf, NumberFree
  <2>2. status'[o] = "completed"
    BY <1>1, <1>2, <1>6 DEF MaterialInv, RowsTyped
  <2>3. ASSUME NEW c \in batches', BatchesOf(o)' = {c}
        PROVE  ~c.reversed /\ shelved'[o] = ShelfUnits(c.kind, c)
    <3>1. c = b /\ BatchesOf(o) = {}
      BY <2>1, <2>3
    <3>2. shelved[o] = 0
      BY <1>2, <1>6, <3>1 DEF Traced, NothingMade
    <3>3. shelved'[o] = 0 + ShelfUnits(b.kind, b)
      BY <1>1, <1>2, <1>4, <1>6, <3>2 DEF BatchesInv, BatchesTyped
    <3>4. b \in BatchRows
      BY <1>2 DEF BatchesInv, BatchesTyped
    <3> QED
      BY <1>4, <3>1, <3>3, <3>4, ShelfUnitsAreNatural
  <2> QED
    BY <2>1, <2>2, <2>3 DEF Traced, NothingMade, MadeOnce
<1> QED
  BY <1>5, <1>6

\* A reversal takes from the shelf what the one batch of the order put there.
LEMMA ReverseTraces ==
    ASSUME BatchesInv, BatchesInv', BooksInv, MaterialInv, DeletedStaysDeleted,
           \A o \in Orders : Traced(o),
           NEW s \in Staff, OrderReverse(s), NEW o \in Orders
    PROVE  Traced(o)'
<1> DEFINE mine == Its(s)
<1>1. mine \in Orders
  BY ItsIsAnOrder DEF OrderReverse, At
<1>2. /\ status[mine] = "completed"
      /\ batches' = {Reversed(b, mine) : b \in batches}
      /\ shelved' = [shelved EXCEPT ![mine] = @ - TakenBack(mine)]
      /\ lot' = [id \in Batches |->
            IF details[mine].kind = "market" /\ id[1] = mine THEN 0 ELSE lot[id]]
      /\ sales' = [sales EXCEPT ![mine] = [paid |-> 0, due |-> 0]]
      /\ status' = [status EXCEPT ![mine] = "reversed"]
      /\ UNCHANGED details
  BY DEF OrderReverse, Reversed
<1> HIDE DEF mine
<1>3. CASE o # mine
  <2>1. BatchesOf(o)' = BatchesOf(o)
    <3>1. \A b \in batches : b.id[1] = o => Reversed(b, mine) = b
      BY <1>3 DEF Reversed
    <3>2. \A b \in batches : Reversed(b, mine).id = b.id
      BY ReversedIsABatch DEF BatchesInv, BatchesTyped
    <3> QED
      BY <1>2, <3>1, <3>2 DEF BatchesOf
  <2>2. \A c \in BatchesOf(o) : lot'[c.id] = lot[c.id] /\ lot[c.id] \in Nat
    BY <1>2, <1>3 DEF BatchesOf, BatchesInv, BatchesTyped, BatchRows
  <2>3. shelved'[o] = shelved[o] /\ status'[o] = status[o] /\ sales'[o] = sales[o]
        /\ details'[o] = details[o]
    BY <1>2, <1>3 DEF BatchesInv, BatchesTyped, MaterialInv, RowsTyped, BooksInv, Books
  <2> QED
    BY <2>1, <2>2, <2>3, TraceUndisturbed
<1>4. CASE o = mine
  <2>1. status[o] # "deleted" /\ status[o] = "completed" /\ BatchesOf(o) # {}
    BY <1>2, <1>4 DEF Traced, NothingMade
  <2>2. /\ status'[o] = "reversed" /\ sales'[o] = [paid |-> 0, due |-> 0]
        /\ shelved'[o] = shelved[o] - TakenBack(o) /\ details'[o] = details[o]
    BY <1>1, <1>2, <1>4 DEF BatchesInv, BatchesTyped, MaterialInv, RowsTyped, BooksInv, Books
  <2>3. \A b \in BatchesOf(o) : Reversed(b, o) \in BatchesOf(o)'
    BY <1>2, <1>4, ReversedIsABatch DEF BatchesOf, BatchesInv, BatchesTyped
  <2>4. ASSUME NEW c \in batches', BatchesOf(o)' = {c}
        PROVE  /\ c.reversed
               /\ details'[o].kind = c.kind => shelved'[o] = 0 /\ lot'[c.id] = 0
    <3>1. PICK b \in BatchesOf(o) : c = Reversed(b, o)
      BY <2>1, <2>3, <2>4
    <3>2. /\ b \in batches /\ b \in BatchRows /\ b.id[1] = o /\ b.id \in Batches
          /\ lot[b.id] \in Nat /\ b.market \in Nat
      BY DEF BatchesOf, BatchesInv, BatchesTyped, BatchRows
    <3>3. c.id = b.id /\ c.kind = b.kind /\ c.reversed
      BY <3>1, <3>2, ReversedIsABatch
    <3>4. BatchesOf(o) = {b}
      <4>1. \A x \in BatchesOf(o) : Reversed(x, o) = c /\ Reversed(x, o).id = x.id
        BY <2>3, <2>4, ReversedIsABatch DEF BatchesOf, BatchesInv, BatchesTyped
      <4> QED
        BY <3>3, <4>1 DEF BatchesOf, BatchesInv, IdsAreUnique
    <3>5. shelved[o] = ShelfUnits(b.kind, b)
      BY <2>1, <3>2, <3>4 DEF Traced, MadeOnce
    <3>6. ASSUME details[o].kind = b.kind
          PROVE  shelved'[o] = 0
      <4> DEFINE f == [x \in {b} |-> ShelfUnits(details[o].kind, x)]
      <4>1. ShelfUnits(b.kind, b) \in Nat
        BY <3>2, ShelfUnitsAreNatural
      <4>2. f \in [{b} -> Int] /\ f[b] = ShelfUnits(b.kind, b)
        BY <3>6, <4>1
      <4>3. TakenBack(o) = SumFunction(f)
        BY <3>4 DEF TakenBack
      <4> HIDE DEF f
      <4>4. TakenBack(o) = ShelfUnits(b.kind, b)
        BY <4>2, <4>3, SumOfOne
      <4> QED
        BY <2>2, <3>5, <4>1, <4>4
    <3>7. ASSUME details[o].kind = b.kind
          PROVE  lot'[b.id] = 0
      BY <1>2, <1>4, <3>2, <3>7 DEF BatchesInv, LotsFit
    <3> QED
      BY <2>2, <3>3, <3>6, <3>7
  <2> QED
    BY <2>1, <2>2, <2>3, <2>4 DEF Traced, NothingMade, MadeOnce
<1> QED
  BY <1>3, <1>4

\* A deletion takes all batches of its order away, and no other.
LEMMA DeleteTraces ==
    ASSUME BatchesInv, BatchesInv', MaterialInv, DeletedStaysDeleted,
           \A o \in Orders : Traced(o),
           NEW s \in Staff, OrderDelete(s), NEW o \in Orders
    PROVE  Traced(o)'
<1> DEFINE mine == Its(s)
<1>1. mine \in Orders
  BY ItsIsAnOrder DEF OrderDelete, At
<1>2. /\ batches' = batches \ BatchesOf(mine)
      /\ lot' = [id \in Batches |-> IF id[1] = mine THEN 0 ELSE lot[id]]
      /\ status' = [status EXCEPT ![mine] = "deleted"]
      /\ UNCHANGED <<details, shelved, sales>>
  BY DEF OrderDelete, books
<1> HIDE DEF mine
<1>3. CASE o # mine
  <2>1. BatchesOf(o)' = BatchesOf(o)
    BY <1>2, <1>3 DEF BatchesOf
  <2>2. \A c \in BatchesOf(o) : lot'[c.id] = lot[c.id] /\ lot[c.id] \in Nat
    BY <1>2, <1>3 DEF BatchesOf, BatchesInv, BatchesTyped, BatchRows
  <2>3. status'[o] = status[o]
    BY <1>2, <1>3 DEF MaterialInv, RowsTyped
  <2> QED
    BY <1>2, <2>1, <2>2, <2>3, TraceUndisturbed
<1>4. CASE o = mine
  BY <1>1, <1>2, <1>4 DEF Traced, MaterialInv, RowsTyped
<1> QED
  BY <1>3, <1>4

\* What any other step does to the orders and what was made for them.
LeavesTraces ==
    /\ UNCHANGED <<batches, shelved, sales>>
    /\ lot' = lot \/ \E id \in Batches : lot[id] > 0 /\ lot' = [lot EXCEPT ![id] = @ - 1]
    /\ \A o \in Orders : \/ status'[o] = status[o] /\ details'[o] = details[o]
                         \/ status'[o] \in {"pending", "rejected", "approved"}

TracedSteps ==
    \/ LeavesTraces
    \/ \E s \in Staff :
          \/ \E number \in Numbers, saleable \in Yields :
                \E a \in Allocations(doing[s].seen[Its(s)], saleable) :
                   OrderComplete(s, number, saleable, a)
          \/ OrderReverse(s)
          \/ OrderDelete(s)

LEMMA WhatLeavesTraces ==
    ASSUME MaterialInv, [Next]_vars
    PROVE  TracedSteps
<1>1. ASSUME NEW s \in Staff, OrderStep(s)
      PROVE  TracedSteps
  <2>1. ASSUME NEW op, NEW o, NEW forced
        PROVE  BeginOnOrder(s, op, o, forced) => LeavesTraces
    BY DEF BeginOnOrder, Begin, LeavesTraces, goods, books
  <2>2. ASSUME NEW d, NEW replaced
        PROVE  OrderEdit(s, d, replaced) => LeavesTraces
    BY DEF OrderEdit, LeavesTraces, goods, books, MaterialInv, RowsTyped
  <2>3. ASSUME NEW o, NEW to \in {"rejected", "approved"}, NEW d,
               status' = [status EXCEPT ![o] = to],
               details' = [details EXCEPT ![o] = d],
               UNCHANGED <<batches, goods, books>>
        PROVE  LeavesTraces
    BY <2>3 DEF LeavesTraces, goods, books, MaterialInv, RowsTyped
  <2>4. OrderReject(s) \/ OrderApprove(s) => LeavesTraces
    BY <2>3 DEF OrderReject, OrderApprove
  <2>5. ASSUME ~LeavesTraces
        PROVE  \/ \E number \in Numbers, saleable \in Yields :
                     \E a \in Allocations(doing[s].seen[Its(s)], saleable) :
                        OrderComplete(s, number, saleable, a)
               \/ OrderReverse(s)
               \/ OrderDelete(s)
    BY <1>1, <2>1, <2>2, <2>3, <2>4, <2>5 DEF OrderStep
  <2> QED
    BY <2>5 DEF TracedSteps
<1>2. ASSUME NEW s \in Staff, RunStep(s) \/ GiveUp(s)
      PROVE  LeavesTraces
  <2>1. CASE RunApprove(s)
    BY <2>1 DEF RunApprove, LeavesTraces, goods, books, MaterialInv, RowsTyped
  <2>2. CASE ~RunApprove(s)
    BY <1>2, <2>2 DEF RunStep, BeginLink, RunForm, BeginRunApproval, BeginRunDelete, RunDelete,
                      Begin, GiveUp, LeavesTraces, goods, books
  <2> QED
    BY <2>1, <2>2
<1>3. ASSUME NEW s \in Staff, BatchStep(s)
      PROVE  LeavesTraces
  BY <1>3 DEF BatchStep, BeginReconcile, BatchReconcile, LeavesTraces, goods, books
<1>4. ASSUME \/ \E o \in Orders, d \in Forms, inRun \in BOOLEAN : CreateOrder(o, d, inRun)
             \/ \E o, copy \in Orders : OrderRecreate(o, copy)
      PROVE  LeavesTraces
  BY <1>4 DEF CreateOrder, OrderRecreate, LeavesTraces, goods, books, MaterialInv, RowsTyped
<1>5. ASSUME Deliver \/ SellFromShelf \/ UNCHANGED vars
      PROVE  LeavesTraces
  BY <1>5 DEF Deliver, SellFromShelf, vars, LeavesTraces, goods, books
<1>6. ASSUME NEW id \in Batches, SellFromLot(id)
      PROVE  LeavesTraces
  BY <1>6 DEF SellFromLot, LeavesTraces, books
<1>7. LeavesTraces => TracedSteps
  BY DEF TracedSteps
<1> QED
  BY <1>1, <1>2, <1>3, <1>4, <1>5, <1>6, <1>7 DEF Next

LEMMA TracesKept ==
    ASSUME BatchesInv, BatchesInv', BooksInv, MaterialInv, [Next]_vars, DeletedStaysDeleted,
           \A o \in Orders : Traced(o), NEW o \in Orders
    PROVE  Traced(o)'
<1>1. CASE LeavesTraces
  <2>1. BatchesOf(o)' = BatchesOf(o)
    BY <1>1 DEF LeavesTraces, BatchesOf
  <2>2. \A b \in BatchesOf(o) : lot'[b.id] <= lot[b.id]
    BY <1>1 DEF LeavesTraces, BatchesOf, BatchesInv, BatchesTyped, BatchRows
  <2> QED
    BY <1>1, <2>1, <2>2, TraceUndisturbed DEF LeavesTraces
<1> QED
  BY <1>1, WhatLeavesTraces, CompleteTraces, ReverseTraces, DeleteTraces DEF TracedSteps

TracedInv == BatchesInv /\ BooksInv /\ MaterialInv /\ \A o \in Orders : Traced(o)

LEMMA TracedIsEnough == TracedInv => ReversalLeavesNothing
<1> SUFFICES ASSUME TracedInv, NEW o \in Orders, status[o] = "reversed", AsMade(o)
             PROVE  /\ shelved[o] = 0
                    /\ \A b \in BatchesOf(o) : b.reversed /\ lot[b.id] = 0
                    /\ sales[o] = [paid |-> 0, due |-> 0]
  BY DEF ReversalLeavesNothing
<1>1. NothingMade(o) /\ MadeOnce(o)
  BY DEF TracedInv, Traced
<1>2. PICK b \in batches : b \in BatchesOf(o)
  BY <1>1 DEF NothingMade, BatchesOf
<1>3. \A c \in BatchesOf(o) : c.id = <<o, Proposed>>
  BY DEF AsMade, BatchesOf, TracedInv, BatchesInv, BatchesTyped, BatchRows, Batches
<1>4. BatchesOf(o) = {b}
  BY <1>2, <1>3 DEF TracedInv, BatchesInv, IdsAreUnique, BatchesOf
<1> QED
  BY <1>1, <1>4 DEF MadeOnce, AsMade

(***************************************************************************)
(* Whatever is completed, sold, reconciled, reversed and recreated, in any *)
(* order and by any number of staff: a reversed order whose batch is still *)
(* what it was made as has nothing left on the shelf, in market stock or   *)
(* in the sales.  This holds as long as no request that read an order      *)
(* writes it again after it was deleted: such an order has lost the batch  *)
(* that accounts for its units, and completing it anew makes a second one. *)
(***************************************************************************)
THEOREM ReversalTheorem == Spec /\ [][DeletedStaysDeleted]_vars => []ReversalLeavesNothing
<1>1. Init => TracedInv
  <2> SUFFICES ASSUME Init PROVE TracedInv
    OBVIOUS
  <2>1. \A o \in Orders : Traced(o)
    BY DEF Init, Traced, NothingMade, MadeOnce, BatchesOf
  <2>2. BooksInv
    BY DEF Init, BooksInv, Books, IncomeFollowsSales
  <2> QED
    BY <2>1, <2>2, MaterialInit, BatchesInit DEF TracedInv
<1>2. TracedInv /\ [Next]_vars /\ [DeletedStaysDeleted]_vars => TracedInv'
  <2> SUFFICES ASSUME TracedInv, [Next]_vars, [DeletedStaysDeleted]_vars
               PROVE  TracedInv'
    OBVIOUS
  <2>1. DeletedStaysDeleted
    BY DEF DeletedStaysDeleted, vars
  <2>2. BatchesInv' /\ BooksInv' /\ MaterialInv'
    BY BatchesKept, BooksStep, MaterialStep DEF TracedInv
  <2>3. ASSUME NEW o \in Orders
        PROVE  Traced(o)'
    BY <2>1, <2>2, TracesKept DEF TracedInv
  <2> QED
    BY <2>2, <2>3 DEF TracedInv
<1> QED
  BY <1>1, <1>2, TracedIsEnough, PTL DEF Spec
=============================================================================
