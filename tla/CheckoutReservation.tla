------------------------- MODULE CheckoutReservation -------------------------
(***************************************************************************)
(* The life of a commerce checkout: a basket is priced and its shelf units *)
(* reserved, money arrives in time, late or never, the paid checkout       *)
(* becomes exactly one intake (order), staff accept the intake and the     *)
(* goods leave the shelf.  Direct sales and stock adjustments take units   *)
(* from the same shelf.                                                    *)
(*                                                                         *)
(* A database transaction that locks the rows it decides on is one action. *)
(* A request that reads rows without a lock and acts on them later is one  *)
(* action per round trip; what it read is kept in the request's variable   *)
(* (polling, reviewing, accepting, taking).                                *)
(*                                                                         *)
(* Quantities are whole units of goods that are configured for shelf sale; *)
(* one storefront product stands for one good.  A checkout is paid through *)
(* one payment, in up to Price instalments.                                *)
(***************************************************************************)
EXTENDS Integers, FiniteSets

CONSTANTS
    Checkouts,      \* identities of the checkout sessions that may be created
    Goods,          \* finished goods
    Policies,       \* insufficient_stock_policy values the admin switches between
    UsesProduction, \* whether the business produces to order
    Pollers,        \* requests that display a checkout
    Reviewers,      \* staff requests that recover a paid checkout
    Clerks,         \* staff requests that accept an intake
    ShelfUsers,     \* direct sales and stock adjustments
    None,           \* "no checkout": a request that is idle
    Price,          \* amount of a checkout, in smallest instalments
    Lifetime,       \* checkout_reservation_minutes, in ticks
    MaxUnits,       \* bound: most units of one good in one basket
    MaxStock,       \* bound: a delivery never fills a shelf beyond this
    MaxDeficit,     \* bound: how far sales may drive the stock of a good below 0
    MaxTime         \* bound: last tick of the clock

ASSUME ConstantsAssumption ==
    /\ IsFiniteSet(Checkouts)
    /\ None \notin Checkouts
    /\ Policies \subseteq {"reject", "reduce", "split", "invite"}
    /\ UsesProduction \in BOOLEAN
    /\ Price \in Nat \ {0}
    /\ Lifetime \in Nat \ {0}
    /\ MaxUnits \in Nat
    /\ MaxStock \in Nat
    /\ MaxDeficit \in Nat
    /\ MaxTime \in Nat

VARIABLES
    now,        \* the clock
    stock,      \* stock[g]: FinishedGood.stock
    status,     \* status[c]: CommerceCheckoutSession.status, "none" before creation
    mode,       \* mode[c]: ordering_mode
    expires,    \* expires[c]: reservation_expires_at
    released,   \* released[c]: reservation_released_at is set
    error,      \* error[c]: what materialization_error tells the staff
    payable,    \* payable[c][g]: payable_quantity of the checkout's items
    reserve,    \* reserve[c][g]: reserved_stock_quantity of the checkout's items
    initiated,  \* initiated[c]: a payment was opened for the checkout
    paid,       \* paid[c]: unreversed receipts of payments attached to the checkout
    credited,   \* credited[c]: the same for payments moved to the intake
    intake,     \* intake[c]: status of the materialized intake, "none" before
    sold,       \* sold[c][g]: accepted_stock_quantity of the intake's items
    made,       \* made[c][g]: production_quantity of the intake's items
    polling,    \* polling[p]: checkout the request read as awaiting payment
    reviewing,  \* reviewing[r]: checkout the request recovers, how far it has come
                \* and the receipts it added up
    accepting,  \* accepting[k]: intake being accepted and what was found available
    taking      \* taking[s]: removal from the shelf that passed its check

session  == <<status, mode, expires, released, error, payable, reserve>>
money    == <<initiated, paid, credited>>
order    == <<intake, sold, made>>
requests == <<polling, reviewing, accepting, taking>>
vars     == <<now, stock, session, money, order, requests>>

-----------------------------------------------------------------------------
(* Values *)

Baskets == [Goods -> 0 .. MaxUnits]

Nothing == [g \in Goods |-> 0]

\* STATUS_PAID exists only inside the materializing transaction.
Status ==
    {"none", "awaiting_payment", "materialized", "paid_review", "expired", "cancelled"}

IntakeStatus == {"none", "pending", "awaiting_preorder", "accepted", "rejected"}

Open == {"pending", "awaiting_preorder"}

NotAccepting == [checkout |-> None, take |-> Nothing, split |-> FALSE]

Acceptances == [checkout : Checkouts, take : Baskets, split : BOOLEAN]

NotTaking == [kind |-> "none"]

NotReviewing == [checkout |-> None, step |-> "idle", funds |-> 0]

\* A recovery has read the status; has locked the checkout and added up its
\* receipts; or has failed, rolled back and not yet said so.
Reviews == [checkout : Checkouts, step : {"opened", "summed", "failed"}, funds : 0 .. Price]

Removals == [kind : {"sale", "adjustment"}, good : Goods, units : 1 .. 2 * MaxUnits]

ShelfTyped ==
    /\ now \in 0 .. MaxTime
    /\ stock \in [Goods -> Int]

SessionsTyped ==
    /\ status \in [Checkouts -> Status]
    /\ mode \in [Checkouts -> {"stock", "preorder"}]
    /\ expires \in [Checkouts -> Nat]
    /\ released \in [Checkouts -> BOOLEAN]
    /\ error \in [Checkouts -> {"", "late", "stock", "failed", "cancelled"}]
    /\ payable \in [Checkouts -> Baskets]
    /\ reserve \in [Checkouts -> Baskets]

MoneyTyped ==
    /\ initiated \in [Checkouts -> BOOLEAN]
    /\ paid \in [Checkouts -> 0 .. Price]
    /\ credited \in [Checkouts -> 0 .. Price]

OrdersTyped ==
    /\ intake \in [Checkouts -> IntakeStatus]
    /\ sold \in [Checkouts -> Baskets]
    /\ made \in [Checkouts -> Baskets]

RequestsTyped ==
    /\ polling \in [Pollers -> Checkouts \cup {None}]
    /\ reviewing \in [Reviewers -> Reviews \cup {NotReviewing}]
    /\ accepting \in [Clerks -> Acceptances \cup {NotAccepting}]
    /\ taking \in [ShelfUsers -> Removals \cup {NotTaking}]

TypeOK == ShelfTyped /\ SessionsTyped /\ MoneyTyped /\ OrdersTyped /\ RequestsTyped

Init ==
    /\ now = 0
    /\ stock \in [Goods -> 0 .. MaxStock]
    /\ status = [c \in Checkouts |-> "none"]
    /\ mode = [c \in Checkouts |-> "stock"]
    /\ expires = [c \in Checkouts |-> 0]
    /\ released = [c \in Checkouts |-> FALSE]
    /\ error = [c \in Checkouts |-> ""]
    /\ payable = [c \in Checkouts |-> Nothing]
    /\ reserve = [c \in Checkouts |-> Nothing]
    /\ initiated = [c \in Checkouts |-> FALSE]
    /\ paid = [c \in Checkouts |-> 0]
    /\ credited = [c \in Checkouts |-> 0]
    /\ intake = [c \in Checkouts |-> "none"]
    /\ sold = [c \in Checkouts |-> Nothing]
    /\ made = [c \in Checkouts |-> Nothing]
    /\ polling = [p \in Pollers |-> None]
    /\ reviewing = [r \in Reviewers |-> NotReviewing]
    /\ accepting = [k \in Clerks |-> NotAccepting]
    /\ taking = [s \in ShelfUsers |-> NotTaking]

-----------------------------------------------------------------------------
(* Reservations *)

\* A released reservation holds nothing; an intake's holds without a time
\* limit, an unpaid checkout's until it expires.
Active(c) ==
    /\ ~released[c]
    /\ \/ status[c] = "materialized"
       \/ status[c] = "awaiting_payment" /\ expires[c] > now

\* The units of g that the members of `who` hold, one element per unit.
HeldUnits(g, who) ==
    {unit \in who \X (1 .. MaxUnits) :
        Active(unit[1]) /\ unit[2] <= reserve[unit[1]][g]}

Reserved(g, who) == Cardinality(HeldUnits(g, who))

\* What is left of the shelf, a negative stock counting as empty, once the
\* units held by `who` are set aside.
Available(g, who) ==
    IF stock[g] > Reserved(g, who) THEN stock[g] - Reserved(g, who) ELSE 0

\* A mutated form of Others: the checkout's own hold counts against it.
Everyone(c) == Checkouts

Others(c) == Checkouts \ {c}

Lesser(a, b) == IF a <= b THEN a ELSE b

Tick ==
    /\ now < MaxTime
    /\ now' = now + 1
    /\ UNCHANGED <<stock, session, money, order, requests>>

\* create_checkout holds the row locks of all goods while it computes the
\* reservation.  A shortage the policy does not allow refuses the basket.
CreateCheckout(c, basket, policy, fulfil) ==
    LET inStock(g) == Lesser(basket[g], Available(g, Checkouts))
        short(g) == basket[g] > inStock(g)
    IN  /\ status[c] = "none"
        /\ basket # Nothing
        /\ fulfil = "preorder" => UsesProduction
        /\ fulfil = "stock" =>
              \A g \in Goods : short(g) =>
                 \/ policy = "reduce" /\ inStock(g) > 0
                 \/ policy = "split" /\ UsesProduction
        /\ status' = [status EXCEPT ![c] = "awaiting_payment"]
        /\ mode' = [mode EXCEPT ![c] = fulfil]
        /\ expires' = [expires EXCEPT ![c] = now + Lifetime]
        /\ reserve' = [reserve EXCEPT ![c] =
              [g \in Goods |-> IF fulfil = "stock" THEN inStock(g) ELSE 0]]
        /\ payable' = [payable EXCEPT ![c] =
              [g \in Goods |->
                  IF fulfil = "stock" /\ policy = "reduce" THEN inStock(g) ELSE basket[g]]]
        /\ UNCHANGED <<now, stock, released, error, money, order, requests>>

\* A POS sale whose payment could not be started gives its reservation back,
\* unless money has arrived.
CancelUnpaidCheckout(c) ==
    /\ status[c] = "awaiting_payment"
    /\ paid[c] = 0
    /\ status' = [status EXCEPT ![c] = "cancelled"]
    /\ released' = [released EXCEPT ![c] = TRUE]
    /\ error' = [error EXCEPT ![c] = "cancelled"]
    /\ UNCHANGED <<now, stock, mode, expires, payable, reserve, money, order, requests>>

\* Displaying a checkout reads it without a lock ...
ReadForDisplay(p, c) ==
    /\ polling[p] = None
    /\ status[c] = "awaiting_payment"
    /\ polling' = [polling EXCEPT ![p] = c]
    /\ UNCHANGED <<now, stock, session, money, order, reviewing, accepting, taking>>

\* A recovery keeps the checkout's row locked once it has added up the receipts.
Locked(c) == \E r \in Reviewers : reviewing[r].checkout = c /\ reviewing[r].step = "summed"

\* ... and, when what was read has expired by now, writes the row back.
ExpireIfNeeded(p) ==
    LET c == polling[p]
    IN  /\ c # None
        /\ polling' = [polling EXCEPT ![p] = None]
        /\ IF expires[c] <= now
              THEN /\ ~Locked(c)
                   /\ status' = [status EXCEPT ![c] = "expired"]
                   /\ released' = [released EXCEPT ![c] = TRUE]
              ELSE UNCHANGED <<status, released>>
        /\ UNCHANGED <<now, stock, mode, expires, error, payable, reserve, money, order,
                       reviewing, accepting, taking>>

-----------------------------------------------------------------------------
(* Payment and materialization *)

\* A payment can be opened while the reservation is valid; an expired
\* checkout is refused, and the refusal rolls its expiry back.
InitiatePayment(c) ==
    /\ status[c] = "awaiting_payment"
    /\ expires[c] > now
    /\ initiated' = [initiated EXCEPT ![c] = TRUE]
    /\ UNCHANGED <<now, stock, session, paid, credited, order, requests>>

Late(c) == expires[c] <= now

\* Full payment is decided from the receipts; its mutated form trusts the
\* caller's status check.
PresumedPaid(funds) == TRUE
FullyPaid(funds) == funds >= Price

\* A mutated form of StillCovered that does not leave the own hold out.
CoveredTwice(c) ==
    \A g \in Goods : reserve[c][g] > 0 => reserve[c][g] <= Available(g, Checkouts)

\* Under the goods' row locks: the units the checkout reserved can still be
\* allocated once everybody else's holds are set aside.
StillCovered(c) ==
    \A g \in Goods : reserve[c][g] > 0 => reserve[c][g] <= Available(g, Others(c))

\* A mutated form of SendToReview: late money leaves the checkout expired.
ReviewOrExpire(c, funds, cause) ==
    /\ status' = [status EXCEPT ![c] = IF cause = "late" THEN "expired" ELSE "paid_review"]
    /\ released' = [released EXCEPT ![c] = TRUE]
    /\ error' = [error EXCEPT ![c] = cause]
    /\ paid' = [paid EXCEPT ![c] = funds]
    /\ UNCHANGED <<credited, intake>>

SendToReview(c, funds, cause) ==
    /\ status' = [status EXCEPT ![c] = "paid_review"]
    /\ released' = [released EXCEPT ![c] = TRUE]
    /\ error' = [error EXCEPT ![c] = cause]
    /\ paid' = [paid EXCEPT ![c] = funds]
    /\ UNCHANGED <<credited, intake>>

\* The intake is created and the checkout's payments move to it.
\* reservation_released_at stays as it was.
CreateIntake(c, funds) ==
    /\ status' = [status EXCEPT ![c] = "materialized"]
    /\ error' = [error EXCEPT ![c] = ""]
    /\ intake' = [intake EXCEPT ![c] = "pending"]
    /\ credited' = [credited EXCEPT ![c] = funds]
    /\ paid' = [paid EXCEPT ![c] = 0]
    /\ UNCHANGED released

\* attempt_materialize_paid_checkout inside the transaction that verified the
\* last receipt, `funds` being the checkout's unreversed receipts.  Any
\* exception, including one raised while the intake is written, sends the
\* checkout to review.
AttemptMaterialize(c, funds) ==
    LET due == FullyPaid(funds)
    IN  \/ ~due /\ SendToReview(c, funds, "failed")
        \/ due /\ Late(c) /\ SendToReview(c, funds, "late")
        \/ due /\ ~Late(c) /\ ~StillCovered(c) /\ SendToReview(c, funds, "stock")
        \/ due /\ ~Late(c) /\ StillCovered(c) /\ CreateIntake(c, funds)
        \/ due /\ ~Late(c) /\ StillCovered(c) /\ SendToReview(c, funds, "failed")

\* Money is verified.  A cancelled payment still takes what a gateway
\* collected, always the whole amount.  A payment of the checkout that is now
\* complete materializes it in the same transaction; one that has moved to the
\* intake, and of which receipts were reversed, is topped up there.
RecordVerifiedPayment(c, amount) ==
    LET funds == paid[c] + amount
    IN  /\ initiated[c]
        /\ \/ /\ intake[c] = "none"
              /\ status[c] = "cancelled" => amount = Price
              /\ \/ /\ funds < Price
                    /\ paid' = [paid EXCEPT ![c] = funds]
                    /\ UNCHANGED <<status, released, error, credited, intake>>
                 \/ /\ funds = Price
                    /\ ~Locked(c)
                    /\ AttemptMaterialize(c, funds)
           \/ /\ intake[c] # "none"
              /\ credited[c] + amount <= Price
              /\ credited' = [credited EXCEPT ![c] = @ + amount]
              /\ UNCHANGED <<status, released, error, paid, intake>>
        /\ UNCHANGED <<now, stock, mode, expires, payable, reserve, initiated, sold, made,
                       requests>>

\* Staff reverse a receipt, wherever its payment is attached by now.  Neither
\* the checkout nor the intake is locked.
ReversePaymentReceipt(c, amount) ==
    /\ \/ /\ amount <= paid[c]
          /\ paid' = [paid EXCEPT ![c] = @ - amount]
          /\ UNCHANGED credited
       \/ /\ amount <= credited[c]
          /\ credited' = [credited EXCEPT ![c] = @ - amount]
          /\ UNCHANGED paid
    /\ UNCHANGED <<now, stock, session, initiated, order, requests>>

\* The link to the intake decides; its mutated form looks at the status.
LooksMaterialized(c) == status[c] = "materialized"
HasIntake(c) == intake[c] # "none"

\* checkout_recover runs outside any transaction.  It looks at the status ...
OpenRecovery(r, c) ==
    /\ reviewing[r] = NotReviewing
    /\ status[c] = "paid_review"
    /\ reviewing' = [reviewing EXCEPT ![r] =
          [checkout |-> c, step |-> "opened", funds |-> 0]]
    /\ UNCHANGED <<now, stock, session, money, order, polling, accepting, taking>>

\* ... then locks the checkout and adds up its receipts, which a reversal does
\* not wait for.  An intake that another request created is returned.
LockForRecovery(r) ==
    LET c == reviewing[r].checkout
    IN  /\ reviewing[r].step = "opened"
        /\ ~Locked(c)
        /\ reviewing' = [reviewing EXCEPT ![r] =
              IF HasIntake(c) THEN NotReviewing
              ELSE IF FullyPaid(paid[c])
                      THEN [checkout |-> c, step |-> "summed", funds |-> paid[c]]
                      ELSE [checkout |-> c, step |-> "failed", funds |-> 0]]
        /\ UNCHANGED <<now, stock, session, money, order, polling, accepting, taking>>

\* Under the lock the goods are compared and the intake is created; anything
\* may fail, and rolls all of it back.
FinishRecovery(r) ==
    LET c == reviewing[r].checkout
    IN  /\ reviewing[r].step = "summed"
        /\ \/ /\ ~StillCovered(c)
              /\ SendToReview(c, paid[c], "stock")
              /\ reviewing' = [reviewing EXCEPT ![r] = NotReviewing]
           \/ /\ StillCovered(c)
              /\ CreateIntake(c, paid[c])
              /\ reviewing' = [reviewing EXCEPT ![r] = NotReviewing]
           \/ /\ reviewing' = [reviewing EXCEPT ![r] =
                    [checkout |-> c, step |-> "failed", funds |-> 0]]
              /\ UNCHANGED <<status, released, error, paid, credited, intake>>
        /\ UNCHANGED <<now, stock, mode, expires, payable, reserve, initiated, sold, made,
                       polling, accepting, taking>>

\* The lock is gone when the failure is written down, whatever has become of
\* the checkout since.
RecordFailure(r) ==
    LET c == reviewing[r].checkout
    IN  /\ reviewing[r].step = "failed"
        /\ ~Locked(c)
        /\ SendToReview(c, paid[c], "failed")
        /\ reviewing' = [reviewing EXCEPT ![r] = NotReviewing]
        /\ UNCHANGED <<now, stock, mode, expires, payable, reserve, initiated, sold, made,
                       polling, accepting, taking>>

-----------------------------------------------------------------------------
(* Acceptance of an intake *)

\* Accepting locks the intake row until the transaction ends; the mutated
\* form does not take the lock.
NotLocked(c) == TRUE
Unlocked(c) == \A k \in Clerks : accepting[k].checkout # c

\* A mutated form of Settle that forgets the hold.
SettleHolding(c, outcome) ==
    /\ intake' = [intake EXCEPT ![c] = outcome]
    /\ UNCHANGED released

\* The intake leaves acceptance for good and its checkout lets its hold go.
Settle(c, outcome) ==
    /\ intake' = [intake EXCEPT ![c] = outcome]
    /\ released' = [released EXCEPT ![c] = TRUE]

\* accept_intake compares the items with what is available, goods unlocked.
\* A rejection by policy and an invitation keep the hold.
BeginAccept(k, c, policy) ==
    LET take == [g \in Goods |-> Lesser(payable[c][g], Available(g, Others(c)))]
        short == \E g \in Goods : payable[c][g] > take[g]
    IN  /\ accepting[k] = NotAccepting
        /\ intake[c] \in Open
        /\ mode[c] = "stock"
        /\ Unlocked(c)
        /\ \/ /\ short /\ policy = "reject"
              /\ intake' = [intake EXCEPT ![c] = "rejected"]
              /\ UNCHANGED accepting
           \/ /\ short /\ policy = "invite"
              /\ intake' = [intake EXCEPT ![c] = "awaiting_preorder"]
              /\ UNCHANGED accepting
           \/ /\ short => policy \in {"reduce", "split"}
              /\ accepting' = [accepting EXCEPT ![k] =
                    [checkout |-> c, take |-> take, split |-> short /\ policy = "split"]]
              /\ UNCHANGED intake
        /\ UNCHANGED <<now, stock, session, money, sold, made, polling, reviewing, taking>>

\* The comparison made under the goods' row locks, and a mutated form that
\* relies on the earlier one.
NotCompared(c, take) == TRUE
Enough(c, take) ==
    \A g \in Goods : take[g] > 0 => take[g] <= Available(g, Others(c))

\* What a split intake passes on to production, and a mutated form that
\* passes on only what was reserved nowhere.
Unreserved(c, take, split) ==
    [g \in Goods |-> IF split THEN payable[c][g] - reserve[c][g] ELSE 0]
ToProduction(c, take, split) ==
    [g \in Goods |-> IF split THEN payable[c][g] - take[g] ELSE 0]

\* Every good to be sold is locked and compared again; one that no longer has
\* the units rolls the acceptance back.
CommitAccept(k) ==
    LET c == accepting[k].checkout
        take == accepting[k].take
        split == accepting[k].split
    IN  /\ accepting[k] # NotAccepting
        /\ accepting' = [accepting EXCEPT ![k] = NotAccepting]
        /\ \/ /\ ~Enough(c, take)
              /\ UNCHANGED <<stock, released, order>>
           \/ /\ Enough(c, take)
              /\ stock' = [g \in Goods |-> stock[g] - take[g]]
              /\ sold' = [sold EXCEPT ![c] = take]
              /\ made' = [made EXCEPT ![c] = ToProduction(c, take, split)]
              /\ Settle(c, IF take = Nothing /\ ~split THEN "rejected" ELSE "accepted")
        /\ UNCHANGED <<now, status, mode, expires, error, payable, reserve, money, polling,
                       reviewing, taking>>

\* A pre-order intake becomes a production order for all of its items; so does
\* a stock intake whose customer takes up the invitation.
AcceptPreorder(c) ==
    /\ \/ mode[c] = "preorder" /\ intake[c] \in Open
       \/ mode[c] = "stock" /\ intake[c] = "awaiting_preorder" /\ UsesProduction
    /\ Unlocked(c)
    /\ mode' = [mode EXCEPT ![c] = "preorder"]
    /\ made' = [made EXCEPT ![c] = payable[c]]
    /\ Settle(c, "accepted")
    /\ UNCHANGED <<now, stock, status, expires, error, payable, reserve, money, sold, requests>>

-----------------------------------------------------------------------------
(* Other uses of the shelf *)

\* A direct sale of one or two lines of a good.  Each line alone is compared
\* with what no checkout holds; staff may force a shortage unless units are
\* held.  Nothing is locked.
CheckSale(s, g, first, second, force) ==
    LET free == Available(g, Checkouts)
        shelf == IF stock[g] > 0 THEN stock[g] ELSE 0
        short == first > free \/ second > free
    IN  /\ taking[s] = NotTaking
        /\ short => force /\ shelf = free
        /\ taking' = [taking EXCEPT ![s] =
              [kind |-> "sale", good |-> g, units |-> first + second]]
        /\ UNCHANGED <<now, stock, session, money, order, polling, reviewing, accepting>>

\* A downward stock adjustment or the reversal of a production order checks
\* that the units are in stock, held or not.
CheckAdjustment(s, g, units) ==
    /\ taking[s] = NotTaking
    /\ units <= stock[g]
    /\ taking' = [taking EXCEPT ![s] =
          [kind |-> "adjustment", good |-> g, units |-> units]]
    /\ UNCHANGED <<now, stock, session, money, order, polling, reviewing, accepting>>

\* The movement itself locks the good, not to check it but to subtract.
TakeFromShelf(s) ==
    LET g == taking[s].good
        units == taking[s].units
    IN  /\ taking[s] # NotTaking
        /\ stock[g] - units >= -MaxDeficit
        /\ stock' = [stock EXCEPT ![g] = @ - units]
        /\ taking' = [taking EXCEPT ![s] = NotTaking]
        /\ UNCHANGED <<now, session, money, order, polling, reviewing, accepting>>

\* Purchases, production and upward adjustments bring goods to the shelf.
Restock(g, units) ==
    /\ stock[g] + units <= MaxStock
    /\ stock' = [stock EXCEPT ![g] = @ + units]
    /\ UNCHANGED <<now, session, money, order, requests>>

-----------------------------------------------------------------------------

CheckoutStep(c) ==
    \/ \E basket \in Baskets, policy \in Policies, fulfil \in {"stock", "preorder"} :
          CreateCheckout(c, basket, policy, fulfil)
    \/ CancelUnpaidCheckout(c)
    \/ InitiatePayment(c)
    \/ \E amount \in 1 .. Price : RecordVerifiedPayment(c, amount)
    \/ \E amount \in 1 .. Price : ReversePaymentReceipt(c, amount)
    \/ AcceptPreorder(c)

RequestStep ==
    \/ \E p \in Pollers : ExpireIfNeeded(p) \/ \E c \in Checkouts : ReadForDisplay(p, c)
    \/ \E r \in Reviewers :
          \/ LockForRecovery(r)
          \/ FinishRecovery(r)
          \/ RecordFailure(r)
          \/ \E c \in Checkouts : OpenRecovery(r, c)
    \/ \E k \in Clerks :
          \/ CommitAccept(k)
          \/ \E c \in Checkouts, policy \in Policies : BeginAccept(k, c, policy)

ShelfStep ==
    \/ \E s \in ShelfUsers : TakeFromShelf(s)
    \/ \E s \in ShelfUsers, g \in Goods :
          \/ \E first \in 1 .. MaxUnits, second \in 0 .. MaxUnits, force \in BOOLEAN :
                CheckSale(s, g, first, second, force)
          \/ \E units \in 1 .. MaxUnits : CheckAdjustment(s, g, units)
    \/ \E g \in Goods, units \in 1 .. MaxStock : Restock(g, units)

Next ==
    \/ Tick
    \/ \E c \in Checkouts : CheckoutStep(c)
    \/ RequestStep
    \/ ShelfStep

Spec == Init /\ [][Next]_vars

-----------------------------------------------------------------------------
(* Properties of every run *)

(***************************************************************************)
(* An intake is created only when the unreversed receipts it takes over    *)
(* add up to the checkout's amount, through partial payments, reversals,   *)
(* failed attempts and concurrent recoveries (materialize_paid_checkout).  *)
(* The exception is a recovery that had added them up in full, under the   *)
(* checkout's lock, before a reversal committed.                           *)
(***************************************************************************)
OrderPaidInFull ==
    [][\A c \in Checkouts : intake[c] = "none" /\ intake'[c] # "none" =>
          \/ credited'[c] = Price
          \/ \E r \in Reviewers :
                reviewing[r].checkout = c /\ reviewing[r].step = "summed"
                /\ reviewing[r].funds = Price]_vars

(***************************************************************************)
(* A recovery fails only over a checkout that has no intake at that        *)
(* moment, and nothing but the late write of such a failure puts a         *)
(* checkout that has its intake in paid review (checkout_recover, and the  *)
(* exception handler of attempt_materialize_paid_checkout, which writes    *)
(* after the lock is gone and without looking at the intake).              *)
(***************************************************************************)
OrderReviewedOnlyLate ==
    [][/\ \A r \in Reviewers :
             reviewing'[r].step = "failed" /\ reviewing[r].step # "failed" =>
                intake[reviewing[r].checkout] = "none"
       /\ \A c \in Checkouts :
             intake'[c] # "none" /\ status'[c] = "paid_review" =>
                \/ intake[c] # "none" /\ status[c] = "paid_review"
                \/ \E r \in Reviewers :
                      /\ reviewing[r].checkout = c /\ reviewing[r].step = "failed"
                      /\ reviewing'[r] = NotReviewing]_vars

(***************************************************************************)
(* An intake that was accepted or rejected is never processed again, nor   *)
(* its quantities changed, by another clerk, a customer's switch to        *)
(* pre-order, or a second materialization (accept_intake).                 *)
(***************************************************************************)
OrderOutcomeIsFinal ==
    [][\A c \in Checkouts : intake[c] \in {"accepted", "rejected"} =>
          /\ intake'[c] = intake[c]
          /\ sold'[c] = sold[c]
          /\ made'[c] = made[c]]_vars

(***************************************************************************)
(* Whatever happened to the stock since the customer paid, an accepted     *)
(* order ships or produces every unit that was paid for; only an order     *)
(* that is reduced gets less, which then ships something and passes        *)
(* nothing on to production (accept_intake, switch_intake_to_preorder).    *)
(***************************************************************************)
OrderDeliversWhatWasPaid ==
    \A c \in Checkouts : intake[c] = "accepted" =>
        \/ \A g \in Goods : sold[c][g] + made[c][g] = payable[c][g]
        \/ /\ "reduce" \in Policies
           /\ sold[c] # Nothing /\ made[c] = Nothing
           /\ \A g \in Goods : sold[c][g] <= payable[c][g]

(***************************************************************************)
(* Shipping an intake leaves on the shelf every unit held for the other    *)
(* checkouts, although the quantities were computed before the goods were  *)
(* locked and other requests ran in between (_make_physical_sale).         *)
(***************************************************************************)
ShipmentSparesOtherHolds ==
    [][\A c \in Checkouts, g \in Goods : sold'[c][g] > sold[c][g] =>
          Reserved(g, Checkouts)' <= stock'[g]]_vars

-----------------------------------------------------------------------------
(* Properties of a shelf that only checkouts take from: ShelfUsers = {} *)

(***************************************************************************)
(* Every unit reserved for a checkout is in stock, through expiry, late    *)
(* payment, recovery without a hold, cancellation and acceptance           *)
(* (reserved_stock_for_good, create_checkout).                             *)
(***************************************************************************)
HoldsCovered == \A g \in Goods : Reserved(g, Checkouts) <= stock[g]

(***************************************************************************)
(* A checkout paid while its reservation is valid is never sent to review  *)
(* for want of stock (materialize_paid_checkout).                          *)
(***************************************************************************)
TimelyPaymentIsHonoured ==
    [][\A c \in Checkouts : status[c] = "awaiting_payment" /\ ~Late(c) =>
          error'[c] # "stock"]_vars

(***************************************************************************)
(* An intake accepted from stock while its checkout's hold stands is       *)
(* shipped at least the units that were reserved (accept_intake).          *)
(***************************************************************************)
HeldOrderShipsReservedUnits ==
    [][\A c \in Checkouts :
          Active(c) /\ intake[c] \in Open /\ intake'[c] = "accepted" /\ mode'[c] = "stock"
          => \A g \in Goods : sold'[c][g] >= reserve[c][g]]_vars

\* What each checkout holds, in the terms of StockEscrow.
Holding == [c \in Checkouts |-> IF Active(c) THEN reserve[c] ELSE Nothing]

Escrow == INSTANCE StockEscrow WITH
    Holders <- Checkouts,
    onHand <- stock,
    held <- Holding

(***************************************************************************)
(* Reservations keep the promise of StockEscrow: checkouts, expiry,        *)
(* payments, recovery and acceptance are its reservations, lapses and      *)
(* shipments (checkout_services.py, services.py).                          *)
(***************************************************************************)
EscrowKept == Escrow!Spec

-----------------------------------------------------------------------------
(* Properties of checkouts no display request writes to: Pollers = {} *)

(***************************************************************************)
(* A checkout whose full price is verified but which has no intake is in   *)
(* paid review, where staff can recover it (attempt_materialize and        *)
(* checkout_recover; test_checkout_boundary.py:198).                       *)
(***************************************************************************)
PaidCheckoutIsRecoverable ==
    \A c \in Checkouts : paid[c] = Price => status[c] = "paid_review"

-----------------------------------------------------------------------------
(* What the comments say and the code does not do *)

(***************************************************************************)
(* The reservation stays attached to a materialized checkout until its     *)
(* intake is accepted (docstring, checkout_services.py:408).               *)
(***************************************************************************)
OrderKeepsHoldUntilAccepted ==
    \A c \in Checkouts : intake[c] = "pending" => ~released[c]
=============================================================================
