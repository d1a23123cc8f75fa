------------------------- MODULE MCCommercePayments -------------------------
(* CommercePayments on small instances. *)
EXTENDS CommercePayments, TLC

\* Two payments online, two at the counter, and one at the counter that is sent
\* to the terminal again, or paid in cash by halves.
PaymentScenes ==
    {[surface |-> "public", payments |-> 2, charges |-> 1, receipts |-> 0],
     [surface |-> "pos", payments |-> 2, charges |-> 1, receipts |-> 1],
     [surface |-> "pos", payments |-> 1, charges |-> 2, receipts |-> 2]}
=============================================================================
