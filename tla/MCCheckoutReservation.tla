----------------------- MODULE MCCheckoutReservation -----------------------
(* CheckoutReservation on small instances. *)
EXTENDS CheckoutReservation, TLC

\* Checkouts and goods are interchangeable; every checked formula treats them
\* alike.
Symmetry == Permutations(Checkouts) \cup Permutations(Goods)
=============================================================================
