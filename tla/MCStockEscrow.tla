--------------------------- MODULE MCStockEscrow ---------------------------
(* StockEscrow on a small instance. *)
EXTENDS StockEscrow, TLC

\* Holders and goods are interchangeable.
Symmetry == Permutations(Holders) \cup Permutations(Goods)
=============================================================================
