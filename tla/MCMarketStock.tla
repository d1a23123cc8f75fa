---- MODULE MCMarketStock ----
\* MarketStock in six businesses: a product that is not for shelf sale, which two
\* clerks sell, two lines at a time, and adjust; listed ones that are distributed,
\* with and without backdating; products whose form is edited, in the market and
\* on the shelf; and goods a wholesaler sells, two lines of one product at a time.
EXTENDS MarketStock
CONSTANTS ann, bob
House(listed, pack0, lots0, clerks) ==
    [vertical |-> "production", listed |-> listed, pack |-> pack0, edited |-> FALSE,
     backdated |-> FALSE, adjusted |-> FALSE, repeats |-> FALSE, lots |-> lots0,
     sales |-> 2, clerks |-> clerks]
Unlisted      == [House(FALSE, 2, 1, {ann, bob}) EXCEPT !.sales = 1, !.adjusted = TRUE,
                     !.repeats = TRUE]
Distributed   == House(TRUE, 2, 2, {})
Backdated     == [House(TRUE, 1, 2, {}) EXCEPT !.backdated = TRUE]
EditedMarket  == [House(FALSE, 2, 1, {}) EXCEPT !.edited = TRUE]
EditedShelf   == [House(TRUE, 2, 0, {ann}) EXCEPT !.edited = TRUE]
Wholesale     == [House(TRUE, 1, 2, {ann}) EXCEPT !.vertical = "wholesale", !.repeats = TRUE]
MCHouses == {Unlisted, Distributed, Backdated, EditedMarket, EditedShelf, Wholesale}
====
