---- MODULE MCBookkeeping ----
\* Bookkeeping in offices that keep one or two books: all of them with requests
\* one at a time, and each of them with two clerks at once; and for web orders
\* from the shelf, to production and both, with and without offcut, Finance,
\* orders that staff mark as paid, and reversals.
EXTENDS Bookkeeping
CONSTANTS ann, bob
Office(books, stockroom, edited, corrects, most, solo, dies) ==
    [books |-> books, stockroom |-> stockroom, edited |-> edited, corrects |-> corrects,
     lines |-> most, solo |-> solo, dies |-> dies]
Closed == Office({}, FALSE, FALSE, FALSE, 1, TRUE, FALSE)
MCOffices ==
    {Closed,
     Office({"purchase", "expense"}, TRUE, FALSE, FALSE, 1, TRUE, FALSE),
     Office({"purchase"}, TRUE, FALSE, TRUE, 2, TRUE, FALSE),
     Office({"sale"}, FALSE, FALSE, TRUE, 1, TRUE, FALSE),
     Office({"purchase"}, FALSE, TRUE, FALSE, 1, FALSE, FALSE),
     Office({"purchase"}, TRUE, FALSE, FALSE, 2, FALSE, FALSE),
     Office({"sale"}, FALSE, FALSE, TRUE, 1, FALSE, FALSE),
     Office({"expense"}, FALSE, TRUE, FALSE, 1, FALSE, TRUE),
     Office({"expense"}, FALSE, FALSE, FALSE, 1, FALSE, FALSE)}
MCNoOffice == {Closed}

\* What is paid for an order is the total of its own sales, or more when it was
\* reduced.
Order(price, reduced, marks, finance, corrects, reverses, crossing) ==
    [price |-> price, payable |-> price[Shelf] + price[Main] + reduced, marks |-> marks,
     finance |-> finance, corrects |-> corrects, reverses |-> reverses, crossing |-> crossing]
NoOrder == Order(<<0, 0, 0>>, 0, FALSE, FALSE, FALSE, FALSE, FALSE)
MCShops ==
    {NoOrder,
     Order(<<2, 0, 1>>, 0, TRUE, TRUE, FALSE, FALSE, FALSE),
     Order(<<1, 0, 2>>, 0, FALSE, FALSE, FALSE, TRUE, FALSE),
     Order(<<1, 0, 2>>, 0, FALSE, FALSE, FALSE, FALSE, FALSE),
     Order(<<0, 0, 2>>, 1, FALSE, TRUE, TRUE, FALSE, FALSE),
     Order(<<0, 0, 2>>, 0, FALSE, TRUE, FALSE, TRUE, FALSE),
     Order(<<0, 1, 2>>, 0, FALSE, TRUE, FALSE, TRUE, FALSE),
     Order(<<1, 0, 1>>, 1, TRUE, TRUE, FALSE, TRUE, FALSE),
     Order(<<2, 0, 0>>, 1, FALSE, TRUE, FALSE, TRUE, TRUE),
     Order(<<1, 1, 1>>, 0, TRUE, FALSE, FALSE, TRUE, TRUE)}
\* Orders for production alone, with offcut for another customer.
MCOffcut == {Order(<<0, 1, p>>, 0, m, FALSE, FALSE, FALSE, FALSE) : p \in {1, 2}, m \in BOOLEAN}
====
