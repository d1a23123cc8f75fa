---- MODULE MCTenantBackup ----
\* TenantBackup over ten tables of the application: a raw database with rows of
\* another tenant, an old fixture with and without customers and locations, and
\* a backup of one tenant made at rest or at work; two imports, one after the
\* other or overlapping.
EXTENDS TenantBackup
CONSTANTS good, batch, sale, item, entry, movement, sequence, customer, place, person,
    g1, g2, b1, s1, s2, i1, i2, e1, e2, m1, c1, p1, q1, u1,
    ofSale, ofGood, ofBatch, toCustomer, reverses, atPlace, creator, ann, bob, ada, ben
MCTables == {good, batch, sale, item, entry, movement, sequence, customer, place, person}
MCRows == {g1, g2, b1, s1, s2, i1, i2, e1, e2, m1, c1, p1, q1, u1}
MCTableOf ==
    [x \in MCRows |->
        CASE x \in {g1, g2} -> good [] x = b1 -> batch [] x \in {s1, s2} -> sale [] x \in {i1, i2} -> item
          [] x \in {e1, e2} -> entry [] x = m1 -> movement [] x = q1 -> sequence
          [] x = c1 -> customer [] x = p1 -> place [] OTHER -> person]
MCLinks == {ofSale, ofGood, ofBatch, toCustomer, reverses, atPlace, creator}
MCFrom ==
    [k \in MCLinks |->
        CASE k \in {ofSale, ofGood, ofBatch} -> item [] k \in {toCustomer, creator} -> sale
          [] k = reverses -> entry [] OTHER -> movement]
MCTo ==
    [k \in MCLinks |->
        CASE k = ofSale -> sale [] k = ofGood -> good [] k = ofBatch -> batch [] k = toCustomer -> customer
          [] k = reverses -> entry [] k = atPlace -> place [] OTHER -> person]
MCOwnerLink == [t \in {item} |-> ofSale]
MCReading == <<entry, good, place, movement, customer, sequence, batch, sale, item>>

\* An office whose second sale and good and whose batch belong to `other`; what
\* the second item, the first entry and the first sale lead to.
Row(tenant, to) ==
    [tenant |-> tenant, ref |-> [k \in MCLinks |-> IF k \in DOMAIN to THEN to[k] ELSE None]]
Item(its, itsGood, itsBatch) ==
    [k \in {ofSale, ofGood, ofBatch} |->
        CASE k = ofSale -> its [] k = ofGood -> itsGood [] OTHER -> itsBatch]
Office(rows, other, second, back, to) ==
    [x \in rows |->
        CASE x \in {g1, c1, p1, q1, u1} -> Row(Tenant, << >>)
          [] x = s1 -> Row(Tenant, [k \in {toCustomer, creator} |-> IF k = creator THEN u1 ELSE to])
          [] x = i1 -> Row(None, Item(s1, g1, None))
          [] x = i2 -> Row(None, second)
          [] x = e1 -> Row(Tenant, [k \in {reverses} |-> back])
          [] x = e2 -> Row(Tenant, [k \in {reverses} |-> e1])
          [] x = m1 -> Row(Tenant, [k \in {atPlace} |-> p1])
          [] OTHER  -> Row(other, << >>)]
Seconds == {Item(s1, g1, b1), Item(s1, g2, None), Item(s2, g1, None), Item(s2, g2, b1)}
MCOffices ==
    {Office(MCRows, None, second, back, to) :
        second \in Seconds, back \in {None, e2}, to \in {None, c1}}
    \cup {Office(MCRows \ {i1, i2, m1}, Tenant, << >>, None, c1),
          Office(MCRows \ {g2, b1, s2, i2}, Tenant, << >>, None, c1),
          Office(MCRows, Tenant, Item(s1, g2, b1), None, c1)}
Scene(kind, omitted, quiet, solo, known) ==
    [kind |-> kind, omitted |-> omitted, quiet |-> quiet, solo |-> solo,
     known |-> [x \in MCRows |-> IF x = u1 THEN known ELSE {}]]
MCScenes ==
    {Scene("sqlite", {}, TRUE, solo, known) : solo \in BOOLEAN, known \in {{}, {ann}, {ann, bob}}}
    \cup {Scene("fixture", omitted, TRUE, solo, {}) :
            omitted \in {{person}, {person, customer, place}}, solo \in BOOLEAN}
    \cup {Scene("backup", {}, quiet, TRUE, {}) : quiet \in BOOLEAN}
====
