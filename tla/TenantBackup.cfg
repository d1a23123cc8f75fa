SPECIFICATION Spec
CONSTANTS
    good = good
    batch = batch
    sale = sale
    item = item
    entry = entry
    movement = movement
    sequence = sequence
    customer = customer
    place = place
    person = person
    g1 = g1
    g2 = g2
    b1 = b1
    s1 = s1
    s2 = s2
    i1 = i1
    i2 = i2
    e1 = e1
    e2 = e2
    m1 = m1
    c1 = c1
    p1 = p1
    q1 = q1
    u1 = u1
    ofSale = ofSale
    ofGood = ofGood
    ofBatch = ofBatch
    toCustomer = toCustomer
    reverses = reverses
    atPlace = atPlace
    creator = creator
    ann = ann
    bob = bob
    ada = ada
    ben = ben
    None = None
    Tenant = Tenant
    Target = Target
    Tables <- MCTables
    Rows <- MCRows
    TableOf <- MCTableOf
    Links <- MCLinks
    From <- MCFrom
    To <- MCTo
    OwnerLink <- MCOwnerLink
    Reading <- MCReading
    Required = {ofSale, ofGood}
    Owned = {good, batch, sale, entry, movement, sequence, customer, place, person}
    Singletons = {sequence}
    Stamped = {sale, person}
    Named = {good, customer, place}
    MainNamed = {p1}
    Customer = customer
    Location = place
    User = person
    Naming = {toCustomer}
    Requests = {ada, ben}
    Accounts = {ann, bob}
    MaxWork = 2
    Desks = {sequence, entry, customer}
    Offices <- MCOffices
    Scenes <- MCScenes
CHECK_DEADLOCK FALSE
INVARIANTS
    LinksSurvive
    OnlyTheTenantArrives
    QuietBackupRestores
PROPERTIES
    TablesAreNotMerged
