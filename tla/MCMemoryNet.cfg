\* Sends, batches, partitions, kills and returns in any order.
SPECIFICATION Spec
CONSTANTS
    a = a
    b = b
    c = c
    A = A
    B = B
    C = C
    ra = ra
    rb = rb
    rc = rc
    w1 = w1
    Nothing = Nothing
    Addresses <- MCAddresses
    NetEndpoints <- MCEndpoints
    HomeOf <- MCHomeOf
    ReceiptOf <- MCReceiptOf
    Watches = {w1}
    Routes <- MCRoutes
    Batches <- MCBatches
    Binders = {a, b}
    Mortal = {A, B}
    Borders <- MCBorders
    Handles = {1, 2}
    MaxSends = 3
    MaxKills = 1
INVARIANT
    InOrder
PROPERTY
    NothingVanishes
