\* Three holders, two goods.
CONSTANTS
    h1 = h1
    h2 = h2
    h3 = h3
    g1 = g1
    g2 = g2
    Holders = {h1, h2, h3}
    Goods = {g1, g2}
    MaxUnits = 2
    MaxStock = 3
SPECIFICATION Spec
SYMMETRY Symmetry
INVARIANT HoldsCovered
