\* Two warehouses, one product, two requests of any kind, every interleaving
\* and failure.
SPECIFICATION Spec
CONSTANTS
  Req = {r1, r2}
  Nobody = Nobody
  w1 = w1
  w2 = w2
  p1 = p1
  Warehouse = {w1, w2}
  Product = {p1}
  Quantity = {1, 2}
  UnitCost = {100, 500}
  Opening <- MCOpening
  NoCost = NoCost
SYMMETRY Symmetry
INVARIANT AverageIsWeighted
\* Every request is handled once: the system stops when all are answered.
CHECK_DEADLOCK FALSE
