\* Two warehouses, one product, three requests of any kind, every interleaving
\* and failure.
SPECIFICATION Spec
CONSTANTS
  Req = {r1, r2, r3}
  Nobody = Nobody
  w1 = w1
  w2 = w2
  p1 = p1
  Warehouse = {w1, w2}
  Product = {p1}
  Quantity = {2}
  UnitCost = {500}
  Opening <- MCOpening
  NoCost = NoCost
SYMMETRY Symmetry
INVARIANTS TypeOK Reconciled TransfersBalance
PROPERTY BookSpec
\* Every request is handled once: the system stops when all are answered.
CHECK_DEADLOCK FALSE
