\* Two requests of any kind on three orders, a quotation and two warehouses, and
\* three on one order.
SPECIFICATION Spec
CONSTANTS
  Req = {r1, r2, r3}
  Nobody = Nobody
  w1 = w1
  w2 = w2
  p1 = p1
  p2 = p2
  o1 = o1
  o2 = o2
  o3 = o3
  q1 = q1
  a = a
  b = b
  Warehouse = {w1, w2}
  Product = {p1, p2}
  Quantity = {1}
  UnitCost = {}
  Opening <- MCOpening
  NoCost = NoCost
  Order = {o1, o2, o3}
  Slot = {a, b}
  ProductOf <- MCProductOf
  Ordered = {1}
  Quotation = {q1}
  InitialOrders <- OneOfEach
SYMMETRY Symmetry
CONSTRAINT ThirdOnSameOrder
INVARIANTS TypeOK DeliveredIsShipped DeliveredWhole ShippedWasConfirmed
  LedgerMatchesStock
\* Every request is handled once: the system stops when all are answered.
CHECK_DEADLOCK FALSE
