\* A till, transfers and adjustments on two warehouses.
SPECIFICATION FairSpec
CONSTANTS
  Req = {r1, r2}
  Nobody = Nobody
  w1 = w1
  w2 = w2
  p1 = p1
  p2 = p2
  t1 = t1
  Warehouse = {w1, w2}
  Product = {p1, p2}
  Quantity = {1}
  UnitCost = {}
  Opening <- MCOpening
  NoCost = NoCost
  Terminal = {t1}
  Basket <- MCBasket
  Tender = {1, 4}
INVARIANTS TypeOK SalesMatchStock TillsNeverOversell
PROPERTY EveryRequestAnswered
CHECK_DEADLOCK FALSE
