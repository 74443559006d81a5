\* A sales and a purchase invoice, three requests of any kind.
SPECIFICATION FairSpec
CONSTANTS
  Req = {r1, r2, r3}
  Nobody = Nobody
  s1 = s1
  s2 = s2
  b1 = b1
  Invoice = {s1, b1}
  Kind <- MCKind
  Amount = {1, 2}
  InvoiceTotal = {2}
INVARIANTS TypeOK PaidWithinTotal PaidIsBacked StatusMatchesPaid
PROPERTY EveryRequestAnswered
CHECK_DEADLOCK FALSE
