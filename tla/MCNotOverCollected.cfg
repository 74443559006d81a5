\* Two requests on one sales invoice.
SPECIFICATION Spec
CONSTANTS
  Req = {r1, r2}
  Nobody = Nobody
  s1 = s1
  s2 = s2
  b1 = b1
  Invoice = {s1}
  Kind <- MCKind
  Amount = {1, 2}
  InvoiceTotal = {2, 3}
SYMMETRY Symmetry
INVARIANT NotOverCollected
CHECK_DEADLOCK FALSE
