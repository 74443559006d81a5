\* One or two tabs, three requests of any kind.
SPECIFICATION Spec
CONSTANTS
  Req = {r1, r2}
  Nobody = Nobody
  Tab = {t1, t2}
  Gone = Gone
  First = First
  Company = {c1, c2}
  Home = c1
SYMMETRY Symmetry
INVARIANT CompanyIsKept
CHECK_DEADLOCK FALSE
