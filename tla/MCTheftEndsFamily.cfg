\* One or two tabs, three requests of any kind.
SPECIFICATION Spec
CONSTANTS
  Req = {r1, r2, r3}
  Nobody = Nobody
  Tab = {t1, t2}
  Gone = Gone
  First = First
  Company = {c1}
  Home = c1
SYMMETRY Symmetry
INVARIANT TheftEndsFamily
CHECK_DEADLOCK FALSE
