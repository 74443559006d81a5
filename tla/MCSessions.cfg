\* One or two tabs, three requests of any kind.
SPECIFICATION Spec
CONSTANTS
  Req = {r1, r2, r3}
  Nobody = Nobody
  Tab = {t1, t2}
  Gone = Gone
  First = First
  Company = {c1}
  Home = c1
SYMMETRY Symmetry
INVARIANTS TypeOK ReplacedIsRevoked NoFalseAlarm StoredIsUsable
\* Every request is handled once: the system stops when all are answered.
CHECK_DEADLOCK FALSE
