\* Two or three requests; one row of each table, the codes 1 (taken) and 3 (free); a
\* salary that rounds at every step; one permission, one address and one tax number to
\* compete for.
SPECIFICATION Spec
CONSTANTS
  Req = {r1, r2, r3}
  Nobody = Nobody
  Scenes <- MCScenes
  Olds = 1
  Codes = {1, 3}
  Amounts = {1}
  Dates <- MCDates
  Salaries = {0, 1234567}
  Permissions = {p1}
  Member = Member
  Emails = {e1}
  TaxNumbers = {n1}
SYMMETRY Symmetry
INVARIANTS TypeOK ReferencesResolve AutoCodeAccepted SingleMain TrialBalances
  BalancesAreNamed ReportBounded PayrollAddsUp CreatedIsKept FilesAccountedFor
  DoneIsDated AccessAsGranted
PROPERTIES WritesAreGuarded
\* Every request answers and no more come.
CHECK_DEADLOCK FALSE
