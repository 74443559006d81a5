------------------------------ MODULE Personnel ------------------------------
(***************************************************************************)
(* hr/hr.service.ts beyond the employees themselves (which are rows of     *)
(* MasterData): payrolls, computed by payroll-calculator.ts, and           *)
(* attendance.  Amounts are in 1/10000 of a lira, the precision of the DTO *)
(* and of the columns; the calculator rounds to kurus, 100 of them.        *)
(***************************************************************************)
EXTENDS MasterData

CONSTANTS Dates,     \* the dates a client may give, as <<month, day>>
          Salaries   \* the salaries, bonuses and deductions a client may give

ASSUME PersonnelAssumption ==
  /\ Dates \subseteq Nat \X Nat
  /\ Salaries \subseteq Nat /\ 0 \in Salaries

VARIABLES
  payrolls,    \* the table payrolls, by the request that created the row
  attendances, \* the table attendances: the last writer, by employee and date
  sheet        \* per request: the payroll or attendance asked for

personnelVars == <<payrolls, attendances, sheet>>

Employees == {"employee"} \X ((1 .. Olds) \cup Req)

Breakdown == [gross : Int, sgkEmployee : Int, unemployment : Int, tax : Int,
              sgkEmployer : Int, other : Int, bonuses : Int, net : Int]

Payroll == [employee : Employees, period : Nat, pay : Breakdown,
            status : {"DRAFT", "APPROVED"}]

NoPay == [gross |-> 0, sgkEmployee |-> 0, unemployment |-> 0, tax |-> 0,
          sgkEmployer |-> 0, other |-> 0, bonuses |-> 0, net |-> 0]

Unsaid == -1   \* dto.grossSalary is left out

NoSheet == [employee |-> <<"employee", 1>>, date |-> <<0, 0>>, gross |-> Unsaid,
            bonuses |-> 0, other |-> 0, pay |-> NoPay, payroll |-> Nobody]

PersonnelInit ==
  /\ payrolls = [r \in {} |-> NoPay]
  /\ attendances = [x \in {} |-> Nobody]
  /\ sheet = [r \in Req |-> NoSheet]

-----------------------------------------------------------------------------
(* payroll-calculator.ts                                                   *)

\* round: to kurus, halves up.
Rounded(x) == ((x + 50) \div 100) * 100

\* round(x * n / d), where x * n / d need not be a whole number of units.
Share(x, n, d) == ((x * n + 50 * d) \div (100 * d)) * 100

SgkEmployee(taxable) == Share(taxable, 14, 100)
Unemployment(taxable) == Share(taxable, 1, 100)
IncomeTax(taxable) ==
  Share(taxable - SgkEmployee(taxable) - Unemployment(taxable), 15, 100)
StampTax(taxable) == Share(taxable, 759, 100000)

\* Mutant: the stamp tax is not deducted from the net salary.
DeductionsNoStamp(taxable, other) ==
  Rounded(SgkEmployee(taxable) + Unemployment(taxable) + IncomeTax(taxable) + other)

Deductions(taxable, other) ==
  Rounded(SgkEmployee(taxable) + Unemployment(taxable) + IncomeTax(taxable)
            + StampTax(taxable) + other)

\* calculatePayroll, as createPayroll stores it: the two taxes in one column.
CalculatePayroll(gross, bonuses, other) ==
  LET taxable == gross + bonuses
  IN [gross |-> gross, sgkEmployee |-> SgkEmployee(taxable),
      unemployment |-> Unemployment(taxable),
      tax |-> IncomeTax(taxable) + StampTax(taxable),
      sgkEmployer |-> Share(taxable, 41, 200), other |-> other, bonuses |-> bonuses,
      net |-> Rounded(taxable - Deductions(taxable, other))]

StartOfMonth(date) == date[1]

-----------------------------------------------------------------------------
PayrollSheet(id, date, gross, bonuses, other) ==
  [NoSheet EXCEPT !.employee = id, !.date = date, !.gross = gross, !.bonuses = bonuses,
                  !.other = other]

StartPayroll(r) ==
  \E id \in Peers("employee"), date \in Dates, gross \in Salaries \cup {Unsaid},
     bonuses \in Salaries, other \in Salaries :
    /\ Routed(<<"create", "payroll">>)
    /\ Begin(r, <<"create", "payroll">>, "find payee")
    /\ sheet' = [sheet EXCEPT ![r] = PayrollSheet(id, date, gross, bonuses, other)]
    /\ UNCHANGED <<masterVars, payrolls, attendances>>

StartApprove(r) ==
  \E p \in DOMAIN payrolls :
    /\ Routed(<<"approve", "payroll">>)
    /\ Begin(r, <<"approve", "payroll">>, "find payroll")
    /\ sheet' = [sheet EXCEPT ![r].payroll = p]
    /\ UNCHANGED <<masterVars, payrolls, attendances>>

StartAttendance(r) ==
  \E id \in Peers("employee"), date \in Dates :
    /\ Routed(<<"record", "attendance">>)
    /\ Begin(r, <<"record", "attendance">>, "find attendee")
    /\ sheet' = [sheet EXCEPT ![r] = [NoSheet EXCEPT !.employee = id, !.date = date]]
    /\ UNCHANGED <<masterVars, payrolls, attendances>>

PersonnelStart(r) ==
  Idle(r) /\ (StartPayroll(r) \/ StartApprove(r) \/ StartAttendance(r))

\* The employee, for its salary; the breakdown is computed before the next await.
FindPayee(r) ==
  /\ pc[r] = "find payee"
  /\ LET s == sheet[r]
         gross == IF s.gross = Unsaid THEN rows[s.employee].value ELSE s.gross
     IN IF s.employee \in DOMAIN rows
          THEN /\ sheet' = [sheet EXCEPT ![r].pay =
                              CalculatePayroll(gross, s.bonuses, s.other)]
               /\ Goto(r, "find period")
          ELSE Answer(r, FALSE) /\ UNCHANGED sheet
  /\ UNCHANGED <<masterVars, payrolls, attendances>>

\* A payroll of this employee and month.
PayrollExists(r) ==
  \E p \in DOMAIN payrolls : /\ payrolls[p].employee = sheet[r].employee
                             /\ payrolls[p].period = StartOfMonth(sheet[r].date)

FindPeriod(r) ==
  /\ pc[r] = "find period"
  /\ IF PayrollExists(r) THEN Answer(r, FALSE) ELSE Goto(r, "insert payroll")
  /\ UNCHANGED <<masterVars, personnelVars>>

Inserted(r) == [employee |-> sheet[r].employee, period |-> StartOfMonth(sheet[r].date),
                pay |-> sheet[r].pay, status |-> "DRAFT"]

\* Mutant: the insert is an upsert by employee and month.
InsertPayrollOver(r) ==
  /\ pc[r] = "insert payroll"
  /\ payrolls' = [p \in {q \in DOMAIN payrolls :
                           \/ payrolls[q].employee # sheet[r].employee
                           \/ payrolls[q].period # StartOfMonth(sheet[r].date)} \cup {r} |->
                    IF p = r THEN Inserted(r) ELSE payrolls[p]]
  /\ Answer(r, TRUE)
  /\ UNCHANGED <<masterVars, attendances, sheet>>

\* @@unique([employeeId, period]) refuses a second row.
InsertPayroll(r) ==
  /\ pc[r] = "insert payroll"
  /\ IF PayrollExists(r) THEN UNCHANGED payrolls
       ELSE payrolls' = [p \in DOMAIN payrolls \cup {r} |->
                           IF p = r THEN Inserted(r) ELSE payrolls[p]]
  /\ Answer(r, ~PayrollExists(r))
  /\ UNCHANGED <<masterVars, attendances, sheet>>

FindPayroll(r) ==
  /\ pc[r] = "find payroll"
  /\ Goto(r, "approve")
  /\ UNCHANGED <<masterVars, personnelVars>>

ApprovePayroll(r) ==
  /\ pc[r] = "approve"
  /\ payrolls' = [payrolls EXCEPT ![sheet[r].payroll].status = "APPROVED"]
  /\ Answer(r, TRUE)
  /\ UNCHANGED <<masterVars, attendances, sheet>>

FindAttendee(r) ==
  /\ pc[r] = "find attendee"
  /\ IF sheet[r].employee \in DOMAIN rows THEN Goto(r, "upsert") ELSE Answer(r, FALSE)
  /\ UNCHANGED <<masterVars, personnelVars>>

\* The upsert by its unique key is one statement.
RecordAttendance(r) ==
  /\ pc[r] = "upsert"
  /\ LET key == <<sheet[r].employee, sheet[r].date>>
     IN attendances' = [k \in DOMAIN attendances \cup {key} |->
                          IF k = key THEN r ELSE attendances[k]]
  /\ Answer(r, TRUE)
  /\ UNCHANGED <<masterVars, payrolls, sheet>>

PersonnelWork(r) ==
  \/ FindPayee(r) \/ FindPeriod(r) \/ InsertPayroll(r)
  \/ FindPayroll(r) \/ ApprovePayroll(r)
  \/ FindAttendee(r) \/ RecordAttendance(r)

-----------------------------------------------------------------------------
PersonnelTypeOK ==
  /\ DOMAIN payrolls \subseteq Req
  /\ \A p \in DOMAIN payrolls : payrolls[p] \in Payroll
  /\ DOMAIN attendances \subseteq Employees \X Dates
  /\ \A k \in DOMAIN attendances : attendances[k] \in Req

\* What a payroll pays, withholds and deducts is what it was computed from, but for
\* the two roundings of a kurus each that the net salary has gone through.
AddsUp(pay) ==
  (pay.gross + pay.bonuses)
    - (pay.net + pay.tax + pay.sgkEmployee + pay.unemployment + pay.other)
  \in -100 .. 100

PayrollAddsUp == \A p \in DOMAIN payrolls : AddsUp(payrolls[p].pay)

\* A payroll whose creation was answered is in the table, the only one of its employee
\* and month.
PayrollIsKept ==
  \A r \in Req :
    At(r, "create", "payroll", "ok") =>
      /\ r \in DOMAIN payrolls /\ payrolls[r].pay = sheet[r].pay
      /\ \A p \in DOMAIN payrolls \ {r} :
           payrolls[p].employee # sheet[r].employee
           \/ payrolls[p].period # payrolls[r].period
=============================================================================
