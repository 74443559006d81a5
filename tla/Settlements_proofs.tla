-------------------------- MODULE Settlements_proofs ------------------------
(***************************************************************************)
(* Theorems about Settlements, for every number of requests and invoices:  *)
(* type correctness, that no invoice shows more paid than its total, that  *)
(* every paid amount is backed by committed money, and that the status     *)
(* tells the paid amount.                                                  *)
(*                                                                         *)
(* None of the last three is inductive: what keeps them is what a          *)
(* settlement knows between its read and its commit.  SettleInv says it.   *)
(***************************************************************************)
EXTENDS Settlements, Shared_proofs

\* A settlement that has read its invoice.
Settling(r) ==
  pc[r] = "update" \/ (pc[r] \in {"record", "commit"} /\ doc[r] # Nobody)

\* A row is held only by a settlement of it, between its update and its commit;
\* a row nobody holds is as committed.
Locks ==
  \A v \in Invoice :
    /\ invoices.lock[v] = Nobody => invoices.work[v] = invoices.now[v]
    /\ invoices.lock[v] # Nobody =>
         /\ pc[invoices.lock[v]] \in {"record", "commit"}
         /\ doc[invoices.lock[v]] = v

\* A request that is to read or write an invoice has one, and a settlement has an
\* amount.
Arguments ==
  \A r \in Req :
    /\ pc[r] \in {"insert", "status", "read", "update"} => doc[r] \in Invoice
    /\ op[r] = "settle" => amount[r] > 0
    /\ pc[r] \in {"read", "update", "record", "commit"} => op[r] = "settle"

\* The amount fits what was outstanding when the invoice was read, its total has
\* not changed since, and what was paid then was backed.
ReadFits ==
  \A r \in Req : Settling(r) =>
    /\ found[r].paid + amount[r] <= found[r].total
    /\ found[r].total = invoices.now[doc[r]].total
    /\ found[r].paid <= settled[doc[r]]
    /\ invoices.now[doc[r]].status # Absent

\* What the holder of a row has written in it was computed from what it read.
Written ==
  \A v \in Invoice : invoices.lock[v] # Nobody =>
    LET r == invoices.lock[v]
        s == Settlement(found[r], amount[r])
    IN  /\ invoices.work[v].total = found[r].total
        /\ invoices.work[v].paid = s.paid
        /\ invoices.work[v].status = s.status

SettleInv ==
  /\ TypeOK /\ Locks /\ Arguments /\ ReadFits /\ Written
  /\ PaidWithinTotal /\ PaidIsBacked /\ StatusMatchesPaid

-----------------------------------------------------------------------------
\* The status and the paid amount a settlement writes fit each other when its
\* amount fits what was outstanding.
LEMMA SettlementFacts ==
  ASSUME NEW row \in InvoiceRow, NEW a \in Nat, a > 0, row.paid + a <= row.total
  PROVE  LET s == Settlement(row, a)
         IN  /\ s.paid \in Nat /\ s.paid = row.paid + a
             /\ s.status \in {"PAID", "PARTIALLY_PAID"}
             /\ s.status = "PAID" => s.paid = row.total
             /\ s.status = "PARTIALLY_PAID" => 0 < s.paid /\ s.paid < row.total
BY DEF Settlement, InvoiceRow

\* The invoice of a settling request.
LEMMA SettlingInvoice ==
  ASSUME TypeOK, Arguments, NEW r \in Req, Settling(r)
  PROVE  doc[r] \in Invoice /\ amount[r] \in Nat /\ amount[r] > 0
BY DEF TypeOK, Arguments, Settling

-----------------------------------------------------------------------------
LEMMA InitSettleInv == Init => SettleInv
<1> SUFFICES ASSUME Init PROVE SettleInv
  OBVIOUS
<1> USE InvoiceAssumption, NobodyAssumption
<1>1. PICK old \in SUBSET Invoice, total \in [Invoice -> InvoiceTotal] :
        /\ invoices = NewTable([v \in Invoice |->
                         IF v \in old THEN Issued(total[v]) ELSE NoInvoice])
        /\ numbers = [k \in {"sales", "purchase"} |->
             [rows |-> Cardinality({v \in old : Kind[v] = k}), holder |-> Nobody]]
  BY DEF Init
<1> DEFINE rows == [v \in Invoice |-> IF v \in old THEN Issued(total[v]) ELSE NoInvoice]
<1>2. rows \in [Invoice -> InvoiceRow]
  BY DEF InvoiceRow, NoInvoice, Issued, InvoiceStatus
<1>3. \A v \in Invoice : rows[v].paid = 0 /\ rows[v].status \in {Absent, "APPROVED"}
  BY DEF NoInvoice, Issued
<1>4. /\ invoices \in TableOf(Invoice, InvoiceRow)
      /\ invoices.now = rows /\ invoices.work = rows
      /\ \A v \in Invoice : invoices.lock[v] = Nobody
  BY <1>1, <1>2, NewTableFacts
<1>5. numbers \in [{"sales", "purchase"} -> Series]
  <2>1. \A k : Cardinality({v \in old : Kind[v] = k}) \in Nat
    BY FS_Subset, FS_CardinalityType
  <2> QED
    BY <1>1, <2>1 DEF Series, Owner
<1> HIDE DEF rows
<1>6. TypeOK
  BY <1>4, <1>5 DEF Init, TypeOK, Label, NoInvoice, InvoiceRow
<1>7. Locks /\ Arguments /\ ReadFits /\ Written
  BY <1>4 DEF Init, Locks, Arguments, ReadFits, Written, Settling
<1>8. PaidWithinTotal /\ PaidIsBacked /\ StatusMatchesPaid
  <2>1. \A v \in Invoice : /\ invoices.now[v].paid = 0
                            /\ invoices.now[v].status \in {Absent, "APPROVED"}
                            /\ invoices.now[v].total \in Nat
                            /\ settled[v] = 0
    BY <1>2, <1>3, <1>4 DEF Init, InvoiceRow
  <2> QED
    BY <2>1 DEF PaidWithinTotal, PaidIsBacked, StatusMatchesPaid, Absent
<1> QED
  BY <1>6, <1>7, <1>8 DEF SettleInv

-----------------------------------------------------------------------------
(* Types, and the arguments they rest on.                                  *)

\* A status or a paid amount written into a row leaves a row.
LEMMA RowFacts ==
  ASSUME NEW row \in InvoiceRow, NEW s \in InvoiceStatus, NEW n \in Nat
  PROVE  /\ [row EXCEPT !.status = s] \in InvoiceRow
         /\ [row EXCEPT !.paid = n, !.status = s] \in InvoiceRow
BY DEF InvoiceRow

LEMMA TypeStep == TypeOK /\ Arguments /\ [Next]_vars => TypeOK' /\ Arguments'
<1> SUFFICES ASSUME TypeOK, Arguments, [Next]_vars PROVE TypeOK' /\ Arguments'
  OBVIOUS
<1> USE NobodyAssumption, InvoiceAssumption
<1>1. CASE UNCHANGED vars
  BY <1>1 DEF vars, TypeOK, Arguments
<1>2. ASSUME NEW r \in Req, NEW v \in Invoice, StartCreate(r, v)
      PROVE  TypeOK' /\ Arguments'
  <2>1. numbers[Kind[v]].rows + 1 \in Nat
    BY DEF TypeOK, Series
  <2>2. TypeOK'
    BY <1>2, <2>1 DEF StartCreate, TypeOK, Label
  <2> QED
    BY <1>2, <2>2 DEF StartCreate, TypeOK, Arguments
<1>3. ASSUME NEW r \in Req, NEW v \in Invoice, NEW h \in {"approve", "cancel"},
             StartStatus(r, v, h)
      PROVE  TypeOK' /\ Arguments'
  <2>1. TypeOK'
    BY <1>3 DEF StartStatus, TypeOK, Label, Answered
  <2> QED
    BY <1>3, <2>1 DEF StartStatus, TypeOK, Arguments
<1>4. ASSUME NEW r \in Req, NEW v \in Invoice \cup {Nobody}, NEW a \in Amount,
             StartSettle(r, v, a)
      PROVE  TypeOK' /\ Arguments'
  <2>1. TypeOK'
    BY <1>4 DEF StartSettle, TypeOK, Label
  <2> QED
    BY <1>4, <2>1 DEF StartSettle, TypeOK, Arguments
<1>5. ASSUME NEW r \in Req, NEW total \in InvoiceTotal, InsertInvoice(r, total)
      PROVE  TypeOK' /\ Arguments'
  <2>1. doc[r] \in Invoice
    BY <1>5 DEF InsertInvoice, Arguments
  <2>2. [status |-> "DRAFT", total |-> total, paid |-> 0] \in InvoiceRow
    BY DEF InvoiceRow, InvoiceStatus
  <2>3. invoices' \in TableOf(Invoice, InvoiceRow)
    BY <1>5, <2>1, <2>2, SaveFacts DEF InsertInvoice, TypeOK
  <2>4. numbers' \in [{"sales", "purchase"} -> Series]
    <3>1. \A k \in {"sales", "purchase"} :
            [numbers[k] EXCEPT !.rows = number[r]] \in Series
      BY DEF TypeOK, Series
    <3> QED
      BY <1>5, <2>1, <3>1 DEF InsertInvoice, TypeOK
  <2>5. TypeOK'
    BY <1>5, <2>3, <2>4 DEF InsertInvoice, TypeOK, Label, Answered
  <2> QED
    BY <1>5, <2>5 DEF InsertInvoice, TypeOK, Arguments
<1>6. ASSUME NEW r \in Req, NumberConflict(r) PROVE TypeOK' /\ Arguments'
  BY <1>6 DEF NumberConflict, TypeOK, Arguments, Label, Answered
<1>7. ASSUME NEW r \in Req, SetStatus(r) PROVE TypeOK' /\ Arguments'
  <2>1. doc[r] \in Invoice
    BY <1>7 DEF SetStatus, Arguments
  <2>2. invoices.now[doc[r]] \in InvoiceRow
    BY <2>1 DEF TypeOK, TableOf
  <2>3. [invoices.now[doc[r]] EXCEPT
           !.status = IF op[r] = "approve" THEN "APPROVED" ELSE "CANCELLED"] \in InvoiceRow
    BY <2>2, RowFacts DEF InvoiceStatus
  <2>4. invoices' \in TableOf(Invoice, InvoiceRow)
    BY <1>7, <2>1, <2>3, SaveFacts DEF SetStatus, TypeOK
  <2> QED
    BY <1>7, <2>4 DEF SetStatus, TypeOK, Arguments, Label, Answered
<1>8. ASSUME NEW r \in Req, ReadInvoice(r) PROVE TypeOK' /\ Arguments'
  <2>1. doc[r] \in Invoice
    BY <1>8 DEF ReadInvoice, Arguments
  <2>2. Seen(invoices, r)[doc[r]] \in InvoiceRow
    BY <2>1, SeenFacts DEF TypeOK
  <2>3. TypeOK'
    BY <1>8, <2>2 DEF ReadInvoice, TypeOK, Label, Answered
  <2> QED
    BY <1>8, <2>3 DEF ReadInvoice, TypeOK, Arguments
<1>9. ASSUME NEW r \in Req, UpdateInvoice(r) PROVE TypeOK' /\ Arguments'
  <2> DEFINE s == Settlement(found[r], amount[r])
  <2>1. doc[r] \in Invoice
    BY <1>9 DEF UpdateInvoice, Arguments
  <2>2. Seen(invoices, r)[doc[r]] \in InvoiceRow
    BY <2>1, SeenFacts DEF TypeOK
  <2>3. s.paid \in Nat /\ s.status \in InvoiceStatus
    BY DEF Settlement, TypeOK, InvoiceRow, InvoiceStatus
  <2>4. [Seen(invoices, r)[doc[r]] EXCEPT !.paid = s.paid, !.status = s.status] \in InvoiceRow
    BY <2>2, <2>3, RowFacts
  <2>5. invoices' \in TableOf(Invoice, InvoiceRow)
    BY <1>9, <2>1, <2>4, PutFacts DEF UpdateInvoice, TypeOK
  <2> QED
    BY <1>9, <2>5 DEF UpdateInvoice, TypeOK, Arguments, Label
<1>10. ASSUME NEW r \in Req, RecordMoney(r) PROVE TypeOK' /\ Arguments'
  BY <1>10 DEF RecordMoney, TypeOK, Arguments, Label
<1>11. ASSUME NEW r \in Req, CommitSettlement(r) PROVE TypeOK' /\ Arguments'
  <2>1. invoices' \in TableOf(Invoice, InvoiceRow)
    BY <1>11, CommitFacts DEF CommitSettlement, TypeOK
  <2>2. settled' \in [Invoice \cup {Nobody} -> Nat]
    BY <1>11 DEF CommitSettlement, TypeOK
  <2> QED
    BY <1>11, <2>1, <2>2 DEF CommitSettlement, TypeOK, Arguments, Label, Answered
<1>12. ASSUME NEW r \in Req, Abort(r) PROVE TypeOK' /\ Arguments'
  <2>1. invoices' \in TableOf(Invoice, InvoiceRow)
    BY <1>12, RollbackFacts DEF Abort, TypeOK
  <2> QED
    BY <1>12, <2>1 DEF Abort, TypeOK, Arguments, Label, Answered
<1> QED
  BY <1>1, <1>2, <1>3, <1>4, <1>5, <1>6, <1>7, <1>8, <1>9, <1>10, <1>11, <1>12
     DEF Next, Start, Step

\* Every variable has its type, and every request past its start the arguments
\* its handler needs.
THEOREM TypeCorrect == Spec => []TypeOK
<1>1. Init => TypeOK /\ Arguments
  BY InitSettleInv DEF SettleInv
<1> QED
  BY <1>1, TypeStep, PTL DEF Spec

-----------------------------------------------------------------------------
(* Every step keeps the rest of SettleInv.                                 *)

\* What the three properties say depends on the committed rows and money only.
LEMMA SameRows ==
  ASSUME SettleInv, UNCHANGED settled, invoices'.now = invoices.now
  PROVE  PaidWithinTotal' /\ PaidIsBacked' /\ StatusMatchesPaid'
BY DEF SettleInv, PaidWithinTotal, PaidIsBacked, StatusMatchesPaid

\* A step of r that leaves rows, locks and money alone keeps everything, as long
\* as r, which held no row, is not settling after it.
LEMMA QuietStep ==
  ASSUME SettleInv, TypeOK', NEW r \in Req,
         UNCHANGED <<invoices, settled>>,
         pc[r] \notin {"record", "commit"},
         \A q \in Req \ {r} :
           pc'[q] = pc[q] /\ doc'[q] = doc[q] /\ found'[q] = found[q]
             /\ amount'[q] = amount[q],
         ~Settling(r)'
  PROVE  /\ Locks' /\ ReadFits' /\ Written'
         /\ PaidWithinTotal' /\ PaidIsBacked' /\ StatusMatchesPaid'
<1>1. \A v \in Invoice : invoices.lock[v] \in Owner /\ invoices.lock[v] # r
  BY NobodyAssumption DEF SettleInv, Locks, TypeOK, TableOf
<1>2. Locks'
  BY <1>1 DEF SettleInv, Locks, Owner
<1>3. ReadFits'
  BY DEF SettleInv, ReadFits, Settling
<1>4. Written'
  BY <1>1 DEF SettleInv, Written, Settlement, Owner
<1> QED
  BY <1>2, <1>3, <1>4, SameRows

LEMMA SettleStep == SettleInv /\ [Next]_vars => SettleInv'
<1> SUFFICES ASSUME SettleInv, [Next]_vars PROVE SettleInv'
  OBVIOUS
<1> DEFINE Kept == /\ Locks' /\ ReadFits' /\ Written'
                   /\ PaidWithinTotal' /\ PaidIsBacked' /\ StatusMatchesPaid'
<1> USE NobodyAssumption, InvoiceAssumption
<1>0. TypeOK /\ Arguments /\ TypeOK' /\ Arguments'
  BY TypeStep DEF SettleInv
<1>1. ASSUME UNCHANGED vars PROVE Kept
  <2>1. Locks' /\ ReadFits' /\ Written'
    BY <1>1 DEF vars, SettleInv, Locks, ReadFits, Settling, Written, Settlement
  <2>2. UNCHANGED <<invoices, settled>>
    BY <1>1 DEF vars
  <2> QED
    BY <2>1, <2>2, SameRows
<1>2. ASSUME NEW r \in Req, NEW v \in Invoice, StartCreate(r, v) PROVE Kept
  BY <1>0, <1>2, QuietStep DEF StartCreate, Settling, TypeOK
<1>3. ASSUME NEW r \in Req, NEW v \in Invoice, NEW h \in {"approve", "cancel"},
             StartStatus(r, v, h)
      PROVE  Kept
  BY <1>0, <1>3, QuietStep DEF StartStatus, Settling, TypeOK
<1>4. ASSUME NEW r \in Req, NEW v \in Invoice \cup {Nobody}, NEW a \in Amount,
             StartSettle(r, v, a)
      PROVE  Kept
  BY <1>0, <1>4, QuietStep DEF StartSettle, Settling, TypeOK
<1>5. ASSUME NEW r \in Req, NEW total \in InvoiceTotal, InsertInvoice(r, total)
      PROVE  Kept
  <2> DEFINE d == doc[r]
             row == [status |-> "DRAFT", total |-> total, paid |-> 0]
  <2>1. d \in Invoice /\ row \in InvoiceRow /\ invoices.now[d].status = Absent
    BY <1>0, <1>5 DEF InsertInvoice, Arguments, InvoiceRow, InvoiceStatus, NoInvoice
  <2>2. invoices.lock[d] = Nobody
    BY <1>0, <2>1 DEF SettleInv, Locks, ReadFits, Settling, TypeOK, TableOf, Owner
  <2>3. /\ invoices'.lock = invoices.lock
        /\ \A v \in Invoice :
             /\ invoices'.work[v] = IF v = d THEN row ELSE invoices.work[v]
             /\ invoices'.now[v] = IF v = d THEN row ELSE invoices.now[v]
    BY <1>0, <1>5, <2>1, SaveFacts DEF InsertInvoice, TypeOK
  <2>4. \A q \in Req : pc'[q] = IF q = r THEN "ok" ELSE pc[q]
    BY <1>0, <1>5 DEF InsertInvoice, TypeOK
  <2>5. UNCHANGED <<settled, doc, amount, found>>
    BY <1>5 DEF InsertInvoice
  <2>6. pc[r] = "insert"
    BY <1>5 DEF InsertInvoice
  <2> HIDE DEF d, row
  <2>7. Locks'
    BY <1>0, <2>2, <2>3, <2>4, <2>5, <2>6 DEF SettleInv, Locks, TypeOK, TableOf, Owner
  <2>8. ReadFits'
    BY <1>0, <2>1, <2>3, <2>4, <2>5, SettlingInvoice DEF SettleInv, ReadFits, Settling
  <2>9. Written'
    BY <1>0, <2>2, <2>3, <2>5 DEF SettleInv, Written, Settlement
  <2>10. PaidWithinTotal' /\ PaidIsBacked' /\ StatusMatchesPaid'
    BY <1>0, <2>1, <2>3, <2>5
       DEF SettleInv, PaidWithinTotal, PaidIsBacked, StatusMatchesPaid, row, TypeOK
  <2> QED
    BY <2>7, <2>8, <2>9, <2>10
<1>6. ASSUME NEW r \in Req, NumberConflict(r) PROVE Kept
  BY <1>0, <1>6, QuietStep DEF NumberConflict, Settling, TypeOK
<1>7. ASSUME NEW r \in Req, SetStatus(r) PROVE Kept
  <2> DEFINE d == doc[r]
             st == IF op[r] = "approve" THEN "APPROVED" ELSE "CANCELLED"
             row == [invoices.now[d] EXCEPT !.status = st]
  <2>1. d \in Invoice /\ st \in {"APPROVED", "CANCELLED"} /\ invoices.now[d] \in InvoiceRow
    BY <1>0, <1>7 DEF SetStatus, Arguments, TypeOK, TableOf
  <2>2. /\ row \in InvoiceRow /\ row.status = st
        /\ row.total = invoices.now[d].total /\ row.paid = invoices.now[d].paid
    BY <2>1 DEF InvoiceRow, InvoiceStatus
  <2>3. invoices.lock[d] = Nobody
    BY <1>0, <1>7, <2>1 DEF SetStatus, Writable, SettleInv, Locks
  <2>4. /\ invoices'.lock = invoices.lock
        /\ \A v \in Invoice :
             /\ invoices'.work[v] = IF v = d THEN row ELSE invoices.work[v]
             /\ invoices'.now[v] = IF v = d THEN row ELSE invoices.now[v]
    <3>1. invoices' = Save(invoices, d, row)
      BY <1>7 DEF SetStatus
    <3>2. row \in InvoiceRow /\ d \in Invoice /\ invoices \in TableOf(Invoice, InvoiceRow)
      BY <1>0, <2>1, <2>2 DEF TypeOK
    <3> HIDE DEF row, d
    <3> QED
      BY <3>1, <3>2, SaveFacts
  <2>5. \A q \in Req : pc'[q] = IF q = r THEN "ok" ELSE pc[q]
    BY <1>0, <1>7 DEF SetStatus, TypeOK
  <2>6. UNCHANGED <<settled, doc, amount, found>> /\ pc[r] = "status"
    BY <1>7 DEF SetStatus
  <2> HIDE DEF d, row, st
  <2>7. Locks'
    BY <1>0, <2>3, <2>4, <2>5, <2>6 DEF SettleInv, Locks, TypeOK, TableOf, Owner
  <2>8. ReadFits'
    BY <1>0, <2>1, <2>2, <2>4, <2>5, <2>6, SettlingInvoice
       DEF SettleInv, ReadFits, Settling, Absent
  <2>9. Written'
    BY <1>0, <2>3, <2>4, <2>6 DEF SettleInv, Written, Settlement
  <2>10. PaidWithinTotal' /\ PaidIsBacked' /\ StatusMatchesPaid'
    BY <1>0, <2>1, <2>2, <2>4, <2>6
       DEF SettleInv, PaidWithinTotal, PaidIsBacked, StatusMatchesPaid, Absent
  <2> QED
    BY <2>7, <2>8, <2>9, <2>10
<1>8. ASSUME NEW r \in Req, ReadInvoice(r) PROVE Kept
  <2> DEFINE d == doc[r]
  <2>1. d \in Invoice /\ pc[r] = "read" /\ amount[r] \in Nat /\ amount[r] > 0
    BY <1>0, <1>8 DEF ReadInvoice, Arguments, TypeOK
  <2>2. \A v \in Invoice : invoices.lock[v] # r
    BY <1>0, <2>1 DEF SettleInv, Locks, TypeOK, TableOf, Owner
  <2>3. Seen(invoices, r)[d] = invoices.now[d] /\ invoices.now[d] \in InvoiceRow
    <3>1. Seen(invoices, r)[d] = IF invoices.lock[d] = r THEN invoices.work[d]
                                                         ELSE invoices.now[d]
      BY <1>0, <2>1, SeenFacts DEF TypeOK
    <3> QED
      BY <1>0, <2>1, <2>2, <3>1 DEF TypeOK, TableOf
  <2>4. /\ found' = [found EXCEPT ![r] = invoices.now[d]]
        /\ pc' = [pc EXCEPT ![r] = IF Refused(invoices.now[d], amount[r])
                                     THEN "refused" ELSE "update"]
        /\ UNCHANGED <<invoices, settled, doc, amount>>
    BY <1>8, <2>3 DEF ReadInvoice
  <2>5. CASE Refused(invoices.now[d], amount[r])
    BY <1>0, <2>1, <2>4, <2>5, QuietStep DEF Settling, TypeOK
  <2>6. CASE ~Refused(invoices.now[d], amount[r])
    <3>1. Locks' /\ Written'
      BY <1>0, <2>1, <2>2, <2>4 DEF SettleInv, Locks, Written, Settlement, TypeOK, TableOf, Owner
    <3>2. ReadFits'
      BY <1>0, <2>1, <2>3, <2>4, <2>6
         DEF SettleInv, ReadFits, Settling, Refused, TypeOK, InvoiceRow, PaidIsBacked
    <3> QED
      BY <2>4, <3>1, <3>2, SameRows
  <2> QED
    BY <2>5, <2>6
<1>9. ASSUME NEW r \in Req, UpdateInvoice(r) PROVE Kept
  <2> DEFINE d == doc[r]
             s == Settlement(found[r], amount[r])
             row == [Seen(invoices, r)[d] EXCEPT !.paid = s.paid, !.status = s.status]
  <2>1. d \in Invoice /\ pc[r] = "update" /\ Settling(r) /\ amount[r] > 0
    BY <1>0, <1>9 DEF UpdateInvoice, Arguments, Settling
  <2>2. \A v \in Invoice : invoices.lock[v] # r
    BY <1>0, <2>1 DEF SettleInv, Locks
  <2>3. Seen(invoices, r)[d] = invoices.now[d] /\ invoices.now[d] \in InvoiceRow
    <3>1. Seen(invoices, r)[d] = IF invoices.lock[d] = r THEN invoices.work[d]
                                                         ELSE invoices.now[d]
      BY <1>0, <2>1, SeenFacts DEF TypeOK
    <3> QED
      BY <1>0, <2>1, <2>2, <3>1 DEF TypeOK, TableOf
  <2>4. s.paid \in Nat /\ s.status \in InvoiceStatus
    BY <1>0 DEF Settlement, TypeOK, InvoiceRow, InvoiceStatus
  <2>5. /\ row \in InvoiceRow /\ row.paid = s.paid /\ row.status = s.status
        /\ row.total = invoices.now[d].total
    BY <2>3, <2>4 DEF InvoiceRow
  <2>6. row.total = found[r].total
    BY <2>1, <2>5 DEF SettleInv, ReadFits
  <2>7. invoices.lock[d] = Nobody
    BY <1>9, <2>1, <2>2 DEF UpdateInvoice, Writable
  <2>8. /\ invoices'.now = invoices.now
        /\ \A v \in Invoice :
             /\ invoices'.work[v] = IF v = d THEN row ELSE invoices.work[v]
             /\ invoices'.lock[v] = IF v = d THEN r ELSE invoices.lock[v]
    <3>1. invoices' = Put(invoices, r, d, row)
      BY <1>9 DEF UpdateInvoice
    <3>2. invoices \in TableOf(Invoice, InvoiceRow)
      BY <1>0 DEF TypeOK
    <3> HIDE DEF row, d
    <3> QED
      BY <2>1, <2>5, <3>1, <3>2, PutFacts
  <2>9. pc' = [pc EXCEPT ![r] = "record"] /\ UNCHANGED <<settled, doc, amount, found>>
    BY <1>9 DEF UpdateInvoice
  <2> HIDE DEF row
  <2>10. Locks'
    BY <1>0, <2>1, <2>7, <2>8, <2>9 DEF SettleInv, Locks, TypeOK
  <2>11. ReadFits'
    BY <1>0, <2>1, <2>8, <2>9 DEF SettleInv, ReadFits, Settling, TypeOK
  <2>12. Written'
    BY <1>0, <2>1, <2>2, <2>5, <2>6, <2>7, <2>8, <2>9 DEF SettleInv, Written, TypeOK
  <2> QED
    BY <2>8, <2>9, <2>10, <2>11, <2>12, SameRows
<1>10. ASSUME NEW r \in Req, RecordMoney(r) PROVE Kept
  <2>1. /\ pc[r] = "record" /\ pc' = [pc EXCEPT ![r] = "commit"]
        /\ UNCHANGED <<invoices, settled, doc, amount, found>>
    BY <1>10 DEF RecordMoney
  <2>2. Locks' /\ ReadFits' /\ Written'
    BY <1>0, <2>1 DEF SettleInv, Locks, ReadFits, Settling, Written, Settlement, TypeOK
  <2> QED
    BY <2>1, <2>2, SameRows
<1>11. ASSUME NEW r \in Req, CommitSettlement(r) PROVE Kept
  <2> DEFINE d == doc[r]
  <2>1. /\ pc[r] = "commit" /\ pc' = [pc EXCEPT ![r] = "ok"]
        /\ invoices' = Commit(invoices, r)
        /\ settled' = [settled EXCEPT ![d] = @ + amount[r]]
        /\ UNCHANGED <<doc, amount, found>>
    BY <1>11 DEF CommitSettlement
  <2>2. /\ invoices'.work = invoices.work
        /\ \A v \in Invoice :
             /\ invoices'.now[v] = IF invoices.lock[v] = r THEN invoices.work[v]
                                                           ELSE invoices.now[v]
             /\ invoices'.lock[v] = IF invoices.lock[v] = r THEN Nobody
                                                            ELSE invoices.lock[v]
    BY <1>0, <2>1, CommitFacts DEF TypeOK
  <2>3. /\ \A v \in Invoice : invoices.now[v] \in InvoiceRow /\ invoices.work[v] \in InvoiceRow
        /\ \A v \in Invoice : invoices.lock[v] \in Owner
        /\ \A v \in Invoice \cup {Nobody} : settled[v] \in Nat /\ settled'[v] \in Nat
        /\ \A q \in Req : found[q] \in InvoiceRow /\ amount[q] \in Nat
    BY <1>0 DEF TypeOK, TableOf
  <2>4. \A v \in Invoice \cup {Nobody} : settled'[v] >= settled[v]
    BY <1>0, <2>1, <2>3 DEF TypeOK
  <2>5. ASSUME NEW v \in Invoice, invoices.lock[v] = r
        PROVE  /\ v = d /\ Settling(r)
               /\ invoices.work[v].total = invoices.now[v].total
               /\ invoices.work[v].paid <= invoices.work[v].total
               /\ invoices.work[v].paid <= settled'[v]
               /\ invoices.work[v].status \in {"PAID", "PARTIALLY_PAID"}
               /\ invoices.work[v].status = "PAID" =>
                    invoices.work[v].paid = invoices.work[v].total
               /\ invoices.work[v].status = "PARTIALLY_PAID" =>
                    /\ 0 < invoices.work[v].paid
                    /\ invoices.work[v].paid < invoices.work[v].total
    <3>1. v = d /\ Settling(r)
      BY <2>1, <2>5 DEF SettleInv, Locks, Settling
    <3>2. amount[r] > 0
      BY <1>0, <3>1, SettlingInvoice
    <3>3. /\ found[r].paid + amount[r] <= found[r].total
          /\ found[r].total = invoices.now[v].total
          /\ found[r].paid <= settled[v]
      BY <3>1 DEF SettleInv, ReadFits
    <3>4. LET s == Settlement(found[r], amount[r])
          IN  /\ invoices.work[v].total = found[r].total
              /\ invoices.work[v].paid = s.paid
              /\ invoices.work[v].status = s.status
      BY <2>5 DEF SettleInv, Written
    <3>5. settled'[v] = settled[v] + amount[r]
      BY <1>0, <2>1, <3>1 DEF TypeOK
    <3> DEFINE s == Settlement(found[r], amount[r])
    <3>6. /\ s.paid \in Nat /\ s.paid = found[r].paid + amount[r]
          /\ s.status \in {"PAID", "PARTIALLY_PAID"}
          /\ s.status = "PAID" => s.paid = found[r].total
          /\ s.status = "PARTIALLY_PAID" => 0 < s.paid /\ s.paid < found[r].total
      BY <2>3, <3>2, <3>3, SettlementFacts
    <3>7. /\ found[r].paid \in Nat /\ found[r].total \in Nat
          /\ amount[r] \in Nat /\ settled[v] \in Nat
      BY <2>3 DEF InvoiceRow
    <3> HIDE DEF s
    <3>8. /\ invoices.work[v].total = found[r].total
          /\ invoices.work[v].paid = s.paid
          /\ invoices.work[v].status = s.status
      BY <3>4 DEF s
    <3>9. s.paid <= found[r].total /\ s.paid <= settled'[v]
      BY <3>3, <3>5, <3>6, <3>7
    <3> QED
      BY <3>1, <3>3, <3>6, <3>8, <3>9
  <2>6. Locks'
    BY <1>0, <2>1, <2>2, <2>3 DEF SettleInv, Locks, TypeOK, Owner
  <2>7. \A v \in Invoice : /\ invoices'.now[v].total = invoices.now[v].total
                           /\ invoices.now[v].status # Absent => invoices'.now[v].status # Absent
    BY <2>2, <2>5 DEF Absent
  <2>8. ReadFits'
    <3> SUFFICES ASSUME NEW q \in Req, Settling(q)'
                 PROVE  /\ found[q].paid + amount[q] <= found[q].total
                        /\ found[q].total = invoices'.now[doc[q]].total
                        /\ found[q].paid <= settled'[doc[q]]
                        /\ invoices'.now[doc[q]].status # Absent
      BY <2>1 DEF ReadFits
    <3>1. Settling(q) /\ doc[q] \in Invoice
      BY <1>0, <2>1, SettlingInvoice DEF Settling, TypeOK
    <3> QED
      BY <2>3, <2>4, <2>7, <3>1 DEF SettleInv, ReadFits, InvoiceRow
  <2>9. Written'
    BY <2>1, <2>2, <2>3 DEF SettleInv, Written, Settlement
  <2>10. PaidWithinTotal'
    BY <2>2, <2>5 DEF SettleInv, PaidWithinTotal
  <2>11. PaidIsBacked'
    BY <2>2, <2>3, <2>4, <2>5 DEF SettleInv, PaidIsBacked, InvoiceRow
  <2>12. StatusMatchesPaid'
    BY <2>2, <2>5 DEF SettleInv, StatusMatchesPaid, Absent
  <2> QED
    BY <2>6, <2>8, <2>9, <2>10, <2>11, <2>12
<1>12. ASSUME NEW r \in Req, Abort(r) PROVE Kept
  <2>1. /\ pc' = [pc EXCEPT ![r] = "aborted"]
        /\ invoices' = Rollback(invoices, r)
        /\ UNCHANGED <<settled, doc, amount, found>>
    BY <1>12 DEF Abort
  <2>2. /\ invoices'.now = invoices.now
        /\ \A v \in Invoice :
             /\ invoices'.work[v] = IF invoices.lock[v] = r THEN invoices.now[v]
                                                            ELSE invoices.work[v]
             /\ invoices'.lock[v] = IF invoices.lock[v] = r THEN Nobody
                                                            ELSE invoices.lock[v]
    BY <1>0, <2>1, RollbackFacts DEF TypeOK
  <2>3. Locks'
    BY <1>0, <2>1, <2>2 DEF SettleInv, Locks, TypeOK, TableOf, Owner
  <2>4. ReadFits'
    BY <1>0, <2>1, <2>2 DEF SettleInv, ReadFits, Settling, TypeOK
  <2>5. Written'
    BY <2>1, <2>2 DEF SettleInv, Written, Settlement
  <2> QED
    BY <2>1, <2>2, <2>3, <2>4, <2>5, SameRows
<1>13. Kept
  BY <1>1, <1>2, <1>3, <1>4, <1>5, <1>6, <1>7, <1>8, <1>9, <1>10, <1>11, <1>12
     DEF Next, Start, Step
<1> QED
  BY <1>0, <1>13 DEF SettleInv

-----------------------------------------------------------------------------
LEMMA SettleInvariant == Spec => []SettleInv
  BY InitSettleInv, SettleStep, PTL DEF Spec

\* No invoice ever shows more paid than its total (collections.service.ts:59-70,
\* payments.service.ts:59-70), though amounts are checked and written from reads
\* that may be stale.
THEOREM PaidAmountWithinTotal == Spec => []PaidWithinTotal
<1>1. SettleInv => PaidWithinTotal
  BY DEF SettleInv
<1> QED
  BY <1>1, SettleInvariant, PTL

\* Every paid amount is backed by committed collections or payments, though a
\* settlement may fail after it has updated the invoice.
THEOREM PaidAmountIsBacked == Spec => []PaidIsBacked
<1>1. SettleInv => PaidIsBacked
  BY DEF SettleInv
<1> QED
  BY <1>1, SettleInvariant, PTL

\* PAID invoices are paid in full, PARTIALLY_PAID ones in part, drafts not at all.
THEOREM StatusTellsPaid == Spec => []StatusMatchesPaid
<1>1. SettleInv => StatusMatchesPaid
  BY DEF SettleInv
<1> QED
  BY <1>1, SettleInvariant, PTL
=============================================================================
