----------------------------- MODULE Settlements ----------------------------
(***************************************************************************)
(* Invoices and the money that settles them: sales-invoices.service.ts,    *)
(* purchase-invoices.service.ts (apps/api/src/modules/{sales,purchasing})  *)
(* and collections.service.ts, payments.service.ts (modules/finance).      *)
(*                                                                         *)
(* A collection (for a sales invoice) or payment (for a purchase invoice)  *)
(* is one transaction: read the invoice, check it against what was read,   *)
(* write the new paid amount and status as computed from what was read,    *)
(* insert the collection.  Approving and cancelling read and check outside *)
(* any transaction, and write the status alone.                            *)
(***************************************************************************)
EXTENDS Integers, FiniteSets, Postgres

CONSTANTS Invoice,    \* the invoices of the company, issued or not yet
          Kind,       \* which of them are sales and which purchase invoices
          Amount,     \* the amounts a collection or payment may be of
          InvoiceTotal   \* the totals an invoice may come to

\* Amounts are in units of the column's last decimal (Decimal(18, 4)); the
\* tolerance of 1e-6 in the code's comparisons is less than a unit.
ASSUME InvoiceAssumption ==
  /\ IsFiniteSet(Invoice) /\ Nobody \notin Invoice
  /\ Kind \in [Invoice -> {"sales", "purchase"}]
  /\ Amount \subseteq Nat \ {0}
  /\ InvoiceTotal \subseteq Nat

\* InvoiceStatus, and the invoice not issued yet.
InvoiceStatus == {"DRAFT", "APPROVED", "PAID", "PARTIALLY_PAID", "CANCELLED"}
Absent == "absent"

InvoiceRow == [status : InvoiceStatus \cup {Absent}, total : Nat, paid : Nat]

NoInvoice == [status |-> Absent, total |-> 0, paid |-> 0]

VARIABLES
  invoices,   \* the tables sales_invoices and purchase_invoices
  settled,    \* the committed collections and payments, summed by invoice
  numbers,    \* how many invoices of each kind have a number (SF, AF)
  pc, op,     \* where each request's handler is, and which it runs
  doc,        \* the invoice it is about, or Nobody
  amount,     \* the dto.amount of a collection or payment
  found,      \* the invoice as its transaction has read it
  number      \* the invoice number a request has computed

vars == <<invoices, settled, numbers, pc, op, doc, amount, found, number>>

-----------------------------------------------------------------------------
(* create: the next number is counted, then the invoice inserted.          *)

StartCreate(r, v) ==
  /\ pc[r] = "idle" /\ invoices.now[v] = NoInvoice
  /\ op' = [op EXCEPT ![r] = "create"]
  /\ doc' = [doc EXCEPT ![r] = v]
  /\ number' = [number EXCEPT ![r] = numbers[Kind[v]].rows + 1]
  /\ pc' = [pc EXCEPT ![r] = "insert"]
  /\ UNCHANGED <<invoices, settled, numbers, amount, found>>

InsertInvoice(r, total) ==
  /\ pc[r] = "insert" /\ Insertable(numbers[Kind[doc[r]]], number[r])
  /\ invoices.now[doc[r]] = NoInvoice
  /\ invoices' = Save(invoices, doc[r], [status |-> "DRAFT", total |-> total, paid |-> 0])
  /\ numbers' = [numbers EXCEPT ![Kind[doc[r]]].rows = number[r]]
  /\ pc' = [pc EXCEPT ![r] = "ok"]
  /\ UNCHANGED <<settled, op, doc, amount, found, number>>

\* @@unique([companyId, invoiceNumber]).
NumberConflict(r) ==
  /\ pc[r] = "insert" /\ Taken(numbers[Kind[doc[r]]], number[r])
  /\ pc' = [pc EXCEPT ![r] = "refused"]
  /\ UNCHANGED <<invoices, settled, numbers, op, doc, amount, found, number>>

-----------------------------------------------------------------------------
(* approve and cancel.                                                     *)

\* Approving a purchase invoice is never refused, and none is ever cancelled.
Allowed(v, h) ==
  /\ invoices.now[v].status # Absent
  /\ h = "approve" /\ Kind[v] = "sales" => invoices.now[v].status = "DRAFT"
  /\ h = "cancel" => Kind[v] = "sales" /\ invoices.now[v].status # "PAID"

\* findOne and the check.
StartStatus(r, v, h) ==
  /\ pc[r] = "idle"
  /\ h = "cancel" => Kind[v] = "sales"
  /\ op' = [op EXCEPT ![r] = h]
  /\ doc' = [doc EXCEPT ![r] = v]
  /\ pc' = [pc EXCEPT ![r] = IF Allowed(v, h) THEN "status" ELSE "refused"]
  /\ UNCHANGED <<invoices, settled, numbers, amount, found, number>>

SetStatus(r) ==
  /\ pc[r] = "status"
  /\ Writable(invoices, r, doc[r])
  /\ invoices' = Save(invoices, doc[r], [invoices.now[doc[r]] EXCEPT
                   !.status = IF op[r] = "approve" THEN "APPROVED" ELSE "CANCELLED"])
  /\ pc' = [pc EXCEPT ![r] = "ok"]
  /\ UNCHANGED <<settled, numbers, op, doc, amount, found, number>>

-----------------------------------------------------------------------------
(* Collections and payments.                                               *)

\* With an invoice or, on account, without.
StartSettle(r, v, a) ==
  /\ pc[r] = "idle"
  /\ op' = [op EXCEPT ![r] = "settle"]
  /\ doc' = [doc EXCEPT ![r] = v]
  /\ amount' = [amount EXCEPT ![r] = a]
  /\ pc' = [pc EXCEPT ![r] = IF v = Nobody THEN "record" ELSE "read"]
  /\ UNCHANGED <<invoices, settled, numbers, found, number>>

\* Mutant: the outstanding balance is not compared.
AnyAmountRefused(row, a) == row.status \in {Absent, "CANCELLED"}

\* Not found, cancelled, or more than is outstanding.
Refused(row, a) ==
  row.status \in {Absent, "CANCELLED"} \/ a > row.total - row.paid

ReadInvoice(r) ==
  LET row == Seen(invoices, r)[doc[r]]
  IN  /\ pc[r] = "read"
      /\ found' = [found EXCEPT ![r] = row]
      /\ pc' = [pc EXCEPT ![r] = IF Refused(row, amount[r]) THEN "refused" ELSE "update"]
      /\ UNCHANGED <<invoices, settled, numbers, op, doc, amount, number>>

\* Mutant: the amount is subtracted.
SettlementSubtracted(row, a) ==
  [paid   |-> row.paid - a,
   status |-> IF row.paid + a >= row.total THEN "PAID" ELSE "PARTIALLY_PAID"]

\* The paid amount and the status to write, from the invoice as it was read.
Settlement(row, a) ==
  [paid   |-> row.paid + a,
   status |-> IF row.paid + a >= row.total THEN "PAID" ELSE "PARTIALLY_PAID"]

\* Mutant: the update is not part of the transaction.
UpdateInvoiceOutside(r) ==
  LET s == Settlement(found[r], amount[r])
  IN  /\ pc[r] = "update"
      /\ Writable(invoices, r, doc[r])
      /\ invoices' = Save(invoices, doc[r], [invoices.now[doc[r]] EXCEPT
                            !.paid = s.paid, !.status = s.status])
      /\ pc' = [pc EXCEPT ![r] = "record"]
      /\ UNCHANGED <<settled, numbers, op, doc, amount, found, number>>

\* Mutant: paidAmount is incremented, the status still comes from the stale read.
UpdateInvoiceIncrement(r) ==
  /\ pc[r] = "update"
  /\ Writable(invoices, r, doc[r])
  /\ invoices' = Put(invoices, r, doc[r], [Seen(invoices, r)[doc[r]] EXCEPT
                       !.paid = @ + amount[r],
                       !.status = Settlement(found[r], amount[r]).status])
  /\ pc' = [pc EXCEPT ![r] = "record"]
  /\ UNCHANGED <<settled, numbers, op, doc, amount, found, number>>

UpdateInvoice(r) ==
  LET s == Settlement(found[r], amount[r])
  IN  /\ pc[r] = "update"
      /\ Writable(invoices, r, doc[r])
      /\ invoices' = Put(invoices, r, doc[r], [Seen(invoices, r)[doc[r]] EXCEPT
                           !.paid = s.paid, !.status = s.status])
      /\ pc' = [pc EXCEPT ![r] = "record"]
      /\ UNCHANGED <<settled, numbers, op, doc, amount, found, number>>

\* collection.create or payment.create; it counts when the transaction commits.
RecordMoney(r) ==
  /\ pc[r] = "record"
  /\ pc' = [pc EXCEPT ![r] = "commit"]
  /\ UNCHANGED <<invoices, settled, numbers, op, doc, amount, found, number>>

\* Mutant: the request is answered and its transaction left open.
CommitForgotten(r) ==
  /\ pc[r] = "commit"
  /\ settled' = [settled EXCEPT ![doc[r]] = @ + amount[r]]
  /\ pc' = [pc EXCEPT ![r] = "ok"]
  /\ UNCHANGED <<invoices, numbers, op, doc, amount, found, number>>

CommitSettlement(r) ==
  /\ pc[r] = "commit"
  /\ invoices' = Commit(invoices, r)
  /\ settled' = [settled EXCEPT ![doc[r]] = @ + amount[r]]
  /\ pc' = [pc EXCEPT ![r] = "ok"]
  /\ UNCHANGED <<numbers, op, doc, amount, found, number>>

-----------------------------------------------------------------------------
Answered == {"ok", "refused", "aborted"}

InFlight(r) == pc[r] \notin Answered \cup {"idle"}

\* A statement fails: see Inventory.
Abort(r) ==
  /\ InFlight(r)
  /\ invoices' = Rollback(invoices, r)
  /\ pc' = [pc EXCEPT ![r] = "aborted"]
  /\ UNCHANGED <<settled, numbers, op, doc, amount, found, number>>

Start(r) ==
  \/ \E v \in Invoice : StartCreate(r, v)
  \/ \E v \in Invoice, h \in {"approve", "cancel"} : StartStatus(r, v, h)
  \/ \E v \in Invoice \cup {Nobody}, a \in Amount : StartSettle(r, v, a)

Step(r) ==
  \/ \E total \in InvoiceTotal : InsertInvoice(r, total)
  \/ NumberConflict(r) \/ SetStatus(r)
  \/ ReadInvoice(r) \/ UpdateInvoice(r) \/ RecordMoney(r) \/ CommitSettlement(r)

\* Some invoices were issued before, and are unpaid.
Issued(total) == [status |-> "APPROVED", total |-> total, paid |-> 0]

Init ==
  /\ \E old \in SUBSET Invoice, total \in [Invoice -> InvoiceTotal] :
       /\ invoices = NewTable([v \in Invoice |->
                        IF v \in old THEN Issued(total[v]) ELSE NoInvoice])
       /\ numbers = [k \in {"sales", "purchase"} |->
            [rows |-> Cardinality({v \in old : Kind[v] = k}), holder |-> Nobody]]
  /\ settled = [v \in Invoice \cup {Nobody} |-> 0]
  /\ pc = [r \in Req |-> "idle"]
  /\ op = [r \in Req |-> "none"]
  /\ doc = [r \in Req |-> Nobody]
  /\ amount = [r \in Req |-> 0]
  /\ found = [r \in Req |-> NoInvoice]
  /\ number = [r \in Req |-> 0]

Next == \E r \in Req : Start(r) \/ Step(r) \/ Abort(r)

Spec == Init /\ [][Next]_vars

\* A settlement holds one row only, so no time limit is needed to end a wait.
FairSpec == Spec /\ \A r \in Req : WF_vars(Step(r))

-----------------------------------------------------------------------------
(* Properties.                                                             *)

Label == {"idle", "insert", "status", "read", "update", "record", "commit"} \cup Answered

\* The variables keep their types.
TypeOK ==
  /\ invoices \in TableOf(Invoice, InvoiceRow)
  /\ settled \in [Invoice \cup {Nobody} -> Nat]
  /\ numbers \in [{"sales", "purchase"} -> Series]
  /\ pc \in [Req -> Label]
  /\ op \in [Req -> {"none", "create", "approve", "cancel", "settle"}]
  /\ doc \in [Req -> Invoice \cup {Nobody}]
  /\ amount \in [Req -> Nat]
  /\ found \in [Req -> InvoiceRow]
  /\ number \in [Req -> Nat]

\* No invoice shows more paid than its total, though the amount written is
\* computed from an invoice that others may have settled since it was read
\* (collections.service.ts:59-70).
PaidWithinTotal == \A v \in Invoice : invoices.now[v].paid <= invoices.now[v].total

\* Every paid amount is backed by money: it never exceeds the committed
\* collections or payments for the invoice, however settlements overlap, fail
\* after updating the invoice, or overwrite each other
\* (collections.service.ts:46-95).
PaidIsBacked == \A v \in Invoice : invoices.now[v].paid <= settled[v]

\* The status tells the paid amount: PAID is in full, PARTIALLY_PAID in part, and
\* a draft has had no money, though approvals and cancellations write the status
\* alone and settlements write both from a stale read
\* (collections.service.ts:66-74, sales-invoices.service.ts:167, 179).
StatusMatchesPaid ==
  \A v \in Invoice :
    LET row == invoices.now[v]
    IN  /\ row.status = "PAID" => row.paid = row.total
        /\ row.status = "PARTIALLY_PAID" => 0 < row.paid /\ row.paid < row.total
        /\ row.status \in {"DRAFT", Absent} => row.paid = 0

\* Every request is answered in the end, with no time limit on transactions: a
\* settlement that waits for an invoice waits for one that waits for nobody.
EveryRequestAnswered ==
  \A r \in Req : pc[r] # "idle" ~> pc[r] \in Answered

-----------------------------------------------------------------------------
(* What the code's own words promise, and its steps do not keep.           *)

\* "A collection may not exceed the invoice's outstanding balance"
\* (collections.service.ts:27): an invoice takes no more money than its total.
NotOverCollected ==
  \A v \in Invoice : settled[v] <= invoices.now[v].total
=============================================================================
