----------------------------- MODULE SalesOrders ----------------------------
(***************************************************************************)
(* apps/api/src/modules/sales/sales-orders.service.ts, the status side of  *)
(* quotations.service.ts, and the inventory that deliveries take from.     *)
(* As for purchase orders, each handler reads the order and checks its     *)
(* status outside any transaction.  deliver then posts, in a transaction,  *)
(* a SALE_OUT movement for what was undelivered of each line when it was   *)
(* read, and marks the line and the order delivered.  create inserts the   *)
(* order and, in a second statement, marks its quotation CONVERTED.        *)
(***************************************************************************)
EXTENDS Integers, FiniteSetsExt, Postgres

CONSTANTS Warehouse, Product, Quantity, UnitCost, Opening, NoCost,  \* see Inventory
          Order, Slot, ProductOf, Ordered,      \* see PurchaseOrders
          Quotation,      \* the quotations of the company
          InitialOrders   \* the sales_orders rows at the start

ASSUME OrderAssumption ==
  /\ Ordered \subseteq Nat \ {0}
  /\ ProductOf \in [Slot -> Product]

\* SalesOrderStatus: the members some handler writes, and the order that does
\* not exist yet.  deliver also accepts PARTIALLY_DELIVERED, which none writes.
SalesOrderStatus == {"DRAFT", "CONFIRMED", "DELIVERED", "CANCELLED"}
Absent == "absent"

OrderRow == [status : SalesOrderStatus \cup {Absent}, warehouse : Warehouse]

ASSUME InitialAssumption == InitialOrders \in [Order -> OrderRow]

\* The controller lets setStatus write SENT, ACCEPTED and REJECTED only.
Settable == {"SENT", "ACCEPTED", "REJECTED"}

QuotationStatus == Settable \cup {"DRAFT", "CONVERTED"}

\* As in PurchaseOrders: a line's order, place and creator.
Line == Order \X Slot \X Owner

LineRow == [qty : Nat, delivered : Nat]

NoLine == [qty |-> 0, delivered |-> 0]

VARIABLES
  stock, moved, posted, pc, op, mv, found, dest,   \* see Inventory
  orders,      \* the table sales_orders
  lines,       \* the table sales_order_lines
  quotations,  \* the table quotations: their status
  numbers,     \* how many sales orders have a number (SIP)
  doc,         \* the order a request is about
  quote,       \* the quotation it is about, if any
  number,      \* the document number it has computed
  targets,     \* the lines its deleteMany has found
  todo,        \* the lines deliver has yet to post, as findOne returned them
  from         \* the order's warehouse, as findOne returned it

rowVars == <<stock, moved, posted>>
stockVars == <<stock, moved, posted, op, mv, found, dest>>
orderVars == <<orders, lines, quotations, numbers, doc, quote, number,
               targets, todo, from>>
vars == <<stock, moved, posted, pc, op, mv, found, dest,
          orders, lines, quotations, numbers, doc, quote, number, targets, todo, from>>

Inv == INSTANCE Inventory

ASSUME StockAssumption ==
  /\ Quantity \subseteq Nat \ {0}
  /\ UnitCost \subseteq Nat
  /\ Opening \in [Inv!Item -> [qty : Nat, cost : Nat]]
  /\ NoCost \notin Int

\* Bound: finitely many requests, orders and lines, which the sums below are over.
ASSUME FiniteAssumption ==
  IsFiniteSet(Req) /\ IsFiniteSet(Order) /\ IsFiniteSet(Slot) /\ IsFiniteSet(Warehouse)

LinesOf(o) == {l \in Line : l[1] = o}

Remaining(row) == row.qty - row.delivered

-----------------------------------------------------------------------------
(* Reading and checking the order.                                         *)

StartOrder(r, o, h) ==
  /\ pc[r] = "idle"
  /\ orders.now[o].status # Absent
  /\ op' = [op EXCEPT ![r] = h]
  /\ doc' = [doc EXCEPT ![r] = o]
  /\ pc' = [pc EXCEPT ![r] = "read"]
  /\ UNCHANGED <<rowVars, mv, found, dest, orders, lines, quotations, numbers, quote,
                 number, targets, todo, from>>

\* Mutant: drafts can be delivered too.
AllowedFromDraft(o, h) ==
  LET s == orders.now[o].status
  IN  CASE h \in {"update", "confirm"} -> s = "DRAFT"
        [] h = "cancel"  -> s # "DELIVERED"
        [] h = "deliver" -> s \in {"DRAFT", "CONFIRMED"}

Allowed(o, h) ==
  LET s == orders.now[o].status
  IN  CASE h \in {"update", "confirm"} -> s = "DRAFT"
        [] h = "cancel"  -> s # "DELIVERED"
        [] h = "deliver" -> s = "CONFIRMED"

AfterRead == [update |-> "find lines", confirm |-> "write", cancel |-> "write",
              deliver |-> "next"]

\* findOne, then the status check; deliver keeps the lines it has to post.
ReadOrder(r) ==
  LET open == {l \in LinesOf(doc[r]) : Remaining(lines.now[l]) > 0}
  IN  /\ pc[r] = "read" /\ Allowed(doc[r], op[r])
      /\ todo' = [todo EXCEPT ![r] = IF op[r] = "deliver"
                    THEN {[line |-> l, row |-> lines.now[l]] : l \in open} ELSE {}]
      /\ from' = [from EXCEPT ![r] = orders.now[doc[r]].warehouse]
      /\ pc' = [pc EXCEPT ![r] = AfterRead[op[r]]]
      /\ UNCHANGED <<stockVars, orders, lines, quotations, numbers, doc, quote, number,
                     targets>>

RefuseOrder(r) ==
  /\ pc[r] = "read" /\ ~Allowed(doc[r], op[r])
  /\ pc' = [pc EXCEPT ![r] = "refused"]
  /\ UNCHANGED <<stockVars, orderVars>>

-----------------------------------------------------------------------------
(* The end of a transaction.                                               *)

DropOrder(r) ==
  /\ orders' = Rollback(orders, r)
  /\ lines' = Rollback(lines, r)
  /\ UNCHANGED <<quotations, numbers, doc, quote, number, targets, todo, from>>

\* The statement r is at throws: unique number taken, or the row it names gone.
Throw(r) ==
  /\ pc' = [pc EXCEPT ![r] = "refused"]
  /\ Inv!DropStock(r)
  /\ DropOrder(r)
  /\ UNCHANGED <<op, dest>>

CommitOrder(r) ==
  /\ pc[r] = "commit" /\ op[r] \in {"update", "deliver"}
  /\ Inv!KeepStock(r)
  /\ orders' = Commit(orders, r)
  /\ lines' = Commit(lines, r)
  /\ pc' = [pc EXCEPT ![r] = "ok"]
  /\ UNCHANGED <<op, dest, quotations, numbers, doc, quote, number, targets, todo, from>>

-----------------------------------------------------------------------------
(* create: no transaction.                                                 *)

StartCreate(r, q) ==
  /\ pc[r] = "idle"
  /\ op' = [op EXCEPT ![r] = "create"]
  /\ quote' = [quote EXCEPT ![r] = q]
  /\ number' = [number EXCEPT ![r] = numbers.rows + 1]
  /\ pc' = [pc EXCEPT ![r] = "insert"]
  /\ UNCHANGED <<rowVars, mv, found, dest, orders, lines, quotations, numbers, doc,
                 targets, todo, from>>

NumberConflict(r) ==
  /\ pc[r] = "insert" /\ Taken(numbers, number[r])
  /\ Throw(r)

\* The order and its lines; a quotation that is gone is a foreign key violation.
InsertOrder(r, o, w, qty) ==
  /\ pc[r] = "insert" /\ Insertable(numbers, number[r])
  /\ orders.now[o].status = Absent
  /\ quote[r] \in {Nobody} \cup {q \in Quotation : quotations[q] # Absent}
  /\ orders' = Save(orders, o, [status |-> "DRAFT", warehouse |-> w])
  /\ lines' = LET With(rows) == [l \in Line |->
                    IF l \in LinesOf(o) /\ l[3] = Nobody
                      THEN [qty |-> qty[l[2]], delivered |-> 0] ELSE rows[l]]
              IN  [lines EXCEPT !.now = With(@), !.work = With(@)]
  /\ numbers' = [numbers EXCEPT !.rows = number[r]]
  /\ doc' = [doc EXCEPT ![r] = o]
  /\ pc' = [pc EXCEPT ![r] = IF quote[r] = Nobody THEN "ok" ELSE "convert"]
  /\ UNCHANGED <<stockVars, quotations, quote, number, targets, todo, from>>

InsertRefused(r) ==
  /\ pc[r] = "insert" /\ quote[r] # Nobody /\ quotations[quote[r]] = Absent
  /\ Throw(r)

\* The second statement: whatever the quotation's status is by now.
ConvertQuotation(r) ==
  /\ pc[r] = "convert" /\ quotations[quote[r]] # Absent
  /\ quotations' = [quotations EXCEPT ![quote[r]] = "CONVERTED"]
  /\ pc' = [pc EXCEPT ![r] = "ok"]
  /\ UNCHANGED <<stockVars, orders, lines, numbers, doc, quote, number, targets, todo,
                 from>>

ConvertRefused(r) ==
  /\ pc[r] = "convert" /\ quotations[quote[r]] = Absent
  /\ Throw(r)

-----------------------------------------------------------------------------
(* quotations.service.ts: setStatus and remove.                            *)

StartQuotation(r, q, h) ==
  /\ pc[r] = "idle"
  /\ quotations[q] # Absent
  /\ h = "remove" => quotations[q] # "CONVERTED"
  /\ op' = [op EXCEPT ![r] = h]
  /\ quote' = [quote EXCEPT ![r] = q]
  /\ pc' = [pc EXCEPT ![r] = "quotation"]
  /\ UNCHANGED <<rowVars, mv, found, dest, orders, lines, quotations, numbers, doc,
                 number, targets, todo, from>>

\* The update or delete by id that follows the read and the check.
WriteQuotation(r, s) ==
  /\ pc[r] = "quotation"
  /\ pc' = [pc EXCEPT ![r] = IF quotations[quote[r]] = Absent THEN "refused" ELSE "ok"]
  /\ quotations' = [quotations EXCEPT ![quote[r]] =
                      IF op[r] = "remove" \/ @ = Absent THEN Absent ELSE s]
  /\ UNCHANGED <<stockVars, orders, lines, numbers, doc, quote, number, targets, todo,
                 from>>

-----------------------------------------------------------------------------
(* update.                                                                 *)

FindLines(r) ==
  /\ pc[r] = "find lines"
  /\ targets' = [targets EXCEPT ![r] =
                   {l \in LinesOf(doc[r]) : lines.now[l] # NoLine}]
  /\ pc' = [pc EXCEPT ![r] = "delete"]
  /\ UNCHANGED <<stockVars, orders, lines, quotations, numbers, doc, quote, number,
                 todo, from>>

ReplaceLines(r, qty) ==
  /\ pc[r] = "delete"
  /\ \A l \in targets[r] : Writable(lines, r, l)
  /\ LET new == {l \in LinesOf(doc[r]) : l[3] = r}
         row(l) == IF l \in new THEN [qty |-> qty[l[2]], delivered |-> 0] ELSE NoLine
     IN  lines' = [lines EXCEPT
           !.work = [l \in Line |-> IF l \in targets[r] \cup new THEN row(l) ELSE @[l]],
           !.lock = [l \in Line |-> IF l \in targets[r] \cup new THEN r ELSE @[l]]]
  /\ targets' = [targets EXCEPT ![r] = {}]
  /\ pc' = [pc EXCEPT ![r] = "header"]
  /\ UNCHANGED <<stockVars, orders, quotations, numbers, doc, quote, number, todo, from>>

\* The header, with or without new lines before it: never the status.
UpdateHeader(r, w) ==
  /\ op[r] = "update" /\ pc[r] \in {"find lines", "header"}
  /\ Writable(orders, r, doc[r])
  /\ orders' = Put(orders, r, doc[r], [Seen(orders, r)[doc[r]] EXCEPT !.warehouse = w])
  /\ pc' = [pc EXCEPT ![r] = "commit"]
  /\ UNCHANGED <<stockVars, lines, quotations, numbers, doc, quote, number, targets,
                 todo, from>>

-----------------------------------------------------------------------------
(* confirm and cancel.                                                     *)

SetStatus(r) ==
  /\ pc[r] = "write"
  /\ Writable(orders, r, doc[r])
  /\ orders' = Save(orders, doc[r], [orders.now[doc[r]] EXCEPT !.status =
                      IF op[r] = "confirm" THEN "CONFIRMED" ELSE "CANCELLED"])
  /\ pc' = [pc EXCEPT ![r] = "ok"]
  /\ UNCHANGED <<stockVars, lines, quotations, numbers, doc, quote, number, targets,
                 todo, from>>

-----------------------------------------------------------------------------
(* deliver.                                                                *)

\* The next line: applyMovement for what remained of it when it was read.
DeliverLine(r, x) ==
  /\ pc[r] = "next" /\ x \in todo[r]
  /\ mv' = [mv EXCEPT ![r] =
              [type |-> "SALE_OUT", item |-> <<from[r], ProductOf[x.line[2]]>>,
               qty |-> Remaining(x.row), cost |-> NoCost]]
  /\ todo' = [todo EXCEPT ![r] = (@ \ {x}) \cup {[x EXCEPT !.row.delivered = x.row.qty]}]
  /\ pc' = [pc EXCEPT ![r] = "find"]
  /\ UNCHANGED <<rowVars, op, found, dest, orders, lines, quotations, numbers, doc,
                 quote, number, targets, from>>

DeliveryLogged(r) ==
  /\ op[r] = "deliver"
  /\ Inv!LogMovement(r, "mark")
  /\ UNCHANGED <<op, mv, dest, orderVars>>

\* Mutant: the line is marked outside the transaction.
MarkOutside(r, x) ==
  /\ pc[r] = "mark" /\ x \in todo[r] /\ Remaining(x.row) = 0
  /\ Writable(lines, r, x.line) /\ lines.now[x.line] # NoLine
  /\ lines' = Save(lines, x.line,
                   [lines.now[x.line] EXCEPT !.delivered = x.row.delivered])
  /\ todo' = [todo EXCEPT ![r] = @ \ {x}]
  /\ pc' = [pc EXCEPT ![r] = "next"]
  /\ UNCHANGED <<stockVars, orders, quotations, numbers, doc, quote, number, targets,
                 from>>

\* Mutant: the delivered quantity is decremented.
MarkDecrement(r, x) ==
  /\ pc[r] = "mark" /\ x \in todo[r] /\ Remaining(x.row) = 0
  /\ Writable(lines, r, x.line) /\ Seen(lines, r)[x.line] # NoLine
  /\ lines' = Put(lines, r, x.line,
                  [Seen(lines, r)[x.line] EXCEPT !.delivered = @ - x.row.delivered])
  /\ todo' = [todo EXCEPT ![r] = @ \ {x}]
  /\ pc' = [pc EXCEPT ![r] = "next"]
  /\ UNCHANGED <<stockVars, orders, quotations, numbers, doc, quote, number, targets,
                 from>>

\* The line's deliveredQuantity is set to the quantity that was read.
MarkLine(r, x) ==
  /\ pc[r] = "mark" /\ x \in todo[r] /\ Remaining(x.row) = 0
  /\ Writable(lines, r, x.line) /\ Seen(lines, r)[x.line] # NoLine
  /\ lines' = Put(lines, r, x.line,
                  [Seen(lines, r)[x.line] EXCEPT !.delivered = x.row.delivered])
  /\ todo' = [todo EXCEPT ![r] = @ \ {x}]
  /\ pc' = [pc EXCEPT ![r] = "next"]
  /\ UNCHANGED <<stockVars, orders, quotations, numbers, doc, quote, number, targets,
                 from>>

\* An update replaced the line meanwhile (P2025).
LineGone(r, x) ==
  /\ pc[r] = "mark" /\ x \in todo[r] /\ Remaining(x.row) = 0
  /\ Writable(lines, r, x.line) /\ Seen(lines, r)[x.line] = NoLine
  /\ Throw(r)

\* Mutant: the order is marked delivered before all its lines are.
SetDeliveredEarly(r) ==
  /\ pc[r] = "next"
  /\ Writable(orders, r, doc[r])
  /\ orders' = Put(orders, r, doc[r],
                   [Seen(orders, r)[doc[r]] EXCEPT !.status = "DELIVERED"])
  /\ pc' = [pc EXCEPT ![r] = "commit"]
  /\ UNCHANGED <<stockVars, lines, quotations, numbers, doc, quote, number, targets,
                 todo, from>>

SetDelivered(r) ==
  /\ pc[r] = "next" /\ todo[r] = {}
  /\ Writable(orders, r, doc[r])
  /\ orders' = Put(orders, r, doc[r],
                   [Seen(orders, r)[doc[r]] EXCEPT !.status = "DELIVERED"])
  /\ pc' = [pc EXCEPT ![r] = "commit"]
  /\ UNCHANGED <<stockVars, lines, quotations, numbers, doc, quote, number, targets,
                 todo, from>>

-----------------------------------------------------------------------------
(* Requests, failures, and the handlers of the inventory around them.      *)

Start(r) ==
  \/ \E o \in Order, h \in {"update", "confirm", "deliver", "cancel"} : StartOrder(r, o, h)
  \/ \E q \in Quotation \cup {Nobody} : StartCreate(r, q)
  \/ \E q \in Quotation, h \in {"set status", "remove"} : StartQuotation(r, q, h)
  \/ Inv!Start(r) /\ UNCHANGED orderVars

Step(r) ==
  \/ ReadOrder(r) \/ RefuseOrder(r)
  \/ \E o \in Order, w \in Warehouse, qty \in [Slot -> Ordered] : InsertOrder(r, o, w, qty)
  \/ NumberConflict(r) \/ InsertRefused(r) \/ ConvertQuotation(r) \/ ConvertRefused(r)
  \/ \E s \in Settable : WriteQuotation(r, s)
  \/ FindLines(r) \/ \E qty \in [Slot -> Ordered] : ReplaceLines(r, qty)
  \/ \E w \in Warehouse : UpdateHeader(r, w)
  \/ SetStatus(r)
  \/ \E x \in todo[r] : DeliverLine(r, x) \/ MarkLine(r, x) \/ LineGone(r, x)
  \/ DeliveryLogged(r) \/ SetDelivered(r) \/ CommitOrder(r)
  \/ (Inv!FindStock(r) \/ Inv!UpsertStock(r)) /\ UNCHANGED <<op, dest, orderVars>>
  \/ Inv!RefuseMovement(r) /\ DropOrder(r) /\ UNCHANGED <<op, dest>>
  \/ /\ \/ Inv!AdjustLogged(r) \/ Inv!ReadSource(r)
        \/ Inv!TransferOutLogged(r) \/ Inv!TransferInLogged(r)
        \/ Inv!CommitTransfer(r)
     /\ UNCHANGED orderVars

Abort(r) == Inv!Abort(r) /\ DropOrder(r)

Init ==
  /\ Inv!Init
  /\ orders = NewTable(InitialOrders)
  /\ \E qty \in [Slot -> Ordered] :
       lines = NewTable([l \in Line |->
                 IF InitialOrders[l[1]].status # Absent /\ l[3] = Nobody
                   THEN [qty |-> qty[l[2]], delivered |-> 0] ELSE NoLine])
  /\ quotations = [q \in Quotation |-> "DRAFT"]
  /\ numbers = [NewSeries EXCEPT !.rows =
                  Quantify(Order, LAMBDA o : InitialOrders[o].status # Absent)]
  /\ doc = [r \in Req |-> Nobody]
  /\ quote = [r \in Req |-> Nobody]
  /\ number = [r \in Req |-> 0]
  /\ targets = [r \in Req |-> {}]
  /\ todo = [r \in Req |-> {}]
  /\ from = [r \in Req |-> Nobody]

Next == \E r \in Req : Start(r) \/ Step(r) \/ Abort(r)

Spec == Init /\ [][Next]_vars
-----------------------------------------------------------------------------
(* Properties.                                                             *)

Label == {"idle", "read", "insert", "convert", "quotation", "write", "find lines",
          "delete", "header", "next", "find", "upsert", "log", "mark", "source",
          "commit"} \cup Inv!Answered

\* The variables keep their types.
TypeOK ==
  /\ stock \in TableOf(Inv!Item, Inv!StockRow)
  /\ moved \in Inv!Ledger /\ posted \in [Req -> Inv!Ledger]
  /\ pc \in [Req -> Label]
  /\ orders \in TableOf(Order, OrderRow)
  /\ lines \in TableOf(Line, LineRow)
  /\ quotations \in [Quotation -> QuotationStatus \cup {Absent}]
  /\ numbers \in Series
  /\ doc \in [Req -> Order \cup {Nobody}]
  /\ quote \in [Req -> Quotation \cup {Nobody}]
  /\ number \in [Req -> Nat]
  /\ targets \in [Req -> SUBSET Line]
  /\ todo \in [Req -> SUBSET [line : Line, row : LineRow]]
  /\ from \in [Req -> Warehouse \cup {Nobody}]

\* The quantities of product p that left by sale, and that lines call delivered.
Shipped(p) == MapThenSumSet(LAMBDA w : moved[<<"SALE_OUT", <<w, p>>>>].qty, Warehouse)

Delivered(p) == MapThenSumSet(LAMBDA l : lines.now[l].delivered,
                              {l \in Line : ProductOf[l[2]] = p})

\* Goods have left the stock for every quantity an order line calls delivered,
\* whatever fails or interleaves: a delivery cut short, out of stock on its
\* second line or overtaken by an edit marks nothing it did not ship
\* (sales-orders.service.ts:235-264).
DeliveredIsShipped == \A p \in Product : Delivered(p) <= Shipped(p)

\* An order is delivered as a whole: of the lines one create or edit gave it,
\* all are delivered in full or none is (the loop of sales-orders.service.ts:236
\* runs in one transaction).
DeliveredWhole ==
  \A l, k \in Line :
    /\ l[1] = k[1] /\ l[3] = k[3]
    /\ lines.now[l].delivered > 0 /\ lines.now[k] # NoLine
    => Remaining(lines.now[k]) = 0

\* Goods leave only for orders somebody confirmed: a line counts as delivered
\* only if its order was confirmed, however confirmation, edits, cancellations
\* and deliveries interleave (sales-orders.service.ts:205, 229).
ShippedWasConfirmed ==
  \A l \in Line : lines.now[l].delivered > 0 =>
    \/ InitialOrders[l[1]].status = "CONFIRMED"
    \/ \E r \in Req : op[r] = "confirm" /\ doc[r] = l[1] /\ pc[r] = "ok"

\* Stock and ledger agree (Inventory's Reconciled) although a delivery posts
\* several movements before it may run out of stock, lose a line to an edit or
\* wait for an adjustment or a transfer (sales-orders.service.ts:235-264).
LedgerMatchesStock == Inv!Reconciled
=============================================================================
