--------------------------- MODULE PurchaseOrders ---------------------------
(***************************************************************************)
(* apps/api/src/modules/purchasing/purchase-orders.service.ts, together    *)
(* with the inventory it receives goods into.  Every handler first reads   *)
(* the order outside any transaction (findOne), checks its status, and     *)
(* writes later without checking again; receive does so in a transaction   *)
(* that takes a receipt number, increments the received quantities and     *)
(* calls applyMovement for each line, then recomputes the order's status.  *)
(***************************************************************************)
EXTENDS Integers, Sequences, FiniteSetsExt, Postgres

CONSTANTS Warehouse, Product, Quantity, UnitCost, Opening, NoCost,  \* see Inventory
          Order,          \* the purchase orders of one company
          Slot,           \* the lines of an order
          ProductOf,      \* the product of each line
          Ordered,        \* the quantities an order line may ask for
          Delivery,       \* the dto.lines a receive request may carry
          Initial         \* the status of each order at the start

ASSUME OrderAssumption ==
  /\ Ordered \subseteq Nat \ {0}
  /\ ProductOf \in [Slot -> Product]
  /\ Delivery \subseteq Seq([slot : Slot, qty : Nat \ {0}, cost : Nat]) \ {<<>>}

\* PurchaseOrderStatus, and the order that does not exist yet.  No handler
\* writes SENT or CLOSED.
PurchaseOrderStatus == {"DRAFT", "CONFIRMED", "PARTIALLY_RECEIVED", "RECEIVED",
                        "CANCELLED"}
Absent == "absent"

ASSUME InitialAssumption == Initial \in [Order -> {Absent, "DRAFT", "CONFIRMED"}]

\* A line's identity: its order, its place in the dto that created it, and the
\* request that did (Nobody for the lines of the create call).
Line == Order \X Slot \X Owner

LineRow == [qty : Nat, received : Nat]

NoLine == [qty |-> 0, received |-> 0]

VARIABLES
  stock, moved, posted, pc, op, mv, found, dest,   \* see Inventory
  status,    \* the table purchase_orders: the status of each order
  lines,     \* the table purchase_order_lines; NoLine is no row
  numbers,   \* the order numbers (SAS) and the receipt numbers (MAL)
  receipts,  \* the committed purchase_receipts, in the order of their numbers
  doc,       \* the order a request is about
  number,    \* the document number it has computed
  targets,   \* the lines its deleteMany has found
  fully,     \* fullyReceived, as its last read of the lines gave it
  todo       \* its ReceivePurchaseOrderDto, and the line it is at

rowVars == <<stock, moved, posted>>
stockVars == <<stock, moved, posted, op, mv, found, dest>>
orderVars == <<status, lines, numbers, receipts, doc, number, targets, fully, todo>>
vars == <<stock, moved, posted, pc, op, mv, found, dest,
          status, lines, numbers, receipts, doc, number, targets, fully, todo>>

Inv == INSTANCE Inventory

ASSUME StockAssumption ==
  /\ Quantity \subseteq Nat \ {0}
  /\ UnitCost \subseteq Nat
  /\ Opening \in [Inv!Item -> [qty : Nat, cost : Nat]]
  /\ NoCost \notin Int

\* Bound: finitely many warehouses and orders.
ASSUME FiniteAssumption == IsFiniteSet(Warehouse) /\ IsFiniteSet(Order)

NoTodo == [lines |-> <<>>, by |-> Nobody, warehouse |-> Nobody, at |-> 0]

LinesOf(o) == {l \in Line : l[1] = o}

\* The lines of order o as createMany writes them, committed.
NewLines(t, o, by, qty) ==
  LET With(rows) == [l \in Line |-> IF l[1] = o /\ l[3] = by
                                      THEN [qty |-> qty[l[2]], received |-> 0]
                                      ELSE rows[l]]
  IN  [t EXCEPT !.now = With(@), !.work = With(@)]

-----------------------------------------------------------------------------
(* Reading and checking the order.                                         *)

Handler == {"create", "update", "confirm", "receive", "cancel"}

Begin(r, o, h) ==
  /\ pc[r] = "idle"
  /\ op' = [op EXCEPT ![r] = h]
  /\ doc' = [doc EXCEPT ![r] = o]
  /\ pc' = [pc EXCEPT ![r] = IF h = "create" THEN "number" ELSE "read"]
  /\ UNCHANGED <<rowVars, mv, found, dest, status, lines, numbers, receipts, number,
                 targets, fully>>

\* The dto names order lines by their ids and may name one of them twice.
StartReceive(r, o, delivery, by, w) ==
  /\ status.now[o] # Absent
  /\ \E s \in Slot : lines.now[<<o, s, by>>] # NoLine
  /\ Begin(r, o, "receive")
  /\ todo' = [todo EXCEPT ![r] = [lines |-> delivery, by |-> by, warehouse |-> w,
                                  at |-> 1]]

StartOther(r, o, h) ==
  /\ (h = "create") = (status.now[o] = Absent)
  /\ Begin(r, o, h)
  /\ UNCHANGED todo

Remaining(row) == row.qty - row.received

\* Every line of the dto is a line of the order, and asks for no more than
\* remains of it; each is compared with the row as findOne returned it.
Receivable(r) ==
  \A k \in DOMAIN todo[r].lines :
    LET row == lines.now[<<doc[r], todo[r].lines[k].slot, todo[r].by>>]
    IN  row # NoLine /\ todo[r].lines[k].qty <= Remaining(row)

\* Mutant: drafts can be received too.
AllowedFromDraft(r) ==
  LET s == status.now[doc[r]]
  IN  CASE op[r] \in {"update", "confirm"} -> s = "DRAFT"
        [] op[r] = "cancel"  -> s # "RECEIVED"
        [] op[r] = "receive" -> /\ s \in {"DRAFT", "CONFIRMED", "PARTIALLY_RECEIVED"}
                                /\ Receivable(r)

Allowed(r) ==
  LET s == status.now[doc[r]]
  IN  CASE op[r] \in {"update", "confirm"} -> s = "DRAFT"
        [] op[r] = "cancel"  -> s # "RECEIVED"
        [] op[r] = "receive" -> /\ s \in {"CONFIRMED", "PARTIALLY_RECEIVED"}
                                /\ Receivable(r)

AfterRead == [update |-> "find lines", confirm |-> "write", cancel |-> "write",
              receive |-> "number"]

\* findOne, then the status check.
ReadOrder(r) ==
  /\ pc[r] = "read" /\ Allowed(r)
  /\ pc' = [pc EXCEPT ![r] = AfterRead[op[r]]]
  /\ UNCHANGED <<stockVars, orderVars>>

RefuseOrder(r) ==
  /\ pc[r] = "read" /\ ~Allowed(r)
  /\ pc' = [pc EXCEPT ![r] = "refused"]
  /\ UNCHANGED <<stockVars, orderVars>>

-----------------------------------------------------------------------------
(* The end of a transaction.                                               *)

\* Undo every write of r's transaction on orders, lines and numbers.
DropOrder(r) ==
  /\ status' = Rollback(status, r)
  /\ lines' = Rollback(lines, r)
  /\ numbers' = [n \in DOMAIN numbers |-> RollbackSeries(numbers[n], r)]
  /\ UNCHANGED <<receipts, doc, number, targets, fully, todo>>

\* The statement r is at throws: unique number taken, or a row it names gone.
Throw(r) ==
  /\ pc' = [pc EXCEPT ![r] = "refused"]
  /\ Inv!DropStock(r)
  /\ DropOrder(r)
  /\ UNCHANGED <<op, dest>>

CommitOrder(r) ==
  /\ pc[r] = "commit" /\ op[r] \in {"update", "receive"}
  /\ Inv!KeepStock(r)
  /\ status' = Commit(status, r)
  /\ lines' = Commit(lines, r)
  /\ numbers' = [n \in DOMAIN numbers |-> CommitSeries(numbers[n], r)]
  /\ receipts' = IF op[r] = "receive"
                   THEN Append(receipts, [order |-> doc[r], dto |-> todo[r]])
                   ELSE receipts
  /\ pc' = [pc EXCEPT ![r] = "ok"]
  /\ UNCHANGED <<op, dest, doc, number, targets, fully, todo>>

-----------------------------------------------------------------------------
(* Document numbers: nextDocumentNumber counts the committed rows.         *)

SeriesOf(r) == IF op[r] = "create" THEN "SAS" ELSE "MAL"

nextDocumentNumber(r) ==
  /\ pc[r] = "number"
  /\ number' = [number EXCEPT ![r] = numbers[SeriesOf(r)].rows + 1]
  /\ pc' = [pc EXCEPT ![r] = "insert"]
  /\ UNCHANGED <<stockVars, status, lines, numbers, receipts, doc, targets, fully, todo>>

\* @@unique([companyId, orderNumber]), @@unique([companyId, receiptNumber]).
NumberConflict(r) ==
  /\ pc[r] = "insert"
  /\ Taken(numbers[SeriesOf(r)], number[r])
  /\ Throw(r)

-----------------------------------------------------------------------------
(* create: the order and its lines in one statement, by itself.            *)

InsertOrder(r, o, qty) ==
  /\ pc[r] = "insert" /\ op[r] = "create"
  /\ Insertable(numbers["SAS"], number[r])
  /\ status.now[o] = Absent
  /\ numbers' = [numbers EXCEPT !["SAS"].rows = number[r]]
  /\ status' = Save(status, o, "DRAFT")
  /\ lines' = NewLines(lines, o, Nobody, qty)
  /\ doc' = [doc EXCEPT ![r] = o]
  /\ pc' = [pc EXCEPT ![r] = "ok"]
  /\ UNCHANGED <<stockVars, receipts, number, targets, fully, todo>>

-----------------------------------------------------------------------------
(* update: in a transaction, but the DRAFT check was before it.            *)

\* deleteMany finds the order's lines as committed when the statement starts ...
FindLines(r) ==
  /\ pc[r] = "find lines"
  /\ targets' = [targets EXCEPT ![r] =
                   {l \in LinesOf(doc[r]) : lines.now[l] # NoLine}]
  /\ pc' = [pc EXCEPT ![r] = "delete"]
  /\ UNCHANGED <<stockVars, status, lines, numbers, receipts, doc, number, fully, todo>>

\* ... waits for those another transaction has written, and deletes what is left
\* of them; it does not see lines committed meanwhile.  createMany follows.
ReplaceLines(r, qty) ==
  /\ pc[r] = "delete"
  /\ \A l \in targets[r] : Writable(lines, r, l)
  /\ LET new == {l \in LinesOf(doc[r]) : l[3] = r}
         row(l) == IF l \in new THEN [qty |-> qty[l[2]], received |-> 0] ELSE NoLine
     IN  lines' = [lines EXCEPT
           !.work = [l \in Line |-> IF l \in targets[r] \cup new THEN row(l) ELSE @[l]],
           !.lock = [l \in Line |-> IF l \in targets[r] \cup new THEN r ELSE @[l]]]
  /\ targets' = [targets EXCEPT ![r] = {}]
  /\ pc' = [pc EXCEPT ![r] = "header"]
  /\ UNCHANGED <<stockVars, status, numbers, receipts, doc, number, fully, todo>>

\* An update without dto.lines, or after them: purchaseOrder.update writes the
\* header, never the status.
UpdateHeader(r) ==
  /\ op[r] = "update" /\ pc[r] \in {"find lines", "header"}
  /\ Writable(status, r, doc[r])
  /\ status' = Put(status, r, doc[r], Seen(status, r)[doc[r]])
  /\ pc' = [pc EXCEPT ![r] = "commit"]
  /\ UNCHANGED <<stockVars, lines, numbers, receipts, doc, number, targets, fully, todo>>

-----------------------------------------------------------------------------
(* confirm and cancel: one unconditional write.                            *)

SetStatus(r) ==
  /\ pc[r] = "write"
  /\ Writable(status, r, doc[r])
  /\ status' = Save(status, doc[r], IF op[r] = "confirm" THEN "CONFIRMED"
                                                         ELSE "CANCELLED")
  /\ pc' = [pc EXCEPT ![r] = "ok"]
  /\ UNCHANGED <<stockVars, lines, numbers, receipts, doc, number, targets, fully, todo>>

-----------------------------------------------------------------------------
(* receive.                                                                *)

\* purchaseReceipt.create.
InsertReceipt(r) ==
  /\ pc[r] = "insert" /\ op[r] = "receive"
  /\ Insertable(numbers["MAL"], number[r])
  /\ numbers' = [numbers EXCEPT !["MAL"] = Insert(@, r)]
  /\ pc' = [pc EXCEPT ![r] = "line"]
  /\ UNCHANGED <<stockVars, status, lines, receipts, doc, number, targets, fully, todo>>

Current(r) == todo[r].lines[todo[r].at]

LineKey(r) == <<doc[r], Current(r).slot, todo[r].by>>

\* The order line findOne returned still exists.
LineStands(r) == Seen(lines, r)[LineKey(r)] # NoLine

\* Mutant: the received quantity is computed from the row findOne returned.
ReceiveLineAbsolute(r) ==
  /\ pc[r] = "line"
  /\ Writable(lines, r, LineKey(r)) /\ LineStands(r)
  /\ lines' = LET row == lines.now[LineKey(r)]
              IN  Put(lines, r, LineKey(r),
                      [row EXCEPT !.received = @ + Current(r).qty])
  /\ mv' = [mv EXCEPT ![r] =
              [type |-> "PURCHASE_IN",
               item |-> <<todo[r].warehouse, ProductOf[Current(r).slot]>>,
               qty |-> Current(r).qty, cost |-> Current(r).cost]]
  /\ pc' = [pc EXCEPT ![r] = "find"]
  /\ UNCHANGED <<rowVars, op, found, dest, status, numbers, receipts, doc, number,
                 targets, fully, todo>>

\* Mutant: the received quantity is decremented.
ReceiveLineDecrement(r) ==
  /\ pc[r] = "line"
  /\ Writable(lines, r, LineKey(r)) /\ LineStands(r)
  /\ lines' = LET row == Seen(lines, r)[LineKey(r)]
              IN  Put(lines, r, LineKey(r),
                      [row EXCEPT !.received = @ - Current(r).qty])
  /\ mv' = [mv EXCEPT ![r] =
              [type |-> "PURCHASE_IN",
               item |-> <<todo[r].warehouse, ProductOf[Current(r).slot]>>,
               qty |-> Current(r).qty, cost |-> Current(r).cost]]
  /\ pc' = [pc EXCEPT ![r] = "find"]
  /\ UNCHANGED <<rowVars, op, found, dest, status, numbers, receipts, doc, number,
                 targets, fully, todo>>

\* The receipt line is inserted, receivedQuantity incremented, and applyMovement
\* called for the line.
ReceiveLine(r) ==
  /\ pc[r] = "line"
  /\ Writable(lines, r, LineKey(r)) /\ LineStands(r)
  /\ lines' = LET row == Seen(lines, r)[LineKey(r)]
              IN  Put(lines, r, LineKey(r),
                      [row EXCEPT !.received = @ + Current(r).qty])
  /\ mv' = [mv EXCEPT ![r] =
              [type |-> "PURCHASE_IN",
               item |-> <<todo[r].warehouse, ProductOf[Current(r).slot]>>,
               qty |-> Current(r).qty, cost |-> Current(r).cost]]
  /\ pc' = [pc EXCEPT ![r] = "find"]
  /\ UNCHANGED <<rowVars, op, found, dest, status, numbers, receipts, doc, number,
                 targets, fully, todo>>

\* An update replaced the lines: foreign key violation (P2003).
LineGone(r) ==
  /\ pc[r] = "line"
  /\ Writable(lines, r, LineKey(r)) /\ ~LineStands(r)
  /\ Throw(r)

\* Mutant: the loop over the lines ends one line early.
ReceiptLoggedShort(r) ==
  /\ op[r] = "receive"
  /\ Inv!LogMovement(r, IF todo[r].at >= Len(todo[r].lines) - 1 THEN "status" ELSE "line")
  /\ todo' = [todo EXCEPT ![r].at = @ + 1]
  /\ UNCHANGED <<op, mv, dest, status, lines, numbers, receipts, doc, number, targets,
                 fully>>

\* The movement is written: the next line, or the status.
ReceiptLogged(r) ==
  /\ op[r] = "receive"
  /\ Inv!LogMovement(r, IF todo[r].at = Len(todo[r].lines) THEN "status" ELSE "line")
  /\ todo' = [todo EXCEPT ![r].at = @ + 1]
  /\ UNCHANGED <<op, mv, dest, status, lines, numbers, receipts, doc, number, targets,
                 fully>>

\* Mutant: the lines are read again outside the transaction.
RereadOutside(r) ==
  /\ pc[r] = "status"
  /\ fully' = [fully EXCEPT ![r] =
                 \A l \in LinesOf(doc[r]) : Remaining(lines.now[l]) <= 0]
  /\ pc' = [pc EXCEPT ![r] = "received"]
  /\ UNCHANGED <<stockVars, status, lines, numbers, receipts, doc, number, targets, todo>>

\* The lines are read again, then the status is written: two statements.
RereadLines(r) ==
  /\ pc[r] = "status"
  /\ fully' = [fully EXCEPT ![r] =
                 \A l \in LinesOf(doc[r]) : Remaining(Seen(lines, r)[l]) <= 0]
  /\ pc' = [pc EXCEPT ![r] = "received"]
  /\ UNCHANGED <<stockVars, status, lines, numbers, receipts, doc, number, targets, todo>>

SetReceived(r) ==
  /\ pc[r] = "received"
  /\ Writable(status, r, doc[r])
  /\ status' = Put(status, r, doc[r], IF fully[r] THEN "RECEIVED"
                                                  ELSE "PARTIALLY_RECEIVED")
  /\ pc' = [pc EXCEPT ![r] = "commit"]
  /\ UNCHANGED <<stockVars, lines, numbers, receipts, doc, number, targets, fully, todo>>

-----------------------------------------------------------------------------
(* Requests, failures, and the handlers of the inventory around them.      *)

Start(r) ==
  \/ \E o \in Order, h \in Handler \ {"receive"} : StartOther(r, o, h)
  \/ \E o \in Order, d \in Delivery, by \in Owner, w \in Warehouse :
       StartReceive(r, o, d, by, w)
  \/ Inv!Start(r) /\ UNCHANGED orderVars

Step(r) ==
  \/ ReadOrder(r) \/ RefuseOrder(r)
  \/ nextDocumentNumber(r) \/ NumberConflict(r)
  \/ \E o \in Order, qty \in [Slot -> Ordered] : InsertOrder(r, o, qty)
  \/ FindLines(r) \/ \E qty \in [Slot -> Ordered] : ReplaceLines(r, qty)
  \/ UpdateHeader(r) \/ SetStatus(r)
  \/ InsertReceipt(r) \/ ReceiveLine(r) \/ LineGone(r) \/ ReceiptLogged(r)
  \/ RereadLines(r) \/ SetReceived(r) \/ CommitOrder(r)
  \/ (Inv!FindStock(r) \/ Inv!UpsertStock(r)) /\ UNCHANGED <<op, dest, orderVars>>
  \/ Inv!RefuseMovement(r) /\ DropOrder(r) /\ UNCHANGED <<op, dest>>
  \/ /\ \/ Inv!AdjustLogged(r) \/ Inv!ReadSource(r)
        \/ Inv!TransferOutLogged(r) \/ Inv!TransferInLogged(r)
        \/ Inv!CommitTransfer(r)
     /\ UNCHANGED orderVars

Abort(r) == Inv!Abort(r) /\ DropOrder(r)

Init ==
  /\ Inv!Init
  /\ status = NewTable(Initial)
  /\ \E qty \in [Slot -> Ordered] :
       lines = NewTable([l \in Line |-> IF Initial[l[1]] # Absent /\ l[3] = Nobody
                           THEN [qty |-> qty[l[2]], received |-> 0] ELSE NoLine])
  /\ numbers = [SAS |-> [NewSeries EXCEPT !.rows =
                          Quantify(Order, LAMBDA o : Initial[o] # Absent)],
                MAL |-> NewSeries]
  /\ receipts = <<>>
  /\ doc = [r \in Req |-> Nobody]
  /\ number = [r \in Req |-> 0]
  /\ targets = [r \in Req |-> {}]
  /\ fully = [r \in Req |-> FALSE]
  /\ todo = [r \in Req |-> NoTodo]

Next == \E r \in Req : Start(r) \/ Step(r) \/ Abort(r)

Spec == Init /\ [][Next]_vars
-----------------------------------------------------------------------------
(* Properties.                                                             *)

Label == {"idle", "read", "number", "insert", "write", "find lines", "delete",
          "header", "line", "find", "upsert", "log", "source", "status",
          "received", "commit"} \cup Inv!Answered

\* The variables keep their types.
TypeOK ==
  /\ stock \in TableOf(Inv!Item, Inv!StockRow)
  /\ moved \in Inv!Ledger /\ posted \in [Req -> Inv!Ledger]
  /\ pc \in [Req -> Label]
  /\ op \in [Req -> Handler \cup {"none", "adjust", "transfer"}]
  /\ status \in TableOf(Order, PurchaseOrderStatus \cup {Absent})
  /\ lines \in TableOf(Line, LineRow)
  /\ numbers \in [{"SAS", "MAL"} -> Series]
  /\ doc \in [Req -> Order \cup {Nobody}]
  /\ number \in [Req -> Nat]
  /\ targets \in [Req -> SUBSET Line]
  /\ fully \in [Req -> BOOLEAN]

\* The lines of all committed receipts; n is a receipt's number.
ReceiptLine == UNION {{<<n, k>> : k \in DOMAIN receipts[n].dto.lines} :
                        n \in DOMAIN receipts}

Qty(x) == receipts[x[1]].dto.lines[x[2]].qty

OrderLineOf(x) == LET receipt == receipts[x[1]]
                  IN  <<receipt.order, receipt.dto.lines[x[2]].slot, receipt.dto.by>>

\* The committed receivedQuantity of every order line is what the lines of the
\* committed receipts add up to: receivers that overlap, fail between two lines
\* or name a line twice lose no quantity and count none twice
\* (purchase-orders.service.ts:280-293).
ReceivedMatchesReceipts ==
  \A l \in Line : lines.now[l] # NoLine =>
    lines.now[l].received =
      MapThenSumSet(Qty, {x \in ReceiptLine : OrderLineOf(x) = l})

\* What the committed receipts brought into a warehouse is what the ledger of
\* stock movements says came in by purchase, and stock and ledger agree
\* (Inventory's Reconciled), also while adjustments and transfers of the same
\* goods overlap the receipt (purchase-orders.service.ts:262-324).
GoodsMatchReceipts ==
  /\ Inv!Reconciled
  /\ \A i \in Inv!Item :
       moved[<<"PURCHASE_IN", i>>].qty =
         MapThenSumSet(Qty, {x \in ReceiptLine :
           i = <<receipts[x[1]].dto.warehouse, ProductOf[OrderLineOf(x)[2]]>>})

\* An order is left PARTIALLY_RECEIVED only while one of its lines is short.
\* Two receivers that each complete a line of their own would each see the
\* other's line short; what prevents it is that both number their receipt first,
\* and the loser of the race for the number is thrown out
\* (purchase-orders.service.ts:259, 311-324).
PartialMeansShort ==
  \A o \in Order : status.now[o] = "PARTIALLY_RECEIVED" =>
    \E l \in LinesOf(o) : Remaining(lines.now[l]) > 0

\* Goods are received only against an order somebody confirmed, however the
\* confirmation, a cancellation and the receipt interleave
\* (purchase-orders.service.ts:205, 233).
ReceiptsNeedConfirm ==
  \A n \in DOMAIN receipts :
    \/ Initial[receipts[n].order] = "CONFIRMED"
    \/ \E r \in Req : op[r] = "confirm" /\ doc[r] = receipts[n].order /\ pc[r] = "ok"

-----------------------------------------------------------------------------
(* What the code's own words promise, and its steps do not keep.           *)

\* "Cannot receive .. of product; only .. remaining"
\* (purchase-orders.service.ts:253): no line receives more than was ordered.
NoOverReceipt == \A l \in Line : lines.now[l].received <= lines.now[l].qty
=============================================================================
