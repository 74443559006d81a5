------------------------- MODULE SalesOrders_proofs -------------------------
(***************************************************************************)
(* Theorems about SalesOrders, for every number of requests, orders, lines,*)
(* quotations, warehouses and products.                                    *)
(*                                                                         *)
(* The invariant OrdersInv has six parts: the books of Inventory_proofs,   *)
(* which hold for whoever calls applyMovement; Documents, types and who    *)
(* holds which row at which stage; Confirmations, who confirmed what is    *)
(* under delivery; Batches, that the lines one request gave an order come, *)
(* go and are delivered together; Current, the line a delivery is about;   *)
(* and Goods, that what is marked delivered has left the stock.            *)
(*                                                                         *)
(* Every step is first put in one of a few shapes (StepFacts for the       *)
(* documents, Motion for the stock and the ledger), and each part of the   *)
(* invariant is shown to be kept by each shape.                            *)
(***************************************************************************)
EXTENDS SalesOrders, Shared_proofs

P == INSTANCE Inventory_proofs

-----------------------------------------------------------------------------
(* The invariant.  First, which request is where, and what it holds.       *)

\* A request that is about an order that exists.
OrderOps == {"update", "confirm", "cancel", "deliver"}

Ops == {"none", "adjust", "transfer", "create", "set status", "remove"} \cup OrderOps

\* Which handlers a stage belongs to.
Stages ==
  \A r \in Req :
    /\ op[r] \in Ops
    /\ pc[r] = "idle" <=> op[r] = "none"
    /\ pc[r] = "source" => op[r] = "transfer"
    /\ pc[r] \in {"find", "upsert", "log"} => op[r] \in {"adjust", "transfer", "deliver"}
    /\ pc[r] = "read" => op[r] \in OrderOps
    /\ pc[r] \in {"find lines", "delete", "header"} => op[r] = "update"
    /\ pc[r] = "write" => op[r] \in {"confirm", "cancel"}
    /\ pc[r] \in {"next", "mark"} => op[r] = "deliver"
    /\ pc[r] \in {"insert", "convert"} => op[r] = "create"
    /\ pc[r] = "quotation" => op[r] \in {"set status", "remove"}
    /\ pc[r] = "commit" => op[r] \in {"transfer", "update", "deliver"}
    /\ pc[r] = "unlogged" => op[r] = "adjust"

\* A delivery past its read, with its transaction open.
Delivering(r) ==
  op[r] = "deliver" /\ pc[r] \in {"next", "find", "upsert", "log", "mark", "commit"}

\* What a request past "idle" has.
Arguments ==
  \A r \in Req :
    /\ op[r] \in OrderOps => doc[r] \in Order
    /\ pc[r] \in {"quotation", "convert"} => quote[r] \in Quotation
    /\ Delivering(r) => from[r] \in Warehouse
    /\ op[r] # "update" => targets[r] = {}
    /\ op[r] # "deliver" => todo[r] = {}
    /\ targets[r] \in SUBSET LinesOf(doc[r])
    /\ \A x \in todo[r] : x.line[1] = doc[r]

\* The rows of orders and lines an open transaction holds are about its order.
OrderHolders ==
  \A o \in Order :
    /\ orders.lock[o] = Nobody => orders.work[o] = orders.now[o]
    /\ \A r \in Req : orders.lock[o] = r =>
         /\ pc[r] = "commit" /\ op[r] \in {"update", "deliver"} /\ doc[r] = o
         /\ orders.work[o].status # Absent

LineHolders ==
  \A l \in Line :
    /\ lines.lock[l] = Nobody => lines.work[l] = lines.now[l]
    /\ \A r \in Req : lines.lock[l] = r =>
         /\ l[1] = doc[r]
         /\ \/ op[r] = "update" /\ pc[r] \in {"header", "commit"}
            \/ Delivering(r)

Existing ==
  \A r \in Req : op[r] \in OrderOps => orders.now[doc[r]].status # Absent

\* TypeOK, but for the stock and its ledger.
DocTypes ==
  /\ pc \in [Req -> Label]
  /\ orders \in TableOf(Order, OrderRow)
  /\ lines \in TableOf(Line, LineRow)
  /\ quotations \in [Quotation -> QuotationStatus \cup {Absent}]
  /\ numbers \in Series
  /\ doc \in [Req -> Order \cup {Nobody}]
  /\ quote \in [Req -> Quotation \cup {Nobody}]
  /\ number \in [Req -> Nat]
  /\ targets \in [Req -> SUBSET Line]
  /\ todo \in [Req -> SUBSET [line : Line, row : LineRow]]
  /\ from \in [Req -> Warehouse \cup {Nobody}]

Documents == DocTypes /\ Stages /\ Arguments /\ OrderHolders /\ LineHolders /\ Existing

-----------------------------------------------------------------------------
Confirmed(o) ==
  \/ InitialOrders[o].status = "CONFIRMED"
  \/ \E r \in Req : op[r] = "confirm" /\ doc[r] = o /\ pc[r] = "ok"

Confirmations ==
  /\ \A o \in Order : "CONFIRMED" \in {orders.now[o].status, orders.work[o].status}
                        => Confirmed(o)
  /\ \A r \in Req : Delivering(r) => Confirmed(doc[r])
  /\ \A l \in Line : lines.now[l].delivered > 0 \/ lines.work[l].delivered > 0
                       => Confirmed(l[1])

-----------------------------------------------------------------------------
(* Batches: the lines one request gave an order.                           *)

Together(l, k) == l[1] = k[1] /\ l[3] = k[3]

\* A line's creator is done: nobody creates the line again.
Made(l) == IF l[3] = Nobody THEN orders.now[l[1]].status # Absent ELSE pc[l[3]] = "ok"

Whole(S) == \A l \in S, k \in Line : Together(l, k) => k \in S

MadeFor(r) ==
  /\ \A l \in targets[r] : Made(l)
  /\ \A x \in todo[r] :
       /\ Made(x.line) /\ x.row.qty > 0 /\ x.row.delivered \in {0, x.row.qty}
       /\ lines.now[x.line] # NoLine => lines.now[x.line].qty = x.row.qty
  /\ \A l \in Line : lines.lock[l] = r => Made(l) \/ l[3] = r

MadeOnce ==
  /\ \A l \in Line : lines.now[l] # NoLine => Made(l)
  /\ \A r \in Req : MadeFor(r)

\* What is committed of a batch is all of it or nothing, and so is what is
\* delivered.
Uniform ==
  \A l \in Line :
    lines.now[l] # NoLine =>
      /\ lines.now[l].qty > 0 /\ lines.now[l].delivered \in {0, lines.now[l].qty}
      /\ \A k \in Line : Together(l, k) =>
           /\ lines.now[k] # NoLine
           /\ lines.now[l].delivered > 0 => Remaining(lines.now[k]) = 0

HeldBy(r) == {l \in Line : lines.lock[l] = r}

\* What a transaction holds, and a delivery has yet to mark, is whole batches; an
\* edit deletes them or makes its own, a delivery marks them in full.
BatchOf(r) ==
  /\ Whole(targets[r])
  /\ op[r] = "update" => Whole(HeldBy(r))
  /\ Delivering(r) => Whole(HeldBy(r) \cup {x.line : x \in todo[r]})
  /\ pc[r] = "commit" /\ op[r] = "deliver" => todo[r] = {}
  /\ \A l \in HeldBy(r) :
       /\ op[r] = "update" =>
            IF l[3] = r THEN lines.work[l].qty > 0 /\ lines.work[l].delivered = 0
                        ELSE lines.work[l] = NoLine
       /\ Delivering(r) =>
            /\ lines.now[l] # NoLine
            /\ lines.work[l] = [qty |-> lines.now[l].qty, delivered |-> lines.now[l].qty]

Batches == MadeOnce /\ Uniform /\ \A r \in Req : BatchOf(r)

-----------------------------------------------------------------------------
(* Goods.                                                                  *)

\* The line a delivery is about, between DeliverLine and MarkLine.
Current ==
  \A r \in Req :
    /\ op[r] = "deliver" /\ pc[r] \in {"find", "upsert", "log", "mark"} =>
         /\ mv[r].type = "SALE_OUT"
         /\ \A x, y \in todo[r] : Remaining(x.row) = 0 /\ Remaining(y.row) = 0 => x = y
         /\ \A x \in todo[r] : Remaining(x.row) = 0 =>
              mv[r].qty = x.row.qty /\ mv[r].item[2] = ProductOf[x.line[2]]
    /\ pc[r] = "next" => \A x \in todo[r] : Remaining(x.row) # 0
    /\ pc[r] \in {"upsert", "log", "mark"} => mv[r].qty \in Nat \ {0}
    /\ \A x \in Inv!MovementType \X Inv!Item : posted[r][x].qty >= 0

LinesFor(p) == {l \in Line : ProductOf[l[2]] = p}

Gain(r) == [l \in Line |-> IF lines.lock[l] = r THEN lines.work[l].delivered ELSE 0]

Owed(r, p) == IF pc[r] = "mark" /\ mv[r].item[2] = p THEN mv[r].qty ELSE 0

\* What a transaction has marked delivered of product p, and what ledger m says
\* left by sale.
Marked(r, p) == SumOf(Gain(r), LinesFor(p))

Sent(m, p) == SumOf(P!Quantities(m, "SALE_OUT", p), Warehouse)

DeliveredRows == [l \in Line |-> lines.now[l].delivered]

Afoot(r) == \A p \in Product : Marked(r, p) + Owed(r, p) <= Sent(posted[r], p)

Goods ==
  /\ \A r \in Req : Afoot(r)
  /\ \A p \in Product : SumOf(DeliveredRows, LinesFor(p)) <= Sent(moved, p)

OrdersInv == P!Books /\ Documents /\ Confirmations /\ Batches /\ Current /\ Goods
-----------------------------------------------------------------------------
(* The inventory of this module is the one the lemmas of Inventory_proofs  *)
(* are about.                                                              *)

LEMMA StockFacts ==
  /\ Quantity \subseteq Nat \ {0} /\ UnitCost \subseteq Nat
  /\ Opening \in [P!Item -> [qty : Nat, cost : Nat]]
  /\ NoCost \notin Int /\ IsFiniteSet(Warehouse) /\ Nobody \notin Req
  /\ P!Item = Inv!Item /\ Inv!Item = Warehouse \X Product /\ P!Ledger = Inv!Ledger
  /\ P!StockRow = Inv!StockRow /\ P!NoPosting = Inv!NoPosting /\ P!NoRow = Inv!NoRow
  /\ P!MovementType = Inv!MovementType
BY StockAssumption, FiniteAssumption, NobodyAssumption
   DEF P!Item, Inv!Item, P!Ledger, Inv!Ledger,
       P!StockRow, Inv!StockRow, P!NoPosting, Inv!NoPosting, P!MovementType, Inv!MovementType,
       P!NoRow, Inv!NoRow

LEMMA SameActions ==
  ASSUME NEW r \in Req
  PROVE  /\ Inv!Start(r) => P!Start(r)
         /\ Inv!FindStock(r) => P!FindStock(r)
         /\ Inv!UpsertStock(r) => P!UpsertStock(r)
         /\ Inv!RefuseMovement(r) => P!RefuseMovement(r)
         /\ Inv!AdjustLogged(r) => P!AdjustLogged(r)
         /\ Inv!ReadSource(r) => P!ReadSource(r)
         /\ Inv!TransferOutLogged(r) => P!TransferOutLogged(r)
         /\ Inv!TransferInLogged(r) => P!TransferInLogged(r)
         /\ Inv!CommitTransfer(r) => P!CommitTransfer(r)
         /\ Inv!Abort(r) => P!Abort(r)
         /\ Inv!DropStock(r) => P!DropStock(r)
         /\ Inv!KeepStock(r) => P!KeepStock(r)
         /\ \A l : Inv!LogMovement(r, l) => P!LogMovement(r, l)
<1>1. \A l : Inv!LogMovement(r, l) => P!LogMovement(r, l)
  BY DEF Inv!LogMovement, P!LogMovement, Inv!LoggedCost, P!LoggedCost, Inv!InTransaction,
         P!InTransaction, Inv!Post, P!Post, Inv!isIncoming, P!isIncoming, Inv!INCOMING_TYPES,
         P!INCOMING_TYPES, Inv!NoRow, P!NoRow
<1>2. Inv!DropStock(r) => P!DropStock(r)
  BY DEF Inv!DropStock, P!DropStock, Inv!NoPosting, P!NoPosting, Inv!Item, P!Item,
         Inv!MovementType, P!MovementType, Inv!NoRow, P!NoRow, Inv!Rollback, P!Rollback,
         Inv!Unlocked, P!Unlocked
<1>3. Inv!KeepStock(r) => P!KeepStock(r)
  BY DEF Inv!KeepStock, P!KeepStock, Inv!NoPosting, P!NoPosting, Inv!Item, P!Item,
         Inv!MovementType, P!MovementType, Inv!Merge, P!Merge, Inv!Commit, P!Commit,
         Inv!Seen, P!Seen, Inv!Unlocked, P!Unlocked
<1>4. Inv!Start(r) => P!Start(r)
  BY StockFacts DEF Inv!Start, P!Start, Inv!StartAdjust, P!StartAdjust, Inv!StartTransfer,
         P!StartTransfer
<1>5. Inv!FindStock(r) => P!FindStock(r)
  BY DEF Inv!FindStock, P!FindStock, Inv!Refused, P!Refused, Inv!Insufficient, P!Insufficient,
         Inv!isIncoming, P!isIncoming, Inv!INCOMING_TYPES, P!INCOMING_TYPES, Inv!Seen, P!Seen
<1>6. Inv!RefuseMovement(r) => P!RefuseMovement(r)
  BY <1>2 DEF Inv!RefuseMovement, P!RefuseMovement, Inv!Refused, P!Refused, Inv!Insufficient,
         P!Insufficient, Inv!isIncoming, P!isIncoming, Inv!INCOMING_TYPES, P!INCOMING_TYPES,
         Inv!Seen, P!Seen
<1>7. Inv!UpsertStock(r) => P!UpsertStock(r)
  BY DEF Inv!UpsertStock, P!UpsertStock, Inv!Upserted, P!Upserted, Inv!Signed, P!Signed,
         Inv!MovingAverage, P!MovingAverage, Inv!Rounded, P!Rounded, Inv!InTransaction,
         P!InTransaction, Inv!isIncoming, P!isIncoming, Inv!INCOMING_TYPES, P!INCOMING_TYPES,
         Inv!Writable, P!Writable, Inv!Put, P!Put, Inv!Save, P!Save, Inv!Seen, P!Seen
<1>8. Inv!AdjustLogged(r) => P!AdjustLogged(r)
  BY <1>1 DEF Inv!AdjustLogged, P!AdjustLogged
<1>9. Inv!ReadSource(r) => P!ReadSource(r)
  BY DEF Inv!ReadSource, P!ReadSource, Inv!Seen, P!Seen
<1>10. Inv!TransferOutLogged(r) => P!TransferOutLogged(r)
  BY <1>1 DEF Inv!TransferOutLogged, P!TransferOutLogged
<1>11. Inv!TransferInLogged(r) => P!TransferInLogged(r)
  BY <1>1 DEF Inv!TransferInLogged, P!TransferInLogged
<1>12. Inv!CommitTransfer(r) => P!CommitTransfer(r)
  BY <1>3 DEF Inv!CommitTransfer, P!CommitTransfer
<1>13. Inv!Abort(r) => P!Abort(r)
  BY <1>2 DEF Inv!Abort, P!Abort, Inv!InFlight, P!InFlight, Inv!Answered, P!Answered,
         Inv!InTransaction, P!InTransaction
<1> QED
  BY <1>1, <1>2, <1>3, <1>4, <1>5, <1>6, <1>7, <1>8, <1>9, <1>10, <1>11, <1>12, <1>13
\* The inventory's actions, as the books see them.
LEMMA StockParts ==
  ASSUME P!BookTypes
  PROVE  /\ DOMAIN pc = Req /\ DOMAIN op = Req /\ DOMAIN mv = Req /\ DOMAIN dest = Req
         /\ moved \in Inv!Ledger /\ posted \in [Req -> Inv!Ledger]
         /\ stock \in TableOf(Inv!Item, Inv!StockRow)
BY StockFacts DEF P!BookTypes, P!TableOf, TableOf, P!Owner, Owner

LEMMA TypesHold == P!BookTypes /\ DocTypes => TypeOK
BY StockParts DEF DocTypes, TypeOK

-----------------------------------------------------------------------------
(* The shapes of a step, but for what it does to the stock.                *)

\* It leaves the other requests alone, and has the quotation it goes on with.
Others(r) ==
  /\ \A q \in Req \ {r} : pc'[q] = pc[q] /\ op'[q] = op[q] /\ quote'[q] = quote[q]
  /\ pc'[r] \in {"quotation", "convert"} => quote'[r] \in Quotation

\* It leaves the documents alone, and is not the end of a transaction on them.
Quiet(r) ==
  /\ UNCHANGED <<orders, lines, doc, targets, todo, from>>
  /\ pc[r] \notin Inv!Answered /\ (op[r] \in OrderOps => pc'[r] # "ok")
  /\ op'[r] = op[r] \/ (pc[r] = "idle" /\ op'[r] \notin OrderOps)
  /\ Delivering(r)' <=> Delivering(r)
  /\ op[r] = "update" => pc[r] = "read"
  /\ "commit" \in {pc[r], pc'[r]} => op[r] = "transfer"

\* It ends the transaction without any of its writes.
Dropped(r) ==
  /\ orders' = Rollback(orders, r) /\ lines' = Rollback(lines, r)
  /\ UNCHANGED <<op, doc, targets, todo, from>>
  /\ pc[r] \notin Inv!Answered \cup {"idle"}
  /\ pc'[r] \in {"refused", "aborted", "unlogged"}

Shapes(r) ==
  /\ Others(r)
  /\ \/ Quiet(r) \/ Dropped(r)
     \/ \E o \in Order, h \in OrderOps : StartOrder(r, o, h)
     \/ ReadOrder(r)
     \/ \E o \in Order, w \in Warehouse, qty \in [Slot -> Ordered] : InsertOrder(r, o, w, qty)
     \/ FindLines(r) \/ \E qty \in [Slot -> Ordered] : ReplaceLines(r, qty)
     \/ \E w \in Warehouse : UpdateHeader(r, w)
     \/ SetStatus(r)
     \/ \E x \in todo[r] : DeliverLine(r, x) \/ MarkLine(r, x)
     \/ SetDelivered(r) \/ CommitOrder(r)

\* Types, stages and shapes, step by step.
StepFacts(r) == DocTypes' /\ Stages' /\ Shapes(r)

LEMMA StartFacts ==
  ASSUME P!BookTypes, DocTypes, Stages, NEW r \in Req, Start(r)
  PROVE  StepFacts(r)
<1> USE NobodyAssumption, StockParts DEF StepFacts
<1>1. ASSUME NEW o \in Order, NEW h \in {"update", "confirm", "deliver", "cancel"},
             StartOrder(r, o, h)
      PROVE  StepFacts(r)
  <2>1. DocTypes'
    BY <1>1 DEF StartOrder, DocTypes, Stages, Label, OrderOps, Ops, orderVars
  <2>0. Stages'
    BY <1>1 DEF StartOrder, DocTypes, Stages, Label, OrderOps, Ops, orderVars
  <2>2. Others(r)
    BY <1>1 DEF StartOrder, DocTypes, Others
  <2> QED
    BY <1>1, <2>0, <2>1, <2>2 DEF Shapes, OrderOps
<1>2. ASSUME NEW q \in Quotation \cup {Nobody}, StartCreate(r, q) PROVE StepFacts(r)
  <2>3. numbers.rows + 1 \in Nat
    BY DEF DocTypes, Series
  <2>1. DocTypes'
    BY <1>2, <2>3 DEF StartCreate, DocTypes, Label
  <2>0. Stages'
    BY <1>2 DEF StartCreate, DocTypes, Stages, Label, OrderOps, Ops, Series
  <2>2. Others(r) /\ Quiet(r)
    BY <1>2 DEF StartCreate, DocTypes, Stages, Ops, Others, Quiet, Delivering, OrderOps, Inv!Answered
  <2> QED
    BY <2>0, <2>1, <2>2 DEF Shapes
<1>3. ASSUME NEW q \in Quotation, NEW h \in {"set status", "remove"}, StartQuotation(r, q, h)
      PROVE  StepFacts(r)
  <2>1. DocTypes'
    BY <1>3 DEF StartQuotation, DocTypes, Stages, Label, OrderOps, Ops
  <2>0. Stages'
    BY <1>3 DEF StartQuotation, DocTypes, Stages, Label, OrderOps, Ops
  <2>2. Others(r) /\ Quiet(r)
    BY <1>3 DEF StartQuotation, DocTypes, Stages, Ops, Others, Quiet, Delivering, OrderOps, Inv!Answered
  <2> QED
    BY <2>0, <2>1, <2>2 DEF Shapes
<1>4. ASSUME Inv!Start(r), UNCHANGED orderVars PROVE StepFacts(r)
  <2>1. PICK l \in {"find", "source"}, h \in {"adjust", "transfer"} :
          /\ pc[r] = "idle" /\ pc' = [pc EXCEPT ![r] = l] /\ op' = [op EXCEPT ![r] = h]
          /\ l = "source" => h = "transfer"
    BY <1>4 DEF Inv!Start, Inv!StartAdjust, Inv!StartTransfer
  <2>2. DocTypes' /\ Stages'
    BY <1>4, <2>1 DEF DocTypes, Stages, Label, OrderOps, Ops, orderVars
  <2>3. Others(r) /\ Quiet(r)
    BY <1>4, <2>1 DEF DocTypes, Stages, Ops, Others, Quiet, Delivering, OrderOps, Inv!Answered, orderVars
  <2> QED
    BY <2>2, <2>3 DEF Shapes
<1> QED
  BY <1>1, <1>2, <1>3, <1>4 DEF Start

\* A movement leaves the documents alone.
LEMMA MoveFacts ==
  ASSUME P!BookTypes, DocTypes, Stages, NEW r \in Req, NEW l \in Label, NEW k \in Label,
         pc[r] = k, pc' = [pc EXCEPT ![r] = l], op' = op, UNCHANGED orderVars,
         \/ <<k, l>> \in {<<"find", "upsert">>, <<"upsert", "log">>, <<"source", "find">>}
         \/ <<k, l>> = <<"log", "mark">> /\ op[r] = "deliver"
         \/ <<k, l>> = <<"log", "ok">> /\ op[r] = "adjust"
         \/ /\ <<k, l>> \in {<<"log", "find">>, <<"log", "commit">>, <<"commit", "ok">>}
            /\ op[r] = "transfer"
  PROVE  StepFacts(r)
<1> USE StockParts DEF StepFacts
<1>1. DocTypes'
  BY DEF DocTypes, orderVars
<1>2. Stages'
  BY DEF DocTypes, Stages, OrderOps, Ops
<1>3. Others(r) /\ Quiet(r)
  BY DEF DocTypes, Stages, Others, Quiet, Delivering, OrderOps, Ops, orderVars, Inv!Answered
<1> QED
  BY <1>1, <1>2, <1>3 DEF Shapes

\* A transaction ends without its writes.
LEMMA DropFacts ==
  ASSUME P!BookTypes, DocTypes, Stages, NEW r \in Req,
         NEW l \in {"refused", "aborted", "unlogged"}, l = "unlogged" => op[r] = "adjust",
         pc[r] \notin Inv!Answered \cup {"idle"}, pc' = [pc EXCEPT ![r] = l], op' = op,
         DropOrder(r)
  PROVE  StepFacts(r)
<1> USE StockParts DEF StepFacts
<1>1. DocTypes'
  <2>1. orders' \in TableOf(Order, OrderRow) /\ lines' \in TableOf(Line, LineRow)
    BY RollbackFacts DEF DropOrder, DocTypes
  <2> QED
    BY <2>1 DEF DocTypes, DropOrder, Label, Inv!Answered
<1>2. Stages'
  BY DEF DocTypes, Stages, OrderOps, Ops, Inv!Answered
<1>3. Others(r) /\ Dropped(r)
  BY DEF DocTypes, Others, Dropped, DropOrder
<1> QED
  BY <1>1, <1>2, <1>3 DEF Shapes

LEMMA InventoryFacts ==
  ASSUME P!BookTypes, DocTypes, Stages, NEW r \in Req,
         \/ (Inv!FindStock(r) \/ Inv!UpsertStock(r)) /\ UNCHANGED <<op, dest, orderVars>>
         \/ DeliveryLogged(r)
         \/ /\ \/ Inv!AdjustLogged(r) \/ Inv!ReadSource(r)
               \/ Inv!TransferOutLogged(r) \/ Inv!TransferInLogged(r)
               \/ Inv!CommitTransfer(r)
            /\ UNCHANGED orderVars
  PROVE  StepFacts(r)
<1> USE DEF Label
<1>1. CASE Inv!FindStock(r) /\ UNCHANGED <<op, dest, orderVars>>
  <2>1. pc[r] = "find" /\ pc' = [pc EXCEPT ![r] = "upsert"]
    BY <1>1 DEF Inv!FindStock
  <2> QED
    BY <1>1, <2>1, MoveFacts
<1>2. CASE Inv!UpsertStock(r) /\ UNCHANGED <<op, dest, orderVars>>
  <2>1. pc[r] = "upsert" /\ pc' = [pc EXCEPT ![r] = "log"]
    BY <1>2 DEF Inv!UpsertStock
  <2> QED
    BY <1>2, <2>1, MoveFacts
<1>3. CASE DeliveryLogged(r)
  <2>1. /\ pc[r] = "log" /\ pc' = [pc EXCEPT ![r] = "mark"] /\ op[r] = "deliver"
        /\ UNCHANGED <<op, orderVars>>
    BY <1>3 DEF DeliveryLogged, Inv!LogMovement
  <2> QED
    BY <2>1, MoveFacts
<1>4. CASE Inv!AdjustLogged(r) /\ UNCHANGED orderVars
  <2>1. /\ pc[r] = "log" /\ pc' = [pc EXCEPT ![r] = "ok"] /\ op[r] = "adjust" /\ UNCHANGED op
    BY <1>4 DEF Inv!AdjustLogged, Inv!LogMovement
  <2> QED
    BY <1>4, <2>1, MoveFacts DEF Inv!Answered
<1>5. CASE Inv!ReadSource(r) /\ UNCHANGED orderVars
  <2>1. /\ pc[r] = "source" /\ pc' = [pc EXCEPT ![r] = "find"] /\ UNCHANGED op
    BY <1>5 DEF Inv!ReadSource
  <2> QED
    BY <1>5, <2>1, MoveFacts
<1>6. CASE (Inv!TransferOutLogged(r) \/ Inv!TransferInLogged(r)) /\ UNCHANGED orderVars
  <2>1. PICK l \in {"find", "commit"} :
          pc[r] = "log" /\ pc' = [pc EXCEPT ![r] = l] /\ op[r] = "transfer" /\ UNCHANGED op
    BY <1>6 DEF Inv!TransferOutLogged, Inv!TransferInLogged, Inv!LogMovement
  <2> QED
    BY <1>6, <2>1, MoveFacts
<1>7. CASE Inv!CommitTransfer(r) /\ UNCHANGED orderVars
  <2>1. pc[r] = "commit" /\ pc' = [pc EXCEPT ![r] = "ok"] /\ op[r] = "transfer" /\ UNCHANGED op
    BY <1>7 DEF Inv!CommitTransfer
  <2> QED
    BY <1>7, <2>1, MoveFacts DEF Inv!Answered
<1> QED
  BY <1>1, <1>2, <1>3, <1>4, <1>5, <1>6, <1>7

LEMMA EndFacts ==
  ASSUME P!BookTypes, DocTypes, Stages, NEW r \in Req,
         \/ NumberConflict(r) \/ InsertRefused(r) \/ ConvertRefused(r)
         \/ \E x \in todo[r] : LineGone(r, x)
         \/ Inv!RefuseMovement(r) /\ DropOrder(r) /\ UNCHANGED <<op, dest>>
         \/ Abort(r)
  PROVE  StepFacts(r)
<1>1. CASE Throw(r) /\ pc[r] \in {"insert", "convert", "mark"}
  BY <1>1, DropFacts DEF Throw, Inv!Answered
<1>2. CASE Inv!RefuseMovement(r) /\ DropOrder(r) /\ UNCHANGED <<op, dest>>
  BY <1>2, DropFacts DEF Inv!RefuseMovement, Inv!Answered
<1>3. CASE Abort(r)
  <2>1. PICK l \in {"aborted", "unlogged"} :
          pc' = [pc EXCEPT ![r] = l] /\ (l = "unlogged" => op[r] = "adjust")
    BY <1>3 DEF Abort, Inv!Abort, Inv!InTransaction
  <2> QED
    BY <1>3, <2>1, DropFacts DEF Abort, Inv!Abort, Inv!InFlight
<1> QED
  BY <1>1, <1>2, <1>3 DEF NumberConflict, InsertRefused, ConvertRefused, LineGone

-----------------------------------------------------------------------------
(* The steps that write documents, row by row.                             *)

New(r) == {l \in LinesOf(doc[r]) : l[3] = r}

LEMMA ReplaceFacts ==
  ASSUME DocTypes, NEW r \in Req, NEW qty \in [Slot -> Ordered], ReplaceLines(r, qty)
  PROVE  /\ lines' \in TableOf(Line, LineRow) /\ lines'.now = lines.now
         /\ \A l \in targets[r] : lines.lock[l] \in {r, Nobody}
         /\ \A l \in Line :
              IF l \in targets[r] \cup New(r)
                THEN /\ lines'.lock[l] = r
                     /\ IF l \in New(r) THEN lines'.work[l].qty > 0 /\ lines'.work[l].delivered = 0
                                        ELSE lines'.work[l] = NoLine
                ELSE lines'.lock[l] = lines.lock[l] /\ lines'.work[l] = lines.work[l]
<1> DEFINE S == targets[r] \cup New(r)
           row(l) == IF l \in New(r) THEN [qty |-> qty[l[2]], delivered |-> 0] ELSE NoLine
           W == [l \in Line |-> IF l \in S THEN row(l) ELSE lines.work[l]]
           L == [l \in Line |-> IF l \in S THEN r ELSE lines.lock[l]]
<1>1. lines' = [lines EXCEPT !.work = W, !.lock = L]
  BY DEF ReplaceLines, New
<1>2. \A l \in Line : row(l) \in LineRow /\ (l \in New(r) => row(l).qty > 0 /\ row(l).delivered = 0)
  <2>1. \A l \in Line : qty[l[2]] \in Nat \ {0}
    BY OrderAssumption DEF Line
  <2> QED
    BY <2>1 DEF LineRow, NoLine
<1>3. lines.work \in [Line -> LineRow] /\ lines.lock \in [Line -> Owner]
      /\ lines.now \in [Line -> LineRow]
  BY DEF DocTypes, TableOf
<1> HIDE DEF row
<1>4. W \in [Line -> LineRow] /\ L \in [Line -> Owner]
  BY <1>2, <1>3 DEF Owner
<1>5. \A l \in Line : IF l \in S THEN L[l] = r /\ W[l] = row(l)
                                 ELSE L[l] = lines.lock[l] /\ W[l] = lines.work[l]
  OBVIOUS
<1> HIDE DEF W, L, S
<1>6. lines'.now = lines.now /\ lines'.work = W /\ lines'.lock = L
      /\ lines' \in TableOf(Line, LineRow)
  BY <1>1, <1>3, <1>4 DEF DocTypes, TableOf
<1>7. \A l \in Line : l \notin New(r) => row(l) = NoLine
  BY DEF row
<1> QED
  BY <1>2, <1>5, <1>6, <1>7 DEF ReplaceLines, Writable, S

LEMMA InsertFacts ==
  ASSUME DocTypes, NEW r \in Req, NEW o \in Order, NEW w \in Warehouse,
         NEW qty \in [Slot -> Ordered], InsertOrder(r, o, w, qty)
  PROVE  /\ orders.now[o].status = Absent
         /\ orders' \in TableOf(Order, OrderRow) /\ orders'.lock = orders.lock
         /\ \A k \in Order : k # o => /\ orders'.now[k] = orders.now[k]
                                      /\ orders'.work[k] = orders.work[k]
         /\ orders'.now[o].status = "DRAFT" /\ orders'.work[o] = orders'.now[o]
         /\ lines' \in TableOf(Line, LineRow) /\ lines'.lock = lines.lock
         /\ \A l \in Line :
              IF l[1] = o /\ l[3] = Nobody
                THEN /\ lines'.now[l].qty > 0 /\ lines'.now[l].delivered = 0
                     /\ lines'.work[l] = lines'.now[l]
                ELSE lines'.now[l] = lines.now[l] /\ lines'.work[l] = lines.work[l]
<1> DEFINE v == [status |-> "DRAFT", warehouse |-> w]
           row(l) == [qty |-> qty[l[2]], delivered |-> 0]
           With(rows) == [l \in Line |-> IF l \in LinesOf(o) /\ l[3] = Nobody
                                           THEN row(l) ELSE rows[l]]
<1>1. orders' = Save(orders, o, v) /\ v \in OrderRow /\ v.status = "DRAFT"
  BY DEF InsertOrder, OrderRow, SalesOrderStatus
<1>2. lines' = [lines EXCEPT !.now = With(lines.now), !.work = With(lines.work)]
  BY DEF InsertOrder
<1>3. \A l \in Line : row(l) \in LineRow /\ row(l).qty > 0 /\ row(l).delivered = 0
  <2>1. \A l \in Line : qty[l[2]] \in Nat \ {0}
    BY OrderAssumption DEF Line
  <2> QED
    BY <2>1 DEF LineRow
<1>4. lines.work \in [Line -> LineRow] /\ lines.now \in [Line -> LineRow]
  BY DEF DocTypes, TableOf
<1> HIDE DEF row
<1> DEFINE N == With(lines.now)
           W == With(lines.work)
<1>5. N \in [Line -> LineRow] /\ W \in [Line -> LineRow]
  BY <1>3, <1>4
<1>6. \A l \in Line : IF l[1] = o /\ l[3] = Nobody THEN N[l] = row(l) /\ W[l] = row(l)
                                                   ELSE N[l] = lines.now[l] /\ W[l] = lines.work[l]
  BY DEF LinesOf
<1> HIDE DEF N, W
<1>7. /\ lines'.now = N /\ lines'.work = W /\ lines'.lock = lines.lock
      /\ lines' \in TableOf(Line, LineRow)
  BY <1>2, <1>5 DEF DocTypes, TableOf, N, W
<1>8. /\ orders' \in TableOf(Order, OrderRow) /\ orders'.lock = orders.lock
      /\ \A k \in Order : /\ orders'.work[k] = IF k = o THEN v ELSE orders.work[k]
                          /\ orders'.now[k] = IF k = o THEN v ELSE orders.now[k]
  <2> HIDE DEF v
  <2> QED
    BY <1>1, SaveFacts DEF DocTypes
<1>9. orders.now[o].status = Absent
  BY DEF InsertOrder
<1>10. \A l \in Line : lines'.now[l] = N[l] /\ lines'.work[l] = W[l]
  BY <1>7
<1> HIDE DEF v
<1>11. \A k \in Order : k # o => orders'.now[k] = orders.now[k] /\ orders'.work[k] = orders.work[k]
  BY <1>8
<1>12. orders'.now[o].status = "DRAFT" /\ orders'.work[o] = orders'.now[o]
  BY <1>1, <1>8
<1>13. ASSUME NEW l \in Line
       PROVE  IF l[1] = o /\ l[3] = Nobody
                THEN /\ lines'.now[l].qty > 0 /\ lines'.now[l].delivered = 0
                     /\ lines'.work[l] = lines'.now[l]
                ELSE lines'.now[l] = lines.now[l] /\ lines'.work[l] = lines.work[l]
  BY <1>3, <1>6, <1>10
<1> QED
  BY <1>7, <1>8, <1>9, <1>11, <1>12, <1>13

\* The order's row, as a transaction that holds no other writes it.
LEMMA OrderRowFacts ==
  ASSUME DocTypes, NEW r \in Req, doc[r] \in Order
  PROVE  /\ orders.now[doc[r]] \in OrderRow /\ Seen(orders, r)[doc[r]] \in OrderRow
         /\ \A w \in Warehouse : [Seen(orders, r)[doc[r]] EXCEPT !.warehouse = w] \in OrderRow
         /\ \A s \in SalesOrderStatus :
              /\ [Seen(orders, r)[doc[r]] EXCEPT !.status = s] \in OrderRow
              /\ [orders.now[doc[r]] EXCEPT !.status = s] \in OrderRow
<1>1. orders.now[doc[r]] \in OrderRow /\ Seen(orders, r)[doc[r]] \in OrderRow
  <2>1. orders \in TableOf(Order, OrderRow)
    BY DEF DocTypes
  <2>2. Seen(orders, r) \in [Order -> OrderRow]
    BY <2>1, SeenFacts
  <2>3. orders.now \in [Order -> OrderRow]
    BY <2>1 DEF TableOf
  <2> QED
    BY <2>2, <2>3
<1> QED
  BY <1>1 DEF OrderRow

LEMMA MarkFacts ==
  ASSUME DocTypes, NEW r \in Req, NEW x \in todo[r], MarkLine(r, x)
  PROVE  LET l == x.line
         IN  /\ l \in Line /\ x.row \in LineRow
             /\ lines' \in TableOf(Line, LineRow) /\ lines'.now = lines.now
             /\ \A k \in Line \ {l} : /\ lines'.lock[k] = lines.lock[k]
                                      /\ lines'.work[k] = lines.work[k]
             /\ lines.lock[l] \in {r, Nobody} /\ lines'.lock[l] = r
             /\ Seen(lines, r)[l] # NoLine
             /\ lines'.work[l] = [qty       |-> Seen(lines, r)[l].qty,
                                  delivered |-> x.row.delivered]
<1> DEFINE l == x.line
           v == [Seen(lines, r)[l] EXCEPT !.delivered = x.row.delivered]
<1>1. l \in Line /\ x.row \in LineRow
  BY DEF DocTypes
<1>2. Seen(lines, r)[l] \in LineRow
  BY <1>1, SeenFacts DEF DocTypes
<1>3. v \in LineRow /\ v = [qty |-> Seen(lines, r)[l].qty, delivered |-> x.row.delivered]
  BY <1>1, <1>2 DEF LineRow
<1>4. lines' = Put(lines, r, l, v) /\ Writable(lines, r, l) /\ Seen(lines, r)[l] # NoLine
  BY DEF MarkLine
<1> HIDE DEF v, l
<1>5. /\ Put(lines, r, l, v) \in TableOf(Line, LineRow) /\ Put(lines, r, l, v).now = lines.now
      /\ \A k \in Line : /\ Put(lines, r, l, v).work[k] = IF k = l THEN v ELSE lines.work[k]
                         /\ Put(lines, r, l, v).lock[k] = IF k = l THEN r ELSE lines.lock[k]
  BY <1>1, <1>3, PutFacts DEF DocTypes
<1> QED
  BY <1>1, <1>3, <1>4, <1>5 DEF l, Writable

LEMMA DocumentFacts ==
  ASSUME P!BookTypes, DocTypes, Stages, Arguments, NEW r \in Req,
         \/ ReadOrder(r) \/ RefuseOrder(r) \/ ConvertQuotation(r)
         \/ \E s \in Settable : WriteQuotation(r, s)
         \/ FindLines(r) \/ SetStatus(r) \/ CommitOrder(r) \/ SetDelivered(r)
         \/ \E w \in Warehouse : UpdateHeader(r, w)
         \/ \E x \in todo[r] : DeliverLine(r, x) \/ MarkLine(r, x)
         \/ \E qty \in [Slot -> Ordered] : ReplaceLines(r, qty)
         \/ \E o \in Order, w \in Warehouse, qty \in [Slot -> Ordered] : InsertOrder(r, o, w, qty)
  PROVE  StepFacts(r)
<1> USE StockParts DEF StepFacts
<1> DEFINE Stage(l) == l \in Label /\ pc' = [pc EXCEPT ![r] = l] /\ op' = op
<1>1. CASE ReadOrder(r)
  <2> DEFINE open == {l \in LinesOf(doc[r]) : Remaining(lines.now[l]) > 0}
             T == IF op[r] = "deliver" THEN {[line |-> l, row |-> lines.now[l]] : l \in open} ELSE {}
             l == AfterRead[op[r]]
  <2>7. pc[r] = "read" /\ op[r] \in OrderOps /\ doc[r] \in Order
    <3>1. pc[r] = "read"
      BY <1>1 DEF ReadOrder
    <3>2. op[r] \in OrderOps
      BY <3>1 DEF Stages
    <3>3. \A q \in Req : op[q] \in OrderOps => doc[q] \in Order
      BY DEF Arguments
    <3> QED
      BY <3>1, <3>2, <3>3
  <2>8. l \in {"find lines", "write", "next"} /\ (l = "find lines" => op[r] = "update")
        /\ (l = "write" => op[r] \in {"confirm", "cancel"}) /\ (l = "next" => op[r] = "deliver")
    <3>1. /\ AfterRead["update"] = "find lines" /\ AfterRead["confirm"] = "write"
          /\ AfterRead["cancel"] = "write" /\ AfterRead["deliver"] = "next"
      BY DEF AfterRead
    <3> QED
      BY <2>7, <3>1 DEF OrderOps
  <2>9. pc' = [pc EXCEPT ![r] = l] /\ op' = op
    BY <1>1 DEF ReadOrder, stockVars
  <2> HIDE DEF l
  <2>1. l \in Label /\ Stage(l)
    BY <2>8, <2>9 DEF Label
  <2>2. lines.now \in [Line -> LineRow]
    BY DEF DocTypes, TableOf
  <2>3. T \in SUBSET [line : Line, row : LineRow] /\ orders.now[doc[r]].warehouse \in Warehouse
    <3>1. T \in SUBSET [line : Line, row : LineRow]
      BY <2>2 DEF LinesOf
    <3>2. orders.now[doc[r]] \in OrderRow
      BY <2>7 DEF DocTypes, TableOf
    <3> QED
      BY <3>1, <3>2 DEF OrderRow
  <2> HIDE DEF T
  <2>4. todo' = [todo EXCEPT ![r] = T]
    BY <1>1 DEF ReadOrder, T
  <2>10. /\ from' = [from EXCEPT ![r] = orders.now[doc[r]].warehouse]
         /\ UNCHANGED <<orders, lines, quotations, numbers, doc, quote, number, targets>>
    BY <1>1 DEF ReadOrder
  <2>5. DocTypes'
    BY <2>1, <2>3, <2>4, <2>10 DEF DocTypes
  <2>11. quote' = quote
    BY <2>10
  <2>6. Stages'
    BY <2>1, <2>7, <2>8 DEF Stages, OrderOps, Ops, DocTypes
  <2>12. Others(r)
    BY <1>1, <2>1, <2>5, <2>6, <2>8, <2>11 DEF Others, DocTypes, orderVars
  <2> QED
    BY <2>12, <1>1, <2>1, <2>5, <2>6, <2>8, <2>11 DEF Shapes
<1>2. CASE RefuseOrder(r)
  <2>1. pc[r] = "read" /\ Stage("refused") /\ UNCHANGED orderVars
    BY <1>2 DEF RefuseOrder, stockVars, Label, Inv!Answered
  <2>2. DocTypes' /\ Stages'
    BY <2>1 DEF DocTypes, Stages, OrderOps, Ops, orderVars
  <2>3. Quiet(r)
    BY <2>1 DEF Quiet, Inv!Answered, orderVars, Stages, Delivering, OrderOps, DocTypes
  <2>4. quote' = quote
    BY <2>1 DEF orderVars
  <2>9. Others(r)
    BY <2>1, <2>2, <2>3, <2>4 DEF Others, DocTypes, orderVars
  <2> QED
    BY <2>9, <2>1, <2>2, <2>3, <2>4 DEF Shapes
<1>3. CASE ConvertQuotation(r) \/ \E s \in Settable : WriteQuotation(r, s)
  <2>1. PICK l \in {"ok", "refused"}, v \in QuotationStatus \cup {Absent} :
          /\ pc[r] \in {"convert", "quotation"} /\ Stage(l)
          /\ quotations' = [quotations EXCEPT ![quote[r]] = v]
          /\ UNCHANGED <<orders, lines, numbers, doc, quote, number, targets, todo, from>>
    BY <1>3 DEF ConvertQuotation, WriteQuotation, stockVars, QuotationStatus, Label, Inv!Answered
  <2>2. DocTypes'
    BY <2>1 DEF DocTypes, Arguments
  <2>3. Stages'
    BY <2>1 DEF DocTypes, Stages, OrderOps, Ops
  <2>4. Quiet(r)
    BY <2>1 DEF Quiet, Inv!Answered, Stages, Delivering, OrderOps, DocTypes
  <2>9. Others(r)
    BY <2>1, <2>2, <2>3, <2>4 DEF Others, DocTypes, orderVars
  <2> QED
    BY <2>9, <2>1, <2>2, <2>3, <2>4 DEF Shapes
<1>4. CASE FindLines(r)
  <2> DEFINE T == {l \in LinesOf(doc[r]) : lines.now[l] # NoLine}
  <2>1. /\ pc[r] = "find lines" /\ Stage("delete")
        /\ targets' = [targets EXCEPT ![r] = T] /\ T \in SUBSET Line
        /\ UNCHANGED <<orders, lines, quotations, numbers, doc, quote, number, todo, from>>
    BY <1>4 DEF FindLines, stockVars, Label, LinesOf
  <2> HIDE DEF T
  <2>2. DocTypes' /\ Stages'
    BY <2>1 DEF DocTypes, Stages, OrderOps, Ops
  <2>9. Others(r)
    BY <1>4, <2>1, <2>2 DEF Others, DocTypes, orderVars
  <2> QED
    BY <2>9, <1>4, <2>1, <2>2 DEF Shapes
<1>5. CASE SetStatus(r)
  <2>1. PICK s \in SalesOrderStatus :
          orders' = Save(orders, doc[r], [orders.now[doc[r]] EXCEPT !.status = s])
    BY <1>5 DEF SetStatus, SalesOrderStatus
  <2>2. /\ pc[r] = "write" /\ Stage("ok") /\ op[r] \in OrderOps /\ doc[r] \in Order
        /\ UNCHANGED <<lines, quotations, numbers, doc, quote, number, targets, todo, from>>
    BY <1>5 DEF SetStatus, stockVars, Label, Stages, Arguments, OrderOps, Inv!Answered
  <2>3. orders' \in TableOf(Order, OrderRow)
    BY <2>1, <2>2, OrderRowFacts, SaveFacts DEF DocTypes
  <2>4. DocTypes' /\ Stages'
    BY <2>2, <2>3 DEF DocTypes, Stages, OrderOps, Ops
  <2>9. Others(r)
    BY <1>5, <2>2, <2>4 DEF Others, DocTypes, orderVars
  <2> QED
    BY <2>9, <1>5, <2>2, <2>4 DEF Shapes
<1>6. CASE CommitOrder(r)
  <2>1. /\ pc[r] = "commit" /\ Stage("ok")
        /\ UNCHANGED <<quotations, numbers, doc, quote, number, targets, todo, from>>
    BY <1>6 DEF CommitOrder, Inv!KeepStock, Label, Inv!Answered
  <2>2. orders' \in TableOf(Order, OrderRow) /\ lines' \in TableOf(Line, LineRow)
    BY <1>6, CommitFacts DEF CommitOrder, DocTypes
  <2>3. DocTypes' /\ Stages'
    BY <2>1, <2>2 DEF DocTypes, Stages, OrderOps, Ops
  <2>9. Others(r)
    BY <1>6, <2>1, <2>3 DEF Others, DocTypes, orderVars
  <2> QED
    BY <2>9, <1>6, <2>1, <2>3 DEF Shapes
<1>7. CASE SetDelivered(r) \/ \E w \in Warehouse : UpdateHeader(r, w)
  <2>1. /\ pc[r] \in {"next", "find lines", "header"} /\ Stage("commit")
        /\ op[r] \in {"update", "deliver"} /\ doc[r] \in Order
        /\ UNCHANGED <<lines, quotations, numbers, doc, quote, number, targets, todo, from>>
    BY <1>7 DEF SetDelivered, UpdateHeader, stockVars, Label, Stages, Arguments, OrderOps
  <2>2. PICK v \in OrderRow : orders' = Put(orders, r, doc[r], v)
    BY <1>7, <2>1, OrderRowFacts DEF SetDelivered, UpdateHeader, SalesOrderStatus
  <2>3. orders' \in TableOf(Order, OrderRow)
    BY <2>1, <2>2, PutFacts DEF DocTypes
  <2>4. DocTypes' /\ Stages'
    BY <2>1, <2>3 DEF DocTypes, Stages, OrderOps, Ops
  <2>9. Others(r)
    BY <1>7, <2>1, <2>4 DEF Others, DocTypes, orderVars
  <2> QED
    BY <2>9, <1>7, <2>1, <2>4 DEF Shapes
<1>8. ASSUME NEW x \in todo[r], DeliverLine(r, x) PROVE StepFacts(r)
  <2> DEFINE y == [x EXCEPT !.row.delivered = x.row.qty]
             T == (todo[r] \ {x}) \cup {y}
  <2>1. /\ pc[r] = "next" /\ Stage("find")
        /\ todo' = [todo EXCEPT ![r] = T]
        /\ UNCHANGED <<orders, lines, quotations, numbers, doc, quote, number, targets, from>>
    BY <1>8 DEF DeliverLine, Label
  <2>2. T \in SUBSET [line : Line, row : LineRow]
    BY DEF DocTypes, LineRow
  <2> HIDE DEF T
  <2>3. DocTypes' /\ Stages'
    BY <2>1, <2>2 DEF DocTypes, Stages, OrderOps, Ops
  <2>9. Others(r)
    BY <1>8, <2>1, <2>3 DEF Others, DocTypes, orderVars
  <2> QED
    BY <2>9, <1>8, <2>1, <2>3 DEF Shapes
<1>9. ASSUME NEW x \in todo[r], MarkLine(r, x) PROVE StepFacts(r)
  <2>1. /\ pc[r] = "mark" /\ Stage("next")
        /\ todo' = [todo EXCEPT ![r] = @ \ {x}]
        /\ UNCHANGED <<orders, quotations, numbers, doc, quote, number, targets, from>>
    BY <1>9 DEF MarkLine, Label, stockVars
  <2>2. lines' \in TableOf(Line, LineRow)
    BY <1>9, MarkFacts
  <2>3. DocTypes' /\ Stages'
    BY <2>1, <2>2 DEF DocTypes, Stages, OrderOps, Ops
  <2>9. Others(r)
    BY <1>9, <2>1, <2>3 DEF Others, DocTypes, orderVars
  <2> QED
    BY <2>9, <1>9, <2>1, <2>3 DEF Shapes
<1>10. ASSUME NEW qty \in [Slot -> Ordered], ReplaceLines(r, qty) PROVE StepFacts(r)
  <2>1. /\ pc[r] = "delete" /\ Stage("header")
        /\ targets' = [targets EXCEPT ![r] = {}]
        /\ UNCHANGED <<orders, quotations, numbers, doc, quote, number, todo, from>>
    BY <1>10 DEF ReplaceLines, Label, stockVars
  <2>2. lines' \in TableOf(Line, LineRow)
    BY <1>10, ReplaceFacts
  <2>3. DocTypes' /\ Stages'
    BY <2>1, <2>2 DEF DocTypes, Stages, OrderOps, Ops
  <2>9. Others(r)
    BY <1>10, <2>1, <2>3 DEF Others, DocTypes, orderVars
  <2> QED
    BY <2>9, <1>10, <2>1, <2>3 DEF Shapes
<1>11. ASSUME NEW o \in Order, NEW w \in Warehouse, NEW qty \in [Slot -> Ordered],
              InsertOrder(r, o, w, qty)
       PROVE  StepFacts(r)
  <2>1. PICK l \in {"ok", "convert"} :
          /\ pc[r] = "insert" /\ Stage(l)
          /\ numbers' = [numbers EXCEPT !.rows = number[r]]
          /\ doc' = [doc EXCEPT ![r] = o]
          /\ UNCHANGED <<quotations, quote, number, targets, todo, from>>
    BY <1>11 DEF InsertOrder, Label, stockVars, Inv!Answered
  <2>2. orders' \in TableOf(Order, OrderRow) /\ lines' \in TableOf(Line, LineRow)
    BY <1>11, InsertFacts
  <2>3. numbers' \in Series
    BY <2>1 DEF DocTypes, Series
  <2>4. DocTypes'
    BY <2>1, <2>2, <2>3 DEF DocTypes
  <2>5. Stages'
    BY <2>1 DEF DocTypes, Stages, OrderOps, Ops
  <2>6. l = "convert" => quote[r] \in Quotation
    BY <1>11, <2>1 DEF InsertOrder, DocTypes
  <2>7. Others(r)
    BY <2>1, <2>6 DEF Others, DocTypes
  <2> QED
    BY <1>11, <2>4, <2>5, <2>7 DEF Shapes
<1> QED
  BY <1>1, <1>2, <1>3, <1>4, <1>5, <1>6, <1>7, <1>8, <1>9, <1>10, <1>11

LEMMA AllFacts ==
  ASSUME P!BookTypes, DocTypes, Stages, Arguments, NEW r \in Req, Start(r) \/ Step(r) \/ Abort(r)
  PROVE  StepFacts(r)
BY StartFacts, InventoryFacts, EndFacts, DocumentFacts DEF Step

-----------------------------------------------------------------------------
(* Holders and arguments.                                                  *)

\* The cases of a step, for the parts of the invariant that are about documents.
LEMMA Cases ==
  ASSUME NEW r \in Req, Shapes(r), NEW G,
         Quiet(r) => G, Dropped(r) => G,
         \A o \in Order, h \in OrderOps : StartOrder(r, o, h) => G,
         ReadOrder(r) => G,
         \A o \in Order, w \in Warehouse, qty \in [Slot -> Ordered] : InsertOrder(r, o, w, qty) => G,
         FindLines(r) => G, \A qty \in [Slot -> Ordered] : ReplaceLines(r, qty) => G,
         \A w \in Warehouse : UpdateHeader(r, w) => G,
         SetStatus(r) => G,
         \A x \in todo[r] : (DeliverLine(r, x) => G) /\ (MarkLine(r, x) => G),
         SetDelivered(r) => G, CommitOrder(r) => G
  PROVE  G
BY DEF Shapes

LEMMA OrderHoldersStep ==
  ASSUME Documents, NEW r \in Req, StepFacts(r)
  PROVE  OrderHolders' /\ Existing'
<1> DEFINE G == /\ \A o \in Order :
                     /\ orders'.lock[o] = Nobody => orders'.work[o] = orders'.now[o]
                     /\ \A q \in Req : orders'.lock[o] = q =>
                          /\ pc'[q] = "commit" /\ op'[q] \in {"update", "deliver"} /\ doc'[q] = o
                          /\ orders'.work[o].status # Absent
                /\ \A q \in Req : op'[q] \in OrderOps => orders'.now[doc'[q]].status # Absent
<1> USE NobodyAssumption
<1>0. /\ DocTypes /\ Stages /\ OrderHolders /\ Existing /\ DocTypes' /\ Stages' /\ Shapes(r)
      /\ Others(r) /\ orders \in TableOf(Order, OrderRow)
      /\ \A q \in Req : op[q] \in OrderOps => doc[q] \in Order
  BY DEF Documents, StepFacts, Shapes, DocTypes, Arguments
<1>a. /\ \A o \in Order : /\ orders.lock[o] = Nobody => orders.work[o] = orders.now[o]
                          /\ \A q \in Req : orders.lock[o] = q =>
                               /\ pc[q] = "commit" /\ op[q] \in {"update", "deliver"}
                               /\ doc[q] = o /\ orders.work[o].status # Absent
      /\ \A q \in Req : op[q] \in OrderOps => orders.now[doc[q]].status # Absent
      /\ \A q \in Req \ {r} : pc'[q] = pc[q] /\ op'[q] = op[q]
  BY <1>0 DEF OrderHolders, Existing, Others
<1>b. \A o \in Order : orders.now[o] \in OrderRow /\ orders.work[o] \in OrderRow
  BY <1>0 DEF TableOf
<1>1. ASSUME Quiet(r) PROVE G
  BY <1>0, <1>a, <1>1 DEF Quiet, OrderOps
<1>2. ASSUME Dropped(r) PROVE G
  <2>1. /\ orders'.now = orders.now /\ UNCHANGED <<op, doc>>
        /\ \A o \in Order :
             /\ orders'.work[o] = IF orders.lock[o] = r THEN orders.now[o] ELSE orders.work[o]
             /\ orders'.lock[o] = IF orders.lock[o] = r THEN Nobody ELSE orders.lock[o]
    BY <1>0, <1>2, RollbackFacts DEF Dropped
  <2> QED
    BY <1>a, <2>1
<1>3. ASSUME NEW o \in Order, NEW h \in OrderOps, StartOrder(r, o, h) PROVE G
  BY <1>0, <1>a, <1>3 DEF StartOrder, OrderOps, DocTypes
<1>4. ASSUME ReadOrder(r) \/ FindLines(r) \/ (\E qty \in [Slot -> Ordered] : ReplaceLines(r, qty))
             \/ \E x \in todo[r] : DeliverLine(r, x) \/ MarkLine(r, x)
      PROVE  G
  <2>1. UNCHANGED <<orders, doc, op>> /\ pc[r] # "commit"
    BY <1>4 DEF ReadOrder, FindLines, ReplaceLines, DeliverLine, MarkLine, stockVars
  <2> QED
    BY <1>a, <2>1
<1>5. ASSUME NEW o \in Order, NEW w \in Warehouse, NEW qty \in [Slot -> Ordered],
             InsertOrder(r, o, w, qty)
      PROVE  G
  <2>1. /\ orders.now[o].status = Absent /\ orders'.lock = orders.lock
        /\ \A k \in Order : k # o => /\ orders'.now[k] = orders.now[k]
                                     /\ orders'.work[k] = orders.work[k]
        /\ orders'.now[o].status = "DRAFT" /\ orders'.work[o] = orders'.now[o]
    BY <1>0, <1>5, InsertFacts
  <2>2. /\ pc[r] = "insert" /\ op[r] = "create" /\ op' = op
        /\ \A q \in Req \ {r} : doc'[q] = doc[q]
    BY <1>0, <1>5 DEF InsertOrder, stockVars, Stages, DocTypes
  <2> QED
    BY <1>0, <1>a, <2>1, <2>2 DEF OrderOps, Absent
<1>6. ASSUME SetDelivered(r) \/ \E w \in Warehouse : UpdateHeader(r, w) PROVE G
  <2>1. /\ op[r] \in {"update", "deliver"} /\ doc[r] \in Order /\ pc[r] # "commit"
        /\ pc' = [pc EXCEPT ![r] = "commit"] /\ UNCHANGED <<op, doc>>
        /\ orders.lock[doc[r]] \in {r, Nobody}
    BY <1>0, <1>6 DEF SetDelivered, UpdateHeader, stockVars, Stages, OrderOps, Writable
  <2>5. /\ Seen(orders, r)[doc[r]] = IF orders.lock[doc[r]] = r THEN orders.work[doc[r]]
                                                            ELSE orders.now[doc[r]]
        /\ Seen(orders, r)[doc[r]] \in OrderRow /\ Seen(orders, r)[doc[r]].status # Absent
    BY <1>0, <1>a, <1>b, <2>1, SeenFacts DEF OrderOps
  <2>2. PICK v \in OrderRow : orders' = Put(orders, r, doc[r], v) /\ v.status # Absent
    <3> DEFINE row == Seen(orders, r)[doc[r]]
    <3>1. /\ \A w \in Warehouse : /\ [row EXCEPT !.warehouse = w] \in OrderRow
                                  /\ [row EXCEPT !.warehouse = w].status = row.status
          /\ [row EXCEPT !.status = "DELIVERED"] \in OrderRow
          /\ [row EXCEPT !.status = "DELIVERED"].status = "DELIVERED"
      BY <2>5 DEF OrderRow, SalesOrderStatus
    <3> QED
      BY <1>6, <2>5, <3>1 DEF SetDelivered, UpdateHeader, Absent
  <2>3. orders'.now = orders.now
        /\ \A k \in Order : /\ orders'.work[k] = IF k = doc[r] THEN v ELSE orders.work[k]
                            /\ orders'.lock[k] = IF k = doc[r] THEN r ELSE orders.lock[k]
    BY <1>0, <2>1, <2>2, PutFacts
  <2>4. pc'[r] = "commit"
    BY <1>0, <2>1 DEF DocTypes
  <2> QED
    BY <1>a, <2>1, <2>2, <2>3, <2>4
<1>7. ASSUME SetStatus(r) PROVE G
  <2>1. /\ pc[r] = "write" /\ doc[r] \in Order /\ UNCHANGED <<op, doc>>
        /\ op[r] \in OrderOps
    BY <1>0, <1>7 DEF SetStatus, stockVars, Stages, OrderOps
  <2>2. PICK s \in SalesOrderStatus :
          orders' = Save(orders, doc[r], [orders.now[doc[r]] EXCEPT !.status = s])
    BY <1>7 DEF SetStatus, SalesOrderStatus
  <2> DEFINE v == [orders.now[doc[r]] EXCEPT !.status = s]
  <2>3. v \in OrderRow /\ v.status # Absent
    BY <1>b, <2>1 DEF OrderRow, SalesOrderStatus, Absent
  <2> HIDE DEF v
  <2>4. /\ orders'.lock = orders.lock
        /\ \A k \in Order : /\ orders'.work[k] = IF k = doc[r] THEN v ELSE orders.work[k]
                            /\ orders'.now[k] = IF k = doc[r] THEN v ELSE orders.now[k]
    BY <1>0, <2>1, <2>2, <2>3, SaveFacts DEF v
  <2> QED
    BY <1>0, <1>a, <2>1, <2>3, <2>4
<1>8. ASSUME CommitOrder(r) PROVE G
  <2>1. pc[r] = "commit" /\ UNCHANGED <<op, doc>> /\ op[r] \in {"update", "deliver"}
        /\ orders' = Commit(orders, r)
    BY <1>8 DEF CommitOrder
  <2>2. /\ orders'.work = orders.work
        /\ \A o \in Order :
             /\ orders'.now[o] = IF orders.lock[o] = r THEN orders.work[o] ELSE orders.now[o]
             /\ orders'.lock[o] = IF orders.lock[o] = r THEN Nobody ELSE orders.lock[o]
    BY <1>0, <2>1, CommitFacts
  <2> QED
    BY <1>0, <1>a, <2>1, <2>2
<1> HIDE DEF G
<1>9. G
  BY <1>0, <1>1, <1>2, <1>3, <1>4, <1>5, <1>6, <1>7, <1>8, Cases
<1> QED
  BY <1>9 DEF G, OrderHolders, Existing

LEMMA LineHoldersStep ==
  ASSUME Documents, NEW r \in Req, StepFacts(r)
  PROVE  LineHolders'
<1> DEFINE G == \A l \in Line :
                  /\ lines'.lock[l] = Nobody => lines'.work[l] = lines'.now[l]
                  /\ \A q \in Req : lines'.lock[l] = q =>
                       /\ l[1] = doc'[q]
                       /\ \/ op'[q] = "update" /\ pc'[q] \in {"header", "commit"}
                          \/ Delivering(q)'
<1> USE NobodyAssumption
<1>0. /\ DocTypes /\ Stages /\ DocTypes' /\ Stages' /\ Shapes(r)
      /\ Others(r) /\ lines \in TableOf(Line, LineRow)
  BY DEF Documents, StepFacts, Shapes, DocTypes
<1>a. /\ \A l \in Line :
           /\ lines.lock[l] = Nobody => lines.work[l] = lines.now[l]
           /\ \A q \in Req : lines.lock[l] = q =>
                /\ l[1] = doc[q]
                /\ \/ op[q] = "update" /\ pc[q] \in {"header", "commit"}
                   \/ Delivering(q)
  BY DEF Documents, LineHolders
<1>b. \A q \in Req \ {r} : pc'[q] = pc[q] /\ op'[q] = op[q] /\ (Delivering(q)' <=> Delivering(q))
  BY <1>0 DEF Others, Delivering
<1>c. ASSUME lines' = lines, doc' = doc \/ (op[r] \notin {"update", "deliver"}
                                            /\ \A q \in Req \ {r} : doc'[q] = doc[q]),
             Delivering(r) => Delivering(r)', op[r] = "update" => op'[r] = "update",
             op[r] = "update" /\ pc[r] \in {"header", "commit"} => pc'[r] \in {"header", "commit"}
      PROVE  G
  BY <1>a, <1>b, <1>c DEF Delivering
<1>1. ASSUME Quiet(r) PROVE G
  <2>1. /\ lines' = lines /\ doc' = doc /\ (Delivering(r) => Delivering(r)')
        /\ (op[r] = "update" => pc[r] = "read")
        /\ (op'[r] = op[r] \/ pc[r] = "idle")
    BY <1>1 DEF Quiet
  <2>2. pc[r] = "idle" => op[r] = "none"
    BY <1>0 DEF Stages
  <2> QED
    BY <1>c, <2>1, <2>2
<1>2. ASSUME Dropped(r) PROVE G
  <2>1. /\ lines'.now = lines.now /\ UNCHANGED <<op, doc>>
        /\ \A l \in Line :
             /\ lines'.work[l] = IF lines.lock[l] = r THEN lines.now[l] ELSE lines.work[l]
             /\ lines'.lock[l] = IF lines.lock[l] = r THEN Nobody ELSE lines.lock[l]
    BY <1>0, <1>2, RollbackFacts DEF Dropped
  <2> QED
    BY <1>a, <1>b, <2>1
<1>3. ASSUME NEW o \in Order, NEW h \in OrderOps, StartOrder(r, o, h) PROVE G
  <2>1. /\ pc[r] = "idle" /\ lines' = lines /\ op[r] = "none"
        /\ \A q \in Req \ {r} : doc'[q] = doc[q]
    BY <1>0, <1>3 DEF StartOrder, Stages, DocTypes
  <2> QED
    BY <1>c, <2>1 DEF Delivering
<1>4. ASSUME ReadOrder(r) \/ FindLines(r) PROVE G
  <2>1. /\ pc[r] \in {"read", "find lines"} /\ lines' = lines /\ op' = op /\ doc' = doc
    BY <1>4 DEF ReadOrder, FindLines, stockVars
  <2> QED
    BY <1>c, <2>1 DEF Delivering
<1>5. ASSUME NEW o \in Order, NEW w \in Warehouse, NEW qty \in [Slot -> Ordered],
             InsertOrder(r, o, w, qty)
      PROVE  G
  <2>1. /\ lines'.lock = lines.lock
        /\ \A l \in Line :
              IF l[1] = o /\ l[3] = Nobody THEN lines'.work[l] = lines'.now[l]
                ELSE lines'.now[l] = lines.now[l] /\ lines'.work[l] = lines.work[l]
    BY <1>0, <1>5, InsertFacts
  <2>2. /\ pc[r] = "insert" /\ op[r] = "create" /\ op' = op
        /\ \A q \in Req \ {r} : doc'[q] = doc[q]
    BY <1>0, <1>5 DEF InsertOrder, stockVars, Stages, DocTypes
  <2>3. \A l \in Line : lines.lock[l] # r
    BY <1>a, <2>2 DEF Delivering
  <2> QED
    BY <1>a, <1>b, <2>1, <2>2, <2>3
<1>6. ASSUME SetDelivered(r) \/ \E w \in Warehouse : UpdateHeader(r, w) PROVE G
  <2>1. /\ op[r] \in {"update", "deliver"} /\ pc[r] # "commit"
        /\ pc' = [pc EXCEPT ![r] = "commit"] /\ UNCHANGED <<op, doc, lines>>
    BY <1>0, <1>6 DEF SetDelivered, UpdateHeader, stockVars, Stages, OrderOps
  <2>2. pc'[r] = "commit"
    BY <1>0, <2>1 DEF DocTypes
  <2> QED
    BY <1>c, <2>1, <2>2 DEF Delivering
<1>7. ASSUME SetStatus(r) PROVE G
  <2>1. /\ pc[r] = "write" /\ UNCHANGED <<op, doc, lines>>
        /\ op[r] \in {"confirm", "cancel"}
    BY <1>0, <1>7 DEF SetStatus, stockVars, Stages
  <2> QED
    BY <1>c, <2>1 DEF Delivering
<1>8. ASSUME CommitOrder(r) PROVE G
  <2>1. UNCHANGED <<op, doc>> /\ lines' = Commit(lines, r)
    BY <1>8 DEF CommitOrder
  <2>2. /\ lines'.work = lines.work
        /\ \A l \in Line :
             /\ lines'.now[l] = IF lines.lock[l] = r THEN lines.work[l] ELSE lines.now[l]
             /\ lines'.lock[l] = IF lines.lock[l] = r THEN Nobody ELSE lines.lock[l]
    BY <1>0, <2>1, CommitFacts
  <2> QED
    BY <1>a, <1>b, <2>1, <2>2
<1>9. ASSUME NEW qty \in [Slot -> Ordered], ReplaceLines(r, qty) PROVE G
  <2>1. /\ pc[r] = "delete" /\ op[r] = "update" /\ UNCHANGED <<op, doc>> /\ pc'[r] = "header"
    BY <1>0, <1>9 DEF ReplaceLines, stockVars, Stages, DocTypes
  <2>2. /\ lines'.now = lines.now
        /\ \A l \in Line : IF l \in targets[r] \cup New(r) THEN lines'.lock[l] = r
                           ELSE lines'.lock[l] = lines.lock[l] /\ lines'.work[l] = lines.work[l]
    BY <1>0, <1>9, ReplaceFacts
  <2>3. \A l \in targets[r] \cup New(r) : l[1] = doc[r]
    BY DEF Documents, Arguments, New, LinesOf
  <2> QED
    BY <1>a, <1>b, <2>1, <2>2, <2>3
<1>10. ASSUME NEW x \in todo[r], MarkLine(r, x) PROVE G
  <2>1. /\ pc[r] = "mark" /\ op[r] = "deliver" /\ UNCHANGED <<op, doc>> /\ pc'[r] = "next"
    BY <1>0, <1>10 DEF MarkLine, stockVars, Stages, DocTypes
  <2>2. x.line \in Line /\ x.line[1] = doc[r]
    BY <1>0, <1>10, MarkFacts DEF Documents, Arguments
  <2>3. /\ lines'.now = lines.now /\ lines'.lock[x.line] = r
        /\ \A k \in Line \ {x.line} : /\ lines'.lock[k] = lines.lock[k]
                                      /\ lines'.work[k] = lines.work[k]
    BY <1>0, <1>10, MarkFacts
  <2>4. Delivering(r)'
    BY <2>1 DEF Delivering
  <2> QED
    BY <1>a, <1>b, <2>1, <2>2, <2>3, <2>4
<1>11. ASSUME NEW x \in todo[r], DeliverLine(r, x) PROVE G
  <2>1. /\ pc[r] = "next" /\ op[r] = "deliver" /\ UNCHANGED <<op, doc, lines>> /\ pc'[r] = "find"
    BY <1>0, <1>11 DEF DeliverLine, Stages, DocTypes
  <2> QED
    BY <1>c, <2>1 DEF Delivering
<1> HIDE DEF G
<1>12. G
  BY <1>0, <1>1, <1>2, <1>3, <1>4, <1>5, <1>6, <1>7, <1>8, <1>9, <1>10, <1>11, Cases
<1> QED
  BY <1>12 DEF G, LineHolders

LEMMA ArgumentsStep ==
  ASSUME P!BookTypes, Documents, NEW r \in Req, StepFacts(r)
  PROVE  Arguments'
<1> DEFINE A(q, o, d, c, f, tg, td) ==
             /\ o \in OrderOps => d \in Order
             /\ o = "deliver" /\ c \in {"next", "find", "upsert", "log", "mark", "commit"}
                  => f \in Warehouse
             /\ o # "update" => tg = {}
             /\ o # "deliver" => td = {}
             /\ tg \in SUBSET LinesOf(d)
             /\ \A x \in td : x.line[1] = d
           Old(q) == A(q, op[q], doc[q], pc[q], from[q], targets[q], todo[q])
           G == /\ \A q \in Req : A(q, op'[q], doc'[q], pc'[q], from'[q], targets'[q], todo'[q])
                /\ \A q \in Req : pc'[q] \in {"quotation", "convert"} => quote'[q] \in Quotation
<1>0. /\ DocTypes /\ Stages /\ DocTypes' /\ Stages' /\ Shapes(r) /\ Others(r)
      /\ \A q \in Req : Old(q)
  BY DEF Documents, StepFacts, Shapes, Arguments, Delivering
<1>a. \A q \in Req : pc'[q] \in {"quotation", "convert"} => quote'[q] \in Quotation
  BY <1>0 DEF Others, Documents, Arguments
<1>b. \A q \in Req \ {r} : pc'[q] = pc[q] /\ op'[q] = op[q]
  BY <1>0 DEF Others
<1> DEFINE Mine == A(r, op'[r], doc'[r], pc'[r], from'[r], targets'[r], todo'[r])
           Rest == \A q \in Req \ {r} : /\ doc'[q] = doc[q] /\ from'[q] = from[q]
                                        /\ targets'[q] = targets[q] /\ todo'[q] = todo[q]
<1>c. ASSUME Mine, Rest PROVE G
  <2> HIDE DEF A
  <2>1. \A q \in Req \ {r} : A(q, op'[q], doc'[q], pc'[q], from'[q], targets'[q], todo'[q])
    BY <1>0, <1>b, <1>c
  <2> QED
    BY <1>a, <1>c, <2>1
<1>1. ASSUME Quiet(r) PROVE G
  <2>1. /\ UNCHANGED <<doc, from, targets, todo>> /\ (Delivering(r)' <=> Delivering(r))
        /\ (op'[r] = op[r] \/ (pc[r] = "idle" /\ op[r] = "none" /\ op'[r] \notin OrderOps))
    BY <1>0, <1>1 DEF Quiet, Stages
  <2>2. Mine
    BY <1>0, <2>1 DEF Delivering, OrderOps
  <2> HIDE DEF Mine
  <2> QED
    BY <1>c, <2>1, <2>2
<1>2. ASSUME Dropped(r) PROVE G
  <2>1. UNCHANGED <<op, doc, from, targets, todo>> /\ pc'[r] \in {"refused", "aborted", "unlogged"}
    BY <1>2 DEF Dropped
  <2>2. Mine
    BY <1>0, <2>1
  <2> HIDE DEF Mine
  <2> QED
    BY <1>c, <2>1, <2>2
<1>3. ASSUME NEW o \in Order, NEW h \in OrderOps, StartOrder(r, o, h) PROVE G
  <2>1. /\ op'[r] = h /\ doc'[r] = o /\ pc'[r] = "read" /\ op[r] = "none" /\ Rest
        /\ UNCHANGED <<targets, todo>>
    <3>1. /\ pc[r] = "idle" /\ op' = [op EXCEPT ![r] = h] /\ doc' = [doc EXCEPT ![r] = o]
          /\ pc' = [pc EXCEPT ![r] = "read"] /\ UNCHANGED <<targets, todo, from>>
      BY <1>3 DEF StartOrder
    <3>2. DOMAIN op = Req /\ DOMAIN pc = Req /\ DOMAIN doc = Req
      BY <1>0, StockParts DEF DocTypes
    <3>3. op[r] = "none"
      BY <1>0, <3>1 DEF Stages
    <3> QED
      BY <3>1, <3>2, <3>3
  <2>2. targets[r] = {} /\ todo[r] = {}
    BY <1>0, <2>1
  <2>3. Mine
    BY <2>1, <2>2
  <2> HIDE DEF Mine
  <2> QED
    BY <1>c, <2>1, <2>3
<1>4. ASSUME ReadOrder(r) PROVE G
  <2> DEFINE open == {l \in LinesOf(doc[r]) : Remaining(lines.now[l]) > 0}
             T == IF op[r] = "deliver" THEN {[line |-> l, row |-> lines.now[l]] : l \in open} ELSE {}
  <2>1. /\ todo' = [todo EXCEPT ![r] = T] /\ UNCHANGED <<op, doc, targets>>
        /\ from' = [from EXCEPT ![r] = orders.now[doc[r]].warehouse]
        /\ pc[r] = "read" /\ op[r] \in OrderOps
    BY <1>0, <1>4 DEF ReadOrder, stockVars, Stages
  <2>2. \A x \in T : x.line[1] = doc[r]
    BY DEF LinesOf
  <2>3. op[r] # "deliver" => T = {}
    OBVIOUS
  <2> HIDE DEF T
  <2>4. orders.now[doc[r]].warehouse \in Warehouse
    BY <1>0, <2>1 DEF DocTypes, TableOf, OrderRow
  <2>5. Mine /\ Rest
    BY <1>0, <2>1, <2>2, <2>3, <2>4 DEF DocTypes
  <2> HIDE DEF Mine
  <2> QED
    BY <1>c, <2>5
<1>5. ASSUME NEW o \in Order, NEW w \in Warehouse, NEW qty \in [Slot -> Ordered],
             InsertOrder(r, o, w, qty)
      PROVE  G
  <2>1. /\ op[r] = "create" /\ op' = op /\ doc' = [doc EXCEPT ![r] = o]
        /\ UNCHANGED <<from, targets, todo>>
    BY <1>0, <1>5 DEF InsertOrder, stockVars, Stages
  <2>2. Mine /\ Rest
    BY <1>0, <2>1 DEF OrderOps, DocTypes
  <2> HIDE DEF Mine
  <2> QED
    BY <1>c, <2>2
<1>6. ASSUME SetDelivered(r) \/ (\E w \in Warehouse : UpdateHeader(r, w)) \/ SetStatus(r)
             \/ CommitOrder(r)
      PROVE  G
  <2>1. UNCHANGED <<op, doc, from, targets, todo>>
    BY <1>6 DEF SetDelivered, UpdateHeader, SetStatus, CommitOrder, stockVars
  <2>2. op[r] = "deliver" => pc[r] \in {"next", "commit"}
    BY <1>0, <1>6 DEF SetDelivered, UpdateHeader, SetStatus, CommitOrder, Stages
  <2>3. Mine /\ Rest
    BY <1>0, <2>1, <2>2
  <2> HIDE DEF Mine
  <2> QED
    BY <1>c, <2>3
<1>7. ASSUME FindLines(r) PROVE G
  <2>1. /\ op[r] = "update" /\ UNCHANGED <<op, doc, from, todo>>
        /\ targets' = [targets EXCEPT ![r] = {l \in LinesOf(doc[r]) : lines.now[l] # NoLine}]
    BY <1>0, <1>7 DEF FindLines, stockVars, Stages
  <2>2. Mine /\ Rest
    BY <1>0, <2>1 DEF DocTypes
  <2> HIDE DEF Mine
  <2> QED
    BY <1>c, <2>2
<1>8. ASSUME NEW qty \in [Slot -> Ordered], ReplaceLines(r, qty) PROVE G
  <2>1. /\ op[r] = "update" /\ UNCHANGED <<op, doc, from, todo>>
        /\ targets' = [targets EXCEPT ![r] = {}]
    BY <1>0, <1>8 DEF ReplaceLines, stockVars, Stages
  <2>2. Mine /\ Rest
    BY <1>0, <2>1 DEF DocTypes
  <2> HIDE DEF Mine
  <2> QED
    BY <1>c, <2>2
<1>9. ASSUME NEW x \in todo[r], DeliverLine(r, x) PROVE G
  <2> DEFINE y == [x EXCEPT !.row.delivered = x.row.qty]
             T == (todo[r] \ {x}) \cup {y}
  <2>1. /\ op[r] = "deliver" /\ pc[r] = "next" /\ UNCHANGED <<op, doc, from, targets>>
        /\ todo' = [todo EXCEPT ![r] = T]
    BY <1>0, <1>9 DEF DeliverLine, Stages
  <2>2. y.line = x.line
    BY <1>0 DEF DocTypes
  <2> HIDE DEF y
  <2>3. \A z \in T : z.line[1] = doc[r]
    BY <1>0, <2>2
  <2> HIDE DEF T
  <2>4. Mine /\ Rest
    BY <1>0, <2>1, <2>3 DEF DocTypes
  <2> HIDE DEF Mine
  <2> QED
    BY <1>c, <2>4
<1>10. ASSUME NEW x \in todo[r], MarkLine(r, x) PROVE G
  <2>1. /\ op[r] = "deliver" /\ pc[r] = "mark" /\ UNCHANGED <<op, doc, from, targets>>
        /\ todo' = [todo EXCEPT ![r] = @ \ {x}]
    BY <1>0, <1>10 DEF MarkLine, Stages, stockVars
  <2>2. Mine /\ Rest
    BY <1>0, <2>1 DEF DocTypes
  <2> HIDE DEF Mine
  <2> QED
    BY <1>c, <2>2
<1> HIDE DEF G
<1>11. G
  BY <1>0, <1>1, <1>2, <1>3, <1>4, <1>5, <1>6, <1>7, <1>8, <1>9, <1>10, Cases
<1> QED
  BY <1>11 DEF G, Arguments, Delivering

\* A step leaves what the others know alone; an answered request takes none.
LEMMA RestFacts ==
  ASSUME DocTypes, NEW r \in Req, Shapes(r)
  PROVE  /\ pc[r] \notin Inv!Answered
         /\ \A q \in Req \ {r} : /\ pc'[q] = pc[q] /\ op'[q] = op[q] /\ doc'[q] = doc[q]
                                 /\ targets'[q] = targets[q] /\ todo'[q] = todo[q]
<1> DEFINE G == /\ pc[r] \notin Inv!Answered
                /\ \A q \in Req \ {r} : /\ doc'[q] = doc[q] /\ targets'[q] = targets[q]
                                        /\ todo'[q] = todo[q]
<1> USE DEF DocTypes, Inv!Answered
<1>1. Quiet(r) => G
  BY DEF Quiet
<1>2. Dropped(r) => G
  BY DEF Dropped
<1>3. \A o \in Order, h \in OrderOps : StartOrder(r, o, h) => G
  BY DEF StartOrder
<1>4. ReadOrder(r) => G
  BY DEF ReadOrder
<1>5. \A o \in Order, w \in Warehouse, qty \in [Slot -> Ordered] : InsertOrder(r, o, w, qty) => G
  BY DEF InsertOrder
<1>6. FindLines(r) => G
  BY DEF FindLines
<1>7. \A qty \in [Slot -> Ordered] : ReplaceLines(r, qty) => G
  BY DEF ReplaceLines
<1>8. \A w \in Warehouse : UpdateHeader(r, w) => G
  BY DEF UpdateHeader
<1>9. SetStatus(r) => G
  BY DEF SetStatus
<1>10. \A x \in todo[r] : (DeliverLine(r, x) => G) /\ (MarkLine(r, x) => G)
  BY DEF DeliverLine, MarkLine
<1>11. (SetDelivered(r) => G) /\ (CommitOrder(r) => G)
  BY DEF SetDelivered, CommitOrder
<1> HIDE DEF G
<1>12. G
  BY <1>1, <1>2, <1>3, <1>4, <1>5, <1>6, <1>7, <1>8, <1>9, <1>10, <1>11, Cases
<1> QED
  BY <1>12 DEF G, Shapes, Others

LEMMA DocumentsStep ==
  ASSUME P!BookTypes, Documents, NEW r \in Req, StepFacts(r)
  PROVE  Documents'
BY OrderHoldersStep, LineHoldersStep, ArgumentsStep DEF Documents, StepFacts

-----------------------------------------------------------------------------
(* Goods leave for confirmed orders only.                                  *)

LEMMA ConfirmationsStep ==
  ASSUME Documents, Confirmations, NEW r \in Req, StepFacts(r)
  PROVE  Confirmations'
<1> DEFINE G == /\ \A o \in Order : "CONFIRMED" \in {orders'.now[o].status, orders'.work[o].status}
                                      => Confirmed(o)'
                /\ \A q \in Req : Delivering(q)' => Confirmed(doc[q])'
                /\ \A l \in Line : lines'.now[l].delivered > 0 \/ lines'.work[l].delivered > 0
                                     => Confirmed(l[1])'
<1>0. /\ DocTypes /\ Stages /\ DocTypes' /\ Stages' /\ Shapes(r)
      /\ orders \in TableOf(Order, OrderRow) /\ lines \in TableOf(Line, LineRow)
  BY DEF Documents, StepFacts, Shapes, DocTypes
<1>a. /\ \A o \in Order : "CONFIRMED" \in {orders.now[o].status, orders.work[o].status} => Confirmed(o)
      /\ \A q \in Req : Delivering(q) => Confirmed(doc[q])
      /\ \A l \in Line : lines.now[l].delivered > 0 \/ lines.work[l].delivered > 0 => Confirmed(l[1])
  BY DEF Confirmations
<1>b. \A q \in Req \ {r} : doc'[q] = doc[q] /\ (Delivering(q)' <=> Delivering(q))
  BY <1>0, RestFacts DEF Delivering
<1>c. \A o : Confirmed(o) => Confirmed(o)'
  <2> SUFFICES ASSUME NEW o, NEW q \in Req, op[q] = "confirm", doc[q] = o, pc[q] = "ok"
               PROVE  Confirmed(o)'
    BY DEF Confirmed
  <2>1. q # r
    BY <1>0, RestFacts DEF Inv!Answered
  <2> QED
    BY <1>0, <2>1, RestFacts DEF Confirmed
<1>d. \A l \in Line : l[1] \in Order
  BY DEF Line
<1> DEFINE Same(t) == \A o \in Order : t.now[o].status = orders.now[o].status
                                       /\ t.work[o].status = orders.work[o].status
           SameLines == \A l \in Line : lines'.now[l].delivered = lines.now[l].delivered
                                        /\ lines'.work[l].delivered = lines.work[l].delivered
           Goes == Delivering(r)' => Confirmed(doc[r])'
<1>e. \A q \in Req \ {r} : Delivering(q)' => Confirmed(doc[q])'
  <2> SUFFICES ASSUME NEW q \in Req \ {r}, Delivering(q)' PROVE Confirmed(doc[q])'
    OBVIOUS
  <2>1. Confirmed(doc[q]) /\ doc'[q] = doc[q]
    BY <1>a, <1>b
  <2>2. PICK o : o = doc[q]
    OBVIOUS
  <2>3. Confirmed(o)' /\ o = doc'[q]
    BY <1>c, <2>1, <2>2
  <2> QED
    BY <2>3 DEF Confirmed
<1>f. ASSUME SameLines
      PROVE  \A l \in Line : lines'.now[l].delivered > 0 \/ lines'.work[l].delivered > 0
                               => Confirmed(l[1])'
  BY <1>a, <1>c, <1>f
<1>g. ASSUME Same(orders')
      PROVE  \A o \in Order : "CONFIRMED" \in {orders'.now[o].status, orders'.work[o].status}
                                => Confirmed(o)'
  BY <1>a, <1>c, <1>g
<1>h. ASSUME Delivering(r), doc' = doc PROVE Confirmed(doc[r])'
  <2>1. PICK o : o = doc[r]
    OBVIOUS
  <2>2. Confirmed(o)' /\ o = doc'[r]
    BY <1>a, <1>c, <1>h, <2>1
  <2> QED
    BY <2>2 DEF Confirmed
<1>1. ASSUME Quiet(r) PROVE G
  BY <1>1, <1>e, <1>f, <1>g, <1>h DEF Quiet
<1>2. ASSUME Dropped(r) PROVE G
  <2>1. /\ orders'.now = orders.now
        /\ \A o \in Order : orders'.work[o] = IF orders.lock[o] = r THEN orders.now[o] ELSE orders.work[o]
        /\ lines'.now = lines.now
        /\ \A l \in Line : lines'.work[l] = IF lines.lock[l] = r THEN lines.now[l] ELSE lines.work[l]
    BY <1>0, <1>2, RollbackFacts DEF Dropped
  <2>2. ~Delivering(r)'
    BY <1>2 DEF Dropped, Delivering
  <2> QED
    BY <1>a, <1>c, <1>e, <2>1, <2>2
<1>3. ASSUME NEW o \in Order, NEW h \in OrderOps, StartOrder(r, o, h) PROVE G
  <2>1. orders' = orders /\ lines' = lines /\ pc'[r] = "read"
    BY <1>0, <1>3 DEF StartOrder, DocTypes
  <2>2. ~Delivering(r)'
    BY <2>1 DEF Delivering
  <2> QED
    BY <1>e, <1>f, <1>g, <2>1, <2>2
<1>4. ASSUME ReadOrder(r) PROVE G
  <2>1. /\ UNCHANGED <<orders, lines, op, doc>>
        /\ pc[r] = "read" /\ Allowed(doc[r], op[r])
    BY <1>4 DEF ReadOrder, stockVars
  <2>2. op[r] = "deliver" => orders.now[doc[r]].status = "CONFIRMED"
    BY <2>1 DEF Allowed
  <2>3. op[r] = "deliver" => doc[r] \in Order
    BY DEF Documents, Arguments, OrderOps
  <2>4. PICK o : o = doc[r]
    OBVIOUS
  <2>5. op[r] = "deliver" => Confirmed(o)'
    BY <1>a, <1>c, <2>2, <2>3, <2>4
  <2>6. Goes
    BY <2>1, <2>4, <2>5 DEF Delivering, Confirmed
  <2> QED
    BY <1>e, <1>f, <1>g, <2>1, <2>6
<1>5. ASSUME NEW o \in Order, NEW w \in Warehouse, NEW qty \in [Slot -> Ordered],
             InsertOrder(r, o, w, qty)
      PROVE  G
  <2>1. /\ \A k \in Order : k # o => /\ orders'.now[k] = orders.now[k]
                                     /\ orders'.work[k] = orders.work[k]
        /\ orders'.now[o].status = "DRAFT" /\ orders'.work[o] = orders'.now[o]
        /\ \A l \in Line :
              IF l[1] = o /\ l[3] = Nobody
                THEN /\ lines'.now[l].delivered = 0 /\ lines'.work[l] = lines'.now[l]
                ELSE lines'.now[l] = lines.now[l] /\ lines'.work[l] = lines.work[l]
    BY <1>0, <1>5, InsertFacts
  <2>2. ~Delivering(r)'
    BY <1>0, <1>5 DEF InsertOrder, stockVars, Stages, Delivering
  <2> QED
    BY <1>a, <1>c, <1>e, <2>1, <2>2
<1>6. ASSUME SetDelivered(r) \/ \E w \in Warehouse : UpdateHeader(r, w) PROVE G
  <2>1. /\ doc[r] \in Order /\ UNCHANGED <<op, doc, lines>>
        /\ (op[r] = "deliver" => Delivering(r))
    BY <1>0, <1>6 DEF SetDelivered, UpdateHeader, stockVars, Stages, OrderOps, Documents,
                      Arguments, Delivering
  <2>2. /\ Seen(orders, r)[doc[r]] = IF orders.lock[doc[r]] = r THEN orders.work[doc[r]]
                                                            ELSE orders.now[doc[r]]
        /\ Seen(orders, r)[doc[r]] \in OrderRow
    BY <1>0, <2>1, SeenFacts
  <2>3. PICK v \in OrderRow : /\ orders' = Put(orders, r, doc[r], v)
                              /\ v.status \in {Seen(orders, r)[doc[r]].status, "DELIVERED"}
    <3> DEFINE row == Seen(orders, r)[doc[r]]
    <3>1. /\ \A w \in Warehouse : /\ [row EXCEPT !.warehouse = w] \in OrderRow
                                  /\ [row EXCEPT !.warehouse = w].status = row.status
          /\ [row EXCEPT !.status = "DELIVERED"] \in OrderRow
          /\ [row EXCEPT !.status = "DELIVERED"].status = "DELIVERED"
      BY <2>2 DEF OrderRow, SalesOrderStatus
    <3> QED
      BY <1>6, <3>1 DEF SetDelivered, UpdateHeader
  <2>4. orders'.now = orders.now
        /\ \A k \in Order : orders'.work[k] = IF k = doc[r] THEN v ELSE orders.work[k]
    BY <1>0, <2>1, <2>3, PutFacts
  <2>5. \A o \in Order : "CONFIRMED" \in {orders'.now[o].status, orders'.work[o].status}
                                => Confirmed(o)'
    BY <1>a, <1>c, <2>1, <2>2, <2>3, <2>4
  <2>6. Goes
    <3>1. op[r] # "deliver" => ~Delivering(r)'
      BY <2>1 DEF Delivering
    <3> QED
      BY <1>h, <2>1, <3>1
  <2> QED
    BY <1>e, <1>f, <2>1, <2>5, <2>6
<1>7. ASSUME SetStatus(r) PROVE G
  <2>1. /\ pc[r] = "write" /\ doc[r] \in Order /\ UNCHANGED <<op, doc, lines>>
        /\ op[r] \in {"confirm", "cancel"} /\ pc'[r] = "ok"
    BY <1>0, <1>7 DEF SetStatus, stockVars, Stages, OrderOps, Documents, Arguments, DocTypes
  <2> DEFINE s == IF op[r] = "confirm" THEN "CONFIRMED" ELSE "CANCELLED"
             v == [orders.now[doc[r]] EXCEPT !.status = s]
  <2>2. orders' = Save(orders, doc[r], v)
    BY <1>7 DEF SetStatus
  <2>3. v \in OrderRow /\ v.status = s
    <3>1. orders.now[doc[r]] \in OrderRow
      BY <1>0, <2>1 DEF TableOf
    <3> QED
      BY <3>1 DEF OrderRow, SalesOrderStatus
  <2> HIDE DEF v
  <2>4. \A k \in Order : /\ orders'.work[k] = IF k = doc[r] THEN v ELSE orders.work[k]
                         /\ orders'.now[k] = IF k = doc[r] THEN v ELSE orders.now[k]
    BY <1>0, <2>1, <2>2, <2>3, SaveFacts
  <2>5. s = "CONFIRMED" => \A o : o = doc[r] => Confirmed(o)'
    BY <2>1 DEF Confirmed
  <2>6. \A o \in Order : "CONFIRMED" \in {orders'.now[o].status, orders'.work[o].status}
                           => Confirmed(o)'
    BY <1>a, <1>c, <2>3, <2>4, <2>5
  <2>7. ~Delivering(r)'
    BY <2>1 DEF Delivering
  <2> QED
    BY <1>e, <1>f, <2>1, <2>6, <2>7
<1>8. ASSUME CommitOrder(r) PROVE G
  <2>1. /\ UNCHANGED <<op, doc>> /\ lines' = Commit(lines, r) /\ orders' = Commit(orders, r)
        /\ pc'[r] = "ok"
    BY <1>0, <1>8 DEF CommitOrder, DocTypes
  <2>2. /\ lines'.work = lines.work
        /\ \A l \in Line : lines'.now[l] = IF lines.lock[l] = r THEN lines.work[l] ELSE lines.now[l]
        /\ orders'.work = orders.work
        /\ \A o \in Order : orders'.now[o] = IF orders.lock[o] = r THEN orders.work[o] ELSE orders.now[o]
    BY <1>0, <2>1, CommitFacts
  <2>3. ~Delivering(r)'
    BY <2>1 DEF Delivering
  <2> QED
    BY <1>a, <1>c, <1>e, <2>2, <2>3
<1>9. ASSUME NEW qty \in [Slot -> Ordered], ReplaceLines(r, qty) PROVE G
  <2>1. /\ UNCHANGED <<op, doc, orders>> /\ pc'[r] = "header"
    BY <1>0, <1>9 DEF ReplaceLines, stockVars, DocTypes
  <2>2. /\ lines'.now = lines.now
        /\ \A l \in Line : lines'.work[l] = lines.work[l] \/ lines'.work[l].delivered = 0
    BY <1>0, <1>9, ReplaceFacts DEF NoLine
  <2>3. ~Delivering(r)'
    BY <2>1 DEF Delivering
  <2> QED
    BY <1>a, <1>c, <1>e, <1>g, <2>1, <2>2, <2>3
<1>10. ASSUME NEW x \in todo[r], MarkLine(r, x) PROVE G
  <2>1. /\ pc[r] = "mark" /\ op[r] = "deliver" /\ UNCHANGED <<op, doc, orders>>
    BY <1>0, <1>10 DEF MarkLine, stockVars, Stages
  <2>2. x.line \in Line /\ x.line[1] = doc[r] /\ Delivering(r)
    BY <1>0, <1>10, <2>1, MarkFacts DEF Documents, Arguments, Delivering
  <2>3. /\ lines'.now = lines.now
        /\ \A k \in Line \ {x.line} : lines'.work[k] = lines.work[k]
    BY <1>0, <1>10, MarkFacts
  <2>4. PICK o : o = doc[r]
    OBVIOUS
  <2>5. Confirmed(o)' /\ Confirmed(doc[r])'
    BY <1>a, <1>c, <1>h, <2>1, <2>2, <2>4
  <2>6. \A l \in Line : lines'.now[l].delivered > 0 \/ lines'.work[l].delivered > 0 => Confirmed(l[1])'
    BY <1>a, <1>c, <2>2, <2>3, <2>4, <2>5
  <2> QED
    BY <1>e, <1>g, <2>1, <2>5, <2>6
<1>11. ASSUME NEW x \in todo[r], DeliverLine(r, x) PROVE G
  <2>1. /\ pc[r] = "next" /\ op[r] = "deliver" /\ UNCHANGED <<op, doc, lines, orders>>
    BY <1>0, <1>11 DEF DeliverLine, Stages
  <2>2. Delivering(r)
    BY <2>1 DEF Delivering
  <2> QED
    BY <1>e, <1>f, <1>g, <1>h, <2>1, <2>2
<1>12. ASSUME FindLines(r) PROVE G
  <2>1. UNCHANGED <<orders, lines, op, doc>> /\ pc'[r] = "delete"
    BY <1>0, <1>12 DEF FindLines, stockVars, DocTypes
  <2>2. ~Delivering(r)'
    BY <2>1 DEF Delivering
  <2> QED
    BY <1>e, <1>f, <1>g, <2>1, <2>2
<1> HIDE DEF G
<1>13. G
  BY <1>0, <1>1, <1>2, <1>3, <1>4, <1>5, <1>6, <1>7, <1>8, <1>9, <1>10, <1>11, <1>12, Cases
<1> QED
  BY <1>13 DEF G, Confirmations

-----------------------------------------------------------------------------
(* Orders are delivered as a whole.                                        *)

\* Once an order exists it exists, and once a line's creator is done it is done.
LEMMA MadeStays ==
  ASSUME Documents, NEW r \in Req, StepFacts(r)
  PROVE  \A l \in Line : Made(l) => Made(l)'
<1> DEFINE G == \A o \in Order : orders.now[o].status # Absent => orders'.now[o].status # Absent
<1>0. /\ DocTypes /\ Stages /\ DocTypes' /\ Shapes(r) /\ orders \in TableOf(Order, OrderRow)
      /\ OrderHolders
  BY DEF Documents, StepFacts, DocTypes
<1>1. orders' = orders => G
  OBVIOUS
<1>2. Dropped(r) => G
  BY <1>0, RollbackFacts DEF Dropped
<1>3. \A o \in Order, h \in OrderOps : StartOrder(r, o, h) => G
  BY DEF StartOrder
<1>4. ASSUME NEW o \in Order, NEW w \in Warehouse, NEW qty \in [Slot -> Ordered],
             InsertOrder(r, o, w, qty)
      PROVE  G
  BY <1>0, <1>4, InsertFacts
<1>5. SetDelivered(r) \/ (\E w \in Warehouse : UpdateHeader(r, w)) => G
  <2> SUFFICES ASSUME SetDelivered(r) \/ \E w \in Warehouse : UpdateHeader(r, w) PROVE G
    OBVIOUS
  <2>1. PICK v : orders' = Put(orders, r, doc[r], v)
    BY DEF SetDelivered, UpdateHeader
  <2>2. Put(orders, r, doc[r], v).now = orders.now
    BY <1>0 DEF Put, TableOf
  <2> QED
    BY <2>1, <2>2
<1>6. ASSUME SetStatus(r) PROVE G
  <2>1. doc[r] \in Order
    BY <1>0, <1>6 DEF SetStatus, Stages, Documents, Arguments, OrderOps
  <2>2. PICK s \in SalesOrderStatus :
          orders' = Save(orders, doc[r], [orders.now[doc[r]] EXCEPT !.status = s])
    BY <1>6 DEF SetStatus, SalesOrderStatus
  <2> DEFINE v == [orders.now[doc[r]] EXCEPT !.status = s]
  <2>3. v \in OrderRow /\ v.status # Absent
    <3>1. orders.now[doc[r]] \in OrderRow
      BY <1>0, <2>1 DEF TableOf
    <3> QED
      BY <3>1 DEF OrderRow, SalesOrderStatus, Absent
  <2> HIDE DEF v
  <2>4. \A k \in Order : orders'.now[k] = IF k = doc[r] THEN v ELSE orders.now[k]
    BY <1>0, <2>1, <2>2, <2>3, SaveFacts DEF v
  <2> QED
    BY <2>3, <2>4
<1>7. CommitOrder(r) => G
  BY <1>0, CommitFacts DEF CommitOrder, OrderHolders
<1>8. G
  <2> HIDE DEF G
  <2>1. /\ (Quiet(r) => G) /\ (ReadOrder(r) => G) /\ (FindLines(r) => G)
        /\ \A qty \in [Slot -> Ordered] : ReplaceLines(r, qty) => G
        /\ \A x \in todo[r] : (DeliverLine(r, x) => G) /\ (MarkLine(r, x) => G)
    BY <1>1 DEF Quiet, ReadOrder, FindLines, ReplaceLines, DeliverLine, MarkLine
  <2> QED
    BY <1>0, <1>2, <1>3, <1>4, <1>5, <1>6, <1>7, <2>1, Cases
<1> SUFFICES ASSUME NEW l \in Line, Made(l) PROVE Made(l)'
  OBVIOUS
<1>9. l[1] \in Order /\ l[3] \in Owner
  BY DEF Line
<1>10. CASE l[3] = Nobody
  BY <1>8, <1>9, <1>10 DEF Made
<1>11. CASE l[3] # Nobody
  <2>1. l[3] \in Req /\ pc[l[3]] = "ok"
    BY <1>9, <1>11 DEF Made, Owner
  <2>2. pc'[l[3]] = "ok"
    BY <1>0, <2>1, RestFacts DEF Inv!Answered
  <2> QED
    BY <1>11, <2>2 DEF Made
<1> QED
  BY <1>10, <1>11

\* A request whose rows the step leaves alone.
LEMMA Bystander ==
  ASSUME NEW q \in Req, MadeFor(q), BatchOf(q), \A l \in Line : Made(l) => Made(l)',
         targets[q] \in SUBSET Line, \A x \in todo[q] : x.line \in Line,
         targets'[q] = targets[q], todo'[q] = todo[q],
         \A l \in Line : /\ lines'.lock[l] = q <=> lines.lock[l] = q
                         /\ lines.lock[l] = q => /\ lines'.work[l] = lines.work[l]
                                                 /\ lines'.now[l] = lines.now[l],
         \A x \in todo[q] : lines'.now[x.line] # NoLine => lines'.now[x.line].qty = x.row.qty,
         op'[q] = "update" => op[q] = "update" \/ HeldBy(q) = {},
         Delivering(q)' => Delivering(q),
         pc'[q] = "commit" /\ op'[q] = "deliver" =>
           todo[q] = {} \/ (pc[q] = "commit" /\ op[q] = "deliver")
  PROVE  MadeFor(q)' /\ BatchOf(q)'
<1>1. MadeFor(q)'
  BY DEF MadeFor
<1>2. HeldBy(q)' = HeldBy(q)
  BY DEF HeldBy
<1>3. \A l \in HeldBy(q) : l \in Line /\ lines.lock[l] = q
  BY DEF HeldBy
<1>4. /\ Whole(targets[q])' /\ (op'[q] = "update" => Whole(HeldBy(q))')
      /\ (Delivering(q)' => Whole(HeldBy(q) \cup {x.line : x \in todo[q]})')
  BY <1>2 DEF BatchOf, Whole
<1>5. \A l \in HeldBy(q)' :
       /\ op'[q] = "update" =>
            IF l[3] = q THEN lines'.work[l].qty > 0 /\ lines'.work[l].delivered = 0
                        ELSE lines'.work[l] = NoLine
       /\ Delivering(q)' =>
            /\ lines'.now[l] # NoLine
            /\ lines'.work[l] = [qty |-> lines'.now[l].qty, delivered |-> lines'.now[l].qty]
  BY <1>2, <1>3 DEF BatchOf
<1>6. pc'[q] = "commit" /\ op'[q] = "deliver" => todo'[q] = {}
  BY DEF BatchOf
<1> QED
  BY <1>1, <1>4, <1>5, <1>6 DEF BatchOf

\* A request that holds nothing any more.
LEMMA Released ==
  ASSUME NEW q \in Req, MadeFor(q), BatchOf(q), \A l \in Line : Made(l) => Made(l)',
         targets[q] \in SUBSET Line, \A x \in todo[q] : x.line \in Line,
         targets'[q] = targets[q], todo'[q] = todo[q],
         \A l \in Line : lines'.lock[l] # q,
         \A x \in todo[q] : lines'.now[x.line] # NoLine => lines'.now[x.line].qty = x.row.qty,
         ~Delivering(q)'
  PROVE  MadeFor(q)' /\ BatchOf(q)'
<1>1. MadeFor(q)'
  BY DEF MadeFor
<1>2. HeldBy(q)' = {}
  BY DEF HeldBy
<1>3. Whole(targets[q])' /\ Whole(HeldBy(q))'
  BY <1>2 DEF BatchOf, Whole
<1>4. pc'[q] = "commit" /\ op'[q] = "deliver" => todo'[q] = {}
  BY DEF Delivering
<1> QED
  BY <1>1, <1>2, <1>3, <1>4 DEF BatchOf

\* ... and the rows that are committed, as long as they stay.
LEMMA UniformKept ==
  ASSUME MadeOnce, Uniform, \A l \in Line : Made(l) => Made(l)', lines'.now = lines.now
  PROVE  /\ Uniform'
         /\ \A l \in Line : lines'.now[l] # NoLine => Made(l)'
         /\ \A q \in Req : \A x \in todo[q] :
              lines'.now[x.line] # NoLine => lines'.now[x.line].qty = x.row.qty
BY DEF MadeOnce, MadeFor, Uniform

\* A step that commits nothing, but for the request that takes it.
LEMMA Calm ==
  ASSUME Documents, Batches, NEW r \in Req, StepFacts(r), lines'.now = lines.now,
         \A l \in Line : \/ lines'.lock[l] = lines.lock[l] /\ lines'.work[l] = lines.work[l]
                         \/ lines.lock[l] \in {r, Nobody} /\ lines'.lock[l] \in {r, Nobody},
         MadeFor(r)', BatchOf(r)'
  PROVE  Batches'
<1>0. DocTypes /\ Shapes(r) /\ MadeOnce /\ Uniform /\ \A q \in Req : MadeFor(q) /\ BatchOf(q)
  BY DEF Documents, Batches, MadeOnce, StepFacts
<1>1. /\ \A l \in Line : Made(l) => Made(l)'
      /\ Uniform' /\ \A l \in Line : lines'.now[l] # NoLine => Made(l)'
      /\ \A q \in Req : \A x \in todo[q] :
           lines'.now[x.line] # NoLine => lines'.now[x.line].qty = x.row.qty
  BY <1>0, MadeStays, UniformKept
<1>2. ASSUME NEW q \in Req \ {r} PROVE MadeFor(q)' /\ BatchOf(q)'
  <2>1. /\ pc'[q] = pc[q] /\ op'[q] = op[q] /\ targets'[q] = targets[q] /\ todo'[q] = todo[q]
        /\ (Delivering(q)' <=> Delivering(q))
    BY <1>0, RestFacts DEF Delivering
  <2>2. targets[q] \in SUBSET Line /\ \A x \in todo[q] : x.line \in Line
    BY <1>0 DEF DocTypes
  <2>3. \A l \in Line : /\ lines'.lock[l] = q <=> lines.lock[l] = q
                        /\ lines.lock[l] = q => /\ lines'.work[l] = lines.work[l]
                                                /\ lines'.now[l] = lines.now[l]
    BY NobodyAssumption
  <2> QED
    BY <1>0, <1>1, <2>1, <2>2, <2>3, Bystander
<1>3. MadeOnce'
  <2>1. \A q \in Req : MadeFor(q)'
    BY <1>2
  <2> QED
    BY <1>1, <2>1 DEF MadeOnce
<1>4. \A q \in Req : BatchOf(q)'
  BY <1>2
<1> QED
  BY <1>1, <1>3, <1>4 DEF Batches

\* A step of r that also leaves r's rows, or lets them go.
LEMMA CalmHere ==
  ASSUME Documents, Batches, NEW r \in Req, StepFacts(r), lines' = lines,
         targets'[r] = targets[r], todo'[r] = todo[r],
         op'[r] = "update" => op[r] = "update" \/ HeldBy(r) = {},
         Delivering(r)' => Delivering(r),
         pc'[r] = "commit" /\ op'[r] = "deliver" =>
           todo[r] = {} \/ (pc[r] = "commit" /\ op[r] = "deliver")
  PROVE  Batches'
<1>0. DocTypes /\ MadeOnce /\ Uniform /\ MadeFor(r) /\ BatchOf(r)
  BY DEF Documents, Batches, MadeOnce
<1>1. /\ \A l \in Line : Made(l) => Made(l)'
      /\ \A x \in todo[r] : lines'.now[x.line] # NoLine => lines'.now[x.line].qty = x.row.qty
  BY <1>0, MadeStays, UniformKept
<1>2. targets[r] \in SUBSET Line /\ \A x \in todo[r] : x.line \in Line
  BY <1>0 DEF DocTypes
<1>3. MadeFor(r)' /\ BatchOf(r)'
  BY <1>0, <1>1, <1>2, Bystander
<1> QED
  BY <1>3, Calm

\* Where an update or a delivery may hold rows.
LEMMA HeldFacts ==
  ASSUME Documents, NEW r \in Req
  PROVE  /\ HeldBy(r) \in SUBSET LinesOf(doc[r])
         /\ ~Delivering(r) /\ ~(op[r] = "update" /\ pc[r] \in {"header", "commit"}) => HeldBy(r) = {}
BY DEF Documents, LineHolders, HeldBy, LinesOf

LEMMA BatchesQuiet ==
  ASSUME Documents, Batches, NEW r \in Req, StepFacts(r), Quiet(r)
  PROVE  Batches'
<1>1. /\ UNCHANGED <<lines, targets, todo>> /\ (Delivering(r)' <=> Delivering(r))
      /\ op'[r] = op[r] \/ op'[r] \notin OrderOps
      /\ (pc'[r] = "commit" => op[r] = "transfer")
      /\ pc[r] = "idle" => op[r] = "none"
  BY DEF Quiet, Documents, Stages
<1>2. /\ op'[r] = "update" => op[r] = "update"
      /\ (op'[r] = "deliver" => op[r] = "deliver")
  BY <1>1 DEF OrderOps
<1> QED
  BY <1>1, <1>2, CalmHere

LEMMA BatchesDrop ==
  ASSUME Documents, Batches, NEW r \in Req, StepFacts(r), Dropped(r)
  PROVE  Batches'
<1>0. DocTypes /\ MadeOnce /\ Uniform /\ MadeFor(r) /\ BatchOf(r)
  BY DEF Documents, Batches, MadeOnce
<1>1. /\ lines'.now = lines.now
      /\ \A l \in Line :
           /\ lines'.work[l] = IF lines.lock[l] = r THEN lines.now[l] ELSE lines.work[l]
           /\ lines'.lock[l] = IF lines.lock[l] = r THEN Nobody ELSE lines.lock[l]
  BY <1>0, RollbackFacts DEF Dropped, DocTypes
<1>2. /\ \A l \in Line : Made(l) => Made(l)'
      /\ \A x \in todo[r] : lines'.now[x.line] # NoLine => lines'.now[x.line].qty = x.row.qty
  BY <1>0, <1>1, MadeStays, UniformKept
<1>3. targets[r] \in SUBSET Line /\ \A x \in todo[r] : x.line \in Line
  BY <1>0 DEF DocTypes
<1>4. targets'[r] = targets[r] /\ todo'[r] = todo[r] /\ ~Delivering(r)'
  BY DEF Dropped, Delivering
<1>5. \A l \in Line : lines'.lock[l] # r
  BY <1>1, NobodyAssumption
<1>6. MadeFor(r)' /\ BatchOf(r)'
  BY <1>0, <1>2, <1>3, <1>4, <1>5, Released
<1> QED
  BY <1>1, <1>6, Calm

LEMMA BatchesStart ==
  ASSUME P!BookTypes, Documents, Batches, NEW r \in Req, StepFacts(r),
         NEW o \in Order, NEW h \in OrderOps, StartOrder(r, o, h)
  PROVE  Batches'
<1>1. /\ pc[r] = "idle" /\ UNCHANGED <<lines, targets, todo>> /\ pc'[r] = "read"
  BY DEF StartOrder, Documents, DocTypes
<1>2. HeldBy(r) = {} /\ ~Delivering(r)'
  BY <1>1, HeldFacts DEF Delivering
<1> QED
  BY <1>1, <1>2, CalmHere

\* findOne returns whole batches, delivered or not.
LEMMA BatchesRead ==
  ASSUME Documents, Batches, NEW r \in Req, StepFacts(r), ReadOrder(r)
  PROVE  Batches'
<1> DEFINE open == {l \in LinesOf(doc[r]) : Remaining(lines.now[l]) > 0}
           T == IF op[r] = "deliver" THEN {[line |-> l, row |-> lines.now[l]] : l \in open} ELSE {}
<1>0. DocTypes /\ MadeOnce /\ Uniform /\ MadeFor(r) /\ BatchOf(r)
  BY DEF Documents, Batches, MadeOnce
<1>1. /\ todo' = [todo EXCEPT ![r] = T] /\ UNCHANGED <<lines, targets, op, doc>>
      /\ pc[r] = "read"
  BY DEF ReadOrder, stockVars
<1>2. HeldBy(r) = {} /\ pc'[r] # "commit"
  <2>1. pc'[r] = AfterRead[op[r]] /\ op[r] \in OrderOps
    BY <1>0, <1>1 DEF ReadOrder, DocTypes, Documents, Stages
  <2>2. /\ AfterRead["update"] = "find lines" /\ AfterRead["confirm"] = "write"
        /\ AfterRead["cancel"] = "write" /\ AfterRead["deliver"] = "next"
    BY DEF AfterRead
  <2> QED
    BY <1>1, <2>1, <2>2, HeldFacts DEF Delivering, OrderOps
<1>3. \A l \in Line : lines.now[l] \in LineRow
  BY <1>0 DEF DocTypes, TableOf
<1>4. \A l \in open : /\ l \in Line /\ lines.now[l] # NoLine /\ Made(l)
                      /\ lines.now[l].qty > 0 /\ lines.now[l].delivered = 0
  <2> SUFFICES ASSUME NEW l \in open
               PROVE  /\ l \in Line /\ lines.now[l] # NoLine /\ Made(l)
                      /\ lines.now[l].qty > 0 /\ lines.now[l].delivered = 0
    OBVIOUS
  <2>1. l \in Line /\ lines.now[l] \in LineRow /\ Remaining(lines.now[l]) > 0
    BY <1>3 DEF LinesOf
  <2>2. lines.now[l] # NoLine
    BY <2>1 DEF Remaining, NoLine
  <2> QED
    BY <1>0, <2>1, <2>2 DEF MadeOnce, Uniform, Remaining, LineRow
<1>5. Whole(open)
  <2> SUFFICES ASSUME NEW l \in open, NEW k \in Line, Together(l, k) PROVE k \in open
    BY DEF Whole
  <2>1. lines.now[k] # NoLine /\ lines.now[k] \in LineRow /\ k \in LinesOf(doc[r])
    BY <1>0, <1>3, <1>4 DEF Uniform, Together, LinesOf
  <2>2. lines.now[k].qty > 0 /\ lines.now[k].delivered \in {0, lines.now[k].qty}
    BY <1>0, <2>1 DEF Uniform
  <2>3. lines.now[k].delivered > 0 => Remaining(lines.now[l]) = 0
    BY <1>0, <1>4, <2>1 DEF Uniform, Together
  <2>4. lines.now[k].delivered = 0
    BY <2>1, <2>2, <2>3 DEF LineRow
  <2> QED
    BY <2>1, <2>2, <2>4 DEF Remaining, LineRow
<1>6. \A x \in T : x.line \in open /\ x.row = lines.now[x.line]
  OBVIOUS
<1>7. op[r] = "deliver" => {x.line : x \in T} = open
  <2>1. \A l \in open : [line |-> l, row |-> lines.now[l]].line = l
    OBVIOUS
  <2> QED
    BY <1>6, <2>1
<1> HIDE DEF open, T
<1>8. todo'[r] = T
  BY <1>0, <1>1 DEF DocTypes
<1>9. \A l \in Line : Made(l) => Made(l)'
  BY MadeStays
<1>10. MadeFor(r)'
  <2>1. \A l \in targets'[r] : Made(l)'
    BY <1>0, <1>1, <1>9 DEF MadeFor, DocTypes
  <2>2. \A x \in todo'[r] :
          /\ Made(x.line)' /\ x.row.qty > 0 /\ x.row.delivered \in {0, x.row.qty}
          /\ lines'.now[x.line] # NoLine => lines'.now[x.line].qty = x.row.qty
    BY <1>1, <1>4, <1>6, <1>8, <1>9
  <2>3. \A l \in Line : lines'.lock[l] = r => Made(l)' \/ l[3] = r
    BY <1>0, <1>1, <1>9 DEF MadeFor
  <2> QED
    BY <2>1, <2>2, <2>3 DEF MadeFor
<1>11. BatchOf(r)'
  <2>1. HeldBy(r)' = {}
    BY <1>1, <1>2 DEF HeldBy
  <2>2. Delivering(r)' => {x.line : x \in todo'[r]} = open
    BY <1>1, <1>7, <1>8 DEF Delivering
  <2>3. Whole(targets[r])' /\ Whole(HeldBy(r))'
    BY <1>0, <1>1, <2>1 DEF BatchOf, Whole
  <2>4. Delivering(r)' => Whole(HeldBy(r) \cup {x.line : x \in todo[r]})'
    BY <1>5, <2>1, <2>2 DEF Whole, Together
  <2> QED
    BY <1>2, <2>1, <2>3, <2>4 DEF BatchOf
<1> QED
  BY <1>1, <1>10, <1>11, Calm

\* The new lines are the first of their batch: nobody has heard of them.
LEMMA BatchesInsert ==
  ASSUME Documents, Batches, NEW r \in Req, StepFacts(r),
         NEW o \in Order, NEW w \in Warehouse, NEW qty \in [Slot -> Ordered],
         InsertOrder(r, o, w, qty)
  PROVE  Batches'
<1> DEFINE Fresh(l) == l[1] = o /\ l[3] = Nobody
<1>0. DocTypes /\ Shapes(r) /\ MadeOnce /\ Uniform /\ \A q \in Req : MadeFor(q) /\ BatchOf(q)
  BY DEF Documents, Batches, MadeOnce, StepFacts
<1>1. /\ orders.now[o].status = Absent /\ orders'.now[o].status = "DRAFT"
      /\ lines'.lock = lines.lock
      /\ \A l \in Line : Fresh(l) => /\ lines'.now[l].qty > 0 /\ lines'.now[l].delivered = 0
                                     /\ lines'.work[l] = lines'.now[l]
      /\ \A l \in Line : ~Fresh(l) => lines'.now[l] = lines.now[l] /\ lines'.work[l] = lines.work[l]
      /\ \A l \in Line : lines'.now[l] \in LineRow
  BY <1>0, InsertFacts DEF TableOf
<1>2. /\ \A l \in Line : Made(l) => Made(l)'
      /\ \A l \in Line : Fresh(l) => ~Made(l) /\ Made(l)'
  BY <1>1, MadeStays DEF Made, Absent
<1>3. pc[r] = "insert" /\ op[r] = "create" /\ UNCHANGED <<op, targets, todo>> /\ pc'[r] \in {"ok", "convert"}
  BY <1>0 DEF InsertOrder, stockVars, Documents, Stages, DocTypes
<1>4. ASSUME NEW q \in Req PROVE MadeFor(q)' /\ BatchOf(q)'
  <2>1. /\ op'[q] = "update" => op[q] = "update" \/ HeldBy(q) = {}
        /\ (Delivering(q)' => Delivering(q))
        /\ pc'[q] = "commit" /\ op'[q] = "deliver" =>
             todo[q] = {} \/ (pc[q] = "commit" /\ op[q] = "deliver")
    BY <1>0, <1>3, RestFacts DEF Delivering
  <2>2. \A l \in Line : lines.lock[l] = q => ~Fresh(l)
    BY <1>0, <1>2, NobodyAssumption DEF MadeFor
  <2>3. \A l \in Line : /\ lines'.lock[l] = q <=> lines.lock[l] = q
                        /\ lines.lock[l] = q => /\ lines'.work[l] = lines.work[l]
                                                /\ lines'.now[l] = lines.now[l]
    BY <1>1, <2>2
  <2>4. targets[q] \in SUBSET Line /\ \A x \in todo[q] : x.line \in Line
    BY <1>0 DEF DocTypes
  <2>5. \A x \in todo[q] : lines'.now[x.line] # NoLine => lines'.now[x.line].qty = x.row.qty
    BY <1>0, <1>1, <1>2, <2>4 DEF MadeFor
  <2> HIDE DEF Fresh
  <2> QED
    BY <1>0, <1>2, <1>3, <2>1, <2>3, <2>4, <2>5, Bystander
<1>5. Uniform'
  <2> SUFFICES ASSUME NEW l \in Line, lines'.now[l] # NoLine
               PROVE  /\ lines'.now[l].qty > 0
                      /\ lines'.now[l].delivered \in {0, lines'.now[l].qty}
                      /\ \A k \in Line : Together(l, k) =>
                           /\ lines'.now[k] # NoLine
                           /\ lines'.now[l].delivered > 0 => Remaining(lines'.now[k]) = 0
    BY DEF Uniform, Together, Remaining
  <2>1. CASE Fresh(l)
    <3>1. \A k \in Line : Together(l, k) => Fresh(k)
      BY <2>1 DEF Together
    <3>2. \A k \in Line : lines'.now[k].qty > 0 => lines'.now[k] # NoLine
      BY <1>1 DEF NoLine
    <3> QED
      BY <1>1, <2>1, <3>1, <3>2
  <2>2. CASE ~Fresh(l)
    <3>1. \A k \in Line : Together(l, k) => ~Fresh(k)
      BY <2>2 DEF Together
    <3> QED
      BY <1>0, <1>1, <2>2, <3>1 DEF Uniform
  <2> QED
    BY <2>1, <2>2
<1>6. \A l \in Line : lines'.now[l] # NoLine => Made(l)'
  BY <1>0, <1>1, <1>2 DEF MadeOnce
<1> HIDE DEF Fresh
<1>7. MadeOnce'
  BY <1>4, <1>6 DEF MadeOnce
<1> QED
  BY <1>4, <1>5, <1>7 DEF Batches

\* deleteMany finds whole batches.
LEMMA BatchesFind ==
  ASSUME Documents, Batches, NEW r \in Req, StepFacts(r), FindLines(r)
  PROVE  Batches'
<1> DEFINE T == {l \in LinesOf(doc[r]) : lines.now[l] # NoLine}
<1>0. DocTypes /\ MadeOnce /\ Uniform /\ MadeFor(r) /\ BatchOf(r)
  BY DEF Documents, Batches, MadeOnce
<1>1. /\ targets' = [targets EXCEPT ![r] = T] /\ UNCHANGED <<lines, todo, op, doc>>
      /\ op[r] = "update"
  BY DEF FindLines, stockVars, Documents, Stages
<1>2. \A l \in T : l \in Line /\ Made(l)
  BY <1>0 DEF MadeOnce, LinesOf
<1>3. Whole(T)
  BY <1>0 DEF Whole, Together, LinesOf, Uniform
<1> HIDE DEF T
<1>4. targets'[r] = T /\ ~Delivering(r)'
  BY <1>0, <1>1 DEF DocTypes, Delivering
<1>5. \A l \in Line : Made(l) => Made(l)'
  BY MadeStays
<1>7. \A x \in todo[r] : x.line \in Line
  BY <1>0 DEF DocTypes
<1>6. MadeFor(r)'
  BY <1>0, <1>1, <1>2, <1>4, <1>5, <1>7 DEF MadeFor
<1>8. BatchOf(r)'
  <2>1. HeldBy(r)' = HeldBy(r)
    BY <1>1 DEF HeldBy
  <2>2. Whole(targets[r])' /\ Whole(HeldBy(r))'
    BY <1>0, <1>1, <1>3, <1>4, <2>1 DEF BatchOf, Whole
  <2> QED
    BY <1>0, <1>1, <1>4, <2>1, <2>2 DEF BatchOf
<1> QED
  BY <1>1, <1>6, <1>8, Calm

\* An edit holds the batches it deletes and the one it makes.
LEMMA BatchesReplace ==
  ASSUME Documents, Batches, NEW r \in Req, StepFacts(r),
         NEW qty \in [Slot -> Ordered], ReplaceLines(r, qty)
  PROVE  Batches'
<1> DEFINE S == targets[r] \cup New(r)
<1>0. DocTypes /\ MadeOnce /\ Uniform /\ \A q \in Req : MadeFor(q) /\ BatchOf(q)
  BY DEF Documents, Batches, MadeOnce
<1>1. /\ targets' = [targets EXCEPT ![r] = {}] /\ UNCHANGED <<todo, op, doc>>
      /\ pc[r] = "delete" /\ op[r] = "update" /\ todo[r] = {}
  BY DEF ReplaceLines, stockVars, Documents, Stages, Arguments
<1>2. HeldBy(r) = {} /\ ~Delivering(r)'
  BY <1>1, HeldFacts DEF Delivering
<1>3. /\ lines'.now = lines.now
      /\ \A l \in targets[r] : lines.lock[l] \in {r, Nobody}
      /\ \A l \in S : l \in Line => lines'.lock[l] = r
      /\ \A l \in Line : l \notin S => lines'.lock[l] = lines.lock[l] /\ lines'.work[l] = lines.work[l]
      /\ \A l \in Line : l \in New(r) => lines'.work[l].qty > 0 /\ lines'.work[l].delivered = 0
      /\ \A l \in Line : l \in S \ New(r) => lines'.work[l] = NoLine
  BY <1>0, ReplaceFacts
<1>4. /\ \A l \in targets[r] : l \in Line /\ Made(l) /\ l[1] = doc[r]
      /\ \A l \in Line : l \in New(r) <=> l[1] = doc[r] /\ l[3] = r
      /\ New(r) \in SUBSET Line
  BY <1>0 DEF DocTypes, MadeFor, Documents, Arguments, LinesOf, New
<1>5. \A l \in New(r) : lines.lock[l] \in {r, Nobody}
  <2> SUFFICES ASSUME NEW l \in New(r), lines.lock[l] \notin {r, Nobody} PROVE FALSE
    OBVIOUS
  <2>1. lines.lock[l] \in Owner /\ l \in Line /\ l[3] = r
    BY <1>0, <1>4 DEF DocTypes, TableOf
  <2>2. PICK q \in Req \ {r} : lines.lock[l] = q
    BY <2>1 DEF Owner
  <2>3. Made(l)
    BY <1>0, <2>1, <2>2 DEF MadeFor
  <2> QED
    BY <1>1, <2>1, <2>3, NobodyAssumption DEF Made
<1>6. HeldBy(r)' = S
  BY <1>2, <1>3, <1>4 DEF HeldBy
<1>7. Whole(S)
  BY <1>0, <1>4 DEF Whole, BatchOf, Together
<1>8. targets'[r] = {}
  BY <1>0, <1>1 DEF DocTypes
<1>9. \A l \in Line : Made(l) => Made(l)'
  BY MadeStays
<1>10. MadeFor(r)'
  <2>1. \A l \in Line : lines'.lock[l] = r => Made(l)' \/ l[3] = r
    BY <1>4, <1>6, <1>9 DEF HeldBy
  <2> QED
    BY <1>1, <1>8, <2>1 DEF MadeFor
<1>11. \A l \in S : IF l[3] = r THEN lines'.work[l].qty > 0 /\ lines'.work[l].delivered = 0
                                ELSE lines'.work[l] = NoLine
  BY <1>3, <1>4
<1>12. \A l \in Line : \/ lines'.lock[l] = lines.lock[l] /\ lines'.work[l] = lines.work[l]
                       \/ lines.lock[l] \in {r, Nobody} /\ lines'.lock[l] \in {r, Nobody}
  BY <1>3, <1>5
<1> HIDE DEF S
<1>13. Whole(targets[r])' /\ Whole(HeldBy(r))'
  BY <1>6, <1>7, <1>8 DEF Whole
<1>14. BatchOf(r)'
  BY <1>1, <1>2, <1>6, <1>11, <1>13 DEF BatchOf, Delivering
<1> QED
  BY <1>3, <1>10, <1>12, <1>14, Calm

\* The header and the status are not about lines.
LEMMA BatchesHeader ==
  ASSUME Documents, Batches, NEW r \in Req, StepFacts(r),
         \/ \E w \in Warehouse : UpdateHeader(r, w)
         \/ SetStatus(r) \/ SetDelivered(r)
  PROVE  Batches'
<1>1. /\ UNCHANGED <<lines, targets, todo, op>>
      /\ \/ op[r] = "update"
         \/ op[r] \in {"confirm", "cancel"}
         \/ op[r] = "deliver" /\ pc[r] = "next" /\ todo[r] = {}
  BY DEF UpdateHeader, SetStatus, SetDelivered, stockVars, Documents, Stages
<1>2. /\ Delivering(r)' => Delivering(r)
      /\ (pc'[r] = "commit" /\ op'[r] = "deliver" => todo[r] = {})
  BY <1>1 DEF Delivering
<1> QED
  BY <1>1, <1>2, CalmHere

\* The line a delivery posts stays one it has yet to mark.
LEMMA BatchesDeliver ==
  ASSUME Documents, Batches, NEW r \in Req, StepFacts(r), NEW x \in todo[r], DeliverLine(r, x)
  PROVE  Batches'
<1> DEFINE y == [x EXCEPT !.row.delivered = x.row.qty]
           T == (todo[r] \ {x}) \cup {y}
<1>0. DocTypes /\ MadeOnce /\ Uniform /\ MadeFor(r) /\ BatchOf(r)
  BY DEF Documents, Batches, MadeOnce
<1>1. /\ todo' = [todo EXCEPT ![r] = T] /\ UNCHANGED <<lines, targets, op, doc>>
      /\ pc[r] = "next" /\ op[r] = "deliver" /\ pc'[r] = "find"
  BY <1>0 DEF DeliverLine, Documents, Stages, DocTypes
<1>2. x \in [line : Line, row : LineRow]
  BY <1>0 DEF DocTypes
<1>3. y.line = x.line /\ y.row.qty = x.row.qty /\ y.row.delivered = x.row.qty
  BY <1>2 DEF LineRow
<1> HIDE DEF y
<1>4. {z.line : z \in T} = {z.line : z \in todo[r]}
  BY <1>3
<1>5. \A z \in T : z \in todo[r] \/ z = y
  OBVIOUS
<1> HIDE DEF T
<1>6. todo'[r] = T /\ Delivering(r)' /\ Delivering(r)
  BY <1>0, <1>1 DEF DocTypes, Delivering
<1>7. \A l \in Line : Made(l) => Made(l)'
  BY MadeStays
<1>8. MadeFor(r)'
  <2>1. \A z \in todo[r] : z.line \in Line
    BY <1>0 DEF DocTypes
  <2>2. \A z \in todo'[r] :
          /\ Made(z.line)' /\ z.row.qty > 0 /\ z.row.delivered \in {0, z.row.qty}
          /\ lines'.now[z.line] # NoLine => lines'.now[z.line].qty = z.row.qty
    <3> SUFFICES ASSUME NEW z \in T
                 PROVE  /\ Made(z.line)' /\ z.row.qty > 0 /\ z.row.delivered \in {0, z.row.qty}
                        /\ lines'.now[z.line] # NoLine => lines'.now[z.line].qty = z.row.qty
      BY <1>6
    <3>1. CASE z \in todo[r]
      BY <1>0, <1>1, <1>7, <2>1, <3>1 DEF MadeFor
    <3>2. CASE z = y
      <4>1. Made(x.line)'
        BY <1>0, <1>7, <2>1 DEF MadeFor
      <4>2. PICK l : l = x.line
        OBVIOUS
      <4>3. Made(l)' /\ z.line = l
        BY <1>3, <3>2, <4>1, <4>2
      <4> QED
        BY <1>0, <1>1, <1>3, <3>2, <4>2, <4>3 DEF MadeFor
    <3> QED
      BY <1>5, <3>1, <3>2
  <2>3. \A l \in targets'[r] : Made(l)'
    BY <1>0, <1>1, <1>7 DEF MadeFor, DocTypes
  <2>4. \A l \in Line : lines'.lock[l] = r => Made(l)' \/ l[3] = r
    BY <1>0, <1>1, <1>7 DEF MadeFor
  <2> QED
    BY <2>2, <2>3, <2>4 DEF MadeFor
<1>9. BatchOf(r)'
  <2>1. HeldBy(r)' = HeldBy(r)
    BY <1>1 DEF HeldBy
  <2>2. Whole(targets[r])' /\ Whole(HeldBy(r))' = Whole(HeldBy(r))
    BY <1>0, <1>1, <2>1 DEF BatchOf, Whole
  <2>3. Whole(HeldBy(r) \cup {z.line : z \in todo[r]})'
    BY <1>0, <1>4, <1>6, <2>1 DEF Whole, BatchOf
  <2> QED
    BY <1>0, <1>1, <1>6, <2>1, <2>2, <2>3 DEF BatchOf
<1> QED
  BY <1>1, <1>8, <1>9, Calm

\* A line moves from those to be marked to those the transaction holds.
LEMMA BatchesMark ==
  ASSUME Documents, Batches, NEW r \in Req, StepFacts(r), NEW x \in todo[r], MarkLine(r, x)
  PROVE  Batches'
<1> DEFINE l == x.line
<1>0. DocTypes /\ MadeOnce /\ Uniform /\ MadeFor(r) /\ BatchOf(r)
  BY DEF Documents, Batches, MadeOnce
<1>1. /\ todo' = [todo EXCEPT ![r] = @ \ {x}] /\ UNCHANGED <<targets, op, doc>>
      /\ pc[r] = "mark" /\ op[r] = "deliver" /\ pc'[r] = "next" /\ Remaining(x.row) = 0
  BY <1>0 DEF MarkLine, stockVars, Documents, Stages, DocTypes
<1>2. /\ l \in Line /\ x.row \in LineRow /\ lines'.now = lines.now
      /\ \A k \in Line \ {l} : lines'.lock[k] = lines.lock[k] /\ lines'.work[k] = lines.work[k]
      /\ lines.lock[l] \in {r, Nobody} /\ lines'.lock[l] = r
      /\ Seen(lines, r)[l] # NoLine
      /\ lines'.work[l] = [qty |-> Seen(lines, r)[l].qty, delivered |-> x.row.delivered]
  BY <1>0, MarkFacts
<1>3. todo'[r] = todo[r] \ {x} /\ Delivering(r)' /\ Delivering(r)
  BY <1>0, <1>1 DEF DocTypes, Delivering
<1>4. Made(l) /\ x.row.qty > 0 /\ (lines.now[l] # NoLine => lines.now[l].qty = x.row.qty)
  BY <1>0 DEF MadeFor
<1>5. x.row.delivered = x.row.qty
  BY <1>1, <1>2 DEF Remaining, LineRow
<1>6. /\ lines.now[l] # NoLine
      /\ lines'.work[l] = [qty |-> lines.now[l].qty, delivered |-> lines.now[l].qty]
  <2>1. CASE lines.lock[l] = r
    <3>1. l \in HeldBy(r)
      BY <1>2, <2>1 DEF HeldBy
    <3>2. /\ lines.now[l] # NoLine
          /\ lines.work[l] = [qty |-> lines.now[l].qty, delivered |-> lines.now[l].qty]
      BY <1>0, <1>3, <3>1 DEF BatchOf
    <3>3. Seen(lines, r)[l] = lines.work[l]
      BY <1>0, <1>2, <2>1, SeenFacts DEF DocTypes
    <3> QED
      BY <1>2, <1>4, <1>5, <3>2, <3>3
  <2>2. CASE lines.lock[l] = Nobody
    <3>1. Seen(lines, r)[l] = lines.now[l]
      BY <1>0, <1>2, <2>2, SeenFacts, NobodyAssumption DEF DocTypes
    <3> QED
      BY <1>2, <1>4, <1>5, <3>1
  <2> QED
    BY <1>2, <2>1, <2>2
<1>7. \A k \in Line : Made(k) => Made(k)'
  BY MadeStays
<1>8. MadeFor(r)'
  <2>1. \A z \in todo[r] : z.line \in Line
    BY <1>0 DEF DocTypes
  <2>2. \A z \in todo'[r] :
          /\ Made(z.line)' /\ z.row.qty > 0 /\ z.row.delivered \in {0, z.row.qty}
          /\ lines'.now[z.line] # NoLine => lines'.now[z.line].qty = z.row.qty
    BY <1>0, <1>2, <1>3, <1>7, <2>1 DEF MadeFor
  <2>3. \A k \in targets'[r] : Made(k)'
    BY <1>0, <1>1, <1>7 DEF MadeFor, DocTypes
  <2>4. \A k \in Line : lines'.lock[k] = r => Made(k)' \/ k[3] = r
    BY <1>0, <1>2, <1>4, <1>7 DEF MadeFor
  <2> QED
    BY <2>2, <2>3, <2>4 DEF MadeFor
<1>9. BatchOf(r)'
  <2>1. HeldBy(r)' = HeldBy(r) \cup {l}
    BY <1>2 DEF HeldBy
  <2>2. Whole(targets[r])'
    BY <1>0, <1>1 DEF BatchOf, Whole
  <2>3. HeldBy(r)' \cup {z.line : z \in todo'[r]} = HeldBy(r) \cup {z.line : z \in todo[r]}
    BY <1>3, <2>1
  <2>4. Whole(HeldBy(r) \cup {z.line : z \in todo[r]})'
    BY <1>0, <1>3, <2>3 DEF Whole, BatchOf
  <2>5. \A k \in HeldBy(r)' :
          /\ lines'.now[k] # NoLine
          /\ lines'.work[k] = [qty |-> lines'.now[k].qty, delivered |-> lines'.now[k].qty]
    <3>1. \A k \in HeldBy(r) :
            /\ lines.now[k] # NoLine
            /\ lines.work[k] = [qty |-> lines.now[k].qty, delivered |-> lines.now[k].qty]
      BY <1>0, <1>3 DEF BatchOf
    <3>2. HeldBy(r) \subseteq Line
      BY DEF HeldBy
    <3> HIDE DEF l
    <3> QED
      BY <1>2, <1>6, <2>1, <3>1, <3>2
  <2> QED
    BY <1>0, <1>1, <1>3, <2>2, <2>4, <2>5 DEF BatchOf
<1>10. \A k \in Line : \/ lines'.lock[k] = lines.lock[k] /\ lines'.work[k] = lines.work[k]
                       \/ lines.lock[k] \in {r, Nobody} /\ lines'.lock[k] \in {r, Nobody}
  BY <1>2
<1> QED
  BY <1>2, <1>8, <1>9, <1>10, Calm

\* What is committed is whole batches: gone, new, or delivered in full.
LEMMA BatchesCommit ==
  ASSUME Documents, Batches, NEW r \in Req, StepFacts(r), CommitOrder(r)
  PROVE  Batches'
<1> DEFINE H == HeldBy(r)
<1>0. DocTypes /\ Shapes(r) /\ MadeOnce /\ Uniform /\ \A q \in Req : MadeFor(q) /\ BatchOf(q)
  BY DEF Documents, Batches, MadeOnce, StepFacts
<1>1. /\ pc[r] = "commit" /\ op[r] \in {"update", "deliver"} /\ UNCHANGED <<op, targets, todo>>
      /\ pc'[r] = "ok" /\ ~Delivering(r)'
      /\ (op[r] = "deliver" => Delivering(r))
  BY <1>0 DEF CommitOrder, Documents, DocTypes, Delivering
<1>2. todo[r] = {}
  BY <1>0, <1>1 DEF BatchOf, Documents, Arguments
<1>3. /\ lines'.work = lines.work
      /\ \A l \in Line :
           /\ lines'.now[l] = IF l \in H THEN lines.work[l] ELSE lines.now[l]
           /\ lines'.lock[l] = IF l \in H THEN Nobody ELSE lines.lock[l]
      /\ \A l \in H : l \in Line /\ lines.lock[l] = r
      /\ \A l \in Line : l \in H <=> lines.lock[l] = r
      /\ \A l \in Line : lines.now[l] \in LineRow
  <2>1. lines \in TableOf(Line, LineRow) /\ lines' = Commit(lines, r)
    BY <1>0 DEF CommitOrder, DocTypes
  <2>2. /\ lines'.work = lines.work
        /\ \A l \in Line :
             /\ lines'.now[l] = IF lines.lock[l] = r THEN lines.work[l] ELSE lines.now[l]
             /\ lines'.lock[l] = IF lines.lock[l] = r THEN Nobody ELSE lines.lock[l]
    BY <2>1, CommitFacts
  <2>3. \A l \in Line : lines.now[l] \in LineRow
    BY <2>1 DEF TableOf
  <2>4. \A l : l \in H <=> l \in Line /\ lines.lock[l] = r
    BY DEF HeldBy
  <2> HIDE DEF H
  <2> QED
    BY <2>2, <2>3, <2>4
<1>4. Whole(H)
  <2>1. BatchOf(r)
    BY <1>0
  <2>2. CASE op[r] = "update"
    BY <2>1, <2>2 DEF BatchOf
  <2>3. CASE op[r] = "deliver"
    <3>1. Delivering(r)
      BY <1>1, <2>3
    <3>2. H \cup {x.line : x \in todo[r]} = H
      BY <1>2
    <3>3. Whole(H \cup {x.line : x \in todo[r]})
      BY <2>1, <3>1 DEF BatchOf
    <3> QED
      BY <3>2, <3>3
  <2> QED
    BY <1>1, <2>2, <2>3
<1>5. /\ \A l \in H : op[r] = "update" =>
             IF l[3] = r THEN lines.work[l].qty > 0 /\ lines.work[l].delivered = 0
                         ELSE lines.work[l] = NoLine
      /\ \A l \in H : op[r] = "deliver" =>
             /\ lines.now[l] # NoLine
             /\ lines.work[l].qty = lines.now[l].qty
             /\ lines.work[l].delivered = lines.now[l].qty
  <2>1. BatchOf(r) /\ (op[r] = "deliver" => Delivering(r))
    BY <1>0, <1>1
  <2>2. ASSUME NEW l \in H, op[r] = "update"
        PROVE  IF l[3] = r THEN lines.work[l].qty > 0 /\ lines.work[l].delivered = 0
                           ELSE lines.work[l] = NoLine
    BY <2>1, <2>2 DEF BatchOf
  <2>3. ASSUME NEW l \in H, op[r] = "deliver"
        PROVE  /\ lines.now[l] # NoLine
               /\ lines.work[l] = [qty |-> lines.now[l].qty, delivered |-> lines.now[l].qty]
    BY <2>1, <2>3 DEF BatchOf
  <2>4. ASSUME NEW l \in H, op[r] = "deliver"
        PROVE  /\ lines.now[l] # NoLine /\ lines.work[l].qty = lines.now[l].qty
               /\ lines.work[l].delivered = lines.now[l].qty
    <3>1. lines.work[l] = [qty |-> lines.now[l].qty, delivered |-> lines.now[l].qty]
      BY <2>3, <2>4
    <3> QED
      BY <2>3, <2>4, <3>1
  <2> HIDE DEF H
  <2> QED
    BY <2>2, <2>4
<1> HIDE DEF H
<1>6. \A l \in Line : Made(l) => Made(l)'
  BY MadeStays
<1>7. \A l \in Line : l[3] = r => ~Made(l) /\ Made(l)'
  BY <1>1, NobodyAssumption DEF Made
<1>8. ASSUME NEW q \in Req PROVE MadeFor(q)' /\ BatchOf(q)'
  <2>1. targets[q] \in SUBSET Line /\ \A x \in todo[q] : x.line \in Line
    BY <1>0 DEF DocTypes
  <2>2. \A x \in todo[q] : lines'.now[x.line] # NoLine => lines'.now[x.line].qty = x.row.qty
    <3> SUFFICES ASSUME NEW x \in todo[q], lines'.now[x.line] # NoLine
                 PROVE  lines'.now[x.line].qty = x.row.qty
      OBVIOUS
    <3>1. /\ x.line \in Line /\ Made(x.line)
          /\ (lines.now[x.line] # NoLine => lines.now[x.line].qty = x.row.qty)
      BY <1>0, <2>1 DEF MadeFor
    <3>2. CASE x.line \notin H
      BY <1>3, <3>1, <3>2
    <3>3. CASE x.line \in H /\ op[r] = "update"
      BY <1>3, <1>5, <1>7, <3>1, <3>3
    <3>4. CASE x.line \in H /\ op[r] = "deliver"
      BY <1>3, <1>5, <3>1, <3>4
    <3> QED
      BY <1>1, <3>2, <3>3, <3>4
  <2>3. CASE q = r
    <3>1. \A l \in Line : lines'.lock[l] # r
      BY <1>3, NobodyAssumption
    <3> QED
      BY <1>0, <1>1, <1>6, <2>1, <2>2, <2>3, <3>1, Released
  <2>4. CASE q # r
    <3>1. /\ op'[q] = "update" => op[q] = "update"
          /\ (Delivering(q)' => Delivering(q))
          /\ pc'[q] = pc[q]
      BY <1>0, <1>1, <2>4, RestFacts DEF Delivering
    <3>2. \A l \in Line : /\ lines'.lock[l] = q <=> lines.lock[l] = q
                          /\ lines.lock[l] = q => /\ lines'.work[l] = lines.work[l]
                                                  /\ lines'.now[l] = lines.now[l]
      BY <1>3, <2>4, NobodyAssumption
    <3> QED
      BY <1>0, <1>1, <1>6, <2>1, <2>2, <3>1, <3>2, Bystander
  <2> QED
    BY <2>3, <2>4
<1>9. \A l \in Line : lines'.now[l] # NoLine => Made(l)'
  <2> SUFFICES ASSUME NEW l \in Line, lines'.now[l] # NoLine PROVE Made(l)'
    OBVIOUS
  <2>1. lines.now[l] # NoLine => Made(l)'
    BY <1>0, <1>6 DEF MadeOnce
  <2> QED
    BY <1>1, <1>3, <1>5, <1>7, <2>1
<1>10. Uniform'
  <2> SUFFICES ASSUME NEW l \in Line, lines'.now[l] # NoLine
               PROVE  /\ lines'.now[l].qty > 0
                      /\ lines'.now[l].delivered \in {0, lines'.now[l].qty}
                      /\ \A k \in Line : Together(l, k) =>
                           /\ lines'.now[k] # NoLine
                           /\ lines'.now[l].delivered > 0 => Remaining(lines'.now[k]) = 0
    BY DEF Uniform, Together, Remaining
  <2>0. \A k \in Line : Together(l, k) => (l \in H <=> k \in H)
    BY <1>3, <1>4 DEF Whole, Together
  <2>1. CASE l \notin H
    BY <1>0, <1>3, <2>0, <2>1 DEF Uniform
  <2>2. CASE l \in H /\ op[r] = "update"
    <3>1. l[3] = r
      BY <1>3, <1>5, <2>2
    <3>2. \A k \in Line : Together(l, k) =>
            lines'.now[k].qty > 0 /\ lines'.now[k].delivered = 0
      BY <1>3, <1>5, <2>0, <2>2, <3>1 DEF Together
    <3>3. \A k \in Line : lines'.now[k].qty > 0 => lines'.now[k] # NoLine
      BY DEF NoLine
    <3> QED
      BY <3>2, <3>3 DEF Together
  <2>3. CASE l \in H /\ op[r] = "deliver"
    <3>1. \A k \in Line : Together(l, k) =>
            /\ lines'.now[k].qty = lines.now[k].qty /\ lines'.now[k].delivered = lines.now[k].qty
            /\ lines.now[k].qty > 0 /\ lines.now[k].qty \in Nat
      <4>1. \A k \in H : lines.now[k] # NoLine
        BY <1>5, <2>3
      <4>2. \A k \in H : lines.now[k].qty > 0 /\ lines.now[k].qty \in Nat
        BY <1>0, <1>3, <4>1 DEF Uniform, LineRow
      <4> QED
        BY <1>3, <1>5, <2>0, <2>3, <4>2
    <3>2. \A k \in Line : Together(l, k) =>
            /\ lines'.now[k].qty > 0 /\ lines'.now[k].delivered = lines'.now[k].qty
            /\ lines'.now[k].qty \in Nat
      BY <3>1
    <3>3. \A k \in Line : lines'.now[k].qty > 0 => lines'.now[k] # NoLine
      BY DEF NoLine
    <3> QED
      BY <3>2, <3>3 DEF Together, Remaining
  <2> QED
    BY <1>1, <2>1, <2>2, <2>3
<1>11. MadeOnce'
  BY <1>8, <1>9 DEF MadeOnce
<1> QED
  BY <1>8, <1>10, <1>11 DEF Batches

LEMMA BatchesStep ==
  ASSUME P!BookTypes, Documents, Batches, NEW r \in Req, StepFacts(r)
  PROVE  Batches'
<1> DEFINE G == Batches'
<1>0. Shapes(r)
  BY DEF StepFacts
<1>1. \A x \in todo[r] : (DeliverLine(r, x) => G) /\ (MarkLine(r, x) => G)
  BY BatchesDeliver, BatchesMark
<1>2. \A o \in Order, w \in Warehouse, qty \in [Slot -> Ordered] : InsertOrder(r, o, w, qty) => G
  BY BatchesInsert
<1>3. \A qty \in [Slot -> Ordered] : ReplaceLines(r, qty) => G
  BY BatchesReplace
<1>4. \A o \in Order, h \in OrderOps : StartOrder(r, o, h) => G
  BY BatchesStart
<1>5. (\A w \in Warehouse : UpdateHeader(r, w) => G) /\ (SetStatus(r) => G) /\ (SetDelivered(r) => G)
  BY BatchesHeader
<1>6. (Quiet(r) => G) /\ (Dropped(r) => G) /\ (ReadOrder(r) => G) /\ (FindLines(r) => G)
      /\ (CommitOrder(r) => G)
  BY BatchesQuiet, BatchesDrop, BatchesRead, BatchesFind, BatchesCommit
<1> HIDE DEF G
<1>7. G
  BY <1>0, <1>1, <1>2, <1>3, <1>4, <1>5, <1>6, Cases
<1> QED
  BY <1>7 DEF G

-----------------------------------------------------------------------------
(* The stock's books, whichever handler moves goods.                       *)

\* What Inventory assumes of its constants.
LEMMA StockAssumptions ==
  /\ P!IsFiniteSet(Warehouse)
  /\ /\ Quantity \subseteq Nat \ {0}
     /\ UnitCost \subseteq Nat
     /\ Opening \in [P!Item -> [qty : Nat, cost : Nat]]
     /\ NoCost \notin Int
  /\ Nobody \notin Req
<1>1. P!IsFiniteSet(Warehouse)
  BY FiniteAssumption DEF IsFiniteSet, P!IsFiniteSet
<1> QED
  BY <1>1, StockFacts

\* A step that is not about the stock.
Aside(r) ==
  /\ UNCHANGED <<stock, moved, posted, found, dest>>
  /\ \A q \in Req \ {r} : pc'[q] = pc[q] /\ op'[q] = op[q] /\ mv'[q] = mv[q]
  /\ DOMAIN pc' = Req /\ DOMAIN op' = Req /\ DOMAIN mv' = Req
  /\ {pc[r], pc'[r]} \cap {"log", "unlogged"} = {}
  /\ pc[r] \in {"next", "mark"} => pc'[r] \in {"next", "find", "commit"}
  /\ op[r] # "transfer" /\ op'[r] # "transfer"
  /\ op'[r] = op[r] \/ pc[r] = "idle"
  /\ pc[r] \notin {"find", "upsert", "commit"} /\ pc'[r] \notin {"source", "upsert"}
  /\ pc'[r] # "mark"
  /\ IF pc'[r] = "find" THEN pc[r] = "next" /\ mv'[r] \in Inv!Movement ELSE mv' = mv

LEMMA TodoFacts ==
  ASSUME DocTypes, NEW r \in Req, NEW x \in todo[r]
  PROVE  /\ x.line \in Line /\ x.row \in LineRow /\ x.line[2] \in Slot
         /\ x.row.qty \in Int /\ x.row.delivered \in Int
         /\ Remaining(x.row) = x.row.qty - x.row.delivered /\ Remaining(x.row) \in Int
<1>1. x.line \in Line /\ x.row \in LineRow
  BY DEF DocTypes
<1> QED
  BY <1>1 DEF Line, LineRow, Remaining

LEMMA AsideFacts ==
  ASSUME P!Books, Documents, NEW r \in Req,
         \/ \E o \in Order, h \in {"update", "confirm", "deliver", "cancel"} : StartOrder(r, o, h)
         \/ \E q \in Quotation \cup {Nobody} : StartCreate(r, q)
         \/ \E q \in Quotation, h \in {"set status", "remove"} : StartQuotation(r, q, h)
         \/ ReadOrder(r) \/ RefuseOrder(r) \/ ConvertQuotation(r)
         \/ \E s \in Settable : WriteQuotation(r, s)
         \/ FindLines(r) \/ SetStatus(r) \/ SetDelivered(r)
         \/ \E w \in Warehouse : UpdateHeader(r, w)
         \/ \E x \in todo[r] : DeliverLine(r, x) \/ MarkLine(r, x)
         \/ \E qty \in [Slot -> Ordered] : ReplaceLines(r, qty)
         \/ \E o \in Order, w \in Warehouse, qty \in [Slot -> Ordered] : InsertOrder(r, o, w, qty)
  PROVE  Aside(r)
<1> USE DEF Aside, stockVars, rowVars
<1>0. /\ Stages /\ DocTypes /\ DOMAIN pc = Req /\ DOMAIN op = Req /\ DOMAIN mv = Req
      /\ P!BookTypes /\ \A q \in Req : op[q] \in Ops
  BY StockParts DEF P!Books, Documents, Stages
<1>1. CASE \/ \E o \in Order, h \in {"update", "confirm", "deliver", "cancel"} : StartOrder(r, o, h)
           \/ \E q \in Quotation \cup {Nobody} : StartCreate(r, q)
           \/ \E q \in Quotation, h \in {"set status", "remove"} : StartQuotation(r, q, h)
  <2>1. PICK l \in {"read", "insert", "quotation"}, h \in Ops \ {"transfer"} :
          /\ pc[r] = "idle" /\ pc' = [pc EXCEPT ![r] = l] /\ op' = [op EXCEPT ![r] = h]
          /\ UNCHANGED <<stock, moved, posted, mv, found, dest>>
    BY <1>1 DEF StartOrder, StartCreate, StartQuotation, Ops, OrderOps
  <2>2. op[r] # "transfer"
    BY <1>0, <2>1 DEF Stages
  <2> QED
    BY <1>0, <2>1, <2>2
<1>2. CASE ReadOrder(r)
  <2>1. op[r] \in OrderOps /\ pc[r] = "read"
    BY <1>0, <1>2 DEF ReadOrder, Stages
  <2>2. AfterRead[op[r]] \in {"find lines", "write", "next"}
    <3>1. /\ AfterRead["update"] = "find lines" /\ AfterRead["confirm"] = "write"
          /\ AfterRead["cancel"] = "write" /\ AfterRead["deliver"] = "next"
      BY DEF AfterRead
    <3> QED
      BY <2>1, <3>1 DEF OrderOps
  <2> QED
    BY <1>0, <1>2, <2>1, <2>2 DEF ReadOrder, OrderOps
<1>3. CASE \E x \in todo[r] : DeliverLine(r, x)
  <2>1. PICK x \in todo[r] : DeliverLine(r, x)
    BY <1>3
  <2> DEFINE m == [type |-> "SALE_OUT", item |-> <<from[r], ProductOf[x.line[2]]>>,
                   qty |-> Remaining(x.row), cost |-> NoCost]
  <2>2. /\ pc[r] = "next" /\ pc' = [pc EXCEPT ![r] = "find"] /\ mv' = [mv EXCEPT ![r] = m]
        /\ UNCHANGED <<stock, moved, posted, op, found, dest>>
    BY <2>1 DEF DeliverLine
  <2>3. op[r] = "deliver" /\ from[r] \in Warehouse
    BY <1>0, <2>2 DEF Documents, Arguments, Stages, Delivering
  <2>4. x.line[2] \in Slot /\ x.row.qty \in Int /\ x.row.delivered \in Int
    BY <1>0, <2>1, TodoFacts
  <2>5. m \in Inv!Movement
    <3>1. <<from[r], ProductOf[x.line[2]]>> \in Inv!Item /\ Remaining(x.row) \in Int
      <4>1. ProductOf[x.line[2]] \in Product
        BY <2>4, OrderAssumption
      <4>2. Remaining(x.row) \in Int
        BY <1>0, <2>1, TodoFacts
      <4> QED
        BY <2>3, <4>1, <4>2 DEF Inv!Item
    <3> QED
      BY <3>1 DEF Inv!Movement, Inv!MovementType
  <2> HIDE DEF m
  <2> QED
    BY <1>0, <2>2, <2>3, <2>5
<1>4. CASE \/ RefuseOrder(r) \/ ConvertQuotation(r) \/ FindLines(r) \/ SetStatus(r) \/ SetDelivered(r)
           \/ \E s \in Settable : WriteQuotation(r, s)
           \/ \E w \in Warehouse : UpdateHeader(r, w)
           \/ \E x \in todo[r] : MarkLine(r, x)
           \/ \E qty \in [Slot -> Ordered] : ReplaceLines(r, qty)
           \/ \E o \in Order, w \in Warehouse, qty \in [Slot -> Ordered] : InsertOrder(r, o, w, qty)
  <2>1. PICK k \in {"read", "convert", "find lines", "write", "next", "quotation", "header",
                    "mark", "delete", "insert"},
             l \in {"refused", "ok", "delete", "commit", "next", "header", "convert"} :
          /\ pc[r] = k /\ pc' = [pc EXCEPT ![r] = l]
          /\ k \in {"next", "mark"} => l \in {"next", "commit"}
          /\ UNCHANGED <<stock, moved, posted, op, mv, found, dest>>
    BY <1>4 DEF RefuseOrder, ConvertQuotation, FindLines, SetStatus, SetDelivered,
                WriteQuotation, UpdateHeader, MarkLine, ReplaceLines, InsertOrder
  <2>2. op[r] # "transfer"
    BY <1>0, <2>1 DEF Stages, OrderOps
  <2> QED
    BY <1>0, <2>1, <2>2
<1> QED
  BY <1>1, <1>2, <1>3, <1>4

LEMMA BooksAside ==
  ASSUME P!Books, NEW r \in Req, Aside(r), Stages, DocTypes
  PROVE  P!Books'
<1> USE DEF Aside
<1>1. /\ found' \in [Req -> P!StockRow] /\ DOMAIN dest' = Req
      /\ \A q \in Req \ {r} : dest'[q] = dest[q]
  BY DEF P!Books, P!BookTypes
<1>2. mv'[r] \in Inv!Movement <=> mv'[r] \in P!Movement
  BY StockFacts DEF P!Movement, Inv!Movement
<1>3. /\ pc[r] \notin {"log", "unlogged"} /\ pc'[r] \notin {"log", "unlogged"}
      /\ pc'[r] \in {"source", "find", "upsert"} => mv'[r] \in P!Movement
      /\ op'[r] = "transfer" /\ pc'[r] # "idle" => dest'[r] \in P!Item
      /\ pc[r] \in P!Holding /\ P!InTransaction(r) => pc'[r] \in P!Holding /\ P!InTransaction(r)'
  BY <1>2 DEF P!Holding, P!InTransaction, Stages, DocTypes, Label, Inv!Answered
<1> QED
  BY <1>1, <1>3, StockAssumptions, P!BooksAside

\* Whatever step a request takes, the stock's books stay in order.
LEMMA BooksKept ==
  ASSUME P!Books, Documents, NEW r \in Req, Start(r) \/ Step(r) \/ Abort(r)
  PROVE  P!Books'
<1> USE StockAssumptions
<1>0. Stages /\ DocTypes /\ DOMAIN mv = Req
  BY StockParts DEF Documents, P!Books
<1>1. CASE Aside(r)
  BY <1>0, <1>1, BooksAside
<1>2. CASE P!Start(r) \/ P!Step(r) \/ P!Abort(r)
  BY <1>2, P!BooksStep
<1>3. CASE DeliveryLogged(r)
  <2>1. P!LogMovement(r, "mark") /\ UNCHANGED <<op, mv, dest>> /\ op[r] = "deliver"
        /\ pc[r] = "log"
    BY <1>3, SameActions DEF DeliveryLogged, Inv!LogMovement
  <2>2. mv[r] \in P!Movement
    BY <2>1 DEF P!Books, P!BookTypes
  <2>3. P!InTransaction(r) /\ "mark" \in P!Holding \ {"log"}
    BY <2>1 DEF P!InTransaction, P!Holding
  <2> QED
    BY <1>0, <2>1, <2>2, <2>3, P!BooksLog
<1>4. CASE Throw(r) /\ pc[r] \in {"insert", "convert", "mark"}
  <2>1. P!DropStock(r) /\ pc' = [pc EXCEPT ![r] = "refused"] /\ UNCHANGED <<op, dest>>
    BY <1>4, SameActions DEF Throw
  <2>2. r \notin P!Cut
    BY <1>4 DEF P!Cut
  <2> QED
    BY <1>4, <2>1, <2>2, P!BooksDrop
<1>5. CASE CommitOrder(r)
  <2>1. P!KeepStock(r) /\ pc[r] = "commit" /\ pc' = [pc EXCEPT ![r] = "ok"] /\ UNCHANGED <<op, dest>>
    BY <1>5, SameActions DEF CommitOrder
  <2> QED
    BY <2>1, P!BooksKeep
<1>6. CASE Start(r)
  BY <1>1, <1>2, <1>6, AsideFacts, SameActions DEF Start
<1>7. CASE Abort(r)
  BY <1>2, <1>7, SameActions DEF Abort
<1>8. CASE Step(r)
  <2>1. CASE \/ ReadOrder(r) \/ RefuseOrder(r) \/ ConvertQuotation(r)
             \/ \E s \in Settable : WriteQuotation(r, s)
             \/ FindLines(r) \/ SetStatus(r) \/ SetDelivered(r)
             \/ \E w \in Warehouse : UpdateHeader(r, w)
             \/ \E x \in todo[r] : DeliverLine(r, x) \/ MarkLine(r, x)
             \/ \E qty \in [Slot -> Ordered] : ReplaceLines(r, qty)
             \/ \E o \in Order, w \in Warehouse, qty \in [Slot -> Ordered] : InsertOrder(r, o, w, qty)
    BY <1>1, <2>1, AsideFacts
  <2>2. CASE \/ NumberConflict(r) \/ InsertRefused(r) \/ ConvertRefused(r)
             \/ \E x \in todo[r] : LineGone(r, x)
    BY <1>4, <2>2 DEF NumberConflict, InsertRefused, ConvertRefused, LineGone
  <2>3. CASE \/ (Inv!FindStock(r) \/ Inv!UpsertStock(r)) /\ UNCHANGED <<op, dest>>
             \/ Inv!RefuseMovement(r) /\ UNCHANGED <<op, dest>>
             \/ Inv!AdjustLogged(r) \/ Inv!ReadSource(r)
             \/ Inv!TransferOutLogged(r) \/ Inv!TransferInLogged(r)
             \/ Inv!CommitTransfer(r)
    BY <1>2, <2>3, SameActions DEF P!Step
  <2> QED
    BY <1>3, <1>5, <1>8, <2>1, <2>2, <2>3 DEF Step
<1> QED
  BY <1>6, <1>7, <1>8

-----------------------------------------------------------------------------
(* Goods.                                                                  *)

\* There are finitely many lines.
LEMMA FiniteLines == IsFiniteSet(Line) /\ \A p : IsFiniteSet(LinesFor(p))
<1> DEFINE S == (Order \X Slot) \X Owner
           f == [x \in S |-> <<x[1][1], x[1][2], x[2]>>]
<1>1. IsFiniteSet(Owner)
  BY FiniteAssumption, FS_AddElement DEF Owner
<1>2. IsFiniteSet(Order \X Slot)
  BY FiniteAssumption, FS_Product
<1>3. IsFiniteSet(S)
  BY <1>1, <1>2, FS_Product
<1>4. f \in Surjection(S, Line)
  <2>1. f \in [S -> Line]
    BY DEF Line
  <2>2. ASSUME NEW l \in Line PROVE \E x \in S : f[x] = l
    <3>1. PICK o \in Order, s \in Slot, w \in Owner : l = <<o, s, w>>
      BY DEF Line
    <3>2. <<<<o, s>>, w>> \in S /\ f[<<<<o, s>>, w>>] = l
      BY <3>1
    <3> QED
      BY <3>2
  <2> QED
    BY <2>1, <2>2 DEF Surjection
<1>5. IsFiniteSet(Line)
  BY <1>3, <1>4, FS_Surjection DEF ExistsSurjection
<1>6. \A p : LinesFor(p) \in SUBSET Line
  BY DEF LinesFor
<1> QED
  BY <1>5, <1>6, FS_Subset

-----------------------------------------------------------------------------
(* The goods a step moves, and the rows it marks.                          *)

Entries == Inv!MovementType \X Inv!Item

Posting(r, x) == IF x = <<mv[r].type, mv[r].item>> THEN mv[r].qty ELSE 0

\* A step towards a movement that posts nothing yet.
Moves(r) ==
  /\ UNCHANGED <<lines, todo, moved, posted>>
  /\ pc[r] \notin {"next", "mark"} /\ pc'[r] \notin {"next", "mark"}
  /\ \/ pc[r] = "find" /\ pc'[r] = "upsert" /\ UNCHANGED <<mv, op>> /\ mv[r].qty \in Nat \ {0}
     \/ pc[r] = "upsert" /\ pc'[r] = "log" /\ UNCHANGED <<mv, op>>
     \/ pc'[r] \in {"find", "source"} /\ op'[r] \in {"adjust", "transfer"}

Logs(r) ==
  /\ UNCHANGED <<lines, todo, op>>
  /\ pc[r] = "log" /\ pc'[r] \in {"mark", "ok", "find", "commit"}
  /\ pc'[r] = "mark" <=> op[r] = "deliver"
  /\ op[r] = "deliver" => mv' = mv
  /\ mv[r] \in Inv!Movement
  /\ \A x \in Entries :
       /\ moved'[x].qty = moved[x].qty + (IF op[r] = "adjust" THEN Posting(r, x) ELSE 0)
       /\ posted'[r][x].qty = posted[r][x].qty + (IF op[r] = "adjust" THEN 0 ELSE Posting(r, x))

Drops(r) ==
  /\ lines' = Rollback(lines, r) /\ UNCHANGED <<todo, op, moved>>
  /\ posted'[r] = Inv!NoPosting
  /\ pc'[r] \in {"refused", "aborted", "unlogged"}

Keeps(r) ==
  /\ pc[r] = "commit" /\ pc'[r] = "ok"
  /\ posted'[r] = Inv!NoPosting
  /\ \A x \in Entries : moved'[x].qty = moved[x].qty + posted[r][x].qty
  /\ UNCHANGED <<todo, op, mv>>
  /\ CommitOrder(r) \/ (op[r] = "transfer" /\ UNCHANGED lines)

AsideStep(r) ==
  \/ \E o \in Order, h \in {"update", "confirm", "deliver", "cancel"} : StartOrder(r, o, h)
  \/ \E q \in Quotation \cup {Nobody} : StartCreate(r, q)
  \/ \E q \in Quotation, h \in {"set status", "remove"} : StartQuotation(r, q, h)
  \/ ReadOrder(r) \/ RefuseOrder(r) \/ ConvertQuotation(r)
  \/ \E s \in Settable : WriteQuotation(r, s)
  \/ FindLines(r) \/ SetStatus(r) \/ SetDelivered(r)
  \/ \E w \in Warehouse : UpdateHeader(r, w)
  \/ \E x \in todo[r] : DeliverLine(r, x) \/ MarkLine(r, x)
  \/ \E qty \in [Slot -> Ordered] : ReplaceLines(r, qty)
  \/ \E o \in Order, w \in Warehouse, qty \in [Slot -> Ordered] : InsertOrder(r, o, w, qty)

Motion(r) ==
  /\ \A q \in Req \ {r} : mv'[q] = mv[q] /\ posted'[q] = posted[q]
  /\ \/ AsideStep(r) /\ Aside(r)
     \/ Moves(r) \/ Logs(r) \/ Drops(r) \/ Keeps(r)

LEMMA LogMotion ==
  ASSUME P!BookTypes, NEW r \in Req, NEW l \in {"mark", "ok", "find", "commit"},
         Inv!LogMovement(r, l), UNCHANGED <<lines, todo, op>>,
         l = "mark" <=> op[r] = "deliver", op[r] = "deliver" => mv' = mv,
         \A q \in Req \ {r} : mv'[q] = mv[q]
  PROVE  Motion(r)
<1> USE StockAssumptions
<1>1. P!LogMovement(r, l) /\ pc[r] = "log" /\ pc' = [pc EXCEPT ![r] = l]
  BY SameActions DEF Inv!LogMovement
<1>2. Entries = P!MovementType \X P!Item
  BY StockFacts DEF Entries
<1>3. ASSUME NEW x \in Entries
      PROVE  /\ moved'[x].qty = moved[x].qty + (IF op[r] = "adjust" THEN Posting(r, x) ELSE 0)
             /\ posted'[r][x].qty = posted[r][x].qty + (IF op[r] = "adjust" THEN 0 ELSE Posting(r, x))
  <2> DEFINE n == IF x = <<mv[r].type, mv[r].item>> THEN mv[r].qty ELSE 0
  <2>1. /\ n \in Int
        /\ moved'[x].qty = moved[x].qty + (IF P!InTransaction(r) THEN 0 ELSE n)
        /\ posted'[r][x].qty = posted[r][x].qty + (IF P!InTransaction(r) THEN n ELSE 0)
    BY <1>1, <1>2, P!LoggedEntries
  <2> QED
    BY <2>1 DEF Posting, P!InTransaction
<1>4. /\ \A q \in Req \ {r} : posted'[q] = posted[q]
      /\ mv[r] \in Inv!Movement
  <2>1. mv[r] \in P!Movement
    BY <1>1 DEF P!BookTypes
  <2>2. P!Movement = Inv!Movement
    BY StockFacts DEF P!Movement, Inv!Movement
  <2>3. \A q \in Req \ {r} : posted'[q] = posted[q]
    BY StockParts DEF Inv!LogMovement
  <2> QED
    BY <2>1, <2>2, <2>3
<1>5. pc'[r] = l
  BY <1>1, StockParts
<1>6. Logs(r)
  BY <1>1, <1>3, <1>4, <1>5 DEF Logs
<1> QED
  BY <1>4, <1>6 DEF Motion

LEMMA DropMotion ==
  ASSUME P!BookTypes, NEW r \in Req, NEW l \in {"refused", "aborted", "unlogged"},
         Inv!DropStock(r), DropOrder(r), pc' = [pc EXCEPT ![r] = l], UNCHANGED op
  PROVE  Motion(r)
BY StockParts DEF Inv!DropStock, DropOrder, Motion, Drops

LEMMA KeepMotion ==
  ASSUME P!BookTypes, NEW r \in Req, Inv!KeepStock(r), pc[r] = "commit",
         pc' = [pc EXCEPT ![r] = "ok"], UNCHANGED <<op, todo>>,
         CommitOrder(r) \/ (op[r] = "transfer" /\ UNCHANGED lines)
  PROVE  Motion(r)
<1>1. /\ moved' = Inv!Merge(moved, posted[r]) /\ posted' = [posted EXCEPT ![r] = Inv!NoPosting]
      /\ UNCHANGED mv
  BY DEF Inv!KeepStock
<1>2. \A x \in Entries : moved'[x].qty = moved[x].qty + posted[r][x].qty
  BY <1>1 DEF Inv!Merge, Entries
<1> QED
  BY <1>1, <1>2, StockParts DEF Motion, Keeps

LEMMA MotionFacts ==
  ASSUME P!Books, Documents, NEW r \in Req, Start(r) \/ Step(r) \/ Abort(r)
  PROVE  Motion(r)
<1> USE DEF orderVars
<1>0. P!BookTypes /\ Stages /\ DOMAIN mv = Req /\ DOMAIN pc = Req /\ DOMAIN op = Req
  BY StockParts DEF P!Books, Documents
<1>1. CASE AsideStep(r)
  <2>1. Aside(r)
    BY <1>1, AsideFacts DEF AsideStep
  <2> QED
    BY <1>1, <2>1 DEF Motion, Aside
<1>2. CASE Inv!Start(r) /\ UNCHANGED orderVars
  <2>1. /\ \A q \in Req \ {r} : mv'[q] = mv[q]
        /\ pc[r] = "idle" /\ pc'[r] \in {"find", "source"} /\ op'[r] \in {"adjust", "transfer"}
        /\ UNCHANGED <<moved, posted>>
    BY <1>0, <1>2 DEF Inv!Start, Inv!StartAdjust, Inv!StartTransfer
  <2> QED
    BY <1>2, <2>1 DEF Motion, Moves
<1>3. CASE Inv!FindStock(r) /\ UNCHANGED <<op, dest, orderVars>>
  <2>1. /\ pc[r] = "find" /\ pc'[r] = "upsert" /\ UNCHANGED <<mv, moved, posted>>
        /\ ~(mv[r].qty <= 0)
    BY <1>0, <1>3 DEF Inv!FindStock, Inv!Refused
  <2>2. mv[r].qty \in Int
    BY <1>0, <2>1 DEF P!BookTypes, P!Movement
  <2> QED
    BY <1>3, <2>1, <2>2 DEF Motion, Moves
<1>4. CASE Inv!UpsertStock(r) /\ UNCHANGED <<op, dest, orderVars>>
  <2>1. /\ pc[r] = "upsert" /\ pc'[r] = "log" /\ UNCHANGED <<mv, moved, posted>>
    BY <1>0, <1>4 DEF Inv!UpsertStock
  <2> QED
    BY <1>4, <2>1 DEF Motion, Moves
<1>5. CASE Inv!ReadSource(r) /\ UNCHANGED orderVars
  <2>1. /\ pc[r] = "source" /\ pc'[r] = "find" /\ UNCHANGED <<op, moved, posted>>
        /\ \A q \in Req \ {r} : mv'[q] = mv[q]
    BY <1>0, <1>5 DEF Inv!ReadSource
  <2>2. op'[r] = "transfer"
    BY <1>0, <2>1 DEF Stages
  <2> QED
    BY <1>5, <2>1, <2>2 DEF Motion, Moves
<1>6. CASE DeliveryLogged(r)
  BY <1>0, <1>6, LogMotion DEF DeliveryLogged
<1>7. CASE Inv!AdjustLogged(r) /\ UNCHANGED orderVars
  BY <1>0, <1>7, LogMotion DEF Inv!AdjustLogged
<1>8. CASE (Inv!TransferOutLogged(r) \/ Inv!TransferInLogged(r)) /\ UNCHANGED orderVars
  BY <1>0, <1>8, LogMotion DEF Inv!TransferOutLogged, Inv!TransferInLogged
<1>9. CASE Inv!CommitTransfer(r) /\ UNCHANGED orderVars
  BY <1>0, <1>9, KeepMotion DEF Inv!CommitTransfer
<1>10. CASE CommitOrder(r)
  BY <1>0, <1>10, KeepMotion DEF CommitOrder
<1>11. CASE Throw(r)
  BY <1>0, <1>11, DropMotion DEF Throw
<1>12. CASE Inv!RefuseMovement(r) /\ DropOrder(r) /\ UNCHANGED <<op, dest>>
  BY <1>0, <1>12, DropMotion DEF Inv!RefuseMovement
<1>13. CASE Abort(r)
  BY <1>0, <1>13, DropMotion DEF Abort, Inv!Abort
<1>14. Step(r) => \/ AsideStep(r) \/ Throw(r) \/ CommitOrder(r) \/ DeliveryLogged(r)
                  \/ (Inv!FindStock(r) \/ Inv!UpsertStock(r)) /\ UNCHANGED <<op, dest, orderVars>>
                  \/ Inv!RefuseMovement(r) /\ DropOrder(r) /\ UNCHANGED <<op, dest>>
                  \/ /\ \/ Inv!AdjustLogged(r) \/ Inv!ReadSource(r)
                        \/ Inv!TransferOutLogged(r) \/ Inv!TransferInLogged(r)
                        \/ Inv!CommitTransfer(r)
                     /\ UNCHANGED orderVars
  BY DEF Step, AsideStep, NumberConflict, InsertRefused, ConvertRefused, LineGone
<1>15. Start(r) => AsideStep(r) \/ (Inv!Start(r) /\ UNCHANGED orderVars)
  BY DEF Start, AsideStep
<1> QED
  BY <1>1, <1>2, <1>3, <1>4, <1>5, <1>6, <1>7, <1>8, <1>9, <1>10, <1>11, <1>12, <1>13, <1>14, <1>15

\* Of the lines it has yet to mark, the transaction posts or has posted one, and
\* the movement is for that line.
CurrentOf(q, c, o, m, t, n) ==
  /\ o = "deliver" /\ c \in {"find", "upsert", "log", "mark"} =>
       /\ m.type = "SALE_OUT"
       /\ \A x, y \in t : Remaining(x.row) = 0 /\ Remaining(y.row) = 0 => x = y
       /\ \A x \in t : Remaining(x.row) = 0 =>
            m.qty = x.row.qty /\ m.item[2] = ProductOf[x.line[2]]
  /\ c = "next" => \A x \in t : Remaining(x.row) # 0
  /\ c \in {"upsert", "log", "mark"} => m.qty \in Nat \ {0}
  /\ \A x \in Entries : n[x].qty >= 0

LEMMA CurrentIs ==
  /\ Current <=> \A r \in Req : CurrentOf(r, pc[r], op[r], mv[r], todo[r], posted[r])
  /\ Current' <=> \A r \in Req : CurrentOf(r, pc'[r], op'[r], mv'[r], todo'[r], posted'[r])
BY DEF Current, CurrentOf, Entries

LEMMA NothingPosted == \A x \in Entries : Inv!NoPosting[x].qty = 0
BY DEF Entries, Inv!NoPosting

LEMMA CurrentStep ==
  ASSUME P!Books, Documents, Batches, Current, NEW r \in Req, StepFacts(r), Motion(r)
  PROVE  Current'
<1> DEFINE Old(q) == CurrentOf(q, pc[q], op[q], mv[q], todo[q], posted[q])
           G(q) == CurrentOf(q, pc'[q], op'[q], mv'[q], todo'[q], posted'[q])
<1>0. DocTypes /\ Stages /\ Shapes(r) /\ Old(r) /\ MadeFor(r)
  BY CurrentIs DEF Documents, StepFacts, Batches, MadeOnce
<1>1. ASSUME NEW q \in Req \ {r} PROVE G(q)
  <2>1. pc'[q] = pc[q] /\ op'[q] = op[q] /\ todo'[q] = todo[q]
    BY <1>0, RestFacts
  <2>2. mv'[q] = mv[q] /\ posted'[q] = posted[q] /\ Old(q)
    BY CurrentIs DEF Motion
  <2> QED
    BY <2>1, <2>2
<1>a. \A x \in Entries : posted[r][x].qty \in Int
  BY StockParts DEF P!Books, Inv!Ledger, Entries
<1>2. ASSUME Moves(r) PROVE G(r)
  <2>1. todo'[r] = todo[r] /\ posted'[r] = posted[r]
    BY <1>2 DEF Moves
  <2>2. CASE pc'[r] \in {"find", "source"} /\ op'[r] \in {"adjust", "transfer"}
    BY <1>0, <1>2, <2>1, <2>2 DEF Moves, CurrentOf
  <2>3. CASE ~(pc'[r] \in {"find", "source"} /\ op'[r] \in {"adjust", "transfer"})
    BY <1>0, <1>2, <2>1, <2>3 DEF Moves, CurrentOf
  <2> QED
    BY <2>2, <2>3
<1>3. ASSUME Logs(r) PROVE G(r)
  <2>1. /\ todo'[r] = todo[r] /\ op'[r] = op[r] /\ pc[r] = "log"
        /\ pc'[r] \in {"mark", "ok", "find", "commit"} /\ (pc'[r] = "mark" <=> op[r] = "deliver")
        /\ (op[r] = "deliver" => mv'[r] = mv[r])
    BY <1>3 DEF Logs
  <2>2. mv[r].qty \in Nat \ {0}
    BY <1>0, <2>1 DEF CurrentOf
  <2>3. \A x \in Entries : posted'[r][x].qty >= 0
    <3> SUFFICES ASSUME NEW x \in Entries PROVE posted'[r][x].qty >= 0
      OBVIOUS
    <3>1. /\ posted[r][x].qty >= 0 /\ posted[r][x].qty \in Int
          /\ Posting(r, x) \in Nat
      BY <1>0, <1>a, <2>2 DEF CurrentOf, Posting
    <3>2. posted'[r][x].qty = posted[r][x].qty + (IF op[r] = "adjust" THEN 0 ELSE Posting(r, x))
      BY <1>3 DEF Logs
    <3> QED
      BY <3>1, <3>2
  <2>4. CASE op[r] = "deliver"
    BY <1>0, <2>1, <2>2, <2>3, <2>4 DEF CurrentOf
  <2>5. CASE op[r] # "deliver"
    BY <2>1, <2>3, <2>5 DEF CurrentOf
  <2> QED
    BY <2>4, <2>5
<1>4. ASSUME Drops(r) \/ Keeps(r) PROVE G(r)
  <2>1. posted'[r] = Inv!NoPosting /\ pc'[r] \in {"refused", "aborted", "unlogged", "ok"}
    BY <1>4 DEF Drops, Keeps
  <2> QED
    BY <2>1, NothingPosted DEF CurrentOf
<1>5. ASSUME Aside(r) /\ AsideStep(r) PROVE G(r)
  <2>1. posted'[r] = posted[r] /\ pc'[r] \notin {"upsert", "log", "mark"}
    BY <1>5 DEF Aside
  <2>2. \A x \in Entries : posted'[r][x].qty >= 0
    BY <1>0, <2>1 DEF CurrentOf
  <2>3. CASE pc'[r] \notin {"find", "next"}
    BY <2>1, <2>2, <2>3 DEF CurrentOf
  <2>4. CASE \E x \in todo[r] : DeliverLine(r, x)
    <3>1. PICK x \in todo[r] : DeliverLine(r, x)
      BY <2>4
    <3> DEFINE y == [x EXCEPT !.row.delivered = x.row.qty]
               m == [type |-> "SALE_OUT", item |-> <<from[r], ProductOf[x.line[2]]>>,
                     qty |-> Remaining(x.row), cost |-> NoCost]
    <3>2. /\ pc[r] = "next" /\ pc'[r] = "find" /\ op'[r] = op[r] /\ mv'[r] = m
          /\ todo'[r] = (todo[r] \ {x}) \cup {y}
      BY <1>0, <3>1, StockParts DEF DeliverLine, DocTypes, P!Books
    <3>3. \A z \in todo[r] : Remaining(z.row) # 0
      BY <1>0, <3>2 DEF CurrentOf
    <3>4. /\ x \in [line : Line, row : LineRow] /\ x.row.delivered \in {0, x.row.qty}
          /\ x.row.qty \in Nat /\ x.row.delivered \in Nat
      BY <1>0 DEF DocTypes, LineRow, MadeFor
    <3>5. Remaining(x.row) = x.row.qty
      <4>1. Remaining(x.row) = x.row.qty - x.row.delivered /\ x.row.qty \in Int
        BY <1>0, TodoFacts
      <4>2. x.row.delivered = 0
        BY <3>3, <3>4, <4>1
      <4> QED
        BY <4>1, <4>2
    <3>6. y.line = x.line /\ y.row.qty = x.row.qty
      BY <3>4 DEF LineRow
    <3>7. /\ m.type = "SALE_OUT" /\ m.qty = x.row.qty
          /\ m.item[2] = ProductOf[x.line[2]]
      BY <3>5
    <3> HIDE DEF y, m
    <3>8. \A z \in todo'[r] : Remaining(z.row) = 0 => z = y
      BY <3>2, <3>3
    <3> QED
      BY <2>2, <3>2, <3>6, <3>7, <3>8 DEF CurrentOf
  <2>5. CASE ReadOrder(r) /\ pc'[r] = "next"
    <3> DEFINE open == {l \in LinesOf(doc[r]) : Remaining(lines.now[l]) > 0}
               T == IF op[r] = "deliver" THEN {[line |-> l, row |-> lines.now[l]] : l \in open} ELSE {}
    <3>1. todo'[r] = T
      BY <1>0, <2>5 DEF ReadOrder, DocTypes
    <3>2. \A x \in T : Remaining(x.row) # 0
      <4>1. \A l \in open : [line |-> l, row |-> lines.now[l]].row = lines.now[l]
        OBVIOUS
      <4>2. \A l \in LinesOf(doc[r]) : Remaining(lines.now[l]) \in Int
        <5> SUFFICES ASSUME NEW l \in LinesOf(doc[r]) PROVE Remaining(lines.now[l]) \in Int
          OBVIOUS
        <5>1. lines.now[l] \in LineRow
          BY <1>0 DEF LinesOf, DocTypes, TableOf
        <5> QED
          BY <5>1 DEF LineRow, Remaining
      <4>3. \A l \in open : Remaining(lines.now[l]) # 0
        BY <4>2
      <4> HIDE DEF open
      <4> QED
        BY <4>1, <4>3
    <3> HIDE DEF T
    <3> QED
      BY <2>2, <2>5, <3>1, <3>2 DEF CurrentOf
  <2>6. CASE \E x \in todo[r] : MarkLine(r, x)
    <3>1. PICK x \in todo[r] : MarkLine(r, x)
      BY <2>6
    <3>2. /\ pc[r] = "mark" /\ pc'[r] = "next" /\ todo'[r] = todo[r] \ {x}
          /\ Remaining(x.row) = 0 /\ op[r] = "deliver"
      BY <1>0, <3>1 DEF MarkLine, DocTypes, Stages
    <3>3. \A z \in todo[r] : Remaining(z.row) = 0 => z = x
      BY <1>0, <3>2 DEF CurrentOf
    <3> QED
      BY <2>2, <3>2, <3>3 DEF CurrentOf
  <2>7. pc'[r] \in {"find", "next"} =>
          \/ \E x \in todo[r] : DeliverLine(r, x)
          \/ \E x \in todo[r] : MarkLine(r, x)
          \/ ReadOrder(r)
    <3>1. pc \in [Req -> Label]
      BY <1>0 DEF DocTypes
    <3>2. ASSUME \/ \E o \in Order, h \in {"update", "confirm", "deliver", "cancel"} : StartOrder(r, o, h)
                 \/ \E q \in Quotation \cup {Nobody} : StartCreate(r, q)
                 \/ \E q \in Quotation, h \in {"set status", "remove"} : StartQuotation(r, q, h)
                 \/ RefuseOrder(r) \/ ConvertQuotation(r)
                 \/ \E s \in Settable : WriteQuotation(r, s)
                 \/ FindLines(r) \/ SetStatus(r) \/ SetDelivered(r)
                 \/ \E w \in Warehouse : UpdateHeader(r, w)
                 \/ \E qty \in [Slot -> Ordered] : ReplaceLines(r, qty)
                 \/ \E o \in Order, w \in Warehouse, qty \in [Slot -> Ordered] : InsertOrder(r, o, w, qty)
          PROVE  pc'[r] \notin {"find", "next"}
      BY <3>1, <3>2 DEF StartOrder, StartCreate, StartQuotation, RefuseOrder, ConvertQuotation,
           WriteQuotation, FindLines, SetStatus, SetDelivered, UpdateHeader, ReplaceLines, InsertOrder
    <3> QED
      BY <1>5, <3>2 DEF AsideStep
  <2>8. ReadOrder(r) => pc'[r] # "find"
    BY <1>5 DEF Aside, ReadOrder
  <2> HIDE DEF G
  <2> QED
    BY <2>3, <2>4, <2>5, <2>6, <2>7, <2>8
<1>6. G(r)
  BY <1>2, <1>3, <1>4, <1>5 DEF Motion
<1> QED
  BY <1>1, <1>6, CurrentIs

\* Sums of what a ledger says left by sale.
LEMMA SentFacts ==
  ASSUME NEW m \in Inv!Ledger, NEW n \in Inv!Ledger, NEW p \in Product
  PROVE  /\ Sent(m, p) \in Int
         /\ (\A x \in Entries : m[x].qty <= n[x].qty) => Sent(m, p) <= Sent(n, p)
         /\ \A k \in Inv!Ledger :
              (\A x \in Entries : k[x].qty = m[x].qty + n[x].qty)
                => Sent(k, p) = Sent(m, p) + Sent(n, p)
<1> DEFINE Q(k) == P!Quantities(k, "SALE_OUT", p)
<1>1. ASSUME NEW k \in Inv!Ledger, NEW w \in Warehouse
      PROVE  /\ <<"SALE_OUT", <<w, p>>>> \in Entries
             /\ Q(k)[w] = k[<<"SALE_OUT", <<w, p>>>>].qty /\ Q(k)[w] \in Int
  <2>1. <<"SALE_OUT", <<w, p>>>> \in Entries
    BY DEF Entries, Inv!MovementType, Inv!Item
  <2>2. k[<<"SALE_OUT", <<w, p>>>>].qty \in Int
    BY <2>1 DEF Inv!Ledger, Entries
  <2> QED
    BY <2>1, <2>2 DEF P!Quantities
<1> HIDE DEF Q
<1>2. \A k : Sent(k, p) = SumOf(Q(k), Warehouse)
  BY DEF Sent, Q
<1>3. IsFiniteSet(Warehouse)
  BY FiniteAssumption
<1>4. Sent(m, p) \in Int
  <2>1. \A w \in Warehouse : Q(m)[w] \in Int
    BY <1>1
  <2>2. SumOf(Q(m), Warehouse) \in Int
    BY <1>3, <2>1, SumFacts
  <2> QED
    BY <1>2, <2>2
<1>5. ASSUME \A x \in Entries : m[x].qty <= n[x].qty PROVE Sent(m, p) <= Sent(n, p)
  <2>1. \A w \in Warehouse : Q(m)[w] \in Int /\ Q(n)[w] \in Int /\ Q(m)[w] <= Q(n)[w]
    BY <1>1, <1>5
  <2> QED
    BY <1>2, <1>3, <2>1, SumAtMost
<1>6. ASSUME NEW k \in Inv!Ledger, \A x \in Entries : k[x].qty = m[x].qty + n[x].qty
      PROVE  Sent(k, p) = Sent(m, p) + Sent(n, p)
  <2>1. \A w \in Warehouse : Q(m)[w] \in Int /\ Q(n)[w] \in Int /\ Q(k)[w] = Q(m)[w] + Q(n)[w]
    BY <1>1, <1>6
  <2> QED
    BY <1>2, <1>3, <2>1, SumPlus
<1> QED
  BY <1>4, <1>5, <1>6

LEMMA SentNothing ==
  ASSUME NEW p \in Product
  PROVE  Inv!NoPosting \in Inv!Ledger /\ Sent(Inv!NoPosting, p) = 0
<1>1. Inv!NoPosting \in Inv!Ledger
  BY DEF Inv!NoPosting, Inv!Ledger
<1>2. \A x \in Entries : Inv!NoPosting[x].qty = Inv!NoPosting[x].qty + Inv!NoPosting[x].qty
  BY NothingPosted
<1>3. Sent(Inv!NoPosting, p) = Sent(Inv!NoPosting, p) + Sent(Inv!NoPosting, p)
  BY <1>1, <1>2, SentFacts
<1> QED
  BY <1>1, <1>3, SentFacts

\* A movement of q more of one type and item.
LEMMA SentPosted ==
  ASSUME NEW m \in Inv!Ledger, NEW n \in Inv!Ledger, NEW p \in Product,
         NEW t \in Inv!MovementType, NEW i \in Inv!Item, NEW q \in Int,
         \A x \in Entries : n[x].qty = m[x].qty + (IF x = <<t, i>> THEN q ELSE 0)
  PROVE  Sent(n, p) = Sent(m, p) + (IF t = "SALE_OUT" /\ i[2] = p THEN q ELSE 0)
<1> DEFINE f == P!Quantities(m, "SALE_OUT", p)
           g == P!Quantities(n, "SALE_OUT", p)
<1>0. PICK v \in Warehouse, o \in Product : i = <<v, o>>
  BY DEF Inv!Item
<1>1. ASSUME NEW w \in Warehouse
      PROVE  /\ f[w] \in Int /\ g[w] \in Int
             /\ g[w] = f[w] + (IF t = "SALE_OUT" /\ o = p /\ w = v THEN q ELSE 0)
  <2>1. <<"SALE_OUT", <<w, p>>>> \in Entries
    BY DEF Entries, Inv!MovementType, Inv!Item
  <2>2. m[<<"SALE_OUT", <<w, p>>>>].qty \in Int
    BY <2>1 DEF Inv!Ledger, Entries
  <2>3. <<"SALE_OUT", <<w, p>>>> = <<t, i>> <=> t = "SALE_OUT" /\ o = p /\ w = v
    BY <1>0
  <2> QED
    BY <2>1, <2>2, <2>3 DEF P!Quantities
<1> HIDE DEF f, g
<1>2. Sent(m, p) = SumOf(f, Warehouse) /\ Sent(n, p) = SumOf(g, Warehouse) /\ i[2] = o
      /\ Sent(m, p) \in Int
  BY <1>0, SentFacts DEF Sent, f, g
<1>3. CASE t = "SALE_OUT" /\ o = p
  <2>1. \A w \in Warehouse \ {v} : g[w] = f[w]
    BY <1>1
  <2>2. SumOf(g, Warehouse) = SumOf(f, Warehouse) + g[v] - f[v]
    BY <1>1, <2>1, FiniteAssumption, SumChange
  <2>3. g[v] = f[v] + q /\ f[v] \in Int
    BY <1>1, <1>3
  <2> QED
    BY <1>2, <1>3, <2>2, <2>3
<1>4. CASE ~(t = "SALE_OUT" /\ o = p)
  <2>1. \A w \in Warehouse : f[w] \in Int /\ g[w] = f[w]
    BY <1>1, <1>4
  <2>2. SumOf(g, Warehouse) = SumOf(f, Warehouse)
    BY <2>1, FiniteAssumption, SumSame
  <2> QED
    BY <1>2, <1>4, <2>2
<1> QED
  BY <1>3, <1>4

\* What a request has marked, row by row.
LEMMA GainFacts ==
  /\ DocTypes => \A q \in Req, l \in Line :
       Gain(q)[l] = (IF lines.lock[l] = q THEN lines.work[l].delivered ELSE 0) /\ Gain(q)[l] \in Nat
  /\ DocTypes => \A l \in Line : DeliveredRows[l] = lines.now[l].delivered /\ DeliveredRows[l] \in Nat
<1>1. ASSUME DocTypes, NEW l \in Line PROVE lines.now[l].delivered \in Nat /\ lines.work[l].delivered \in Nat
  <2>1. lines.now[l] \in LineRow /\ lines.work[l] \in LineRow
    BY <1>1 DEF DocTypes, TableOf
  <2> QED
    BY <2>1 DEF LineRow
<1> QED
  BY <1>1 DEF Gain, DeliveredRows

LEMMA GainFactsNext ==
  /\ DocTypes' => \A q \in Req, l \in Line :
       Gain(q)'[l] = (IF lines'.lock[l] = q THEN lines'.work[l].delivered ELSE 0) /\ Gain(q)'[l] \in Nat
  /\ DocTypes' => \A l \in Line : DeliveredRows'[l] = lines'.now[l].delivered /\ DeliveredRows'[l] \in Nat
<1>1. ASSUME DocTypes', NEW l \in Line PROVE lines'.now[l].delivered \in Nat /\ lines'.work[l].delivered \in Nat
  <2>1. lines'.now[l] \in LineRow /\ lines'.work[l] \in LineRow
    BY <1>1 DEF DocTypes, TableOf
  <2> QED
    BY <2>1 DEF LineRow
<1> QED
  BY <1>1 DEF Gain, DeliveredRows

\* A transaction that has marked no more and posted no less.
LEMMA AfootKept ==
  ASSUME DocTypes, DocTypes', NEW q \in Req, Afoot(q),
         posted[q] \in Inv!Ledger, posted'[q] \in Inv!Ledger,
         \A l \in Line : Gain(q)'[l] <= Gain(q)[l],
         \A p \in Product : /\ Owed(q, p) \in Int /\ Owed(q, p)' \in Int
                            /\ Owed(q, p)' - Owed(q, p)
                                 <= Sent(posted'[q], p) - Sent(posted[q], p)
  PROVE  Afoot(q)'
<1> SUFFICES ASSUME NEW p \in Product
             PROVE  SumOf(Gain(q)', LinesFor(p)) + Owed(q, p)' <= Sent(posted'[q], p)
  BY DEF Afoot, Marked, LinesFor, Sent
<1>1. LinesFor(p) \subseteq Line
  BY DEF LinesFor
<1>2. \A l \in LinesFor(p) : Gain(q)[l] \in Int /\ Gain(q)'[l] \in Int /\ Gain(q)'[l] <= Gain(q)[l]
  BY <1>1, GainFacts, GainFactsNext
<1> DEFINE f == Gain(q)'
           g == Gain(q)
           S == LinesFor(p)
<1> HIDE DEF f, g, S
<1>3. SumOf(f, S) <= SumOf(g, S)
  BY <1>2, FiniteLines, SumAtMost DEF f, g, S
<1>4. SumOf(f, S) \in Int /\ SumOf(g, S) \in Int
  BY <1>2, FiniteLines, SumFacts DEF f, g, S
<1>5. SumOf(g, S) + Owed(q, p) <= Sent(posted[q], p)
  BY DEF Afoot, Marked, g, S
<1>6. Sent(posted[q], p) \in Int /\ Sent(posted'[q], p) \in Int
  BY SentFacts
<1>7. SumOf(f, S) + Owed(q, p)' <= Sent(posted'[q], p)
  BY <1>3, <1>4, <1>5, <1>6
<1> QED
  BY <1>7 DEF f, S

LEMMA LedgersNext ==
  ASSUME P!BookTypes'
  PROVE  moved' \in Inv!Ledger /\ posted' \in [Req -> Inv!Ledger]
BY StockFacts DEF P!BookTypes

LEMMA OwedFacts ==
  /\ Current => \A q \in Req, p \in Product : Owed(q, p) \in Nat
  /\ Current' => \A q \in Req, p \in Product : Owed(q, p)' \in Nat
BY DEF Current, Owed

\* Only MarkLine marks a row, and only its commit lets the others see it.
LEMMA GainsKept ==
  ASSUME Documents, DocTypes', NEW r \in Req, Motion(r)
  PROVE  /\ \A q \in Req \ {r}, l \in Line : Gain(q)'[l] <= Gain(q)[l]
         /\ (~\E x \in todo[r] : MarkLine(r, x)) => \A l \in Line : Gain(r)'[l] <= Gain(r)[l]
         /\ ~CommitOrder(r) => \A l \in Line : DeliveredRows'[l] <= DeliveredRows[l]
<1> DEFINE G == /\ \A q \in Req \ {r}, l \in Line : Gain(q)'[l] <= Gain(q)[l]
                /\ (~\E x \in todo[r] : MarkLine(r, x)) =>
                      \A l \in Line : Gain(r)'[l] <= Gain(r)[l]
                /\ ~CommitOrder(r) => \A l \in Line : DeliveredRows'[l] <= DeliveredRows[l]
<1> USE NobodyAssumption
<1>0. DocTypes /\ lines \in TableOf(Line, LineRow)
  BY DEF Documents, DocTypes
<1>a. /\ \A q \in Req, l \in Line :
           /\ Gain(q)[l] = (IF lines.lock[l] = q THEN lines.work[l].delivered ELSE 0)
           /\ Gain(q)[l] \in Nat
           /\ Gain(q)'[l] = (IF lines'.lock[l] = q THEN lines'.work[l].delivered ELSE 0)
           /\ Gain(q)'[l] \in Nat
      /\ \A l \in Line : /\ DeliveredRows[l] = lines.now[l].delivered /\ DeliveredRows[l] \in Nat
                         /\ DeliveredRows'[l] = lines'.now[l].delivered /\ DeliveredRows'[l] \in Nat
  BY <1>0, GainFacts, GainFactsNext
<1>1. ASSUME lines' = lines PROVE G
  BY <1>1, <1>a
<1>2. ASSUME NEW o \in Order, NEW w \in Warehouse, NEW qty \in [Slot -> Ordered],
             InsertOrder(r, o, w, qty)
      PROVE  G
  <2>1. /\ lines'.lock = lines.lock
        /\ \A l \in Line :
              \/ lines'.now[l].delivered = 0 /\ lines'.work[l] = lines'.now[l]
              \/ lines'.now[l] = lines.now[l] /\ lines'.work[l] = lines.work[l]
    BY <1>0, <1>2, InsertFacts
  <2> QED
    BY <1>a, <2>1
<1>3. ASSUME NEW qty \in [Slot -> Ordered], ReplaceLines(r, qty) PROVE G
  <2>1. /\ lines'.now = lines.now
        /\ \A l \in Line :
             \/ lines'.lock[l] = r /\ lines'.work[l].delivered = 0
             \/ lines'.lock[l] = lines.lock[l] /\ lines'.work[l] = lines.work[l]
    BY <1>0, <1>3, ReplaceFacts DEF NoLine
  <2> QED
    BY <1>a, <2>1
<1>4. ASSUME NEW x \in todo[r], MarkLine(r, x) PROVE G
  <2>1. /\ lines'.now = lines.now
        /\ \A l \in Line :
             \/ lines'.lock[l] = r
             \/ lines'.lock[l] = lines.lock[l] /\ lines'.work[l] = lines.work[l]
    BY <1>0, <1>4, MarkFacts
  <2> QED
    BY <1>a, <1>4, <2>1
<1>5. ASSUME Drops(r) PROVE G
  <2>1. /\ lines'.now = lines.now
        /\ \A l \in Line :
             \/ lines'.lock[l] = Nobody
             \/ lines'.lock[l] = lines.lock[l] /\ lines'.work[l] = lines.work[l]
    BY <1>0, <1>5, RollbackFacts DEF Drops
  <2> QED
    BY <1>a, <2>1
<1>6. ASSUME CommitOrder(r) PROVE G
  <2>1. \A l \in Line :
          \/ lines'.lock[l] = Nobody
          \/ lines'.lock[l] = lines.lock[l] /\ lines'.work[l] = lines.work[l]
    BY <1>0, <1>6, CommitFacts DEF CommitOrder
  <2> QED
    BY <1>a, <1>6, <2>1
<1>7. AsideStep(r) => \/ lines' = lines
                      \/ \E o \in Order, w \in Warehouse, qty \in [Slot -> Ordered] :
                            InsertOrder(r, o, w, qty)
                      \/ \E qty \in [Slot -> Ordered] : ReplaceLines(r, qty)
                      \/ \E x \in todo[r] : MarkLine(r, x)
  BY DEF AsideStep, StartOrder, StartCreate, StartQuotation, ReadOrder, RefuseOrder, orderVars,
         ConvertQuotation, WriteQuotation, FindLines, SetStatus, SetDelivered, UpdateHeader, DeliverLine
<1> HIDE DEF G
<1>8. G
  BY <1>1, <1>2, <1>3, <1>4, <1>5, <1>6, <1>7 DEF Motion, Moves, Logs, Keeps
<1> QED
  BY <1>8 DEF G

\* A transaction that holds nothing has marked nothing.
LEMMA AfootEnded ==
  ASSUME DocTypes', NEW q \in Req, \A l \in Line : lines'.lock[l] # q, pc'[q] # "mark",
         posted'[q] = Inv!NoPosting
  PROVE  Afoot(q)'
<1> SUFFICES ASSUME NEW p \in Product
             PROVE  SumOf(Gain(q)', LinesFor(p)) + Owed(q, p)' <= Sent(posted'[q], p)
  BY DEF Afoot, Marked, LinesFor, Sent
<1> DEFINE f == Gain(q)'
           S == LinesFor(p)
<1>1. \A l \in S : f[l] = 0
  BY GainFactsNext DEF LinesFor
<1> HIDE DEF f, S
<1>2. SumOf(f, S) = 0
  BY <1>1, FiniteLines, SumZero DEF S
<1>3. Owed(q, p)' = 0 /\ Sent(posted'[q], p) = 0
  BY SentNothing DEF Owed
<1>4. SumOf(f, S) + Owed(q, p)' <= Sent(posted'[q], p)
  BY <1>2, <1>3
<1> QED
  BY <1>4 DEF f, S

\* MarkLine marks what the transaction has posted for the line.
LEMMA AfootMark ==
  ASSUME Documents, DocTypes', Current, Current', NEW r \in Req, Afoot(r), Aside(r),
         posted[r] \in Inv!Ledger, NEW x \in todo[r], MarkLine(r, x)
  PROVE  Afoot(r)'
<1> SUFFICES ASSUME NEW p \in Product
             PROVE  SumOf(Gain(r)', LinesFor(p)) + Owed(r, p)' <= Sent(posted'[r], p)
  BY DEF Afoot, Marked, LinesFor, Sent
<1> DEFINE f == Gain(r)
           g == Gain(r)'
           S == LinesFor(p)
           k == x.line
<1>0. DocTypes /\ Stages
  BY DEF Documents
<1>1. /\ pc[r] = "mark" /\ pc'[r] = "next" /\ op[r] = "deliver" /\ Remaining(x.row) = 0
      /\ posted'[r] = posted[r]
  BY <1>0 DEF MarkLine, DocTypes, Stages, Aside
<1>2. /\ mv[r].qty = x.row.qty /\ mv[r].item[2] = ProductOf[k[2]] /\ mv[r].qty \in Nat
  BY <1>1 DEF Current
<1>3. x.row.delivered = mv[r].qty
  <2>1. x.row.qty \in Int /\ x.row.delivered \in Int /\ x.row.qty - x.row.delivered = 0
    BY <1>0, <1>1, TodoFacts
  <2> QED
    BY <1>2, <2>1
<1>4. /\ k \in Line /\ lines'.lock[k] = r /\ lines'.work[k].delivered = x.row.delivered
      /\ \A l \in Line \ {k} : lines'.lock[l] = lines.lock[l] /\ lines'.work[l] = lines.work[l]
  <2>1. x.line \in Line
    BY <1>0, TodoFacts
  <2>2. /\ lines'.lock[x.line] = r
        /\ lines'.work[x.line] = [qty |-> Seen(lines, r)[x.line].qty, delivered |-> x.row.delivered]
        /\ \A l \in Line \ {x.line} : lines'.lock[l] = lines.lock[l] /\ lines'.work[l] = lines.work[l]
    BY <1>0, MarkFacts
  <2> QED
    BY <2>1, <2>2
<1>5. /\ \A l \in Line : f[l] \in Nat /\ g[l] \in Nat
      /\ \A l \in Line \ {k} : g[l] = f[l]
      /\ g[k] = mv[r].qty
  BY <1>0, <1>3, <1>4, GainFacts, GainFactsNext
<1>6. \A l : l \in S <=> l \in Line /\ ProductOf[l[2]] = p
  BY DEF LinesFor
<1>7. /\ SumOf(f, S) + Owed(r, p) <= Sent(posted[r], p)
      /\ Owed(r, p) = IF ProductOf[k[2]] = p THEN mv[r].qty ELSE 0
      /\ Owed(r, p)' = 0
  BY <1>1, <1>2 DEF Afoot, Marked, Owed
<1>8. Sent(posted[r], p) \in Int
  BY SentFacts
<1> HIDE DEF f, g, S, k
<1>9. SumOf(f, S) \in Int /\ SumOf(g, S) \in Int
  <2>1. \A l \in S : f[l] \in Int /\ g[l] \in Int
    BY <1>5, <1>6
  <2> QED
    BY <2>1, FiniteLines, SumFacts DEF S
<1>10. CASE k \in S
  <2>1. /\ \A l \in S : f[l] \in Int /\ g[l] \in Int
        /\ \A l \in S \ {k} : g[l] = f[l]
    BY <1>5, <1>6
  <2>2. SumOf(g, S) = SumOf(f, S) + g[k] - f[k]
    BY <1>10, <2>1, FiniteLines, SumChange DEF S
  <2>3. f[k] \in Nat /\ Owed(r, p) = mv[r].qty
    BY <1>5, <1>6, <1>7, <1>10
  <2>4. SumOf(g, S) + Owed(r, p)' <= Sent(posted'[r], p)
    BY <1>1, <1>2, <1>5, <1>7, <1>8, <1>9, <2>2, <2>3
  <2> QED
    BY <2>4 DEF g, S
<1>11. CASE k \notin S
  <2>1. \A l \in S : f[l] \in Int /\ g[l] = f[l]
    BY <1>5, <1>6, <1>11
  <2>2. SumOf(g, S) = SumOf(f, S)
    BY <2>1, FiniteLines, SumSame DEF S
  <2>3. Owed(r, p) = 0
    BY <1>4, <1>6, <1>7, <1>11
  <2>4. SumOf(g, S) + Owed(r, p)' <= Sent(posted'[r], p)
    BY <1>1, <1>7, <1>8, <1>9, <2>2, <2>3
  <2> QED
    BY <2>4 DEF g, S
<1> QED
  BY <1>10, <1>11

\* What is posted before it is marked.
LEMMA AfootLog ==
  ASSUME Documents, DocTypes', Current, Current', NEW r \in Req, Afoot(r), Logs(r),
         posted[r] \in Inv!Ledger, posted'[r] \in Inv!Ledger
  PROVE  Afoot(r)'
<1>0. DocTypes
  BY DEF Documents
<1>1. /\ lines' = lines /\ op' = op /\ pc[r] = "log" /\ (pc'[r] = "mark" <=> op[r] = "deliver")
      /\ (op[r] = "deliver" => mv' = mv) /\ mv[r] \in Inv!Movement
  BY DEF Logs
<1>2. PICK t \in Inv!MovementType, i \in Inv!Item, n \in Nat :
        mv[r].type = t /\ mv[r].item = i /\ mv[r].qty = n
  <2>1. mv[r].qty \in Nat
    BY <1>1 DEF Current
  <2> QED
    BY <1>1, <2>1 DEF Inv!Movement
<1>3. ASSUME NEW p \in Product
      PROVE  /\ Owed(r, p) \in Int /\ Owed(r, p)' \in Int
             /\ Owed(r, p)' - Owed(r, p) <= Sent(posted'[r], p) - Sent(posted[r], p)
  <2>1. Owed(r, p) = 0 /\ Owed(r, p)' = IF op[r] = "deliver" /\ i[2] = p THEN n ELSE 0
    BY <1>1, <1>2 DEF Owed
  <2>2. Sent(posted[r], p) \in Int /\ Sent(posted'[r], p) \in Int
    BY SentFacts
  <2>3. CASE op[r] = "adjust"
    <3>1. \A x \in Entries : posted[r][x].qty <= posted'[r][x].qty
      <4>1. \A x \in Entries : posted[r][x].qty \in Int
        BY DEF Inv!Ledger, Entries
      <4>2. \A x \in Entries : posted'[r][x].qty = posted[r][x].qty + 0
        BY <2>3 DEF Logs
      <4> QED
        BY <4>1, <4>2
    <3>2. Sent(posted[r], p) <= Sent(posted'[r], p)
      BY <3>1, SentFacts
    <3> QED
      BY <2>1, <2>2, <2>3, <3>2
  <2>4. CASE op[r] # "adjust"
    <3>1. \A x \in Entries :
            posted'[r][x].qty = posted[r][x].qty + (IF x = <<t, i>> THEN n ELSE 0)
      BY <1>2, <2>4 DEF Logs, Posting
    <3>2. Sent(posted'[r], p) = Sent(posted[r], p) + (IF t = "SALE_OUT" /\ i[2] = p THEN n ELSE 0)
      BY <3>1, SentPosted
    <3>3. op[r] = "deliver" => t = "SALE_OUT"
      BY <1>1, <1>2 DEF Current
    <3> QED
      BY <2>1, <2>2, <3>2, <3>3
  <2> QED
    BY <2>3, <2>4
<1>4. \A l \in Line : Gain(r)'[l] <= Gain(r)[l]
  BY <1>0, <1>1, GainFacts, GainFactsNext
<1> QED
  BY <1>0, <1>3, <1>4, AfootKept

LEMMA AfootStep ==
  ASSUME P!Books, P!Books', Documents, DocTypes', Current, Current', Goods,
         NEW r \in Req, StepFacts(r), Motion(r)
  PROVE  \A q \in Req : Afoot(q)'
<1> USE NobodyAssumption
<1>0. /\ DocTypes /\ lines \in TableOf(Line, LineRow) /\ \A q \in Req : Afoot(q)
      /\ \A q \in Req : posted[q] \in Inv!Ledger /\ posted'[q] \in Inv!Ledger
      /\ \A q \in Req, p \in Product : Owed(q, p) \in Nat /\ Owed(q, p)' \in Nat
      /\ Shapes(r)
  BY StockParts, LedgersNext, OwedFacts DEF P!Books, Documents, DocTypes, Goods, StepFacts
<1>1. ASSUME NEW q \in Req \ {r} PROVE Afoot(q)'
  <2>1. pc'[q] = pc[q] /\ mv'[q] = mv[q] /\ posted'[q] = posted[q]
    BY <1>0, RestFacts DEF Motion
  <2>2. \A p \in Product : Owed(q, p)' = Owed(q, p)
    BY <2>1 DEF Owed
  <2>3. \A l \in Line : Gain(q)'[l] <= Gain(q)[l]
    BY GainsKept
  <2>4. \A p \in Product : Sent(posted'[q], p) = Sent(posted[q], p) /\ Sent(posted[q], p) \in Int
    BY <1>0, <2>1, SentFacts
  <2>5. \A p \in Product : Owed(q, p)' - Owed(q, p) <= Sent(posted'[q], p) - Sent(posted[q], p)
    BY <1>0, <2>2, <2>4
  <2> QED
    BY <1>0, <2>3, <2>5, AfootKept
<1>2. ASSUME posted'[r] = posted[r], pc'[r] # "mark", ~\E x \in todo[r] : MarkLine(r, x)
      PROVE  Afoot(r)'
  <2>1. \A l \in Line : Gain(r)'[l] <= Gain(r)[l]
    BY <1>2, GainsKept
  <2>2. \A p \in Product : Owed(r, p)' = 0
    BY <1>2 DEF Owed
  <2>3. \A p \in Product : Sent(posted'[r], p) = Sent(posted[r], p) /\ Sent(posted[r], p) \in Int
    BY <1>0, <1>2, SentFacts
  <2>4. \A p \in Product : Owed(r, p)' - Owed(r, p) <= Sent(posted'[r], p) - Sent(posted[r], p)
    BY <1>0, <2>2, <2>3
  <2> QED
    BY <1>0, <2>1, <2>4, AfootKept
<1>3. CASE Moves(r)
  <2>1. ~\E x \in todo[r] : MarkLine(r, x)
    BY <1>3 DEF Moves, MarkLine
  <2> QED
    BY <1>1, <1>2, <1>3, <2>1 DEF Moves
<1>4. CASE Logs(r)
  BY <1>0, <1>1, <1>4, AfootLog
<1>5. CASE Aside(r)
  <2>1. posted'[r] = posted[r] /\ pc'[r] # "mark"
    BY <1>5 DEF Aside
  <2> QED
    BY <1>0, <1>1, <1>2, <1>5, <2>1, AfootMark
<1>6. CASE Drops(r)
  <2>1. \A l \in Line : lines'.lock[l] # r
    BY <1>0, <1>6, RollbackFacts DEF Drops
  <2> QED
    BY <1>1, <1>6, <2>1, AfootEnded DEF Drops
<1>7. CASE Keeps(r)
  <2>1. \A l \in Line : lines'.lock[l] # r
    <3>1. CASE CommitOrder(r)
      BY <1>0, <3>1, CommitFacts DEF CommitOrder
    <3>2. CASE op[r] = "transfer" /\ UNCHANGED lines
      BY <3>2, HeldFacts DEF Delivering, HeldBy
    <3> QED
      BY <1>7, <3>1, <3>2 DEF Keeps
  <2> QED
    BY <1>1, <1>7, <2>1, AfootEnded DEF Keeps
<1> QED
  BY <1>3, <1>4, <1>5, <1>6, <1>7 DEF Motion

LEMMA GoodsStep ==
  ASSUME P!Books, P!Books', Documents, DocTypes', Current, Current', Goods,
         NEW r \in Req, StepFacts(r), Motion(r)
  PROVE  Goods'
<1> SUFFICES ASSUME NEW p \in Product
             PROVE  SumOf(DeliveredRows', LinesFor(p)) <= Sent(moved', p)
  BY AfootStep DEF Goods, LinesFor, Sent
<1> DEFINE f == DeliveredRows
           g == DeliveredRows'
           S == LinesFor(p)
<1>0. /\ DocTypes /\ moved \in Inv!Ledger /\ moved' \in Inv!Ledger /\ posted[r] \in Inv!Ledger
      /\ \A x \in Entries : posted[r][x].qty >= 0
      /\ lines \in TableOf(Line, LineRow)
  BY StockParts, LedgersNext DEF P!Books, Documents, DocTypes, Current, Entries
<1>1. SumOf(f, S) <= Sent(moved, p)
  BY DEF Goods
<1>2. /\ \A l \in S : l \in Line
      /\ \A l \in S : f[l] \in Int /\ g[l] \in Int
      /\ IsFiniteSet(S)
  <2>1. S \subseteq Line
    BY DEF LinesFor
  <2>2. \A l \in Line : f[l] \in Nat
    BY <1>0, GainFacts
  <2>3. \A l \in Line : g[l] \in Nat
    BY GainFactsNext
  <2>4. IsFiniteSet(S)
    BY FiniteLines
  <2> HIDE DEF f, g, S
  <2> QED
    BY <2>1, <2>2, <2>3, <2>4
<1> HIDE DEF f, g, S
<1>3. SumOf(f, S) \in Int /\ SumOf(g, S) \in Int
  BY <1>2, SumFacts
<1>4. Sent(moved, p) \in Int /\ Sent(moved', p) \in Int /\ Sent(posted[r], p) \in Int
  BY <1>0, SentFacts
<1>5. ASSUME ~CommitOrder(r) PROVE SumOf(g, S) <= Sent(moved', p)
  <2>1. SumOf(g, S) <= SumOf(f, S)
    <3>1. \A l \in S : g[l] <= f[l]
      BY <1>2, <1>5, GainsKept DEF f, g
    <3> QED
      BY <1>2, <3>1, SumAtMost
  <2>2. \A x \in Entries : moved[x].qty <= moved'[x].qty
    <3> SUFFICES ASSUME NEW x \in Entries PROVE moved[x].qty <= moved'[x].qty
      OBVIOUS
    <3>1. moved[x].qty \in Int /\ posted[r][x].qty \in Int /\ posted[r][x].qty >= 0
      BY <1>0 DEF Inv!Ledger, Entries
    <3>2. CASE moved' = moved
      BY <3>1, <3>2
    <3>3. CASE Logs(r)
      <4>1. mv[r].qty \in Nat
        BY <3>3 DEF Logs, Current
      <4>2. moved'[x].qty = moved[x].qty + (IF op[r] = "adjust" THEN Posting(r, x) ELSE 0)
        BY <3>3 DEF Logs
      <4> QED
        BY <3>1, <4>1, <4>2 DEF Posting
    <3>4. CASE Keeps(r)
      <4>1. moved'[x].qty = moved[x].qty + posted[r][x].qty
        BY <3>4 DEF Keeps
      <4> QED
        BY <3>1, <4>1
    <3> QED
      BY <3>2, <3>3, <3>4 DEF Motion, Aside, Moves, Drops
  <2>3. Sent(moved, p) <= Sent(moved', p)
    BY <1>0, <2>2, SentFacts
  <2> QED
    BY <1>1, <1>3, <1>4, <2>1, <2>3
<1>6. ASSUME CommitOrder(r) PROVE SumOf(g, S) <= Sent(moved', p)
  <2> DEFINE h == Gain(r)
             k == [l \in S |-> f[l] + h[l]]
  <2>1. \A l \in Line : lines'.now[l] = IF lines.lock[l] = r THEN lines.work[l] ELSE lines.now[l]
    BY <1>0, <1>6, CommitFacts DEF CommitOrder
  <2>2. \A l \in S : /\ h[l] \in Int /\ k[l] = f[l] + h[l]
                     /\ g[l] <= k[l] /\ k[l] \in Int
    BY <1>0, <1>2, <2>1, GainFacts, GainFactsNext DEF f, g
  <2> HIDE DEF h, k
  <2>3. SumOf(k, S) = SumOf(f, S) + SumOf(h, S)
    BY <1>2, <2>2, SumPlus
  <2>4. SumOf(g, S) <= SumOf(k, S)
    BY <1>2, <2>2, SumAtMost
  <2>5. SumOf(k, S) \in Int /\ SumOf(h, S) \in Int
    BY <1>2, <2>2, SumFacts
  <2>6. SumOf(h, S) + Owed(r, p) <= Sent(posted[r], p) /\ Owed(r, p) \in Nat
    BY OwedFacts DEF Goods, Afoot, Marked, h, S
  <2>7. Sent(moved', p) = Sent(moved, p) + Sent(posted[r], p)
    <3>1. Keeps(r)
      BY <1>6 DEF CommitOrder, Motion, Moves, Logs, Drops, Aside, Keeps
    <3>2. \A x \in Entries : moved'[x].qty = moved[x].qty + posted[r][x].qty
      BY <3>1 DEF Keeps
    <3> QED
      BY <1>0, <3>2, SentFacts
  <2> QED
    BY <1>1, <1>3, <1>4, <2>3, <2>4, <2>5, <2>6, <2>7
<1>7. SumOf(g, S) <= Sent(moved', p)
  BY <1>5, <1>6
<1> QED
  BY <1>7 DEF g, S

-----------------------------------------------------------------------------
(* The invariant.                                                          *)

LEMMA OrdersInit == Init => OrdersInv
<1> SUFFICES ASSUME Init PROVE OrdersInv
  OBVIOUS
<1> USE NobodyAssumption
<1>0. /\ stock = NewTable(Opening) /\ moved = Inv!NoPosting /\ mv = [r \in Req |-> <<>>]
      /\ posted = [r \in Req |-> Inv!NoPosting] /\ dest = [r \in Req |-> <<>>]
      /\ pc = [r \in Req |-> "idle"] /\ op = [r \in Req |-> "none"]
      /\ found = [r \in Req |-> Inv!NoRow]
      /\ doc = [r \in Req |-> Nobody] /\ quote = [r \in Req |-> Nobody]
      /\ from = [r \in Req |-> Nobody] /\ number = [r \in Req |-> 0]
      /\ targets = [r \in Req |-> {}] /\ todo = [r \in Req |-> {}]
      /\ orders = NewTable(InitialOrders) /\ quotations = [q \in Quotation |-> "DRAFT"]
      /\ numbers = [NewSeries EXCEPT !.rows =
                  Quantify(Order, LAMBDA o : InitialOrders[o].status # Absent)]
  BY DEF Init, Inv!Init, NewTable, Inv!NewTable
<1>1. P!Books
  <2>1. /\ stock = P!NewTable(Opening) /\ moved = P!NoPosting
        /\ posted = [r \in Req |-> P!NoPosting] /\ found = [r \in Req |-> P!NoRow]
    BY <1>0, StockFacts DEF NewTable, P!NewTable
  <2> QED
    BY <1>0, <2>1, StockAssumptions, P!BooksInit
<1>2. PICK qty \in [Slot -> Ordered] :
        lines = NewTable([l \in Line |->
                 IF InitialOrders[l[1]].status # Absent /\ l[3] = Nobody
                   THEN [qty |-> qty[l[2]], delivered |-> 0] ELSE NoLine])
  BY DEF Init
<1> DEFINE rows == [l \in Line |-> IF InitialOrders[l[1]].status # Absent /\ l[3] = Nobody
                                     THEN [qty |-> qty[l[2]], delivered |-> 0] ELSE NoLine]
<1>3. \A l \in Line : /\ l = <<l[1], l[2], l[3]>> /\ l[1] \in Order /\ l[2] \in Slot /\ l[3] \in Owner
                      /\ qty[l[2]] \in Nat \ {0}
  <2>1. \A l \in Line : l[1] \in Order /\ l[2] \in Slot /\ l[3] \in Owner /\ l = <<l[1], l[2], l[3]>>
    BY DEF Line
  <2>2. \A s \in Slot : qty[s] \in Nat \ {0}
    BY OrderAssumption
  <2> QED
    BY <2>1, <2>2
<1>4. /\ rows \in [Line -> LineRow]
      /\ \A l \in Line : rows[l].delivered = 0
      /\ \A l \in Line : rows[l] # NoLine =>
           /\ rows[l].qty > 0 /\ InitialOrders[l[1]].status # Absent /\ l[3] = Nobody
      /\ \A l \in Line : InitialOrders[l[1]].status # Absent /\ l[3] = Nobody => rows[l] # NoLine
  BY <1>3 DEF LineRow, NoLine
<1> HIDE DEF rows
<1>5. /\ lines \in TableOf(Line, LineRow) /\ lines.now = rows /\ lines.work = rows
      /\ \A l \in Line : lines.lock[l] = Nobody
  <2>1. lines = NewTable(rows)
    BY <1>2 DEF rows
  <2> QED
    <3>1. rows \in [Line -> LineRow]
      BY <1>4
    <3> QED
      BY <2>1, <3>1, NewTableFacts
<1>6. /\ orders \in TableOf(Order, OrderRow) /\ orders.now = InitialOrders
      /\ orders.work = InitialOrders /\ \A o \in Order : orders.lock[o] = Nobody
  <2>1. InitialOrders \in [Order -> OrderRow] /\ orders = NewTable(InitialOrders)
    BY <1>0, InitialAssumption
  <2> QED
    BY <2>1, NewTableFacts
<1>7. numbers \in Series
  <2> DEFINE S == {o \in Order : InitialOrders[o].status # Absent}
  <2>1. IsFiniteSet(S)
    BY FiniteAssumption, FS_Subset
  <2>2. Cardinality(S) \in Nat
    BY <2>1, FS_CardinalityType
  <2>3. numbers = [NewSeries EXCEPT !.rows = Cardinality(S)]
    BY <1>0 DEF Quantify
  <2> HIDE DEF S
  <2> QED
    BY <2>2, <2>3 DEF NewSeries, Series, Owner
<1>8. Documents
  <2>1. DocTypes
    BY <1>0, <1>5, <1>6, <1>7 DEF DocTypes, Label, QuotationStatus
  <2>2. Stages /\ Arguments /\ OrderHolders /\ LineHolders /\ Existing
    BY <1>0, <1>3, <1>5, <1>6 DEF Stages, Ops, OrderOps, Arguments, Delivering, OrderHolders,
       LineHolders, Existing
  <2> QED
    BY <2>1, <2>2 DEF Documents
<1>9. Confirmations
  BY <1>0, <1>4, <1>5, <1>6 DEF Confirmations, Confirmed, Delivering
<1>10. Batches
  <2>1. MadeOnce
    BY <1>0, <1>4, <1>5, <1>6 DEF MadeOnce, MadeFor, Made
  <2>2. Uniform
    <3> SUFFICES ASSUME NEW l \in Line, rows[l] # NoLine
                 PROVE  /\ rows[l].qty > 0 /\ rows[l].delivered \in {0, rows[l].qty}
                        /\ \A k \in Line : Together(l, k) =>
                             /\ rows[k] # NoLine
                             /\ rows[l].delivered > 0 => Remaining(rows[k]) = 0
      BY <1>5 DEF Uniform
    <3> QED
      BY <1>4 DEF Together
  <2>3. \A r \in Req : BatchOf(r)
    BY <1>0, <1>5 DEF BatchOf, Whole, HeldBy, Delivering
  <2> QED
    BY <2>1, <2>2, <2>3 DEF Batches
<1>11. Current
  BY <1>0, NothingPosted DEF Current, Entries
<1>12. Goods
  <2>1. ASSUME NEW p \in Product PROVE SumOf(DeliveredRows, LinesFor(p)) <= Sent(moved, p)
    <3> DEFINE f == DeliveredRows
               S == LinesFor(p)
    <3>1. \A l \in S : f[l] = 0
      BY <1>4, <1>5 DEF DeliveredRows, LinesFor
    <3> HIDE DEF f, S
    <3>2. SumOf(f, S) = 0
      BY <3>1, FiniteLines, SumZero DEF S
    <3>3. Sent(moved, p) = 0
      BY <1>0, SentNothing
    <3>4. SumOf(f, S) <= Sent(moved, p)
      BY <3>2, <3>3
    <3> QED
      BY <3>4 DEF f, S
  <2>2. ASSUME NEW r \in Req, NEW p \in Product
        PROVE  Marked(r, p) + Owed(r, p) <= Sent(posted[r], p)
    <3> DEFINE f == Gain(r)
               S == LinesFor(p)
    <3>1. \A l \in S : f[l] = 0
      BY <1>5 DEF Gain, LinesFor
    <3> HIDE DEF f, S
    <3>2. SumOf(f, S) = 0
      BY <3>1, FiniteLines, SumZero DEF S
    <3>3. Sent(posted[r], p) = 0 /\ Owed(r, p) = 0
      BY <1>0, SentNothing DEF Owed
    <3>4. SumOf(f, S) + Owed(r, p) <= Sent(posted[r], p)
      BY <3>2, <3>3
    <3> QED
      BY <3>4 DEF f, S, Marked
  <2> QED
    BY <2>1, <2>2 DEF Goods, Afoot
<1> QED
  BY <1>1, <1>8, <1>9, <1>10, <1>11, <1>12 DEF OrdersInv

LEMMA OrdersStep ==
  ASSUME OrdersInv, NEW r \in Req, Start(r) \/ Step(r) \/ Abort(r)
  PROVE  OrdersInv'
<1>1. P!Books /\ P!BookTypes /\ Documents /\ DocTypes /\ Stages /\ Arguments
      /\ Confirmations /\ Batches /\ Current /\ Goods
  BY DEF OrdersInv, P!Books, Documents
<1>2. StepFacts(r)
  BY <1>1, AllFacts
<1>3. Documents' /\ DocTypes'
  <2>1. Documents'
    BY <1>1, <1>2, DocumentsStep
  <2> QED
    BY <2>1 DEF Documents
<1>4. Confirmations'
  BY <1>1, <1>2, ConfirmationsStep
<1>5. Batches'
  BY <1>1, <1>2, BatchesStep
<1>6. P!Books'
  BY <1>1, BooksKept
<1>7. Motion(r)
  BY <1>1, MotionFacts
<1>8. Current'
  BY <1>1, <1>2, <1>7, CurrentStep
<1>9. Goods'
  BY <1>1, <1>2, <1>3, <1>6, <1>7, <1>8, GoodsStep
<1> QED
  BY <1>3, <1>4, <1>5, <1>6, <1>8, <1>9 DEF OrdersInv

LEMMA OrdersStutter == OrdersInv /\ UNCHANGED vars => OrdersInv'
<1> SUFFICES ASSUME OrdersInv, UNCHANGED vars PROVE OrdersInv'
  OBVIOUS
<1> USE DEF vars
<1>1. P!Books'
  <2>1. P!Books /\ UNCHANGED <<stock, moved, posted, pc, op, mv, found, dest>>
    BY DEF OrdersInv
  <2> QED
    BY <2>1, StockAssumptions, P!BooksStutter
<1>2. Documents'
  <2>1. Documents
    BY DEF OrdersInv
  <2>2. DocTypes' /\ Stages'
    BY <2>1 DEF Documents, DocTypes, Stages, Label, Inv!Answered
  <2>3. Arguments' /\ Existing'
    BY <2>1 DEF Documents, Arguments, Existing, Delivering, LinesOf
  <2>4. OrderHolders' /\ LineHolders'
    BY <2>1 DEF Documents, OrderHolders, LineHolders, Delivering
  <2> QED
    BY <2>2, <2>3, <2>4 DEF Documents
<1>3. Confirmations'
  BY DEF OrdersInv, Confirmations, Confirmed, Delivering
<1>4. Batches'
  BY DEF OrdersInv, Batches, MadeOnce, MadeFor, Made, Uniform, BatchOf, Whole, HeldBy, Delivering
<1>5. Current' /\ Goods'
  BY DEF OrdersInv, Current, Goods, Afoot, Marked, Owed, Sent, Gain, DeliveredRows, LinesFor,
     P!Quantities
<1> QED
  BY <1>1, <1>2, <1>3, <1>4, <1>5 DEF OrdersInv

LEMMA OrdersInvariant == Spec => []OrdersInv
<1>1. OrdersInv /\ [Next]_vars => OrdersInv'
  BY OrdersStep, OrdersStutter DEF Next
<1> QED
  BY <1>1, OrdersInit, PTL DEF Spec

-----------------------------------------------------------------------------
(* The theorems.                                                           *)

\* The variables keep their types, whatever the requests do to each other.
THEOREM TypeCorrect == Spec => []TypeOK
<1>1. OrdersInv => TypeOK
  BY TypesHold DEF OrdersInv, P!Books, Documents
<1> QED
  BY <1>1, OrdersInvariant, PTL

\* Only lines of confirmed orders count as delivered, although deliver checks the
\* status before its transaction and edits and cancellations do not wait for it
\* (sales-orders.service.ts:205, 229).
THEOREM ConfirmedBeforeShipped == Spec => []ShippedWasConfirmed
<1>1. OrdersInv => ShippedWasConfirmed
  BY DEF OrdersInv, Confirmations, Confirmed, ShippedWasConfirmed
<1> QED
  BY <1>1, OrdersInvariant, PTL

\* Of the lines one request gave an order all are delivered in full or none is:
\* an edit replaces what it has found, all of a batch, and a delivery marks all of
\* what it has read or fails (sales-orders.service.ts:175-180, 235-264).
THEOREM WholeDeliveries == Spec => []DeliveredWhole
<1>1. ASSUME OrdersInv PROVE DeliveredWhole
  <2> SUFFICES ASSUME NEW l \in Line, NEW k \in Line, l[1] = k[1], l[3] = k[3],
                      lines.now[l].delivered > 0, lines.now[k] # NoLine
               PROVE  Remaining(lines.now[k]) = 0
    BY DEF DeliveredWhole
  <2>1. lines.now[l] # NoLine
    <3>1. NoLine.delivered = 0
      BY DEF NoLine
    <3> QED
      BY <3>1
  <2> QED
    BY <1>1, <2>1 DEF OrdersInv, Batches, Uniform, Together
<1> QED
  BY <1>1, OrdersInvariant, PTL

\* The sums of the property, in the form the lemmas on sums are about.
LEMMA ShippedIs ==
  ASSUME moved \in Inv!Ledger, NEW p \in Product
  PROVE  Shipped(p) = Sent(moved, p)
<1> DEFINE g == P!Quantities(moved, "SALE_OUT", p)
           It(it) == it = [s \in SUBSET Warehouse |->
                             IF s = {} THEN 0
                             ELSE moved[<<"SALE_OUT", <<CHOOSE x \in s : TRUE, p>>>>].qty
                                    + it[s \ {CHOOSE x \in s : TRUE}]]
<1>1. \A it : It(it) <=> Iterates(it, g, Warehouse)
  <2>1. \A s \in SUBSET Warehouse : s # {} => (CHOOSE x \in s : TRUE) \in Warehouse
    OBVIOUS
  <2> QED
    BY <2>1 DEF Iterates, P!Quantities
<1>2. Shipped(p) = (CHOOSE it : It(it))[Warehouse]
  BY DEF Shipped, MapThenSumSet, MapThenFoldSet
<1>3. \A w \in Warehouse : g[w] \in Int
  <2> SUFFICES ASSUME NEW w \in Warehouse PROVE g[w] \in Int
    OBVIOUS
  <2>1. <<"SALE_OUT", <<w, p>>>> \in Inv!MovementType \X Inv!Item
    BY DEF Inv!MovementType, Inv!Item
  <2>2. moved[<<"SALE_OUT", <<w, p>>>>].qty \in Int
    BY <2>1 DEF Inv!Ledger
  <2> QED
    BY <2>2 DEF P!Quantities
<1> HIDE DEF It, g
<1>4. It(CHOOSE it : It(it))
  BY <1>1, <1>3, FiniteAssumption, FoldIs
<1>5. (CHOOSE it : It(it))[Warehouse] = SumOf(g, Warehouse)
  BY <1>1, <1>3, <1>4, FiniteAssumption, FoldIs
<1> QED
  BY <1>2, <1>5 DEF Sent, g

LEMMA DeliveredIs ==
  ASSUME DocTypes, NEW p \in Product
  PROVE  Delivered(p) = SumOf(DeliveredRows, LinesFor(p))
<1> DEFINE S == LinesFor(p)
           It(it) == it = [s \in SUBSET S |->
                             IF s = {} THEN 0
                             ELSE lines.now[CHOOSE x \in s : TRUE].delivered
                                    + it[s \ {CHOOSE x \in s : TRUE}]]
<1>1. \A it : It(it) <=> Iterates(it, DeliveredRows, S)
  <2>1. \A s \in SUBSET S : s # {} => (CHOOSE x \in s : TRUE) \in Line
    BY DEF LinesFor
  <2> QED
    BY <2>1 DEF Iterates, DeliveredRows
<1>2. Delivered(p) = (CHOOSE it : It(it))[S]
  BY DEF Delivered, LinesFor, MapThenSumSet, MapThenFoldSet
<1>3. \A l \in S : DeliveredRows[l] \in Int
  BY GainFacts DEF LinesFor
<1>4. IsFiniteSet(S)
  BY FiniteLines
<1> HIDE DEF It, S
<1>5. It(CHOOSE it : It(it))
  BY <1>1, <1>3, <1>4, FoldIs
<1>6. (CHOOSE it : It(it))[S] = SumOf(DeliveredRows, S)
  BY <1>1, <1>3, <1>4, <1>5, FoldIs
<1> QED
  BY <1>2, <1>6 DEF S

\* Whatever lines call delivered has left the stock: a delivery marks a line for
\* what it has posted for it, and both are committed together
\* (sales-orders.service.ts:235-264).
THEOREM DeliveredWasShipped == Spec => []DeliveredIsShipped
<1>1. ASSUME OrdersInv PROVE DeliveredIsShipped
  <2>1. moved \in Inv!Ledger /\ DocTypes /\ Goods
    BY <1>1, StockParts DEF OrdersInv, P!Books, Documents
  <2> QED
    BY <2>1, ShippedIs, DeliveredIs DEF Goods, DeliveredIsShipped
<1> QED
  BY <1>1, OrdersInvariant, PTL

\* Stock and ledger agree although deliveries, adjustments and transfers take from
\* the same rows (sales-orders.service.ts:235-264).
THEOREM StockReconciles == Spec => []LedgerMatchesStock
<1>1. ASSUME OrdersInv PROVE LedgerMatchesStock
  <2>1. P!Reconciled
    BY <1>1, StockAssumptions, P!BooksReconcile DEF OrdersInv
  <2> QED
    BY <2>1 DEF LedgerMatchesStock, Inv!Reconciled, P!Reconciled, Inv!Item, P!Item,
       Inv!Net, P!Net, Inv!Unlogged, P!Unlogged, Inv!Signed, P!Signed,
       Inv!isIncoming, P!isIncoming, Inv!INCOMING_TYPES, P!INCOMING_TYPES,
       Inv!MapThenSumSet, P!MapThenSumSet, Inv!MapThenFoldSet, P!MapThenFoldSet
<1> QED
  BY <1>1, OrdersInvariant, PTL
=============================================================================
