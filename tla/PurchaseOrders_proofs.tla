------------------------ MODULE PurchaseOrders_proofs -----------------------
(***************************************************************************)
(* Theorems about PurchaseOrders, for every number of requests, orders,    *)
(* lines, warehouses and products and every delivery.                      *)
(*                                                                         *)
(* The invariant PurchasesInv has these parts: the books of                *)
(* Inventory_proofs; Documents, types, which handler a stage belongs to,   *)
(* which line of its dto a receipt is at, and whose rows are held by       *)
(* whom; Serial, that only the request that holds the receipt number is    *)
(* at the lines; Confirmations, that what is received was confirmed;       *)
(* MadeOnce, that a line is made once and received only after; Progress,   *)
(* that a receipt has counted and posted the lines before the one it is    *)
(* at; Committed, that lines and ledger agree with the receipts; and       *)
(* Short, that what a receipt has seen short stays short.                  *)
(***************************************************************************)
EXTENDS PurchaseOrders, Shared_proofs

P == INSTANCE Inventory_proofs

-----------------------------------------------------------------------------
(* The invariant.                                                          *)

OrderOps == {"update", "confirm", "receive", "cancel"}

Receiving(r) ==
  op[r] = "receive" /\ pc[r] \in {"line", "find", "upsert", "log", "status", "received", "commit"}

DeliveryLine == [slot : Slot, qty : Nat \ {0}, cost : Nat]

Dto == [lines : Seq(DeliveryLine), by : Owner, warehouse : Warehouse \cup {Nobody}, at : Nat]

Receipt == [order : Order, dto : Dto]

Status == PurchaseOrderStatus \cup {Absent}

\* TypeOK, but for the stock and its ledger.
DocTypes ==
  /\ pc \in [Req -> Label]
  /\ op \in [Req -> Handler \cup {"none", "adjust", "transfer"}]
  /\ status \in TableOf(Order, Status)
  /\ lines \in TableOf(Line, LineRow)
  /\ numbers \in [{"SAS", "MAL"} -> Series]
  /\ doc \in [Req -> Order \cup {Nobody}]
  /\ number \in [Req -> Nat]
  /\ targets \in [Req -> SUBSET Line]
  /\ fully \in [Req -> BOOLEAN]
  /\ todo \in [Req -> Dto]
  /\ receipts \in Seq(Receipt)

\* Which handlers a stage belongs to.
Stages ==
  \A r \in Req :
    /\ pc[r] = "idle" <=> op[r] = "none"
    /\ pc[r] = "read" => op[r] \in OrderOps
    /\ pc[r] \in {"number", "insert"} => op[r] \in {"create", "receive"}
    /\ pc[r] = "write" => op[r] \in {"confirm", "cancel"}
    /\ pc[r] \in {"find lines", "delete", "header"} => op[r] = "update"
    /\ pc[r] \in {"line", "status", "received"} => op[r] = "receive"
    /\ pc[r] \in {"find", "upsert", "log"} => op[r] \in {"adjust", "transfer", "receive"}
    /\ pc[r] = "commit" => op[r] \in {"transfer", "update", "receive"}
    /\ pc[r] = "source" => op[r] = "transfer"
    /\ pc[r] = "unlogged" => op[r] = "adjust"

Delivers(m, s) ==
  /\ m.type = "PURCHASE_IN"
  /\ m.item = <<s.warehouse, ProductOf[s.lines[s.at].slot]>> /\ m.qty = s.lines[s.at].qty

\* The order a handler is about, and where a receipt is in its dto.
Placed(o, c, d, s, m, rows) ==
  /\ o \in OrderOps => d \in Order
  /\ o = "receive" => s.warehouse \in Warehouse
  /\ o = "receive" /\ c \in {"read", "number", "insert"} => s.at = 1
  /\ o = "receive" /\ c \in {"read", "number", "insert", "line", "find", "upsert", "log"} =>
       s.at \in 1..Len(s.lines)
  /\ o = "receive" /\ c \in {"status", "received", "commit"} => s.at = Len(s.lines) + 1
  /\ o = "receive" /\ c \in {"find", "upsert", "log"} => Delivers(m, s)
  /\ o \in {"adjust", "transfer"} => m.type # "PURCHASE_IN"
  /\ rows \subseteq LinesOf(d)
  /\ o # "update" => rows = {}

Places == \A r \in Req : Placed(op[r], pc[r], doc[r], todo[r], mv[r], targets[r])

\* An order's row is held by the edit or the receipt that is about to commit.
StatusHolders ==
  /\ \A o \in Order :
       /\ status.lock[o] = Nobody => status.work[o] = status.now[o]
       /\ \A r \in Req : status.lock[o] = r =>
            /\ pc[r] = "commit" /\ op[r] \in {"update", "receive"} /\ doc[r] = o
            /\ op[r] = "update" => status.work[o] = status.now[o]
            /\ op[r] = "receive" =>
                 status.work[o] = IF fully[r] THEN "RECEIVED" ELSE "PARTIALLY_RECEIVED"
  /\ \A r \in Req : pc[r] = "commit" /\ op[r] \in {"update", "receive"} =>
       status.lock[doc[r]] = r

\* A line is held by an edit, which deletes it or has just made it, or by a
\* receipt.
LineHolders ==
  \A l \in Line :
    /\ lines.lock[l] = Nobody => lines.work[l] = lines.now[l]
    /\ \A r \in Req : lines.lock[l] = r =>
         /\ l[1] = doc[r]
         /\ \/ /\ op[r] = "update" /\ pc[r] \in {"header", "commit"}
               /\ IF l[3] = r THEN lines.work[l].qty > 0 /\ lines.work[l].received = 0
                              ELSE lines.work[l] = NoLine
               /\ \A s \in Slot : lines.lock[<<doc[r], s, r>>] = r
            \/ Receiving(r) /\ lines.now[l] # NoLine

Existing == \A r \in Req : op[r] \in OrderOps => status.now[doc[r]] # Absent

Documents == DocTypes /\ Stages /\ Places /\ StatusHolders /\ LineHolders /\ Existing

Serial == \A r \in Req : Receiving(r) => numbers["MAL"].holder = r

-----------------------------------------------------------------------------
Confirmed(o) ==
  \/ Initial[o] = "CONFIRMED"
  \/ \E r \in Req : op[r] = "confirm" /\ doc[r] = o /\ pc[r] = "ok"

Confirmations ==
  /\ \A o \in Order :
       {status.now[o], status.work[o]} \cap {"CONFIRMED", "PARTIALLY_RECEIVED", "RECEIVED"} # {}
         => Confirmed(o)
  /\ \A r \in Req : Receiving(r) \/ (op[r] = "receive" /\ pc[r] \in {"number", "insert"})
                      => Confirmed(doc[r])
  /\ \A n \in DOMAIN receipts : Confirmed(receipts[n].order)

-----------------------------------------------------------------------------
(* Lines are made once.                                                    *)

Made(l) == IF l[3] = Nobody THEN status.now[l[1]] # Absent ELSE pc[l[3]] = "ok"

LineOf(s, k) == <<s.order, s.dto.lines[k].slot, s.dto.by>>

MadeOnce ==
  /\ \A l \in Line : lines.now[l] # NoLine => Made(l)
  /\ \A n \in DOMAIN receipts : \A k \in DOMAIN receipts[n].dto.lines : Made(LineOf(receipts[n], k))

-----------------------------------------------------------------------------
(* What is on the receipts.                                                *)

\* What is chosen of the receipts: the lines of one order line, or of one item.
ForLine(l) == [order |-> {l[1]}, by |-> {l[3]}, place |-> Warehouse \cup {Nobody},
               slot  |-> {l[2]}]

ForItem(i) == [order |-> Order, by |-> Owner, place |-> {i[1]},
               slot  |-> {s \in Slot : ProductOf[s] = i[2]}]

Chosen(c, s, k) ==
  /\ s.order \in c.order /\ s.dto.by \in c.by /\ s.dto.warehouse \in c.place
  /\ s.dto.lines[k].slot \in c.slot

\* The chosen quantity on the first n lines of a receipt.
ChosenOf(s, c, n) == {k \in 1..n : Chosen(c, s, k)}

Amounts(s) == [k \in DOMAIN s.dto.lines |-> s.dto.lines[k].qty]

OnReceipt(s, c, n) == SumOf(Amounts(s), ChosenOf(s, c, n))

\* ... and on the committed receipts.
Sites(ss, c) ==
  {x \in UNION {{<<n, k>> : k \in DOMAIN ss[n].dto.lines} : n \in DOMAIN ss} :
     Chosen(c, ss[x[1]], x[2])}

OnReceipts(ss, c) ==
  SumOf([x \in Sites(ss, c) |-> ss[x[1]].dto.lines[x[2]].qty], Sites(ss, c))

\* The receipt a request is writing, and the lines it has counted.
Writing(r) == [order |-> doc[r], dto |-> todo[r]]

Counted(r) == IF pc[r] \in {"find", "upsert", "log"} THEN todo[r].at ELSE todo[r].at - 1

Progress ==
  \A r \in Req :
    /\ Receiving(r) =>
         /\ \A k \in 1..Counted(r) : lines.lock[LineOf(Writing(r), k)] = r
         /\ \A l \in Line : lines.lock[l] = r =>
              lines.work[l].received =
                lines.now[l].received + OnReceipt(Writing(r), ForLine(l), Counted(r))
    /\ \A i \in Inv!Item :
         posted[r][<<"PURCHASE_IN", i>>].qty =
           IF Receiving(r) THEN OnReceipt(Writing(r), ForItem(i), todo[r].at - 1) ELSE 0

Committed ==
  /\ \A l \in Line : lines.now[l] # NoLine =>
       lines.now[l].received = OnReceipts(receipts, ForLine(l))
  /\ \A i \in Inv!Item : moved[<<"PURCHASE_IN", i>>].qty = OnReceipts(receipts, ForItem(i))

-----------------------------------------------------------------------------
ShortIn(rows, o) == \E l \in LinesOf(o) : Remaining(rows[l]) > 0

Short ==
  /\ \A o \in Order : status.now[o] = "PARTIALLY_RECEIVED" => ShortIn(lines.now, o)
  /\ \A r \in Req : op[r] = "receive" /\ pc[r] \in {"received", "commit"} /\ ~fully[r] =>
       ShortIn(Seen(lines, r), doc[r])

PurchasesInv ==
  P!Books /\ Documents /\ Serial /\ Confirmations /\ MadeOnce /\ Progress /\ Committed /\ Short
-----------------------------------------------------------------------------
(* The inventory of this module is the one the lemmas of Inventory_proofs  *)
(* are about.                                                              *)

LEMMA StockFacts ==
  /\ Quantity \subseteq Nat \ {0} /\ UnitCost \subseteq Nat
  /\ Opening \in [P!Item -> [qty : Nat, cost : Nat]]
  /\ NoCost \notin Int /\ IsFiniteSet(Warehouse) /\ Nobody \notin Req
  /\ P!Item = Inv!Item /\ Inv!Item = Warehouse \X Product /\ P!Ledger = Inv!Ledger
  /\ P!StockRow = Inv!StockRow /\ P!NoPosting = Inv!NoPosting /\ P!NoRow = Inv!NoRow
  /\ P!MovementType = Inv!MovementType
BY StockAssumption, FiniteAssumption, NobodyAssumption
   DEF P!Item, Inv!Item, P!Ledger, Inv!Ledger,
       P!StockRow, Inv!StockRow, P!NoPosting, Inv!NoPosting, P!MovementType, Inv!MovementType,
       P!NoRow, Inv!NoRow

LEMMA SameActions ==
  ASSUME NEW r \in Req
  PROVE  /\ Inv!Start(r) => P!Start(r)
         /\ Inv!FindStock(r) => P!FindStock(r)
         /\ Inv!UpsertStock(r) => P!UpsertStock(r)
         /\ Inv!RefuseMovement(r) => P!RefuseMovement(r)
         /\ Inv!AdjustLogged(r) => P!AdjustLogged(r)
         /\ Inv!ReadSource(r) => P!ReadSource(r)
         /\ Inv!TransferOutLogged(r) => P!TransferOutLogged(r)
         /\ Inv!TransferInLogged(r) => P!TransferInLogged(r)
         /\ Inv!CommitTransfer(r) => P!CommitTransfer(r)
         /\ Inv!Abort(r) => P!Abort(r)
         /\ Inv!DropStock(r) => P!DropStock(r)
         /\ Inv!KeepStock(r) => P!KeepStock(r)
         /\ \A l : Inv!LogMovement(r, l) => P!LogMovement(r, l)
<1>1. \A l : Inv!LogMovement(r, l) => P!LogMovement(r, l)
  BY DEF Inv!LogMovement, P!LogMovement, Inv!LoggedCost, P!LoggedCost, Inv!InTransaction,
         P!InTransaction, Inv!Post, P!Post, Inv!isIncoming, P!isIncoming, Inv!INCOMING_TYPES,
         P!INCOMING_TYPES, Inv!NoRow, P!NoRow
<1>2. Inv!DropStock(r) => P!DropStock(r)
  BY DEF Inv!DropStock, P!DropStock, Inv!NoPosting, P!NoPosting, Inv!Item, P!Item,
         Inv!MovementType, P!MovementType, Inv!NoRow, P!NoRow, Inv!Rollback, P!Rollback,
         Inv!Unlocked, P!Unlocked
<1>3. Inv!KeepStock(r) => P!KeepStock(r)
  BY DEF Inv!KeepStock, P!KeepStock, Inv!NoPosting, P!NoPosting, Inv!Item, P!Item,
         Inv!MovementType, P!MovementType, Inv!Merge, P!Merge, Inv!Commit, P!Commit,
         Inv!Seen, P!Seen, Inv!Unlocked, P!Unlocked
<1>4. Inv!Start(r) => P!Start(r)
  BY StockFacts DEF Inv!Start, P!Start, Inv!StartAdjust, P!StartAdjust, Inv!StartTransfer,
         P!StartTransfer
<1>5. Inv!FindStock(r) => P!FindStock(r)
  BY DEF Inv!FindStock, P!FindStock, Inv!Refused, P!Refused, Inv!Insufficient, P!Insufficient,
         Inv!isIncoming, P!isIncoming, Inv!INCOMING_TYPES, P!INCOMING_TYPES, Inv!Seen, P!Seen
<1>6. Inv!RefuseMovement(r) => P!RefuseMovement(r)
  BY <1>2 DEF Inv!RefuseMovement, P!RefuseMovement, Inv!Refused, P!Refused, Inv!Insufficient,
         P!Insufficient, Inv!isIncoming, P!isIncoming, Inv!INCOMING_TYPES, P!INCOMING_TYPES,
         Inv!Seen, P!Seen
<1>7. Inv!UpsertStock(r) => P!UpsertStock(r)
  BY DEF Inv!UpsertStock, P!UpsertStock, Inv!Upserted, P!Upserted, Inv!Signed, P!Signed,
         Inv!MovingAverage, P!MovingAverage, Inv!Rounded, P!Rounded, Inv!InTransaction,
         P!InTransaction, Inv!isIncoming, P!isIncoming, Inv!INCOMING_TYPES, P!INCOMING_TYPES,
         Inv!Writable, P!Writable, Inv!Put, P!Put, Inv!Save, P!Save, Inv!Seen, P!Seen
<1>8. Inv!AdjustLogged(r) => P!AdjustLogged(r)
  BY <1>1 DEF Inv!AdjustLogged, P!AdjustLogged
<1>9. Inv!ReadSource(r) => P!ReadSource(r)
  BY DEF Inv!ReadSource, P!ReadSource, Inv!Seen, P!Seen
<1>10. Inv!TransferOutLogged(r) => P!TransferOutLogged(r)
  BY <1>1 DEF Inv!TransferOutLogged, P!TransferOutLogged
<1>11. Inv!TransferInLogged(r) => P!TransferInLogged(r)
  BY <1>1 DEF Inv!TransferInLogged, P!TransferInLogged
<1>12. Inv!CommitTransfer(r) => P!CommitTransfer(r)
  BY <1>3 DEF Inv!CommitTransfer, P!CommitTransfer
<1>13. Inv!Abort(r) => P!Abort(r)
  BY <1>2 DEF Inv!Abort, P!Abort, Inv!InFlight, P!InFlight, Inv!Answered, P!Answered,
         Inv!InTransaction, P!InTransaction
<1> QED
  BY <1>1, <1>2, <1>3, <1>4, <1>5, <1>6, <1>7, <1>8, <1>9, <1>10, <1>11, <1>12, <1>13
\* The inventory's actions, as the books see them.
LEMMA StockParts ==
  ASSUME P!BookTypes
  PROVE  /\ DOMAIN pc = Req /\ DOMAIN op = Req /\ DOMAIN mv = Req /\ DOMAIN dest = Req
         /\ moved \in Inv!Ledger /\ posted \in [Req -> Inv!Ledger]
         /\ stock \in TableOf(Inv!Item, Inv!StockRow)
BY StockFacts DEF P!BookTypes, P!TableOf, TableOf, P!Owner, Owner

LEMMA TypesHold == P!BookTypes /\ DocTypes => TypeOK
BY StockParts DEF DocTypes, TypeOK, Status

-----------------------------------------------------------------------------
(* The shapes of a step, but for what it does to the stock.                *)

\* It leaves the other requests alone.
Rest(r) ==
  \A q \in Req \ {r} :
    /\ pc'[q] = pc[q] /\ op'[q] = op[q] /\ doc'[q] = doc[q] /\ todo'[q] = todo[q]
    /\ fully'[q] = fully[q] /\ mv'[q] = mv[q]

SameNumbers == numbers'["MAL"] = numbers["MAL"]

\* A request starts.
Begins(r) ==
  /\ pc[r] = "idle" /\ pc'[r] \in {"number", "read", "find", "source"}
  /\ UNCHANGED <<status, lines, receipts, fully>> /\ SameNumbers
  /\ op'[r] \in OrderOps => pc'[r] = "read" /\ status.now[doc'[r]] # Absent
  /\ pc'[r] = "number" => op'[r] = "create"

\* It leaves the documents alone, and is not the end of a transaction on them.
Calm(r) ==
  /\ UNCHANGED <<status, lines, receipts, op, doc, todo, fully>> /\ SameNumbers
  /\ pc[r] \notin Inv!Answered \cup {"idle"} /\ (op[r] \in OrderOps => pc'[r] # "ok")
  /\ Receiving(r)' <=> Receiving(r)
  /\ Receiving(r) => pc[r] \in {"find", "upsert"} /\ pc'[r] \in {"upsert", "log"}
  /\ op[r] = "update" => /\ pc[r] \in {"read", "find lines"}
                         /\ pc'[r] \in {"find lines", "delete", "refused"}
  /\ op[r] = "receive" /\ pc'[r] \in {"number", "insert"} =>
       pc[r] = "number" \/ status.now[doc[r]] \in {"CONFIRMED", "PARTIALLY_RECEIVED"}

\* InsertOrder.
CreatesOrder(r, o) ==
  /\ doc'[r] = o /\ status.now[o] = Absent
  /\ status'.lock = status.lock
  /\ \A k \in Order : /\ status'.now[k] = IF k = o THEN "DRAFT" ELSE status.now[k]
                      /\ status'.work[k] = IF k = o THEN "DRAFT" ELSE status.work[k]
  /\ lines'.lock = lines.lock
  /\ \A l \in Line :
       IF l[1] = o /\ l[3] = Nobody
         THEN /\ lines'.now[l].qty > 0 /\ lines'.now[l].received = 0
              /\ lines'.work[l] = lines'.now[l]
         ELSE lines'.now[l] = lines.now[l] /\ lines'.work[l] = lines.work[l]

Creates(r) ==
  /\ op[r] = "create" /\ pc[r] = "insert" /\ pc'[r] = "ok"
  /\ UNCHANGED <<op, todo, fully, receipts>> /\ SameNumbers
  /\ \E o \in Order : CreatesOrder(r, o)

\* ReplaceLines.
New(r) == {l \in LinesOf(doc[r]) : l[3] = r}

Replaces(r) ==
  /\ op[r] = "update" /\ pc[r] = "delete" /\ pc'[r] = "header"
  /\ UNCHANGED <<status, receipts, op, doc, todo, fully>> /\ SameNumbers
  /\ lines'.now = lines.now
  /\ \A l \in targets[r] : lines.lock[l] \in {r, Nobody}
  /\ \A l \in Line :
       IF l \in targets[r] \cup New(r)
         THEN /\ lines'.lock[l] = r
              /\ IF l \in New(r) THEN lines'.work[l].qty > 0 /\ lines'.work[l].received = 0
                                 ELSE lines'.work[l] = NoLine
         ELSE lines'.lock[l] = lines.lock[l] /\ lines'.work[l] = lines.work[l]

\* The order's row, written in a transaction.
Takes(r, v) ==
  /\ status.lock[doc[r]] = Nobody /\ status'.now = status.now
  /\ \A k \in Order : /\ status'.work[k] = IF k = doc[r] THEN v ELSE status.work[k]
                      /\ status'.lock[k] = IF k = doc[r] THEN r ELSE status.lock[k]

\* UpdateHeader and SetReceived.
Heads(r) ==
  /\ pc'[r] = "commit"
  /\ UNCHANGED <<lines, receipts, op, doc, todo, fully>> /\ SameNumbers
  /\ \/ op[r] = "update" /\ pc[r] \in {"find lines", "header"} /\ Takes(r, status.now[doc[r]])
     \/ /\ op[r] = "receive" /\ pc[r] = "received"
        /\ Takes(r, IF fully[r] THEN "RECEIVED" ELSE "PARTIALLY_RECEIVED")

\* SetStatus.
Sets(r) ==
  /\ op[r] \in {"confirm", "cancel"} /\ pc[r] = "write" /\ pc'[r] = "ok"
  /\ UNCHANGED <<lines, receipts, op, doc, todo, fully>> /\ SameNumbers
  /\ status.lock[doc[r]] = Nobody /\ status'.lock = status.lock
  /\ \E v \in {"CONFIRMED", "CANCELLED"} :
       /\ v = "CONFIRMED" => op[r] = "confirm"
       /\ \A k \in Order : /\ status'.now[k] = IF k = doc[r] THEN v ELSE status.now[k]
                           /\ status'.work[k] = IF k = doc[r] THEN v ELSE status.work[k]

\* InsertReceipt.
Enters(r) ==
  /\ op[r] = "receive" /\ pc[r] = "insert" /\ pc'[r] = "line"
  /\ UNCHANGED <<status, lines, receipts, op, doc, todo, fully>>
  /\ numbers["MAL"].holder = Nobody /\ numbers'["MAL"] = Insert(numbers["MAL"], r)

\* ReceiveLine.
Receives(r) ==
  LET l == LineKey(r)
  IN  /\ op[r] = "receive" /\ pc[r] = "line" /\ pc'[r] = "find"
      /\ UNCHANGED <<status, receipts, op, doc, todo, fully>> /\ SameNumbers
      /\ l \in Line /\ lines.lock[l] \in {r, Nobody} /\ Seen(lines, r)[l] # NoLine
      /\ lines'.now = lines.now
      /\ \A k \in Line \ {l} : lines'.lock[k] = lines.lock[k] /\ lines'.work[k] = lines.work[k]
      /\ lines'.lock[l] = r
      /\ lines'.work[l] = [qty      |-> Seen(lines, r)[l].qty,
                           received |-> Seen(lines, r)[l].received + Current(r).qty]

\* ReceiptLogged.
Logs(r) ==
  /\ op[r] = "receive" /\ pc[r] = "log"
  /\ pc'[r] = IF todo[r].at = Len(todo[r].lines) THEN "status" ELSE "line"
  /\ UNCHANGED <<status, lines, receipts, op, doc, fully>> /\ SameNumbers
  /\ todo' = [todo EXCEPT ![r].at = todo[r].at + 1]

\* RereadLines.
Rereads(r) ==
  /\ op[r] = "receive" /\ pc[r] = "status" /\ pc'[r] = "received"
  /\ UNCHANGED <<status, lines, receipts, op, doc, todo>> /\ SameNumbers
  /\ ~fully'[r] => ShortIn(Seen(lines, r), doc[r])

Commits(r) ==
  /\ op[r] \in {"update", "receive"} /\ pc[r] = "commit" /\ pc'[r] = "ok"
  /\ UNCHANGED <<op, doc, todo, fully>>
  /\ numbers'["MAL"] = CommitSeries(numbers["MAL"], r)
  /\ receipts' = IF op[r] = "receive" THEN Append(receipts, Writing(r)) ELSE receipts
  /\ \A k \in Order : /\ status'.now[k] = IF status.lock[k] = r THEN status.work[k] ELSE status.now[k]
                      /\ status'.work[k] = status.work[k]
                      /\ status'.lock[k] = IF status.lock[k] = r THEN Nobody ELSE status.lock[k]
  /\ \A l \in Line : /\ lines'.now[l] = IF lines.lock[l] = r THEN lines.work[l] ELSE lines.now[l]
                     /\ lines'.work[l] = lines.work[l]
                     /\ lines'.lock[l] = IF lines.lock[l] = r THEN Nobody ELSE lines.lock[l]

\* A transaction ends without any of its writes.
Drops(r) ==
  /\ pc[r] \notin Inv!Answered \cup {"idle"} /\ pc'[r] \in {"refused", "aborted", "unlogged"}
  /\ UNCHANGED <<op, doc, todo, fully, receipts>>
  /\ numbers'["MAL"] = RollbackSeries(numbers["MAL"], r)
  /\ status'.now = status.now /\ lines'.now = lines.now
  /\ \A k \in Order : /\ status'.work[k] = IF status.lock[k] = r THEN status.now[k] ELSE status.work[k]
                      /\ status'.lock[k] = IF status.lock[k] = r THEN Nobody ELSE status.lock[k]
  /\ \A l \in Line : /\ lines'.work[l] = IF lines.lock[l] = r THEN lines.now[l] ELSE lines.work[l]
                     /\ lines'.lock[l] = IF lines.lock[l] = r THEN Nobody ELSE lines.lock[l]

Shapes(r) ==
  \/ Begins(r) \/ Calm(r) \/ Creates(r) \/ Replaces(r) \/ Heads(r) \/ Sets(r)
  \/ Enters(r) \/ Receives(r) \/ Logs(r) \/ Rereads(r) \/ Commits(r) \/ Drops(r)

\* Types, stages, places and shapes, step by step.
StepFacts(r) == DocTypes' /\ Stages' /\ Places' /\ Rest(r) /\ Shapes(r)

\* The line of the dto a receipt is at.
LEMMA DtoFacts ==
  ASSUME NEW s \in Dto, s.at \in 1..Len(s.lines)
  PROVE  /\ s.lines \in Seq(DeliveryLine) /\ s.lines[s.at] \in DeliveryLine
         /\ s.lines[s.at].slot \in Slot /\ s.lines[s.at].qty \in Nat \ {0}
         /\ s.lines[s.at].cost \in Nat /\ s.by \in Owner
         /\ s.at \in Nat /\ Len(s.lines) \in Nat
<1>1. s.lines \in Seq(DeliveryLine) /\ s.at \in Nat /\ s.by \in Owner
  BY DEF Dto
<1>2. s.lines[s.at] \in DeliveryLine /\ Len(s.lines) \in Nat
  BY <1>1
<1> QED
  BY <1>1, <1>2 DEF DeliveryLine

\* A handler of the documents starts.
LEMMA BeginFacts ==
  ASSUME P!BookTypes, Documents, NEW r \in Req, NEW o \in Order, NEW h \in Handler, Begin(r, o, h),
         h \in OrderOps => status.now[o] # Absent,
         NEW t \in Dto, todo' = [todo EXCEPT ![r] = t],
         h = "receive" => t.at = 1 /\ t.at \in 1..Len(t.lines) /\ t.warehouse \in Warehouse
  PROVE  StepFacts(r)
<1> USE StockParts DEF Documents, rowVars
<1>1. PICK l \in {"number", "read"} :
        /\ l = IF h = "create" THEN "number" ELSE "read"
        /\ pc[r] = "idle" /\ pc' = [pc EXCEPT ![r] = l] /\ op' = [op EXCEPT ![r] = h]
        /\ doc' = [doc EXCEPT ![r] = o]
        /\ UNCHANGED <<mv, status, lines, numbers, receipts, number, targets, fully>>
  BY DEF Begin
<1>2. DocTypes'
  BY <1>1 DEF DocTypes, Label
<1>3. Stages'
  BY <1>1 DEF DocTypes, Stages, OrderOps, Handler
<1>4. Places'
  <2>1. op[r] = "none" /\ targets[r] = {}
    BY <1>1 DEF Stages, Places, Placed
  <2> QED
    BY <1>1, <2>1 DEF DocTypes, Places, Placed, Delivers, OrderOps, Handler
<1>5. Rest(r)
  BY <1>1 DEF DocTypes, Rest
<1>6. Begins(r)
  BY <1>1 DEF DocTypes, Begins, SameNumbers, OrderOps, Handler
<1> QED
  BY <1>2, <1>3, <1>4, <1>5, <1>6 DEF StepFacts, Shapes

LEMMA StartFacts ==
  ASSUME P!BookTypes, Documents, NEW r \in Req, Start(r)
  PROVE  StepFacts(r)
<1> USE NobodyAssumption, StockParts DEF Documents
<1>1. ASSUME NEW o \in Order, NEW d \in Delivery, NEW by \in Owner, NEW w \in Warehouse,
             StartReceive(r, o, d, by, w)
      PROVE  StepFacts(r)
  <2> DEFINE t == [lines |-> d, by |-> by, warehouse |-> w, at |-> 1]
  <2>1. d \in Seq(DeliveryLine) /\ d # <<>>
    BY OrderAssumption DEF DeliveryLine
  <2>2. t \in Dto /\ t.at = 1 /\ t.at \in 1..Len(t.lines) /\ t.warehouse \in Warehouse
    BY <2>1 DEF Dto
  <2>3. Begin(r, o, "receive") /\ todo' = [todo EXCEPT ![r] = t] /\ status.now[o] # Absent
    BY <1>1 DEF StartReceive
  <2> HIDE DEF t
  <2> QED
    BY <2>2, <2>3, BeginFacts DEF Handler
<1>2. ASSUME NEW o \in Order, NEW h \in Handler \ {"receive"}, StartOther(r, o, h)
      PROVE  StepFacts(r)
  <2>1. Begin(r, o, h) /\ todo' = [todo EXCEPT ![r] = todo[r]] /\ todo[r] \in Dto
    BY <1>2 DEF StartOther, DocTypes
  <2>2. h \in OrderOps => status.now[o] # Absent
    BY <1>2 DEF StartOther, OrderOps
  <2> QED
    BY <2>1, <2>2, BeginFacts
<1>3. ASSUME Inv!Start(r), UNCHANGED orderVars PROVE StepFacts(r)
  <2>0. PICK l \in {"find", "source"}, h \in {"adjust", "transfer"} :
          /\ l = "source" => h = "transfer"
          /\ \E m : /\ pc[r] = "idle" /\ pc' = [pc EXCEPT ![r] = l]
                    /\ op' = [op EXCEPT ![r] = h]
                    /\ mv' = [mv EXCEPT ![r] = m] /\ m.type # "PURCHASE_IN"
    <3>1. ASSUME NEW i \in Inv!Item, NEW q \in Quantity,
                 NEW type \in {"ADJUSTMENT_IN", "ADJUSTMENT_OUT"}, NEW c \in UnitCost \cup {NoCost},
                 Inv!StartAdjust(r, i, type, q, c)
          PROVE  \E m : /\ pc[r] = "idle" /\ pc' = [pc EXCEPT ![r] = "find"]
                        /\ op' = [op EXCEPT ![r] = "adjust"]
                        /\ mv' = [mv EXCEPT ![r] = m] /\ m.type # "PURCHASE_IN"
      <4> DEFINE n == [type |-> type, item |-> i, qty |-> q, cost |-> c]
      <4> WITNESS n
      <4> QED
        BY <3>1 DEF Inv!StartAdjust
    <3>2. ASSUME NEW f \in Warehouse, NEW to \in Warehouse, NEW p \in Product, NEW q \in Quantity,
                 Inv!StartTransfer(r, f, to, p, q)
          PROVE  \E m : /\ pc[r] = "idle" /\ pc' = [pc EXCEPT ![r] = "source"]
                        /\ op' = [op EXCEPT ![r] = "transfer"]
                        /\ mv' = [mv EXCEPT ![r] = m] /\ m.type # "PURCHASE_IN"
      <4> DEFINE n == [type |-> "TRANSFER_OUT", item |-> <<f, p>>, qty |-> q, cost |-> NoCost]
      <4> WITNESS n
      <4> QED
        BY <3>2 DEF Inv!StartTransfer
    <3> QED
      BY <1>3, <3>1, <3>2 DEF Inv!Start
  <2>1. PICK m : /\ pc[r] = "idle" /\ pc' = [pc EXCEPT ![r] = l]
                 /\ op' = [op EXCEPT ![r] = h]
                 /\ mv' = [mv EXCEPT ![r] = m] /\ m.type # "PURCHASE_IN"
    BY <2>0
  <2>2. DocTypes'
    BY <1>3, <2>1 DEF orderVars, DocTypes, Label
  <2>3. Stages'
    BY <1>3, <2>0, <2>1 DEF orderVars, DocTypes, Stages, OrderOps
  <2>4. Places'
    <3>1. op[r] = "none" /\ targets[r] = {}
      BY <2>1 DEF Stages, Places, Placed
    <3> QED
      BY <1>3, <2>1, <3>1 DEF orderVars, DocTypes, Places, Placed, Delivers, OrderOps
  <2>5. Rest(r)
    BY <1>3, <2>1 DEF orderVars, DocTypes, Rest
  <2>6. Begins(r)
    BY <1>3, <2>1 DEF orderVars, DocTypes, Begins, SameNumbers, OrderOps
  <2> QED
    BY <2>2, <2>3, <2>4, <2>5, <2>6 DEF StepFacts, Shapes
<1> QED
  BY <1>1, <1>2, <1>3 DEF Start

\* A step that leaves the documents alone.
LEMMA CalmFacts ==
  ASSUME P!BookTypes, Documents, NEW r \in Req, NEW l \in Label, NEW k \in Label,
         pc[r] = k, pc' = [pc EXCEPT ![r] = l], op' = op,
         UNCHANGED <<status, lines, numbers, receipts, doc, targets, fully, todo>>,
         number' \in [Req -> Nat],
         \A q \in Req \ {r} : mv'[q] = mv[q],
         mv' = mv \/ (op[r] \in {"adjust", "transfer"} /\ mv'[r].type # "PURCHASE_IN"),
         \/ (k = "find" /\ l = "upsert") \/ (k = "upsert" /\ l = "log")
         \/ (k = "number" /\ l = "insert") \/ (k = "read" /\ l = "refused")
         \/ k = "read" /\ l = "find lines" /\ op[r] = "update"
         \/ k = "read" /\ l = "write" /\ op[r] \in {"confirm", "cancel"}
         \/ /\ k = "read" /\ l = "number" /\ op[r] = "receive"
            /\ status.now[doc[r]] \in {"CONFIRMED", "PARTIALLY_RECEIVED"}
         \/ k = "log" /\ l = "ok" /\ op[r] = "adjust"
         \/ /\ op[r] = "transfer"
            /\ \/ (k = "source" /\ l = "find") \/ (k = "log" /\ l \in {"find", "commit"})
               \/ (k = "commit" /\ l = "ok")
  PROVE  StepFacts(r)
<1>0. /\ op[r] = "receive" /\ l = "number" => k = "read"
      /\ op[r] = "receive" /\ l = "insert" => k = "number"
      /\ op[r] = "receive" /\ l = "upsert" => k = "find"
      /\ op[r] = "receive" /\ l = "log" => k = "upsert"
      /\ op[r] = "receive" => l \notin {"read", "find", "commit"}
      /\ l \notin {"line", "status", "received"}
  OBVIOUS
<1> USE StockParts DEF Documents
<1>1. DocTypes'
  BY DEF DocTypes
<1>2. Stages'
  BY DEF DocTypes, Stages, OrderOps, Handler
<1>3. Places'
  <2>1. \A q \in Req \ {r} : pc'[q] = pc[q] /\ pc'[r] = l
    BY DEF DocTypes
  <2>2. Placed(op[r], k, doc[r], todo[r], mv[r], targets[r])
    BY DEF Places
  <2>3. Placed(op[r], l, doc[r], todo[r], mv'[r], targets[r])
    <3>1. CASE mv' = mv
      BY <1>0, <2>2, <3>1 DEF Placed
    <3>2. CASE op[r] \in {"adjust", "transfer"} /\ mv'[r].type # "PURCHASE_IN"
      BY <2>2, <3>2 DEF Placed, OrderOps
    <3> QED
      BY <3>1, <3>2
  <2> QED
    BY <2>1, <2>3 DEF Places
<1>4. Rest(r)
  BY DEF DocTypes, Rest
<1>5. Calm(r)
  BY DEF DocTypes, Stages, Calm, SameNumbers, OrderOps, Receiving, Inv!Answered
<1> QED
  BY <1>1, <1>2, <1>3, <1>4, <1>5 DEF StepFacts, Shapes

\* A transaction ends without its writes.
LEMMA DropFacts ==
  ASSUME P!BookTypes, Documents, NEW r \in Req, NEW l \in {"refused", "aborted", "unlogged"},
         l = "unlogged" => op[r] = "adjust",
         pc[r] \notin Inv!Answered \cup {"idle"}, pc' = [pc EXCEPT ![r] = l], op' = op, mv' = mv,
         DropOrder(r)
  PROVE  StepFacts(r)
<1> USE StockParts DEF Documents
<1>0. /\ status \in TableOf(Order, Status) /\ lines \in TableOf(Line, LineRow)
      /\ numbers \in [{"SAS", "MAL"} -> Series]
  BY DEF DocTypes
<1>1. /\ status' \in TableOf(Order, Status) /\ lines' \in TableOf(Line, LineRow)
      /\ status'.now = status.now /\ lines'.now = lines.now
      /\ \A k \in Order : /\ status'.work[k] = IF status.lock[k] = r THEN status.now[k] ELSE status.work[k]
                          /\ status'.lock[k] = IF status.lock[k] = r THEN Nobody ELSE status.lock[k]
      /\ \A k \in Line : /\ lines'.work[k] = IF lines.lock[k] = r THEN lines.now[k] ELSE lines.work[k]
                         /\ lines'.lock[k] = IF lines.lock[k] = r THEN Nobody ELSE lines.lock[k]
  BY <1>0, RollbackFacts DEF DropOrder
<1>2. numbers' \in [{"SAS", "MAL"} -> Series] /\ numbers'["MAL"] = RollbackSeries(numbers["MAL"], r)
  <2>1. \A n \in {"SAS", "MAL"} : RollbackSeries(numbers[n], r) \in Series
    BY <1>0, SeriesFacts
  <2>2. numbers' = [n \in {"SAS", "MAL"} |-> RollbackSeries(numbers[n], r)]
    BY <1>0 DEF DropOrder
  <2> QED
    BY <2>1, <2>2
<1>3. UNCHANGED <<receipts, doc, number, targets, fully, todo>>
  BY DEF DropOrder
<1>4. DocTypes'
  BY <1>1, <1>2, <1>3 DEF DocTypes, Label, Inv!Answered
<1>5. Stages'
  BY DEF DocTypes, Stages, OrderOps
<1>6. Places'
  BY <1>3 DEF DocTypes, Places, Placed, Delivers, OrderOps
<1>7. Rest(r)
  BY <1>3 DEF DocTypes, Rest
<1>8. Drops(r)
  BY <1>1, <1>2, <1>3 DEF DocTypes, Drops
<1> QED
  BY <1>4, <1>5, <1>6, <1>7, <1>8 DEF StepFacts, Shapes

LEMMA InventoryFacts ==
  ASSUME P!BookTypes, Documents, NEW r \in Req,
         \/ ReadOrder(r) \/ RefuseOrder(r) \/ nextDocumentNumber(r)
         \/ (Inv!FindStock(r) \/ Inv!UpsertStock(r)) /\ UNCHANGED <<op, dest, orderVars>>
         \/ /\ \/ Inv!AdjustLogged(r) \/ Inv!ReadSource(r)
               \/ Inv!TransferOutLogged(r) \/ Inv!TransferInLogged(r)
               \/ Inv!CommitTransfer(r)
            /\ UNCHANGED orderVars
  PROVE  StepFacts(r)
<1> USE StockParts DEF Label, orderVars
<1>0. DocTypes /\ Stages /\ Places /\ number \in [Req -> Nat]
  BY DEF Documents, DocTypes
<1>1. CASE Inv!FindStock(r) /\ UNCHANGED <<op, dest, orderVars>>
  <2>1. pc[r] = "find" /\ pc' = [pc EXCEPT ![r] = "upsert"] /\ mv' = mv
    BY <1>1 DEF Inv!FindStock
  <2> QED
    BY <1>0, <1>1, <2>1, CalmFacts
<1>2. CASE Inv!UpsertStock(r) /\ UNCHANGED <<op, dest, orderVars>>
  <2>1. pc[r] = "upsert" /\ pc' = [pc EXCEPT ![r] = "log"] /\ mv' = mv
    BY <1>2 DEF Inv!UpsertStock
  <2> QED
    BY <1>0, <1>2, <2>1, CalmFacts
<1>3. CASE RefuseOrder(r)
  <2>1. pc[r] = "read" /\ pc' = [pc EXCEPT ![r] = "refused"] /\ mv' = mv /\ op' = op
    BY <1>3 DEF RefuseOrder, stockVars
  <2> QED
    BY <1>0, <1>3, <2>1, CalmFacts DEF RefuseOrder, Inv!Answered
<1>4. CASE Inv!AdjustLogged(r) /\ UNCHANGED orderVars
  <2>1. /\ pc[r] = "log" /\ pc' = [pc EXCEPT ![r] = "ok"] /\ op[r] = "adjust" /\ UNCHANGED <<op, mv>>
    BY <1>4 DEF Inv!AdjustLogged, Inv!LogMovement
  <2> QED
    BY <1>0, <1>4, <2>1, CalmFacts DEF Inv!Answered
<1>5. CASE Inv!ReadSource(r) /\ UNCHANGED orderVars
  <2>1. /\ pc[r] = "source" /\ pc' = [pc EXCEPT ![r] = "find"] /\ UNCHANGED op
        /\ mv' = [mv EXCEPT ![r].cost = Inv!Seen(stock, r)[mv[r].item].cost]
    BY <1>5 DEF Inv!ReadSource
  <2>2. op[r] = "transfer" /\ mv[r].type # "PURCHASE_IN"
    BY <1>0, <2>1 DEF Places, Placed, Stages
  <2>3. mv'[r].type = mv[r].type /\ \A q \in Req \ {r} : mv'[q] = mv[q]
    BY <2>1
  <2> QED
    BY <1>0, <1>5, <2>1, <2>2, <2>3, CalmFacts
<1>6. CASE Inv!TransferOutLogged(r) /\ UNCHANGED orderVars
  <2>1. /\ pc[r] = "log" /\ pc' = [pc EXCEPT ![r] = "find"] /\ op[r] = "transfer" /\ UNCHANGED op
        /\ mv' = [mv EXCEPT ![r].type = "TRANSFER_IN", ![r].item = dest[r]]
    BY <1>6 DEF Inv!TransferOutLogged, Inv!LogMovement
  <2>2. mv[r] \in Inv!Movement
    BY <2>1, StockFacts DEF P!BookTypes, P!Movement, Inv!Movement
  <2>3. mv'[r].type = "TRANSFER_IN" /\ \A q \in Req \ {r} : mv'[q] = mv[q]
    BY <2>1, <2>2 DEF Inv!Movement
  <2> QED
    BY <1>0, <1>6, <2>1, <2>3, CalmFacts
<1>7. CASE (Inv!TransferInLogged(r) \/ Inv!CommitTransfer(r)) /\ UNCHANGED orderVars
  <2>1. PICK k \in {"log", "commit"}, l \in {"commit", "ok"} :
          /\ pc[r] = k /\ pc' = [pc EXCEPT ![r] = l] /\ UNCHANGED <<op, mv>> /\ op[r] = "transfer"
          /\ <<k, l>> \in {<<"log", "commit">>, <<"commit", "ok">>}
    BY <1>7 DEF Inv!TransferInLogged, Inv!LogMovement, Inv!CommitTransfer, Inv!KeepStock
  <2> QED
    BY <1>0, <1>7, <2>1, CalmFacts DEF Inv!Answered
<1>8. CASE nextDocumentNumber(r)
  <2>1. /\ pc[r] = "number" /\ pc' = [pc EXCEPT ![r] = "insert"] /\ UNCHANGED <<op, mv>>
        /\ number' = [number EXCEPT ![r] = numbers[SeriesOf(r)].rows + 1]
        /\ UNCHANGED <<status, lines, numbers, receipts, doc, targets, fully, todo>>
    BY <1>8 DEF nextDocumentNumber, stockVars
  <2>2. number' \in [Req -> Nat]
    <3>1. numbers[SeriesOf(r)] \in Series
      BY <1>0 DEF SeriesOf, DocTypes
    <3> QED
      BY <1>0, <2>1, <3>1 DEF Series
  <2> QED
    BY <2>1, <2>2, CalmFacts
<1>9. CASE ReadOrder(r)
  <2> DEFINE l == AfterRead[op[r]]
  <2>1. /\ pc[r] = "read" /\ pc' = [pc EXCEPT ![r] = l] /\ UNCHANGED <<op, mv>>
        /\ UNCHANGED <<status, lines, numbers, receipts, doc, number, targets, fully, todo>>
    BY <1>9 DEF ReadOrder, stockVars
  <2>2. op[r] \in OrderOps
    BY <1>0, <2>1 DEF Stages
  <2>3. \/ l = "find lines" /\ op[r] = "update"
        \/ l = "write" /\ op[r] \in {"confirm", "cancel"}
        \/ l = "number" /\ op[r] = "receive"
    <3>1. /\ AfterRead["update"] = "find lines" /\ AfterRead["confirm"] = "write"
          /\ AfterRead["cancel"] = "write" /\ AfterRead["receive"] = "number"
      BY DEF AfterRead
    <3> QED
      BY <2>2, <3>1 DEF OrderOps
  <2>4. op[r] = "receive" => status.now[doc[r]] \in {"CONFIRMED", "PARTIALLY_RECEIVED"}
    BY <1>9 DEF ReadOrder, Allowed
  <2> HIDE DEF l
  <2>5. l \in {"find lines", "write", "number"}
    BY <2>3
  <2> QED
    BY <1>0, <2>1, <2>3, <2>4, <2>5, CalmFacts
<1> QED
  BY <1>1, <1>2, <1>3, <1>4, <1>5, <1>6, <1>7, <1>8, <1>9

LEMMA EndFacts ==
  ASSUME P!BookTypes, Documents, NEW r \in Req,
         \/ NumberConflict(r) \/ LineGone(r)
         \/ Inv!RefuseMovement(r) /\ DropOrder(r) /\ UNCHANGED <<op, dest>>
         \/ Abort(r)
  PROVE  StepFacts(r)
<1>1. PICK l \in {"refused", "aborted", "unlogged"} :
        /\ l = "unlogged" => op[r] = "adjust"
        /\ pc[r] \notin Inv!Answered \cup {"idle"} /\ pc' = [pc EXCEPT ![r] = l] /\ op' = op
        /\ mv' = mv /\ DropOrder(r)
  <2>1. CASE Throw(r) /\ pc[r] \in {"insert", "line"}
    BY <2>1 DEF Throw, Inv!DropStock, Inv!Answered
  <2>2. CASE Inv!RefuseMovement(r) /\ DropOrder(r) /\ UNCHANGED <<op, dest>>
    BY <2>2 DEF Inv!RefuseMovement, Inv!DropStock, Inv!Answered
  <2>3. CASE Abort(r)
    BY <2>3 DEF Abort, Inv!Abort, Inv!InFlight, Inv!Answered, Inv!DropStock, Inv!InTransaction
  <2> QED
    BY <2>1, <2>2, <2>3 DEF NumberConflict, LineGone
<1> QED
  BY <1>1, DropFacts

-----------------------------------------------------------------------------
(* The steps that write documents, row by row.                             *)

LEMMA ReplaceRows ==
  ASSUME DocTypes, NEW r \in Req, NEW qty \in [Slot -> Ordered], ReplaceLines(r, qty)
  PROVE  /\ lines' \in TableOf(Line, LineRow) /\ lines'.now = lines.now
         /\ \A l \in targets[r] : lines.lock[l] \in {r, Nobody}
         /\ \A l \in Line :
              IF l \in targets[r] \cup New(r)
                THEN /\ lines'.lock[l] = r
                     /\ IF l \in New(r) THEN lines'.work[l].qty > 0 /\ lines'.work[l].received = 0
                                        ELSE lines'.work[l] = NoLine
                ELSE lines'.lock[l] = lines.lock[l] /\ lines'.work[l] = lines.work[l]
<1> DEFINE S == targets[r] \cup New(r)
           row(l) == IF l \in New(r) THEN [qty |-> qty[l[2]], received |-> 0] ELSE NoLine
           W == [l \in Line |-> IF l \in S THEN row(l) ELSE lines.work[l]]
           L == [l \in Line |-> IF l \in S THEN r ELSE lines.lock[l]]
<1>1. lines' = [lines EXCEPT !.work = W, !.lock = L]
  BY DEF ReplaceLines, New
<1>2. \A l \in Line : row(l) \in LineRow /\ (l \in New(r) => row(l).qty > 0 /\ row(l).received = 0)
  <2>1. \A l \in Line : qty[l[2]] \in Nat \ {0}
    BY OrderAssumption DEF Line
  <2> QED
    BY <2>1 DEF LineRow, NoLine
<1>3. lines.work \in [Line -> LineRow] /\ lines.lock \in [Line -> Owner]
      /\ lines.now \in [Line -> LineRow]
  BY DEF DocTypes, TableOf
<1> HIDE DEF row
<1>4. W \in [Line -> LineRow] /\ L \in [Line -> Owner]
  BY <1>2, <1>3 DEF Owner
<1>5. \A l \in Line : IF l \in S THEN L[l] = r /\ W[l] = row(l)
                                 ELSE L[l] = lines.lock[l] /\ W[l] = lines.work[l]
  OBVIOUS
<1> HIDE DEF W, L, S
<1>6. lines'.now = lines.now /\ lines'.work = W /\ lines'.lock = L
      /\ lines' \in TableOf(Line, LineRow)
  BY <1>1, <1>3, <1>4 DEF DocTypes, TableOf
<1>7. \A l \in Line : l \notin New(r) => row(l) = NoLine
  BY DEF row
<1> QED
  BY <1>2, <1>5, <1>6, <1>7 DEF ReplaceLines, Writable, S

LEMMA InsertRows ==
  ASSUME DocTypes, NEW r \in Req, NEW o \in Order,
         NEW qty \in [Slot -> Ordered], InsertOrder(r, o, qty)
  PROVE  /\ status' \in TableOf(Order, Status) /\ lines' \in TableOf(Line, LineRow)
         /\ CreatesOrder(r, o)
<1> DEFINE row(l) == [qty |-> qty[l[2]], received |-> 0]
           With(rows) == [l \in Line |-> IF l[1] = o /\ l[3] = Nobody THEN row(l) ELSE rows[l]]
<1>1. status' = Save(status, o, "DRAFT") /\ "DRAFT" \in Status /\ status.now[o] = Absent
      /\ doc'[r] = o
  BY DEF InsertOrder, Status, PurchaseOrderStatus, DocTypes
<1>2. lines' = [lines EXCEPT !.now = With(lines.now), !.work = With(lines.work)]
  BY DEF InsertOrder, NewLines
<1>3. \A l \in Line : row(l) \in LineRow /\ row(l).qty > 0 /\ row(l).received = 0
  <2>1. \A l \in Line : qty[l[2]] \in Nat \ {0}
    BY OrderAssumption DEF Line
  <2> QED
    BY <2>1 DEF LineRow
<1>4. lines.work \in [Line -> LineRow] /\ lines.now \in [Line -> LineRow]
  BY DEF DocTypes, TableOf
<1> HIDE DEF row
<1> DEFINE N == With(lines.now)
           W == With(lines.work)
<1>5. N \in [Line -> LineRow] /\ W \in [Line -> LineRow]
  BY <1>3, <1>4
<1>6. \A l \in Line : IF l[1] = o /\ l[3] = Nobody THEN N[l] = row(l) /\ W[l] = row(l)
                                                   ELSE N[l] = lines.now[l] /\ W[l] = lines.work[l]
  OBVIOUS
<1> HIDE DEF N, W
<1>7. /\ lines'.now = N /\ lines'.work = W /\ lines'.lock = lines.lock
      /\ lines' \in TableOf(Line, LineRow)
  BY <1>2, <1>5 DEF DocTypes, TableOf, N, W
<1>8. /\ status' \in TableOf(Order, Status) /\ status'.lock = status.lock
      /\ \A k \in Order : /\ status'.work[k] = IF k = o THEN "DRAFT" ELSE status.work[k]
                          /\ status'.now[k] = IF k = o THEN "DRAFT" ELSE status.now[k]
  BY <1>1, SaveFacts DEF DocTypes
<1>10. \A l \in Line : lines'.now[l] = N[l] /\ lines'.work[l] = W[l]
  BY <1>7
<1>13. ASSUME NEW l \in Line
       PROVE  IF l[1] = o /\ l[3] = Nobody
                THEN /\ lines'.now[l].qty > 0 /\ lines'.now[l].received = 0
                     /\ lines'.work[l] = lines'.now[l]
                ELSE lines'.now[l] = lines.now[l] /\ lines'.work[l] = lines.work[l]
  BY <1>3, <1>6, <1>10
<1>14. CreatesOrder(r, o)
  BY <1>1, <1>7, <1>8, <1>13 DEF CreatesOrder
<1> QED
  BY <1>7, <1>8, <1>14

LEMMA ReceiveRows ==
  ASSUME Documents, NEW r \in Req, ReceiveLine(r)
  PROVE  LET l == LineKey(r)
         IN  /\ l \in Line /\ lines' \in TableOf(Line, LineRow) /\ lines'.now = lines.now
             /\ \A k \in Line \ {l} : /\ lines'.lock[k] = lines.lock[k]
                                      /\ lines'.work[k] = lines.work[k]
             /\ lines.lock[l] \in {r, Nobody} /\ lines'.lock[l] = r
             /\ Seen(lines, r)[l] # NoLine
             /\ lines'.work[l] = [qty      |-> Seen(lines, r)[l].qty,
                                  received |-> Seen(lines, r)[l].received + Current(r).qty]
<1> DEFINE l == LineKey(r)
           row == Seen(lines, r)[l]
           v == [row EXCEPT !.received = row.received + Current(r).qty]
<1>0. /\ op[r] = "receive" /\ doc[r] \in Order /\ todo[r] \in Dto
      /\ todo[r].at \in 1..Len(todo[r].lines)
  <2>1. pc[r] = "line"
    BY DEF ReceiveLine
  <2>2. op[r] = "receive"
    BY <2>1 DEF Documents, Stages
  <2> QED
    BY <2>1, <2>2 DEF Documents, Places, Placed, OrderOps, DocTypes
<1>1. l \in Line /\ Current(r).qty \in Nat
  <2>1. todo[r].lines[todo[r].at].slot \in Slot /\ todo[r].lines[todo[r].at].qty \in Nat /\ todo[r].by \in Owner
    BY <1>0, DtoFacts
  <2> QED
    BY <1>0, <2>1 DEF LineKey, Line, Current
<1>2. row \in LineRow
  BY <1>1, SeenFacts DEF Documents, DocTypes
<1> HIDE DEF row
<1>3. v \in LineRow /\ v = [qty |-> row.qty, received |-> row.received + Current(r).qty]
  BY <1>1, <1>2 DEF LineRow
<1>4. lines' = Put(lines, r, l, v) /\ Writable(lines, r, l) /\ Seen(lines, r)[l] # NoLine
  BY DEF ReceiveLine, LineStands, row
<1> HIDE DEF v, l
<1>5. /\ Put(lines, r, l, v) \in TableOf(Line, LineRow) /\ Put(lines, r, l, v).now = lines.now
      /\ \A k \in Line : /\ Put(lines, r, l, v).work[k] = IF k = l THEN v ELSE lines.work[k]
                         /\ Put(lines, r, l, v).lock[k] = IF k = l THEN r ELSE lines.lock[k]
  BY <1>1, <1>3, PutFacts DEF Documents, DocTypes
<1> QED
  BY <1>1, <1>3, <1>4, <1>5 DEF l, row, Writable

\* A write of the order's row in a transaction that holds no order yet.
LEMMA TakeRows ==
  ASSUME Documents, NEW r \in Req, doc[r] \in Order, pc[r] # "commit", NEW v \in Status,
         Writable(status, r, doc[r]), status' = Put(status, r, doc[r], v)
  PROVE  status' \in TableOf(Order, Status) /\ Takes(r, v)
<1> USE NobodyAssumption DEF Documents
<1>1. status.lock[doc[r]] = Nobody
  BY DEF Writable, StatusHolders
<1>2. status \in TableOf(Order, Status)
  BY DEF DocTypes
<1> QED
  BY <1>1, <1>2, PutFacts DEF Takes

LEMMA SeenStatus ==
  ASSUME Documents, NEW r \in Req, doc[r] \in Order
  PROVE  /\ status.now[doc[r]] \in Status /\ Seen(status, r)[doc[r]] \in Status
         /\ status.lock[doc[r]] = Nobody => Seen(status, r)[doc[r]] = status.now[doc[r]]
<1>1. status \in TableOf(Order, Status)
  BY DEF Documents, DocTypes
<1>2. /\ Seen(status, r) \in [Order -> Status]
      /\ Seen(status, r)[doc[r]] = IF status.lock[doc[r]] = r THEN status.work[doc[r]] ELSE status.now[doc[r]]
  BY <1>1, SeenFacts
<1> QED
  BY <1>1, <1>2, NobodyAssumption DEF TableOf

LEMMA OrderFacts ==
  ASSUME P!BookTypes, Documents, NEW r \in Req,
         \/ \E o \in Order, qty \in [Slot -> Ordered] : InsertOrder(r, o, qty)
         \/ FindLines(r) \/ \E qty \in [Slot -> Ordered] : ReplaceLines(r, qty)
         \/ UpdateHeader(r) \/ SetStatus(r)
  PROVE  StepFacts(r)
<1> USE StockParts
<1>0. DocTypes /\ Stages /\ Places
  BY DEF Documents
<1>1. ASSUME NEW o \in Order, NEW qty \in [Slot -> Ordered], InsertOrder(r, o, qty)
      PROVE  StepFacts(r)
  <2>1. /\ pc[r] = "insert" /\ op[r] = "create" /\ pc' = [pc EXCEPT ![r] = "ok"] /\ UNCHANGED <<op, mv>>
        /\ numbers' = [numbers EXCEPT !["SAS"].rows = number[r]]
        /\ doc' = [doc EXCEPT ![r] = o]
        /\ UNCHANGED <<receipts, number, targets, fully, todo>>
    BY <1>1 DEF InsertOrder, stockVars
  <2>2. /\ status' \in TableOf(Order, Status) /\ lines' \in TableOf(Line, LineRow)
        /\ CreatesOrder(r, o)
    BY <1>0, <1>1, InsertRows
  <2>3. numbers' \in [{"SAS", "MAL"} -> Series] /\ numbers'["MAL"] = numbers["MAL"]
    BY <1>0, <2>1 DEF DocTypes, Series
  <2>4. DocTypes'
    BY <1>0, <2>1, <2>2, <2>3 DEF DocTypes, Label, Inv!Answered
  <2>5. Stages'
    BY <1>0, <2>1 DEF DocTypes, Stages, OrderOps
  <2>6. Places'
    <3>1. \A q \in Req \ {r} : doc'[q] = doc[q] /\ pc'[q] = pc[q]
      BY <1>0, <2>1 DEF DocTypes
    <3>2. Placed(op[r], pc[r], doc[r], todo[r], mv[r], targets[r])
      BY <1>0 DEF Places
    <3>3. Placed(op[r], "ok", o, todo[r], mv[r], targets[r])
      BY <2>1, <3>2 DEF Placed, OrderOps
    <3> QED
      BY <1>0, <2>1, <3>1, <3>3 DEF Places, DocTypes
  <2>7. Rest(r)
    BY <1>0, <2>1 DEF DocTypes, Rest
  <2>8. Creates(r)
    BY <1>0, <2>1, <2>2, <2>3 DEF DocTypes, Creates, SameNumbers
  <2> QED
    BY <2>4, <2>5, <2>6, <2>7, <2>8 DEF StepFacts, Shapes
<1>2. CASE FindLines(r)
  <2> DEFINE T == {l \in LinesOf(doc[r]) : lines.now[l] # NoLine}
  <2>1. /\ pc[r] = "find lines" /\ pc' = [pc EXCEPT ![r] = "delete"]
        /\ targets' = [targets EXCEPT ![r] = T]
        /\ T \subseteq LinesOf(doc[r]) /\ T \in SUBSET Line
        /\ UNCHANGED <<op, mv, status, lines, numbers, receipts, doc, number, fully, todo>>
    BY <1>2 DEF FindLines, stockVars, LinesOf
  <2>2. op[r] = "update"
    BY <1>0, <2>1 DEF Stages
  <2> HIDE DEF T
  <2>3. DocTypes'
    BY <1>0, <2>1 DEF DocTypes, Label
  <2>4. Stages'
    BY <1>0, <2>1, <2>2 DEF DocTypes, Stages, OrderOps
  <2>5. Places'
    BY <1>0, <2>1, <2>2 DEF DocTypes, Places, Placed
  <2>6. Rest(r)
    BY <1>0, <2>1 DEF DocTypes, Rest
  <2>7. Calm(r)
    BY <1>0, <2>1, <2>2 DEF DocTypes, Calm, SameNumbers, Receiving, Inv!Answered
  <2> QED
    BY <2>3, <2>4, <2>5, <2>6, <2>7 DEF StepFacts, Shapes
<1>3. ASSUME NEW qty \in [Slot -> Ordered], ReplaceLines(r, qty) PROVE StepFacts(r)
  <2>1. /\ pc[r] = "delete" /\ pc' = [pc EXCEPT ![r] = "header"]
        /\ targets' = [targets EXCEPT ![r] = {}]
        /\ UNCHANGED <<op, mv, status, numbers, receipts, doc, number, fully, todo>>
    BY <1>3 DEF ReplaceLines, stockVars
  <2>2. op[r] = "update"
    BY <1>0, <2>1 DEF Stages
  <2>3. DocTypes'
    BY <1>0, <1>3, <2>1, ReplaceRows DEF DocTypes, Label
  <2>4. Stages'
    BY <1>0, <2>1, <2>2 DEF DocTypes, Stages, OrderOps
  <2>5. Places'
    BY <1>0, <2>1, <2>2 DEF DocTypes, Places, Placed
  <2>6. Rest(r)
    BY <1>0, <2>1 DEF DocTypes, Rest
  <2>7. Replaces(r)
    <3>1. /\ lines'.now = lines.now
          /\ \A l \in targets[r] : lines.lock[l] \in {r, Nobody}
          /\ \A l \in Line :
               IF l \in targets[r] \cup New(r)
                 THEN /\ lines'.lock[l] = r
                      /\ IF l \in New(r) THEN lines'.work[l].qty > 0 /\ lines'.work[l].received = 0
                                         ELSE lines'.work[l] = NoLine
                 ELSE lines'.lock[l] = lines.lock[l] /\ lines'.work[l] = lines.work[l]
      BY <1>0, <1>3, ReplaceRows
    <3>2. pc'[r] = "header"
      BY <1>0, <2>1 DEF DocTypes
    <3> QED
      BY <2>1, <2>2, <3>1, <3>2 DEF Replaces, SameNumbers
  <2> QED
    BY <2>3, <2>4, <2>5, <2>6, <2>7 DEF StepFacts, Shapes
<1>4. CASE UpdateHeader(r)
  <2>1. /\ op[r] = "update" /\ pc[r] \in {"find lines", "header"} /\ pc' = [pc EXCEPT ![r] = "commit"]
        /\ Writable(status, r, doc[r])
        /\ status' = Put(status, r, doc[r], Seen(status, r)[doc[r]])
        /\ UNCHANGED <<op, mv, lines, numbers, receipts, doc, number, targets, fully, todo>>
    BY <1>4 DEF UpdateHeader, stockVars
  <2>2. doc[r] \in Order
    BY <1>0, <2>1 DEF Places, Placed, OrderOps
  <2> DEFINE v == Seen(status, r)[doc[r]]
  <2>3. v \in Status /\ (status.lock[doc[r]] = Nobody => v = status.now[doc[r]])
    BY <2>2, SeenStatus
  <2>4. status' \in TableOf(Order, Status) /\ Takes(r, v)
    <3>1. status' = Put(status, r, doc[r], v) /\ pc[r] # "commit"
      BY <2>1
    <3> HIDE DEF v
    <3> QED
      BY <2>1, <2>2, <2>3, <3>1, TakeRows
  <2>5. Takes(r, status.now[doc[r]])
    <3> HIDE DEF v
    <3> QED
      BY <2>3, <2>4 DEF Takes
  <2>6. DocTypes'
    BY <1>0, <2>1, <2>4 DEF DocTypes, Label
  <2>7. Stages'
    BY <1>0, <2>1 DEF DocTypes, Stages, OrderOps
  <2>8. Places'
    BY <1>0, <2>1 DEF DocTypes, Places, Placed
  <2>9. Rest(r)
    BY <1>0, <2>1 DEF DocTypes, Rest
  <2>10. Heads(r)
    BY <1>0, <2>1, <2>5 DEF DocTypes, Heads, SameNumbers
  <2> QED
    BY <2>6, <2>7, <2>8, <2>9, <2>10 DEF StepFacts, Shapes
<1>5. CASE SetStatus(r)
  <2>1. /\ pc[r] = "write" /\ pc' = [pc EXCEPT ![r] = "ok"] /\ Writable(status, r, doc[r])
        /\ UNCHANGED <<op, mv, lines, numbers, receipts, doc, number, targets, fully, todo>>
    BY <1>5 DEF SetStatus, stockVars
  <2>2. op[r] \in {"confirm", "cancel"} /\ doc[r] \in Order
    BY <1>0, <2>1 DEF Stages, Places, Placed, OrderOps
  <2>3. PICK v \in {"CONFIRMED", "CANCELLED"} :
          (v = "CONFIRMED" => op[r] = "confirm") /\ status' = Save(status, doc[r], v)
    BY <1>5 DEF SetStatus
  <2>4. status \in TableOf(Order, Status) /\ v \in Status
    BY <1>0 DEF DocTypes, Status, PurchaseOrderStatus
  <2>5. /\ status' \in TableOf(Order, Status) /\ status'.lock = status.lock
        /\ \A k \in Order : /\ status'.now[k] = IF k = doc[r] THEN v ELSE status.now[k]
                            /\ status'.work[k] = IF k = doc[r] THEN v ELSE status.work[k]
    BY <2>2, <2>3, <2>4, SaveFacts
  <2>6. status.lock[doc[r]] = Nobody
    <3>1. status.lock[doc[r]] # r
      BY <2>1, <2>2 DEF Documents, StatusHolders
    <3> QED
      BY <2>1, <3>1 DEF Writable
  <2>7. DocTypes'
    BY <1>0, <2>1, <2>5 DEF DocTypes, Label, Inv!Answered
  <2>8. Stages'
    BY <1>0, <2>1 DEF DocTypes, Stages, OrderOps
  <2>9. Places'
    BY <1>0, <2>1 DEF DocTypes, Places, Placed
  <2>10. Rest(r)
    BY <1>0, <2>1 DEF DocTypes, Rest
  <2>11. Sets(r)
    BY <1>0, <2>1, <2>2, <2>3, <2>5, <2>6 DEF DocTypes, Sets, SameNumbers
  <2> QED
    BY <2>7, <2>8, <2>9, <2>10, <2>11 DEF StepFacts, Shapes
<1> QED
  BY <1>1, <1>2, <1>3, <1>4, <1>5

LEMMA ReceiptFacts ==
  ASSUME P!BookTypes, Documents, NEW r \in Req,
         InsertReceipt(r) \/ ReceiveLine(r) \/ ReceiptLogged(r) \/ RereadLines(r) \/ SetReceived(r)
  PROVE  StepFacts(r)
<1> USE StockParts
<1>0. DocTypes /\ Stages /\ Places
  BY DEF Documents
<1>1. CASE InsertReceipt(r)
  <2>1. /\ pc[r] = "insert" /\ op[r] = "receive" /\ pc' = [pc EXCEPT ![r] = "line"]
        /\ Insertable(numbers["MAL"], number[r])
        /\ numbers' = [numbers EXCEPT !["MAL"] = Insert(numbers["MAL"], r)]
        /\ UNCHANGED <<op, mv, status, lines, receipts, doc, number, targets, fully, todo>>
    BY <1>1 DEF InsertReceipt, stockVars
  <2>2. /\ numbers' \in [{"SAS", "MAL"} -> Series] /\ numbers'["MAL"] = Insert(numbers["MAL"], r)
        /\ numbers["MAL"].holder = Nobody
    BY <1>0, <2>1, SeriesFacts DEF DocTypes, Insertable
  <2>3. DocTypes'
    BY <1>0, <2>1, <2>2 DEF DocTypes, Label
  <2>4. Stages'
    BY <1>0, <2>1 DEF DocTypes, Stages, OrderOps
  <2>5. Places'
    BY <1>0, <2>1 DEF DocTypes, Places, Placed
  <2>6. Rest(r)
    BY <1>0, <2>1 DEF DocTypes, Rest
  <2>7. Enters(r)
    BY <1>0, <2>1, <2>2 DEF DocTypes, Enters
  <2> QED
    BY <2>3, <2>4, <2>5, <2>6, <2>7 DEF StepFacts, Shapes
<1>2. CASE ReceiveLine(r)
  <2> DEFINE m == [type |-> "PURCHASE_IN",
                   item |-> <<todo[r].warehouse, ProductOf[Current(r).slot]>>,
                   qty |-> Current(r).qty, cost |-> Current(r).cost]
  <2>1. /\ pc[r] = "line" /\ pc' = [pc EXCEPT ![r] = "find"] /\ mv' = [mv EXCEPT ![r] = m]
        /\ UNCHANGED <<op, status, numbers, receipts, doc, number, targets, fully, todo>>
    BY <1>2 DEF ReceiveLine
  <2>2. op[r] = "receive"
    BY <1>0, <2>1 DEF Stages
  <2>3. Delivers(m, todo[r])
    BY DEF Delivers, Current
  <2> HIDE DEF m
  <2>4. DocTypes'
    BY <1>0, <1>2, <2>1, ReceiveRows DEF DocTypes, Label
  <2>5. Stages'
    BY <1>0, <2>1, <2>2 DEF DocTypes, Stages, OrderOps
  <2>6. Places'
    <3>1. \A q \in Req \ {r} : mv'[q] = mv[q] /\ pc'[q] = pc[q]
      BY <1>0, <2>1 DEF DocTypes
    <3>2. Placed(op[r], pc[r], doc[r], todo[r], mv[r], targets[r])
      BY <1>0 DEF Places
    <3>3. Placed(op[r], "find", doc[r], todo[r], m, targets[r])
      BY <2>1, <2>2, <2>3, <3>2 DEF Placed
    <3> QED
      BY <1>0, <2>1, <3>1, <3>3 DEF Places, DocTypes
  <2>7. Rest(r)
    BY <1>0, <2>1 DEF DocTypes, Rest
  <2>8. Receives(r)
    <3>1. pc'[r] = "find"
      BY <1>0, <2>1 DEF DocTypes
    <3> DEFINE l == LineKey(r)
    <3>2. /\ l \in Line /\ lines.lock[l] \in {r, Nobody} /\ Seen(lines, r)[l] # NoLine
          /\ lines'.now = lines.now
          /\ \A k \in Line \ {l} : lines'.lock[k] = lines.lock[k] /\ lines'.work[k] = lines.work[k]
          /\ lines'.lock[l] = r
          /\ lines'.work[l] = [qty      |-> Seen(lines, r)[l].qty,
                               received |-> Seen(lines, r)[l].received + Current(r).qty]
      BY <1>2, ReceiveRows
    <3> QED
      BY <2>1, <2>2, <3>1, <3>2 DEF Receives, SameNumbers
  <2> QED
    BY <2>4, <2>5, <2>6, <2>7, <2>8 DEF StepFacts, Shapes
<1>3. CASE ReceiptLogged(r)
  <2> DEFINE l == IF todo[r].at = Len(todo[r].lines) THEN "status" ELSE "line"
             t == [todo[r] EXCEPT !.at = todo[r].at + 1]
  <2>1. /\ pc[r] = "log" /\ op[r] = "receive" /\ pc' = [pc EXCEPT ![r] = l]
        /\ todo' = [todo EXCEPT ![r].at = todo[r].at + 1]
        /\ UNCHANGED <<op, mv, status, lines, numbers, receipts, doc, number, targets, fully>>
    BY <1>3 DEF ReceiptLogged, Inv!LogMovement
  <2>2. todo[r] \in Dto /\ todo[r].at \in 1..Len(todo[r].lines)
        /\ Placed(op[r], pc[r], doc[r], todo[r], mv[r], targets[r])
    BY <1>0, <2>1 DEF Places, Placed, DocTypes
  <2>3. todo[r].at \in Nat /\ Len(todo[r].lines) \in Nat
    BY <2>2, DtoFacts
  <2>4. /\ t \in Dto /\ t.at = todo[r].at + 1 /\ t.lines = todo[r].lines
        /\ t.warehouse = todo[r].warehouse
    BY <2>2, <2>3 DEF Dto
  <2>5. todo' = [todo EXCEPT ![r] = t]
    BY <1>0, <2>1, <2>2 DEF DocTypes
  <2>6. /\ l \in {"status", "line"}
        /\ l = "line" => t.at \in 1..Len(t.lines)
        /\ l = "status" => t.at = Len(t.lines) + 1
    BY <2>2, <2>3, <2>4
  <2>7. pc'[r] = l
    BY <1>0, <2>1 DEF DocTypes
  <2>8. Logs(r)
    BY <2>1, <2>7 DEF Logs, SameNumbers
  <2> HIDE DEF l, t
  <2>9. DocTypes'
    <3>1. pc' \in [Req -> Label] /\ todo' \in [Req -> Dto]
      <4>1. l \in Label
        BY <2>6 DEF Label
      <4>2. pc' = [pc EXCEPT ![r] = l]
        BY <2>1
      <4> QED
        BY <1>0, <2>4, <2>5, <4>1, <4>2 DEF DocTypes
    <3>2. UNCHANGED <<op, status, lines, numbers, receipts, doc, number, targets, fully>>
      BY <2>1
    <3> QED
      BY <1>0, <3>1, <3>2 DEF DocTypes
  <2>10. Stages'
    BY <1>0, <2>1, <2>6 DEF DocTypes, Stages, OrderOps
  <2>11. Places'
    <3>1. \A q \in Req \ {r} : todo'[q] = todo[q] /\ pc'[q] = pc[q]
      BY <1>0, <2>1, <2>5 DEF DocTypes
    <3>3. Placed(op[r], l, doc[r], t, mv[r], targets[r])
      BY <2>1, <2>2, <2>4, <2>6 DEF Placed
    <3> QED
      BY <1>0, <2>1, <2>5, <2>7, <3>1, <3>3 DEF Places, DocTypes
  <2>12. Rest(r)
    BY <1>0, <2>1, <2>5 DEF DocTypes, Rest
  <2> QED
    BY <2>8, <2>9, <2>10, <2>11, <2>12 DEF StepFacts, Shapes
<1>4. CASE RereadLines(r)
  <2> DEFINE f == \A l \in LinesOf(doc[r]) : Remaining(Seen(lines, r)[l]) <= 0
  <2>1. /\ pc[r] = "status" /\ pc' = [pc EXCEPT ![r] = "received"]
        /\ fully' = [fully EXCEPT ![r] = f]
        /\ UNCHANGED <<op, mv, status, lines, numbers, receipts, doc, number, targets, todo>>
    BY <1>4 DEF RereadLines, stockVars
  <2>2. op[r] = "receive"
    BY <1>0, <2>1 DEF Stages
  <2>3. ~f => ShortIn(Seen(lines, r), doc[r])
    <3>1. \A l \in LinesOf(doc[r]) : Remaining(Seen(lines, r)[l]) \in Int
      <4>1. \A l \in Line : Seen(lines, r)[l] \in LineRow
        BY <1>0, SeenFacts DEF DocTypes
      <4> QED
        BY <4>1 DEF LinesOf, LineRow, Remaining
    <3> QED
      BY <3>1 DEF ShortIn
  <2>4. fully' \in [Req -> BOOLEAN] /\ fully'[r] = f /\ \A q \in Req \ {r} : fully'[q] = fully[q]
    <3>1. f \in BOOLEAN
      OBVIOUS
    <3> HIDE DEF f
    <3> QED
      BY <1>0, <2>1, <3>1, Zenon DEF DocTypes
  <2> HIDE DEF f
  <2>5. DocTypes'
    BY <1>0, <2>1, <2>4 DEF DocTypes, Label
  <2>6. Stages'
    BY <1>0, <2>1, <2>2 DEF DocTypes, Stages, OrderOps
  <2>7. Places'
    BY <1>0, <2>1, <2>2 DEF DocTypes, Places, Placed
  <2>8. Rest(r)
    BY <1>0, <2>1, <2>4 DEF DocTypes, Rest
  <2>9. Rereads(r)
    <3>1. pc'[r] = "received"
      BY <1>0, <2>1 DEF DocTypes
    <3>2. ~fully'[r] => ShortIn(Seen(lines, r), doc[r])
      BY <2>3, <2>4, Zenon
    <3> QED
      BY <2>1, <2>2, <3>1, <3>2 DEF Rereads, SameNumbers
  <2> QED
    BY <2>5, <2>6, <2>7, <2>8, <2>9 DEF StepFacts, Shapes
<1>5. CASE SetReceived(r)
  <2> DEFINE v == IF fully[r] THEN "RECEIVED" ELSE "PARTIALLY_RECEIVED"
  <2>1. /\ pc[r] = "received" /\ pc' = [pc EXCEPT ![r] = "commit"]
        /\ Writable(status, r, doc[r])
        /\ status' = Put(status, r, doc[r], v)
        /\ UNCHANGED <<op, mv, lines, numbers, receipts, doc, number, targets, fully, todo>>
    BY <1>5 DEF SetReceived, stockVars
  <2>2. op[r] = "receive" /\ doc[r] \in Order
    BY <1>0, <2>1 DEF Stages, Places, Placed, OrderOps
  <2>3. v \in Status
    BY DEF Status, PurchaseOrderStatus
  <2>4. status' \in TableOf(Order, Status) /\ Takes(r, v)
    <3> HIDE DEF v
    <3> QED
      BY <2>1, <2>2, <2>3, TakeRows
  <2>5. DocTypes'
    BY <1>0, <2>1, <2>4 DEF DocTypes, Label
  <2>6. Stages'
    BY <1>0, <2>1, <2>2 DEF DocTypes, Stages, OrderOps
  <2>7. Places'
    BY <1>0, <2>1, <2>2 DEF DocTypes, Places, Placed
  <2>8. Rest(r)
    BY <1>0, <2>1 DEF DocTypes, Rest
  <2>9. Heads(r)
    <3>1. pc'[r] = "commit"
      BY <1>0, <2>1 DEF DocTypes
    <3> QED
      BY <2>1, <2>2, <2>4, <3>1 DEF Heads, SameNumbers
  <2> QED
    BY <2>5, <2>6, <2>7, <2>8, <2>9 DEF StepFacts, Shapes
<1> QED
  BY <1>1, <1>2, <1>3, <1>4, <1>5

LEMMA CommitRows ==
  ASSUME P!BookTypes, Documents, NEW r \in Req, CommitOrder(r)
  PROVE  StepFacts(r)
<1> USE StockParts
<1>0. DocTypes /\ Stages /\ Places
  BY DEF Documents
<1>1. /\ pc[r] = "commit" /\ op[r] \in {"update", "receive"} /\ pc' = [pc EXCEPT ![r] = "ok"]
      /\ status' = Commit(status, r) /\ lines' = Commit(lines, r)
      /\ numbers' = [n \in DOMAIN numbers |-> CommitSeries(numbers[n], r)]
      /\ receipts' = IF op[r] = "receive" THEN Append(receipts, Writing(r)) ELSE receipts
      /\ UNCHANGED <<op, mv, doc, number, targets, fully, todo>>
  BY DEF CommitOrder, Inv!KeepStock, Writing
<1>2. /\ status \in TableOf(Order, Status) /\ lines \in TableOf(Line, LineRow)
      /\ numbers \in [{"SAS", "MAL"} -> Series] /\ receipts \in Seq(Receipt)
  BY <1>0 DEF DocTypes
<1>3. /\ status' \in TableOf(Order, Status)
      /\ \A k \in Order : /\ status'.now[k] = IF status.lock[k] = r THEN status.work[k] ELSE status.now[k]
                          /\ status'.work[k] = status.work[k]
                          /\ status'.lock[k] = IF status.lock[k] = r THEN Nobody ELSE status.lock[k]
  BY <1>1, <1>2, CommitFacts
<1>4. /\ lines' \in TableOf(Line, LineRow)
      /\ \A k \in Line : /\ lines'.now[k] = IF lines.lock[k] = r THEN lines.work[k] ELSE lines.now[k]
                         /\ lines'.work[k] = lines.work[k]
                         /\ lines'.lock[k] = IF lines.lock[k] = r THEN Nobody ELSE lines.lock[k]
  BY <1>1, <1>2, CommitFacts
<1>5. numbers' \in [{"SAS", "MAL"} -> Series] /\ numbers'["MAL"] = CommitSeries(numbers["MAL"], r)
  <2>1. \A n \in {"SAS", "MAL"} : CommitSeries(numbers[n], r) \in Series
    BY <1>2, SeriesFacts
  <2>2. numbers' = [n \in {"SAS", "MAL"} |-> CommitSeries(numbers[n], r)]
    BY <1>1, <1>2
  <2> QED
    BY <2>1, <2>2
<1>6. receipts' \in Seq(Receipt)
  <2>1. CASE op[r] = "receive"
    <3>1. doc[r] \in Order /\ todo[r] \in Dto
      BY <1>0, <2>1 DEF Places, Placed, OrderOps, DocTypes
    <3>2. Writing(r) \in Receipt
      BY <3>1 DEF Writing, Receipt
    <3> QED
      BY <1>1, <1>2, <2>1, <3>2
  <2> QED
    BY <1>1, <1>2, <2>1
<1>7. DocTypes'
  BY <1>0, <1>1, <1>3, <1>4, <1>5, <1>6 DEF DocTypes, Label, Inv!Answered
<1>8. Stages'
  BY <1>0, <1>1 DEF DocTypes, Stages, OrderOps
<1>9. Places'
  BY <1>0, <1>1 DEF DocTypes, Places, Placed
<1>10. Rest(r)
  BY <1>0, <1>1 DEF DocTypes, Rest
<1>11. Commits(r)
  <2>1. pc'[r] = "ok"
    BY <1>0, <1>1 DEF DocTypes
  <2> QED
    BY <1>1, <1>3, <1>4, <1>5, <2>1 DEF Commits
<1> QED
  BY <1>7, <1>8, <1>9, <1>10, <1>11 DEF StepFacts, Shapes

LEMMA AllFacts ==
  ASSUME P!BookTypes, Documents, NEW r \in Req, Start(r) \/ Step(r) \/ Abort(r)
  PROVE  StepFacts(r)
BY StartFacts, InventoryFacts, EndFacts, OrderFacts, ReceiptFacts, CommitRows DEF Step

-----------------------------------------------------------------------------
(* Who holds which rows.                                                   *)

LEMMA StatusHoldersStep ==
  ASSUME Documents, NEW r \in Req, StepFacts(r)
  PROVE  StatusHolders' /\ Existing'
<1> DEFINE H(o) ==
             /\ status'.lock[o] = Nobody => status'.work[o] = status'.now[o]
             /\ \A q \in Req : status'.lock[o] = q =>
                  /\ pc'[q] = "commit" /\ op'[q] \in {"update", "receive"} /\ doc'[q] = o
                  /\ op'[q] = "update" => status'.work[o] = status'.now[o]
                  /\ op'[q] = "receive" =>
                       status'.work[o] = IF fully'[q] THEN "RECEIVED" ELSE "PARTIALLY_RECEIVED"
           K(q) == pc'[q] = "commit" /\ op'[q] \in {"update", "receive"} => status'.lock[doc'[q]] = q
           E(q) == op'[q] \in OrderOps => status'.now[doc'[q]] # Absent
           G == (\A o \in Order : H(o)) /\ (\A q \in Req : K(q)) /\ (\A q \in Req : E(q))
<1> USE NobodyAssumption
<1>0. /\ \A q \in Req \ {r} : pc'[q] = pc[q] /\ op'[q] = op[q] /\ doc'[q] = doc[q] /\ fully'[q] = fully[q]
      /\ \A q \in Req : op[q] \in OrderOps => doc[q] \in Order
      /\ \A q \in Req : op'[q] \in OrderOps => doc'[q] \in Order
      /\ pc[r] = "idle" => op[r] = "none"
  BY DEF Documents, StepFacts, Rest, Places, Placed, Stages
<1>a. /\ \A o \in Order :
           /\ status.lock[o] = Nobody => status.work[o] = status.now[o]
           /\ \A q \in Req : status.lock[o] = q =>
                /\ pc[q] = "commit" /\ op[q] \in {"update", "receive"} /\ doc[q] = o
                /\ op[q] = "update" => status.work[o] = status.now[o]
                /\ op[q] = "receive" =>
                     status.work[o] = IF fully[q] THEN "RECEIVED" ELSE "PARTIALLY_RECEIVED"
      /\ \A q \in Req : pc[q] = "commit" /\ op[q] \in {"update", "receive"} =>
           status.lock[doc[q]] = q
      /\ \A q \in Req : op[q] \in OrderOps => status.now[doc[q]] # Absent
  BY DEF Documents, StatusHolders, Existing
<1>b. \A q \in Req : op[q] \in {"update", "receive"} => doc[q] \in Order /\ status.now[doc[q]] # Absent
  BY <1>0, <1>a DEF OrderOps
<1>1. ASSUME Begins(r) PROVE G
  BY <1>0, <1>a, <1>1 DEF Begins, OrderOps
<1>2. ASSUME Calm(r) PROVE G
  <2>1. /\ UNCHANGED <<status, op, doc, fully>>
        /\ pc[r] = "commit" => op[r] \notin {"update", "receive"}
        /\ pc'[r] = "commit" => op[r] \notin {"update", "receive"}
    BY <1>2 DEF Calm, Receiving
  <2> QED
    BY <1>0, <1>a, <2>1
<1>3. ASSUME Creates(r) PROVE G
  <2>1. PICK o \in Order : CreatesOrder(r, o)
    BY <1>3 DEF Creates
  <2>2. /\ op[r] = "create" /\ UNCHANGED <<op, fully>> /\ doc'[r] = o /\ status.now[o] = Absent
        /\ status'.lock = status.lock
        /\ \A k \in Order : /\ status'.now[k] = IF k = o THEN "DRAFT" ELSE status.now[k]
                            /\ status'.work[k] = IF k = o THEN "DRAFT" ELSE status.work[k]
    BY <1>3, <2>1 DEF Creates, CreatesOrder
  <2>3. \A q \in Req : status.lock[o] # q
    BY <1>a, <1>b, <2>2
  <2>4. \A k \in Order : H(k)
    BY <1>0, <1>a, <2>2, <2>3
  <2>5. \A q \in Req : K(q) /\ E(q)
    BY <1>0, <1>a, <2>2 DEF OrderOps, Absent
  <2> QED
    BY <2>4, <2>5
<1>4. ASSUME Replaces(r) \/ Enters(r) \/ Receives(r) \/ Logs(r) \/ Rereads(r) PROVE G
  <2>1. /\ UNCHANGED <<status, op, doc>> /\ pc[r] # "commit" /\ pc'[r] # "commit"
    BY <1>4 DEF Replaces, Enters, Receives, Logs, Rereads
  <2> QED
    BY <1>0, <1>a, <2>1
<1>5. ASSUME Heads(r) PROVE G
  <2>1. PICK v : /\ Takes(r, v)
                 /\ op[r] = "update" => v = status.now[doc[r]]
                 /\ op[r] = "receive" => v = IF fully[r] THEN "RECEIVED" ELSE "PARTIALLY_RECEIVED"
    BY <1>5 DEF Heads
  <2>2. /\ op[r] \in {"update", "receive"} /\ pc[r] # "commit" /\ pc'[r] = "commit"
        /\ UNCHANGED <<op, doc, fully>>
    BY <1>5 DEF Heads
  <2>3. /\ status.lock[doc[r]] = Nobody /\ status'.now = status.now
        /\ \A k \in Order : /\ status'.work[k] = IF k = doc[r] THEN v ELSE status.work[k]
                            /\ status'.lock[k] = IF k = doc[r] THEN r ELSE status.lock[k]
    BY <2>1 DEF Takes
  <2>4. \A k \in Order : H(k)
    BY <1>0, <1>a, <1>b, <2>1, <2>2, <2>3
  <2>5. \A q \in Req : K(q) /\ E(q)
    BY <1>0, <1>a, <1>b, <2>2, <2>3
  <2> QED
    BY <2>4, <2>5
<1>6. ASSUME Sets(r) PROVE G
  <2>1. PICK v \in {"CONFIRMED", "CANCELLED"} :
          \A k \in Order : /\ status'.now[k] = IF k = doc[r] THEN v ELSE status.now[k]
                           /\ status'.work[k] = IF k = doc[r] THEN v ELSE status.work[k]
    BY <1>6 DEF Sets
  <2>2. /\ pc'[r] = "ok" /\ pc[r] = "write" /\ UNCHANGED <<op, doc, fully>>
        /\ status.lock[doc[r]] = Nobody /\ status'.lock = status.lock
    BY <1>6 DEF Sets
  <2>3. \A k \in Order : H(k)
    BY <1>0, <1>a, <2>1, <2>2
  <2>4. \A q \in Req : K(q) /\ E(q)
    BY <1>0, <1>a, <2>1, <2>2 DEF Absent
  <2> QED
    BY <2>3, <2>4
<1>7. ASSUME Commits(r) PROVE G
  <2>1. /\ pc'[r] = "ok" /\ pc[r] = "commit" /\ UNCHANGED <<op, doc, fully>>
        /\ \A k \in Order :
             /\ status'.now[k] = IF status.lock[k] = r THEN status.work[k] ELSE status.now[k]
             /\ status'.work[k] = status.work[k]
             /\ status'.lock[k] = IF status.lock[k] = r THEN Nobody ELSE status.lock[k]
    BY <1>7 DEF Commits
  <2>2. \A k \in Order : H(k)
    BY <1>0, <1>a, <2>1
  <2>3. \A q \in Req : K(q)
    BY <1>0, <1>a, <1>b, <2>1
  <2>4. \A k \in Order : status.now[k] # Absent => status'.now[k] # Absent
    BY <1>a, <2>1 DEF Absent
  <2>5. \A q \in Req : E(q)
    BY <1>0, <1>a, <2>1, <2>4
  <2> QED
    BY <2>2, <2>3, <2>5
<1>8. ASSUME Drops(r) PROVE G
  <2>1. /\ pc'[r] # "commit" /\ UNCHANGED <<op, doc, fully>> /\ status'.now = status.now
        /\ \A k \in Order :
             /\ status'.work[k] = IF status.lock[k] = r THEN status.now[k] ELSE status.work[k]
             /\ status'.lock[k] = IF status.lock[k] = r THEN Nobody ELSE status.lock[k]
    BY <1>8 DEF Drops
  <2>2. \A k \in Order : H(k)
    BY <1>0, <1>a, <2>1
  <2>3. \A q \in Req : K(q) /\ E(q)
    BY <1>0, <1>a, <1>b, <2>1
  <2> QED
    BY <2>2, <2>3
<1> HIDE DEF G
<1>9. G
  BY <1>1, <1>2, <1>3, <1>4, <1>5, <1>6, <1>7, <1>8 DEF StepFacts, Shapes
<1> QED
  BY <1>9 DEF G, StatusHolders, Existing

\* What a request that writes has to do with the lines it holds.
Holds(r, l) ==
  /\ l[1] = doc[r]
  /\ \/ /\ op[r] = "update" /\ pc[r] \in {"header", "commit"}
        /\ IF l[3] = r THEN lines.work[l].qty > 0 /\ lines.work[l].received = 0
                       ELSE lines.work[l] = NoLine
        /\ \A s \in Slot : lines.lock[<<doc[r], s, r>>] = r
     \/ Receiving(r) /\ lines.now[l] # NoLine

LEMMA HeldFacts ==
  ASSUME Documents
  PROVE  /\ \A l \in Line : lines.lock[l] = Nobody => lines.work[l] = lines.now[l]
         /\ \A l \in Line, r \in Req : lines.lock[l] = r => Holds(r, l)
BY DEF Documents, LineHolders, Holds

LEMMA LineHoldersStep ==
  ASSUME Documents, NEW r \in Req, StepFacts(r)
  PROVE  LineHolders'
<1> DEFINE U(q, l) ==
             /\ op'[q] = "update" /\ pc'[q] \in {"header", "commit"}
             /\ IF l[3] = q THEN lines'.work[l].qty > 0 /\ lines'.work[l].received = 0
                            ELSE lines'.work[l] = NoLine
             /\ \A s \in Slot : lines'.lock[<<doc'[q], s, q>>] = q
           V(q, l) == Receiving(q)' /\ lines'.now[l] # NoLine
           H(q, l) == l[1] = doc'[q] /\ (U(q, l) \/ V(q, l))
           G == \A l \in Line :
                  /\ lines'.lock[l] = Nobody => lines'.work[l] = lines'.now[l]
                  /\ \A q \in Req : lines'.lock[l] = q => H(q, l)
<1> USE NobodyAssumption
<1>0. /\ \A q \in Req \ {r} : pc'[q] = pc[q] /\ op'[q] = op[q] /\ doc'[q] = doc[q]
      /\ \A q \in Req \ {r} : Receiving(q)' <=> Receiving(q)
      /\ \A q \in Req : op[q] \in OrderOps => doc[q] \in Order
      /\ pc[r] = "idle" => op[r] = "none"
  BY DEF Documents, StepFacts, Rest, Places, Placed, Stages, Receiving
<1>a. /\ \A l \in Line : lines.lock[l] = Nobody => lines.work[l] = lines.now[l]
      /\ \A l \in Line, q \in Req : lines.lock[l] = q =>
           /\ l[1] = doc[q]
           /\ \/ /\ op[q] = "update" /\ pc[q] \in {"header", "commit"}
                 /\ IF l[3] = q THEN lines.work[l].qty > 0 /\ lines.work[l].received = 0
                                ELSE lines.work[l] = NoLine
                 /\ \A s \in Slot : lines.lock[<<doc[q], s, q>>] = q
              \/ Receiving(q) /\ lines.now[l] # NoLine
  BY HeldFacts DEF Holds
<1>c. \A l \in Line : l = <<l[1], l[2], l[3]>> /\ l[2] \in Slot
  BY DEF Line
<1>b. ASSUME lines' = lines, \A l \in Line : lines.lock[l] = r => doc'[r] = doc[r],
             Receiving(r) => Receiving(r)',
             op[r] = "update" /\ pc[r] \in {"header", "commit"} =>
               op'[r] = "update" /\ pc'[r] \in {"header", "commit"}
      PROVE  G
  BY <1>0, <1>a, <1>b
<1>1. ASSUME Begins(r) PROVE G
  <2>1. \A l \in Line : lines.lock[l] # r
    BY <1>0, <1>1, <1>a DEF Begins, Receiving
  <2> QED
    BY <1>0, <1>1, <1>b, <2>1 DEF Begins, Receiving
<1>2. ASSUME Calm(r) PROVE G
  <2>1. /\ lines' = lines /\ doc' = doc /\ (Receiving(r) => Receiving(r)')
        /\ ~(op[r] = "update" /\ pc[r] \in {"header", "commit"})
    BY <1>2 DEF Calm
  <2> QED
    BY <1>b, <2>1
<1>3. ASSUME Creates(r) PROVE G
  <2>1. PICK o \in Order : CreatesOrder(r, o)
    BY <1>3 DEF Creates
  <2>2. /\ op[r] = "create" /\ UNCHANGED op /\ doc'[r] = o /\ status.now[o] = Absent
        /\ lines'.lock = lines.lock
        /\ \A l \in Line :
             IF l[1] = o /\ l[3] = Nobody THEN lines'.work[l] = lines'.now[l]
                ELSE lines'.now[l] = lines.now[l] /\ lines'.work[l] = lines.work[l]
    BY <1>3, <2>1 DEF Creates, CreatesOrder
  <2>3. \A l \in Line : lines.lock[l] # r
    BY <1>a, <2>2 DEF Receiving
  <2>4. \A q \in Req : op[q] \in {"update", "receive"} => doc[q] # o
    BY <2>2 DEF Documents, Existing, OrderOps
  <2>5. ASSUME NEW l \in Line, NEW q \in Req, lines.lock[l] = q
        PROVE  l[1] # o
    BY <1>a, <2>4, <2>5 DEF Receiving
  <2>6. ASSUME NEW l \in Line, NEW q \in Req, lines.lock[l] = q
        PROVE  H(q, l)
    <3>1. q # r /\ l[1] # o
      BY <2>3, <2>5, <2>6
    <3>2. lines'.now[l] = lines.now[l] /\ lines'.work[l] = lines.work[l] /\ lines'.lock = lines.lock
      BY <2>2, <3>1
    <3>3. pc'[q] = pc[q] /\ op'[q] = op[q] /\ doc'[q] = doc[q] /\ (Receiving(q)' <=> Receiving(q))
      BY <1>0, <3>1
    <3> QED
      BY <1>a, <2>6, <3>2, <3>3
  <2>7. ASSUME NEW l \in Line, lines.lock[l] = Nobody PROVE lines'.work[l] = lines'.now[l]
    BY <1>a, <2>2, <2>7
  <2> QED
    BY <2>2, <2>6, <2>7
<1>4. ASSUME Replaces(r) PROVE G
  <2>1. /\ op[r] = "update" /\ pc[r] = "delete" /\ pc'[r] = "header" /\ UNCHANGED <<op, doc>>
        /\ lines'.now = lines.now
        /\ \A l \in targets[r] : lines.lock[l] \in {r, Nobody}
        /\ \A l \in Line :
             IF l \in targets[r] \cup New(r)
               THEN /\ lines'.lock[l] = r
                    /\ IF l \in New(r) THEN lines'.work[l].qty > 0 /\ lines'.work[l].received = 0
                                       ELSE lines'.work[l] = NoLine
               ELSE lines'.lock[l] = lines.lock[l] /\ lines'.work[l] = lines.work[l]
    BY <1>4 DEF Replaces
  <2>2. /\ \A l \in Line : l \in New(r) <=> l[1] = doc[r] /\ l[3] = r
        /\ targets[r] \subseteq LinesOf(doc[r]) /\ \A l \in LinesOf(doc[r]) : l \in Line /\ l[1] = doc[r]
        /\ doc[r] \in Order
    BY <1>0, <2>1 DEF New, LinesOf, Documents, Places, Placed, OrderOps
  <2>3. \A l \in Line : lines.lock[l] # r
    BY <1>a, <2>1 DEF Receiving
  <2>4. \A s \in Slot : <<doc[r], s, r>> \in Line /\ <<doc[r], s, r>> \in New(r)
    BY <2>2 DEF Line, Owner
  <2>6. ASSUME NEW l \in Line, lines'.lock[l] = r PROVE H(r, l)
    <3>1. l \in targets[r] \cup New(r)
      BY <2>1, <2>3, <2>6
    <3>2. l[1] = doc[r]
      BY <2>2, <3>1
    <3>3. l[3] = r => l \in New(r)
      BY <2>2, <3>2
    <3>4. l[3] # r => l \notin New(r)
      BY <2>2
    <3>5. \A s \in Slot : lines'.lock[<<doc'[r], s, r>>] = r
      BY <2>1, <2>4
    <3> QED
      BY <2>1, <3>1, <3>2, <3>3, <3>4, <3>5
  <2>7. ASSUME NEW q \in Req \ {r}, NEW l \in Line, lines'.lock[l] = q PROVE H(q, l)
    <3>1. lines.lock[l] = q /\ lines'.work[l] = lines.work[l]
      BY <2>1, <2>7
    <3>2. CASE Receiving(q) /\ lines.now[l] # NoLine
      BY <1>0, <1>a, <2>1, <3>1, <3>2
    <3>3. CASE ~(Receiving(q) /\ lines.now[l] # NoLine)
      <4>1. /\ op[q] = "update" /\ pc[q] \in {"header", "commit"} /\ l[1] = doc[q]
            /\ IF l[3] = q THEN lines.work[l].qty > 0 /\ lines.work[l].received = 0
                           ELSE lines.work[l] = NoLine
            /\ \A s \in Slot : lines.lock[<<doc[q], s, q>>] = q
        BY <1>a, <3>1, <3>3
      <4>2. ASSUME NEW s \in Slot PROVE lines'.lock[<<doc[q], s, q>>] = q
        <5> DEFINE j == <<doc[q], s, q>>
        <5>1. j \in Line /\ j \notin New(r)
          BY <1>0, <2>2, <4>1 DEF Line, Owner, OrderOps
        <5>2. lines.lock[j] = q
          BY <4>1
        <5>3. j \notin targets[r]
          BY <2>1, <5>2
        <5> QED
          BY <2>1, <5>1, <5>2, <5>3
      <4> QED
        BY <1>0, <3>1, <4>1, <4>2
    <3> QED
      BY <3>2, <3>3
  <2>8. ASSUME NEW l \in Line, lines'.lock[l] = Nobody PROVE lines'.work[l] = lines'.now[l]
    BY <1>a, <2>1, <2>8
  <2> QED
    BY <2>6, <2>7, <2>8
<1>5. ASSUME Heads(r) PROVE G
  <2>1. /\ lines' = lines /\ UNCHANGED <<op, doc>> /\ pc'[r] = "commit"
        /\ op[r] \in {"update", "receive"}
    BY <1>5 DEF Heads
  <2> QED
    BY <1>b, <2>1 DEF Receiving
<1>6. ASSUME Sets(r) PROVE G
  <2>1. lines' = lines /\ UNCHANGED <<op, doc>> /\ op[r] \in {"confirm", "cancel"}
    BY <1>6 DEF Sets
  <2> QED
    BY <1>b, <2>1 DEF Receiving
<1>7. ASSUME Enters(r) \/ Logs(r) \/ Rereads(r) PROVE G
  <2>1. /\ lines' = lines /\ UNCHANGED <<op, doc>> /\ op[r] = "receive"
        /\ pc'[r] \in {"line", "status", "received"}
    BY <1>7 DEF Enters, Logs, Rereads
  <2> QED
    BY <1>b, <2>1 DEF Receiving
<1>8. ASSUME Receives(r) PROVE G
  <2> DEFINE j == LineKey(r)
  <2>1. /\ op[r] = "receive" /\ pc[r] = "line" /\ pc'[r] = "find" /\ UNCHANGED <<op, doc>>
        /\ j \in Line /\ lines.lock[j] \in {r, Nobody} /\ Seen(lines, r)[j] # NoLine
        /\ lines'.now = lines.now /\ lines'.lock[j] = r /\ j[1] = doc[r]
        /\ \A k \in Line \ {j} : lines'.lock[k] = lines.lock[k] /\ lines'.work[k] = lines.work[k]
    BY <1>8 DEF Receives, LineKey
  <2> HIDE DEF j
  <2>2. Receiving(r) /\ Receiving(r)'
    BY <2>1 DEF Receiving
  <2>3. lines.now[j] # NoLine
    <3>1. Seen(lines, r)[j] = IF lines.lock[j] = r THEN lines.work[j] ELSE lines.now[j]
      BY <2>1, SeenFacts DEF Documents, DocTypes
    <3> QED
      BY <1>a, <2>1, <3>1
  <2>4. \A q \in Req \ {r} : \A l \in Line : lines'.lock[l] = q => l # j /\ lines.lock[l] = q
    BY <2>1
  <2>5. \A q \in Req \ {r} : \A l \in Line : lines.lock[l] = q => lines'.lock[l] = q
    BY <2>1
  <2>6. ASSUME NEW l \in Line, lines'.lock[l] = r PROVE H(r, l)
    BY <1>a, <2>1, <2>2, <2>3, <2>6
  <2>7. ASSUME NEW q \in Req \ {r}, NEW l \in Line, lines'.lock[l] = q PROVE H(q, l)
    <3>1. lines.lock[l] = q /\ lines'.work[l] = lines.work[l] /\ lines'.now = lines.now
      BY <2>1, <2>4, <2>7
    <3>2. ASSUME op[q] = "update", \A s \in Slot : lines.lock[<<doc[q], s, q>>] = q
          PROVE  \A s \in Slot : lines'.lock[<<doc[q], s, q>>] = q
      <4>1. \A s \in Slot : <<doc[q], s, q>> \in Line
        BY <1>0, <3>2 DEF Line, Owner, OrderOps
      <4> QED
        BY <2>5, <3>2, <4>1
    <3> QED
      BY <1>0, <1>a, <3>1, <3>2
  <2>8. ASSUME NEW l \in Line, lines'.lock[l] = Nobody PROVE lines'.work[l] = lines'.now[l]
    BY <1>a, <2>1, <2>8
  <2> QED
    BY <2>6, <2>7, <2>8
<1>9. ASSUME Commits(r) \/ Drops(r) PROVE G
  <2>1. /\ UNCHANGED <<op, doc>>
        /\ \A l \in Line :
             /\ lines'.lock[l] = IF lines.lock[l] = r THEN Nobody ELSE lines.lock[l]
             /\ lines.lock[l] # r => lines'.now[l] = lines.now[l] /\ lines'.work[l] = lines.work[l]
             /\ lines.lock[l] = r => lines'.now[l] = lines'.work[l]
    BY <1>9 DEF Commits, Drops
  <2>2. ASSUME NEW q \in Req, NEW l \in Line, lines'.lock[l] = q PROVE H(q, l)
    <3>1. /\ q # r /\ lines.lock[l] = q /\ lines'.work[l] = lines.work[l]
          /\ lines'.now[l] = lines.now[l]
      BY <2>1, <2>2
    <3>2. ASSUME op[q] = "update", \A s \in Slot : lines.lock[<<doc[q], s, q>>] = q
          PROVE  \A s \in Slot : lines'.lock[<<doc[q], s, q>>] = q
      <4>1. \A s \in Slot : <<doc[q], s, q>> \in Line
        BY <1>0, <3>2 DEF Line, Owner, OrderOps
      <4> QED
        BY <2>1, <3>1, <3>2, <4>1
    <3> QED
      BY <1>0, <1>a, <3>1, <3>2
  <2>3. ASSUME NEW l \in Line, lines'.lock[l] = Nobody PROVE lines'.work[l] = lines'.now[l]
    BY <1>a, <2>1, <2>3
  <2> QED
    BY <2>2, <2>3
<1> HIDE DEF G
<1>10. G
  BY <1>1, <1>2, <1>3, <1>4, <1>5, <1>6, <1>7, <1>8, <1>9 DEF StepFacts, Shapes
<1> QED
  BY <1>10 DEF G, LineHolders, Receiving

LEMMA DocumentsStep ==
  ASSUME P!BookTypes, Documents, NEW r \in Req, Start(r) \/ Step(r) \/ Abort(r)
  PROVE  Documents' /\ StepFacts(r)
<1>1. StepFacts(r)
  BY AllFacts
<1>2. DocTypes' /\ Stages' /\ Places'
  BY <1>1 DEF StepFacts
<1>3. StatusHolders' /\ Existing' /\ LineHolders'
  BY <1>1, StatusHoldersStep, LineHoldersStep
<1> QED
  BY <1>1, <1>2, <1>3 DEF Documents

-----------------------------------------------------------------------------
(* The stock's books, whichever handler moves goods.                       *)

\* What Inventory assumes of its constants.
LEMMA StockAssumptions ==
  /\ P!IsFiniteSet(Warehouse)
  /\ /\ Quantity \subseteq Nat \ {0}
     /\ UnitCost \subseteq Nat
     /\ Opening \in [P!Item -> [qty : Nat, cost : Nat]]
     /\ NoCost \notin Int
  /\ Nobody \notin Req
<1>1. P!IsFiniteSet(Warehouse)
  BY FiniteAssumption DEF IsFiniteSet, P!IsFiniteSet
<1> QED
  BY <1>1, StockFacts

\* A step that is not about the stock.
PlainStep(r) ==
  \/ ReadOrder(r) \/ RefuseOrder(r) \/ nextDocumentNumber(r)
  \/ \E o \in Order, qty \in [Slot -> Ordered] : InsertOrder(r, o, qty)
  \/ FindLines(r) \/ \E qty \in [Slot -> Ordered] : ReplaceLines(r, qty)
  \/ UpdateHeader(r) \/ SetStatus(r) \/ InsertReceipt(r) \/ RereadLines(r) \/ SetReceived(r)

Begun(r) ==
  \/ \E o \in Order, h \in Handler \ {"receive"} : StartOther(r, o, h)
  \/ \E o \in Order, d \in Delivery, by \in Owner, w \in Warehouse : StartReceive(r, o, d, by, w)

LEMMA PlainFacts ==
  ASSUME Documents, NEW r \in Req, PlainStep(r)
  PROVE  \E k, l : /\ pc[r] = k /\ pc' = [pc EXCEPT ![r] = l]
                   /\ UNCHANGED <<stock, moved, posted, op, mv, found, dest>>
                   /\ k \notin {"idle", "find", "upsert", "log", "source", "unlogged"}
                   /\ l \notin {"idle", "find", "upsert", "log", "source", "unlogged"}
                   /\ k \in P!Holding => l \in P!Holding
                   /\ op[r] \in Handler
<1> USE DEF stockVars, rowVars
<1>0. Stages
  BY DEF Documents
<1>1. CASE ReadOrder(r) \/ RefuseOrder(r)
  <2>1. op[r] \in OrderOps
    BY <1>0, <1>1 DEF ReadOrder, RefuseOrder, Stages
  <2>2. AfterRead[op[r]] \in {"find lines", "write", "number"}
    <3>1. /\ AfterRead["update"] = "find lines" /\ AfterRead["confirm"] = "write"
          /\ AfterRead["cancel"] = "write" /\ AfterRead["receive"] = "number"
      BY DEF AfterRead
    <3> QED
      BY <2>1, <3>1 DEF OrderOps
  <2> QED
    BY <1>1, <2>1, <2>2 DEF ReadOrder, RefuseOrder, P!Holding, OrderOps, Handler
<1>2. CASE nextDocumentNumber(r) \/ \E o \in Order, qty \in [Slot -> Ordered] : InsertOrder(r, o, qty)
  BY <1>0, <1>2 DEF nextDocumentNumber, InsertOrder, P!Holding, Stages, Handler
<1>3. CASE FindLines(r) \/ \E qty \in [Slot -> Ordered] : ReplaceLines(r, qty)
  BY <1>0, <1>3 DEF FindLines, ReplaceLines, P!Holding, Stages, Handler
<1>4. CASE UpdateHeader(r) \/ SetStatus(r) \/ InsertReceipt(r)
  BY <1>0, <1>4 DEF UpdateHeader, SetStatus, InsertReceipt, P!Holding, Stages, Handler
<1>5. CASE RereadLines(r) \/ SetReceived(r)
  BY <1>0, <1>5 DEF RereadLines, SetReceived, P!Holding, Stages, Handler
<1> QED
  BY <1>1, <1>2, <1>3, <1>4, <1>5 DEF PlainStep

\* What a line of the receipt moves.
LEMMA MovementOfLine ==
  ASSUME Documents, NEW r \in Req, ReceiveLine(r)
  PROVE  [type |-> "PURCHASE_IN", item |-> <<todo[r].warehouse, ProductOf[Current(r).slot]>>,
          qty |-> Current(r).qty, cost |-> Current(r).cost] \in P!Movement
<1>1. pc[r] = "line" /\ op[r] = "receive"
  BY DEF ReceiveLine, Documents, Stages
<1>2. todo[r].warehouse \in Warehouse /\ todo[r].at \in 1..Len(todo[r].lines) /\ todo[r] \in Dto
  BY <1>1 DEF Documents, Places, Placed, DocTypes
<1>3. Current(r) \in DeliveryLine
  BY <1>2 DEF Current, Dto
<1>4. Current(r).slot \in Slot /\ Current(r).qty \in Int /\ Current(r).cost \in Int
  BY <1>3 DEF DeliveryLine
<1>5. <<todo[r].warehouse, ProductOf[Current(r).slot]>> \in P!Item
  BY <1>2, <1>4, OrderAssumption, StockFacts
<1> QED
  BY <1>4, <1>5 DEF P!Movement, P!MovementType

LEMMA AsideFacts ==
  ASSUME P!Books, Documents, NEW r \in Req, PlainStep(r) \/ Begun(r) \/ ReceiveLine(r)
  PROVE  P!Books'
<1> USE DEF stockVars, rowVars
<1>0. /\ P!BookTypes /\ DocTypes /\ Stages /\ DOMAIN pc = Req /\ DOMAIN op = Req /\ DOMAIN mv = Req
      /\ DOMAIN dest = Req /\ found \in [Req -> P!StockRow]
  BY StockParts DEF P!Books, Documents, P!BookTypes
<1>1. CASE Begun(r)
  <2>1. PICK l \in {"number", "read"}, h \in Handler :
          /\ pc[r] = "idle" /\ pc' = [pc EXCEPT ![r] = l] /\ op' = [op EXCEPT ![r] = h]
          /\ UNCHANGED <<stock, moved, posted, mv, found, dest>>
    BY <1>1 DEF Begun, StartOther, StartReceive, Begin, Handler
  <2>2. /\ UNCHANGED <<stock, moved, posted>> /\ found' \in [Req -> P!StockRow]
        /\ DOMAIN pc' = Req /\ DOMAIN op' = Req /\ DOMAIN mv' = Req /\ DOMAIN dest' = Req
        /\ \A q \in Req \ {r} : pc'[q] = pc[q] /\ op'[q] = op[q] /\ mv'[q] = mv[q] /\ dest'[q] = dest[q]
        /\ pc[r] \notin {"log", "unlogged"} /\ pc'[r] \notin {"log", "unlogged"}
        /\ pc'[r] \in {"source", "find", "upsert"} => mv'[r] \in P!Movement
        /\ op'[r] = "transfer" /\ pc'[r] # "idle" => dest'[r] \in P!Item
        /\ pc[r] \in P!Holding /\ P!InTransaction(r) => pc'[r] \in P!Holding /\ P!InTransaction(r)'
    BY <1>0, <2>1 DEF P!Holding, Handler
  <2> QED
    BY <2>2, StockAssumptions, P!BooksAside
<1>2. CASE PlainStep(r)
  <2>1. PICK k, l : /\ pc[r] = k /\ pc' = [pc EXCEPT ![r] = l]
                    /\ UNCHANGED <<stock, moved, posted, op, mv, found, dest>>
                    /\ k \notin {"idle", "find", "upsert", "log", "source", "unlogged"}
                    /\ l \notin {"idle", "find", "upsert", "log", "source", "unlogged"}
                    /\ k \in P!Holding => l \in P!Holding
                    /\ op[r] \in Handler
    BY <1>2, PlainFacts
  <2>2. /\ UNCHANGED <<stock, moved, posted>> /\ found' \in [Req -> P!StockRow]
        /\ DOMAIN pc' = Req /\ DOMAIN op' = Req /\ DOMAIN mv' = Req /\ DOMAIN dest' = Req
        /\ \A q \in Req \ {r} : pc'[q] = pc[q] /\ op'[q] = op[q] /\ mv'[q] = mv[q] /\ dest'[q] = dest[q]
        /\ pc[r] \notin {"log", "unlogged"} /\ pc'[r] \notin {"log", "unlogged"}
        /\ pc'[r] \in {"source", "find", "upsert"} => mv'[r] \in P!Movement
        /\ op'[r] = "transfer" /\ pc'[r] # "idle" => dest'[r] \in P!Item
    BY <1>0, <2>1 DEF Handler
  <2>3. pc[r] \in P!Holding /\ P!InTransaction(r) => pc'[r] \in P!Holding /\ P!InTransaction(r)'
    BY <1>0, <2>1 DEF P!InTransaction
  <2> QED
    BY <2>2, <2>3, StockAssumptions, P!BooksAside
<1>3. CASE ReceiveLine(r)
  <2> DEFINE m == [type |-> "PURCHASE_IN", item |-> <<todo[r].warehouse, ProductOf[Current(r).slot]>>,
                   qty |-> Current(r).qty, cost |-> Current(r).cost]
  <2>1. /\ pc[r] = "line" /\ pc' = [pc EXCEPT ![r] = "find"] /\ mv' = [mv EXCEPT ![r] = m]
        /\ UNCHANGED <<stock, moved, posted, op, found, dest>>
    BY <1>3 DEF ReceiveLine
  <2>2. m \in P!Movement /\ op[r] = "receive"
    BY <1>0, <1>3, <2>1, MovementOfLine DEF Stages
  <2> HIDE DEF m
  <2>5. /\ UNCHANGED <<stock, moved, posted>> /\ found' \in [Req -> P!StockRow]
        /\ DOMAIN pc' = Req /\ DOMAIN op' = Req /\ DOMAIN mv' = Req /\ DOMAIN dest' = Req
        /\ \A q \in Req \ {r} : pc'[q] = pc[q] /\ op'[q] = op[q] /\ mv'[q] = mv[q] /\ dest'[q] = dest[q]
        /\ pc[r] \notin {"log", "unlogged"} /\ pc'[r] \notin {"log", "unlogged"}
        /\ pc'[r] \in {"source", "find", "upsert"} => mv'[r] \in P!Movement
        /\ op'[r] = "transfer" /\ pc'[r] # "idle" => dest'[r] \in P!Item
        /\ pc[r] \in P!Holding /\ P!InTransaction(r) => pc'[r] \in P!Holding /\ P!InTransaction(r)'
    BY <1>0, <2>1, <2>2 DEF P!Holding, P!InTransaction
  <2> QED
    BY <2>5, StockAssumptions, P!BooksAside
<1> QED
  BY <1>1, <1>2, <1>3

\* Whatever step a request takes, the stock's books stay in order.
LEMMA BooksKept ==
  ASSUME P!Books, Documents, NEW r \in Req, Start(r) \/ Step(r) \/ Abort(r)
  PROVE  P!Books'
<1> USE StockAssumptions
<1>0. Stages /\ DocTypes /\ DOMAIN mv = Req
  BY StockParts DEF Documents, P!Books
<1>1. CASE PlainStep(r) \/ Begun(r) \/ ReceiveLine(r)
  BY <1>1, AsideFacts
<1>2. CASE P!Start(r) \/ P!Step(r) \/ P!Abort(r)
  BY <1>2, P!BooksStep
<1>3. CASE ReceiptLogged(r)
  <2>1. PICK l \in {"status", "line"} :
          P!LogMovement(r, l) /\ UNCHANGED <<op, mv, dest>> /\ op[r] = "receive" /\ pc[r] = "log"
    BY <1>3, SameActions DEF ReceiptLogged, Inv!LogMovement
  <2>2. mv[r] \in P!Movement
    BY <2>1 DEF P!Books, P!BookTypes
  <2>3. P!InTransaction(r) /\ l \in P!Holding \ {"log"}
    BY <2>1 DEF P!InTransaction, P!Holding
  <2> QED
    BY <1>0, <2>1, <2>2, <2>3, P!BooksLog
<1>4. CASE NumberConflict(r) \/ LineGone(r)
  <2>1. P!DropStock(r) /\ pc' = [pc EXCEPT ![r] = "refused"] /\ UNCHANGED <<op, dest>>
        /\ pc[r] \in {"insert", "line"}
    BY <1>4, SameActions DEF NumberConflict, LineGone, Throw
  <2>2. r \notin P!Cut
    BY <2>1 DEF P!Cut
  <2> QED
    BY <1>4, <2>1, <2>2, P!BooksDrop
<1>5. CASE CommitOrder(r)
  <2>1. P!KeepStock(r) /\ pc[r] = "commit" /\ pc' = [pc EXCEPT ![r] = "ok"] /\ UNCHANGED <<op, dest>>
    BY <1>5, SameActions DEF CommitOrder
  <2> QED
    BY <2>1, P!BooksKeep
<1>6. CASE Start(r)
  BY <1>1, <1>2, <1>6, SameActions DEF Start, Begun
<1>7. CASE Abort(r)
  BY <1>2, <1>7, SameActions DEF Abort
<1>8. CASE Step(r)
  <2>2. CASE \/ (Inv!FindStock(r) \/ Inv!UpsertStock(r)) /\ UNCHANGED <<op, dest>>
             \/ Inv!RefuseMovement(r) /\ UNCHANGED <<op, dest>>
             \/ Inv!AdjustLogged(r) \/ Inv!ReadSource(r)
             \/ Inv!TransferOutLogged(r) \/ Inv!TransferInLogged(r)
             \/ Inv!CommitTransfer(r)
    BY <1>2, <2>2, SameActions DEF P!Step
  <2> QED
    BY <1>1, <1>3, <1>4, <1>5, <1>8, <2>2 DEF Step, PlainStep
<1> QED
  BY <1>6, <1>7, <1>8

-----------------------------------------------------------------------------
(* What a step does to the ledger's purchases.                             *)

Entries == {<<"PURCHASE_IN", i>> : i \in Inv!Item}

Posting(r, x) == IF x = <<mv[r].type, mv[r].item>> THEN mv[r].qty ELSE 0

Still(r) ==
  /\ \A x \in Entries : moved'[x].qty = moved[x].qty /\ posted'[r][x].qty = posted[r][x].qty
  /\ op[r] = "receive" => pc[r] # "log"
  /\ Receiving(r) => Receiving(r)'

Posts(r) ==
  /\ op[r] = "receive" /\ pc[r] = "log" /\ pc'[r] \in {"line", "status"}
  /\ moved' = moved
  /\ \A x \in Entries : posted'[r][x].qty = posted[r][x].qty + Posting(r, x)

Clears(r) ==
  /\ pc'[r] \in {"refused", "aborted", "unlogged"}
  /\ moved' = moved /\ posted'[r] = Inv!NoPosting

Merges(r) ==
  /\ pc[r] = "commit" /\ pc'[r] = "ok" /\ posted'[r] = Inv!NoPosting
  /\ \A x \in Entries : moved'[x].qty = moved[x].qty + posted[r][x].qty

Goods(r) ==
  /\ \A q \in Req \ {r} : posted'[q] = posted[q]
  /\ Still(r) \/ Posts(r) \/ Clears(r) \/ Merges(r)

LEMMA LogGoods ==
  ASSUME P!BookTypes, Documents, NEW r \in Req, NEW l, Inv!LogMovement(r, l)
  PROVE  /\ pc[r] = "log" /\ pc' = [pc EXCEPT ![r] = l]
         /\ \A q \in Req \ {r} : posted'[q] = posted[q]
         /\ op[r] = "receive" => /\ moved' = moved
                                 /\ \A x \in Entries : posted'[r][x].qty = posted[r][x].qty + Posting(r, x)
         /\ op[r] \in {"adjust", "transfer"} =>
              \A x \in Entries : moved'[x].qty = moved[x].qty /\ posted'[r][x].qty = posted[r][x].qty
<1> USE StockAssumptions
<1>1. P!LogMovement(r, l) /\ pc[r] = "log" /\ pc' = [pc EXCEPT ![r] = l]
  BY SameActions DEF Inv!LogMovement
<1>2. \A x \in Entries : x \in P!MovementType \X P!Item
  BY StockFacts DEF Entries, P!MovementType
<1>3. ASSUME NEW x \in Entries
      PROVE  /\ Posting(r, x) \in Int
             /\ moved'[x].qty = moved[x].qty + (IF P!InTransaction(r) THEN 0 ELSE Posting(r, x))
             /\ posted'[r][x].qty = posted[r][x].qty + (IF P!InTransaction(r) THEN Posting(r, x) ELSE 0)
  <2> DEFINE n == IF x = <<mv[r].type, mv[r].item>> THEN mv[r].qty ELSE 0
  <2>1. /\ n \in Int
        /\ moved'[x].qty = moved[x].qty + (IF P!InTransaction(r) THEN 0 ELSE n)
        /\ posted'[r][x].qty = posted[r][x].qty + (IF P!InTransaction(r) THEN n ELSE 0)
    BY <1>1, <1>2, P!LoggedEntries
  <2> QED
    BY <2>1 DEF Posting
<1>4. \A q \in Req \ {r} : posted'[q] = posted[q]
  BY StockParts DEF Inv!LogMovement
<1>5. op[r] = "receive" => moved' = moved
  BY DEF Inv!LogMovement, Inv!InTransaction
<1>6. ASSUME NEW x \in Entries PROVE moved[x].qty \in Int /\ posted[r][x].qty \in Int
  <2>1. x \in Inv!MovementType \X Inv!Item
    BY <1>2, StockFacts
  <2> QED
    BY <2>1, StockParts DEF Inv!Ledger
<1>7. ASSUME op[r] \in {"adjust", "transfer"}, NEW x \in Entries PROVE Posting(r, x) = 0
  <2>1. mv[r].type # "PURCHASE_IN"
    BY <1>7 DEF Documents, Places, Placed
  <2> QED
    BY <2>1 DEF Posting, Entries
<1>8. ASSUME op[r] = "receive", NEW x \in Entries
      PROVE  posted'[r][x].qty = posted[r][x].qty + Posting(r, x)
  BY <1>3, <1>8 DEF P!InTransaction
<1>9. ASSUME op[r] \in {"adjust", "transfer"}, NEW x \in Entries
      PROVE  moved'[x].qty = moved[x].qty /\ posted'[r][x].qty = posted[r][x].qty
  BY <1>3, <1>6, <1>7, <1>9
<1> QED
  BY <1>1, <1>4, <1>5, <1>8, <1>9

LEMMA DropGoods ==
  ASSUME P!BookTypes, DocTypes, NEW r \in Req, NEW l \in {"refused", "aborted", "unlogged"},
         Inv!DropStock(r), pc' = [pc EXCEPT ![r] = l]
  PROVE  Goods(r)
BY StockParts DEF Inv!DropStock, Goods, Clears

LEMMA KeepGoods ==
  ASSUME P!BookTypes, DocTypes, NEW r \in Req, Inv!KeepStock(r), pc[r] = "commit",
         pc' = [pc EXCEPT ![r] = "ok"]
  PROVE  Goods(r)
<1>1. /\ moved' = Inv!Merge(moved, posted[r]) /\ posted' = [posted EXCEPT ![r] = Inv!NoPosting]
  BY DEF Inv!KeepStock
<1>2. \A x \in Entries : x \in Inv!MovementType \X Inv!Item
  BY DEF Entries, Inv!MovementType
<1>3. \A x \in Entries : moved'[x].qty = moved[x].qty + posted[r][x].qty
  BY <1>1, <1>2 DEF Inv!Merge
<1> QED
  BY <1>1, <1>3, StockParts DEF Goods, Merges

\* A step that leaves the books alone, outside a receipt or on in it.
LEMMA StillGoods ==
  ASSUME NEW r \in Req, UNCHANGED <<moved, posted>>,
         op[r] = "receive" => pc[r] # "log", Receiving(r) => Receiving(r)'
  PROVE  Goods(r)
BY DEF Goods, Still

LEMMA GoodsFacts ==
  ASSUME P!Books, Documents, NEW r \in Req, Start(r) \/ Step(r) \/ Abort(r)
  PROVE  Goods(r)
<1> USE DEF stockVars, rowVars
<1>0. P!BookTypes /\ Stages /\ DocTypes /\ DOMAIN mv = Req /\ DOMAIN pc = Req /\ DOMAIN op = Req
  BY StockParts DEF P!Books, Documents
<1>1. CASE Begun(r) \/ Inv!Start(r)
  <2>1. pc[r] = "idle" /\ UNCHANGED <<moved, posted>>
    BY <1>1 DEF Begun, StartOther, StartReceive, Begin, Inv!Start, Inv!StartAdjust, Inv!StartTransfer
  <2> QED
    BY <2>1, StillGoods DEF Receiving
<1>2. CASE \/ ReadOrder(r) \/ RefuseOrder(r) \/ nextDocumentNumber(r)
           \/ \E o \in Order, qty \in [Slot -> Ordered] : InsertOrder(r, o, qty)
           \/ FindLines(r) \/ \E qty \in [Slot -> Ordered] : ReplaceLines(r, qty)
           \/ UpdateHeader(r) \/ SetStatus(r)
  <2>1. /\ pc[r] \in {"read", "number", "insert", "find lines", "delete", "header", "write"}
        /\ UNCHANGED <<moved, posted>>
    BY <1>2 DEF ReadOrder, RefuseOrder, nextDocumentNumber, InsertOrder, FindLines, ReplaceLines,
       UpdateHeader, SetStatus
  <2> QED
    BY <2>1, StillGoods DEF Receiving
<1>3. CASE InsertReceipt(r) \/ RereadLines(r) \/ SetReceived(r) \/ ReceiveLine(r)
  <2>1. /\ pc[r] \in {"insert", "status", "received", "line"} /\ UNCHANGED <<moved, posted, op>>
        /\ pc'[r] \in {"line", "received", "commit", "find"}
    BY <1>0, <1>3 DEF InsertReceipt, RereadLines, SetReceived, ReceiveLine
  <2> QED
    BY <2>1, StillGoods DEF Receiving
<1>4. CASE (Inv!FindStock(r) \/ Inv!UpsertStock(r)) /\ UNCHANGED <<op, dest, orderVars>>
  <2>1. /\ pc[r] \in {"find", "upsert"} /\ pc'[r] \in {"upsert", "log"}
        /\ UNCHANGED <<op, moved, posted>>
    BY <1>0, <1>4 DEF Inv!FindStock, Inv!UpsertStock
  <2> QED
    BY <2>1, StillGoods DEF Receiving
<1>5. CASE Inv!ReadSource(r)
  <2>1. pc[r] = "source" /\ UNCHANGED <<op, moved, posted>>
    BY <1>0, <1>5 DEF Inv!ReadSource
  <2> QED
    BY <2>1, StillGoods DEF Receiving
<1>6. CASE ReceiptLogged(r)
  <2>1. PICK l \in {"status", "line"} : Inv!LogMovement(r, l) /\ op[r] = "receive"
    BY <1>6 DEF ReceiptLogged
  <2>2. /\ pc[r] = "log" /\ pc' = [pc EXCEPT ![r] = l] /\ moved' = moved
        /\ \A q \in Req \ {r} : posted'[q] = posted[q]
        /\ \A x \in Entries : posted'[r][x].qty = posted[r][x].qty + Posting(r, x)
    BY <1>0, <2>1, LogGoods
  <2> QED
    BY <1>0, <2>1, <2>2 DEF Goods, Posts
<1>7. CASE Inv!AdjustLogged(r) \/ Inv!TransferOutLogged(r) \/ Inv!TransferInLogged(r)
  <2>1. PICK l \in {"ok", "find", "commit"} :
          Inv!LogMovement(r, l) /\ op[r] \in {"adjust", "transfer"}
    BY <1>7 DEF Inv!AdjustLogged, Inv!TransferOutLogged, Inv!TransferInLogged
  <2>2. /\ \A q \in Req \ {r} : posted'[q] = posted[q]
        /\ \A x \in Entries : moved'[x].qty = moved[x].qty /\ posted'[r][x].qty = posted[r][x].qty
    BY <1>0, <2>1, LogGoods
  <2> QED
    BY <2>1, <2>2 DEF Goods, Still, Receiving
<1>8. CASE Inv!CommitTransfer(r)
  BY <1>0, <1>8, KeepGoods DEF Inv!CommitTransfer
<1>9. CASE CommitOrder(r)
  BY <1>0, <1>9, KeepGoods DEF CommitOrder
<1>10. CASE NumberConflict(r) \/ LineGone(r) \/ Inv!RefuseMovement(r) \/ Abort(r)
  <2>1. PICK l \in {"refused", "aborted", "unlogged"} :
          Inv!DropStock(r) /\ pc' = [pc EXCEPT ![r] = l]
    BY <1>10 DEF NumberConflict, LineGone, Throw, Inv!RefuseMovement, Abort, Inv!Abort
  <2> QED
    BY <1>0, <2>1, DropGoods
<1>11. CASE Step(r)
  BY <1>2, <1>3, <1>4, <1>5, <1>6, <1>7, <1>8, <1>9, <1>10, <1>11 DEF Step
<1>12. CASE Start(r)
  BY <1>1, <1>12 DEF Start, Begun
<1> QED
  BY <1>10, <1>11, <1>12

-----------------------------------------------------------------------------
(* Sums over the lines of a receipt, and over the receipts.                *)

LEMMA LinesFacts ==
  ASSUME NEW s \in Receipt, NEW c
  PROVE  /\ \A n \in 0..Len(s.dto.lines) :
              /\ IsFiniteSet(ChosenOf(s, c, n))
              /\ \A k \in ChosenOf(s, c, n) : k \in DOMAIN s.dto.lines
         /\ Len(s.dto.lines) \in Nat /\ DOMAIN s.dto.lines = 1..Len(s.dto.lines)
         /\ \A k \in DOMAIN s.dto.lines :
              /\ Amounts(s)[k] = s.dto.lines[k].qty /\ Amounts(s)[k] \in Nat
              /\ s.dto.lines[k] \in DeliveryLine
<1>1. s.dto.lines \in Seq(DeliveryLine)
  BY DEF Receipt, Dto
<1>2. Len(s.dto.lines) \in Nat /\ DOMAIN s.dto.lines = 1..Len(s.dto.lines)
  BY <1>1
<1>3. ASSUME NEW k \in DOMAIN s.dto.lines
      PROVE  /\ Amounts(s)[k] = s.dto.lines[k].qty /\ Amounts(s)[k] \in Nat
             /\ s.dto.lines[k] \in DeliveryLine
  <2>1. s.dto.lines[k] \in DeliveryLine
    BY <1>1, <1>2
  <2> QED
    BY <2>1 DEF DeliveryLine, Amounts
<1>4. ASSUME NEW n \in 0..Len(s.dto.lines)
      PROVE  /\ IsFiniteSet(ChosenOf(s, c, n))
             /\ \A k \in ChosenOf(s, c, n) : k \in DOMAIN s.dto.lines
  <2>1. IsFiniteSet(1..n)
    <3>1. n \in Int
      BY <1>2
    <3> QED
      BY <3>1, FS_Interval
  <2>2. ChosenOf(s, c, n) \in SUBSET (1..n)
    BY DEF ChosenOf
  <2>3. \A k \in 1..n : k \in 1..Len(s.dto.lines)
    BY <1>2
  <2> QED
    BY <1>2, <2>1, <2>2, <2>3, FS_Subset
<1> QED
  BY <1>2, <1>3, <1>4

\* One line more.
LEMMA NextLine ==
  ASSUME NEW s \in Receipt, NEW c, NEW n \in 1..Len(s.dto.lines)
  PROVE  /\ OnReceipt(s, c, n - 1) \in Int
         /\ OnReceipt(s, c, n) = OnReceipt(s, c, n - 1)
              + (IF Chosen(c, s, n) THEN s.dto.lines[n].qty ELSE 0)
<1> DEFINE S == ChosenOf(s, c, n - 1)
           g == Amounts(s)
<1>1. /\ n \in Nat \ {0} /\ Len(s.dto.lines) \in Nat /\ n - 1 \in 0..Len(s.dto.lines)
      /\ n \in DOMAIN s.dto.lines
  BY LinesFacts
<1>2. IsFiniteSet(S) /\ \A k \in S : k \in DOMAIN s.dto.lines
  BY <1>1, LinesFacts
<1>3. /\ \A k \in S : g[k] \in Int
      /\ g[n] = s.dto.lines[n].qty /\ g[n] \in Int
  <2>1. \A k \in DOMAIN s.dto.lines : g[k] = s.dto.lines[k].qty /\ g[k] \in Nat
    BY LinesFacts
  <2> HIDE DEF g, S
  <2> QED
    BY <1>1, <1>2, <2>1
<1>4. n \notin S
  BY <1>1 DEF ChosenOf
<1>5. 1..n = (1..(n - 1)) \cup {n}
  BY <1>1
<1>6. ChosenOf(s, c, n) = IF Chosen(c, s, n) THEN S \cup {n} ELSE S
  BY <1>5 DEF ChosenOf
<1> HIDE DEF S, g
<1>7. SumOf(g, S) \in Int
  BY <1>2, <1>3, SumFacts
<1>8. SumOf(g, S \cup {n}) = SumOf(g, S) + g[n]
  BY <1>2, <1>3, <1>4, SumInsert
<1>9. SumOf(g, ChosenOf(s, c, n)) = SumOf(g, S)
        + (IF Chosen(c, s, n) THEN s.dto.lines[n].qty ELSE 0)
  BY <1>3, <1>6, <1>7, <1>8
<1> QED
  BY <1>7, <1>9 DEF OnReceipt, g, S

LEMMA NoneOnReceipt ==
  ASSUME NEW s, NEW c, NEW n, ChosenOf(s, c, n) = {}
  PROVE  OnReceipt(s, c, n) = 0
<1>2. SumOf(Amounts(s), {}) = 0
  BY FS_EmptySet, SumFacts
<1> QED
  BY <1>2 DEF OnReceipt

\* What is on a receipt depends on its order and on its dto, but for where the
\* request is in it.
LEMMA SameReceipt ==
  ASSUME NEW s, NEW t, s.order = t.order, s.dto.lines = t.dto.lines, s.dto.by = t.dto.by,
         s.dto.warehouse = t.dto.warehouse, NEW c, NEW n
  PROVE  OnReceipt(s, c, n) = OnReceipt(t, c, n)
BY DEF OnReceipt, ChosenOf, Chosen, Amounts

\* The values the sum over the receipts adds.
Values(ss, c) == [x \in Sites(ss, c) |-> ss[x[1]].dto.lines[x[2]].qty]

LEMMA SitesFacts ==
  ASSUME NEW ss \in Seq(Receipt), NEW c
  PROVE  /\ IsFiniteSet(Sites(ss, c))
         /\ \A x : x \in Sites(ss, c) <=>
              \E n \in 1..Len(ss) : \E k \in DOMAIN ss[n].dto.lines :
                x = <<n, k>> /\ Chosen(c, ss[n], k)
         /\ \A x \in Sites(ss, c) : Values(ss, c)[x] \in Int
<1>0. /\ Len(ss) \in Nat /\ DOMAIN ss = 1..Len(ss)
      /\ \A n \in 1..Len(ss) : ss[n] \in Receipt
  OBVIOUS
<1> DEFINE Row(n) == {<<n, k>> : k \in DOMAIN ss[n].dto.lines}
           U == UNION {Row(n) : n \in DOMAIN ss}
<1>1. ASSUME NEW n \in DOMAIN ss PROVE IsFiniteSet(Row(n))
  <2> DEFINE D == DOMAIN ss[n].dto.lines
             f == [k \in D |-> <<n, k>>]
  <2>1. IsFiniteSet(D)
    <3>1. ss[n] \in Receipt
      BY <1>0
    <3>2. D = 1..Len(ss[n].dto.lines) /\ Len(ss[n].dto.lines) \in Nat
      BY <3>1, LinesFacts
    <3> QED
      BY <3>2, FS_Interval
  <2>2. Row(n) = {f[k] : k \in D}
    OBVIOUS
  <2> HIDE DEF f, D, Row
  <2> QED
    BY <2>1, <2>2, FiniteImage
<1>2. IsFiniteSet({Row(n) : n \in DOMAIN ss})
  <2> DEFINE D == DOMAIN ss
             f == [n \in D |-> Row(n)]
  <2>1. IsFiniteSet(D)
    BY <1>0, FS_Interval
  <2>2. {Row(n) : n \in DOMAIN ss} = {f[n] : n \in D}
    OBVIOUS
  <2> HIDE DEF f, D, Row
  <2> QED
    BY <2>1, <2>2, FiniteImage
<1>3. IsFiniteSet(U)
  <2> DEFINE R == {Row(n) : n \in DOMAIN ss}
  <2>1. \A T \in R : IsFiniteSet(T)
    BY <1>1
  <2>2. U = UNION R
    OBVIOUS
  <2> HIDE DEF R, U, Row
  <2> QED
    <3>1. IsFiniteSet(R)
      BY <1>2 DEF R
    <3> QED
      BY <2>1, <2>2, <3>1, FS_UNION
<1>4. Sites(ss, c) \in SUBSET U
  BY DEF Sites
<1>5. \A x : x \in U <=> \E n \in 1..Len(ss) : \E k \in DOMAIN ss[n].dto.lines : x = <<n, k>>
  BY <1>0
<1>6. \A x : x \in Sites(ss, c) <=>
         \E n \in 1..Len(ss) : \E k \in DOMAIN ss[n].dto.lines :
           x = <<n, k>> /\ Chosen(c, ss[n], k)
  <2>1. \A x : x \in Sites(ss, c) <=>
                 x \in U /\ Chosen(c, ss[x[1]], x[2])
    BY DEF Sites
  <2> HIDE DEF U
  <2> QED
    BY <1>5, <2>1
<1>7. ASSUME NEW x \in Sites(ss, c) PROVE Values(ss, c)[x] \in Int
  <2>0. PICK n \in 1..Len(ss) : \E k \in DOMAIN ss[n].dto.lines : x = <<n, k>>
    BY <1>6
  <2>1. PICK k \in DOMAIN ss[n].dto.lines : x = <<n, k>>
    BY <2>0
  <2>2. ss[n].dto.lines[k].qty \in Nat
    BY <1>0, LinesFacts
  <2>3. Values(ss, c)[x] = ss[n].dto.lines[k].qty
    BY <2>1 DEF Values
  <2> QED
    BY <2>2, <2>3
<1> QED
  <2> HIDE DEF U
  <2> QED
    BY <1>3, <1>4, <1>6, <1>7, FS_Subset

\* One receipt more.
LEMMA NextReceipt ==
  ASSUME NEW ss \in Seq(Receipt), NEW s \in Receipt, NEW c
  PROVE  OnReceipts(Append(ss, s), c) = OnReceipts(ss, c) + OnReceipt(s, c, Len(s.dto.lines))
<1> DEFINE tt == Append(ss, s)
           N == Len(ss) + 1
           A == Sites(ss, c)
           B == ChosenOf(s, c, Len(s.dto.lines))
           f == [k \in B |-> <<N, k>>]
           g == Amounts(s)
           k0 == Values(ss, c)
           k1 == Values(tt, c)
           C == Sites(tt, c)
<1>0. /\ tt \in Seq(Receipt) /\ Len(ss) \in Nat /\ Len(tt) = N /\ tt[N] = s
      /\ \A n \in 1..Len(ss) : tt[n] = ss[n]
  OBVIOUS
<1>1. /\ IsFiniteSet(A) /\ \A x \in A : k0[x] \in Int
      /\ \A x \in C : k1[x] \in Int
  <2>1. tt \in Seq(Receipt)
    BY <1>0
  <2> HIDE DEF tt
  <2> QED
    BY <2>1, SitesFacts
<1>2. /\ IsFiniteSet(B) /\ \A k \in B : k \in DOMAIN s.dto.lines /\ g[k] \in Int /\ g[k] = s.dto.lines[k].qty
  <2>1. \A k \in DOMAIN s.dto.lines : g[k] = s.dto.lines[k].qty /\ g[k] \in Nat
    BY LinesFacts
  <2>2. Len(s.dto.lines) \in 0..Len(s.dto.lines)
    BY LinesFacts
  <2>3. IsFiniteSet(B) /\ \A k \in B : k \in DOMAIN s.dto.lines
    BY <2>2, LinesFacts
  <2> HIDE DEF g, B
  <2> QED
    BY <2>1, <2>3
<1>3. ASSUME NEW x PROVE x \in C <=> x \in A \/ \E k \in B : x = <<N, k>>
  <2>1. x \in C <=> \E n \in 1..N : \E k \in DOMAIN tt[n].dto.lines :
                       x = <<n, k>> /\ Chosen(c, tt[n], k)
    <3>1. tt \in Seq(Receipt) /\ Len(tt) = N
      BY <1>0
    <3> HIDE DEF tt, N
    <3> QED
      BY <3>1, SitesFacts
  <2>2. x \in A <=> \E n \in 1..Len(ss) : \E k \in DOMAIN ss[n].dto.lines :
                       x = <<n, k>> /\ Chosen(c, ss[n], k)
    BY SitesFacts
  <2>3. \A n : n \in 1..N <=> n \in 1..Len(ss) \/ n = N
    BY <1>0
  <2>4. \A k : k \in B <=> k \in DOMAIN s.dto.lines /\ Chosen(c, s, k)
    BY LinesFacts DEF ChosenOf
  <2> HIDE DEF tt, N, A, B, C
  <2> QED
    BY <1>0, <2>1, <2>2, <2>3, <2>4
<1>4. C = A \cup {f[k] : k \in B}
  <2> HIDE DEF A, B, C
  <2> QED
    BY <1>3
<1>5. ASSUME NEW x \in A PROVE k1[x] = k0[x]
  <2>0. PICK n \in 1..Len(ss) : \E k \in DOMAIN ss[n].dto.lines : x = <<n, k>>
    BY SitesFacts
  <2>1. PICK k \in DOMAIN ss[n].dto.lines : x = <<n, k>>
    BY <2>0
  <2>2. x \in C /\ tt[n] = ss[n]
    BY <1>0, <1>3
  <2>3. k0[x] = ss[n].dto.lines[k].qty
    BY <2>1 DEF Values
  <2>4. k1[x] = tt[n].dto.lines[k].qty
    BY <2>1, <2>2 DEF Values
  <2> QED
    BY <2>2, <2>3, <2>4
<1>6. ASSUME NEW k \in B PROVE f[k] \notin A /\ k1[f[k]] = g[k]
  <2>1. f[k] = <<N, k>> /\ f[k] \in C
    BY <1>3
  <2>2. \A x \in A : \E n \in 1..Len(ss) : \E j : x = <<n, j>>
    BY SitesFacts
  <2>3. N \notin 1..Len(ss)
    BY <1>0
  <2>4. k1[f[k]] = tt[N].dto.lines[k].qty
    BY <2>1 DEF Values
  <2> HIDE DEF N, A, tt, k1, f
  <2> QED
    BY <1>0, <1>2, <2>1, <2>2, <2>3, <2>4
<1>7. \A y, z \in B : f[y] = f[z] => y = z
  OBVIOUS
<1>8. \A x \in A : k1[x] \in Int /\ k0[x] \in Int
  BY <1>1, <1>5
<1> HIDE DEF A, B, f, g, k0, k1, C
<1>9. SumOf(k1, C) = SumOf(k1, A) + SumOf(g, B)
  <2>1. \A x \in A : k1[x] \in Int
    BY <1>8
  <2>2. \A y \in B : f[y] \notin A /\ g[y] \in Int /\ k1[f[y]] = g[y]
    BY <1>2, <1>6
  <2>3. SumOf(k1, A \cup {f[y] : y \in B}) = SumOf(k1, A) + SumOf(g, B)
    BY <1>1, <1>2, <1>7, <2>1, <2>2, SumJoin
  <2> QED
    BY <1>4, <2>3
<1>10. SumOf(k1, A) = SumOf(k0, A)
  BY <1>1, <1>5, <1>8, SumSame
<1> QED
  BY <1>9, <1>10 DEF OnReceipts, OnReceipt, A, B, C, g, k0, k1, Values

LEMMA NoReceipts == \A c : OnReceipts(<<>>, c) = 0
<1> SUFFICES ASSUME NEW c PROVE OnReceipts(<<>>, c) = 0
  OBVIOUS
<1>1. Sites(<<>>, c) = {}
  BY DEF Sites
<1> DEFINE g == [x \in Sites(<<>>, c) |-> <<>>[x[1]].dto.lines[x[2]].qty]
<1>2. OnReceipts(<<>>, c) = SumOf(g, {})
  BY <1>1 DEF OnReceipts
<1> HIDE DEF g
<1> QED
  BY <1>2, FS_EmptySet, SumFacts

-----------------------------------------------------------------------------
(* The other parts of the invariant, step by step.                         *)

\* What a step leaves alone, and what it cannot undo.
LEMMA Others ==
  ASSUME NEW r \in Req, StepFacts(r), NEW q \in Req \ {r}
  PROVE  /\ pc'[q] = pc[q] /\ op'[q] = op[q] /\ doc'[q] = doc[q] /\ todo'[q] = todo[q]
         /\ fully'[q] = fully[q]
         /\ Receiving(q)' <=> Receiving(q)
         /\ Writing(q)' = Writing(q) /\ Counted(q)' = Counted(q)
BY DEF StepFacts, Rest, Receiving, Writing, Counted

LEMMA Acts ==
  ASSUME Documents, NEW r \in Req, StepFacts(r)
  PROVE  /\ pc[r] # "ok"
         /\ Receiving(r)' => Receiving(r) \/ Enters(r)
<1>1. CASE Begins(r)
  BY <1>1 DEF Begins, Receiving, OrderOps
<1>2. CASE Calm(r)
  BY <1>2 DEF Calm, Inv!Answered
<1>3. CASE Creates(r) \/ Replaces(r) \/ Sets(r) \/ Enters(r)
  BY <1>3 DEF Creates, Replaces, Sets, Enters, Receiving
<1>4. CASE Heads(r) \/ Receives(r) \/ Logs(r) \/ Rereads(r)
  BY <1>4 DEF Heads, Receives, Logs, Rereads, Receiving
<1>5. CASE Commits(r) \/ Drops(r)
  BY <1>5 DEF Commits, Drops, Receiving, Inv!Answered
<1> QED
  BY <1>1, <1>2, <1>3, <1>4, <1>5 DEF StepFacts, Shapes

LEMMA SerialStep ==
  ASSUME Documents, Serial, NEW r \in Req, StepFacts(r)
  PROVE  Serial'
<1> USE NobodyAssumption
<1>0. numbers["MAL"] \in Series /\ numbers'["MAL"] \in Series
  BY DEF Documents, StepFacts, DocTypes
<1> SUFFICES ASSUME NEW q \in Req, Receiving(q)' PROVE numbers'["MAL"].holder = q
  BY DEF Serial
<1>1. q # r => Receiving(q)
  BY Others
<1>2. q = r => Receiving(q) \/ Enters(r)
  BY Acts
<1>3. CASE SameNumbers /\ ~Enters(r)
  BY <1>1, <1>2, <1>3 DEF SameNumbers, Serial
<1>4. CASE Enters(r)
  <2>1. numbers'["MAL"] = [numbers["MAL"] EXCEPT !.holder = r] /\ numbers["MAL"].holder = Nobody
    BY <1>4 DEF Enters, Insert
  <2>2. q = r
    BY <1>1, <2>1 DEF Serial
  <2> QED
    BY <1>0, <2>1, <2>2 DEF Series
<1>5. CASE Commits(r) \/ Drops(r)
  <2>1. q # r
    BY <1>5 DEF Commits, Drops, Receiving
  <2>2. numbers["MAL"].holder = q
    BY <1>1, <2>1 DEF Serial
  <2> QED
    BY <1>0, <1>5, <2>1, <2>2 DEF Commits, Drops, CommitSeries, RollbackSeries, Series
<1>6. (SameNumbers /\ ~Enters(r)) \/ Enters(r) \/ Commits(r) \/ Drops(r)
  BY DEF StepFacts, Shapes, Begins, Calm, Creates, Replaces, Heads, Sets, Receives, Logs, Rereads
<1> QED
  BY <1>3, <1>4, <1>5, <1>6

-----------------------------------------------------------------------------
\* What an order's row becomes.
LEMMA StatusFacts ==
  ASSUME Documents, NEW r \in Req, StepFacts(r), NEW o \in Order
  PROVE  /\ status.now[o] # Absent => status'.now[o] # Absent
         /\ \A v \in {status'.now[o], status'.work[o]} :
              \/ v \in {status.now[o], status.work[o], "DRAFT", "CANCELLED"}
              \/ v = "CONFIRMED" /\ op'[r] = "confirm" /\ doc'[r] = o /\ pc'[r] = "ok"
              \/ v \in {"RECEIVED", "PARTIALLY_RECEIVED"} /\ doc[r] = o /\ Receiving(r)
<1>0. StatusHolders /\ Existing
  BY DEF Documents
<1>1. CASE UNCHANGED status
  BY <1>1
<1>2. CASE Creates(r)
  <2>1. PICK k \in Order : CreatesOrder(r, k)
    BY <1>2 DEF Creates
  <2> QED
    BY <2>1 DEF CreatesOrder, Absent
<1>3. CASE Heads(r)
  BY <1>3 DEF Heads, Takes, Receiving
<1>4. CASE Sets(r)
  BY <1>4 DEF Sets, Absent
<1>5. CASE Commits(r)
  <2>1. /\ status'.now[o] = IF status.lock[o] = r THEN status.work[o] ELSE status.now[o]
        /\ status'.work[o] = status.work[o]
    BY <1>5 DEF Commits
  <2>2. status.lock[o] = r => status.work[o] \in {status.now[o], "RECEIVED", "PARTIALLY_RECEIVED"}
    BY <1>0 DEF StatusHolders
  <2> QED
    BY <2>1, <2>2 DEF Absent
<1>6. CASE Drops(r)
  BY <1>6 DEF Drops
<1> QED
  BY <1>1, <1>2, <1>3, <1>4, <1>5, <1>6
     DEF StepFacts, Shapes, Begins, Calm, Replaces, Enters, Receives, Logs, Rereads

LEMMA ConfirmedStays ==
  ASSUME Documents, NEW r \in Req, StepFacts(r), NEW o \in Order, Confirmed(o)
  PROVE  Confirmed(o)'
<1>1. CASE Initial[o] = "CONFIRMED"
  BY <1>1 DEF Confirmed
<1>2. ASSUME NEW q \in Req, op[q] = "confirm", doc[q] = o, pc[q] = "ok" PROVE Confirmed(o)'
  <2>1. q # r
    BY <1>2, Acts
  <2> QED
    BY <1>2, <2>1, Others DEF Confirmed
<1> QED
  BY <1>1, <1>2 DEF Confirmed

LEMMA ConfirmationsStep ==
  ASSUME Documents, Confirmations, NEW r \in Req, StepFacts(r)
  PROVE  Confirmations'
<1>0. /\ \A o \in Order :
           {status.now[o], status.work[o]} \cap {"CONFIRMED", "PARTIALLY_RECEIVED", "RECEIVED"} # {}
             => Confirmed(o)
      /\ \A q \in Req : Receiving(q) \/ (op[q] = "receive" /\ pc[q] \in {"number", "insert"})
                          => Confirmed(doc[q])
      /\ \A n \in DOMAIN receipts : Confirmed(receipts[n].order)
  BY DEF Confirmations
<1>1. \A q \in Req : op[q] = "receive" => doc[q] \in Order
  BY DEF Documents, Places, Placed, OrderOps
<1>2. ASSUME NEW o \in Order,
             {status'.now[o], status'.work[o]} \cap {"CONFIRMED", "PARTIALLY_RECEIVED", "RECEIVED"} # {}
      PROVE  Confirmed(o)'
  <2>1. PICK v \in {status'.now[o], status'.work[o]} : v \in {"CONFIRMED", "PARTIALLY_RECEIVED", "RECEIVED"}
    BY <1>2
  <2>2. CASE v \in {status.now[o], status.work[o]}
    <3>1. Confirmed(o)
      BY <1>0, <2>1, <2>2
    <3> QED
      BY <3>1, ConfirmedStays
  <2>3. CASE op'[r] = "confirm" /\ doc'[r] = o /\ pc'[r] = "ok"
    BY <2>3 DEF Confirmed
  <2>4. CASE doc[r] = o /\ Receiving(r)
    BY <1>0, <2>4, ConfirmedStays
  <2> QED
    BY <2>1, <2>2, <2>3, <2>4, StatusFacts
<1>3. ASSUME NEW q \in Req, Receiving(q)' \/ (op'[q] = "receive" /\ pc'[q] \in {"number", "insert"})
      PROVE  Confirmed(doc[q])'
  <2>1. CASE q # r
    <3>1. Confirmed(doc[q]) /\ doc'[q] = doc[q] /\ doc[q] \in Order
      BY <1>0, <1>1, <1>3, <2>1, Others DEF Receiving
    <3>2. PICK o \in Order : o = doc[q]
      BY <3>1
    <3>3. Confirmed(o)'
      BY <3>1, <3>2, ConfirmedStays
    <3> QED
      BY <3>1, <3>2, <3>3 DEF Confirmed
  <2>2. CASE q = r
    <3>1. op[r] = "receive" /\ doc'[r] = doc[r] /\ Confirmed(doc[r])
      <4>1. CASE Begins(r)
        BY <1>3, <2>2, <4>1 DEF Begins, Receiving, OrderOps
      <4>2. CASE Calm(r)
        <5>1. UNCHANGED <<op, doc>> /\ (Receiving(r)' <=> Receiving(r))
              /\ (op[r] = "receive" /\ pc'[r] \in {"number", "insert"} =>
                    pc[r] = "number" \/ status.now[doc[r]] \in {"CONFIRMED", "PARTIALLY_RECEIVED"})
          BY <4>2 DEF Calm
        <5>2. CASE Receiving(r)
          BY <1>0, <5>1, <5>2 DEF Receiving
        <5>3. CASE ~Receiving(r)
          <6>1. op[r] = "receive" /\ pc'[r] \in {"number", "insert"}
            BY <1>3, <2>2, <5>1, <5>3
          <6>2. CASE pc[r] = "number"
            BY <1>0, <5>1, <6>1, <6>2
          <6>3. CASE status.now[doc[r]] \in {"CONFIRMED", "PARTIALLY_RECEIVED"}
            <7>1. doc[r] \in Order
              BY <1>1, <6>1
            <7> QED
              BY <1>0, <5>1, <6>1, <6>3, <7>1
          <6> QED
            BY <5>1, <6>1, <6>2, <6>3
        <5> QED
          BY <5>2, <5>3
      <4>3. CASE Creates(r) \/ Replaces(r) \/ Sets(r) \/ Commits(r) \/ Drops(r)
        BY <1>3, <2>2, <4>3 DEF Creates, Replaces, Sets, Commits, Drops, Receiving
      <4>4. CASE Enters(r)
        BY <1>0, <4>4 DEF Enters
      <4>5. CASE Heads(r) \/ Receives(r) \/ Logs(r) \/ Rereads(r)
        <5>1. UNCHANGED <<op, doc>>
          BY <4>5 DEF Heads, Receives, Logs, Rereads
        <5>2. op[r] = "receive" => Receiving(r)
          BY <4>5 DEF Heads, Receives, Logs, Rereads, Receiving
        <5>3. op[r] = "receive"
          BY <1>3, <2>2, <5>1 DEF Receiving
        <5> QED
          BY <1>0, <5>1, <5>2, <5>3
      <4> QED
        BY <4>1, <4>2, <4>3, <4>4, <4>5 DEF StepFacts, Shapes
    <3>2. PICK o \in Order : o = doc[r]
      BY <1>1, <3>1
    <3>3. Confirmed(o)'
      BY <3>1, <3>2, ConfirmedStays
    <3> QED
      BY <2>2, <3>1, <3>2, <3>3 DEF Confirmed
  <2> QED
    BY <2>1, <2>2
<1>4. ASSUME NEW n \in DOMAIN receipts' PROVE Confirmed(receipts[n].order)'
  <2>1. receipts \in Seq(Receipt)
    BY DEF Documents, DocTypes
  <2>2. PICK o \in Order : o = receipts'[n].order /\ Confirmed(o)
    <3>1. CASE UNCHANGED receipts
      <4>1. receipts[n] \in Receipt /\ n \in DOMAIN receipts
        BY <1>4, <2>1, <3>1
      <4> QED
        BY <1>0, <3>1, <4>1 DEF Receipt
    <3>2. CASE Commits(r) /\ op[r] = "receive"
      <4>1. receipts' = Append(receipts, Writing(r)) /\ Receiving(r)
        BY <3>2 DEF Commits, Receiving
      <4>2. Confirmed(doc[r]) /\ doc[r] \in Order
        BY <1>0, <1>1, <3>2, <4>1
      <4>3. CASE n \in DOMAIN receipts
        <5>1. receipts'[n] = receipts[n] /\ receipts[n] \in Receipt
          BY <2>1, <4>1, <4>3
        <5> QED
          BY <1>0, <4>3, <5>1 DEF Receipt
      <4>4. CASE n \notin DOMAIN receipts
        <5>1. receipts'[n] = Writing(r)
          BY <1>4, <2>1, <4>1, <4>4
        <5> QED
          BY <4>2, <5>1 DEF Writing
      <4> QED
        BY <4>3, <4>4
    <3> QED
      BY <3>1, <3>2 DEF StepFacts, Shapes, Begins, Calm, Creates, Replaces, Heads, Sets, Enters,
         Receives, Logs, Rereads, Drops, Commits
  <2>3. Confirmed(o)'
    BY <2>2, ConfirmedStays
  <2> QED
    BY <2>2, <2>3 DEF Confirmed
<1> QED
  BY <1>2, <1>3, <1>4 DEF Confirmations, Confirmed, Receiving

-----------------------------------------------------------------------------
\* A line that was made stays so.
LEMMA MadeStays ==
  ASSUME Documents, NEW r \in Req, StepFacts(r), NEW l \in Line, Made(l)
  PROVE  Made(l)'
<1>1. l[1] \in Order /\ l[3] \in Req \cup {Nobody}
  BY DEF Line, Owner
<1>2. CASE l[3] = Nobody
  BY <1>1, <1>2, StatusFacts DEF Made
<1>3. CASE l[3] # Nobody
  <2>1. l[3] # r
    BY <1>3, Acts DEF Made
  <2>2. pc'[l[3]] = pc[l[3]]
    BY <1>1, <1>3, <2>1, Others
  <2> QED
    BY <1>3, <2>2 DEF Made
<1> QED
  BY <1>2, <1>3

\* A line that is made later is on no receipt.
LEMMA UnmadeLine ==
  ASSUME Documents, MadeOnce, NEW l \in Line, ~Made(l)
  PROVE  lines.now[l] = NoLine /\ OnReceipts(receipts, ForLine(l)) = 0
<1> DEFINE c == ForLine(l)
<1>0. receipts \in Seq(Receipt)
  BY DEF Documents, DocTypes
<1>1. lines.now[l] = NoLine
  BY DEF MadeOnce
<1>2. \A x : x \notin Sites(receipts, c)
  <2> SUFFICES ASSUME NEW x \in Sites(receipts, c) PROVE FALSE
    OBVIOUS
  <2>0. PICK n \in 1..Len(receipts) : \E k \in DOMAIN receipts[n].dto.lines :
          x = <<n, k>> /\ Chosen(c, receipts[n], k)
    <3> HIDE DEF c
    <3> QED
      BY <1>0, SitesFacts
  <2>1. PICK k \in DOMAIN receipts[n].dto.lines : x = <<n, k>> /\ Chosen(c, receipts[n], k)
    BY <2>0
  <2>2. /\ receipts[n].order = l[1] /\ receipts[n].dto.by = l[3]
        /\ receipts[n].dto.lines[k].slot = l[2]
    BY <2>1 DEF Chosen, ForLine
  <2>3. LineOf(receipts[n], k) = l
    BY <2>2 DEF LineOf, Line
  <2>4. n \in DOMAIN receipts
    BY <1>0
  <2> QED
    BY <2>1, <2>3, <2>4 DEF MadeOnce
<1>3. Sites(receipts, c) = {}
  BY <1>2
<1> DEFINE g == [x \in Sites(receipts, c) |-> receipts[x[1]].dto.lines[x[2]].qty]
<1>4. OnReceipts(receipts, c) = SumOf(g, {})
  BY <1>3 DEF OnReceipts
<1> HIDE DEF g
<1> QED
  BY <1>1, <1>4, FS_EmptySet, SumFacts

\* A step leaves the lines of another receipt alone.
LEMMA OthersLines ==
  ASSUME Documents, MadeOnce, NEW r \in Req, StepFacts(r), NEW q \in Req \ {r}, Receiving(q),
         NEW l \in Line
  PROVE  /\ lines'.lock[l] = q <=> lines.lock[l] = q
         /\ lines.lock[l] = q => lines'.work[l] = lines.work[l] /\ lines'.now[l] = lines.now[l]
<1> USE NobodyAssumption
<1>0. lines.lock[l] = q => l[1] = doc[q] /\ lines.now[l] # NoLine
  BY HeldFacts DEF Holds, Receiving
<1>1. CASE UNCHANGED lines
  BY <1>1
<1>2. CASE Creates(r)
  <2>1. PICK o \in Order : CreatesOrder(r, o)
    BY <1>2 DEF Creates
  <2>2. status.now[o] = Absent /\ lines'.lock = lines.lock
        /\ (l[1] # o => lines'.now[l] = lines.now[l] /\ lines'.work[l] = lines.work[l])
    BY <2>1 DEF CreatesOrder
  <2>3. doc[q] # o
    BY <2>2 DEF Documents, Existing, OrderOps, Receiving
  <2> QED
    BY <1>0, <2>2, <2>3
<1>3. CASE Replaces(r)
  <2>1. lines.lock[l] = q => l \notin New(r)
    <3> SUFFICES ASSUME lines.lock[l] = q, l \in New(r) PROVE FALSE
      OBVIOUS
    <3>1. Made(l) /\ l[3] = r
      BY <1>0 DEF MadeOnce, New
    <3> QED
      BY <3>1, Acts DEF Made
  <2> QED
    BY <1>3, <2>1 DEF Replaces
<1>4. CASE Receives(r)
  BY <1>4 DEF Receives
<1>5. CASE Commits(r) \/ Drops(r)
  BY <1>5 DEF Commits, Drops
<1> QED
  BY <1>1, <1>2, <1>3, <1>4, <1>5
     DEF StepFacts, Shapes, Begins, Calm, Heads, Sets, Enters, Logs, Rereads

\* The receipt a request is writing is one.
LEMMA WritingFacts ==
  ASSUME Documents, NEW r \in Req, op[r] = "receive"
  PROVE  /\ Writing(r) \in Receipt /\ doc[r] \in Order /\ todo[r].warehouse \in Warehouse
         /\ \A k \in DOMAIN todo[r].lines : LineOf(Writing(r), k) \in Line
         /\ DOMAIN todo[r].lines = 1..Len(todo[r].lines) /\ Len(todo[r].lines) \in Nat
         /\ \A l \in Line : \A k \in DOMAIN todo[r].lines :
              Chosen(ForLine(l), Writing(r), k) <=> LineOf(Writing(r), k) = l
<1>1. doc[r] \in Order /\ todo[r].warehouse \in Warehouse /\ todo[r] \in Dto
  BY DEF Documents, Places, Placed, OrderOps, DocTypes
<1>2. Writing(r) \in Receipt
  BY <1>1 DEF Writing, Receipt
<1>0. todo[r].lines \in Seq(DeliveryLine)
  BY <1>1 DEF Dto
<1>3. DOMAIN todo[r].lines = 1..Len(todo[r].lines) /\ Len(todo[r].lines) \in Nat
  BY <1>0
<1>4. ASSUME NEW k \in DOMAIN todo[r].lines PROVE todo[r].lines[k].slot \in Slot
  <2>1. todo[r].lines[k] \in DeliveryLine
    BY <1>0, <1>3
  <2> QED
    BY <2>1 DEF DeliveryLine
<1>5. todo[r].by \in Owner
  BY <1>1 DEF Dto
<1>6. \A k \in DOMAIN todo[r].lines : LineOf(Writing(r), k) \in Line
  BY <1>1, <1>4, <1>5 DEF LineOf, Writing, Line
<1>7. ASSUME NEW l \in Line, NEW k \in DOMAIN todo[r].lines
      PROVE  Chosen(ForLine(l), Writing(r), k) <=> LineOf(Writing(r), k) = l
  <2>1. l = <<l[1], l[2], l[3]>>
    BY DEF Line
  <2>2. Chosen(ForLine(l), Writing(r), k) <=>
          doc[r] = l[1] /\ todo[r].by = l[3] /\ todo[r].lines[k].slot = l[2]
    BY <1>1 DEF Chosen, ForLine, Writing
  <2>3. LineOf(Writing(r), k) = <<doc[r], todo[r].lines[k].slot, todo[r].by>>
    BY DEF LineOf, Writing
  <2> QED
    BY <2>1, <2>2, <2>3
<1> QED
  BY <1>1, <1>2, <1>3, <1>6, <1>7

\* How many lines a receipt has counted.
LEMMA CountedFacts ==
  ASSUME Documents, NEW r \in Req, Receiving(r)
  PROVE  /\ Counted(r) \in 0..Len(todo[r].lines) /\ todo[r].at \in 1..(Len(todo[r].lines) + 1)
         /\ \A k \in 1..Counted(r) : k \in DOMAIN todo[r].lines
         /\ todo[r].at - 1 \in 0..Len(todo[r].lines)
<1>1. /\ DOMAIN todo[r].lines = 1..Len(todo[r].lines) /\ Len(todo[r].lines) \in Nat
  BY WritingFacts DEF Receiving
<1>2. /\ pc[r] \in {"line", "find", "upsert", "log"} => todo[r].at \in 1..Len(todo[r].lines)
      /\ pc[r] \in {"status", "received", "commit"} => todo[r].at = Len(todo[r].lines) + 1
  BY DEF Documents, Places, Placed, Receiving
<1> QED
  BY <1>1, <1>2 DEF Counted, Receiving

\* A line its receipt does not hold is none of those it has counted.
LEMMA NotCounted ==
  ASSUME Documents, Progress, NEW r \in Req, Receiving(r), NEW l \in Line, lines.lock[l] # r
  PROVE  OnReceipt(Writing(r), ForLine(l), Counted(r)) = 0
<1>1. \A k \in 1..Counted(r) : lines.lock[LineOf(Writing(r), k)] = r
  BY DEF Progress
<1>2. \A k \in 1..Counted(r) : ~Chosen(ForLine(l), Writing(r), k)
  BY <1>1, WritingFacts, CountedFacts DEF Receiving
<1>3. ChosenOf(Writing(r), ForLine(l), Counted(r)) = {}
  BY <1>2 DEF ChosenOf
<1> QED
  BY <1>3, NoneOnReceipt

-----------------------------------------------------------------------------
\* The lines of a receipt, as it has counted them.
CountedLines(r) ==
  /\ \A k \in 1..Counted(r) : lines.lock[LineOf(Writing(r), k)] = r
  /\ \A l \in Line : lines.lock[l] = r =>
       lines.work[l].received =
         lines.now[l].received + OnReceipt(Writing(r), ForLine(l), Counted(r))

LEMMA CountedNext ==
  ASSUME NEW r \in Req, NEW s, NEW n, Writing(r)' = s, Counted(r)' = n,
         \A k \in 1..n : lines'.lock[LineOf(s, k)] = r,
         \A l \in Line : lines'.lock[l] = r =>
           lines'.work[l].received = lines'.now[l].received + OnReceipt(s, ForLine(l), n)
  PROVE  CountedLines(r)'
<1> DEFINE W == Writing(r)
           C == Counted(r)
<1>1. W' = s /\ C' = n
  OBVIOUS
<1> HIDE DEF W, C
<1>2. /\ \A k \in 1..C' : lines'.lock[LineOf(W', k)] = r
      /\ \A l \in Line : lines'.lock[l] = r =>
           lines'.work[l].received = lines'.now[l].received + OnReceipt(W', ForLine(l), C')
  BY <1>1
<1> QED
  BY <1>2 DEF CountedLines, LineOf, ForLine, OnReceipt, ChosenOf, Chosen, Amounts, W, C

LEMMA OthersCounted ==
  ASSUME Documents, MadeOnce, Progress, NEW r \in Req, StepFacts(r), NEW q \in Req \ {r},
         Receiving(q)'
  PROVE  CountedLines(q)'
<1>1. Receiving(q) /\ Writing(q)' = Writing(q) /\ Counted(q)' = Counted(q)
  BY Others
<1>2. \A k \in 1..Counted(q) : LineOf(Writing(q), k) \in Line
  BY <1>1, CountedFacts, WritingFacts DEF Receiving
<1>3. ASSUME NEW k \in 1..Counted(q) PROVE lines'.lock[LineOf(Writing(q), k)] = q
  <2>1. lines.lock[LineOf(Writing(q), k)] = q
    BY <1>1 DEF Progress
  <2> QED
    BY <1>1, <1>2, <2>1, OthersLines
<1>4. ASSUME NEW l \in Line, lines'.lock[l] = q
      PROVE  lines'.work[l].received =
               lines'.now[l].received + OnReceipt(Writing(q), ForLine(l), Counted(q))
  <2>1. lines.lock[l] = q /\ lines'.work[l] = lines.work[l] /\ lines'.now[l] = lines.now[l]
    BY <1>1, <1>4, OthersLines
  <2> QED
    BY <1>1, <2>1 DEF Progress
<1> QED
  BY <1>1, <1>3, <1>4, CountedNext

LEMMA OwnCounted ==
  ASSUME Documents, Progress, NEW r \in Req, StepFacts(r), Receiving(r)'
  PROVE  CountedLines(r)'
<1> USE NobodyAssumption
<1> DEFINE s == Writing(r)
           n == Counted(r)
<1>0. Receiving(r) => /\ \A k \in 1..n : lines.lock[LineOf(s, k)] = r
                      /\ \A l \in Line : lines.lock[l] = r =>
                           lines.work[l].received = lines.now[l].received + OnReceipt(s, ForLine(l), n)
  BY DEF Progress
<1>1. CASE Enters(r)
  <2>1. /\ op[r] = "receive" /\ pc[r] = "insert" /\ pc'[r] = "line"
        /\ UNCHANGED <<lines, doc, todo>>
    BY <1>1 DEF Enters
  <2>2. todo[r].at = 1
    BY <2>1 DEF Documents, Places, Placed
  <2>3. Writing(r)' = s /\ Counted(r)' = 0
    BY <2>1, <2>2 DEF Writing, Counted
  <2>4. \A l \in Line : lines'.lock[l] # r
    BY <2>1, HeldFacts DEF Holds, Receiving
  <2>5. \A k \in 1..0 : FALSE
    OBVIOUS
  <2> HIDE DEF s
  <2> QED
    BY <2>3, <2>4, <2>5, CountedNext
<1>2. CASE Calm(r) \/ Rereads(r) \/ Heads(r)
  <2>1. UNCHANGED <<lines, doc, todo>> /\ (Receiving(r) \/ Enters(r))
    BY <1>2, Acts DEF Calm, Rereads, Heads
  <2>2. Receiving(r)
    BY <1>1, <1>2, <2>1 DEF Calm, Rereads, Heads, Enters, Receiving
  <2>3. Counted(r)' = n
    BY <1>2, <2>1, <2>2 DEF Calm, Rereads, Heads, Counted, Receiving
  <2>4. Writing(r)' = s
    BY <2>1 DEF Writing
  <2> HIDE DEF s, n
  <2> QED
    BY <1>0, <2>1, <2>2, <2>3, <2>4, CountedNext
<1>3. CASE Logs(r)
  <2>1. /\ op[r] = "receive" /\ pc[r] = "log" /\ pc'[r] \in {"line", "status"}
        /\ UNCHANGED <<lines, doc>> /\ todo' = [todo EXCEPT ![r].at = todo[r].at + 1]
    BY <1>3 DEF Logs
  <2>2. Receiving(r)
    BY <2>1 DEF Receiving
  <2>3. todo \in [Req -> Dto] /\ todo[r].at \in Nat
    BY DEF Documents, DocTypes, Dto
  <2>4. /\ todo'[r].at = todo[r].at + 1 /\ todo'[r].lines = todo[r].lines
        /\ todo'[r].by = todo[r].by /\ todo'[r].warehouse = todo[r].warehouse
    BY <2>1, <2>3 DEF Dto
  <2>5. n = todo[r].at /\ Counted(r)' = n
    BY <2>1, <2>3, <2>4 DEF Counted
  <2> DEFINE t == [order |-> doc[r], dto |-> todo'[r]]
  <2>6. Writing(r)' = t
    BY <2>1 DEF Writing
  <2>7. /\ \A k : LineOf(t, k) = LineOf(s, k)
        /\ \A l \in Line : OnReceipt(t, ForLine(l), n) = OnReceipt(s, ForLine(l), n)
    <3>1. /\ t.order = s.order /\ t.dto.lines = s.dto.lines /\ t.dto.by = s.dto.by
          /\ t.dto.warehouse = s.dto.warehouse
      BY <2>4 DEF Writing
    <3> HIDE DEF t, s, n
    <3> QED
      BY <3>1, SameReceipt DEF LineOf
  <2> HIDE DEF s, n, t
  <2> QED
    BY <1>0, <2>1, <2>2, <2>5, <2>6, <2>7, CountedNext
<1>4. CASE Receives(r)
  <2> DEFINE j == LineKey(r)
             row == IF lines.lock[j] = r THEN lines.work[j] ELSE lines.now[j]
             a == todo[r].at
  <2>1. /\ op[r] = "receive" /\ pc[r] = "line" /\ pc'[r] = "find" /\ UNCHANGED <<op, doc, todo>>
        /\ j \in Line /\ lines.lock[j] \in {r, Nobody}
        /\ lines'.now = lines.now /\ lines'.lock[j] = r
        /\ \A k \in Line \ {j} : lines'.lock[k] = lines.lock[k] /\ lines'.work[k] = lines.work[k]
    BY <1>4 DEF Receives
  <2>2. Receiving(r)
    BY <2>1 DEF Receiving
  <2>3. /\ a \in 1..Len(s.dto.lines) /\ s \in Receipt /\ s.dto = todo[r] /\ s.order = doc[r]
        /\ n = a - 1 /\ Counted(r)' = a /\ Writing(r)' = s
    <3>1. a \in 1..Len(todo[r].lines)
      BY <2>1 DEF Documents, Places, Placed
    <3> QED
      BY <2>1, <3>1, WritingFacts DEF Counted, Writing
  <2>4. j = LineOf(s, a) /\ Current(r) = s.dto.lines[a]
    BY <2>3 DEF LineKey, LineOf, Current, Writing
  <2>5. lines'.work[j].received = row.received + s.dto.lines[a].qty
    <3>1. Seen(lines, r)[j] = row
      BY <2>1, SeenFacts DEF Documents, DocTypes
    <3>2. lines'.work[j] = [qty      |-> Seen(lines, r)[j].qty,
                            received |-> Seen(lines, r)[j].received + Current(r).qty]
      BY <1>4 DEF Receives
    <3> HIDE DEF row, j
    <3> QED
      BY <2>4, <3>1, <3>2
  <2>6. row.received = lines.now[j].received + OnReceipt(s, ForLine(j), n)
    <3>1. CASE lines.lock[j] = r
      BY <1>0, <2>1, <2>2, <3>1
    <3>2. CASE lines.lock[j] # r
      <4>1. OnReceipt(s, ForLine(j), n) = 0
        BY <2>1, <2>2, <3>2, NotCounted
      <4>2. lines.now[j].received \in Nat
        BY <2>1 DEF Documents, DocTypes, TableOf, LineRow
      <4> HIDE DEF j, s, n
      <4> QED
        BY <3>2, <4>1, <4>2
    <3> QED
      BY <3>1, <3>2
  <2>7. /\ a \in DOMAIN todo[r].lines /\ a \in Nat
        /\ \A k \in 1..a : k = a \/ k \in 1..n
    <3>1. Len(s.dto.lines) \in Nat /\ DOMAIN s.dto.lines = 1..Len(s.dto.lines)
      BY <2>3, LinesFacts
    <3> QED
      BY <2>3, <3>1
  <2>8. \A l \in Line : Chosen(ForLine(l), s, a) <=> LineOf(s, a) = l
    BY <2>1, <2>7, WritingFacts
  <2>9. \A l \in Line : /\ OnReceipt(s, ForLine(l), n) \in Int
                        /\ OnReceipt(s, ForLine(l), a) = OnReceipt(s, ForLine(l), n)
                             + (IF l = j THEN s.dto.lines[a].qty ELSE 0)
    <3> HIDE DEF s, j, n, a
    <3> SUFFICES ASSUME NEW l \in Line
                 PROVE  /\ OnReceipt(s, ForLine(l), n) \in Int
                        /\ OnReceipt(s, ForLine(l), a) = OnReceipt(s, ForLine(l), n)
                             + (IF l = j THEN s.dto.lines[a].qty ELSE 0)
      OBVIOUS
    <3>1. /\ OnReceipt(s, ForLine(l), a - 1) \in Int
          /\ OnReceipt(s, ForLine(l), a) = OnReceipt(s, ForLine(l), a - 1)
               + (IF Chosen(ForLine(l), s, a) THEN s.dto.lines[a].qty ELSE 0)
      BY <2>3, NextLine
    <3>2. Chosen(ForLine(l), s, a) <=> l = j
      BY <2>4, <2>8
    <3> QED
      BY <2>3, <3>1, <3>2
  <2>10. lines.now[j].received \in Int /\ s.dto.lines[a].qty \in Int
    <3>1. lines.now[j].received \in Nat
      BY <2>1 DEF Documents, DocTypes, TableOf, LineRow
    <3>2. s.dto.lines[a] \in DeliveryLine
      BY <2>3, <2>7, LinesFacts
    <3> QED
      BY <3>1, <3>2 DEF DeliveryLine
  <2> HIDE DEF s, j, n, a, row
  <2>11. \A k \in 1..a : lines'.lock[LineOf(s, k)] = r
    <3>1. ASSUME NEW k \in 1..n PROVE lines'.lock[LineOf(s, k)] = r
      <4>1. LineOf(s, k) \in Line
        BY <2>1, <2>2, CountedFacts, WritingFacts DEF s, n
      <4> QED
        BY <1>0, <2>1, <2>2, <4>1
    <3> QED
      BY <2>1, <2>4, <2>7, <3>1
  <2>12. ASSUME NEW l \in Line, lines'.lock[l] = r
         PROVE  lines'.work[l].received = lines'.now[l].received + OnReceipt(s, ForLine(l), a)
    <3>1. CASE l = j
      <4>1. /\ lines'.work[l].received = lines.now[j].received + OnReceipt(s, ForLine(j), n)
                                           + s.dto.lines[a].qty
            /\ OnReceipt(s, ForLine(j), n) \in Int
            /\ OnReceipt(s, ForLine(l), a) = OnReceipt(s, ForLine(j), n) + s.dto.lines[a].qty
        BY <2>1, <2>5, <2>6, <2>9, <3>1
      <4> QED
        BY <2>1, <2>10, <3>1, <4>1
    <3>2. CASE l # j
      <4>1. /\ lines'.work[l].received = lines.now[l].received + OnReceipt(s, ForLine(l), n)
            /\ OnReceipt(s, ForLine(l), a) = OnReceipt(s, ForLine(l), n) + 0
            /\ OnReceipt(s, ForLine(l), n) \in Int
        BY <1>0, <2>1, <2>2, <2>9, <2>12, <3>2
      <4> QED
        BY <2>1, <4>1
    <3> QED
      BY <3>1, <3>2
  <2> QED
    BY <2>3, <2>11, <2>12, CountedNext
<1>5. Enters(r) \/ Calm(r) \/ Rereads(r) \/ Heads(r) \/ Logs(r) \/ Receives(r)
  BY DEF StepFacts, Shapes, Begins, Creates, Replaces, Sets, Commits, Drops, Receiving, OrderOps
<1> QED
  BY <1>1, <1>2, <1>3, <1>4, <1>5

LEMMA EntryFacts ==
  ASSUME P!BookTypes, NEW i \in Inv!Item
  PROVE  /\ <<"PURCHASE_IN", i>> \in Entries
         /\ moved[<<"PURCHASE_IN", i>>].qty \in Int
         /\ \A q \in Req : posted[q][<<"PURCHASE_IN", i>>].qty \in Int
         /\ Inv!NoPosting[<<"PURCHASE_IN", i>>].qty = 0
<1>1. <<"PURCHASE_IN", i>> \in Entries /\ <<"PURCHASE_IN", i>> \in Inv!MovementType \X Inv!Item
  BY DEF Entries, Inv!MovementType
<1>2. \A m \in Inv!Ledger : m[<<"PURCHASE_IN", i>>].qty \in Int
  BY <1>1 DEF Inv!Ledger
<1> QED
  BY <1>1, <1>2, StockParts DEF Inv!NoPosting

\* What a receipt has posted is what its lines so far brought in.
PostedAs(r, i) ==
  posted[r][<<"PURCHASE_IN", i>>].qty =
    IF Receiving(r) THEN OnReceipt(Writing(r), ForItem(i), todo[r].at - 1) ELSE 0

LEMMA PostedNext ==
  ASSUME NEW r \in Req, NEW i \in Inv!Item, NEW s, NEW n,
         posted'[r][<<"PURCHASE_IN", i>>].qty =
           (IF Receiving(r)' THEN OnReceipt(s, ForItem(i), n) ELSE 0),
         Receiving(r)' => Writing(r)' = s /\ todo'[r].at - 1 = n
  PROVE  PostedAs(r, i)'
<1> DEFINE W == Writing(r)
           C == todo[r].at - 1
           R == Receiving(r)
<1>1. R' => W' = s /\ C' = n
  OBVIOUS
<1>2. posted'[r][<<"PURCHASE_IN", i>>].qty = IF R' THEN OnReceipt(s, ForItem(i), n) ELSE 0
  OBVIOUS
<1> HIDE DEF W, C, R
<1>3. posted'[r][<<"PURCHASE_IN", i>>].qty = IF R' THEN OnReceipt(W', ForItem(i), C') ELSE 0
  BY <1>1, <1>2
<1> QED
  BY <1>3 DEF PostedAs, ForItem, OnReceipt, ChosenOf, Chosen, Amounts, W, C, R

\* The line a receipt posts.
LEMMA PostingOfLine ==
  ASSUME Documents, NEW r \in Req, op[r] = "receive", pc[r] = "log", NEW i \in Inv!Item
  PROVE  Posting(r, <<"PURCHASE_IN", i>>) =
           IF Chosen(ForItem(i), Writing(r), todo[r].at) THEN todo[r].lines[todo[r].at].qty ELSE 0
<1> DEFINE s == todo[r]
           line == s.lines[s.at]
<1>1. /\ s.at \in 1..Len(s.lines) /\ Delivers(mv[r], s)
  BY DEF Documents, Places, Placed
<1>2. doc[r] \in Order /\ s.warehouse \in Warehouse /\ s.by \in Owner /\ line.slot \in Slot
  <2>1. doc[r] \in Order /\ s.warehouse \in Warehouse /\ s \in Dto
    BY WritingFacts DEF Documents, DocTypes
  <2>2. s.lines \in Seq(DeliveryLine) /\ s.by \in Owner
    BY <2>1 DEF Dto
  <2>3. line \in DeliveryLine
    BY <1>1, <2>2
  <2> QED
    BY <2>1, <2>2, <2>3 DEF DeliveryLine
<1>3. i = <<i[1], i[2]>>
  BY StockFacts
<1>4. /\ mv[r].type = "PURCHASE_IN" /\ mv[r].qty = line.qty
      /\ mv[r].item = <<s.warehouse, ProductOf[line.slot]>>
  BY <1>1 DEF Delivers
<1> HIDE DEF line
<1>5. Chosen(ForItem(i), Writing(r), s.at) <=>
        s.warehouse = i[1] /\ ProductOf[line.slot] = i[2]
  BY <1>2 DEF Chosen, ForItem, Writing, line
<1>6. Posting(r, <<"PURCHASE_IN", i>>) =
        IF i = <<s.warehouse, ProductOf[line.slot]>> THEN line.qty ELSE 0
  BY <1>4 DEF Posting
<1> QED
  BY <1>3, <1>5, <1>6 DEF line

LEMMA PostedStep ==
  ASSUME P!BookTypes, Documents, Progress, NEW r \in Req, StepFacts(r), Goods(r),
         NEW q \in Req, NEW i \in Inv!Item
  PROVE  PostedAs(q, i)'
<1> DEFINE x == <<"PURCHASE_IN", i>>
           s == Writing(r)
<1>1. /\ x \in Entries /\ posted[r][x].qty \in Int /\ Inv!NoPosting[x].qty = 0
      /\ \A p \in Req : posted[p][x].qty =
           IF Receiving(p) THEN OnReceipt(Writing(p), ForItem(i), todo[p].at - 1) ELSE 0
  BY EntryFacts DEF Progress
<1>2. CASE q # r
  <2>1. /\ posted'[q] = posted[q] /\ (Receiving(q)' <=> Receiving(q))
        /\ Writing(q)' = Writing(q) /\ todo'[q] = todo[q]
    BY <1>2, Others DEF Goods
  <2>2. posted'[q][x].qty = IF Receiving(q)' THEN OnReceipt(Writing(q), ForItem(i), todo[q].at - 1) ELSE 0
    BY <1>1, <2>1
  <2> HIDE DEF x
  <2> QED
    BY <2>1, <2>2, PostedNext DEF x
<1>3. CASE q = r /\ Still(r)
  <2>1. posted'[r][x].qty = posted[r][x].qty /\ (Receiving(r) => Receiving(r)') /\ ~Logs(r)
    BY <1>1, <1>3 DEF Still, Logs
  <2>2. CASE Enters(r)
    <3>1. /\ op[r] = "receive" /\ pc[r] = "insert" /\ pc'[r] = "line" /\ UNCHANGED <<doc, todo>>
      BY <2>2 DEF Enters
    <3>2. todo[r].at = 1
      BY <3>1 DEF Documents, Places, Placed
    <3>3. Writing(r)' = s /\ todo'[r].at - 1 = 0 /\ ~Receiving(r)
      BY <3>1, <3>2 DEF Writing, Receiving
    <3>4. OnReceipt(s, ForItem(i), 0) = 0
      <4>1. ChosenOf(s, ForItem(i), 0) = {}
        BY DEF ChosenOf
      <4> QED
        BY <4>1, NoneOnReceipt
    <3> HIDE DEF s
    <3> QED
      BY <1>1, <1>3, <2>1, <3>3, <3>4, PostedNext
  <2>3. CASE ~Enters(r)
    <3>1. Receiving(r)' <=> Receiving(r)
      BY <2>1, <2>3, Acts
    <3>2. Receiving(r) => UNCHANGED <<doc, todo>>
      BY <2>1 DEF StepFacts, Shapes, Begins, Calm, Creates, Replaces, Heads, Sets, Enters, Receives,
         Rereads, Commits, Drops, Receiving
    <3>3. Receiving(r) => Writing(r)' = s /\ todo'[r].at - 1 = todo[r].at - 1
      BY <3>2 DEF Writing
    <3> HIDE DEF s
    <3>4. posted'[r][x].qty = IF Receiving(r)' THEN OnReceipt(s, ForItem(i), todo[r].at - 1) ELSE 0
      BY <1>1, <2>1, <3>1 DEF s
    <3> QED
      BY <1>3, <3>1, <3>3, <3>4, PostedNext
  <2> QED
    BY <2>2, <2>3
<1>4. CASE q = r /\ Posts(r)
  <2>1. /\ op[r] = "receive" /\ pc[r] = "log" /\ pc'[r] \in {"line", "status"}
        /\ posted'[r][x].qty = posted[r][x].qty + Posting(r, x)
    BY <1>1, <1>4 DEF Posts
  <2>2. Logs(r)
    BY <2>1 DEF StepFacts, Shapes, Begins, Calm, Creates, Replaces, Heads, Sets, Enters, Receives,
       Rereads, Commits, Drops, Receiving
  <2>3. /\ UNCHANGED <<op, doc>> /\ todo' = [todo EXCEPT ![r].at = todo[r].at + 1]
        /\ Receiving(r) /\ Receiving(r)'
    BY <2>1, <2>2 DEF Logs, Receiving
  <2>4. todo \in [Req -> Dto] /\ todo[r].at \in Nat /\ todo[r].at \in 1..Len(todo[r].lines)
    BY <2>1 DEF Documents, DocTypes, Dto, Places, Placed
  <2>5. /\ todo'[r].at = todo[r].at + 1 /\ todo'[r].lines = todo[r].lines
        /\ todo'[r].by = todo[r].by /\ todo'[r].warehouse = todo[r].warehouse
    BY <2>3, <2>4 DEF Dto
  <2> DEFINE t == [order |-> doc[r], dto |-> todo'[r]]
             n == todo[r].at
  <2>6. Writing(r)' = t
    BY <2>3 DEF Writing
  <2>7. OnReceipt(t, ForItem(i), n) = OnReceipt(s, ForItem(i), n)
    <3>1. /\ t.order = s.order /\ t.dto.lines = s.dto.lines /\ t.dto.by = s.dto.by
          /\ t.dto.warehouse = s.dto.warehouse
      BY <2>5 DEF Writing
    <3> HIDE DEF t, s, n
    <3> QED
      BY <3>1, SameReceipt
  <2>8. s \in Receipt /\ s.dto = todo[r]
    BY <2>1, WritingFacts DEF Writing
  <2> HIDE DEF s
  <2>9. OnReceipt(s, ForItem(i), n) = OnReceipt(s, ForItem(i), n - 1)
          + (IF Chosen(ForItem(i), s, n) THEN s.dto.lines[n].qty ELSE 0)
    BY <2>4, <2>8, NextLine
  <2>10. Posting(r, x) = IF Chosen(ForItem(i), s, n) THEN s.dto.lines[n].qty ELSE 0
    BY <2>1, <2>8, PostingOfLine DEF s
  <2>11. posted[r][x].qty = OnReceipt(s, ForItem(i), n - 1)
    BY <1>1, <2>3 DEF s
  <2>12. todo'[r].at - 1 = n
    BY <2>4, <2>5
  <2> HIDE DEF t, n, x
  <2>13. posted'[r][x].qty = OnReceipt(t, ForItem(i), n)
    BY <2>1, <2>7, <2>9, <2>10, <2>11
  <2> QED
    BY <1>4, <2>3, <2>6, <2>12, <2>13, PostedNext DEF x
<1>5. CASE q = r /\ (Clears(r) \/ Merges(r))
  <2>1. posted'[r][x].qty = 0 /\ ~Receiving(r)'
    BY <1>1, <1>5 DEF Clears, Merges, Receiving
  <2> QED
    BY <1>5, <2>1, PostedNext
<1> QED
  BY <1>2, <1>3, <1>4, <1>5 DEF Goods

LEMMA ProgressStep ==
  ASSUME P!BookTypes, Documents, MadeOnce, Progress, NEW r \in Req, StepFacts(r), Goods(r)
  PROVE  Progress'
<1>1. ASSUME NEW q \in Req, Receiving(q)' PROVE CountedLines(q)'
  BY <1>1, OthersCounted, OwnCounted
<1>2. \A q \in Req : \A i \in Inv!Item : PostedAs(q, i)'
  BY PostedStep
<1>3. \A q \in Req : Receiving(q)' => CountedLines(q)'
  BY <1>1
<1> QED
  BY <1>2, <1>3 DEF Progress, CountedLines, PostedAs

\* Every line of a receipt that is about to commit is held by it.
LEMMA Whole ==
  ASSUME Documents, NEW r \in Req, op[r] = "receive", pc[r] = "commit"
  PROVE  /\ Receiving(r) /\ Counted(r) = Len(todo[r].lines) /\ todo[r].at - 1 = Len(todo[r].lines)
         /\ \A k \in DOMAIN todo[r].lines : k \in 1..Counted(r)
         /\ Writing(r).dto = todo[r]
<1>1. todo[r].at = Len(todo[r].lines) + 1
  BY DEF Documents, Places, Placed
<1>2. Len(todo[r].lines) \in Nat /\ DOMAIN todo[r].lines = 1..Len(todo[r].lines)
  BY WritingFacts
<1> QED
  BY <1>1, <1>2 DEF Receiving, Counted, Writing

LEMMA MadeOnceStep ==
  ASSUME Documents, Progress, MadeOnce, NEW r \in Req, StepFacts(r)
  PROVE  MadeOnce'
<1> USE NobodyAssumption
<1>0. /\ \A l \in Line : lines.now[l] # NoLine => Made(l)
      /\ \A n \in DOMAIN receipts : \A k \in DOMAIN receipts[n].dto.lines : Made(LineOf(receipts[n], k))
  BY DEF MadeOnce
<1>1. ASSUME NEW l \in Line, lines'.now[l] # NoLine PROVE Made(l)'
  <2>1. CASE lines'.now[l] = lines.now[l]
    BY <1>0, <1>1, <2>1, MadeStays
  <2>2. CASE Creates(r)
    <3>1. PICK o \in Order : CreatesOrder(r, o)
      BY <2>2 DEF Creates
    <3>2. CASE l[1] = o /\ l[3] = Nobody
      <4>1. status'.now[o] = "DRAFT"
        BY <3>1 DEF CreatesOrder
      <4> QED
        BY <3>2, <4>1 DEF Made, Absent
    <3>3. CASE ~(l[1] = o /\ l[3] = Nobody)
      BY <2>1, <3>1, <3>3 DEF CreatesOrder
    <3> QED
      BY <3>2, <3>3
  <2>3. CASE Commits(r) /\ lines.lock[l] = r
    <3>1. /\ op[r] \in {"update", "receive"} /\ pc'[r] = "ok" /\ lines'.now[l] = lines.work[l]
          /\ pc[r] = "commit"
      BY <2>3 DEF Commits
    <3>2. CASE Receiving(r)
      <4>1. lines.now[l] # NoLine
        BY <2>3, <3>2, HeldFacts DEF Holds, Receiving
      <4> QED
        BY <1>0, <4>1, MadeStays
    <3>3. CASE ~Receiving(r)
      <4>1. IF l[3] = r THEN TRUE ELSE lines.work[l] = NoLine
        BY <2>3, <3>3, HeldFacts DEF Holds
      <4>2. l[3] = r
        BY <1>1, <3>1, <4>1
      <4> QED
        BY <3>1, <4>2 DEF Made
    <3> QED
      BY <3>2, <3>3
  <2> QED
    BY <2>1, <2>2, <2>3 DEF StepFacts, Shapes, Begins, Calm, Replaces, Heads, Sets, Enters, Receives,
       Logs, Rereads, Commits, Drops
<1>2. receipts \in Seq(Receipt)
  BY DEF Documents, DocTypes
<1>3. ASSUME NEW n \in DOMAIN receipts, NEW k \in DOMAIN receipts[n].dto.lines
      PROVE  Made(LineOf(receipts[n], k)) /\ LineOf(receipts[n], k) \in Line
  <2>1. receipts[n] \in Receipt
    BY <1>2
  <2>2. receipts[n].dto.lines[k] \in DeliveryLine
    BY <2>1, LinesFacts
  <2>3. LineOf(receipts[n], k) \in Line
    BY <2>1, <2>2 DEF LineOf, Line, Receipt, Dto, DeliveryLine
  <2> QED
    BY <1>0, <2>3
<1>4. ASSUME NEW n \in DOMAIN receipts', NEW k \in DOMAIN receipts'[n].dto.lines
      PROVE  \E l \in Line : Made(l)' /\ LineOf(receipts'[n], k) = l
  <2>1. CASE n \in DOMAIN receipts /\ receipts'[n] = receipts[n]
    <3>1. Made(LineOf(receipts[n], k)) /\ LineOf(receipts[n], k) \in Line
      BY <1>3, <1>4, <2>1
    <3>2. PICK l \in Line : l = LineOf(receipts[n], k)
      BY <3>1
    <3>3. Made(l)'
      BY <3>1, <3>2, MadeStays
    <3> QED
      BY <2>1, <3>2, <3>3
  <2>2. CASE Commits(r) /\ op[r] = "receive" /\ receipts'[n] = Writing(r)
    <3>1. op[r] = "receive" /\ pc[r] = "commit"
      BY <2>2 DEF Commits
    <3>2. k \in 1..Counted(r) /\ k \in DOMAIN todo[r].lines /\ Receiving(r)
      BY <1>4, <2>2, <3>1, Whole
    <3>3. LineOf(Writing(r), k) \in Line /\ lines.lock[LineOf(Writing(r), k)] = r
      BY <3>1, <3>2, WritingFacts DEF Progress
    <3>4. PICK l \in Line : l = LineOf(Writing(r), k)
      BY <3>3
    <3>5. lines.now[l] # NoLine
      BY <3>1, <3>3, <3>4, HeldFacts DEF Holds
    <3>6. Made(l)'
      BY <1>0, <3>5, MadeStays
    <3> QED
      BY <2>2, <3>4, <3>6
  <2>3. CASE UNCHANGED receipts
    BY <1>4, <2>1, <2>3
  <2>4. CASE Commits(r) /\ op[r] = "receive"
    <3>1. receipts' = Append(receipts, Writing(r))
      BY <2>4 DEF Commits
    <3>2. \/ n \in DOMAIN receipts /\ receipts'[n] = receipts[n]
          \/ receipts'[n] = Writing(r)
      BY <1>2, <1>4, <3>1
    <3> QED
      BY <2>1, <2>2, <2>4, <3>2
  <2> QED
    BY <2>3, <2>4 DEF StepFacts, Shapes, Begins, Calm, Creates, Replaces, Heads, Sets, Enters,
       Receives, Logs, Rereads, Drops, Commits
<1>5. \A n \in DOMAIN receipts' : \A k \in DOMAIN receipts'[n].dto.lines :
        \E l \in Line : Made(l)' /\ LineOf(receipts'[n], k) = l
  BY <1>4
<1> DEFINE Now(l) == IF l[3] = Nobody THEN status'.now[l[1]] # Absent ELSE pc'[l[3]] = "ok"
<1>6. \A l \in Line : Made(l)' => Now(l)
  BY DEF Made
<1> HIDE DEF Now
<1>7. \A n \in DOMAIN receipts' : \A k \in DOMAIN receipts'[n].dto.lines :
        Now(LineOf(receipts'[n], k))
  BY <1>5, <1>6
<1>8. \A l \in Line : lines'.now[l] # NoLine => Now(l)
  BY <1>1, <1>6
<1>9. (\A l \in Line : lines.now[l] # NoLine => Made(l))'
  BY <1>8 DEF Made, Now
<1>10. (\A n \in DOMAIN receipts : \A k \in DOMAIN receipts[n].dto.lines :
          Made(LineOf(receipts[n], k)))'
  BY <1>7 DEF Made, LineOf, Now
<1> QED
  BY <1>9, <1>10 DEF MadeOnce

-----------------------------------------------------------------------------
\* The receipts, after a step.
LEMMA ReceiptsNext ==
  ASSUME Documents, NEW r \in Req, StepFacts(r), NEW c
  PROVE  OnReceipts(receipts', c) = OnReceipts(receipts, c)
           + (IF Commits(r) /\ op[r] = "receive" THEN OnReceipt(Writing(r), c, Len(todo[r].lines)) ELSE 0)
<1>0. receipts \in Seq(Receipt)
  BY DEF Documents, DocTypes
<1>1. OnReceipts(receipts, c) \in Int
  <2> DEFINE g == Values(receipts, c)
             S == Sites(receipts, c)
  <2>1. IsFiniteSet(S) /\ \A x \in S : g[x] \in Int
    BY <1>0, SitesFacts
  <2>2. OnReceipts(receipts, c) = SumOf(g, S)
    BY DEF OnReceipts, Values
  <2> HIDE DEF g, S
  <2> QED
    BY <2>1, <2>2, SumFacts
<1>2. CASE Commits(r) /\ op[r] = "receive"
  <2>1. receipts' = Append(receipts, Writing(r)) /\ Writing(r) \in Receipt
        /\ Writing(r).dto = todo[r]
    BY <1>2, WritingFacts DEF Commits, Writing
  <2> QED
    BY <1>0, <1>2, <2>1, NextReceipt
<1>3. CASE ~(Commits(r) /\ op[r] = "receive")
  <2>1. receipts' = receipts
    BY <1>3 DEF StepFacts, Shapes, Begins, Calm, Creates, Replaces, Heads, Sets, Enters,
       Receives, Logs, Rereads, Drops, Commits
  <2> QED
    BY <1>1, <1>3, <2>1
<1> QED
  BY <1>2, <1>3

LEMMA ReceivedStep ==
  ASSUME Documents, MadeOnce, Progress, Committed, NEW r \in Req, StepFacts(r), NEW l \in Line,
         lines'.now[l] # NoLine
  PROVE  lines'.now[l].received = OnReceipts(receipts', ForLine(l))
<1> USE NobodyAssumption
<1> DEFINE c == ForLine(l)
           n == Len(todo[r].lines)
<1>0. lines.now[l] # NoLine => lines.now[l].received = OnReceipts(receipts, c)
  BY DEF Committed
<1>a. OnReceipts(receipts', c) = OnReceipts(receipts, c)
           + (IF Commits(r) /\ op[r] = "receive" THEN OnReceipt(Writing(r), c, n) ELSE 0)
  BY ReceiptsNext
<1>b. lines.now[l].received \in Int
  <2>1. lines.now[l].received \in Nat
    BY DEF Documents, DocTypes, TableOf, LineRow
  <2> QED
    BY <2>1
<1>1. CASE lines'.now[l] = lines.now[l] /\ ~(Commits(r) /\ op[r] = "receive")
  BY <1>0, <1>1, <1>a, <1>b
<1>2. CASE Creates(r)
  <2>1. PICK o \in Order : CreatesOrder(r, o)
    BY <1>2 DEF Creates
  <2>2. op[r] = "create"
    BY <1>2 DEF Creates
  <2>3. CASE l[1] = o /\ l[3] = Nobody
    <3>1. status.now[o] = Absent /\ lines'.now[l].received = 0
      BY <2>1, <2>3 DEF CreatesOrder
    <3>2. OnReceipts(receipts, c) = 0
      BY <2>3, <3>1, UnmadeLine DEF Made
    <3> QED
      BY <1>a, <2>2, <3>1, <3>2
  <2>4. CASE ~(l[1] = o /\ l[3] = Nobody)
    BY <1>1, <2>1, <2>2, <2>4 DEF CreatesOrder
  <2> QED
    BY <2>3, <2>4
<1>3. CASE Commits(r) /\ op[r] = "update"
  <2>1. /\ lines'.now[l] = IF lines.lock[l] = r THEN lines.work[l] ELSE lines.now[l]
        /\ pc[r] = "commit"
    BY <1>3 DEF Commits
  <2>2. CASE lines.lock[l] = r
    <3>1. IF l[3] = r THEN lines.work[l].received = 0 ELSE lines.work[l] = NoLine
      BY <1>3, <2>2, HeldFacts DEF Holds, Receiving
    <3>2. l[3] = r /\ lines'.now[l].received = 0
      BY <2>1, <2>2, <3>1
    <3>3. OnReceipts(receipts, c) = 0
      BY <2>1, <3>2, UnmadeLine DEF Made
    <3> QED
      BY <1>3, <1>a, <3>2, <3>3
  <2> QED
    BY <1>1, <1>3, <2>1, <2>2
<1>4. CASE Commits(r) /\ op[r] = "receive"
  <2>1. /\ lines'.now[l] = IF lines.lock[l] = r THEN lines.work[l] ELSE lines.now[l]
        /\ pc[r] = "commit" /\ op[r] = "receive"
    BY <1>4 DEF Commits
  <2>2. Receiving(r) /\ Counted(r) = n
    BY <2>1, Whole
  <2>3. CASE lines.lock[l] = r
    <3>1. lines.now[l] # NoLine
      BY <2>1, <2>3, HeldFacts DEF Holds
    <3>2. lines.work[l].received = lines.now[l].received + OnReceipt(Writing(r), c, n)
      BY <2>2, <2>3 DEF Progress
    <3> QED
      BY <1>0, <1>4, <1>a, <2>1, <2>3, <3>1, <3>2
  <2>4. CASE lines.lock[l] # r
    <3>1. OnReceipt(Writing(r), c, n) = 0
      BY <2>2, <2>4, NotCounted
    <3>2. lines'.now[l] = lines.now[l]
      BY <2>1, <2>4
    <3>3. OnReceipts(receipts', c) = OnReceipts(receipts, c) + 0
      BY <1>4, <1>a, <3>1
    <3>4. lines.now[l].received = OnReceipts(receipts, c)
      BY <1>0, <3>2
    <3> HIDE DEF c
    <3> QED
      BY <1>b, <3>2, <3>3, <3>4 DEF c
  <2> QED
    BY <2>3, <2>4
<1> QED
  BY <1>1, <1>2, <1>3, <1>4 DEF StepFacts, Shapes, Begins, Calm, Replaces, Heads, Sets, Enters, Receives,
       Logs, Rereads, Commits, Drops

LEMMA MovedStep ==
  ASSUME P!BookTypes, Documents, Progress, Committed, NEW r \in Req, StepFacts(r), Goods(r),
         NEW i \in Inv!Item
  PROVE  moved'[<<"PURCHASE_IN", i>>].qty = OnReceipts(receipts', ForItem(i))
<1> DEFINE x == <<"PURCHASE_IN", i>>
           n == Len(todo[r].lines)
<1>1. /\ x \in Entries /\ moved[x].qty \in Int /\ moved[x].qty = OnReceipts(receipts, ForItem(i))
      /\ posted[r][x].qty =
           IF Receiving(r) THEN OnReceipt(Writing(r), ForItem(i), todo[r].at - 1) ELSE 0
  BY EntryFacts DEF Progress, Committed
<1>2. OnReceipts(receipts', ForItem(i)) = OnReceipts(receipts, ForItem(i))
        + (IF Commits(r) /\ op[r] = "receive" THEN OnReceipt(Writing(r), ForItem(i), n) ELSE 0)
  BY ReceiptsNext
<1>3. CASE ~(Commits(r) /\ op[r] = "receive") /\ moved'[x].qty = moved[x].qty
  BY <1>1, <1>2, <1>3
<1>4. CASE Still(r) \/ Posts(r) \/ Clears(r)
  <2>1. ~(Commits(r) /\ op[r] = "receive")
    BY <1>4 DEF Still, Posts, Clears, Commits, Receiving
  <2>2. moved'[x].qty = moved[x].qty
    BY <1>1, <1>4 DEF Still, Posts, Clears
  <2> QED
    BY <1>3, <2>1, <2>2
<1>5. CASE Merges(r) /\ ~Receiving(r)
  <2>1. ~(Commits(r) /\ op[r] = "receive")
    BY <1>5, Whole DEF Commits
  <2>2. moved'[x].qty = moved[x].qty + posted[r][x].qty
    BY <1>1, <1>5 DEF Merges
  <2> HIDE DEF x
  <2> QED
    BY <1>1, <1>3, <1>5, <2>1, <2>2
<1>6. CASE Merges(r) /\ Receiving(r)
  <2>1. op[r] = "receive" /\ pc[r] = "commit" /\ pc'[r] = "ok"
    BY <1>6 DEF Merges, Receiving
  <2>2. Commits(r)
    BY <2>1 DEF StepFacts, Shapes, Begins, Calm, Creates, Replaces, Heads, Sets, Enters, Receives,
       Logs, Rereads, Drops, Receiving
  <2>3. todo[r].at - 1 = n
    BY <2>1, Whole
  <2>4. moved'[x].qty = moved[x].qty + posted[r][x].qty
    BY <1>1, <1>6 DEF Merges
  <2> HIDE DEF x, n
  <2> QED
    BY <1>1, <1>2, <1>6, <2>1, <2>2, <2>3, <2>4 DEF x
<1> QED
  BY <1>4, <1>5, <1>6 DEF Goods

LEMMA CommittedStep ==
  ASSUME P!BookTypes, Documents, MadeOnce, Progress, Committed, NEW r \in Req, StepFacts(r), Goods(r)
  PROVE  Committed'
<1>1. \A l \in Line : lines'.now[l] # NoLine => lines'.now[l].received = OnReceipts(receipts', ForLine(l))
  BY ReceivedStep
<1>2. \A i \in Inv!Item : moved'[<<"PURCHASE_IN", i>>].qty = OnReceipts(receipts', ForItem(i))
  BY MovedStep
<1> QED
  BY <1>1, <1>2 DEF Committed, OnReceipts, Sites, Chosen, ForLine, ForItem

-----------------------------------------------------------------------------
\* An edit that replaces the lines of an order leaves it short.
LEMMA NewShort ==
  ASSUME Documents, NEW r \in Req, op[r] = "update", pc[r] = "commit",
         NEW k \in Line, lines.lock[k] = r
  PROVE  \E l \in LinesOf(doc[r]) : lines.lock[l] = r /\ Remaining(lines.work[l]) > 0
<1> DEFINE l == <<doc[r], k[2], r>>
<1>1. \A s \in Slot : lines.lock[<<doc[r], s, r>>] = r
  BY HeldFacts DEF Holds, Receiving
<1>2. k[2] \in Slot /\ doc[r] \in Order
  BY DEF Line, Documents, Places, Placed, OrderOps
<1>3. l \in Line /\ l[1] = doc[r] /\ l[3] = r
  BY <1>2 DEF Line, Owner
<1>4. lines.lock[l] = r
  BY <1>1, <1>2
<1> HIDE DEF l
<1>5. lines.work[l].qty > 0 /\ lines.work[l].received = 0
  BY <1>3, <1>4, HeldFacts DEF Holds, Receiving
<1>6. lines.work[l].qty \in Nat
  BY <1>3 DEF Documents, DocTypes, TableOf, LineRow
<1> QED
  BY <1>3, <1>4, <1>5, <1>6 DEF LinesOf, Remaining

LEMMA ShortAfterEdit ==
  ASSUME Documents, NEW r \in Req, Commits(r), op[r] = "update", NEW l \in Line,
         Remaining(lines.now[l]) > 0
  PROVE  \E k \in LinesOf(l[1]) :
           Remaining(lines'.now[k]) > 0 /\ (k = l \/ lines'.lock[k] = Nobody)
<1>1. /\ \A k \in Line : /\ lines'.now[k] = IF lines.lock[k] = r THEN lines.work[k] ELSE lines.now[k]
                         /\ lines'.lock[k] = IF lines.lock[k] = r THEN Nobody ELSE lines.lock[k]
      /\ pc[r] = "commit"
  BY DEF Commits
<1>2. CASE lines.lock[l] = r
  <2>1. l[1] = doc[r]
    BY <1>2, HeldFacts DEF Holds
  <2>2. PICK k \in LinesOf(doc[r]) : lines.lock[k] = r /\ Remaining(lines.work[k]) > 0
    BY <1>1, <1>2, NewShort
  <2>3. k \in Line
    BY DEF LinesOf
  <2>4. lines'.now[k] = lines.work[k] /\ lines'.lock[k] = Nobody
    BY <1>1, <2>2, <2>3
  <2> QED
    BY <2>1, <2>2, <2>4
<1>3. CASE lines.lock[l] # r
  <2>1. lines'.now[l] = lines.now[l] /\ l \in LinesOf(l[1])
    BY <1>1, <1>3 DEF LinesOf
  <2> QED
    BY <2>1
<1> QED
  BY <1>2, <1>3

LEMMA SeenLines ==
  ASSUME Documents, NEW r \in Req, StepFacts(r), NEW q, NEW l \in Line
  PROVE  /\ Seen(lines, q)[l] = IF lines.lock[l] = q THEN lines.work[l] ELSE lines.now[l]
         /\ Seen(lines', q)[l] = IF lines'.lock[l] = q THEN lines'.work[l] ELSE lines'.now[l]
<1>1. lines \in TableOf(Line, LineRow)
  BY DEF Documents, DocTypes
<1>2. lines' \in TableOf(Line, LineRow)
  BY DEF StepFacts, DocTypes, TableOf, LineRow, Owner
<1> QED
  BY <1>1, <1>2, SeenFacts

LEMMA OrdersShort ==
  ASSUME Documents, Short, NEW r \in Req, StepFacts(r), NEW o \in Order,
         status'.now[o] = "PARTIALLY_RECEIVED"
  PROVE  \E l \in LinesOf(o) : Remaining(lines'.now[l]) > 0
<1>0. status.now[o] = "PARTIALLY_RECEIVED" => \E l \in LinesOf(o) : Remaining(lines.now[l]) > 0
  BY DEF Short, ShortIn
<1>1. \A l : l \in LinesOf(o) <=> l \in Line /\ l[1] = o
  BY DEF LinesOf
<1>2. CASE status'.now[o] = status.now[o] /\ lines'.now = lines.now
  BY <1>0, <1>2
<1>3. CASE Creates(r)
  <2>1. PICK k \in Order : CreatesOrder(r, k)
    BY <1>3 DEF Creates
  <2>2. o # k /\ status'.now[o] = status.now[o]
    BY <2>1 DEF CreatesOrder
  <2>3. \A l \in LinesOf(o) : lines'.now[l] = lines.now[l]
    BY <1>1, <2>1, <2>2 DEF CreatesOrder
  <2> QED
    BY <1>0, <2>2, <2>3
<1>4. CASE Sets(r)
  BY <1>2, <1>4 DEF Sets
<1>5. CASE Commits(r) /\ op[r] = "update"
  <2>1. status'.now[o] = status.now[o]
    <3>1. status.lock[o] = r => status.work[o] = status.now[o]
      BY <1>5 DEF Documents, StatusHolders
    <3> QED
      BY <1>5, <3>1 DEF Commits
  <2>2. PICK l \in LinesOf(o) : Remaining(lines.now[l]) > 0
    BY <1>0, <2>1
  <2> QED
    BY <1>1, <1>5, <2>2, ShortAfterEdit
<1>6. CASE Commits(r) /\ op[r] = "receive"
  <2>1. /\ pc[r] = "commit"
        /\ status'.now[o] = IF status.lock[o] = r THEN status.work[o] ELSE status.now[o]
        /\ \A l \in Line : lines'.now[l] = IF lines.lock[l] = r THEN lines.work[l] ELSE lines.now[l]
    BY <1>6 DEF Commits
  <2>2. CASE status.lock[o] = r
    <3>1. doc[r] = o /\ ~fully[r]
      BY <1>6, <2>1, <2>2 DEF Documents, StatusHolders
    <3>2. PICK l \in LinesOf(o) : Remaining(Seen(lines, r)[l]) > 0
      BY <1>6, <2>1, <3>1 DEF Short, ShortIn
    <3>3. lines'.now[l] = Seen(lines, r)[l]
      BY <1>1, <2>1, SeenLines
    <3> QED
      BY <3>2, <3>3
  <2>3. CASE status.lock[o] # r
    <3>1. doc[r] # o
      BY <1>6, <2>1, <2>3 DEF Documents, StatusHolders
    <3>2. \A l \in LinesOf(o) : lines.lock[l] # r
      BY <1>1, <3>1, HeldFacts DEF Holds
    <3> QED
      BY <1>0, <1>1, <2>1, <2>3, <3>2
  <2> QED
    BY <2>2, <2>3
<1>7. CASE Heads(r)
  BY <1>2, <1>7 DEF Heads, Takes
<1> QED
  BY <1>2, <1>3, <1>4, <1>5, <1>6, <1>7
     DEF StepFacts, Shapes, Begins, Calm, Replaces, Enters, Receives, Logs, Rereads, Commits, Drops

LEMMA ReceiptsShort ==
  ASSUME Documents, Serial, MadeOnce, Short, NEW r \in Req, StepFacts(r), NEW q \in Req,
         op'[q] = "receive", pc'[q] \in {"received", "commit"}, ~fully'[q]
  PROVE  \E l \in LinesOf(doc'[q]) : Remaining(Seen(lines', q)[l]) > 0
<1> USE NobodyAssumption
<1>0. Receiving(q)'
  BY DEF Receiving
<1>1. CASE q = r
  <2>1. CASE Rereads(r)
    BY <1>1, <2>1 DEF Rereads, ShortIn
  <2>2. CASE Heads(r)
    <3>1. /\ pc[r] = "received" /\ op[r] = "receive" /\ ~fully[r] /\ UNCHANGED <<lines, doc>>
      BY <1>1, <2>2 DEF Heads
    <3> QED
      BY <1>1, <3>1 DEF Short, ShortIn
  <2>3. Rereads(r) \/ Heads(r)
    BY <1>0, <1>1 DEF StepFacts, Shapes, Begins, Calm, Creates, Replaces, Sets, Enters, Receives, Logs,
       Commits, Drops, OrderOps
  <2> QED
    BY <2>1, <2>2, <2>3
<1>2. CASE q # r
  <2>1. /\ Receiving(q) /\ op[q] = "receive" /\ pc[q] \in {"received", "commit"} /\ ~fully[q]
        /\ doc'[q] = doc[q]
    BY <1>0, <1>2, Others
  <2>2. PICK l \in LinesOf(doc[q]) : Remaining(Seen(lines, q)[l]) > 0
    BY <2>1 DEF Short, ShortIn
  <2>3. l \in Line /\ l[1] = doc[q]
    BY DEF LinesOf
  <2>4. /\ \A k \in Line : Seen(lines, q)[k] = IF lines.lock[k] = q THEN lines.work[k] ELSE lines.now[k]
        /\ \A k \in Line : Seen(lines', q)[k] = IF lines'.lock[k] = q THEN lines'.work[k] ELSE lines'.now[k]
    BY SeenLines
  <2>5. /\ lines'.lock[l] = q <=> lines.lock[l] = q
        /\ lines.lock[l] = q => lines'.work[l] = lines.work[l] /\ lines'.now[l] = lines.now[l]
    BY <1>2, <2>1, <2>3, OthersLines
  <2>6. CASE lines.lock[l] = q \/ lines'.now[l] = lines.now[l]
    <3>1. Seen(lines', q)[l] = Seen(lines, q)[l]
      BY <2>3, <2>4, <2>5, <2>6
    <3> QED
      BY <2>1, <2>2, <3>1
  <2>7. CASE Creates(r)
    <3>1. PICK o \in Order : CreatesOrder(r, o)
      BY <2>7 DEF Creates
    <3>2. doc[q] # o
      BY <2>1, <3>1 DEF Documents, Existing, OrderOps, CreatesOrder
    <3> QED
      BY <2>3, <2>6, <3>1, <3>2 DEF CreatesOrder
  <2>8. CASE Commits(r) /\ lines.lock[l] # q
    <3>1. Remaining(lines.now[l]) > 0
      BY <2>2, <2>3, <2>4, <2>8
    <3>2. op[r] = "update"
      <4>1. ASSUME Receiving(r) PROVE FALSE
        BY <1>2, <2>1, <4>1 DEF Serial
      <4> QED
        BY <2>8, <4>1 DEF Commits, Receiving
    <3>3. PICK k \in LinesOf(doc[q]) :
            Remaining(lines'.now[k]) > 0 /\ (k = l \/ lines'.lock[k] = Nobody)
      BY <2>3, <2>8, <3>1, <3>2, ShortAfterEdit
    <3>4. k \in Line /\ lines'.lock[k] # q
      BY <2>5, <2>8, <3>3 DEF LinesOf
    <3>5. Seen(lines', q)[k] = lines'.now[k]
      BY <2>4, <3>4
    <3> QED
      BY <2>1, <3>3, <3>5
  <2>9. lines.lock[l] = q \/ lines'.now[l] = lines.now[l] \/ Creates(r) \/ (Commits(r) /\ lines.lock[l] # q)
    BY DEF StepFacts, Shapes, Begins, Calm, Replaces, Heads, Sets, Enters, Receives, Logs, Rereads, Drops
  <2> QED
    BY <2>6, <2>7, <2>8, <2>9
<1> QED
  BY <1>1, <1>2

LEMMA ShortStep ==
  ASSUME Documents, Serial, MadeOnce, Short, NEW r \in Req, StepFacts(r)
  PROVE  Short'
<1>1. \A o \in Order : status'.now[o] = "PARTIALLY_RECEIVED" =>
         \E l \in LinesOf(o) : Remaining(lines'.now[l]) > 0
  BY OrdersShort
<1>2. \A q \in Req : op'[q] = "receive" /\ pc'[q] \in {"received", "commit"} /\ ~fully'[q] =>
         \E l \in LinesOf(doc'[q]) : Remaining(Seen(lines', q)[l]) > 0
  BY ReceiptsShort
<1> QED
  BY <1>1, <1>2 DEF Short, ShortIn, LinesOf, Seen

-----------------------------------------------------------------------------
(* The invariant holds.                                                    *)

LEMMA PurchasesInit == Init => PurchasesInv
<1> SUFFICES ASSUME Init PROVE PurchasesInv
  OBVIOUS
<1> USE NobodyAssumption
<1>0. /\ stock = NewTable(Opening) /\ moved = Inv!NoPosting /\ mv = [r \in Req |-> <<>>]
      /\ posted = [r \in Req |-> Inv!NoPosting] /\ dest = [r \in Req |-> <<>>]
      /\ pc = [r \in Req |-> "idle"] /\ op = [r \in Req |-> "none"]
      /\ found = [r \in Req |-> Inv!NoRow]
      /\ status = NewTable(Initial) /\ receipts = <<>>
      /\ doc = [r \in Req |-> Nobody] /\ number = [r \in Req |-> 0]
      /\ targets = [r \in Req |-> {}] /\ fully = [r \in Req |-> FALSE]
      /\ todo = [r \in Req |-> NoTodo]
  BY DEF Init, Inv!Init, NewTable, Inv!NewTable
<1> DEFINE Rows(qty) == [l \in Line |-> IF Initial[l[1]] # Absent /\ l[3] = Nobody
                                          THEN [qty |-> qty[l[2]], received |-> 0] ELSE NoLine]
<1>a. PICK qty \in [Slot -> Ordered] : lines = NewTable(Rows(qty))
  BY DEF Init
<1>b. /\ Rows(qty) \in [Line -> LineRow]
      /\ \A l \in Line : Rows(qty)[l].received = 0
                         /\ (Rows(qty)[l] # NoLine => Initial[l[1]] # Absent /\ l[3] = Nobody)
  <2>1. \A l \in Line : l[2] \in Slot
    BY DEF Line
  <2>2. \A s \in Slot : qty[s] \in Nat
    BY OrderAssumption
  <2> QED
    BY <2>1, <2>2 DEF NoLine, LineRow
<1>c. /\ lines \in TableOf(Line, LineRow) /\ lines.now = Rows(qty) /\ lines.work = Rows(qty)
      /\ \A l \in Line : lines.lock[l] = Nobody
  <2> DEFINE R == Rows(qty)
  <2>1. R \in [Line -> LineRow] /\ lines = NewTable(R)
    BY <1>a, <1>b
  <2> HIDE DEF R
  <2>2. /\ lines \in TableOf(Line, LineRow) /\ lines.now = R /\ lines.work = R
        /\ \A l \in Line : lines.lock[l] = Nobody
    BY <2>1, NewTableFacts
  <2> QED
    BY <2>2 DEF R
<1> HIDE DEF Rows
<1>d. /\ status \in TableOf(Order, Status) /\ status.now = Initial /\ status.work = Initial
      /\ \A o \in Order : status.lock[o] = Nobody
  <2>1. Initial \in [Order -> Status]
    BY InitialAssumption DEF Status, PurchaseOrderStatus
  <2> QED
    BY <1>0, <2>1, NewTableFacts
<1>e. /\ numbers \in [{"SAS", "MAL"} -> Series]
  <2> DEFINE S == {o \in Order : Initial[o] # Absent}
             n == Quantify(Order, LAMBDA o : Initial[o] # Absent)
  <2>1. Cardinality(S) \in Nat
    BY FiniteAssumption, FS_Subset, FS_CardinalityType
  <2>2. n = Cardinality(S)
    BY DEF Quantify
  <2> HIDE DEF n, S
  <2>3. numbers = [SAS |-> [NewSeries EXCEPT !.rows = n], MAL |-> NewSeries]
    BY DEF Init, n
  <2>4. NewSeries \in Series /\ [NewSeries EXCEPT !.rows = n] \in Series
    BY <2>1, <2>2 DEF NewSeries, Series, Owner
  <2> QED
    BY <2>3, <2>4
<1>1. P!Books
  <2>1. /\ stock = P!NewTable(Opening) /\ moved = P!NoPosting
        /\ posted = [r \in Req |-> P!NoPosting] /\ found = [r \in Req |-> P!NoRow]
    BY <1>0, StockFacts DEF NewTable, P!NewTable
  <2> QED
    BY <1>0, <2>1, StockAssumptions, P!BooksInit
<1>2. P!BookTypes
  BY <1>1 DEF P!Books
<1>3. Documents
  <2>1. NoTodo \in Dto
    BY DEF NoTodo, Dto, Owner
  <2>2. DocTypes
    BY <1>0, <1>c, <1>d, <1>e, <2>1 DEF DocTypes, Label
  <2>3. Stages /\ Places
    BY <1>0 DEF Stages, Places, Placed, OrderOps
  <2>4. StatusHolders /\ LineHolders
    BY <1>0, <1>c, <1>d DEF StatusHolders, LineHolders
  <2>5. Existing
    BY <1>0 DEF Existing, OrderOps
  <2> QED
    BY <2>2, <2>3, <2>4, <2>5 DEF Documents
<1>4. \A r \in Req : ~Receiving(r) /\ op[r] # "receive"
  BY <1>0 DEF Receiving
<1>5. Serial
  BY <1>4 DEF Serial
<1>6. Confirmations
  BY <1>0, <1>4, <1>d, InitialAssumption DEF Confirmations, Confirmed, Absent
<1>7. MadeOnce
  BY <1>0, <1>b, <1>c, <1>d DEF MadeOnce, Made
<1>8. Progress
  BY <1>0, <1>2, <1>4, EntryFacts DEF Progress
<1>9. Committed
  BY <1>0, <1>2, <1>b, <1>c, EntryFacts, NoReceipts DEF Committed
<1>10. Short
  BY <1>4, <1>d, InitialAssumption DEF Short, Absent
<1> QED
  BY <1>1, <1>3, <1>5, <1>6, <1>7, <1>8, <1>9, <1>10 DEF PurchasesInv

LEMMA PurchasesStep ==
  ASSUME PurchasesInv, NEW r \in Req, Start(r) \/ Step(r) \/ Abort(r)
  PROVE  PurchasesInv'
<1>1. /\ P!Books /\ P!BookTypes /\ Documents /\ Serial /\ Confirmations /\ MadeOnce /\ Progress
      /\ Committed /\ Short
  BY DEF PurchasesInv, P!Books
<1>2. P!Books'
  BY <1>1, BooksKept
<1>3. Documents' /\ StepFacts(r)
  BY <1>1, DocumentsStep
<1>4. Goods(r)
  BY <1>1, GoodsFacts
<1>5. Serial' /\ Confirmations'
  BY <1>1, <1>3, SerialStep, ConfirmationsStep
<1>6. MadeOnce' /\ Short'
  BY <1>1, <1>3, MadeOnceStep, ShortStep
<1>7. Progress' /\ Committed'
  BY <1>1, <1>3, <1>4, ProgressStep, CommittedStep
<1> QED
  BY <1>2, <1>3, <1>5, <1>6, <1>7 DEF PurchasesInv

LEMMA PurchasesStutter == PurchasesInv /\ UNCHANGED vars => PurchasesInv'
<1> SUFFICES ASSUME PurchasesInv, UNCHANGED vars PROVE PurchasesInv'
  OBVIOUS
<1> USE DEF vars
<1>0. \A r \in Req : Receiving(r)' <=> Receiving(r)
  BY DEF Receiving
<1>1. P!Books'
  <2>1. P!Books /\ UNCHANGED <<stock, moved, posted, pc, op, mv, found, dest>>
    BY DEF PurchasesInv
  <2> QED
    BY <2>1, StockAssumptions, P!BooksStutter
<1>2. Documents'
  <2>1. DocTypes' /\ Stages' /\ Places'
    BY DEF PurchasesInv, Documents, DocTypes, Stages, Places
  <2>2. StatusHolders' /\ Existing'
    BY DEF PurchasesInv, Documents, StatusHolders, Existing
  <2>3. LineHolders'
    BY <1>0 DEF PurchasesInv, Documents, LineHolders
  <2> QED
    BY <2>1, <2>2, <2>3 DEF Documents
<1>3. Serial' /\ Confirmations'
  BY <1>0 DEF PurchasesInv, Serial, Confirmations, Confirmed
<1>4. MadeOnce'
  BY DEF PurchasesInv, MadeOnce, Made, LineOf
<1>5. Progress'
  <2>1. \A r \in Req : Counted(r)' = Counted(r) /\ Writing(r)' = Writing(r)
    BY DEF Counted, Writing
  <2>2. \A r \in Req : CountedLines(r) => CountedLines(r)'
    <3> SUFFICES ASSUME NEW r \in Req, CountedLines(r) PROVE CountedLines(r)'
      OBVIOUS
    <3>1. Counted(r)' = Counted(r) /\ Writing(r)' = Writing(r) /\ lines' = lines
      BY <2>1
    <3> QED
      BY <3>1, CountedNext DEF CountedLines
  <2>3. \A r \in Req : \A i \in Inv!Item : PostedAs(r, i) => PostedAs(r, i)'
    <3> SUFFICES ASSUME NEW r \in Req, NEW i \in Inv!Item, PostedAs(r, i) PROVE PostedAs(r, i)'
      OBVIOUS
    <3>1. posted'[r][<<"PURCHASE_IN", i>>].qty =
            IF Receiving(r)' THEN OnReceipt(Writing(r), ForItem(i), todo[r].at - 1) ELSE 0
      BY <1>0 DEF PostedAs
    <3> QED
      BY <2>1, <3>1, PostedNext
  <2>4. \A r \in Req : /\ Receiving(r)' => CountedLines(r)
                       /\ \A i \in Inv!Item : PostedAs(r, i)
    BY <1>0 DEF PurchasesInv, Progress, CountedLines, PostedAs
  <2>5. \A r \in Req : /\ Receiving(r)' => CountedLines(r)'
                       /\ \A i \in Inv!Item : PostedAs(r, i)'
    BY <2>2, <2>3, <2>4
  <2> QED
    BY <2>5 DEF Progress, CountedLines, PostedAs
<1>6. Committed'
  <2>1. /\ \A l \in Line : lines'.now[l] # NoLine =>
             lines'.now[l].received = OnReceipts(receipts', ForLine(l))
        /\ \A i \in Inv!Item : moved'[<<"PURCHASE_IN", i>>].qty = OnReceipts(receipts', ForItem(i))
    BY DEF PurchasesInv, Committed
  <2> QED
    BY <2>1 DEF Committed, OnReceipts, Sites, Chosen, ForLine, ForItem
<1>7. Short'
  BY DEF PurchasesInv, Short, ShortIn, Seen, LinesOf
<1> QED
  BY <1>1, <1>2, <1>3, <1>4, <1>5, <1>6, <1>7 DEF PurchasesInv

LEMMA PurchasesInvariant == Spec => []PurchasesInv
<1>1. PurchasesInv /\ [Next]_vars => PurchasesInv'
  BY PurchasesStep, PurchasesStutter DEF Next
<1> QED
  BY <1>1, PurchasesInit, PTL DEF Spec

-----------------------------------------------------------------------------
(* The theorems.                                                           *)

\* The variables keep their types, whatever the requests do to each other.
THEOREM TypeCorrect == Spec => []TypeOK
<1>1. PurchasesInv => TypeOK
  BY TypesHold DEF PurchasesInv, P!Books, Documents
<1> QED
  BY <1>1, PurchasesInvariant, PTL

\* The sum of the properties, in the form the lemmas on sums are about.
LEMMA ReceivedIs ==
  ASSUME receipts \in Seq(Receipt), NEW c
  PROVE  MapThenSumSet(Qty, Sites(receipts, c)) = OnReceipts(receipts, c)
<1> DEFINE S == Sites(receipts, c)
           g == Values(receipts, c)
           V(x) == receipts[x[1]].dto.lines[x[2]].qty
           It(it) == it = [s \in SUBSET S |->
                             IF s = {} THEN 0
                             ELSE V(CHOOSE x \in s : TRUE) + it[s \ {CHOOSE x \in s : TRUE}]]
<1>1. \A it : It(it) <=> Iterates(it, g, S)
  <2>1. \A s \in SUBSET S : s # {} =>
          g[CHOOSE x \in s : TRUE] = V(CHOOSE x \in s : TRUE)
    BY DEF Values
  <2> HIDE DEF g, S, V
  <2> QED
    BY <2>1 DEF Iterates
<1>2. MapThenSumSet(Qty, S) = (CHOOSE it : It(it))[S]
  BY DEF MapThenSumSet, MapThenFoldSet, Qty
<1>3. IsFiniteSet(S) /\ \A x \in S : g[x] \in Int
  BY SitesFacts
<1> HIDE DEF It, S, g
<1>4. It(CHOOSE it : It(it))
  BY <1>1, <1>3, FoldIs
<1>5. (CHOOSE it : It(it))[S] = SumOf(g, S)
  BY <1>1, <1>3, <1>4, FoldIs
<1>6. MapThenSumSet(Qty, S) = SumOf(g, S)
  BY <1>2, <1>5
<1> QED
  BY <1>6 DEF OnReceipts, Values, g, S

\* The receipt lines the properties name are the ones the sums are over.
LEMMA LinesChosen ==
  ASSUME receipts \in Seq(Receipt)
  PROVE  /\ \A l \in Line :
              {x \in ReceiptLine : OrderLineOf(x) = l} = Sites(receipts, ForLine(l))
         /\ \A i \in Inv!Item :
              {x \in ReceiptLine :
                 i = <<receipts[x[1]].dto.warehouse, ProductOf[OrderLineOf(x)[2]]>>}
              = Sites(receipts, ForItem(i))
<1>1. ASSUME NEW n \in DOMAIN receipts
      PROVE  /\ receipts[n].order \in Order /\ receipts[n].dto.by \in Owner
             /\ receipts[n].dto.warehouse \in Warehouse \cup {Nobody}
             /\ \A k \in DOMAIN receipts[n].dto.lines : receipts[n].dto.lines[k].slot \in Slot
  <2>1. receipts[n] \in Receipt
    BY <1>1
  <2>2. receipts[n].dto \in Dto /\ receipts[n].order \in Order
    BY <2>1 DEF Receipt
  <2>3. receipts[n].dto.lines \in Seq(DeliveryLine)
    BY <2>2 DEF Dto
  <2>4. \A k \in DOMAIN receipts[n].dto.lines : receipts[n].dto.lines[k] \in DeliveryLine
    BY <2>3
  <2>5. \A k \in DOMAIN receipts[n].dto.lines : receipts[n].dto.lines[k].slot \in Slot
    BY <2>4 DEF DeliveryLine
  <2> QED
    BY <2>2, <2>5 DEF Dto
<1>2. ASSUME NEW x \in ReceiptLine
      PROVE  /\ receipts[x[1]].order \in Order /\ receipts[x[1]].dto.by \in Owner
             /\ receipts[x[1]].dto.warehouse \in Warehouse \cup {Nobody}
             /\ receipts[x[1]].dto.lines[x[2]].slot \in Slot
  <2>1. PICK n \in DOMAIN receipts : x \in {<<n, k>> : k \in DOMAIN receipts[n].dto.lines}
    BY DEF ReceiptLine
  <2>2. PICK k \in DOMAIN receipts[n].dto.lines : x = <<n, k>>
    BY <2>1
  <2>3. x[1] = n /\ x[2] = k
    BY <2>2
  <2> QED
    BY <1>1, <2>3
<1>3. \A c : Sites(receipts, c) = {x \in ReceiptLine : Chosen(c, receipts[x[1]], x[2])}
  BY DEF Sites, ReceiptLine
<1>4. ASSUME NEW l \in Line, NEW x \in ReceiptLine
      PROVE  OrderLineOf(x) = l <=> Chosen(ForLine(l), receipts[x[1]], x[2])
  <2>1. PICK a \in Order, b \in Slot, d \in Owner : l = <<a, b, d>>
    BY DEF Line
  <2> QED
    BY <1>2, <2>1 DEF OrderLineOf, Chosen, ForLine
<1>5. ASSUME NEW i \in Inv!Item, NEW x \in ReceiptLine
      PROVE  i = <<receipts[x[1]].dto.warehouse, ProductOf[OrderLineOf(x)[2]]>>
               <=> Chosen(ForItem(i), receipts[x[1]], x[2])
  <2>1. PICK w \in Warehouse, p \in Product : i = <<w, p>>
    BY DEF Inv!Item
  <2>2. OrderLineOf(x)[2] = receipts[x[1]].dto.lines[x[2]].slot
    BY DEF OrderLineOf
  <2> QED
    BY <1>2, <2>1, <2>2 DEF Chosen, ForItem
<1>6. \A l \in Line :
        {x \in ReceiptLine : OrderLineOf(x) = l} = Sites(receipts, ForLine(l))
  BY <1>3, <1>4
<1>7. \A i \in Inv!Item :
        {x \in ReceiptLine :
           i = <<receipts[x[1]].dto.warehouse, ProductOf[OrderLineOf(x)[2]]>>}
        = Sites(receipts, ForItem(i))
  BY <1>3, <1>5
<1> QED
  BY <1>6, <1>7

\* Every standing order line counts what the committed receipts brought for it: a
\* receipt increments the row it has locked, and its increments and its lines are
\* committed together (purchase-orders.service.ts:262-293).
THEOREM ReceivedIsReceipted == Spec => []ReceivedMatchesReceipts
<1>1. ASSUME PurchasesInv PROVE ReceivedMatchesReceipts
  <2>1. receipts \in Seq(Receipt) /\ Committed
    BY <1>1 DEF PurchasesInv, Documents, DocTypes
  <2>2. \A l \in Line :
          MapThenSumSet(Qty, {x \in ReceiptLine : OrderLineOf(x) = l})
            = OnReceipts(receipts, ForLine(l))
    <3> SUFFICES ASSUME NEW l \in Line
                 PROVE  MapThenSumSet(Qty, {x \in ReceiptLine : OrderLineOf(x) = l})
                          = OnReceipts(receipts, ForLine(l))
      OBVIOUS
    <3>1. {x \in ReceiptLine : OrderLineOf(x) = l} = Sites(receipts, ForLine(l))
      BY <2>1, LinesChosen
    <3>2. MapThenSumSet(Qty, Sites(receipts, ForLine(l))) = OnReceipts(receipts, ForLine(l))
      BY <2>1, ReceivedIs
    <3> QED
      BY <3>1, <3>2
  <2> QED
    BY <2>1, <2>2 DEF ReceivedMatchesReceipts, Committed
<1> QED
  BY <1>1, PurchasesInvariant, PTL

\* What the committed receipts brought into a warehouse is what the ledger says came
\* in by purchase, and stock and ledger agree: a receipt posts the lines before the
\* one it is at, and commits with what it posted (purchase-orders.service.ts:262-324).
THEOREM GoodsMatch == Spec => []GoodsMatchReceipts
<1>1. ASSUME PurchasesInv PROVE GoodsMatchReceipts
  <2>1. P!Reconciled
    BY <1>1, StockAssumptions, P!BooksReconcile DEF PurchasesInv
  <2>2. Inv!Reconciled
    BY <2>1 DEF Inv!Reconciled, P!Reconciled, Inv!Item, P!Item,
       Inv!Net, P!Net, Inv!Unlogged, P!Unlogged, Inv!Signed, P!Signed,
       Inv!isIncoming, P!isIncoming, Inv!INCOMING_TYPES, P!INCOMING_TYPES,
       Inv!MapThenSumSet, P!MapThenSumSet, Inv!MapThenFoldSet, P!MapThenFoldSet
  <2>3. receipts \in Seq(Receipt) /\ Committed
    BY <1>1 DEF PurchasesInv, Documents, DocTypes
  <2>4. ASSUME NEW i \in Inv!Item
        PROVE  moved[<<"PURCHASE_IN", i>>].qty =
                 MapThenSumSet(Qty, {x \in ReceiptLine :
                   i = <<receipts[x[1]].dto.warehouse, ProductOf[OrderLineOf(x)[2]]>>})
    <3>1. {x \in ReceiptLine :
             i = <<receipts[x[1]].dto.warehouse, ProductOf[OrderLineOf(x)[2]]>>}
          = Sites(receipts, ForItem(i))
      BY <2>3, LinesChosen
    <3>2. MapThenSumSet(Qty, Sites(receipts, ForItem(i))) = OnReceipts(receipts, ForItem(i))
      BY <2>3, ReceivedIs
    <3>3. moved[<<"PURCHASE_IN", i>>].qty = OnReceipts(receipts, ForItem(i))
      BY <2>3 DEF Committed
    <3> QED
      BY <3>1, <3>2, <3>3
  <2> QED
    BY <2>2, <2>4 DEF GoodsMatchReceipts
<1> QED
  BY <1>1, PurchasesInvariant, PTL

\* An order is left PARTIALLY_RECEIVED only while one of its lines is short: from its
\* number to its commit a receipt is alone at the lines, and an edit that replaces
\* them leaves lines nothing was received for (purchase-orders.service.ts:259, 311-324).
THEOREM PartialIsShort == Spec => []PartialMeansShort
<1>1. PurchasesInv => PartialMeansShort
  BY DEF PurchasesInv, Short, ShortIn, PartialMeansShort
<1> QED
  BY <1>1, PurchasesInvariant, PTL

\* Every committed receipt is of an order somebody confirmed
\* (purchase-orders.service.ts:205, 233).
THEOREM ConfirmedBeforeReceipt == Spec => []ReceiptsNeedConfirm
<1>1. PurchasesInv => ReceiptsNeedConfirm
  BY DEF PurchasesInv, Confirmations, Confirmed, ReceiptsNeedConfirm
<1> QED
  BY <1>1, PurchasesInvariant, PTL
=============================================================================
