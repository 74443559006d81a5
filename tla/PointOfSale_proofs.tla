------------------------- MODULE PointOfSale_proofs -------------------------
(***************************************************************************)
(* Theorems about PointOfSale, for every number of requests, terminals,    *)
(* warehouses and products and every basket.                               *)
(*                                                                         *)
(* The invariant SalesInv has six parts: the books of Inventory_proofs;    *)
(* Receipts, types and which line of its receipt a sale is at; Serial,     *)
(* that only the sale that holds the number has its transaction past it;   *)
(* Posts, that it has posted the lines before the one it is at; Sold, that *)
(* what left by sale is what the committed receipts say; and NeverBelow,   *)
(* that while only tills work no row of the stock, committed or not, is    *)
(* below zero and what the holder has read of a row is still so.           *)
(***************************************************************************)
EXTENDS PointOfSale, Shared_proofs

P == INSTANCE Inventory_proofs

-----------------------------------------------------------------------------
(* The invariant.                                                          *)

Ops == {"none", "adjust", "transfer", "sale", "terminal"}

Label == {"idle", "number", "insert", "line", "find", "upsert", "log", "source",
          "commit"} \cup Inv!Answered

\* Which handlers a stage belongs to.
Stages ==
  \A r \in Req :
    /\ op[r] \in Ops
    /\ pc[r] = "idle" <=> op[r] = "none"
    /\ pc[r] = "source" => op[r] = "transfer"
    /\ pc[r] \in {"number", "insert", "line"} => op[r] = "sale"
    /\ pc[r] \in {"find", "upsert", "log"} => op[r] \in {"adjust", "transfer", "sale"}
    /\ pc[r] = "commit" => op[r] \in {"transfer", "sale"}
    /\ pc[r] = "unlogged" => op[r] = "adjust"

\* A sale whose receipt is inserted, and whose transaction is open.
Selling(r) == op[r] = "sale" /\ pc[r] \in {"line", "find", "upsert", "log", "commit"}

Receipt == [lines : Seq(LineItem), warehouse : Warehouse \cup {Nobody}, at : Nat]

\* TypeOK, but for the stock and its ledger.
SaleTypes ==
  /\ pc \in [Req -> Label]
  /\ terminals \in [Terminal -> Warehouse \cup {Nobody}]
  /\ numbers \in Series
  /\ number \in [Req -> Nat]
  /\ sale \in [Req -> Receipt]
  /\ sales \in Seq(Receipt)

Sells(m, s) ==
  /\ m.type = "SALE_OUT" /\ m.item = <<s.warehouse, s.lines[s.at].product>>
  /\ m.qty = s.lines[s.at].qty

\* Where a sale is in its receipt.
At ==
  \A r \in Req :
    /\ (op[r] = "sale" /\ pc[r] \in {"number", "insert"}) \/ Selling(r) =>
         sale[r].warehouse \in Warehouse
    /\ pc[r] \in {"number", "insert"} => sale[r].at = 1
    /\ op[r] = "sale" /\ pc[r] \in {"number", "insert", "line", "find", "upsert", "log"} =>
         sale[r].at \in 1..Len(sale[r].lines)
    /\ Selling(r) /\ pc[r] = "commit" => sale[r].at = Len(sale[r].lines) + 1
    /\ Selling(r) /\ pc[r] \in {"find", "upsert", "log"} => Sells(mv[r], sale[r])
    /\ op[r] \in {"adjust", "transfer"} => mv[r].type # "SALE_OUT"

Receipts == SaleTypes /\ Stages /\ At

Serial == \A r \in Req : Selling(r) => numbers.holder = r

\* The quantity of item i on the first n lines of a receipt.
LinesOf(s, i, n) == {k \in 1..n : i = <<s.warehouse, s.lines[k].product>>}

Amounts(s) == [k \in DOMAIN s.lines |-> s.lines[k].qty]

OnReceipt(s, i, n) == SumOf(Amounts(s), LinesOf(s, i, n))

Posts ==
  \A r \in Req, i \in Inv!Item :
    posted[r][<<"SALE_OUT", i>>].qty =
      IF Selling(r) THEN OnReceipt(sale[r], i, sale[r].at - 1) ELSE 0

\* The lines of the committed receipts that are about item i, and their quantity.
Sites(ss, i) ==
  {x \in UNION {{<<n, k>> : k \in DOMAIN ss[n].lines} : n \in DOMAIN ss} :
     i = <<ss[x[1]].warehouse, ss[x[1]].lines[x[2]].product>>}

OnReceipts(ss, i) == SumOf([x \in Sites(ss, i) |-> ss[x[1]].lines[x[2]].qty], Sites(ss, i))

Sold == \A i \in Inv!Item : moved[<<"SALE_OUT", i>>].qty = OnReceipts(sales, i)

\* What a till has read of the row it is about to change still holds.
NeverBelow ==
  OnlyTills =>
    /\ \A i \in Inv!Item : stock.now[i].qty >= 0 /\ stock.work[i].qty >= 0
    /\ \A r \in Req : pc[r] = "upsert" => Seen(stock, r)[mv[r].item].qty >= mv[r].qty

SalesInv == P!Books /\ Receipts /\ Serial /\ Posts /\ Sold /\ NeverBelow

-----------------------------------------------------------------------------
(* The inventory of this module is the one the lemmas of Inventory_proofs  *)
(* are about.                                                              *)

LEMMA StockFacts ==
  /\ Quantity \subseteq Nat \ {0} /\ UnitCost \subseteq Nat
  /\ Opening \in [P!Item -> [qty : Nat, cost : Nat]]
  /\ NoCost \notin Int /\ IsFiniteSet(Warehouse) /\ Nobody \notin Req
  /\ P!Item = Inv!Item /\ Inv!Item = Warehouse \X Product /\ P!Ledger = Inv!Ledger
  /\ P!StockRow = Inv!StockRow /\ P!NoPosting = Inv!NoPosting /\ P!NoRow = Inv!NoRow
  /\ P!MovementType = Inv!MovementType
BY StockAssumption, FiniteAssumption, NobodyAssumption
   DEF P!Item, Inv!Item, P!Ledger, Inv!Ledger,
       P!StockRow, Inv!StockRow, P!NoPosting, Inv!NoPosting, P!MovementType, Inv!MovementType,
       P!NoRow, Inv!NoRow

LEMMA SameActions ==
  ASSUME NEW r \in Req
  PROVE  /\ Inv!Start(r) => P!Start(r)
         /\ Inv!FindStock(r) => P!FindStock(r)
         /\ Inv!UpsertStock(r) => P!UpsertStock(r)
         /\ Inv!RefuseMovement(r) => P!RefuseMovement(r)
         /\ Inv!AdjustLogged(r) => P!AdjustLogged(r)
         /\ Inv!ReadSource(r) => P!ReadSource(r)
         /\ Inv!TransferOutLogged(r) => P!TransferOutLogged(r)
         /\ Inv!TransferInLogged(r) => P!TransferInLogged(r)
         /\ Inv!CommitTransfer(r) => P!CommitTransfer(r)
         /\ Inv!Abort(r) => P!Abort(r)
         /\ Inv!DropStock(r) => P!DropStock(r)
         /\ Inv!KeepStock(r) => P!KeepStock(r)
         /\ \A l : Inv!LogMovement(r, l) => P!LogMovement(r, l)
<1>1. \A l : Inv!LogMovement(r, l) => P!LogMovement(r, l)
  BY DEF Inv!LogMovement, P!LogMovement, Inv!LoggedCost, P!LoggedCost, Inv!InTransaction,
         P!InTransaction, Inv!Post, P!Post, Inv!isIncoming, P!isIncoming, Inv!INCOMING_TYPES,
         P!INCOMING_TYPES, Inv!NoRow, P!NoRow
<1>2. Inv!DropStock(r) => P!DropStock(r)
  BY DEF Inv!DropStock, P!DropStock, Inv!NoPosting, P!NoPosting, Inv!Item, P!Item,
         Inv!MovementType, P!MovementType, Inv!NoRow, P!NoRow, Inv!Rollback, P!Rollback,
         Inv!Unlocked, P!Unlocked
<1>3. Inv!KeepStock(r) => P!KeepStock(r)
  BY DEF Inv!KeepStock, P!KeepStock, Inv!NoPosting, P!NoPosting, Inv!Item, P!Item,
         Inv!MovementType, P!MovementType, Inv!Merge, P!Merge, Inv!Commit, P!Commit,
         Inv!Seen, P!Seen, Inv!Unlocked, P!Unlocked
<1>4. Inv!Start(r) => P!Start(r)
  BY StockFacts DEF Inv!Start, P!Start, Inv!StartAdjust, P!StartAdjust, Inv!StartTransfer,
         P!StartTransfer
<1>5. Inv!FindStock(r) => P!FindStock(r)
  BY DEF Inv!FindStock, P!FindStock, Inv!Refused, P!Refused, Inv!Insufficient, P!Insufficient,
         Inv!isIncoming, P!isIncoming, Inv!INCOMING_TYPES, P!INCOMING_TYPES, Inv!Seen, P!Seen
<1>6. Inv!RefuseMovement(r) => P!RefuseMovement(r)
  BY <1>2 DEF Inv!RefuseMovement, P!RefuseMovement, Inv!Refused, P!Refused, Inv!Insufficient,
         P!Insufficient, Inv!isIncoming, P!isIncoming, Inv!INCOMING_TYPES, P!INCOMING_TYPES,
         Inv!Seen, P!Seen
<1>7. Inv!UpsertStock(r) => P!UpsertStock(r)
  BY DEF Inv!UpsertStock, P!UpsertStock, Inv!Upserted, P!Upserted, Inv!Signed, P!Signed,
         Inv!MovingAverage, P!MovingAverage, Inv!Rounded, P!Rounded, Inv!InTransaction,
         P!InTransaction, Inv!isIncoming, P!isIncoming, Inv!INCOMING_TYPES, P!INCOMING_TYPES,
         Inv!Writable, P!Writable, Inv!Put, P!Put, Inv!Save, P!Save, Inv!Seen, P!Seen
<1>8. Inv!AdjustLogged(r) => P!AdjustLogged(r)
  BY <1>1 DEF Inv!AdjustLogged, P!AdjustLogged
<1>9. Inv!ReadSource(r) => P!ReadSource(r)
  BY DEF Inv!ReadSource, P!ReadSource, Inv!Seen, P!Seen
<1>10. Inv!TransferOutLogged(r) => P!TransferOutLogged(r)
  BY <1>1 DEF Inv!TransferOutLogged, P!TransferOutLogged
<1>11. Inv!TransferInLogged(r) => P!TransferInLogged(r)
  BY <1>1 DEF Inv!TransferInLogged, P!TransferInLogged
<1>12. Inv!CommitTransfer(r) => P!CommitTransfer(r)
  BY <1>3 DEF Inv!CommitTransfer, P!CommitTransfer
<1>13. Inv!Abort(r) => P!Abort(r)
  BY <1>2 DEF Inv!Abort, P!Abort, Inv!InFlight, P!InFlight, Inv!Answered, P!Answered,
         Inv!InTransaction, P!InTransaction
<1> QED
  BY <1>1, <1>2, <1>3, <1>4, <1>5, <1>6, <1>7, <1>8, <1>9, <1>10, <1>11, <1>12, <1>13
\* The inventory's actions, as the books see them.
LEMMA StockParts ==
  ASSUME P!BookTypes
  PROVE  /\ DOMAIN pc = Req /\ DOMAIN op = Req /\ DOMAIN mv = Req /\ DOMAIN dest = Req
         /\ moved \in Inv!Ledger /\ posted \in [Req -> Inv!Ledger]
         /\ stock \in TableOf(Inv!Item, Inv!StockRow)
BY StockFacts DEF P!BookTypes, P!TableOf, TableOf, P!Owner, Owner

-----------------------------------------------------------------------------
(* Receipts: types, stages, and where a sale is.                           *)

LEMMA TypesHold == P!BookTypes /\ SaleTypes => TypeOK
BY StockParts DEF SaleTypes, TypeOK, Label

\* The line a sale is at.
LEMMA LineFacts ==
  ASSUME NEW s \in Receipt, s.at \in 1..Len(s.lines)
  PROVE  /\ s.lines \in Seq(LineItem) /\ s.lines[s.at] \in LineItem
         /\ s.lines[s.at].product \in Product /\ s.lines[s.at].qty \in Nat \ {0}
         /\ s.at \in Nat /\ Len(s.lines) \in Nat
<1>1. s.lines \in Seq(LineItem) /\ s.at \in Nat
  BY DEF Receipt
<1>2. s.lines[s.at] \in LineItem /\ Len(s.lines) \in Nat
  BY <1>1
<1> QED
  BY <1>1, <1>2 DEF LineItem

\* A step of applyMovement, or of a handler that sells nothing.
LEMMA MoveFacts ==
  ASSUME P!BookTypes, Receipts, NEW r \in Req, NEW l \in Label, NEW k \in Label,
         pc[r] = k, pc' = [pc EXCEPT ![r] = l], op' = op, UNCHANGED posVars,
         \A q \in Req \ {r} : mv'[q] = mv[q],
         mv' = mv \/ (op[r] \in {"adjust", "transfer"} /\ mv'[r].type # "SALE_OUT"),
         \/ <<k, l>> \in {<<"find", "upsert">>, <<"upsert", "log">>}
         \/ <<k, l>> = <<"log", "ok">> /\ op[r] = "adjust"
         \/ /\ <<k, l>> \in {<<"source", "find">>, <<"log", "find">>, <<"log", "commit">>, <<"commit", "ok">>}
            /\ op[r] = "transfer"
  PROVE  Receipts'
<1> USE StockParts DEF Receipts, posVars
<1>1. SaleTypes'
  BY DEF SaleTypes
<1>2. Stages'
  BY DEF SaleTypes, Stages, Ops
<1>3. At'
  BY DEF SaleTypes, Stages, At, Selling, Sells
<1> QED
  BY <1>1, <1>2, <1>3

\* A transaction ends without its writes.
LEMMA DropFacts ==
  ASSUME P!BookTypes, Receipts, NEW r \in Req, NEW l \in {"refused", "aborted", "unlogged"},
         l = "unlogged" => op[r] = "adjust",
         pc[r] # "idle", pc' = [pc EXCEPT ![r] = l], op' = op, mv' = mv, DropSale(r)
  PROVE  Receipts'
<1> USE StockParts DEF Receipts, DropSale
<1>1. SaleTypes'
  BY SeriesFacts DEF SaleTypes, Label, Inv!Answered
<1>2. Stages'
  BY DEF SaleTypes, Stages, Ops
<1>3. At'
  BY DEF SaleTypes, Stages, At, Selling, Sells
<1> QED
  BY <1>1, <1>2, <1>3

\* A step of a sale, before and between the movements.
LEMMA SaleFacts ==
  ASSUME P!BookTypes, Receipts, NEW r \in Req,
         \/ \E t \in Terminal, lines \in Basket, tendered \in Tender :
              StartSale(r, t, lines, tendered)
         \/ nextDocumentNumber(r) \/ InsertSale(r) \/ SellLine(r) \/ SaleLogged(r)
         \/ CommitSale(r)
  PROVE  Receipts'
<1> USE StockParts DEF Receipts, posVars, stockVars, rowVars
<1>1. ASSUME NEW t \in Terminal, NEW lines \in Basket, NEW tendered \in Tender,
             StartSale(r, t, lines, tendered)
      PROVE  Receipts'
  <2> DEFINE s == [lines |-> lines, warehouse |-> terminals[t], at |-> 1]
  <2>1. /\ lines \in Seq(LineItem) /\ Len(lines) \in Nat \ {0}
        /\ terminals[t] \in Warehouse /\ s \in Receipt
    <3>1. lines \in Seq(LineItem) /\ lines # <<>>
      BY BasketAssumption
    <3>2. Len(lines) \in Nat \ {0}
      BY <3>1
    <3>3. terminals[t] \in Warehouse
      BY <1>1 DEF StartSale, SaleTypes
    <3> QED
      BY <3>1, <3>2, <3>3 DEF Receipt
  <2>2. /\ pc[r] = "idle" /\ op' = [op EXCEPT ![r] = "sale"]
        /\ \/ pc' = [pc EXCEPT ![r] = "refused"] /\ UNCHANGED sale
           \/ pc' = [pc EXCEPT ![r] = "number"] /\ sale' = [sale EXCEPT ![r] = s]
        /\ UNCHANGED <<mv, terminals, numbers, sales, number>>
    BY <1>1 DEF StartSale
  <2>0. s.at = 1 /\ s.warehouse \in Warehouse /\ s.lines = lines /\ 1 \in 1..Len(s.lines)
    BY <2>1
  <2> HIDE DEF s
  <2>3. SaleTypes'
    BY <2>1, <2>2 DEF SaleTypes, Label, Inv!Answered
  <2>4. Stages'
    BY <2>2 DEF SaleTypes, Stages, Ops
  <2>5. At'
    <3>1. CASE pc' = [pc EXCEPT ![r] = "refused"] /\ UNCHANGED sale
      BY <2>2, <3>1 DEF SaleTypes, At, Selling, Sells
    <3>2. CASE pc' = [pc EXCEPT ![r] = "number"] /\ sale' = [sale EXCEPT ![r] = s]
      BY <2>0, <2>2, <3>2 DEF SaleTypes, At, Selling, Sells
    <3> QED
      BY <2>2, <3>1, <3>2
  <2> QED
    BY <2>3, <2>4, <2>5
<1>2. CASE nextDocumentNumber(r)
  <2>1. SaleTypes'
    BY <1>2 DEF nextDocumentNumber, SaleTypes, Series, Label
  <2>2. Stages' /\ At'
    BY <1>2 DEF nextDocumentNumber, SaleTypes, Stages, Ops, At, Selling, Sells
  <2> QED
    BY <2>1, <2>2
<1>3. CASE InsertSale(r)
  <2>1. SaleTypes'
    BY <1>3, SeriesFacts DEF InsertSale, SaleTypes, Label
  <2>2. Stages' /\ At'
    BY <1>3 DEF InsertSale, SaleTypes, Stages, Ops, At, Selling, Sells
  <2> QED
    BY <2>1, <2>2
<1>4. CASE SellLine(r)
  <2> DEFINE line == sale[r].lines[sale[r].at]
             m == [type |-> "SALE_OUT", item |-> <<sale[r].warehouse, line.product>>,
                   qty |-> line.qty, cost |-> NoCost]
  <2>1. /\ pc[r] = "line" /\ pc' = [pc EXCEPT ![r] = "find"] /\ mv' = [mv EXCEPT ![r] = m]
        /\ UNCHANGED <<op, terminals, numbers, sales, number, sale>>
    BY <1>4 DEF SellLine
  <2>2. op[r] = "sale"
    BY <2>1 DEF Stages
  <2>3. Sells(m, sale[r])
    BY DEF Sells
  <2> HIDE DEF m, line
  <2>4. SaleTypes'
    BY <2>1 DEF SaleTypes, Label
  <2>5. Stages'
    BY <2>1, <2>2 DEF SaleTypes, Stages, Ops
  <2>6. At'
    BY <2>1, <2>2, <2>3 DEF SaleTypes, At, Selling, Sells
  <2> QED
    BY <2>4, <2>5, <2>6
<1>5. CASE SaleLogged(r)
  <2> DEFINE l == IF sale[r].at = Len(sale[r].lines) THEN "commit" ELSE "line"
  <2>1. /\ pc[r] = "log" /\ op[r] = "sale" /\ pc' = [pc EXCEPT ![r] = l]
        /\ sale' = [sale EXCEPT ![r].at = sale[r].at + 1]
        /\ UNCHANGED <<op, mv, terminals, numbers, sales, number>>
    BY <1>5 DEF SaleLogged, Inv!LogMovement
  <2> DEFINE s == [sale[r] EXCEPT !.at = sale[r].at + 1]
  <2>2. /\ sale[r] \in Receipt /\ sale[r].at \in 1..Len(sale[r].lines)
        /\ sale[r].warehouse \in Warehouse
    BY <2>1 DEF At, SaleTypes, Selling
  <2>3. sale[r].at \in Nat /\ Len(sale[r].lines) \in Nat
    BY <2>2, LineFacts
  <2>4. /\ s \in Receipt /\ s.at = sale[r].at + 1 /\ s.lines = sale[r].lines
        /\ s.warehouse = sale[r].warehouse
    BY <2>2, <2>3 DEF Receipt
  <2>5. sale' = [sale EXCEPT ![r] = s]
    BY <2>1, <2>2 DEF SaleTypes
  <2>6. /\ l \in {"commit", "line"}
        /\ l = "line" => s.at \in 1..Len(s.lines)
        /\ l = "commit" => s.at = Len(s.lines) + 1
    BY <2>2, <2>3, <2>4
  <2> HIDE DEF l, s
  <2>7. SaleTypes'
    BY <2>1, <2>4, <2>5, <2>6 DEF SaleTypes, Label
  <2>8. Stages'
    BY <2>1, <2>6 DEF SaleTypes, Stages, Ops
  <2>9. At'
    BY <2>1, <2>2, <2>4, <2>5, <2>6 DEF SaleTypes, At, Selling, Sells
  <2> QED
    BY <2>7, <2>8, <2>9
<1>6. CASE CommitSale(r)
  <2>1. /\ pc[r] = "commit" /\ op[r] = "sale" /\ pc' = [pc EXCEPT ![r] = "ok"]
        /\ UNCHANGED <<op, mv, terminals, number, sale>>
        /\ numbers' = CommitSeries(numbers, r) /\ sales' = Append(sales, sale[r])
    BY <1>6 DEF CommitSale, Inv!KeepStock
  <2>2. SaleTypes'
    BY <2>1, SeriesFacts DEF SaleTypes, Label, Inv!Answered
  <2>3. Stages'
    BY <2>1 DEF SaleTypes, Stages, Ops
  <2>4. At'
    BY <2>1 DEF SaleTypes, At, Selling, Sells
  <2> QED
    BY <2>2, <2>3, <2>4
<1> QED
  BY <1>1, <1>2, <1>3, <1>4, <1>5, <1>6

LEMMA ReceiptsStep ==
  ASSUME P!BookTypes, Receipts, NEW r \in Req, Start(r) \/ Step(r) \/ Abort(r)
  PROVE  Receipts'
<1> USE StockParts DEF Label
<1>0. SaleTypes /\ Stages
  BY DEF Receipts
<1>1. ASSUME NEW t \in Terminal, NEW w \in Warehouse, WriteTerminal(r, t, w)
      PROVE  Receipts'
  <2>1. SaleTypes' /\ Stages' /\ At'
    BY <1>1 DEF WriteTerminal, Receipts, SaleTypes, Stages, Ops, At, Selling, Sells, Inv!Answered,
                rowVars
  <2> QED
    BY <2>1 DEF Receipts
<1>2. CASE Inv!Start(r) /\ UNCHANGED posVars
  <2>0. PICK l \in {"find", "source"}, h \in {"adjust", "transfer"} :
          /\ l = "source" => h = "transfer"
          /\ \E m : /\ pc[r] = "idle" /\ pc' = [pc EXCEPT ![r] = l]
                    /\ op' = [op EXCEPT ![r] = h]
                    /\ mv' = [mv EXCEPT ![r] = m] /\ m.type # "SALE_OUT"
    <3>1. ASSUME NEW i \in Inv!Item, NEW q \in Quantity,
                 NEW type \in {"ADJUSTMENT_IN", "ADJUSTMENT_OUT"}, NEW c \in UnitCost \cup {NoCost},
                 Inv!StartAdjust(r, i, type, q, c)
          PROVE  \E m : /\ pc[r] = "idle" /\ pc' = [pc EXCEPT ![r] = "find"]
                        /\ op' = [op EXCEPT ![r] = "adjust"]
                        /\ mv' = [mv EXCEPT ![r] = m] /\ m.type # "SALE_OUT"
      <4> DEFINE n == [type |-> type, item |-> i, qty |-> q, cost |-> c]
      <4> WITNESS n
      <4> QED
        BY <3>1 DEF Inv!StartAdjust
    <3>2. ASSUME NEW f \in Warehouse, NEW to \in Warehouse, NEW p \in Product, NEW q \in Quantity,
                 Inv!StartTransfer(r, f, to, p, q)
          PROVE  \E m : /\ pc[r] = "idle" /\ pc' = [pc EXCEPT ![r] = "source"]
                        /\ op' = [op EXCEPT ![r] = "transfer"]
                        /\ mv' = [mv EXCEPT ![r] = m] /\ m.type # "SALE_OUT"
      <4> DEFINE n == [type |-> "TRANSFER_OUT", item |-> <<f, p>>, qty |-> q, cost |-> NoCost]
      <4> WITNESS n
      <4> QED
        BY <3>2 DEF Inv!StartTransfer
    <3> QED
      BY <1>2, <3>1, <3>2 DEF Inv!Start
  <2>1. PICK m : /\ pc[r] = "idle" /\ pc' = [pc EXCEPT ![r] = l]
                 /\ op' = [op EXCEPT ![r] = h]
                 /\ mv' = [mv EXCEPT ![r] = m] /\ m.type # "SALE_OUT"
    BY <2>0
  <2>2. SaleTypes' /\ Stages' /\ At'
    BY <1>2, <2>0, <2>1 DEF posVars, Receipts, SaleTypes, Stages, Ops, At, Selling, Sells
  <2> QED
    BY <2>2 DEF Receipts
<1>3. CASE (Inv!FindStock(r) \/ Inv!UpsertStock(r)) /\ UNCHANGED <<op, dest, posVars>>
  <2>1. PICK k \in {"find", "upsert"}, l \in {"upsert", "log"} :
          /\ pc[r] = k /\ pc' = [pc EXCEPT ![r] = l] /\ mv' = mv
          /\ <<k, l>> \in {<<"find", "upsert">>, <<"upsert", "log">>}
    BY <1>3 DEF Inv!FindStock, Inv!UpsertStock
  <2> QED
    BY <1>3, <2>1, MoveFacts
<1>4. CASE Inv!AdjustLogged(r) /\ UNCHANGED posVars
  <2>1. /\ pc[r] = "log" /\ pc' = [pc EXCEPT ![r] = "ok"] /\ op[r] = "adjust" /\ UNCHANGED <<op, mv>>
    BY <1>4 DEF Inv!AdjustLogged, Inv!LogMovement
  <2> QED
    BY <1>4, <2>1, MoveFacts DEF Inv!Answered
<1>5. CASE Inv!ReadSource(r) /\ UNCHANGED posVars
  <2>1. /\ pc[r] = "source" /\ pc' = [pc EXCEPT ![r] = "find"] /\ UNCHANGED op
        /\ mv' = [mv EXCEPT ![r].cost = Inv!Seen(stock, r)[mv[r].item].cost]
    BY <1>5 DEF Inv!ReadSource
  <2>2. op[r] = "transfer" /\ mv[r].type # "SALE_OUT"
    BY <1>0, <2>1 DEF Receipts, At, Stages
  <2>3. mv'[r].type = mv[r].type /\ \A q \in Req \ {r} : mv'[q] = mv[q]
    BY <2>1
  <2> QED
    BY <1>5, <2>1, <2>2, <2>3, MoveFacts
<1>6. CASE Inv!TransferOutLogged(r) /\ UNCHANGED posVars
  <2>1. /\ pc[r] = "log" /\ pc' = [pc EXCEPT ![r] = "find"] /\ op[r] = "transfer" /\ UNCHANGED op
        /\ mv' = [mv EXCEPT ![r].type = "TRANSFER_IN", ![r].item = dest[r]]
    BY <1>6 DEF Inv!TransferOutLogged, Inv!LogMovement
  <2>2. mv[r] \in Inv!Movement
    BY <2>1, StockFacts DEF P!BookTypes, P!Movement, Inv!Movement
  <2>3. mv'[r].type = "TRANSFER_IN" /\ \A q \in Req \ {r} : mv'[q] = mv[q]
    BY <2>1, <2>2 DEF Inv!Movement
  <2> QED
    BY <1>6, <2>1, <2>3, MoveFacts
<1>7. CASE (Inv!TransferInLogged(r) \/ Inv!CommitTransfer(r)) /\ UNCHANGED posVars
  <2>1. PICK k \in {"log", "commit"}, l \in {"commit", "ok"} :
          /\ pc[r] = k /\ pc' = [pc EXCEPT ![r] = l] /\ UNCHANGED <<op, mv>> /\ op[r] = "transfer"
          /\ <<k, l>> \in {<<"log", "commit">>, <<"commit", "ok">>}
    BY <1>7 DEF Inv!TransferInLogged, Inv!LogMovement, Inv!CommitTransfer, Inv!KeepStock
  <2> QED
    BY <1>7, <2>1, MoveFacts DEF Inv!Answered
<1>8. CASE \/ NumberConflict(r)
           \/ Inv!RefuseMovement(r) /\ DropSale(r) /\ UNCHANGED <<op, dest>>
           \/ Abort(r)
  <2>1. PICK l \in {"refused", "aborted", "unlogged"} :
          /\ l = "unlogged" => op[r] = "adjust"
          /\ pc[r] # "idle" /\ pc' = [pc EXCEPT ![r] = l] /\ op' = op /\ mv' = mv /\ DropSale(r)
    BY <1>8 DEF NumberConflict, Inv!RefuseMovement, Abort, Inv!Abort, Inv!InFlight, Inv!Answered,
                Inv!DropStock, Inv!InTransaction
  <2> QED
    BY <2>1, DropFacts
<1>9. CASE Start(r)
  BY <1>1, <1>2, <1>9, SaleFacts DEF Start
<1>10. CASE Abort(r)
  BY <1>8, <1>10
<1>11. CASE Step(r)
  BY <1>3, <1>4, <1>5, <1>6, <1>7, <1>8, <1>11, SaleFacts DEF Step
<1> QED
  BY <1>9, <1>10, <1>11

-----------------------------------------------------------------------------
(* The stock's books, whichever handler moves goods.                       *)

\* What Inventory assumes of its constants.
LEMMA StockAssumptions ==
  /\ P!IsFiniteSet(Warehouse)
  /\ /\ Quantity \subseteq Nat \ {0}
     /\ UnitCost \subseteq Nat
     /\ Opening \in [P!Item -> [qty : Nat, cost : Nat]]
     /\ NoCost \notin Int
  /\ Nobody \notin Req
<1>1. P!IsFiniteSet(Warehouse)
  BY FiniteAssumption DEF IsFiniteSet, P!IsFiniteSet
<1> QED
  BY <1>1, StockFacts

\* A step that is not about the stock.
AsideStep(r) ==
  \/ \E t \in Terminal, lines \in Basket, tendered \in Tender :
       StartSale(r, t, lines, tendered)
  \/ \E t \in Terminal, w \in Warehouse : WriteTerminal(r, t, w)
  \/ nextDocumentNumber(r) \/ InsertSale(r) \/ SellLine(r)

LEMMA AsideFacts ==
  ASSUME P!Books, Receipts, NEW r \in Req, AsideStep(r)
  PROVE  P!Books'
<1> USE DEF stockVars, rowVars, posVars
<1>0. /\ P!BookTypes /\ SaleTypes /\ Stages /\ At /\ DOMAIN pc = Req /\ DOMAIN op = Req /\ DOMAIN mv = Req
      /\ DOMAIN dest = Req /\ found \in [Req -> P!StockRow]
  BY StockParts DEF P!Books, Receipts, P!BookTypes
<1>1. CASE \/ \E t \in Terminal, lines \in Basket, tendered \in Tender :
                StartSale(r, t, lines, tendered)
           \/ \E t \in Terminal, w \in Warehouse : WriteTerminal(r, t, w)
  <2>1. PICK l \in {"number", "refused", "ok"}, h \in {"sale", "terminal"} :
          /\ pc[r] = "idle" /\ pc' = [pc EXCEPT ![r] = l] /\ op' = [op EXCEPT ![r] = h]
          /\ UNCHANGED <<stock, moved, posted, mv, found, dest>>
    BY <1>1 DEF StartSale, WriteTerminal
  <2>2. /\ UNCHANGED <<stock, moved, posted>> /\ found' \in [Req -> P!StockRow]
        /\ DOMAIN pc' = Req /\ DOMAIN op' = Req /\ DOMAIN mv' = Req /\ DOMAIN dest' = Req
        /\ \A q \in Req \ {r} : pc'[q] = pc[q] /\ op'[q] = op[q] /\ mv'[q] = mv[q] /\ dest'[q] = dest[q]
        /\ pc[r] \notin {"log", "unlogged"} /\ pc'[r] \notin {"log", "unlogged"}
        /\ pc'[r] \in {"source", "find", "upsert"} => mv'[r] \in P!Movement
        /\ op'[r] = "transfer" /\ pc'[r] # "idle" => dest'[r] \in P!Item
        /\ pc[r] \in P!Holding /\ P!InTransaction(r) => pc'[r] \in P!Holding /\ P!InTransaction(r)'
    BY <1>0, <2>1 DEF P!Holding
  <2> QED
    BY <2>2, StockAssumptions, P!BooksAside
<1>2. CASE nextDocumentNumber(r) \/ InsertSale(r)
  <2>1. PICK l \in {"insert", "line"} :
          /\ pc[r] \in {"number", "insert"} /\ pc' = [pc EXCEPT ![r] = l]
          /\ UNCHANGED <<stock, moved, posted, op, mv, found, dest>>
    BY <1>2 DEF nextDocumentNumber, InsertSale
  <2>0. op[r] = "sale"
    BY <1>0, <2>1 DEF Stages
  <2>2. /\ UNCHANGED <<stock, moved, posted>> /\ found' \in [Req -> P!StockRow]
        /\ DOMAIN pc' = Req /\ DOMAIN op' = Req /\ DOMAIN mv' = Req /\ DOMAIN dest' = Req
        /\ \A q \in Req \ {r} : pc'[q] = pc[q] /\ op'[q] = op[q] /\ mv'[q] = mv[q] /\ dest'[q] = dest[q]
        /\ pc[r] \notin {"log", "unlogged"} /\ pc'[r] \notin {"log", "unlogged"}
        /\ pc'[r] \in {"source", "find", "upsert"} => mv'[r] \in P!Movement
        /\ op'[r] = "transfer" /\ pc'[r] # "idle" => dest'[r] \in P!Item
        /\ pc[r] \in P!Holding /\ P!InTransaction(r) => pc'[r] \in P!Holding /\ P!InTransaction(r)'
    BY <1>0, <2>0, <2>1 DEF P!Holding
  <2> QED
    BY <2>2, StockAssumptions, P!BooksAside
<1>3. CASE SellLine(r)
  <2> DEFINE line == sale[r].lines[sale[r].at]
             m == [type |-> "SALE_OUT", item |-> <<sale[r].warehouse, line.product>>,
                   qty |-> line.qty, cost |-> NoCost]
  <2>1. /\ pc[r] = "line" /\ pc' = [pc EXCEPT ![r] = "find"] /\ mv' = [mv EXCEPT ![r] = m]
        /\ UNCHANGED <<stock, moved, posted, op, found, dest>>
    BY <1>3 DEF SellLine
  <2>2. op[r] = "sale" /\ sale[r].warehouse \in Warehouse /\ sale[r] \in Receipt
        /\ sale[r].at \in 1..Len(sale[r].lines)
    BY <1>0, <2>1 DEF Stages, At, Selling, SaleTypes
  <2>3. line.product \in Product /\ line.qty \in Int
    BY <2>2, LineFacts
  <2> HIDE DEF line
  <2>4. m \in P!Movement
    <3>1. <<sale[r].warehouse, line.product>> \in P!Item
      BY <2>2, <2>3, StockFacts
    <3> QED
      BY <2>3, <3>1 DEF P!Movement, P!MovementType
  <2> HIDE DEF m
  <2>5. /\ UNCHANGED <<stock, moved, posted>> /\ found' \in [Req -> P!StockRow]
        /\ DOMAIN pc' = Req /\ DOMAIN op' = Req /\ DOMAIN mv' = Req /\ DOMAIN dest' = Req
        /\ \A q \in Req \ {r} : pc'[q] = pc[q] /\ op'[q] = op[q] /\ mv'[q] = mv[q] /\ dest'[q] = dest[q]
        /\ pc[r] \notin {"log", "unlogged"} /\ pc'[r] \notin {"log", "unlogged"}
        /\ pc'[r] \in {"source", "find", "upsert"} => mv'[r] \in P!Movement
        /\ op'[r] = "transfer" /\ pc'[r] # "idle" => dest'[r] \in P!Item
        /\ pc[r] \in P!Holding /\ P!InTransaction(r) => pc'[r] \in P!Holding /\ P!InTransaction(r)'
    BY <1>0, <2>1, <2>2, <2>4 DEF P!Holding, P!InTransaction
  <2> QED
    BY <2>5, StockAssumptions, P!BooksAside
<1> QED
  BY <1>1, <1>2, <1>3 DEF AsideStep

\* Whatever step a request takes, the stock's books stay in order.
LEMMA BooksKept ==
  ASSUME P!Books, Receipts, NEW r \in Req, Start(r) \/ Step(r) \/ Abort(r)
  PROVE  P!Books'
<1> USE StockAssumptions
<1>0. Stages /\ SaleTypes /\ DOMAIN mv = Req
  BY StockParts DEF Receipts, P!Books
<1>1. CASE AsideStep(r)
  BY <1>1, AsideFacts
<1>2. CASE P!Start(r) \/ P!Step(r) \/ P!Abort(r)
  BY <1>2, P!BooksStep
<1>3. CASE SaleLogged(r)
  <2>1. PICK l \in {"commit", "line"} :
          P!LogMovement(r, l) /\ UNCHANGED <<op, mv, dest>> /\ op[r] = "sale" /\ pc[r] = "log"
    BY <1>3, SameActions DEF SaleLogged, Inv!LogMovement
  <2>2. mv[r] \in P!Movement
    BY <2>1 DEF P!Books, P!BookTypes
  <2>3. P!InTransaction(r) /\ l \in P!Holding \ {"log"}
    BY <2>1 DEF P!InTransaction, P!Holding
  <2> QED
    BY <1>0, <2>1, <2>2, <2>3, P!BooksLog
<1>4. CASE NumberConflict(r)
  <2>1. P!DropStock(r) /\ pc' = [pc EXCEPT ![r] = "refused"] /\ UNCHANGED <<op, dest>>
        /\ pc[r] = "insert"
    BY <1>4, SameActions DEF NumberConflict
  <2>2. r \notin P!Cut
    BY <1>4 DEF P!Cut, NumberConflict
  <2> QED
    BY <1>4, <2>1, <2>2, P!BooksDrop
<1>5. CASE CommitSale(r)
  <2>1. P!KeepStock(r) /\ pc[r] = "commit" /\ pc' = [pc EXCEPT ![r] = "ok"] /\ UNCHANGED <<op, dest>>
    BY <1>5, SameActions DEF CommitSale
  <2> QED
    BY <2>1, P!BooksKeep
<1>6. CASE Start(r)
  BY <1>1, <1>2, <1>6, SameActions DEF Start, AsideStep
<1>7. CASE Abort(r)
  BY <1>2, <1>7, SameActions DEF Abort
<1>8. CASE Step(r)
  <2>1. CASE nextDocumentNumber(r) \/ InsertSale(r) \/ SellLine(r)
    BY <1>1, <2>1 DEF AsideStep
  <2>2. CASE \/ (Inv!FindStock(r) \/ Inv!UpsertStock(r)) /\ UNCHANGED <<op, dest>>
             \/ Inv!RefuseMovement(r) /\ UNCHANGED <<op, dest>>
             \/ Inv!AdjustLogged(r) \/ Inv!ReadSource(r)
             \/ Inv!TransferOutLogged(r) \/ Inv!TransferInLogged(r)
             \/ Inv!CommitTransfer(r)
    BY <1>2, <2>2, SameActions DEF P!Step
  <2> QED
    BY <1>3, <1>4, <1>5, <1>8, <2>1, <2>2 DEF Step
<1> QED
  BY <1>6, <1>7, <1>8

-----------------------------------------------------------------------------
(* What a step sells.                                                      *)

Entries == {<<"SALE_OUT", i>> : i \in Inv!Item}

Posting(r, x) == IF x = <<mv[r].type, mv[r].item>> THEN mv[r].qty ELSE 0

\* A step that sells nothing.
Quiet(r) ==
  /\ UNCHANGED <<numbers, sales>>
  /\ \A x \in Entries : moved'[x].qty = moved[x].qty /\ posted'[r][x].qty = posted[r][x].qty
  /\ Selling(r)' <=> Selling(r)
  /\ Selling(r) => UNCHANGED sale

Enters(r) ==
  /\ UNCHANGED <<moved, posted, sale, sales>>
  /\ numbers.holder = Nobody /\ numbers' = Insert(numbers, r)
  /\ pc[r] = "insert" /\ Selling(r)'

Sale(r) ==
  /\ UNCHANGED <<moved, numbers, sales>>
  /\ Selling(r) /\ pc[r] = "log" /\ Selling(r)'
  /\ sale' = [sale EXCEPT ![r].at = sale[r].at + 1]
  /\ \A x \in Entries : posted'[r][x].qty = posted[r][x].qty + Posting(r, x)

Drops(r) ==
  /\ UNCHANGED <<moved, sales>>
  /\ posted'[r] = Inv!NoPosting /\ ~Selling(r)'
  /\ numbers' = RollbackSeries(numbers, r)

Keeps(r) ==
  /\ posted'[r] = Inv!NoPosting /\ ~Selling(r)'
  /\ \A x \in Entries : moved'[x].qty = moved[x].qty + posted[r][x].qty
  /\ \/ /\ Selling(r) /\ pc[r] = "commit"
        /\ numbers' = CommitSeries(numbers, r) /\ sales' = Append(sales, sale[r])
     \/ ~Selling(r) /\ UNCHANGED <<numbers, sales>>

Motion(r) ==
  /\ \A q \in Req \ {r} :
       pc'[q] = pc[q] /\ op'[q] = op[q] /\ mv'[q] = mv[q] /\ posted'[q] = posted[q] /\ sale'[q] = sale[q]
  /\ Quiet(r) \/ Enters(r) \/ Sale(r) \/ Drops(r) \/ Keeps(r)

LEMMA LogMotion ==
  ASSUME P!BookTypes, Receipts, NEW r \in Req, NEW l, Inv!LogMovement(r, l)
  PROVE  /\ pc[r] = "log" /\ pc' = [pc EXCEPT ![r] = l]
         /\ \A q \in Req \ {r} : posted'[q] = posted[q]
         /\ op[r] = "sale" => /\ moved' = moved
                              /\ \A x \in Entries : posted'[r][x].qty = posted[r][x].qty + Posting(r, x)
         /\ op[r] \in {"adjust", "transfer"} =>
              \A x \in Entries : moved'[x].qty = moved[x].qty /\ posted'[r][x].qty = posted[r][x].qty
<1> USE StockAssumptions
<1>1. P!LogMovement(r, l) /\ pc[r] = "log" /\ pc' = [pc EXCEPT ![r] = l]
  BY SameActions DEF Inv!LogMovement
<1>2. \A x \in Entries : x \in P!MovementType \X P!Item
  BY StockFacts DEF Entries, P!MovementType
<1>3. ASSUME NEW x \in Entries
      PROVE  /\ Posting(r, x) \in Int
             /\ moved'[x].qty = moved[x].qty + (IF P!InTransaction(r) THEN 0 ELSE Posting(r, x))
             /\ posted'[r][x].qty = posted[r][x].qty + (IF P!InTransaction(r) THEN Posting(r, x) ELSE 0)
  <2> DEFINE n == IF x = <<mv[r].type, mv[r].item>> THEN mv[r].qty ELSE 0
  <2>1. /\ n \in Int
        /\ moved'[x].qty = moved[x].qty + (IF P!InTransaction(r) THEN 0 ELSE n)
        /\ posted'[r][x].qty = posted[r][x].qty + (IF P!InTransaction(r) THEN n ELSE 0)
    BY <1>1, <1>2, P!LoggedEntries
  <2> QED
    BY <2>1 DEF Posting
<1>4. \A q \in Req \ {r} : posted'[q] = posted[q]
  BY StockParts DEF Inv!LogMovement
<1>5. op[r] = "sale" => moved' = moved
  BY DEF Inv!LogMovement, Inv!InTransaction
<1>6. ASSUME NEW x \in Entries PROVE moved[x].qty \in Int /\ posted[r][x].qty \in Int
  <2>1. x \in Inv!MovementType \X Inv!Item
    BY <1>2, StockFacts
  <2> QED
    BY <2>1, StockParts DEF Inv!Ledger
<1>7. ASSUME op[r] \in {"adjust", "transfer"}, NEW x \in Entries PROVE Posting(r, x) = 0
  <2>1. mv[r].type # "SALE_OUT"
    BY <1>7 DEF Receipts, At
  <2> QED
    BY <2>1 DEF Posting, Entries
<1>8. ASSUME op[r] = "sale", NEW x \in Entries
      PROVE  posted'[r][x].qty = posted[r][x].qty + Posting(r, x)
  BY <1>3, <1>8 DEF P!InTransaction
<1>9. ASSUME op[r] \in {"adjust", "transfer"}, NEW x \in Entries
      PROVE  moved'[x].qty = moved[x].qty /\ posted'[r][x].qty = posted[r][x].qty
  BY <1>3, <1>6, <1>7, <1>9
<1> QED
  BY <1>1, <1>4, <1>5, <1>8, <1>9

LEMMA DropMotion ==
  ASSUME P!BookTypes, SaleTypes, NEW r \in Req, NEW l \in {"refused", "aborted", "unlogged"},
         Inv!DropStock(r), DropSale(r), pc' = [pc EXCEPT ![r] = l], UNCHANGED op
  PROVE  Motion(r)
BY StockParts DEF SaleTypes, Inv!DropStock, DropSale, Motion, Drops, Selling

LEMMA KeepMotion ==
  ASSUME P!BookTypes, SaleTypes, NEW r \in Req, Inv!KeepStock(r), pc[r] = "commit",
         pc' = [pc EXCEPT ![r] = "ok"], UNCHANGED <<op, sale>>,
         \/ op[r] = "transfer" /\ UNCHANGED posVars
         \/ CommitSale(r)
  PROVE  Motion(r)
<1>1. /\ moved' = Inv!Merge(moved, posted[r]) /\ posted' = [posted EXCEPT ![r] = Inv!NoPosting]
      /\ UNCHANGED mv
  BY DEF Inv!KeepStock
<1>2. \A x \in Entries : x \in Inv!MovementType \X Inv!Item
  BY DEF Entries, Inv!MovementType
<1>3. \A x \in Entries : moved'[x].qty = moved[x].qty + posted[r][x].qty
  BY <1>1, <1>2 DEF Inv!Merge
<1>4. ~Selling(r)' /\ posted'[r] = Inv!NoPosting
  BY <1>1, StockParts DEF Selling, SaleTypes
<1>5. Keeps(r)
  BY <1>3, <1>4 DEF Keeps, Selling, CommitSale, posVars
<1> QED
  BY <1>1, <1>5, StockParts DEF Motion, SaleTypes

LEMMA MotionFacts ==
  ASSUME P!Books, Receipts, NEW r \in Req, Start(r) \/ Step(r) \/ Abort(r)
  PROVE  Motion(r)
<1> USE DEF posVars, stockVars, rowVars
<1>0. P!BookTypes /\ Stages /\ SaleTypes /\ DOMAIN mv = Req /\ DOMAIN pc = Req /\ DOMAIN op = Req
  BY StockParts DEF P!Books, Receipts
<1>1. CASE \/ \E t \in Terminal, lines \in Basket, tendered \in Tender :
                StartSale(r, t, lines, tendered)
           \/ \E t \in Terminal, w \in Warehouse : WriteTerminal(r, t, w)
           \/ nextDocumentNumber(r) \/ SellLine(r)
  <2>1. PICK k \in {"idle", "number", "line"}, l \in {"number", "refused", "ok", "insert", "find"} :
          /\ pc[r] = k /\ pc'[r] = l /\ (k = "line" <=> l = "find")
          /\ k = "line" => op'[r] = op[r] /\ UNCHANGED sale
          /\ \A q \in Req \ {r} : pc'[q] = pc[q] /\ op'[q] = op[q] /\ mv'[q] = mv[q] /\ sale'[q] = sale[q]
          /\ UNCHANGED <<moved, posted, numbers, sales>>
    BY <1>0, <1>1 DEF StartSale, WriteTerminal, nextDocumentNumber, SellLine, SaleTypes
  <2> QED
    BY <1>0, <2>1 DEF Motion, Quiet, Selling, Stages
<1>2. CASE InsertSale(r)
  <2>1. op[r] = "sale"
    BY <1>0, <1>2 DEF InsertSale, Stages
  <2>2. Enters(r)
    BY <1>0, <1>2, <2>1 DEF InsertSale, Enters, Insertable, Selling
  <2> QED
    BY <1>0, <1>2, <2>2 DEF InsertSale, Motion
<1>3. CASE Inv!Start(r) /\ UNCHANGED posVars
  <2>1. /\ \A q \in Req \ {r} : mv'[q] = mv[q] /\ pc'[q] = pc[q] /\ op'[q] = op[q]
        /\ pc[r] = "idle" /\ op'[r] \in {"adjust", "transfer"}
        /\ UNCHANGED <<moved, posted>>
    BY <1>0, <1>3 DEF Inv!Start, Inv!StartAdjust, Inv!StartTransfer
  <2> QED
    BY <1>3, <2>1 DEF Motion, Quiet, Selling
<1>4. CASE (Inv!FindStock(r) \/ Inv!UpsertStock(r)) /\ UNCHANGED <<op, dest, posVars>>
  <2>1. /\ pc[r] \in {"find", "upsert"} /\ pc'[r] \in {"upsert", "log"}
        /\ \A q \in Req \ {r} : pc'[q] = pc[q]
        /\ UNCHANGED <<mv, moved, posted>>
    BY <1>0, <1>4 DEF Inv!FindStock, Inv!UpsertStock
  <2> QED
    BY <1>4, <2>1 DEF Motion, Quiet, Selling
<1>5. CASE Inv!ReadSource(r) /\ UNCHANGED posVars
  <2>1. /\ pc[r] = "source" /\ UNCHANGED <<op, moved, posted>>
        /\ \A q \in Req \ {r} : mv'[q] = mv[q] /\ pc'[q] = pc[q]
    BY <1>0, <1>5 DEF Inv!ReadSource
  <2>2. op[r] = "transfer"
    BY <1>0, <2>1 DEF Stages
  <2> QED
    BY <1>5, <2>1, <2>2 DEF Motion, Quiet, Selling
<1>6. CASE SaleLogged(r)
  <2> DEFINE l == IF sale[r].at = Len(sale[r].lines) THEN "commit" ELSE "line"
  <2>0. l \in {"commit", "line"}
    OBVIOUS
  <2>1. /\ Inv!LogMovement(r, l) /\ op[r] = "sale"
        /\ sale' = [sale EXCEPT ![r].at = sale[r].at + 1]
        /\ UNCHANGED <<op, mv, terminals, numbers, sales, number>>
    BY <1>6 DEF SaleLogged
  <2> HIDE DEF l
  <2>2. /\ pc[r] = "log" /\ pc' = [pc EXCEPT ![r] = l] /\ moved' = moved
        /\ \A q \in Req \ {r} : posted'[q] = posted[q]
        /\ \A x \in Entries : posted'[r][x].qty = posted[r][x].qty + Posting(r, x)
    BY <1>0, <2>1, LogMotion
  <2>3. Sale(r)
    BY <1>0, <2>0, <2>1, <2>2 DEF Sale, Selling
  <2>4. \A q \in Req \ {r} : sale'[q] = sale[q] /\ pc'[q] = pc[q]
    BY <1>0, <2>1, <2>2 DEF SaleTypes
  <2> QED
    BY <2>1, <2>2, <2>3, <2>4 DEF Motion
<1>7. CASE (Inv!AdjustLogged(r) \/ Inv!TransferOutLogged(r) \/ Inv!TransferInLogged(r)) /\ UNCHANGED posVars
  <2>1. PICK l \in {"ok", "find", "commit"} :
          /\ Inv!LogMovement(r, l) /\ op[r] \in {"adjust", "transfer"} /\ UNCHANGED op
          /\ \A q \in Req \ {r} : mv'[q] = mv[q]
    <3>1. CASE Inv!AdjustLogged(r)
      BY <3>1 DEF Inv!AdjustLogged
    <3>2. CASE Inv!TransferOutLogged(r)
      <4>1. mv' = [mv EXCEPT ![r].type = "TRANSFER_IN", ![r].item = dest[r]]
        BY <3>2 DEF Inv!TransferOutLogged
      <4>2. \A q \in Req \ {r} : mv'[q] = mv[q]
        BY <1>0, <4>1
      <4> QED
        BY <3>2, <4>2 DEF Inv!TransferOutLogged
    <3>3. CASE Inv!TransferInLogged(r)
      BY <3>3 DEF Inv!TransferInLogged
    <3> QED
      BY <1>7, <3>1, <3>2, <3>3
  <2>2. /\ pc' = [pc EXCEPT ![r] = l]
        /\ \A q \in Req \ {r} : posted'[q] = posted[q]
        /\ \A x \in Entries : moved'[x].qty = moved[x].qty /\ posted'[r][x].qty = posted[r][x].qty
    BY <1>0, <2>1, LogMotion
  <2> QED
    BY <1>0, <1>7, <2>1, <2>2 DEF Motion, Quiet, Selling
<1>8. CASE Inv!CommitTransfer(r) /\ UNCHANGED posVars
  BY <1>0, <1>8, KeepMotion DEF Inv!CommitTransfer
<1>9. CASE CommitSale(r)
  BY <1>0, <1>9, KeepMotion DEF CommitSale
<1>10. CASE \/ NumberConflict(r)
            \/ Inv!RefuseMovement(r) /\ DropSale(r) /\ UNCHANGED <<op, dest>>
            \/ Abort(r)
  <2>1. PICK l \in {"refused", "aborted", "unlogged"} :
          Inv!DropStock(r) /\ DropSale(r) /\ pc' = [pc EXCEPT ![r] = l] /\ UNCHANGED op
    BY <1>10 DEF NumberConflict, Inv!RefuseMovement, Abort, Inv!Abort
  <2> QED
    BY <1>0, <2>1, DropMotion
<1>11. CASE Step(r)
  BY <1>1, <1>2, <1>4, <1>5, <1>6, <1>7, <1>8, <1>9, <1>10, <1>11 DEF Step
<1>12. CASE Start(r)
  BY <1>1, <1>3, <1>12 DEF Start
<1> QED
  BY <1>10, <1>11, <1>12

-----------------------------------------------------------------------------
(* Sums over the lines of a receipt, and over the receipts.                *)

LEMMA LinesFacts ==
  ASSUME NEW s \in Receipt, NEW i
  PROVE  /\ \A n \in 0..Len(s.lines) :
              /\ IsFiniteSet(LinesOf(s, i, n))
              /\ \A k \in LinesOf(s, i, n) : k \in DOMAIN s.lines
         /\ Len(s.lines) \in Nat /\ DOMAIN s.lines = 1..Len(s.lines)
         /\ \A k \in DOMAIN s.lines : Amounts(s)[k] = s.lines[k].qty /\ Amounts(s)[k] \in Nat
<1>1. s.lines \in Seq(LineItem)
  BY DEF Receipt
<1>2. Len(s.lines) \in Nat /\ DOMAIN s.lines = 1..Len(s.lines)
  BY <1>1
<1>3. ASSUME NEW k \in DOMAIN s.lines PROVE Amounts(s)[k] = s.lines[k].qty /\ Amounts(s)[k] \in Nat
  <2>1. s.lines[k] \in LineItem
    BY <1>1, <1>2
  <2> QED
    BY <2>1 DEF LineItem, Amounts
<1>4. ASSUME NEW n \in 0..Len(s.lines)
      PROVE  /\ IsFiniteSet(LinesOf(s, i, n))
             /\ \A k \in LinesOf(s, i, n) : k \in DOMAIN s.lines
  <2>1. IsFiniteSet(1..n)
    BY <1>2, FS_Interval
  <2>2. LinesOf(s, i, n) \in SUBSET (1..n)
    BY DEF LinesOf
  <2>3. \A k \in 1..n : k \in 1..Len(s.lines)
    BY <1>2
  <2> QED
    BY <1>2, <2>1, <2>2, <2>3, FS_Subset
<1> QED
  BY <1>2, <1>3, <1>4

\* One line more.
LEMMA NextLine ==
  ASSUME NEW s \in Receipt, NEW i, s.at \in 1..Len(s.lines)
  PROVE  OnReceipt(s, i, s.at) = OnReceipt(s, i, s.at - 1)
           + (IF i = <<s.warehouse, s.lines[s.at].product>> THEN s.lines[s.at].qty ELSE 0)
<1> DEFINE n == s.at
           S == LinesOf(s, i, n - 1)
           g == Amounts(s)
<1>1. /\ n \in Nat \ {0} /\ Len(s.lines) \in Nat /\ n - 1 \in 0..Len(s.lines)
      /\ n \in DOMAIN s.lines
  BY LineFacts, LinesFacts
<1>2. IsFiniteSet(S) /\ \A k \in S : k \in DOMAIN s.lines
  BY <1>1, LinesFacts
<1>3. /\ \A k \in S : g[k] \in Int
      /\ g[n] = s.lines[n].qty /\ g[n] \in Int
  <2>1. \A k \in DOMAIN s.lines : g[k] = s.lines[k].qty /\ g[k] \in Nat
    BY LinesFacts
  <2> HIDE DEF g, S, n
  <2> QED
    BY <1>1, <1>2, <2>1
<1>4. n \notin S
  BY <1>1 DEF LinesOf
<1>5. 1..n = (1..(n - 1)) \cup {n}
  BY <1>1
<1>6. LinesOf(s, i, n) = IF i = <<s.warehouse, s.lines[n].product>> THEN S \cup {n} ELSE S
  BY <1>5 DEF LinesOf
<1> HIDE DEF S, g
<1>7. SumOf(g, S) \in Int
  BY <1>2, <1>3, SumFacts
<1>8. SumOf(g, S \cup {n}) = SumOf(g, S) + g[n]
  BY <1>2, <1>3, <1>4, SumInsert
<1> HIDE DEF n
<1>9. SumOf(g, LinesOf(s, i, n)) = SumOf(g, S)
        + (IF i = <<s.warehouse, s.lines[n].product>> THEN s.lines[n].qty ELSE 0)
  BY <1>3, <1>6, <1>7, <1>8
<1> QED
  BY <1>9 DEF OnReceipt, g, S, n

LEMMA NoLine ==
  ASSUME NEW s \in Receipt, NEW i
  PROVE  OnReceipt(s, i, 0) = 0
<1>1. LinesOf(s, i, 0) = {}
  BY DEF LinesOf
<1>2. SumOf(Amounts(s), {}) = 0
  BY FS_EmptySet, SumFacts
<1> QED
  BY <1>1, <1>2 DEF OnReceipt

\* What is on a receipt depends on its lines and its warehouse.
LEMMA SameReceipt ==
  ASSUME NEW s, NEW t, s.lines = t.lines, s.warehouse = t.warehouse, NEW i, NEW n
  PROVE  OnReceipt(s, i, n) = OnReceipt(t, i, n)
BY DEF OnReceipt, LinesOf, Amounts

\* The values the sum over the receipts adds.
Values(ss, i) == [x \in Sites(ss, i) |-> ss[x[1]].lines[x[2]].qty]

LEMMA SitesFacts ==
  ASSUME NEW ss \in Seq(Receipt), NEW i
  PROVE  /\ IsFiniteSet(Sites(ss, i))
         /\ \A x : x \in Sites(ss, i) <=>
              \E n \in 1..Len(ss) : \E k \in DOMAIN ss[n].lines :
                x = <<n, k>> /\ i = <<ss[n].warehouse, ss[n].lines[k].product>>
         /\ \A x \in Sites(ss, i) : Values(ss, i)[x] \in Int
<1>0. /\ Len(ss) \in Nat /\ DOMAIN ss = 1..Len(ss)
      /\ \A n \in 1..Len(ss) : ss[n] \in Receipt
  OBVIOUS
<1> DEFINE Row(n) == {<<n, k>> : k \in DOMAIN ss[n].lines}
           U == UNION {Row(n) : n \in DOMAIN ss}
<1>1. ASSUME NEW n \in DOMAIN ss PROVE IsFiniteSet(Row(n))
  <2> DEFINE D == DOMAIN ss[n].lines
             f == [k \in D |-> <<n, k>>]
  <2>1. IsFiniteSet(D)
    <3>1. ss[n] \in Receipt
      BY <1>0
    <3>2. D = 1..Len(ss[n].lines) /\ Len(ss[n].lines) \in Nat
      BY <3>1, LinesFacts
    <3> QED
      BY <3>2, FS_Interval
  <2>2. Row(n) = {f[k] : k \in D}
    OBVIOUS
  <2> HIDE DEF f, D, Row
  <2> QED
    BY <2>1, <2>2, FiniteImage
<1>2. IsFiniteSet({Row(n) : n \in DOMAIN ss})
  <2> DEFINE D == DOMAIN ss
             f == [n \in D |-> Row(n)]
  <2>1. IsFiniteSet(D)
    BY <1>0, FS_Interval
  <2>2. {Row(n) : n \in DOMAIN ss} = {f[n] : n \in D}
    OBVIOUS
  <2> HIDE DEF f, D, Row
  <2> QED
    BY <2>1, <2>2, FiniteImage
<1>3. IsFiniteSet(U)
  <2> DEFINE R == {Row(n) : n \in DOMAIN ss}
  <2>1. \A T \in R : IsFiniteSet(T)
    BY <1>1
  <2>2. U = UNION R
    OBVIOUS
  <2> HIDE DEF R, U, Row
  <2> QED
    <3>1. IsFiniteSet(R)
      BY <1>2 DEF R
    <3> QED
      BY <2>1, <2>2, <3>1, FS_UNION
<1>4. Sites(ss, i) \in SUBSET U
  BY DEF Sites
<1>5. \A x : x \in U <=> \E n \in 1..Len(ss) : \E k \in DOMAIN ss[n].lines : x = <<n, k>>
  BY <1>0
<1>6. \A x : x \in Sites(ss, i) <=>
         \E n \in 1..Len(ss) : \E k \in DOMAIN ss[n].lines :
           x = <<n, k>> /\ i = <<ss[n].warehouse, ss[n].lines[k].product>>
  <2>1. \A x : x \in Sites(ss, i) <=>
                 x \in U /\ i = <<ss[x[1]].warehouse, ss[x[1]].lines[x[2]].product>>
    BY DEF Sites
  <2> HIDE DEF U
  <2> QED
    BY <1>5, <2>1
<1>7. ASSUME NEW x \in Sites(ss, i) PROVE Values(ss, i)[x] \in Int
  <2>0. PICK n \in 1..Len(ss) : \E k \in DOMAIN ss[n].lines : x = <<n, k>>
    BY <1>6
  <2>1. PICK k \in DOMAIN ss[n].lines : x = <<n, k>>
    BY <2>0
  <2>2. ss[n].lines[k].qty \in Nat
    BY <1>0, LinesFacts
  <2>3. Values(ss, i)[x] = ss[n].lines[k].qty
    BY <2>1 DEF Values
  <2> QED
    BY <2>2, <2>3
<1> QED
  <2> HIDE DEF U
  <2> QED
    BY <1>3, <1>4, <1>6, <1>7, FS_Subset

\* One receipt more.
LEMMA NextReceipt ==
  ASSUME NEW ss \in Seq(Receipt), NEW s \in Receipt, NEW i
  PROVE  OnReceipts(Append(ss, s), i) = OnReceipts(ss, i) + OnReceipt(s, i, Len(s.lines))
<1> DEFINE tt == Append(ss, s)
           N == Len(ss) + 1
           A == Sites(ss, i)
           B == LinesOf(s, i, Len(s.lines))
           f == [k \in B |-> <<N, k>>]
           g == Amounts(s)
           k0 == Values(ss, i)
           k1 == Values(tt, i)
           C == Sites(tt, i)
<1>0. /\ tt \in Seq(Receipt) /\ Len(ss) \in Nat /\ Len(tt) = N /\ tt[N] = s
      /\ \A n \in 1..Len(ss) : tt[n] = ss[n]
  OBVIOUS
<1>1. /\ IsFiniteSet(A) /\ \A x \in A : k0[x] \in Int
      /\ \A x \in C : k1[x] \in Int
  <2>1. tt \in Seq(Receipt)
    BY <1>0
  <2> HIDE DEF tt
  <2> QED
    BY <2>1, SitesFacts
<1>2. /\ IsFiniteSet(B) /\ \A k \in B : k \in DOMAIN s.lines /\ g[k] \in Int /\ g[k] = s.lines[k].qty
  <2>1. \A k \in DOMAIN s.lines : g[k] = s.lines[k].qty /\ g[k] \in Nat
    BY LinesFacts
  <2>2. Len(s.lines) \in 0..Len(s.lines)
    BY LinesFacts
  <2>3. IsFiniteSet(B) /\ \A k \in B : k \in DOMAIN s.lines
    BY <2>2, LinesFacts
  <2> HIDE DEF g, B
  <2> QED
    BY <2>1, <2>3
<1>3. ASSUME NEW x PROVE x \in C <=> x \in A \/ \E k \in B : x = <<N, k>>
  <2>1. x \in C <=> \E n \in 1..N : \E k \in DOMAIN tt[n].lines :
                       x = <<n, k>> /\ i = <<tt[n].warehouse, tt[n].lines[k].product>>
    <3>1. tt \in Seq(Receipt) /\ Len(tt) = N
      BY <1>0
    <3> HIDE DEF tt, N
    <3> QED
      BY <3>1, SitesFacts
  <2>2. x \in A <=> \E n \in 1..Len(ss) : \E k \in DOMAIN ss[n].lines :
                       x = <<n, k>> /\ i = <<ss[n].warehouse, ss[n].lines[k].product>>
    BY SitesFacts
  <2>3. \A n : n \in 1..N <=> n \in 1..Len(ss) \/ n = N
    BY <1>0
  <2>4. \A k : k \in B <=> k \in DOMAIN s.lines /\ i = <<s.warehouse, s.lines[k].product>>
    BY LinesFacts DEF LinesOf
  <2> HIDE DEF tt, N, A, B, C
  <2> QED
    BY <1>0, <2>1, <2>2, <2>3, <2>4
<1>4. C = A \cup {f[k] : k \in B}
  <2> HIDE DEF A, B, C
  <2> QED
    BY <1>3
<1>5. ASSUME NEW x \in A PROVE k1[x] = k0[x]
  <2>0. PICK n \in 1..Len(ss) : \E k \in DOMAIN ss[n].lines : x = <<n, k>>
    BY SitesFacts
  <2>1. PICK k \in DOMAIN ss[n].lines : x = <<n, k>>
    BY <2>0
  <2>2. x \in C /\ tt[n] = ss[n]
    BY <1>0, <1>3
  <2>3. k0[x] = ss[n].lines[k].qty
    BY <2>1 DEF Values
  <2>4. k1[x] = tt[n].lines[k].qty
    BY <2>1, <2>2 DEF Values
  <2> QED
    BY <2>2, <2>3, <2>4
<1>6. ASSUME NEW k \in B PROVE f[k] \notin A /\ k1[f[k]] = g[k]
  <2>1. f[k] = <<N, k>> /\ f[k] \in C
    BY <1>3
  <2>2. \A x \in A : \E n \in 1..Len(ss) : \E j : x = <<n, j>>
    BY SitesFacts
  <2>3. N \notin 1..Len(ss)
    BY <1>0
  <2>4. k1[f[k]] = tt[N].lines[k].qty
    BY <2>1 DEF Values
  <2> HIDE DEF N, A, tt, k1, f
  <2> QED
    BY <1>0, <1>2, <2>1, <2>2, <2>3, <2>4
<1>7. \A y, z \in B : f[y] = f[z] => y = z
  OBVIOUS
<1>8. \A x \in A : k1[x] \in Int /\ k0[x] \in Int
  BY <1>1, <1>5
<1> HIDE DEF A, B, f, g, k0, k1, C
<1>9. SumOf(k1, C) = SumOf(k1, A) + SumOf(g, B)
  <2>1. \A x \in A : k1[x] \in Int
    BY <1>8
  <2>2. \A y \in B : f[y] \notin A /\ g[y] \in Int /\ k1[f[y]] = g[y]
    BY <1>2, <1>6
  <2>3. SumOf(k1, A \cup {f[y] : y \in B}) = SumOf(k1, A) + SumOf(g, B)
    BY <1>1, <1>2, <1>7, <2>1, <2>2, SumJoin
  <2> QED
    BY <1>4, <2>3
<1>10. SumOf(k1, A) = SumOf(k0, A)
  BY <1>1, <1>5, <1>8, SumSame
<1> QED
  BY <1>9, <1>10 DEF OnReceipts, OnReceipt, A, B, C, g, k0, k1, Values

LEMMA NoReceipts == \A i : OnReceipts(<<>>, i) = 0
<1> SUFFICES ASSUME NEW i PROVE OnReceipts(<<>>, i) = 0
  OBVIOUS
<1>1. Sites(<<>>, i) = {}
  BY DEF Sites
<1> DEFINE g == [x \in Sites(<<>>, i) |-> <<>>[x[1]].lines[x[2]].qty]
<1>2. OnReceipts(<<>>, i) = SumOf(g, {})
  BY <1>1 DEF OnReceipts
<1> HIDE DEF g
<1> QED
  BY <1>2, FS_EmptySet, SumFacts

-----------------------------------------------------------------------------
(* The parts of the invariant about sales, step by step.                   *)

LEMMA SerialStep ==
  ASSUME Receipts, Serial, NEW r \in Req, Motion(r)
  PROVE  Serial'
<1> USE NobodyAssumption
<1>0. numbers \in Series
  BY DEF Receipts, SaleTypes
<1> SUFFICES ASSUME NEW q \in Req, Selling(q)' PROVE numbers'.holder = q
  BY DEF Serial
<1>1. q # r => Selling(q)
  BY DEF Motion, Selling
<1>2. CASE Quiet(r)
  BY <1>1, <1>2 DEF Quiet, Serial
<1>3. CASE Enters(r)
  <2>1. numbers' = [numbers EXCEPT !.holder = r] /\ numbers.holder = Nobody
    BY <1>3 DEF Enters, Insert
  <2>2. q = r
    BY <1>1, <2>1 DEF Serial
  <2> QED
    BY <1>0, <2>1, <2>2 DEF Series
<1>4. CASE Sale(r)
  BY <1>1, <1>4 DEF Sale, Serial
<1>5. CASE Drops(r)
  <2>1. q # r
    BY <1>5 DEF Drops
  <2> QED
    BY <1>1, <1>5, <2>1 DEF Drops, Serial, RollbackSeries
<1>6. CASE Keeps(r)
  <2>1. q # r
    BY <1>6 DEF Keeps
  <2>2. numbers' = numbers \/ numbers' = CommitSeries(numbers, r)
    BY <1>6 DEF Keeps
  <2> QED
    BY <1>1, <2>1, <2>2 DEF Serial, CommitSeries
<1> QED
  BY <1>2, <1>3, <1>4, <1>5, <1>6 DEF Motion

LEMMA EntryFacts ==
  ASSUME P!BookTypes, NEW i \in Inv!Item
  PROVE  /\ <<"SALE_OUT", i>> \in Entries /\ <<"SALE_OUT", i>> \in Inv!MovementType \X Inv!Item
         /\ moved[<<"SALE_OUT", i>>].qty \in Int
         /\ \A q \in Req : posted[q][<<"SALE_OUT", i>>].qty \in Int
         /\ Inv!NoPosting[<<"SALE_OUT", i>>].qty = 0
<1>1. <<"SALE_OUT", i>> \in Entries /\ <<"SALE_OUT", i>> \in Inv!MovementType \X Inv!Item
  BY DEF Entries, Inv!MovementType
<1>2. \A m \in Inv!Ledger : m[<<"SALE_OUT", i>>].qty \in Int
  BY <1>1 DEF Inv!Ledger
<1> QED
  BY <1>1, <1>2, StockParts DEF Inv!NoPosting

LEMMA PostsStep ==
  ASSUME P!BookTypes, Receipts, Posts, NEW r \in Req, Motion(r)
  PROVE  Posts'
<1>0. SaleTypes /\ At /\ Stages
  BY DEF Receipts
<1> SUFFICES ASSUME NEW q \in Req, NEW i \in Inv!Item
             PROVE  posted'[q][<<"SALE_OUT", i>>].qty =
                      IF Selling(q)' THEN OnReceipt(sale'[q], i, sale'[q].at - 1) ELSE 0
  BY DEF Posts, OnReceipt, LinesOf, Amounts
<1> DEFINE x == <<"SALE_OUT", i>>
<1>1. /\ x \in Entries /\ posted[r][x].qty \in Int /\ Inv!NoPosting[x].qty = 0
      /\ posted[q][x].qty = IF Selling(q) THEN OnReceipt(sale[q], i, sale[q].at - 1) ELSE 0
  BY EntryFacts DEF Posts
<1> HIDE DEF x
<1>2. CASE q # r
  <2>1. posted'[q] = posted[q] /\ sale'[q] = sale[q] /\ (Selling(q)' <=> Selling(q))
    BY <1>2 DEF Motion, Selling
  <2> QED
    BY <1>1, <2>1 DEF x
<1>3. CASE q = r /\ Quiet(r)
  <2>1. posted'[r][x].qty = posted[r][x].qty
    BY <1>1, <1>3 DEF Quiet
  <2> QED
    BY <1>1, <1>3, <2>1 DEF Quiet, x
<1>4. CASE q = r /\ Enters(r)
  <2>1. posted'[r][x].qty = 0 /\ sale'[r] = sale[r] /\ sale[r].at = 1 /\ Selling(r)'
    BY <1>0, <1>1, <1>4 DEF Enters, Selling, At
  <2>2. OnReceipt(sale[r], i, 0) = 0
    BY <1>0, NoLine DEF SaleTypes
  <2> QED
    BY <1>4, <2>1, <2>2 DEF x
<1>5. CASE q = r /\ Sale(r)
  <2>1. /\ Selling(r) /\ pc[r] = "log" /\ Selling(r)' /\ op[r] = "sale"
        /\ sale' = [sale EXCEPT ![r].at = sale[r].at + 1]
        /\ posted'[r][x].qty = posted[r][x].qty + Posting(r, x)
    BY <1>1, <1>5 DEF Sale, Selling
  <2>2. /\ sale[r] \in Receipt /\ sale[r].at \in 1..Len(sale[r].lines)
        /\ Sells(mv[r], sale[r])
    BY <1>0, <2>1 DEF At, SaleTypes
  <2>3. sale[r].at \in Nat
    BY <2>2, LineFacts
  <2>4. /\ sale'[r].lines = sale[r].lines /\ sale'[r].warehouse = sale[r].warehouse
        /\ sale'[r].at = sale[r].at + 1
    BY <1>0, <2>1, <2>2 DEF SaleTypes, Receipt
  <2>5. OnReceipt(sale'[r], i, sale[r].at) = OnReceipt(sale[r], i, sale[r].at)
    BY <2>4, SameReceipt
  <2>6. OnReceipt(sale[r], i, sale[r].at) = OnReceipt(sale[r], i, sale[r].at - 1)
          + (IF i = <<sale[r].warehouse, sale[r].lines[sale[r].at].product>>
               THEN sale[r].lines[sale[r].at].qty ELSE 0)
    BY <2>2, NextLine
  <2>7. Posting(r, x) = IF i = <<sale[r].warehouse, sale[r].lines[sale[r].at].product>>
                          THEN sale[r].lines[sale[r].at].qty ELSE 0
    BY <2>2 DEF Posting, Sells, x
  <2>8. sale'[r].at - 1 = sale[r].at
    BY <2>3, <2>4
  <2> QED
    BY <1>1, <1>5, <2>1, <2>5, <2>6, <2>7, <2>8 DEF x
<1>6. CASE q = r /\ (Drops(r) \/ Keeps(r))
  BY <1>1, <1>6 DEF Drops, Keeps, x
<1> QED
  BY <1>2, <1>3, <1>4, <1>5, <1>6 DEF Motion

LEMMA SoldStep ==
  ASSUME P!BookTypes, Receipts, Posts, Sold, NEW r \in Req, Motion(r)
  PROVE  Sold'
<1>0. SaleTypes /\ At /\ Stages
  BY DEF Receipts
<1> SUFFICES ASSUME NEW i \in Inv!Item
             PROVE  moved'[<<"SALE_OUT", i>>].qty = OnReceipts(sales', i)
  BY DEF Sold, OnReceipts, Sites
<1> DEFINE x == <<"SALE_OUT", i>>
<1>1. /\ x \in Entries /\ moved[x].qty \in Int /\ moved[x].qty = OnReceipts(sales, i)
      /\ posted[r][x].qty = IF Selling(r) THEN OnReceipt(sale[r], i, sale[r].at - 1) ELSE 0
  BY EntryFacts DEF Posts, Sold
<1> HIDE DEF x
<1>2. CASE sales' = sales /\ moved'[x].qty = moved[x].qty
  BY <1>1, <1>2 DEF x
<1>3. CASE Keeps(r)
  <2>1. moved'[x].qty = moved[x].qty + posted[r][x].qty
    BY <1>1, <1>3 DEF Keeps
  <2>2. CASE ~Selling(r) /\ sales' = sales
    BY <1>1, <1>2, <2>1, <2>2
  <2>3. CASE Selling(r) /\ pc[r] = "commit" /\ sales' = Append(sales, sale[r])
    <3>1. sale[r] \in Receipt /\ sale[r].at = Len(sale[r].lines) + 1 /\ sales \in Seq(Receipt)
      BY <1>0, <2>3 DEF At, SaleTypes
    <3>2. sale[r].at - 1 = Len(sale[r].lines)
      BY <3>1, LinesFacts
    <3>3. OnReceipts(sales', i) = OnReceipts(sales, i) + OnReceipt(sale[r], i, Len(sale[r].lines))
      BY <2>3, <3>1, NextReceipt
    <3> QED
      BY <1>1, <2>1, <2>3, <3>2, <3>3 DEF x
  <2> QED
    BY <1>3, <2>2, <2>3 DEF Keeps
<1> QED
  BY <1>1, <1>2, <1>3 DEF Motion, Quiet, Enters, Sale, Drops

-----------------------------------------------------------------------------
(* What tills may take.                                                    *)

\* Only the holder of the number is at the stock.
LEMMA OneTill ==
  ASSUME Receipts, Serial, OnlyTills, NEW r \in Req, NEW q \in Req,
         pc[q] \in {"upsert", "commit"}, pc[r] \in {"upsert", "commit"}
  PROVE  q = r /\ Selling(r)
<1>1. Selling(q) /\ Selling(r)
  BY DEF OnlyTills, Receipts, Stages, Selling
<1> QED
  BY <1>1 DEF Serial

LEMMA SeenRow ==
  ASSUME P!BookTypes, NEW q, NEW i \in Inv!Item
  PROVE  /\ Seen(stock, q)[i] = IF stock.lock[i] = q THEN stock.work[i] ELSE stock.now[i]
         /\ Seen(stock, q)[i].qty \in Int
         /\ stock.now[i].qty \in Int /\ stock.work[i].qty \in Int
<1>1. stock \in TableOf(Inv!Item, Inv!StockRow)
  BY StockParts
<1>2. stock.now[i] \in Inv!StockRow /\ stock.work[i] \in Inv!StockRow
  BY <1>1 DEF TableOf
<1>3. Seen(stock, q)[i] = IF stock.lock[i] = q THEN stock.work[i] ELSE stock.now[i]
  BY <1>1, SeenFacts
<1> QED
  BY <1>2, <1>3 DEF Inv!StockRow

LEMMA SeenRowNext ==
  ASSUME P!BookTypes', NEW q, NEW i \in Inv!Item
  PROVE  Seen(stock', q)[i] = IF stock'.lock[i] = q THEN stock'.work[i] ELSE stock'.now[i]
<1>1. stock' \in TableOf(Inv!Item, Inv!StockRow)
  BY StockFacts DEF P!BookTypes, P!TableOf, TableOf, P!Owner, Owner
<1> QED
  BY <1>1, SeenFacts

\* A step that leaves every till what it has read.
Spares(r) ==
  /\ \A i \in Inv!Item : stock'.now[i].qty >= 0 /\ stock'.work[i].qty >= 0
  /\ \A q \in Req \ {r} : pc[q] = "upsert" =>
       Seen(stock', q)[mv[q].item].qty = Seen(stock, q)[mv[q].item].qty
  /\ pc'[r] = "upsert" => Seen(stock', r)[mv'[r].item].qty >= mv'[r].qty

LEMMA NeverBelowStep ==
  ASSUME P!Books, P!Books', Receipts, Receipts', Serial, NeverBelow, NEW r \in Req,
         Start(r) \/ Step(r) \/ Abort(r), Motion(r)
  PROVE  NeverBelow'
<1> USE NobodyAssumption
<1>0. /\ P!BookTypes /\ P!BookTypes' /\ SaleTypes /\ Stages /\ At /\ Stages'
      /\ DOMAIN pc = Req /\ DOMAIN op = Req /\ DOMAIN mv = Req
  BY StockParts DEF P!Books, Receipts
<1> SUFFICES ASSUME OnlyTills'
             PROVE  /\ \A i \in Inv!Item : stock'.now[i].qty >= 0 /\ stock'.work[i].qty >= 0
                    /\ \A q \in Req : pc'[q] = "upsert" => Seen(stock', q)[mv'[q].item].qty >= mv'[q].qty
  BY DEF NeverBelow, Seen
<1>1. op'[r] = op[r] \/ pc[r] = "idle"
  <2>1. Start(r) => pc[r] = "idle"
    BY DEF Start, StartSale, WriteTerminal, Inv!Start, Inv!StartAdjust, Inv!StartTransfer
  <2>2. Step(r) \/ Abort(r) => op' = op
    BY DEF Step, Abort, nextDocumentNumber, NumberConflict, InsertSale, SellLine, SaleLogged,
       CommitSale, Inv!AdjustLogged, Inv!ReadSource, Inv!TransferOutLogged,
       Inv!TransferInLogged, Inv!CommitTransfer, Inv!Abort, stockVars
  <2> QED
    BY <2>1, <2>2
<1>2. OnlyTills
  BY <1>0, <1>1 DEF OnlyTills, Motion, Stages
<1>3. /\ \A i \in Inv!Item : stock.now[i].qty >= 0 /\ stock.work[i].qty >= 0
      /\ \A q \in Req : pc[q] = "upsert" => Seen(stock, q)[mv[q].item].qty >= mv[q].qty
  BY <1>2 DEF NeverBelow
<1>4. \A q \in Req : pc[q] \in {"find", "upsert", "log"} => mv[q] \in Inv!Movement /\ mv[q].item \in Inv!Item
                                         /\ mv[q].qty \in Int
  <2>1. \A q \in Req : pc[q] \in {"find", "upsert", "log"} => mv[q] \in P!Movement
    BY <1>0 DEF P!BookTypes
  <2>2. P!Movement = Inv!Movement
    BY StockFacts DEF P!Movement, Inv!Movement
  <2> QED
    BY <2>1, <2>2 DEF Inv!Movement
<1>5. ASSUME Spares(r)
      PROVE  /\ \A i \in Inv!Item : stock'.now[i].qty >= 0 /\ stock'.work[i].qty >= 0
             /\ \A q \in Req : pc'[q] = "upsert" => Seen(stock', q)[mv'[q].item].qty >= mv'[q].qty
  <2>1. \A q \in Req \ {r} : pc'[q] = pc[q] /\ mv'[q] = mv[q]
    BY DEF Motion
  <2> QED
    BY <1>3, <1>5, <2>1 DEF Spares
<1>6. CASE stock' = stock /\ pc'[r] # "upsert"
  BY <1>3, <1>5, <1>6 DEF Spares
<1>7. CASE Inv!FindStock(r)
  <2>1. /\ pc[r] = "find" /\ ~Inv!Refused(Inv!Seen(stock, r)[mv[r].item], mv[r])
        /\ UNCHANGED <<stock, mv>>
    BY <1>7 DEF Inv!FindStock
  <2>2. Selling(r) /\ mv[r].type = "SALE_OUT" /\ mv[r].item \in Inv!Item /\ mv[r].qty \in Int
    BY <1>0, <1>2, <1>4, <2>1 DEF OnlyTills, Stages, Selling, At, Sells
  <2>3. Inv!Seen(stock, r) = Seen(stock, r)
    BY DEF Inv!Seen, Seen
  <2>4. ~(Seen(stock, r)[mv[r].item].qty < mv[r].qty)
    BY <2>1, <2>2, <2>3 DEF Inv!Refused, Inv!Insufficient, Inv!isIncoming, Inv!INCOMING_TYPES
  <2>5. Seen(stock, r)[mv[r].item].qty \in Int
    BY <1>0, <2>2, SeenRow
  <2>6. Seen(stock, r)[mv[r].item].qty >= mv[r].qty
    BY <2>2, <2>4, <2>5
  <2> QED
    BY <1>3, <1>5, <2>1, <2>6 DEF Spares
<1>8. CASE Inv!UpsertStock(r)
  <2>1. pc[r] = "upsert"
    BY <1>8 DEF Inv!UpsertStock
  <2>2. Selling(r) /\ op[r] = "sale" /\ mv[r].type = "SALE_OUT" /\ mv[r].item \in Inv!Item /\ mv[r].qty \in Int
    BY <1>0, <1>2, <1>4, <2>1 DEF OnlyTills, Stages, Selling, At, Sells
  <2> DEFINE j == mv[r].item
             was == IF stock.lock[j] = r THEN stock.work[j].qty ELSE stock.now[j].qty
  <2>3. /\ \A i \in Inv!Item \ {j} : stock'.now[i] = stock.now[i] /\ stock'.work[i] = stock.work[i]
        /\ stock'.now[j] = stock.now[j]
        /\ stock'.work[j].qty = P!Signed(mv[r]) + was
        /\ pc' = [pc EXCEPT ![r] = "log"]
    <3>1. P!UpsertStock(r)
      BY <1>8, SameActions
    <3>2. P!InTransaction(r) /\ P!Item = Inv!Item
      BY <2>2, StockFacts DEF P!InTransaction
    <3> QED
      BY <3>1, <3>2, StockAssumptions, P!UpsertFacts
  <2>4. P!Signed(mv[r]) = -mv[r].qty
    BY <2>2 DEF P!Signed, P!isIncoming, P!INCOMING_TYPES
  <2>5. was >= mv[r].qty /\ was \in Int
    <3>1. Seen(stock, r)[j].qty = was /\ was \in Int
      BY <1>0, <2>2, SeenRow
    <3> QED
      BY <1>3, <2>1, <3>1
  <2> HIDE DEF was, j
  <2>6. stock'.work[j].qty >= 0
    BY <2>2, <2>3, <2>4, <2>5
  <2>7. \A q \in Req \ {r} : pc[q] # "upsert"
    BY <1>2, <2>1, OneTill
  <2>8. pc'[r] # "upsert"
    BY <1>0, <2>3
  <2> QED
    BY <1>3, <1>5, <2>3, <2>6, <2>7, <2>8 DEF Spares
<1>9. CASE Inv!DropStock(r) /\ pc'[r] # "upsert"
  <2>1. stock \in TableOf(Inv!Item, Inv!StockRow) /\ stock' = Rollback(stock, r)
    BY <1>0, <1>9, StockParts DEF Inv!DropStock, Inv!Rollback, Rollback, Inv!Unlocked, Unlocked
  <2>2. \A i \in Inv!Item :
          /\ stock'.now[i] = stock.now[i]
          /\ stock'.work[i] = IF stock.lock[i] = r THEN stock.now[i] ELSE stock.work[i]
          /\ stock'.lock[i] = IF stock.lock[i] = r THEN Nobody ELSE stock.lock[i]
    BY <2>1, RollbackFacts
  <2>3. ASSUME NEW q \in Req \ {r}, NEW i \in Inv!Item PROVE Seen(stock', q)[i] = Seen(stock, q)[i]
    BY <1>0, <2>2, SeenRow, SeenRowNext
  <2> QED
    BY <1>3, <1>4, <1>5, <1>9, <2>2, <2>3 DEF Spares
<1>10. CASE Inv!KeepStock(r) /\ pc[r] = "commit" /\ pc'[r] # "upsert"
  <2>1. stock \in TableOf(Inv!Item, Inv!StockRow) /\ stock' = Commit(stock, r)
    BY <1>0, <1>10, StockParts DEF Inv!KeepStock, Inv!Commit, Commit, Inv!Unlocked, Unlocked, Inv!Seen, Seen
  <2>2. \A i \in Inv!Item :
          /\ stock'.now[i] = IF stock.lock[i] = r THEN stock.work[i] ELSE stock.now[i]
          /\ stock'.work[i] = stock.work[i]
    BY <2>1, CommitFacts
  <2>3. \A q \in Req \ {r} : pc[q] # "upsert"
    BY <1>2, <1>10, OneTill
  <2> QED
    BY <1>3, <1>5, <1>10, <2>2, <2>3 DEF Spares
<1>11. \/ stock' = stock /\ pc'[r] # "upsert"
       \/ Inv!FindStock(r) \/ Inv!UpsertStock(r)
       \/ Inv!DropStock(r) /\ pc'[r] # "upsert"
       \/ Inv!KeepStock(r) /\ pc[r] = "commit" /\ pc'[r] # "upsert"
  <2>1. CASE AsideStep(r) \/ (Inv!Start(r) /\ UNCHANGED posVars)
             \/ Inv!ReadSource(r)
    BY <1>0, <2>1 DEF AsideStep, StartSale, WriteTerminal, nextDocumentNumber, InsertSale, SellLine,
       Inv!Start, Inv!StartAdjust, Inv!StartTransfer, Inv!ReadSource, stockVars, rowVars
  <2>2. CASE SaleLogged(r) \/ Inv!AdjustLogged(r) \/ Inv!TransferOutLogged(r) \/ Inv!TransferInLogged(r)
    <3>1. PICK l \in {"commit", "line", "ok", "find"} : Inv!LogMovement(r, l)
      BY <2>2 DEF SaleLogged, Inv!AdjustLogged, Inv!TransferOutLogged, Inv!TransferInLogged
    <3> QED
      BY <1>0, <3>1 DEF Inv!LogMovement
  <2>3. CASE CommitSale(r) \/ Inv!CommitTransfer(r)
    BY <1>0, <2>3 DEF CommitSale, Inv!CommitTransfer
  <2>4. CASE NumberConflict(r) \/ Inv!RefuseMovement(r) \/ Abort(r)
    BY <1>0, <2>4 DEF NumberConflict, Inv!RefuseMovement, Abort, Inv!Abort
  <2> QED
    BY <2>1, <2>2, <2>3, <2>4 DEF Start, Step, AsideStep
<1> QED
  BY <1>6, <1>7, <1>8, <1>9, <1>10, <1>11

-----------------------------------------------------------------------------
(* The invariant holds.                                                    *)

LEMMA SalesInit == Init => SalesInv
<1> SUFFICES ASSUME Init PROVE SalesInv
  OBVIOUS
<1> USE NobodyAssumption
<1>0. /\ stock = NewTable(Opening) /\ moved = Inv!NoPosting /\ mv = [r \in Req |-> <<>>]
      /\ posted = [r \in Req |-> Inv!NoPosting] /\ dest = [r \in Req |-> <<>>]
      /\ pc = [r \in Req |-> "idle"] /\ op = [r \in Req |-> "none"]
      /\ found = [r \in Req |-> Inv!NoRow]
      /\ terminals \in [Terminal -> Warehouse \cup {Nobody}]
      /\ numbers = NewSeries /\ sales = <<>> /\ number = [r \in Req |-> 0]
      /\ sale = [r \in Req |-> NoSale]
  BY DEF Init, Inv!Init, NewTable, Inv!NewTable
<1>1. P!Books
  <2>1. /\ stock = P!NewTable(Opening) /\ moved = P!NoPosting
        /\ posted = [r \in Req |-> P!NoPosting] /\ found = [r \in Req |-> P!NoRow]
    BY <1>0, StockFacts DEF NewTable, P!NewTable
  <2> QED
    BY <1>0, <2>1, StockAssumptions, P!BooksInit
<1>2. P!BookTypes
  BY <1>1 DEF P!Books
<1>3. Receipts
  <2>1. NoSale \in Receipt
    BY DEF NoSale, Receipt
  <2>2. SaleTypes
    BY <1>0, <2>1 DEF SaleTypes, Label, NewSeries, Series, Owner
  <2>3. Stages /\ At
    BY <1>0 DEF Stages, Ops, At, Selling
  <2> QED
    BY <2>2, <2>3 DEF Receipts
<1>4. Serial
  BY <1>0 DEF Serial, Selling
<1>5. Posts
  BY <1>0, <1>2, EntryFacts DEF Posts, Selling
<1>6. Sold
  BY <1>0, <1>2, EntryFacts, NoReceipts DEF Sold
<1>7. NeverBelow
  <2>1. stock.now = Opening /\ stock.work = Opening
    BY <1>0 DEF NewTable
  <2>2. \A i \in Inv!Item : Opening[i].qty \in Nat
    BY StockFacts
  <2> QED
    BY <1>0, <2>1, <2>2 DEF NeverBelow
<1> QED
  BY <1>1, <1>3, <1>4, <1>5, <1>6, <1>7 DEF SalesInv

LEMMA SalesStep ==
  ASSUME SalesInv, NEW r \in Req, Start(r) \/ Step(r) \/ Abort(r)
  PROVE  SalesInv'
<1>1. P!Books /\ P!BookTypes /\ Receipts /\ Serial /\ Posts /\ Sold /\ NeverBelow
  BY DEF SalesInv, P!Books
<1>2. P!Books'
  BY <1>1, BooksKept
<1>3. Receipts'
  BY <1>1, ReceiptsStep
<1>4. Motion(r)
  BY <1>1, MotionFacts
<1>5. Serial' /\ Posts' /\ Sold'
  BY <1>1, <1>4, SerialStep, PostsStep, SoldStep
<1>6. NeverBelow'
  BY <1>1, <1>2, <1>3, <1>4, NeverBelowStep
<1> QED
  BY <1>2, <1>3, <1>5, <1>6 DEF SalesInv

LEMMA SalesStutter == SalesInv /\ UNCHANGED vars => SalesInv'
<1> SUFFICES ASSUME SalesInv, UNCHANGED vars PROVE SalesInv'
  OBVIOUS
<1> USE DEF vars
<1>1. P!Books'
  <2>1. P!Books /\ UNCHANGED <<stock, moved, posted, pc, op, mv, found, dest>>
    BY DEF SalesInv
  <2> QED
    BY <2>1, StockAssumptions, P!BooksStutter
<1>2. Receipts'
  <2>1. SaleTypes' /\ Stages' /\ At'
    BY DEF SalesInv, Receipts, SaleTypes, Stages, At, Selling
  <2> QED
    BY <2>1 DEF Receipts
<1>3. Serial' /\ Posts'
  <2>1. \A r \in Req : Selling(r)' <=> Selling(r)
    BY DEF Selling
  <2>2. Serial'
    BY <2>1 DEF SalesInv, Serial
  <2>4. Posts'
    BY <2>1 DEF SalesInv, Posts, OnReceipt, LinesOf, Amounts
  <2> QED
    BY <2>2, <2>4
<1>4. Sold'
  <2> SUFFICES ASSUME NEW i \in Inv!Item
               PROVE  moved'[<<"SALE_OUT", i>>].qty = OnReceipts(sales', i)
    BY DEF Sold, OnReceipts, Sites
  <2> QED
    BY DEF SalesInv, Sold
<1>5. NeverBelow'
  BY DEF SalesInv, NeverBelow, OnlyTills, Seen
<1> QED
  BY <1>1, <1>2, <1>3, <1>4, <1>5 DEF SalesInv

LEMMA SalesInvariant == Spec => []SalesInv
<1>1. SalesInv /\ [Next]_vars => SalesInv'
  BY SalesStep, SalesStutter DEF Next
<1> QED
  BY <1>1, SalesInit, PTL DEF Spec

-----------------------------------------------------------------------------
(* The theorems.                                                           *)

\* The variables keep their types, whatever the requests do to each other.
THEOREM TypeCorrect == Spec => []TypeOK
<1>1. SalesInv => TypeOK
  BY TypesHold DEF SalesInv, P!Books, Receipts
<1> QED
  BY <1>1, SalesInvariant, PTL

\* The sum of the property, in the form the lemmas on sums are about.
LEMMA SoldIs ==
  ASSUME sales \in Seq(Receipt), NEW i
  PROVE  MapThenSumSet(
           LAMBDA x : sales[x[1]].lines[x[2]].qty,
           {x \in UNION {{<<n, k>> : k \in DOMAIN sales[n].lines} : n \in DOMAIN sales} :
              i = <<sales[x[1]].warehouse, sales[x[1]].lines[x[2]].product>>})
         = OnReceipts(sales, i)
<1> DEFINE S == Sites(sales, i)
           g == Values(sales, i)
           It(it) == it = [s \in SUBSET S |->
                             IF s = {} THEN 0
                             ELSE sales[(CHOOSE x \in s : TRUE)[1]].lines[(CHOOSE x \in s : TRUE)[2]].qty
                                    + it[s \ {CHOOSE x \in s : TRUE}]]
<1>1. \A it : It(it) <=> Iterates(it, g, S)
  <2>1. \A s \in SUBSET S : s # {} =>
          g[CHOOSE x \in s : TRUE] =
            sales[(CHOOSE x \in s : TRUE)[1]].lines[(CHOOSE x \in s : TRUE)[2]].qty
    BY DEF Values
  <2> HIDE DEF g, S
  <2> QED
    BY <2>1 DEF Iterates
<1>2. MapThenSumSet(
        LAMBDA x : sales[x[1]].lines[x[2]].qty,
        {x \in UNION {{<<n, k>> : k \in DOMAIN sales[n].lines} : n \in DOMAIN sales} :
           i = <<sales[x[1]].warehouse, sales[x[1]].lines[x[2]].product>>})
      = (CHOOSE it : It(it))[S]
  BY DEF Sites, MapThenSumSet, MapThenFoldSet
<1>3. IsFiniteSet(S) /\ \A x \in S : g[x] \in Int
  BY SitesFacts
<1> HIDE DEF It, S, g
<1>4. It(CHOOSE it : It(it))
  BY <1>1, <1>3, FoldIs
<1>5. (CHOOSE it : It(it))[S] = SumOf(g, S)
  BY <1>1, <1>3, <1>4, FoldIs
<1> QED
  BY <1>2, <1>5 DEF OnReceipts, Values, g, S

\* What the committed receipts sold is what left the stock by sales, and stock and
\* ledger agree: a sale posts the lines before the one it is at, and commits its
\* receipt with what it posted (pos.service.ts:172-226).
THEOREM ReceiptsMatchStock == Spec => []SalesMatchStock
<1>1. ASSUME SalesInv PROVE SalesMatchStock
  <2>1. P!Reconciled
    BY <1>1, StockAssumptions, P!BooksReconcile DEF SalesInv
  <2>2. Inv!Reconciled
    BY <2>1 DEF Inv!Reconciled, P!Reconciled, Inv!Item, P!Item,
       Inv!Net, P!Net, Inv!Unlogged, P!Unlogged, Inv!Signed, P!Signed,
       Inv!isIncoming, P!isIncoming, Inv!INCOMING_TYPES, P!INCOMING_TYPES,
       Inv!MapThenSumSet, P!MapThenSumSet, Inv!MapThenFoldSet, P!MapThenFoldSet
  <2>3. sales \in Seq(Receipt) /\ Sold
    BY <1>1 DEF SalesInv, Receipts, SaleTypes
  <2> QED
    BY <2>2, <2>3, SoldIs DEF SalesMatchStock, Sold
<1> QED
  BY <1>1, SalesInvariant, PTL

\* While only tills take from the stock none sells what is not there: the number a
\* sale holds keeps every other sale from the stock until it is committed, so what
\* its check has read is still so when it writes (pos.service.ts:173, 209).
THEOREM NoOversale == Spec => []TillsNeverOversell
<1>1. SalesInv => TillsNeverOversell
  BY DEF SalesInv, NeverBelow, TillsNeverOversell
<1> QED
  BY <1>1, SalesInvariant, PTL
=============================================================================
