------------------------------ MODULE Inventory -----------------------------
(***************************************************************************)
(* apps/api/src/modules/inventory/inventory.service.ts: the stock of each  *)
(* product in each warehouse, the ledger of stock movements, and the       *)
(* handlers that write them.  applyMovement is a read (FindStock), a check *)
(* and a cost computed from what was read, then two writes (UpsertStock,   *)
(* LogMovement); adjust calls it outside any transaction, transfer twice   *)
(* inside one.  Other handlers run between any two of these steps.         *)
(*                                                                         *)
(* The modules of the documents that move stock (SalesOrders,              *)
(* PurchaseOrders, PointOfSale) extend this one and use its applyMovement. *)
(***************************************************************************)
EXTENDS Integers, FiniteSetsExt, Postgres

CONSTANTS Warehouse, Product,
          Quantity,     \* the quantities a request may ask for
          UnitCost,     \* the unit costs a request may give
          Opening,      \* the stock_items rows at the start
          NoCost        \* an ApplyMovementInput without a unitCost

Item == Warehouse \X Product

ASSUME InputAssumption ==
  /\ Quantity \subseteq Nat \ {0}
  /\ UnitCost \subseteq Nat
  /\ Opening \in [Item -> [qty : Nat, cost : Nat]]
  /\ NoCost \notin Int

ASSUME WarehouseAssumption == IsFiniteSet(Warehouse)

\* The members of StockMovementType that some handler writes.
MovementType == {"PURCHASE_IN", "SALE_OUT", "ADJUSTMENT_IN", "ADJUSTMENT_OUT",
                 "TRANSFER_IN", "TRANSFER_OUT"}

INCOMING_TYPES == {"PURCHASE_IN", "ADJUSTMENT_IN", "TRANSFER_IN",
                   "PRODUCTION_IN", "RETURN_IN"}

Movement == [type : MovementType, item : Item, qty : Int, cost : Int \cup {NoCost}]

StockRow == [qty : Int, cost : Int]

NoRow == [qty |-> 0, cost |-> 0]

VARIABLES
  stock,    \* the table stock_items (quantityOnHand, averageCost)
  moved,    \* the committed stock_movements, summed by type and item
  posted,   \* those each request's open transaction has inserted
  pc,       \* where each request's handler is
  op,       \* the handler it runs
  mv,       \* the argument of its current call of applyMovement
  found,    \* the stock_items row that call has read
  dest      \* the item a transfer brings stock to

vars == <<stock, moved, posted, pc, op, mv, found, dest>>

-----------------------------------------------------------------------------
(* The ledger: for each type and item, total quantity and total value.     *)

Ledger == [MovementType \X Item -> [qty : Int, value : Int]]

NoPosting == [x \in MovementType \X Item |-> [qty |-> 0, value |-> 0]]

Post(m, x, q, c) ==
  [m EXCEPT ![x] = [qty |-> @.qty + q, value |-> @.value + q * c]]

Merge(m, p) == [x \in MovementType \X Item |->
                  [qty   |-> m[x].qty + p[x].qty,
                   value |-> m[x].value + p[x].value]]

\* What the movements of ledger m add to the stock of item i.
Net(m, i) ==
  (m[<<"PURCHASE_IN", i>>].qty + m[<<"ADJUSTMENT_IN", i>>].qty
     + m[<<"TRANSFER_IN", i>>].qty)
  - (m[<<"SALE_OUT", i>>].qty + m[<<"ADJUSTMENT_OUT", i>>].qty
     + m[<<"TRANSFER_OUT", i>>].qty)

-----------------------------------------------------------------------------
(* applyMovement.                                                          *)

isIncoming(type) == type \in INCOMING_TYPES

Signed(m) == IF isIncoming(m.type) THEN m.qty ELSE -m.qty

\* Costs are kept in units of the column's last decimal: Decimal(18, 4) rounds
\* half away from zero.
Rounded(n, d) == IF n >= 0 THEN (2 * n + d) \div (2 * d)
                           ELSE -((d - 2 * n) \div (2 * d))

\* The averageCost computed from the row that was read; a transfer may carry a
\* negative cost, which leaves the average as it was.
MovingAverage(row, m) ==
  IF isIncoming(m.type) /\ m.cost # NoCost /\ m.cost >= 0
    THEN IF row.qty + m.qty > 0
           THEN Rounded(row.qty * row.cost + m.qty * m.cost, row.qty + m.qty)
           ELSE m.cost
    ELSE row.cost

Insufficient(row, m) == ~isIncoming(m.type) /\ row.qty < m.qty

Refused(row, m) == m.qty <= 0 \/ Insufficient(row, m)

\* The upsert: the quantity is incremented in the row as it is now, the average
\* is the one computed earlier.
Upserted(row, m, avg) ==
  [qty  |-> row.qty + Signed(m),
   cost |-> IF isIncoming(m.type) /\ m.cost # NoCost THEN avg ELSE row.cost]

\* The unitCost written with the movement.
LoggedCost(row, m) == IF m.cost # NoCost THEN m.cost
                      ELSE IF isIncoming(m.type) THEN 0 ELSE row.cost

InTransaction(r) == op[r] # "adjust"

\* applyMovement reads the row and goes on.
FindStock(r) ==
  /\ pc[r] = "find"
  /\ ~Refused(Seen(stock, r)[mv[r].item], mv[r])
  /\ found' = [found EXCEPT ![r] = Seen(stock, r)[mv[r].item]]
  /\ pc' = [pc EXCEPT ![r] = "upsert"]
  /\ UNCHANGED <<stock, moved, posted, mv>>

\* Mutant: no transaction, so that what was written stays written.
DropNothing(r) ==
  /\ stock' = Commit(stock, r)
  /\ moved' = Merge(moved, posted[r])
  /\ posted' = [posted EXCEPT ![r] = NoPosting]
  /\ found' = [found EXCEPT ![r] = NoRow]
  /\ UNCHANGED mv

\* End request r's transaction without any of its writes.
DropStock(r) ==
  /\ stock' = Rollback(stock, r)
  /\ posted' = [posted EXCEPT ![r] = NoPosting]
  /\ found' = [found EXCEPT ![r] = NoRow]
  /\ UNCHANGED <<moved, mv>>

\* ... and with all of them.
KeepStock(r) ==
  /\ stock' = Commit(stock, r)
  /\ moved' = Merge(moved, posted[r])
  /\ posted' = [posted EXCEPT ![r] = NoPosting]
  /\ UNCHANGED <<mv, found>>

\* applyMovement throws: the transaction around it is rolled back.
RefuseMovement(r) ==
  /\ pc[r] = "find"
  /\ Refused(Seen(stock, r)[mv[r].item], mv[r])
  /\ pc' = [pc EXCEPT ![r] = "refused"]
  /\ DropStock(r)

\* Mutant: the new quantity is computed from the row read earlier.
UpsertStale(r) ==
  LET i   == mv[r].item
      row == Upserted(found[r], mv[r], MovingAverage(found[r], mv[r]))
  IN  /\ pc[r] = "upsert"
      /\ Writable(stock, r, i)
      /\ stock' = IF InTransaction(r) THEN Put(stock, r, i, row)
                                      ELSE Save(stock, i, row)
      /\ pc' = [pc EXCEPT ![r] = "log"]
      /\ UNCHANGED <<moved, posted, mv, found>>

\* Mutant: the upsert is never part of the caller's transaction.
UpsertOutside(r) ==
  LET i   == mv[r].item
      row == Upserted(stock.now[i], mv[r], MovingAverage(found[r], mv[r]))
  IN  /\ pc[r] = "upsert"
      /\ Writable(stock, r, i)
      /\ stock' = Save(stock, i, row)
      /\ pc' = [pc EXCEPT ![r] = "log"]
      /\ UNCHANGED <<moved, posted, mv, found>>

UpsertStock(r) ==
  LET i   == mv[r].item
      row == Upserted(Seen(stock, r)[i], mv[r], MovingAverage(found[r], mv[r]))
  IN  /\ pc[r] = "upsert"
      /\ Writable(stock, r, i)
      /\ stock' = IF InTransaction(r) THEN Put(stock, r, i, row)
                                      ELSE Save(stock, i, row)
      /\ pc' = [pc EXCEPT ![r] = "log"]
      /\ UNCHANGED <<moved, posted, mv, found>>

\* stockMovement.create, then whatever the caller does next.
LogMovement(r, next) ==
  LET x == <<mv[r].type, mv[r].item>>
      c == LoggedCost(found[r], mv[r])
  IN  /\ pc[r] = "log"
      /\ IF InTransaction(r)
           THEN /\ posted' = [posted EXCEPT ![r] = Post(@, x, mv[r].qty, c)]
                /\ UNCHANGED moved
           ELSE /\ moved' = Post(moved, x, mv[r].qty, c)
                /\ UNCHANGED posted
      /\ pc' = [pc EXCEPT ![r] = next]
      /\ found' = [found EXCEPT ![r] = NoRow]
      /\ UNCHANGED stock

-----------------------------------------------------------------------------
(* adjust.                                                                 *)

\* The request passes assertProductAndWarehouse and calls applyMovement.
StartAdjust(r, i, type, q, c) ==
  /\ pc[r] = "idle"
  /\ pc' = [pc EXCEPT ![r] = "find"]
  /\ op' = [op EXCEPT ![r] = "adjust"]
  /\ mv' = [mv EXCEPT ![r] = [type |-> type, item |-> i, qty |-> q, cost |-> c]]
  /\ UNCHANGED <<stock, moved, posted, found, dest>>

AdjustLogged(r) ==
  /\ op[r] = "adjust"
  /\ LogMovement(r, "ok")
  /\ UNCHANGED <<op, mv, dest>>

-----------------------------------------------------------------------------
(* transfer.                                                               *)

\* Mutant: the destination is not remembered.
StartTransferLost(r, from, to, p, q) ==
  /\ pc[r] = "idle"
  /\ from # to
  /\ pc' = [pc EXCEPT ![r] = "source"]
  /\ op' = [op EXCEPT ![r] = "transfer"]
  /\ mv' = [mv EXCEPT ![r] = [type |-> "TRANSFER_OUT", item |-> <<from, p>>,
                              qty |-> q, cost |-> NoCost]]
  /\ UNCHANGED <<stock, moved, posted, found, dest>>

\* The two warehouses differ and exist; the transaction opens.
StartTransfer(r, from, to, p, q) ==
  /\ pc[r] = "idle"
  /\ from # to
  /\ pc' = [pc EXCEPT ![r] = "source"]
  /\ op' = [op EXCEPT ![r] = "transfer"]
  /\ mv' = [mv EXCEPT ![r] = [type |-> "TRANSFER_OUT", item |-> <<from, p>>,
                              qty |-> q, cost |-> NoCost]]
  /\ dest' = [dest EXCEPT ![r] = <<to, p>>]
  /\ UNCHANGED <<stock, moved, posted, found>>

\* It reads the source's average cost, which both movements carry, and inserts
\* the stockTransfer row.
ReadSource(r) ==
  /\ pc[r] = "source"
  /\ mv' = [mv EXCEPT ![r].cost = Seen(stock, r)[mv[r].item].cost]
  /\ pc' = [pc EXCEPT ![r] = "find"]
  /\ UNCHANGED <<stock, moved, posted, op, found, dest>>

\* Mutant: the second movement does not carry the unit cost of the first.
TransferOutUncosted(r) ==
  /\ op[r] = "transfer" /\ mv[r].type = "TRANSFER_OUT"
  /\ LogMovement(r, "find")
  /\ mv' = [mv EXCEPT ![r].type = "TRANSFER_IN", ![r].item = dest[r],
                      ![r].cost = NoCost]
  /\ UNCHANGED <<op, dest>>

TransferOutLogged(r) ==
  /\ op[r] = "transfer" /\ mv[r].type = "TRANSFER_OUT"
  /\ LogMovement(r, "find")
  /\ mv' = [mv EXCEPT ![r].type = "TRANSFER_IN", ![r].item = dest[r]]
  /\ UNCHANGED <<op, dest>>

TransferInLogged(r) ==
  /\ op[r] = "transfer" /\ mv[r].type = "TRANSFER_IN"
  /\ LogMovement(r, "commit")
  /\ UNCHANGED <<op, mv, dest>>

CommitTransfer(r) ==
  /\ pc[r] = "commit" /\ op[r] = "transfer"
  /\ KeepStock(r)
  /\ pc' = [pc EXCEPT ![r] = "ok"]
  /\ UNCHANGED <<op, dest>>

-----------------------------------------------------------------------------
(* Requests and failures.                                                  *)

Answered == {"ok", "refused", "aborted", "unlogged"}

InFlight(r) == pc[r] \notin Answered \cup {"idle"}

\* A statement fails (the server or its database connection goes away, a
\* deadlock is broken, the 5 s limit of Prisma's interactive transactions
\* passes): a transaction is rolled back, a write outside one stays.  The answer
\* "unlogged" tells apart the adjustment cut between its two writes.
Abort(r) ==
  /\ InFlight(r)
  /\ pc' = [pc EXCEPT ![r] = IF ~InTransaction(r) /\ pc[r] = "log"
                               THEN "unlogged" ELSE "aborted"]
  /\ DropStock(r)
  /\ UNCHANGED <<op, dest>>

\* An open transaction waits for a row; only Prisma's 5 s limit ends some waits.
Waiting(r) == pc[r] = "upsert" /\ ~Writable(stock, r, mv[r].item)

Start(r) ==
  \/ \E i \in Item, q \in Quantity :
       \E type \in {"ADJUSTMENT_IN", "ADJUSTMENT_OUT"}, c \in UnitCost \cup {NoCost} :
         StartAdjust(r, i, type, q, c)
  \/ \E from, to \in Warehouse, p \in Product, q \in Quantity :
       StartTransfer(r, from, to, p, q)

Step(r) ==
  \/ (FindStock(r) \/ RefuseMovement(r) \/ UpsertStock(r)) /\ UNCHANGED <<op, dest>>
  \/ AdjustLogged(r)
  \/ ReadSource(r) \/ TransferOutLogged(r) \/ TransferInLogged(r)
  \/ CommitTransfer(r)

Init ==
  /\ stock = NewTable(Opening)
  /\ moved = NoPosting
  /\ posted = [r \in Req |-> NoPosting]
  /\ pc = [r \in Req |-> "idle"]
  /\ op = [r \in Req |-> "none"]
  /\ mv = [r \in Req |-> <<>>]
  /\ found = [r \in Req |-> NoRow]
  /\ dest = [r \in Req |-> <<>>]

Next == \E r \in Req : Start(r) \/ Step(r) \/ Abort(r)

Spec == Init /\ [][Next]_vars

-----------------------------------------------------------------------------
(* Properties.                                                             *)

Label == {"idle", "source", "find", "upsert", "log", "commit"} \cup Answered

\* The variables keep their types; a request past "idle" has its arguments.
TypeOK ==
  /\ stock \in TableOf(Item, StockRow)
  /\ moved \in Ledger
  /\ posted \in [Req -> Ledger]
  /\ pc \in [Req -> Label]
  /\ op \in [Req -> {"none", "adjust", "transfer"}]
  /\ found \in [Req -> StockRow]
  /\ \A r \in Req : pc[r] # "idle" =>
       /\ op[r] # "none"
       /\ mv[r] \in Movement
       /\ op[r] = "transfer" => dest[r] \in Item

\* Adjustments of item i that changed the stock and (still) have no movement.
Unlogged(i) == {r \in Req : /\ op[r] = "adjust" /\ pc[r] \in {"log", "unlogged"}
                            /\ mv[r].item = i}

\* At every instant, whatever interleaves and whichever handlers fail, the
\* committed on-hand quantity of an item is its opening quantity plus what the
\* committed movements add, plus the adjustments cut between their two writes:
\* `increment` loses no update (inventory.service.ts:113) and a transaction
\* leaves neither a stock change without its movement nor the reverse.
Reconciled ==
  \A i \in Item :
    stock.now[i].qty = Opening[i].qty + Net(moved, i)
                       + MapThenSumSet(LAMBDA r : Signed(mv[r]), Unlogged(i))

\* Goods in transfer are in exactly one warehouse: for each product, what the
\* committed TRANSFER_OUT movements take out of all warehouses the committed
\* TRANSFER_IN movements put in, at the same total value (the two calls of
\* transfer share a unit cost and a transaction).
TransfersBalance ==
  \A p \in Product :
    LET Total(type, Of(_)) ==
          MapThenSumSet(LAMBDA w : Of(moved[<<type, <<w, p>>>>]), Warehouse)
    IN  /\ Total("TRANSFER_IN", LAMBDA m : m.qty) = Total("TRANSFER_OUT", LAMBDA m : m.qty)
        /\ Total("TRANSFER_IN", LAMBDA m : m.value) = Total("TRANSFER_OUT", LAMBDA m : m.value)

-----------------------------------------------------------------------------
(* What the code's own words promise, and its steps do not keep.           *)

\* "updates the on-hand quantity plus the moving average cost for incoming
\* movements" (inventory.service.ts:54): once every request is answered and none
\* was cut short, an item that only received adjustments with a unit cost is
\* worth what its movements brought, up to the rounding of each.
OnlyCostedReceipts(i) ==
  \A r \in Req : mv[r] # <<>> /\ mv[r].item = i =>
    mv[r].type = "ADJUSTMENT_IN" /\ mv[r].cost # NoCost /\ pc[r] = "ok"

AverageIsWeighted ==
  \A i \in Item :
    (\A r \in Req : ~InFlight(r)) /\ OnlyCostedReceipts(i) =>
      LET row   == stock.now[i]
          value == Opening[i].qty * Opening[i].cost
                   + moved[<<"ADJUSTMENT_IN", i>>].value
      IN  2 * (row.qty * row.cost - value) \in
            (-(row.qty * Cardinality(Req))) .. (row.qty * Cardinality(Req))

-----------------------------------------------------------------------------
(* The stock book (module StockBook) this module implements.               *)

Pending == {[id |-> r, item |-> mv[r].item, n |-> Signed(mv[r])] :
              r \in {x \in Req : op[x] = "adjust" /\ pc[x] \in {"log", "unlogged"}}}

Book == INSTANCE StockBook
          WITH onHand  <- [i \in Item |-> stock.now[i].qty],
               book    <- [i \in Item |-> Opening[i].qty + Net(moved, i)],
               pending <- Pending

BookSpec == Book!Spec
=============================================================================
