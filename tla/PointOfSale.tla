----------------------------- MODULE PointOfSale ----------------------------
(***************************************************************************)
(* apps/api/src/modules/pos/pos.service.ts and the inventory it sells      *)
(* from.  createSale resolves the terminal, prices and totals outside any  *)
(* transaction; the transaction then takes the next POS number, inserts    *)
(* the receipt and calls applyMovement (SALE_OUT) for each line in turn.   *)
(***************************************************************************)
EXTENDS Integers, Sequences, FiniteSetsExt, Postgres

CONSTANTS Warehouse, Product, Quantity, UnitCost, Opening, NoCost,  \* see Inventory
          Terminal,   \* the POS terminals of the company
          Basket,     \* the dto.lines a sale may carry, at least one
          Tender      \* the amounts a customer may hand over

LineItem == [product : Product, qty : Nat \ {0}, price : Nat]

ASSUME BasketAssumption ==
  /\ Basket \subseteq Seq(LineItem) \ {<<>>}
  /\ Tender \subseteq Nat

VARIABLES
  stock, moved, posted, pc, op, mv, found, dest,   \* see Inventory
  terminals,  \* the table pos_terminals: the warehouse each sells from, or Nobody
  numbers,    \* the POS numbers
  sales,      \* the committed pos_transactions, in the order of their numbers
  number,     \* the number a request has computed
  sale        \* the receipt it writes, and the line it is at

rowVars == <<stock, moved, posted>>
stockVars == <<stock, moved, posted, op, mv, found, dest>>
posVars == <<terminals, numbers, sales, number, sale>>
vars == <<stock, moved, posted, pc, op, mv, found, dest,
          terminals, numbers, sales, number, sale>>

Inv == INSTANCE Inventory

ASSUME StockAssumption ==
  /\ Quantity \subseteq Nat \ {0}
  /\ UnitCost \subseteq Nat
  /\ Opening \in [Inv!Item -> [qty : Nat, cost : Nat]]
  /\ NoCost \notin Int

\* Bound: finitely many warehouses.
ASSUME FiniteAssumption == IsFiniteSet(Warehouse)

NoSale == [lines |-> <<>>, warehouse |-> Nobody, at |-> 0]

Total(lines) == MapThenSumSet(LAMBDA k : lines[k].qty * lines[k].price, DOMAIN lines)

-----------------------------------------------------------------------------
\* The terminal is found, and what is tendered covers the total; otherwise
\* nothing is written.
StartSale(r, t, lines, tendered) ==
  /\ pc[r] = "idle" /\ terminals[t] # Nobody
  /\ op' = [op EXCEPT ![r] = "sale"]
  /\ IF tendered < Total(lines)
       THEN pc' = [pc EXCEPT ![r] = "refused"] /\ UNCHANGED sale
       ELSE /\ pc' = [pc EXCEPT ![r] = "number"]
            /\ sale' = [sale EXCEPT ![r] =
                          [lines |-> lines, warehouse |-> terminals[t], at |-> 1]]
  /\ UNCHANGED <<rowVars, mv, found, dest, terminals, numbers, sales, number>>

\* Mutant: the number is computed from one row too few.
nextDocumentNumberShort(r) ==
  /\ pc[r] = "number"
  /\ number' = [number EXCEPT ![r] = numbers.rows - 1]
  /\ pc' = [pc EXCEPT ![r] = "insert"]
  /\ UNCHANGED <<stockVars, terminals, numbers, sales, sale>>

nextDocumentNumber(r) ==
  /\ pc[r] = "number"
  /\ number' = [number EXCEPT ![r] = numbers.rows + 1]
  /\ pc' = [pc EXCEPT ![r] = "insert"]
  /\ UNCHANGED <<stockVars, terminals, numbers, sales, sale>>

DropSale(r) ==
  /\ numbers' = RollbackSeries(numbers, r)
  /\ UNCHANGED <<terminals, sales, number, sale>>

\* @@unique([companyId, transactionNumber]).
NumberConflict(r) ==
  /\ pc[r] = "insert" /\ Taken(numbers, number[r])
  /\ pc' = [pc EXCEPT ![r] = "refused"]
  /\ Inv!DropStock(r)
  /\ DropSale(r)
  /\ UNCHANGED <<op, dest>>

\* Mutant: numbers come from a sequence, so that no sale waits for another's.
InsertFromSequence(r) ==
  /\ pc[r] = "insert"
  /\ numbers' = [numbers EXCEPT !.rows = @ + 1]
  /\ pc' = [pc EXCEPT ![r] = "line"]
  /\ UNCHANGED <<stockVars, terminals, sales, number, sale>>

InsertSale(r) ==
  /\ pc[r] = "insert" /\ Insertable(numbers, number[r])
  /\ numbers' = Insert(numbers, r)
  /\ pc' = [pc EXCEPT ![r] = "line"]
  /\ UNCHANGED <<stockVars, terminals, sales, number, sale>>

SellLine(r) ==
  LET line == sale[r].lines[sale[r].at]
  IN  /\ pc[r] = "line"
      /\ mv' = [mv EXCEPT ![r] =
                  [type |-> "SALE_OUT", item |-> <<sale[r].warehouse, line.product>>,
                   qty |-> line.qty, cost |-> NoCost]]
      /\ pc' = [pc EXCEPT ![r] = "find"]
      /\ UNCHANGED <<rowVars, op, found, dest, posVars>>

\* Mutant: the loop over the lines ends one line early.
SaleLoggedShort(r) ==
  /\ op[r] = "sale"
  /\ Inv!LogMovement(r, IF sale[r].at >= Len(sale[r].lines) - 1 THEN "commit" ELSE "line")
  /\ sale' = [sale EXCEPT ![r].at = @ + 1]
  /\ UNCHANGED <<op, mv, dest, terminals, numbers, sales, number>>

SaleLogged(r) ==
  /\ op[r] = "sale"
  /\ Inv!LogMovement(r, IF sale[r].at = Len(sale[r].lines) THEN "commit" ELSE "line")
  /\ sale' = [sale EXCEPT ![r].at = @ + 1]
  /\ UNCHANGED <<op, mv, dest, terminals, numbers, sales, number>>

CommitSale(r) ==
  /\ pc[r] = "commit" /\ op[r] = "sale"
  /\ Inv!KeepStock(r)
  /\ numbers' = CommitSeries(numbers, r)
  /\ sales' = Append(sales, sale[r])
  /\ pc' = [pc EXCEPT ![r] = "ok"]
  /\ UNCHANGED <<op, dest, terminals, number, sale>>

\* createTerminal, and updateTerminal, which may move a terminal to another
\* warehouse.
WriteTerminal(r, t, w) ==
  /\ pc[r] = "idle"
  /\ op' = [op EXCEPT ![r] = "terminal"]
  /\ terminals' = [terminals EXCEPT ![t] = w]
  /\ pc' = [pc EXCEPT ![r] = "ok"]
  /\ UNCHANGED <<rowVars, mv, found, dest, numbers, sales, number, sale>>

-----------------------------------------------------------------------------
Start(r) ==
  \/ \E t \in Terminal, lines \in Basket, tendered \in Tender :
       StartSale(r, t, lines, tendered)
  \/ \E t \in Terminal, w \in Warehouse : WriteTerminal(r, t, w)
  \/ Inv!Start(r) /\ UNCHANGED posVars

Step(r) ==
  \/ nextDocumentNumber(r) \/ NumberConflict(r) \/ InsertSale(r)
  \/ SellLine(r) \/ SaleLogged(r) \/ CommitSale(r)
  \/ (Inv!FindStock(r) \/ Inv!UpsertStock(r)) /\ UNCHANGED <<op, dest, posVars>>
  \/ Inv!RefuseMovement(r) /\ DropSale(r) /\ UNCHANGED <<op, dest>>
  \/ /\ \/ Inv!AdjustLogged(r) \/ Inv!ReadSource(r)
        \/ Inv!TransferOutLogged(r) \/ Inv!TransferInLogged(r)
        \/ Inv!CommitTransfer(r)
     /\ UNCHANGED posVars

Abort(r) == Inv!Abort(r) /\ DropSale(r)

Init ==
  /\ Inv!Init
  /\ terminals \in [Terminal -> Warehouse \cup {Nobody}]
  /\ numbers = NewSeries
  /\ sales = <<>>
  /\ number = [r \in Req |-> 0]
  /\ sale = [r \in Req |-> NoSale]

Next == \E r \in Req : Start(r) \/ Step(r) \/ Abort(r)

Spec == Init /\ [][Next]_vars

\* A request waits for a row (Inventory), or a sale for another one's number.
Waiting(r) ==
  \/ Inv!Waiting(r)
  \/ pc[r] = "insert" /\ ~Taken(numbers, number[r]) /\ ~Insertable(numbers, number[r])

\* Mutant: no time limit.
NoTimeOut(r) == FALSE

\* The handlers' own steps are taken while they can be, and an open transaction
\* that waits is ended by the 5 s limit of Prisma's interactive transactions.
TimeOut(r) == Inv!InTransaction(r) /\ Waiting(r) /\ Abort(r)

FairSpec == Spec /\ \A r \in Req : WF_vars(Step(r)) /\ WF_vars(TimeOut(r))

-----------------------------------------------------------------------------
(* Properties.                                                             *)

\* The variables keep their types.
TypeOK ==
  /\ stock \in TableOf(Inv!Item, Inv!StockRow)
  /\ moved \in Inv!Ledger /\ posted \in [Req -> Inv!Ledger]
  /\ pc \in [Req -> {"idle", "number", "insert", "line", "find", "upsert", "log",
                     "source", "commit"} \cup Inv!Answered]
  /\ terminals \in [Terminal -> Warehouse \cup {Nobody}]
  /\ numbers \in Series
  /\ number \in [Req -> Nat]

\* The stock, the ledger and the receipts agree: what the committed POS receipts
\* sold of an item is what left it by SALE_OUT movements, and (Inventory's
\* Reconciled) stock and ledger agree, though any line of a sale may be refused
\* for lack of stock, time out or lose the race for its number
\* (pos.service.ts:172-226).
SalesMatchStock ==
  /\ Inv!Reconciled
  /\ \A i \in Inv!Item :
       moved[<<"SALE_OUT", i>>].qty =
         MapThenSumSet(
           LAMBDA x : sales[x[1]].lines[x[2]].qty,
           {x \in UNION {{<<n, k>> : k \in DOMAIN sales[n].lines} : n \in DOMAIN sales} :
              i = <<sales[x[1]].warehouse, sales[x[1]].lines[x[2]].product>>})

\* While only tills take from the stock, none sells what is not there.  The stock
\* check reads without a lock, as in every handler; tills are safe because each
\* inserts its number before it reads the stock, so that of two overlapping sales
\* one is thrown out (pos.service.ts:173, 209; inventory.service.ts:82).
OnlyTills == \A r \in Req : op[r] \in {"none", "sale", "terminal"}

TillsNeverOversell ==
  OnlyTills => \A i \in Inv!Item : stock.now[i].qty >= 0

\* Every request is answered in the end, though sales wait for each other's
\* numbers and, with transfers, for rows.
EveryRequestAnswered ==
  \A r \in Req : pc[r] # "idle" ~> pc[r] \in Inv!Answered
=============================================================================
