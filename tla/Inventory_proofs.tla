--------------------------- MODULE Inventory_proofs -------------------------
(***************************************************************************)
(* Theorems about Inventory, for every number of requests, warehouses and  *)
(* products and every quantity and cost.                                   *)
(*                                                                         *)
(* Part 1, the books, is about applyMovement alone: whoever calls it, a    *)
(* transaction has changed a row by what it has posted for the item, plus  *)
(* the movement it is about to log; and the committed stock is what the    *)
(* committed movements say, plus the adjustments that have no movement     *)
(* yet.  It assumes nothing of the caller but that it holds stock rows     *)
(* only at the stages named in Holding, so the proofs of the modules that  *)
(* extend Inventory use it too.                                            *)
(*                                                                         *)
(* Part 2 is about the handlers of Inventory: type correctness, the        *)
(* reconciliation, the balance of the transfers, and that the handlers,    *)
(* however they interleave and fail, implement the stock book.             *)
(***************************************************************************)
EXTENDS Inventory, Shared_proofs

Sign(type, q) == IF isIncoming(type) THEN q ELSE -q

-----------------------------------------------------------------------------
(* The ledger.                                                             *)

LEMMA TypesSign ==
  /\ {"PURCHASE_IN", "ADJUSTMENT_IN", "TRANSFER_IN",
      "SALE_OUT", "ADJUSTMENT_OUT", "TRANSFER_OUT"} = MovementType
  /\ isIncoming("PURCHASE_IN") /\ isIncoming("ADJUSTMENT_IN") /\ isIncoming("TRANSFER_IN")
  /\ ~isIncoming("SALE_OUT") /\ ~isIncoming("ADJUSTMENT_OUT") /\ ~isIncoming("TRANSFER_OUT")
BY DEF MovementType, isIncoming, INCOMING_TYPES

\* Posting changes one entry of the ledger.
LEMMA PostFacts ==
  ASSUME NEW m \in Ledger, NEW x \in MovementType \X Item, NEW q \in Int, NEW c \in Int
  PROVE  /\ Post(m, x, q, c) \in Ledger
         /\ \A y \in MovementType \X Item :
              /\ Post(m, x, q, c)[y].qty = IF y = x THEN m[y].qty + q ELSE m[y].qty
              /\ Post(m, x, q, c)[y].value = IF y = x THEN m[y].value + q * c ELSE m[y].value
<1>1. q * c \in Int
  OBVIOUS
<1>2. m[x].qty + q \in Int /\ m[x].value + q * c \in Int
  BY <1>1 DEF Ledger
<1> DEFINE e == [qty |-> m[x].qty + q, value |-> m[x].value + q * c]
<1>3. e \in [qty : Int, value : Int] /\ e.qty = m[x].qty + q /\ e.value = m[x].value + q * c
  BY <1>2
<1>4. Post(m, x, q, c) = [m EXCEPT ![x] = e]
  BY DEF Post
<1> HIDE DEF e
<1> QED
  BY <1>3, <1>4 DEF Ledger

LEMMA NetInt ==
  ASSUME NEW m \in Ledger, NEW i \in Item
  PROVE  /\ \A t \in MovementType : m[<<t, i>>].qty \in Int
         /\ Net(m, i) \in Int
<1>1. \A t \in MovementType : m[<<t, i>>].qty \in Int
  BY DEF Ledger
<1> QED
  BY <1>1, TypesSign DEF Net

\* ... and so the net of one item.
LEMMA NetPost ==
  ASSUME NEW m \in Ledger, NEW t \in MovementType, NEW j \in Item,
         NEW q \in Int, NEW c \in Int, NEW i \in Item
  PROVE  Net(Post(m, <<t, j>>, q, c), i) = Net(m, i) + (IF i = j THEN Sign(t, q) ELSE 0)
<1> DEFINE n == Post(m, <<t, j>>, q, c)
<1>1. \A s \in MovementType :
        n[<<s, i>>].qty = IF s = t /\ i = j THEN m[<<s, i>>].qty + q ELSE m[<<s, i>>].qty
  BY PostFacts
<1>2. \A s \in MovementType : m[<<s, i>>].qty \in Int
  BY NetInt
<1> HIDE DEF n
<1>3. CASE i # j
  BY <1>1, <1>3, <1>2, TypesSign DEF Net, n
<1>4. CASE i = j
  <2>1. CASE t = "PURCHASE_IN"
    BY <1>1, <1>2, <1>4, <2>1, TypesSign DEF Net, n, Sign
  <2>2. CASE t = "ADJUSTMENT_IN"
    BY <1>1, <1>2, <1>4, <2>2, TypesSign DEF Net, n, Sign
  <2>3. CASE t = "TRANSFER_IN"
    BY <1>1, <1>2, <1>4, <2>3, TypesSign DEF Net, n, Sign
  <2>4. CASE t = "SALE_OUT"
    BY <1>1, <1>2, <1>4, <2>4, TypesSign DEF Net, n, Sign
  <2>5. CASE t = "ADJUSTMENT_OUT"
    BY <1>1, <1>2, <1>4, <2>5, TypesSign DEF Net, n, Sign
  <2>6. CASE t = "TRANSFER_OUT"
    BY <1>1, <1>2, <1>4, <2>6, TypesSign DEF Net, n, Sign
  <2> QED
    BY <2>1, <2>2, <2>3, <2>4, <2>5, <2>6, TypesSign
<1> QED
  BY <1>3, <1>4

\* Merging ledgers adds their nets.
LEMMA NetMerge ==
  ASSUME NEW m \in Ledger, NEW p \in Ledger
  PROVE  /\ Merge(m, p) \in Ledger
         /\ \A x \in MovementType \X Item : /\ Merge(m, p)[x].qty = m[x].qty + p[x].qty
                                           /\ Merge(m, p)[x].value = m[x].value + p[x].value
         /\ \A i \in Item : Net(Merge(m, p), i) = Net(m, i) + Net(p, i)
<1> DEFINE n == Merge(m, p)
<1>1. \A x \in MovementType \X Item : /\ m[x].qty \in Int /\ m[x].value \in Int
                                      /\ p[x].qty \in Int /\ p[x].value \in Int
  BY DEF Ledger
<1>2. n \in Ledger
  BY <1>1 DEF Merge, Ledger
<1>3. \A x \in MovementType \X Item : /\ n[x].qty = m[x].qty + p[x].qty
                                      /\ n[x].value = m[x].value + p[x].value
  BY DEF Merge
<1> HIDE DEF n
<1>4. ASSUME NEW i \in Item PROVE Net(n, i) = Net(m, i) + Net(p, i)
  <2>1. \A t \in MovementType : /\ n[<<t, i>>].qty = m[<<t, i>>].qty + p[<<t, i>>].qty
                                /\ m[<<t, i>>].qty \in Int /\ p[<<t, i>>].qty \in Int
    BY <1>3, NetInt
  <2> QED
    BY <2>1, TypesSign DEF Net
<1> QED
  BY <1>2, <1>3, <1>4 DEF n

LEMMA NetNothing ==
  /\ NoPosting \in Ledger
  /\ \A x \in MovementType \X Item : NoPosting[x].qty = 0 /\ NoPosting[x].value = 0
  /\ \A i \in Item : Net(NoPosting, i) = 0
<1>1. NoPosting \in Ledger
  BY DEF NoPosting, Ledger
<1>2. \A x \in MovementType \X Item : NoPosting[x].qty = 0 /\ NoPosting[x].value = 0
  BY DEF NoPosting
<1> QED
  BY <1>1, <1>2, TypesSign DEF Net
-----------------------------------------------------------------------------
(* Costs.                                                                  *)

LEMMA RoundedInt ==
  ASSUME NEW n \in Int, NEW d \in Int, d > 0
  PROVE  Rounded(n, d) \in Int
<1>1. 2 * n + d \in Int /\ d - 2 * n \in Int /\ 2 * d \in Int /\ 2 * d > 0
  OBVIOUS
<1>2. ASSUME NEW a \in Int, NEW b \in Int, b > 0 PROVE a \div b \in Int
  BY <1>2
<1> QED
  BY <1>1, <1>2 DEF Rounded

LEMMA RowFacts ==
  ASSUME NEW row \in StockRow, NEW read \in StockRow, NEW m \in Movement
  PROVE  /\ Upserted(row, m, MovingAverage(read, m)) \in StockRow
         /\ Upserted(row, m, MovingAverage(read, m)).qty = row.qty + Sign(m.type, m.qty)
         /\ LoggedCost(read, m) \in Int
         /\ Signed(m) = Sign(m.type, m.qty) /\ Signed(m) \in Int
<1>1. /\ row.qty \in Int /\ row.cost \in Int /\ read.qty \in Int /\ read.cost \in Int
      /\ m.qty \in Int /\ m.cost \in Int \cup {NoCost}
  BY DEF StockRow, Movement
<1>2. MovingAverage(read, m) \in Int
  <2>1. CASE isIncoming(m.type) /\ m.cost # NoCost /\ m.cost >= 0
    <3>1. read.qty * read.cost + m.qty * m.cost \in Int /\ read.qty + m.qty \in Int
      BY <1>1, <2>1
    <3> QED
      BY <1>1, <2>1, <3>1, RoundedInt DEF MovingAverage
  <2>2. CASE ~(isIncoming(m.type) /\ m.cost # NoCost /\ m.cost >= 0)
    BY <1>1, <2>2 DEF MovingAverage
  <2> QED
    BY <2>1, <2>2
<1>4. Signed(m) = Sign(m.type, m.qty) /\ Signed(m) \in Int
  BY <1>1 DEF Signed, Sign
<1>5. LoggedCost(read, m) \in Int
  BY <1>1 DEF LoggedCost
<1> DEFINE avg == MovingAverage(read, m)
           q == row.qty + Signed(m)
<1>6. avg \in Int /\ q \in Int
  BY <1>1, <1>2, <1>4
<1>7. Upserted(row, m, avg) = [qty  |-> q,
                               cost |-> IF isIncoming(m.type) /\ m.cost # NoCost
                                          THEN avg ELSE row.cost]
  BY DEF Upserted
<1> HIDE DEF avg, q
<1>8. Upserted(row, m, avg) \in StockRow /\ Upserted(row, m, avg).qty = q
  BY <1>1, <1>6, <1>7 DEF StockRow
<1> QED
  BY <1>4, <1>5, <1>8 DEF avg, q

-----------------------------------------------------------------------------
(* Part 1: the books.                                                      *)

\* The stages of a handler, here or in a module that extends this one, at which
\* its transaction may hold rows of the stock.
Holding == {"find", "upsert", "log", "mark", "next", "line", "status", "received",
            "commit"}

BookTypes ==
  /\ stock \in TableOf(Item, StockRow)
  /\ moved \in Ledger /\ posted \in [Req -> Ledger] /\ found \in [Req -> StockRow]
  /\ DOMAIN pc = Req /\ DOMAIN op = Req /\ DOMAIN mv = Req /\ DOMAIN dest = Req
  /\ \A r \in Req :
       /\ pc[r] \in {"source", "find", "upsert", "log", "unlogged"} => mv[r] \in Movement
       /\ op[r] = "transfer" /\ pc[r] # "idle" => dest[r] \in Item

\* A row is held only by a transaction on its way; a row nobody holds is as
\* committed.
Holders ==
  \A i \in Item :
    /\ stock.lock[i] = Nobody => stock.work[i] = stock.now[i]
    /\ \A r \in Req : stock.lock[i] = r => InTransaction(r) /\ pc[r] \in Holding

\* The movement a transaction has written in the stock and not logged yet.
Ahead(r, i) ==
  IF InTransaction(r) /\ pc[r] = "log" /\ mv[r].item = i THEN Signed(mv[r]) ELSE 0

\* What r's transaction has changed it has posted, or is about to.
Held ==
  \A r \in Req, i \in Item :
    (IF stock.lock[i] = r THEN stock.work[i].qty - stock.now[i].qty ELSE 0)
      = Net(posted[r], i) + Ahead(r, i)

\* The adjustments that changed the stock and have no movement.
Cut == {r \in Req : op[r] = "adjust" /\ pc[r] \in {"log", "unlogged"}}

Change == [r \in Req |-> Signed(mv[r])]

\* Reconciled, with the sum in the form the lemmas on sums are about.
Counted ==
  /\ IsFiniteSet(Cut)
  /\ \A i \in Item : stock.now[i].qty = Opening[i].qty + Net(moved, i)
                                        + SumOf(Change, Unlogged(i))

Books == BookTypes /\ Holders /\ Held /\ Counted

LEMMA UnloggedCut == \A i \in Item : Unlogged(i) = {r \in Cut : mv[r].item = i}
BY DEF Unlogged, Cut

LEMMA MovementFacts ==
  ASSUME NEW m \in Movement
  PROVE  /\ m.type \in MovementType /\ m.item \in Item /\ m.qty \in Int
         /\ m.cost \in Int \cup {NoCost}
         /\ <<m.type, m.item>> \in MovementType \X Item
         /\ Signed(m) \in Int
<1>1. /\ m.type \in MovementType /\ m.item \in Item /\ m.qty \in Int
      /\ m.cost \in Int \cup {NoCost}
  BY DEF Movement
<1> QED
  BY <1>1 DEF Signed

\* What the parts of the books are, as numbers and rows.
LEMMA BookRows ==
  ASSUME BookTypes, NEW i \in Item
  PROVE  /\ stock.now[i] \in StockRow /\ stock.work[i] \in StockRow
         /\ stock.now[i].qty \in Int /\ stock.work[i].qty \in Int
         /\ stock.lock[i] \in Owner
         /\ Net(moved, i) \in Int /\ Opening[i].qty \in Int
         /\ \A r \in Req : Net(posted[r], i) \in Int /\ Seen(stock, r)[i] \in StockRow
<1>1. stock.now[i] \in StockRow /\ stock.work[i] \in StockRow /\ stock.lock[i] \in Owner
  BY DEF BookTypes, TableOf
<1>2. \A r \in Req : Net(posted[r], i) \in Int /\ Seen(stock, r)[i] \in StockRow
  BY NetInt, SeenFacts DEF BookTypes
<1>3. Net(moved, i) \in Int /\ Opening[i].qty \in Int
  BY NetInt, InputAssumption DEF BookTypes
<1> QED
  BY <1>1, <1>2, <1>3 DEF StockRow

LEMMA ChangeFacts ==
  ASSUME BookTypes, IsFiniteSet(Cut)
  PROVE  /\ \A r \in Cut : Signed(mv[r]) \in Int /\ Change[r] = Signed(mv[r]) /\ mv[r].item \in Item
         /\ \A i \in Item : /\ IsFiniteSet(Unlogged(i)) /\ Unlogged(i) \in SUBSET Cut
                            /\ SumOf(Change, Unlogged(i)) \in Int
<1>1. \A r \in Cut : Signed(mv[r]) \in Int /\ Change[r] = Signed(mv[r]) /\ mv[r].item \in Item
  BY MovementFacts DEF BookTypes, Cut, Change
<1>2. \A i \in Item : Unlogged(i) \in SUBSET Cut
  BY UnloggedCut
<1>3. \A r \in Cut : Change[r] \in Int
  BY <1>1
<1> QED
  BY <1>1, <1>2, <1>3, FS_Subset, SumFacts

\* The same adjustments are cut, and stock and ledger change alike.
LEMMA CountedKept ==
  ASSUME Books, Cut' = Cut, \A r \in Cut : mv'[r] = mv[r],
         \A i \in Item : \E d \in Int : /\ stock'.now[i].qty = stock.now[i].qty + d
                                        /\ Net(moved', i) = Net(moved, i) + d
  PROVE  Counted'
<1>1. BookTypes /\ IsFiniteSet(Cut)
  BY DEF Books, Counted
<1>2. ASSUME NEW i \in Item
      PROVE  stock'.now[i].qty = Opening[i].qty + Net(moved', i) + SumOf(Change', Unlogged(i)')
  <2>1. Unlogged(i)' = Unlogged(i)
    BY UnloggedCut DEF Unlogged, Cut
  <2>2. \A r \in Unlogged(i) : Change'[r] = Change[r] /\ Change[r] \in Int
    BY <1>1, ChangeFacts DEF Change, Cut
  <2> DEFINE f == Change
             g == Change'
             U == Unlogged(i)
  <2>3. IsFiniteSet(U) /\ SumOf(f, U) \in Int
    BY <1>1, ChangeFacts
  <2> HIDE DEF f, g, U
  <2>4. SumOf(g, U) = SumOf(f, U)
    BY <2>2, <2>3, SumSame DEF f, g, U
  <2>5. stock.now[i].qty = Opening[i].qty + Net(moved, i) + SumOf(f, U)
    BY DEF Books, Counted, f, U
  <2>6. stock'.now[i].qty = Opening[i].qty + Net(moved', i) + SumOf(g, U)
    BY <1>1, <2>3, <2>4, <2>5, BookRows
  <2> QED
    BY <2>1, <2>6 DEF g, U
<1>3. IsFiniteSet(Cut')
  BY <1>1
<1> QED
  BY <1>2, <1>3 DEF Counted

\* r's adjustment changes the stock, and has no movement yet.
LEMMA CountedMore ==
  ASSUME Books, NEW r \in Req, r \notin Cut, Cut' = Cut \cup {r}, mv' = mv,
         mv[r] \in Movement, moved' = moved,
         \A i \in Item : stock'.now[i].qty = stock.now[i].qty
                           + (IF i = mv[r].item THEN Signed(mv[r]) ELSE 0)
  PROVE  Counted'
<1>1. BookTypes /\ IsFiniteSet(Cut) /\ Signed(mv[r]) \in Int
  BY MovementFacts DEF Books, Counted
<1>2. Change' = Change /\ Change[r] = Signed(mv[r])
  BY DEF Change
<1>3. ASSUME NEW i \in Item
      PROVE  stock'.now[i].qty = Opening[i].qty + Net(moved', i) + SumOf(Change', Unlogged(i)')
  <2>1. Unlogged(i)' = IF i = mv[r].item THEN Unlogged(i) \cup {r} ELSE Unlogged(i)
    BY UnloggedCut DEF Unlogged, Cut
  <2> DEFINE f == Change
             U == Unlogged(i)
             d == Signed(mv[r])
  <2>2. IsFiniteSet(U) /\ SumOf(f, U) \in Int /\ r \notin U /\ \A q \in U \cup {r} : f[q] \in Int
    <3>1. /\ IsFiniteSet(U) /\ SumOf(f, U) \in Int /\ U \in SUBSET Cut
          /\ \A q \in Cut : f[q] \in Int
      BY <1>1, ChangeFacts
    <3> QED
      BY <1>1, <1>2, <3>1
  <2>3. stock.now[i].qty = Opening[i].qty + Net(moved, i) + SumOf(f, U)
    BY DEF Books, Counted
  <2>4. f[r] = d /\ d \in Int
    BY <1>1, <1>2
  <2> HIDE DEF f, U, d
  <2>5. SumOf(f, U \cup {r}) = SumOf(f, U) + d
    BY <2>2, <2>4, SumInsert
  <2>6. stock'.now[i].qty = Opening[i].qty + Net(moved, i)
                              + SumOf(f, IF i = mv[r].item THEN U \cup {r} ELSE U)
    <3>1. stock'.now[i].qty = stock.now[i].qty + (IF i = mv[r].item THEN d ELSE 0)
      BY DEF d
    <3> QED
      BY <1>1, <2>2, <2>3, <2>4, <2>5, <3>1, BookRows
  <2> QED
    BY <1>2, <2>1, <2>6 DEF f, U
<1>4. IsFiniteSet(Cut')
  BY <1>1, FS_AddElement
<1> QED
  BY <1>3, <1>4 DEF Counted

\* r's adjustment gets its movement.
LEMMA CountedLess ==
  ASSUME Books, NEW r \in Cut, Cut' = Cut \ {r}, mv' = mv, mv[r] \in Movement,
         \A i \in Item : /\ stock'.now[i].qty = stock.now[i].qty
                         /\ Net(moved', i) = Net(moved, i)
                              + (IF i = mv[r].item THEN Signed(mv[r]) ELSE 0)
  PROVE  Counted'
<1>1. BookTypes /\ IsFiniteSet(Cut) /\ Signed(mv[r]) \in Int
  BY MovementFacts DEF Books, Counted
<1>2. Change' = Change /\ Change[r] = Signed(mv[r])
  BY DEF Change, Cut
<1>3. ASSUME NEW i \in Item
      PROVE  stock'.now[i].qty = Opening[i].qty + Net(moved', i) + SumOf(Change', Unlogged(i)')
  <2>1. /\ Unlogged(i)' = IF i = mv[r].item THEN Unlogged(i) \ {r} ELSE Unlogged(i)
        /\ i = mv[r].item => r \in Unlogged(i)
    BY UnloggedCut DEF Unlogged, Cut
  <2> DEFINE f == Change
             U == Unlogged(i)
             d == Signed(mv[r])
  <2>2. IsFiniteSet(U) /\ SumOf(f, U) \in Int /\ \A q \in U : f[q] \in Int
    <3>1. /\ IsFiniteSet(U) /\ SumOf(f, U) \in Int /\ U \in SUBSET Cut
          /\ \A q \in Cut : f[q] \in Int
      BY <1>1, ChangeFacts
    <3> QED
      BY <3>1
  <2>3. stock.now[i].qty = Opening[i].qty + Net(moved, i) + SumOf(f, U)
    BY DEF Books, Counted
  <2>4. f[r] = d /\ d \in Int
    BY <1>1, <1>2
  <2> HIDE DEF f, d
  <2>5. i = mv[r].item => SumOf(f, U \ {r}) = SumOf(f, U) - d
    <3> HIDE DEF U
    <3>1. i = mv[r].item => r \in U
      BY <2>1 DEF U
    <3> QED
      BY <2>2, <2>4, <3>1, SumRemove
  <2>6. stock'.now[i].qty = Opening[i].qty + Net(moved', i)
                              + SumOf(f, IF i = mv[r].item THEN U \ {r} ELSE U)
    <3>1. /\ stock'.now[i].qty = stock.now[i].qty
          /\ Net(moved', i) = Net(moved, i) + (IF i = mv[r].item THEN d ELSE 0)
      BY DEF d
    <3> HIDE DEF U
    <3> QED
      BY <1>1, <2>2, <2>3, <2>4, <2>5, <3>1, BookRows
  <2> QED
    BY <1>2, <2>1, <2>6 DEF f
<1>4. IsFiniteSet(Cut')
  BY <1>1, FS_RemoveElement
<1> QED
  BY <1>3, <1>4 DEF Counted

LEMMA BooksInit ==
  ASSUME stock = NewTable(Opening), moved = NoPosting, posted = [r \in Req |-> NoPosting],
         found = [r \in Req |-> NoRow],
         DOMAIN pc = Req, DOMAIN op = Req, DOMAIN mv = Req, DOMAIN dest = Req,
         \A r \in Req : pc[r] = "idle"
  PROVE  Books
<1>1. Opening \in [Item -> StockRow] /\ NoRow \in StockRow
  BY InputAssumption DEF StockRow, NoRow
<1>2. /\ stock \in TableOf(Item, StockRow) /\ stock.now = Opening /\ stock.work = Opening
      /\ \A i \in Item : stock.lock[i] = Nobody
  BY <1>1, NewTableFacts
<1>3. BookTypes
  BY <1>1, <1>2, NetNothing DEF BookTypes
<1>4. Holders /\ Held
  BY <1>2, NobodyAssumption, NetNothing DEF Holders, Held, Ahead
<1>5. Cut = {} /\ \A i \in Item : Unlogged(i) = {}
  BY DEF Cut, Unlogged
<1>6. IsFiniteSet({}) /\ SumOf(Change, {}) = 0
  <2> DEFINE f == Change
  <2> HIDE DEF f
  <2>1. SumOf(f, {}) = 0
    BY FS_EmptySet, SumFacts
  <2> QED
    BY <2>1, FS_EmptySet DEF f
<1>7. Counted
  <2>1. \A i \in Item : Opening[i].qty \in Int /\ Net(moved, i) = 0
    BY InputAssumption, NetNothing
  <2> SUFFICES ASSUME NEW i \in Item
               PROVE  stock.now[i].qty = Opening[i].qty + Net(moved, i)
                                         + SumOf(Change, Unlogged(i))
    BY <1>5, <1>6 DEF Counted
  <2>2. SumOf(Change, Unlogged(i)) = 0
    BY <1>5, <1>6
  <2> QED
    BY <1>2, <2>1, <2>2
<1> QED
  BY <1>3, <1>4, <1>7 DEF Books

\* A step of r that leaves stock and ledger alone.
LEMMA BooksAside ==
  ASSUME Books, NEW r \in Req, UNCHANGED <<stock, moved, posted>>,
         found' \in [Req -> StockRow],
         DOMAIN pc' = Req, DOMAIN op' = Req, DOMAIN mv' = Req, DOMAIN dest' = Req,
         \A q \in Req \ {r} : pc'[q] = pc[q] /\ op'[q] = op[q] /\ mv'[q] = mv[q] /\ dest'[q] = dest[q],
         pc[r] \notin {"log", "unlogged"}, pc'[r] \notin {"log", "unlogged"},
         pc'[r] \in {"source", "find", "upsert"} => mv'[r] \in Movement,
         op'[r] = "transfer" /\ pc'[r] # "idle" => dest'[r] \in Item,
         pc[r] \in Holding /\ InTransaction(r) => pc'[r] \in Holding /\ InTransaction(r)'
  PROVE  Books'
<1>1. BookTypes'
  BY DEF Books, BookTypes
<1>2. Holders'
  BY DEF Books, Holders, InTransaction
<1>3. Held'
  <2>1. \A q \in Req, i \in Item : Ahead(q, i)' = Ahead(q, i)
    BY DEF Ahead, InTransaction
  <2> QED
    BY <2>1 DEF Books, Held
<1>4. Counted'
  <2>1. Cut' = Cut /\ \A q \in Cut : mv'[q] = mv[q]
    BY DEF Cut
  <2>2. \A i \in Item : /\ stock'.now[i].qty = stock.now[i].qty + 0
                        /\ Net(moved', i) = Net(moved, i) + 0
    BY BookRows DEF Books
  <2> QED
    BY <2>1, <2>2, CountedKept
<1> QED
  BY <1>1, <1>2, <1>3, <1>4 DEF Books

\* What the upsert changes: r's own view of the row if r is in a transaction, the
\* committed row if not, and in both cases by the movement's signed quantity.
LEMMA UpsertFacts ==
  ASSUME Books, NEW r \in Req, UpsertStock(r)
  PROVE  /\ pc[r] = "upsert" /\ pc' = [pc EXCEPT ![r] = "log"]
         /\ UNCHANGED <<moved, posted, mv, found>>
         /\ stock' \in TableOf(Item, StockRow)
         /\ mv[r] \in Movement /\ mv[r].item \in Item /\ Signed(mv[r]) \in Int
         /\ stock.lock[mv[r].item] \in {r, Nobody}
         /\ \A i \in Item \ {mv[r].item} : /\ stock'.now[i] = stock.now[i]
                                           /\ stock'.work[i] = stock.work[i]
                                           /\ stock'.lock[i] = stock.lock[i]
         /\ LET i == mv[r].item
            IN  IF InTransaction(r)
                  THEN /\ stock'.now[i] = stock.now[i] /\ stock'.lock[i] = r
                       /\ stock'.work[i].qty = Signed(mv[r]) +
                            (IF stock.lock[i] = r THEN stock.work[i].qty ELSE stock.now[i].qty)
                  ELSE /\ stock.lock[i] = Nobody /\ stock'.lock[i] = Nobody
                       /\ stock'.work[i] = stock'.now[i]
                       /\ stock'.now[i].qty = stock.now[i].qty + Signed(mv[r])
<1> DEFINE i   == mv[r].item
           was == Seen(stock, r)[i]
           row == Upserted(was, mv[r], MovingAverage(found[r], mv[r]))
<1>1. /\ pc[r] = "upsert" /\ Writable(stock, r, i)
      /\ stock' = IF InTransaction(r) THEN Put(stock, r, i, row) ELSE Save(stock, i, row)
      /\ pc' = [pc EXCEPT ![r] = "log"] /\ UNCHANGED <<moved, posted, mv, found>>
  BY DEF UpsertStock
<1>2. BookTypes
  BY DEF Books
<1>3. mv[r] \in Movement /\ i \in Item /\ found[r] \in StockRow /\ Signed(mv[r]) \in Int
  BY <1>1, <1>2, MovementFacts DEF BookTypes
<1>4. stock.lock[i] \in {r, Nobody}
  BY <1>1 DEF Writable
<1>5. was \in StockRow /\ was = IF stock.lock[i] = r THEN stock.work[i] ELSE stock.now[i]
  BY <1>2, <1>3, SeenFacts DEF BookTypes
<1> HIDE DEF was, i
<1>6. row \in StockRow /\ row.qty = was.qty + Signed(mv[r])
  <2>1. row \in StockRow /\ row.qty = was.qty + Sign(mv[r].type, mv[r].qty)
    BY <1>3, <1>5, RowFacts
  <2>2. Signed(mv[r]) = Sign(mv[r].type, mv[r].qty)
    BY <1>3, RowFacts
  <2> QED
    BY <2>1, <2>2
<1> HIDE DEF row
<1> USE DEF i
<1>7. was.qty \in Int
  BY <1>5 DEF StockRow
<1>8. CASE InTransaction(r)
  <2>1. /\ stock' \in TableOf(Item, StockRow) /\ stock'.now = stock.now
        /\ \A j \in Item : /\ stock'.work[j] = IF j = i THEN row ELSE stock.work[j]
                           /\ stock'.lock[j] = IF j = i THEN r ELSE stock.lock[j]
    BY <1>1, <1>2, <1>3, <1>6, <1>8, PutFacts DEF BookTypes
  <2> QED
    BY <1>1, <1>3, <1>4, <1>5, <1>6, <1>7, <1>8, <2>1
<1>9. CASE ~InTransaction(r)
  <2>1. /\ stock' \in TableOf(Item, StockRow) /\ stock'.lock = stock.lock
        /\ \A j \in Item : /\ stock'.work[j] = IF j = i THEN row ELSE stock.work[j]
                           /\ stock'.now[j] = IF j = i THEN row ELSE stock.now[j]
    BY <1>1, <1>2, <1>3, <1>6, <1>9, SaveFacts DEF BookTypes
  <2>2. stock.lock[i] = Nobody
    BY <1>3, <1>4, <1>9 DEF Books, Holders
  <2> QED
    BY <1>1, <1>3, <1>5, <1>6, <1>7, <1>9, <2>1, <2>2, NobodyAssumption
<1> QED
  BY <1>8, <1>9

LEMMA BooksUpsert ==
  ASSUME Books, NEW r \in Req, UpsertStock(r), UNCHANGED <<op, dest>>
  PROVE  Books'
<1> DEFINE j == mv[r].item
<1> USE NobodyAssumption
<1>0. BookTypes
  BY DEF Books
<1>1. /\ pc[r] = "upsert" /\ pc' = [pc EXCEPT ![r] = "log"]
      /\ UNCHANGED <<moved, posted, mv, found>> /\ stock' \in TableOf(Item, StockRow)
      /\ mv[r] \in Movement /\ j \in Item /\ Signed(mv[r]) \in Int
      /\ stock.lock[j] \in {r, Nobody}
  BY UpsertFacts
<1>2. /\ \A i \in Item \ {j} : /\ stock'.now[i] = stock.now[i]
                               /\ stock'.work[i] = stock.work[i]
                               /\ stock'.lock[i] = stock.lock[i]
      /\ InTransaction(r) =>
           /\ stock'.now[j] = stock.now[j] /\ stock'.lock[j] = r
           /\ stock'.work[j].qty = Signed(mv[r]) +
                (IF stock.lock[j] = r THEN stock.work[j].qty ELSE stock.now[j].qty)
      /\ ~InTransaction(r) =>
           /\ stock.lock[j] = Nobody /\ stock'.lock[j] = Nobody
           /\ stock'.work[j] = stock'.now[j]
           /\ stock'.now[j].qty = stock.now[j].qty + Signed(mv[r])
  BY UpsertFacts
<1> HIDE DEF j
<1>3. /\ pc'[r] = "log" /\ DOMAIN pc' = Req
      /\ \A q \in Req \ {r} : pc'[q] = pc[q]
  BY <1>0, <1>1 DEF BookTypes
<1>4. BookTypes'
  BY <1>0, <1>1, <1>3 DEF BookTypes
<1>5. Holders'
  <2>1. \A q \in Req : InTransaction(q)' <=> InTransaction(q)
    BY DEF InTransaction
  <2>2. \A q \in Req : pc[q] \in Holding => pc'[q] \in Holding
    BY <1>1, <1>3 DEF Holding
  <2>3. pc'[r] \in Holding
    BY <1>3 DEF Holding
  <2>4. ASSUME NEW i \in Item, i # j
        PROVE  /\ stock'.lock[i] = Nobody => stock'.work[i] = stock'.now[i]
               /\ \A q \in Req : stock'.lock[i] = q => InTransaction(q)' /\ pc'[q] \in Holding
    BY <1>2, <2>1, <2>2, <2>4 DEF Books, Holders
  <2>5. /\ stock'.lock[j] = Nobody => stock'.work[j] = stock'.now[j]
        /\ \A q \in Req : stock'.lock[j] = q => InTransaction(q)' /\ pc'[q] \in Holding
    BY <1>2, <2>1, <2>3
  <2> QED
    BY <2>4, <2>5 DEF Holders
<1>6. Held'
  <2> SUFFICES ASSUME NEW q \in Req, NEW i \in Item
               PROVE  (IF stock'.lock[i] = q THEN stock'.work[i].qty - stock'.now[i].qty ELSE 0)
                        = Net(posted'[q], i) + Ahead(q, i)'
    BY DEF Held
  <2>1. /\ stock.now[i].qty \in Int /\ stock.work[i].qty \in Int /\ Net(posted[q], i) \in Int
        /\ stock.now[j].qty \in Int /\ stock.work[j].qty \in Int
    BY <1>0, <1>1, BookRows
  <2>2. (IF stock.lock[i] = q THEN stock.work[i].qty - stock.now[i].qty ELSE 0)
          = Net(posted[q], i) + Ahead(q, i)
    BY DEF Books, Held
  <2>3. CASE q # r
    <3>1. Ahead(q, i)' = Ahead(q, i)
      BY <1>1, <1>3, <2>3 DEF Ahead, InTransaction
    <3>2. CASE i # j
      BY <1>1, <1>2, <2>2, <3>1, <3>2
    <3>3. CASE i = j
      BY <1>1, <1>2, <2>2, <2>3, <3>1, <3>3
    <3> QED
      BY <3>2, <3>3
  <2>4. CASE q = r
    <3>1. /\ Ahead(r, i) = 0
          /\ Ahead(r, i)' = IF InTransaction(r) /\ j = i THEN Signed(mv[r]) ELSE 0
      BY <1>1, <1>3 DEF Ahead, InTransaction, j
    <3>2. CASE i # j
      BY <1>1, <1>2, <2>2, <2>4, <3>1, <3>2
    <3>3. CASE i = j /\ InTransaction(r)
      BY <1>1, <1>2, <2>1, <2>2, <2>4, <3>1, <3>3
    <3>4. CASE i = j /\ ~InTransaction(r)
      BY <1>1, <1>2, <2>1, <2>2, <2>4, <3>1, <3>4
    <3> QED
      BY <3>2, <3>3, <3>4
  <2> QED
    BY <2>3, <2>4
<1>7. Counted'
  <2>1. CASE InTransaction(r)
    <3>1. Cut' = Cut
      BY <1>1, <1>3, <2>1 DEF Cut, InTransaction
    <3>2. \A i \in Item : /\ stock'.now[i].qty = stock.now[i].qty + 0
                          /\ Net(moved', i) = Net(moved, i) + 0
      BY <1>0, <1>1, <1>2, <2>1, BookRows
    <3> QED
      BY <1>1, <3>1, <3>2, CountedKept
  <2>2. CASE ~InTransaction(r)
    <3>1. r \notin Cut /\ Cut' = Cut \cup {r}
      BY <1>1, <1>3, <2>2 DEF Cut, InTransaction
    <3>2. \A i \in Item : stock'.now[i].qty = stock.now[i].qty
                            + (IF i = mv[r].item THEN Signed(mv[r]) ELSE 0)
      BY <1>0, <1>1, <1>2, <2>2, BookRows DEF j
    <3> QED
      BY <1>1, <3>1, <3>2, CountedMore
  <2> QED
    BY <2>1, <2>2
<1> QED
  BY <1>4, <1>5, <1>6, <1>7 DEF Books

\* What logging a movement leaves: it is in r's transaction, or in the ledger.
LEMMA LoggedFacts ==
  ASSUME BookTypes, NEW r \in Req, NEW l, LogMovement(r, l)
  PROVE  /\ pc[r] = "log" /\ pc' = [pc EXCEPT ![r] = l] /\ stock' = stock
         /\ moved' \in Ledger /\ posted' \in [Req -> Ledger]
         /\ found' \in [Req -> StockRow] /\ mv[r] \in Movement
         /\ \A i \in Item :
              Net(moved', i) = Net(moved, i)
                + (IF ~InTransaction(r) /\ mv[r].item = i THEN Signed(mv[r]) ELSE 0)
         /\ \A q \in Req, i \in Item :
              Net(posted'[q], i) = Net(posted[q], i)
                + (IF InTransaction(r) /\ q = r /\ mv[r].item = i THEN Signed(mv[r]) ELSE 0)
         /\ InTransaction(r) => moved' = moved
         /\ ~InTransaction(r) => posted' = posted
<1> DEFINE x == <<mv[r].type, mv[r].item>>
           c == LoggedCost(found[r], mv[r])
           n == mv[r].qty
<1>1. /\ pc[r] = "log" /\ pc' = [pc EXCEPT ![r] = l] /\ stock' = stock
      /\ found' = [found EXCEPT ![r] = NoRow]
      /\ IF InTransaction(r)
           THEN posted' = [posted EXCEPT ![r] = Post(posted[r], x, n, c)] /\ moved' = moved
           ELSE moved' = Post(moved, x, n, c) /\ posted' = posted
  BY DEF LogMovement
<1>2. mv[r] \in Movement /\ found[r] \in StockRow
  BY <1>1 DEF BookTypes
<1>3. /\ x \in MovementType \X Item /\ mv[r].item \in Item /\ mv[r].type \in MovementType
      /\ n \in Int /\ c \in Int /\ Signed(mv[r]) = Sign(mv[r].type, n) /\ Signed(mv[r]) \in Int
  BY <1>2, MovementFacts, RowFacts
<1>4. /\ moved \in Ledger /\ posted \in [Req -> Ledger] /\ found \in [Req -> StockRow]
      /\ \A i \in Item : Net(moved, i) \in Int /\ \A q \in Req : Net(posted[q], i) \in Int
  BY NetInt DEF BookTypes
<1>5. \A i \in Item, m \in Ledger :
        Net(Post(m, x, n, c), i) = Net(m, i) + (IF mv[r].item = i THEN Signed(mv[r]) ELSE 0)
  BY <1>3, NetPost
<1>6. \A m \in Ledger : Post(m, x, n, c) \in Ledger
  BY <1>3, PostFacts
<1> HIDE DEF x, c, n
<1>7. found' \in [Req -> StockRow]
  BY <1>1, <1>4 DEF NoRow, StockRow
<1>8. CASE InTransaction(r)
  BY <1>1, <1>2, <1>3, <1>4, <1>5, <1>6, <1>7, <1>8
<1>9. CASE ~InTransaction(r)
  BY <1>1, <1>2, <1>3, <1>4, <1>5, <1>6, <1>7, <1>9
<1> QED
  BY <1>8, <1>9

\* ... entry by entry.
LEMMA LoggedEntries ==
  ASSUME BookTypes, NEW r \in Req, NEW l, LogMovement(r, l),
         NEW x \in MovementType \X Item
  PROVE  LET n == IF x = <<mv[r].type, mv[r].item>> THEN mv[r].qty ELSE 0
         IN  /\ n \in Int
             /\ moved'[x].qty = moved[x].qty + (IF InTransaction(r) THEN 0 ELSE n)
             /\ \A q \in Req : posted'[q][x].qty =
                  posted[q][x].qty + (IF InTransaction(r) /\ q = r THEN n ELSE 0)
<1> DEFINE y == <<mv[r].type, mv[r].item>>
           c == LoggedCost(found[r], mv[r])
           k == mv[r].qty
<1>1. /\ pc[r] = "log"
      /\ IF InTransaction(r)
           THEN posted' = [posted EXCEPT ![r] = Post(posted[r], y, k, c)] /\ moved' = moved
           ELSE moved' = Post(moved, y, k, c) /\ posted' = posted
  BY DEF LogMovement
<1>2. mv[r] \in Movement /\ found[r] \in StockRow
  BY <1>1 DEF BookTypes
<1>3. y \in MovementType \X Item /\ k \in Int /\ c \in Int
  BY <1>2, MovementFacts, RowFacts
<1>4. /\ moved \in Ledger /\ posted \in [Req -> Ledger]
      /\ moved[x].qty \in Int /\ \A q \in Req : posted[q][x].qty \in Int
  BY DEF BookTypes, Ledger
<1>5. \A m \in Ledger : Post(m, y, k, c)[x].qty = IF x = y THEN m[x].qty + k ELSE m[x].qty
  BY <1>3, PostFacts
<1> HIDE DEF y, c, k
<1>6. CASE InTransaction(r)
  <2>1. moved' = moved /\ \A q \in Req : posted'[q] = IF q = r THEN Post(posted[r], y, k, c) ELSE posted[q]
    BY <1>1, <1>4, <1>6
  <2> QED
    BY <1>3, <1>4, <1>5, <1>6, <2>1 DEF y, k
<1>7. CASE ~InTransaction(r)
  <2>1. moved' = Post(moved, y, k, c) /\ posted' = posted
    BY <1>1, <1>7
  <2> QED
    BY <1>3, <1>4, <1>5, <1>7, <2>1 DEF y, k
<1> QED
  BY <1>6, <1>7

LEMMA BooksLog ==
  ASSUME Books, NEW r \in Req, NEW l, LogMovement(r, l), UNCHANGED <<op, dest>>,
         DOMAIN mv' = Req, \A q \in Req \ {r} : mv'[q] = mv[q], mv'[r] \in Movement,
         IF InTransaction(r) THEN l \in Holding \ {"log"} ELSE l = "ok" /\ mv' = mv
  PROVE  Books'
<1>0. BookTypes
  BY DEF Books
<1>1. /\ pc[r] = "log" /\ pc' = [pc EXCEPT ![r] = l] /\ stock' = stock
      /\ moved' \in Ledger /\ posted' \in [Req -> Ledger] /\ found' \in [Req -> StockRow]
      /\ mv[r] \in Movement /\ Signed(mv[r]) \in Int /\ mv[r].item \in Item
  BY <1>0, LoggedFacts, MovementFacts
<1>2. /\ \A i \in Item :
           Net(moved', i) = Net(moved, i)
             + (IF ~InTransaction(r) /\ mv[r].item = i THEN Signed(mv[r]) ELSE 0)
      /\ \A q \in Req, i \in Item :
           Net(posted'[q], i) = Net(posted[q], i)
             + (IF InTransaction(r) /\ q = r /\ mv[r].item = i THEN Signed(mv[r]) ELSE 0)
      /\ ~InTransaction(r) => posted' = posted
  BY <1>0, LoggedFacts
<1>3. pc'[r] = l /\ DOMAIN pc' = Req /\ \A q \in Req \ {r} : pc'[q] = pc[q]
  BY <1>0, <1>1 DEF BookTypes
<1>4. BookTypes'
  BY <1>0, <1>1, <1>3 DEF BookTypes
<1>5. l # "log" /\ l # "unlogged"
  BY DEF Holding
<1>6. Holders'
  BY <1>1, <1>3 DEF Books, Holders, InTransaction
<1>7. Held'
  <2>1. ASSUME NEW q \in Req, NEW i \in Item
        PROVE  Net(posted'[q], i) + Ahead(q, i)' = Net(posted[q], i) + Ahead(q, i)
    <3>1. Net(posted'[q], i) = Net(posted[q], i)
            + (IF InTransaction(r) /\ q = r /\ mv[r].item = i THEN Signed(mv[r]) ELSE 0)
      BY <1>2
    <3>2. Net(posted[q], i) \in Int
      BY <1>0, BookRows
    <3>3. CASE q = r
      <4>1. /\ Ahead(r, i)' = 0
            /\ Ahead(r, i) = IF InTransaction(r) /\ mv[r].item = i THEN Signed(mv[r]) ELSE 0
        BY <1>1, <1>3, <1>5 DEF Ahead
      <4> QED
        BY <1>1, <3>1, <3>2, <3>3, <4>1
    <3>4. CASE q # r
      <4>1. Ahead(q, i)' = Ahead(q, i) /\ Net(posted'[q], i) = Net(posted[q], i)
        BY <1>3, <3>1, <3>2, <3>4 DEF Ahead, InTransaction
      <4> QED
        BY <4>1
    <3> QED
      BY <3>3, <3>4
  <2> QED
    BY <1>1, <2>1 DEF Books, Held
<1>8. Counted'
  <2>1. CASE InTransaction(r)
    <3>1. Cut' = Cut /\ \A q \in Cut : mv'[q] = mv[q]
      BY <1>1, <1>3, <1>5, <2>1 DEF Cut, InTransaction
    <3>2. \A i \in Item : /\ stock'.now[i].qty = stock.now[i].qty + 0
                          /\ Net(moved', i) = Net(moved, i) + 0
      BY <1>0, <1>1, <1>2, <2>1, BookRows
    <3> QED
      BY <3>1, <3>2, CountedKept
  <2>2. CASE ~InTransaction(r)
    <3>1. r \in Cut /\ Cut' = Cut \ {r}
      BY <1>1, <1>3, <1>5, <2>2 DEF Cut, InTransaction
    <3>2. \A i \in Item : /\ stock'.now[i].qty = stock.now[i].qty
                          /\ Net(moved', i) = Net(moved, i)
                               + (IF i = mv[r].item THEN Signed(mv[r]) ELSE 0)
      BY <1>1, <1>2, <2>2
    <3> QED
      BY <1>1, <2>2, <3>1, <3>2, CountedLess
  <2> QED
    BY <2>1, <2>2
<1> QED
  BY <1>4, <1>6, <1>7, <1>8 DEF Books

\* r's transaction ends: its rows are let go, and its postings gone.
LEMMA BooksEnded ==
  ASSUME Books, NEW r \in Req, NEW l, pc' = [pc EXCEPT ![r] = l],
         l \notin {"source", "find", "upsert", "log"},
         l = "unlogged" => pc[r] \in {"log", "unlogged"},
         posted' = [posted EXCEPT ![r] = NoPosting], UNCHANGED <<op, mv, dest>>,
         stock' \in TableOf(Item, StockRow), moved' \in Ledger, found' \in [Req -> StockRow],
         pc[r] # "idle",
         \A i \in Item :
           /\ stock'.lock[i] = IF stock.lock[i] = r THEN Nobody ELSE stock.lock[i]
           /\ stock.lock[i] = r => stock'.work[i] = stock'.now[i]
           /\ stock.lock[i] # r => /\ stock'.work[i] = stock.work[i]
                                   /\ stock'.now[i] = stock.now[i]
  PROVE  BookTypes' /\ Holders' /\ Held'
<1> USE NobodyAssumption
<1>0. BookTypes
  BY DEF Books
<1>1. pc'[r] = l /\ DOMAIN pc' = Req /\ \A q \in Req \ {r} : pc'[q] = pc[q]
  BY <1>0 DEF BookTypes
<1>2. BookTypes'
  <2>1. posted' \in [Req -> Ledger]
    BY <1>0, NetNothing DEF BookTypes
  <2> QED
    BY <1>0, <1>1, <2>1 DEF BookTypes
<1>3. Holders'
  <2> SUFFICES ASSUME NEW i \in Item
               PROVE  /\ stock'.lock[i] = Nobody => stock'.work[i] = stock'.now[i]
                      /\ \A q \in Req : stock'.lock[i] = q => InTransaction(q)' /\ pc'[q] \in Holding
    BY DEF Holders
  <2>1. CASE stock.lock[i] = r
    BY <2>1
  <2>2. CASE stock.lock[i] # r
    BY <1>1, <2>2 DEF Books, Holders, InTransaction
  <2> QED
    BY <2>1, <2>2
<1>4. Held'
  <2> SUFFICES ASSUME NEW q \in Req, NEW i \in Item
               PROVE  (IF stock'.lock[i] = q THEN stock'.work[i].qty - stock'.now[i].qty ELSE 0)
                        = Net(posted'[q], i) + Ahead(q, i)'
    BY DEF Held
  <2>1. CASE q = r
    <3>1. Net(posted'[q], i) = 0 /\ Ahead(q, i)' = 0
      BY <1>0, <1>1, <2>1, NetNothing DEF BookTypes, Ahead
    <3> QED
      BY <2>1, <3>1
  <2>2. CASE q # r
    <3>1. Ahead(q, i)' = Ahead(q, i) /\ posted'[q] = posted[q]
      BY <1>0, <1>1, <2>2 DEF BookTypes, Ahead, InTransaction
    <3> QED
      BY <2>2, <3>1 DEF Books, Held
  <2> QED
    BY <2>1, <2>2
<1> QED
  BY <1>2, <1>3, <1>4

LEMMA BooksDrop ==
  ASSUME Books, NEW r \in Req, DropStock(r), NEW l, pc' = [pc EXCEPT ![r] = l],
         l \notin {"source", "find", "upsert", "log"}, pc[r] # "idle",
         l = "unlogged" <=> r \in Cut, UNCHANGED <<op, dest>>
  PROVE  Books'
<1>0. BookTypes
  BY DEF Books
<1>1. /\ stock' = Rollback(stock, r) /\ posted' = [posted EXCEPT ![r] = NoPosting]
      /\ found' = [found EXCEPT ![r] = NoRow] /\ UNCHANGED <<moved, mv>>
  BY DEF DropStock
<1>2. /\ stock' \in TableOf(Item, StockRow)
      /\ \A i \in Item :
           /\ stock'.lock[i] = IF stock.lock[i] = r THEN Nobody ELSE stock.lock[i]
           /\ stock'.work[i] = IF stock.lock[i] = r THEN stock.now[i] ELSE stock.work[i]
           /\ stock'.now[i] = stock.now[i]
  BY <1>0, <1>1, RollbackFacts DEF BookTypes
<1>3. found' \in [Req -> StockRow] /\ moved' \in Ledger
  BY <1>0, <1>1 DEF BookTypes, NoRow, StockRow
<1>4. l = "unlogged" => pc[r] \in {"log", "unlogged"}
  BY DEF Cut
<1>5. BookTypes' /\ Holders' /\ Held'
  <2>1. \A i \in Item : /\ stock.lock[i] = r => stock'.work[i] = stock'.now[i]
                        /\ stock.lock[i] # r => /\ stock'.work[i] = stock.work[i]
                                                /\ stock'.now[i] = stock.now[i]
    BY <1>2
  <2> QED
    BY <1>1, <1>2, <1>3, <1>4, <2>1, BooksEnded
<1>6. Counted'
  <2>1. Cut' = Cut
    <3>1. \A q \in Req : q \in Cut' <=> q \in Cut
      <4>1. r \in Cut' <=> r \in Cut
        BY <1>0 DEF Cut, BookTypes
      <4>2. \A q \in Req \ {r} : q \in Cut' <=> q \in Cut
        BY <1>0 DEF Cut, BookTypes
      <4> QED
        BY <4>1, <4>2
    <3> QED
      BY <3>1 DEF Cut
  <2>2. \A i \in Item : /\ stock'.now[i].qty = stock.now[i].qty + 0
                        /\ Net(moved', i) = Net(moved, i) + 0
    BY <1>0, <1>1, <1>2, BookRows
  <2> QED
    BY <1>1, <2>1, <2>2, CountedKept
<1> QED
  BY <1>5, <1>6 DEF Books

\* A commit adds to the committed stock what the transaction has posted.
LEMMA KeptFacts ==
  ASSUME Books, NEW r \in Req, KeepStock(r), pc[r] # "log", NEW i \in Item
  PROVE  /\ stock'.now[i].qty = stock.now[i].qty + Net(posted[r], i)
         /\ Net(moved', i) = Net(moved, i) + Net(posted[r], i)
         /\ Net(posted[r], i) \in Int
<1>0. BookTypes
  BY DEF Books
<1>1. stock' = Commit(stock, r) /\ moved' = Merge(moved, posted[r])
  BY DEF KeepStock
<1>2. stock'.now[i] = IF stock.lock[i] = r THEN stock.work[i] ELSE stock.now[i]
  BY <1>0, <1>1, CommitFacts DEF BookTypes
<1>3. Ahead(r, i) = 0
  BY DEF Ahead
<1>4. (IF stock.lock[i] = r THEN stock.work[i].qty - stock.now[i].qty ELSE 0)
        = Net(posted[r], i)
  BY <1>0, <1>3, BookRows DEF Books, Held
<1>5. Net(moved', i) = Net(moved, i) + Net(posted[r], i)
  BY <1>0, <1>1, NetMerge DEF BookTypes
<1> QED
  BY <1>0, <1>2, <1>4, <1>5, BookRows

LEMMA BooksKeep ==
  ASSUME Books, NEW r \in Req, KeepStock(r), NEW l, pc' = [pc EXCEPT ![r] = l],
         l \notin {"source", "find", "upsert", "log", "unlogged"},
         pc[r] \notin {"idle", "log", "unlogged"}, UNCHANGED <<op, dest>>
  PROVE  Books'
<1>0. BookTypes
  BY DEF Books
<1>1. /\ stock' = Commit(stock, r) /\ moved' = Merge(moved, posted[r])
      /\ posted' = [posted EXCEPT ![r] = NoPosting] /\ UNCHANGED <<mv, found>>
  BY DEF KeepStock
<1>2. /\ stock' \in TableOf(Item, StockRow)
      /\ \A i \in Item :
           /\ stock'.lock[i] = IF stock.lock[i] = r THEN Nobody ELSE stock.lock[i]
           /\ stock'.work[i] = stock.work[i]
           /\ stock'.now[i] = IF stock.lock[i] = r THEN stock.work[i] ELSE stock.now[i]
  BY <1>0, <1>1, CommitFacts DEF BookTypes
<1>3. found' \in [Req -> StockRow] /\ moved' \in Ledger
  BY <1>0, <1>1, NetMerge DEF BookTypes
<1>5. BookTypes' /\ Holders' /\ Held'
  <2>1. \A i \in Item : /\ stock.lock[i] = r => stock'.work[i] = stock'.now[i]
                        /\ stock.lock[i] # r => /\ stock'.work[i] = stock.work[i]
                                                /\ stock'.now[i] = stock.now[i]
    BY <1>2
  <2> QED
    BY <1>1, <1>2, <1>3, <2>1, BooksEnded
<1>6. Counted'
  <2>1. Cut' = Cut
    BY <1>0 DEF Cut, BookTypes
  <2> QED
    BY <1>1, <2>1, KeptFacts, CountedKept
<1> QED
  BY <1>5, <1>6 DEF Books

\* Every handler of the inventory keeps the books, and so do its failures.
LEMMA BooksStep ==
  ASSUME Books, NEW r \in Req, Start(r) \/ Step(r) \/ Abort(r)
  PROVE  Books'
<1>0. BookTypes
  BY DEF Books
<1>1. ASSUME NEW i \in Item, NEW q \in Quantity,
             NEW type \in {"ADJUSTMENT_IN", "ADJUSTMENT_OUT"},
             NEW c \in UnitCost \cup {NoCost}, StartAdjust(r, i, type, q, c)
      PROVE  Books'
  <2> DEFINE m == [type |-> type, item |-> i, qty |-> q, cost |-> c]
  <2>1. m \in Movement
    BY InputAssumption DEF Movement, MovementType
  <2>2. /\ pc[r] = "idle" /\ pc' = [pc EXCEPT ![r] = "find"]
        /\ op' = [op EXCEPT ![r] = "adjust"] /\ mv' = [mv EXCEPT ![r] = m]
        /\ UNCHANGED <<stock, moved, posted, found, dest>>
    BY <1>1 DEF StartAdjust
  <2> HIDE DEF m
  <2>3. /\ DOMAIN pc' = Req /\ DOMAIN op' = Req /\ DOMAIN mv' = Req /\ DOMAIN dest' = Req
        /\ pc'[r] = "find" /\ op'[r] = "adjust" /\ mv'[r] = m /\ found' \in [Req -> StockRow]
        /\ \A x \in Req \ {r} : pc'[x] = pc[x] /\ op'[x] = op[x] /\ mv'[x] = mv[x] /\ dest'[x] = dest[x]
    BY <1>0, <2>2 DEF BookTypes
  <2> QED
    BY <2>1, <2>2, <2>3, BooksAside DEF Holding
<1>2. ASSUME NEW from \in Warehouse, NEW to \in Warehouse,
             NEW p \in Product, NEW q \in Quantity, StartTransfer(r, from, to, p, q)
      PROVE  Books'
  <2> DEFINE m == [type |-> "TRANSFER_OUT", item |-> <<from, p>>, qty |-> q, cost |-> NoCost]
  <2>1. m \in Movement /\ <<to, p>> \in Item
    BY InputAssumption DEF Movement, MovementType, Item
  <2>2. /\ pc[r] = "idle" /\ pc' = [pc EXCEPT ![r] = "source"]
        /\ op' = [op EXCEPT ![r] = "transfer"] /\ mv' = [mv EXCEPT ![r] = m]
        /\ dest' = [dest EXCEPT ![r] = <<to, p>>]
        /\ UNCHANGED <<stock, moved, posted, found>>
    BY <1>2 DEF StartTransfer
  <2> HIDE DEF m
  <2>3. /\ DOMAIN pc' = Req /\ DOMAIN op' = Req /\ DOMAIN mv' = Req /\ DOMAIN dest' = Req
        /\ pc'[r] = "source" /\ op'[r] = "transfer" /\ mv'[r] = m /\ found' \in [Req -> StockRow]
        /\ dest'[r] = <<to, p>>
        /\ \A x \in Req \ {r} : pc'[x] = pc[x] /\ op'[x] = op[x] /\ mv'[x] = mv[x] /\ dest'[x] = dest[x]
    BY <1>0, <2>2 DEF BookTypes
  <2> QED
    BY <2>1, <2>2, <2>3, BooksAside DEF Holding
<1>3. ASSUME FindStock(r), UNCHANGED <<op, dest>> PROVE Books'
  <2>1. /\ pc[r] = "find" /\ pc' = [pc EXCEPT ![r] = "upsert"]
        /\ found' = [found EXCEPT ![r] = Seen(stock, r)[mv[r].item]]
        /\ UNCHANGED <<stock, moved, posted, mv, op, dest>>
    BY <1>3 DEF FindStock
  <2>2. mv[r] \in Movement /\ mv[r].item \in Item
    BY <1>0, <2>1, MovementFacts DEF BookTypes
  <2>3. Seen(stock, r)[mv[r].item] \in StockRow
    BY <1>0, <2>2, BookRows
  <2>4. /\ DOMAIN pc' = Req /\ pc'[r] = "upsert" /\ found' \in [Req -> StockRow]
        /\ \A x \in Req \ {r} : pc'[x] = pc[x]
    BY <1>0, <2>1, <2>3 DEF BookTypes
  <2>5. DOMAIN op' = Req /\ DOMAIN mv' = Req /\ DOMAIN dest' = Req
    BY <1>0, <2>1 DEF BookTypes
  <2> QED
    BY <1>0, <2>1, <2>2, <2>4, <2>5, BooksAside DEF BookTypes, Holding, InTransaction
<1>4. ASSUME RefuseMovement(r), UNCHANGED <<op, dest>> PROVE Books'
  BY <1>4, BooksDrop DEF RefuseMovement, Cut
<1>5. ASSUME UpsertStock(r), UNCHANGED <<op, dest>> PROVE Books'
  BY <1>5, BooksUpsert
<1>6. ASSUME AdjustLogged(r) PROVE Books'
  <2>1. op[r] = "adjust" /\ LogMovement(r, "ok") /\ UNCHANGED <<op, mv, dest>>
    BY <1>6 DEF AdjustLogged
  <2>2. mv[r] \in Movement /\ DOMAIN mv' = Req
    BY <1>0, <2>1, LoggedFacts DEF BookTypes
  <2> QED
    BY <2>1, <2>2, BooksLog DEF InTransaction
<1>7. ASSUME ReadSource(r) PROVE Books'
  <2> DEFINE c == Seen(stock, r)[mv[r].item].cost
             m == [mv[r] EXCEPT !.cost = c]
  <2>1. /\ pc[r] = "source" /\ mv' = [mv EXCEPT ![r] = m] /\ pc' = [pc EXCEPT ![r] = "find"]
        /\ UNCHANGED <<stock, moved, posted, op, found, dest>>
    BY <1>7 DEF ReadSource
  <2>2. mv[r] \in Movement /\ mv[r].item \in Item
    BY <1>0, <2>1, MovementFacts DEF BookTypes
  <2>3. c \in Int
    BY <1>0, <2>2, BookRows DEF StockRow
  <2> HIDE DEF c
  <2>4. m \in Movement
    BY <2>2, <2>3 DEF Movement
  <2> HIDE DEF m
  <2>5. /\ DOMAIN pc' = Req /\ DOMAIN op' = Req /\ DOMAIN mv' = Req /\ DOMAIN dest' = Req
        /\ pc'[r] = "find" /\ mv'[r] = m /\ found' \in [Req -> StockRow]
        /\ \A x \in Req \ {r} : pc'[x] = pc[x] /\ op'[x] = op[x] /\ mv'[x] = mv[x] /\ dest'[x] = dest[x]
    BY <1>0, <2>1 DEF BookTypes
  <2>6. op'[r] = "transfer" => dest'[r] \in Item
    BY <1>0, <2>1 DEF BookTypes
  <2> QED
    BY <2>1, <2>4, <2>5, <2>6, BooksAside DEF Holding
<1>8. ASSUME TransferOutLogged(r) PROVE Books'
  <2> DEFINE m == [mv[r] EXCEPT !.type = "TRANSFER_IN", !.item = dest[r]]
  <2>1. /\ op[r] = "transfer" /\ LogMovement(r, "find") /\ mv' = [mv EXCEPT ![r] = m]
        /\ UNCHANGED <<op, dest>> /\ pc[r] = "log"
    BY <1>8 DEF TransferOutLogged, LogMovement
  <2>2. mv[r] \in Movement /\ dest[r] \in Item
    BY <1>0, <2>1 DEF BookTypes
  <2>3. m \in Movement
    BY <2>2 DEF Movement, MovementType
  <2> HIDE DEF m
  <2>4. DOMAIN mv' = Req /\ mv'[r] = m /\ \A q \in Req \ {r} : mv'[q] = mv[q]
    BY <1>0, <2>1 DEF BookTypes
  <2> QED
    BY <2>1, <2>3, <2>4, BooksLog DEF InTransaction, Holding
<1>9. ASSUME TransferInLogged(r) PROVE Books'
  <2>1. op[r] = "transfer" /\ LogMovement(r, "commit") /\ UNCHANGED <<op, mv, dest>>
    BY <1>9 DEF TransferInLogged
  <2>2. mv[r] \in Movement /\ DOMAIN mv' = Req
    BY <1>0, <2>1, LoggedFacts DEF BookTypes
  <2> QED
    BY <2>1, <2>2, BooksLog DEF InTransaction, Holding
<1>10. ASSUME CommitTransfer(r) PROVE Books'
  BY <1>10, BooksKeep DEF CommitTransfer
<1>11. ASSUME Abort(r) PROVE Books'
  <2> DEFINE l == IF ~InTransaction(r) /\ pc[r] = "log" THEN "unlogged" ELSE "aborted"
  <2>1. /\ pc[r] \notin {"idle", "unlogged"} /\ pc' = [pc EXCEPT ![r] = l]
        /\ DropStock(r) /\ UNCHANGED <<op, dest>>
    BY <1>11 DEF Abort, InFlight, Answered
  <2>2. /\ l = "unlogged" <=> r \in Cut
        /\ l \notin {"source", "find", "upsert", "log"}
    BY <2>1 DEF Cut, InTransaction
  <2> HIDE DEF l
  <2> QED
    BY <2>1, <2>2, BooksDrop
<1> QED
  BY <1>1, <1>2, <1>3, <1>4, <1>5, <1>6, <1>7, <1>8, <1>9, <1>10, <1>11 DEF Start, Step

\* The sum of the property is the sum of the books.
LEMMA UnloggedSum ==
  ASSUME NEW f, NEW U, IsFiniteSet(U), \A r \in U : Signed(f[r]) \in Int
  PROVE  MapThenSumSet(LAMBDA r : Signed(f[r]), U) = SumOf([r \in U |-> Signed(f[r])], U)
<1> DEFINE g == [r \in U |-> Signed(f[r])]
           P(it) == it = [s \in SUBSET U |->
                            IF s = {} THEN 0
                            ELSE Signed(f[CHOOSE x \in s : TRUE]) + it[s \ {CHOOSE x \in s : TRUE}]]
<1>1. \A it : P(it) <=> Iterates(it, g, U)
  <2>1. \A s \in SUBSET U : s # {} => (CHOOSE x \in s : TRUE) \in U
    OBVIOUS
  <2> QED
    BY <2>1 DEF Iterates
<1>2. MapThenSumSet(LAMBDA r : Signed(f[r]), U) = (CHOOSE it : P(it))[U]
  BY DEF MapThenSumSet, MapThenFoldSet
<1> HIDE DEF P, g
<1>3. P(CHOOSE it : P(it))
  BY <1>1, FoldIs DEF g
<1> QED
  BY <1>1, <1>2, <1>3, FoldIs DEF g

LEMMA BooksReconcile == Books => Reconciled
<1> SUFFICES ASSUME Books, NEW i \in Item
             PROVE  stock.now[i].qty = Opening[i].qty + Net(moved, i)
                                  + MapThenSumSet(LAMBDA r : Signed(mv[r]), Unlogged(i))
  BY DEF Reconciled
<1> DEFINE U == Unlogged(i)
           f == Change
           g == [r \in U |-> Signed(mv[r])]
<1>1. /\ IsFiniteSet(U) /\ \A r \in U : f[r] \in Int /\ g[r] = f[r] /\ Signed(mv[r]) \in Int
  BY ChangeFacts DEF Books, Counted
<1>2. stock.now[i].qty = Opening[i].qty + Net(moved, i) + SumOf(f, U)
  BY DEF Books, Counted
<1>3. MapThenSumSet(LAMBDA r : Signed(mv[r]), U) = SumOf(g, U)
  BY <1>1, UnloggedSum
<1> HIDE DEF f, g
<1>4. SumOf(g, U) = SumOf(f, U)
  BY <1>1, SumSame
<1> QED
  BY <1>2, <1>3, <1>4

-----------------------------------------------------------------------------
(* Part 2: the handlers of the inventory.  The invariant.                  *)

Transferring(r) == op[r] = "transfer" /\ pc[r] \in {"find", "upsert", "log", "commit"}

\* What a request was asked for, and how far it can be.
Arguments ==
  /\ DOMAIN mv = Req /\ DOMAIN dest = Req
  /\ \A r \in Req : pc[r] # "idle" =>
       /\ mv[r].qty \in Quantity
       /\ op[r] = "adjust" =>
            /\ pc[r] \in {"find", "upsert", "log"} \cup Answered
            /\ mv[r].type \in {"ADJUSTMENT_IN", "ADJUSTMENT_OUT"}
       /\ op[r] = "transfer" =>
            /\ mv[r].type \in {"TRANSFER_OUT", "TRANSFER_IN"}
            /\ pc[r] = "source" => mv[r].type = "TRANSFER_OUT"
            /\ pc[r] = "commit" => mv[r].type = "TRANSFER_IN"
            /\ mv[r].type = "TRANSFER_IN" => mv[r].item = dest[r]
            /\ mv[r].type = "TRANSFER_OUT" =>
                 mv[r].item[1] # dest[r][1] /\ mv[r].item[2] = dest[r][2]
            /\ Transferring(r) => mv[r].cost \in Int

\* What a transfer has posted: nothing, then what left the source, then also what
\* reached the destination, at the same unit cost.
Gone(r, w) == Post(NoPosting, <<"TRANSFER_OUT", <<w, dest[r][2]>>>>, mv[r].qty, mv[r].cost)

Come(r, w) == Post(Gone(r, w), <<"TRANSFER_IN", dest[r]>>, mv[r].qty, mv[r].cost)

HasPosted(r) ==
  IF ~Transferring(r) \/ mv[r].type = "TRANSFER_OUT"
    THEN posted[r] = NoPosting
    ELSE \E w \in Warehouse :
           /\ w # dest[r][1]
           /\ posted[r] = IF pc[r] = "commit" THEN Come(r, w) ELSE Gone(r, w)

\* What the movements of a type say of a product, warehouse by warehouse.
Quantities(m, type, p) == [w \in Warehouse |-> m[<<type, <<w, p>>>>].qty]

Values(m, type, p) == [w \in Warehouse |-> m[<<type, <<w, p>>>>].value]

\* TransfersBalance, with the sums in the form the lemmas on sums are about.
Balanced ==
  \A p \in Product :
    /\ SumOf(Quantities(moved, "TRANSFER_IN", p), Warehouse)
         = SumOf(Quantities(moved, "TRANSFER_OUT", p), Warehouse)
    /\ SumOf(Values(moved, "TRANSFER_IN", p), Warehouse)
         = SumOf(Values(moved, "TRANSFER_OUT", p), Warehouse)

StockInv == TypeOK /\ Arguments /\ Books /\ (\A r \in Req : HasPosted(r)) /\ Balanced

-----------------------------------------------------------------------------
(* Types and arguments.                                                    *)

LEMMA InitTypes == Init => TypeOK /\ Arguments
<1> SUFFICES ASSUME Init PROVE TypeOK /\ Arguments
  OBVIOUS
<1>1. Opening \in [Item -> StockRow]
  BY InputAssumption DEF StockRow
<1>2. stock \in TableOf(Item, StockRow)
  BY <1>1, NewTableFacts DEF Init
<1>3. NoRow \in StockRow
  BY DEF NoRow, StockRow
<1> QED
  BY <1>2, <1>3, NetNothing DEF Init, TypeOK, Arguments, Label

LEMMA TypeBooks ==
  ASSUME TypeOK, Arguments
  PROVE  BookTypes
<1>1. \A r \in Req : pc[r] = "idle" => pc[r] \notin {"source", "find", "upsert", "log", "unlogged"}
  OBVIOUS
<1> QED
  BY <1>1 DEF TypeOK, Arguments, BookTypes

\* Types and arguments after a step that only moves r on.
LEMMA MovedOn ==
  ASSUME TypeOK, Arguments, NEW r \in Req, NEW l \in Label,
         pc' = [pc EXCEPT ![r] = l], pc[r] # "idle",
         UNCHANGED <<op, mv, dest>>,
         stock' \in TableOf(Item, StockRow), moved' \in Ledger,
         posted' \in [Req -> Ledger], found' \in [Req -> StockRow],
         op[r] = "adjust" => l \in {"find", "upsert", "log"} \cup Answered,
         op[r] = "transfer" => /\ l # "source" \/ mv[r].type = "TRANSFER_OUT"
                               /\ l # "commit" \/ mv[r].type = "TRANSFER_IN"
                               /\ l \in {"find", "upsert", "log", "commit"} => mv[r].cost \in Int
  PROVE  TypeOK' /\ Arguments'
<1>1. TypeOK'
  BY DEF TypeOK
<1>2. Arguments'
  BY DEF Arguments, TypeOK, Transferring
<1> QED
  BY <1>1, <1>2

LEMMA TypeStep == TypeOK /\ Arguments /\ [Next]_vars => TypeOK' /\ Arguments'
<1> SUFFICES ASSUME TypeOK, Arguments, [Next]_vars PROVE TypeOK' /\ Arguments'
  OBVIOUS
<1>0. BookTypes
  BY TypeBooks
<1>1. CASE UNCHANGED vars
  BY <1>1 DEF vars, TypeOK, Arguments, Transferring
<1>2. ASSUME NEW r \in Req, NEW i \in Item, NEW q \in Quantity,
             NEW type \in {"ADJUSTMENT_IN", "ADJUSTMENT_OUT"},
             NEW c \in UnitCost \cup {NoCost}, StartAdjust(r, i, type, q, c)
      PROVE  TypeOK' /\ Arguments'
  <2> DEFINE m == [type |-> type, item |-> i, qty |-> q, cost |-> c]
  <2>1. m \in Movement /\ m.qty \in Quantity /\ m.type = type
    BY InputAssumption DEF Movement, MovementType
  <2>2. /\ pc[r] = "idle" /\ pc' = [pc EXCEPT ![r] = "find"]
        /\ op' = [op EXCEPT ![r] = "adjust"] /\ mv' = [mv EXCEPT ![r] = m]
        /\ UNCHANGED <<stock, moved, posted, found, dest>>
    BY <1>2 DEF StartAdjust
  <2> HIDE DEF m
  <2>3. TypeOK'
    BY <2>1, <2>2 DEF TypeOK, Arguments, Label
  <2>4. Arguments'
    BY <2>1, <2>2 DEF TypeOK, Arguments, Transferring
  <2> QED
    BY <2>3, <2>4
<1>3. ASSUME NEW r \in Req, NEW from \in Warehouse, NEW to \in Warehouse,
             NEW p \in Product, NEW q \in Quantity, StartTransfer(r, from, to, p, q)
      PROVE  TypeOK' /\ Arguments'
  <2> DEFINE m == [type |-> "TRANSFER_OUT", item |-> <<from, p>>, qty |-> q, cost |-> NoCost]
  <2>1. /\ m \in Movement /\ m.qty \in Quantity /\ m.type = "TRANSFER_OUT"
        /\ m.item = <<from, p>> /\ <<to, p>> \in Item /\ from # to
    BY <1>3, InputAssumption DEF StartTransfer, Movement, MovementType, Item
  <2>2. /\ pc[r] = "idle" /\ pc' = [pc EXCEPT ![r] = "source"]
        /\ op' = [op EXCEPT ![r] = "transfer"] /\ mv' = [mv EXCEPT ![r] = m]
        /\ dest' = [dest EXCEPT ![r] = <<to, p>>]
        /\ UNCHANGED <<stock, moved, posted, found>>
    BY <1>3 DEF StartTransfer
  <2> HIDE DEF m
  <2>3. TypeOK'
    BY <2>1, <2>2 DEF TypeOK, Arguments, Label
  <2>4. Arguments'
    BY <2>1, <2>2 DEF TypeOK, Arguments, Transferring
  <2> QED
    BY <2>3, <2>4
<1>4. ASSUME NEW r \in Req, FindStock(r), UNCHANGED <<op, dest>> PROVE TypeOK' /\ Arguments'
  <2>1. pc[r] = "find" /\ mv[r].item \in Item
    BY <1>4, MovementFacts DEF FindStock, TypeOK
  <2>2. found' \in [Req -> StockRow]
    BY <1>0, <1>4, <2>1, BookRows DEF FindStock, TypeOK
  <2>3. op[r] = "transfer" => mv[r].cost \in Int
    BY <2>1 DEF Arguments, Transferring
  <2> QED
    BY <1>4, <2>1, <2>2, <2>3, MovedOn DEF FindStock, TypeOK, Label
<1>5. ASSUME NEW r \in Req, DropStock(r), UNCHANGED <<op, dest>>,
             NEW l \in Answered, pc[r] # "idle", pc' = [pc EXCEPT ![r] = l]
      PROVE  TypeOK' /\ Arguments'
  <2>1. stock' \in TableOf(Item, StockRow)
    BY <1>5, RollbackFacts DEF DropStock, TypeOK
  <2>2. found' \in [Req -> StockRow] /\ posted' \in [Req -> Ledger]
    BY <1>5, NetNothing DEF DropStock, TypeOK, NoRow, StockRow
  <2> QED
    BY <1>5, <2>1, <2>2, MovedOn DEF DropStock, TypeOK, Label, Answered
<1>6. ASSUME NEW r \in Req, UpsertStock(r), UNCHANGED <<op, dest>> PROVE TypeOK' /\ Arguments'
  <2>1. pc[r] = "upsert" /\ mv[r] \in Movement /\ mv[r].item \in Item /\ found[r] \in StockRow
    BY <1>6, MovementFacts DEF UpsertStock, TypeOK
  <2> DEFINE row == Upserted(Seen(stock, r)[mv[r].item], mv[r], MovingAverage(found[r], mv[r]))
  <2>2. row \in StockRow
    BY <1>0, <2>1, BookRows, RowFacts
  <2>3. stock' = IF InTransaction(r) THEN Put(stock, r, mv[r].item, row)
                                     ELSE Save(stock, mv[r].item, row)
    BY <1>6 DEF UpsertStock
  <2> HIDE DEF row
  <2>4. stock' \in TableOf(Item, StockRow)
    BY <2>1, <2>2, <2>3, PutFacts, SaveFacts DEF TypeOK
  <2>5. op[r] = "transfer" => mv[r].cost \in Int
    BY <2>1 DEF Arguments, Transferring
  <2> QED
    BY <1>6, <2>1, <2>4, <2>5, MovedOn DEF UpsertStock, TypeOK, Label
<1>7. ASSUME NEW r \in Req, AdjustLogged(r) PROVE TypeOK' /\ Arguments'
  <2>1. op[r] = "adjust" /\ LogMovement(r, "ok") /\ UNCHANGED <<op, mv, dest>>
    BY <1>7 DEF AdjustLogged
  <2> QED
    BY <1>0, <2>1, LoggedFacts, MovedOn DEF TypeOK, Label, Answered
<1>8. ASSUME NEW r \in Req, ReadSource(r) PROVE TypeOK' /\ Arguments'
  <2>1. /\ pc[r] = "source" /\ mv[r] \in Movement /\ mv[r].item \in Item /\ op[r] = "transfer"
    BY <1>8, MovementFacts DEF ReadSource, TypeOK, Arguments, Answered
  <2> DEFINE c == Seen(stock, r)[mv[r].item].cost
             m == [mv[r] EXCEPT !.cost = c]
  <2>2. c \in Int
    BY <1>0, <2>1, BookRows DEF StockRow
  <2>3. /\ mv' = [mv EXCEPT ![r] = m] /\ pc' = [pc EXCEPT ![r] = "find"]
        /\ UNCHANGED <<stock, moved, posted, op, found, dest>>
    BY <1>8 DEF ReadSource
  <2> HIDE DEF c
  <2>4. /\ m \in Movement /\ m.type = mv[r].type /\ m.item = mv[r].item /\ m.qty = mv[r].qty
        /\ m.cost \in Int
    BY <2>1, <2>2 DEF Movement
  <2> HIDE DEF m
  <2>5. TypeOK'
    BY <2>1, <2>3, <2>4 DEF TypeOK, Arguments, Label
  <2>6. Arguments'
    BY <2>1, <2>3, <2>4 DEF TypeOK, Arguments, Transferring
  <2> QED
    BY <2>5, <2>6
<1>9. ASSUME NEW r \in Req, TransferOutLogged(r) PROVE TypeOK' /\ Arguments'
  <2>1. op[r] = "transfer" /\ LogMovement(r, "find") /\ UNCHANGED <<op, dest>>
    BY <1>9 DEF TransferOutLogged
  <2>2. /\ pc[r] = "log" /\ pc' = [pc EXCEPT ![r] = "find"] /\ mv[r] \in Movement
        /\ stock' \in TableOf(Item, StockRow) /\ moved' \in Ledger
        /\ posted' \in [Req -> Ledger] /\ found' \in [Req -> StockRow]
    BY <1>0, <2>1, LoggedFacts DEF TypeOK
  <2>3. dest[r] \in Item /\ mv[r].cost \in Int
    BY <2>1, <2>2 DEF TypeOK, Arguments, Transferring
  <2> DEFINE m == [mv[r] EXCEPT !.type = "TRANSFER_IN", !.item = dest[r]]
  <2>4. mv' = [mv EXCEPT ![r] = m]
    BY <1>9 DEF TransferOutLogged
  <2>5. /\ m \in Movement /\ m.type = "TRANSFER_IN" /\ m.item = dest[r] /\ m.qty = mv[r].qty
        /\ m.cost = mv[r].cost
    BY <2>2, <2>3 DEF Movement, MovementType
  <2> HIDE DEF m
  <2>6. TypeOK'
    BY <2>1, <2>2, <2>4, <2>5 DEF TypeOK, Arguments, Label
  <2>7. Arguments'
    BY <2>1, <2>2, <2>4, <2>5 DEF TypeOK, Arguments, Transferring
  <2> QED
    BY <2>6, <2>7
<1>10. ASSUME NEW r \in Req, TransferInLogged(r) PROVE TypeOK' /\ Arguments'
  <2>1. /\ op[r] = "transfer" /\ mv[r].type = "TRANSFER_IN"
        /\ LogMovement(r, "commit") /\ UNCHANGED <<op, mv, dest>>
    BY <1>10 DEF TransferInLogged
  <2>2. mv[r].cost \in Int
    BY <2>1 DEF LogMovement, Arguments, Transferring
  <2> QED
    BY <1>0, <2>1, <2>2, LoggedFacts, MovedOn DEF TypeOK, Label
<1>11. ASSUME NEW r \in Req, CommitTransfer(r) PROVE TypeOK' /\ Arguments'
  <2>1. /\ pc[r] = "commit" /\ op[r] = "transfer" /\ pc' = [pc EXCEPT ![r] = "ok"]
        /\ stock' = Commit(stock, r) /\ moved' = Merge(moved, posted[r])
        /\ posted' = [posted EXCEPT ![r] = NoPosting] /\ UNCHANGED <<op, mv, found, dest>>
    BY <1>11 DEF CommitTransfer, KeepStock
  <2>2. stock' \in TableOf(Item, StockRow)
    BY <2>1, CommitFacts DEF TypeOK
  <2>3. moved' \in Ledger /\ posted' \in [Req -> Ledger]
    BY <2>1, NetMerge, NetNothing DEF TypeOK
  <2> QED
    BY <2>1, <2>2, <2>3, MovedOn DEF TypeOK, Label, Answered
<1>12. ASSUME NEW r \in Req, RefuseMovement(r), UNCHANGED <<op, dest>> PROVE TypeOK' /\ Arguments'
  BY <1>5, <1>12 DEF RefuseMovement, Answered
<1>13. ASSUME NEW r \in Req, Abort(r) PROVE TypeOK' /\ Arguments'
  BY <1>5, <1>13 DEF Abort, InFlight, Answered
<1> QED
  BY <1>1, <1>2, <1>3, <1>4, <1>6, <1>7, <1>8, <1>9, <1>10, <1>11, <1>12, <1>13
     DEF Next, Start, Step

-----------------------------------------------------------------------------
(* Sums over the warehouses.                                               *)

LEMMA RowInts ==
  ASSUME NEW m \in Ledger, NEW t \in MovementType, NEW p \in Product, NEW w \in Warehouse
  PROVE  /\ <<t, <<w, p>>>> \in MovementType \X Item
         /\ Quantities(m, t, p)[w] = m[<<t, <<w, p>>>>].qty
         /\ Values(m, t, p)[w] = m[<<t, <<w, p>>>>].value
         /\ Quantities(m, t, p)[w] \in Int /\ Values(m, t, p)[w] \in Int
<1>1. <<t, <<w, p>>>> \in MovementType \X Item
  BY DEF Item
<1> QED
  BY <1>1 DEF Quantities, Values, Ledger

\* A posting adds its quantity and its value to the sums of its type and product.
LEMMA SumPosted ==
  ASSUME NEW m \in Ledger, NEW t \in MovementType, NEW v \in Warehouse, NEW o \in Product,
         NEW q \in Int, NEW c \in Int, NEW s \in MovementType, NEW p \in Product
  PROVE  LET n == Post(m, <<t, <<v, o>>>>, q, c)
         IN  /\ n \in Ledger
             /\ SumOf(Quantities(n, s, p), Warehouse) =
                  SumOf(Quantities(m, s, p), Warehouse) + (IF s = t /\ p = o THEN q ELSE 0)
             /\ SumOf(Values(n, s, p), Warehouse) =
                  SumOf(Values(m, s, p), Warehouse) + (IF s = t /\ p = o THEN q * c ELSE 0)
             /\ SumOf(Quantities(m, s, p), Warehouse) \in Int
             /\ SumOf(Values(m, s, p), Warehouse) \in Int
<1> DEFINE x == <<t, <<v, o>>>>
           n == Post(m, x, q, c)
           d == q * c
<1>1. x \in MovementType \X Item /\ d \in Int
  BY RowInts
<1>2. n \in Ledger
      /\ \A y \in MovementType \X Item :
           /\ n[y].qty = IF y = x THEN m[y].qty + q ELSE m[y].qty
           /\ n[y].value = IF y = x THEN m[y].value + d ELSE m[y].value
  BY <1>1, PostFacts
<1>3. \A w \in Warehouse : <<s, <<w, p>>>> = x <=> s = t /\ p = o /\ w = v
  OBVIOUS
<1> HIDE DEF n, x, d
<1> DEFINE f == Quantities(m, s, p)
           g == Quantities(n, s, p)
           h == Values(m, s, p)
           k == Values(n, s, p)
<1>4. \A w \in Warehouse : /\ f[w] \in Int /\ g[w] \in Int /\ h[w] \in Int /\ k[w] \in Int
                           /\ g[w] = IF s = t /\ p = o /\ w = v THEN f[w] + q ELSE f[w]
                           /\ k[w] = IF s = t /\ p = o /\ w = v THEN h[w] + d ELSE h[w]
  <2> SUFFICES ASSUME NEW w \in Warehouse
               PROVE  /\ f[w] \in Int /\ g[w] \in Int /\ h[w] \in Int /\ k[w] \in Int
                      /\ g[w] = IF s = t /\ p = o /\ w = v THEN f[w] + q ELSE f[w]
                      /\ k[w] = IF s = t /\ p = o /\ w = v THEN h[w] + d ELSE h[w]
    OBVIOUS
  <2> DEFINE y == <<s, <<w, p>>>>
  <2>1. /\ y \in MovementType \X Item
        /\ f[w] = m[y].qty /\ h[w] = m[y].value /\ f[w] \in Int /\ h[w] \in Int
    BY RowInts
  <2>2. g[w] = n[y].qty /\ k[w] = n[y].value /\ g[w] \in Int /\ k[w] \in Int
    BY <1>2, RowInts
  <2>3. y = x <=> s = t /\ p = o /\ w = v
    BY <1>3
  <2> HIDE DEF f, g, h, k, y
  <2> QED
    BY <1>2, <2>1, <2>2, <2>3
<1> HIDE DEF f, g, h, k
<1>5. SumOf(f, Warehouse) \in Int /\ SumOf(h, Warehouse) \in Int
  BY <1>4, WarehouseAssumption, SumFacts
<1>6. CASE s = t /\ p = o
  <2>1. SumOf(g, Warehouse) = SumOf(f, Warehouse) + g[v] - f[v]
    BY <1>4, WarehouseAssumption, SumChange
  <2>2. SumOf(k, Warehouse) = SumOf(h, Warehouse) + k[v] - h[v]
    BY <1>4, WarehouseAssumption, SumChange
  <2>3. g[v] = f[v] + q /\ k[v] = h[v] + d /\ f[v] \in Int /\ h[v] \in Int
    BY <1>4, <1>6
  <2> QED
    BY <1>1, <1>2, <1>5, <1>6, <2>1, <2>2, <2>3 DEF f, g, h, k, n, x, d
<1>7. CASE ~(s = t /\ p = o)
  <2>1. SumOf(g, Warehouse) = SumOf(f, Warehouse)
    BY <1>4, <1>7, WarehouseAssumption, SumSame
  <2>2. SumOf(k, Warehouse) = SumOf(h, Warehouse)
    BY <1>4, <1>7, WarehouseAssumption, SumSame
  <2> QED
    BY <1>2, <1>5, <1>7, <2>1, <2>2 DEF f, g, h, k, n, x, d
<1> QED
  BY <1>6, <1>7

LEMMA SumMerged ==
  ASSUME NEW m \in Ledger, NEW n \in Ledger, NEW t \in MovementType, NEW p \in Product
  PROVE  /\ SumOf(Quantities(Merge(m, n), t, p), Warehouse) =
              SumOf(Quantities(m, t, p), Warehouse) + SumOf(Quantities(n, t, p), Warehouse)
         /\ SumOf(Values(Merge(m, n), t, p), Warehouse) =
              SumOf(Values(m, t, p), Warehouse) + SumOf(Values(n, t, p), Warehouse)
<1> DEFINE k == Merge(m, n)
<1>1. k \in Ledger
      /\ \A x \in MovementType \X Item : k[x].qty = m[x].qty + n[x].qty
                                         /\ k[x].value = m[x].value + n[x].value
  BY NetMerge
<1> HIDE DEF k
<1>2. \A w \in Warehouse :
        /\ Quantities(m, t, p)[w] \in Int /\ Quantities(n, t, p)[w] \in Int
        /\ Quantities(k, t, p)[w] = Quantities(m, t, p)[w] + Quantities(n, t, p)[w]
        /\ Values(m, t, p)[w] \in Int /\ Values(n, t, p)[w] \in Int
        /\ Values(k, t, p)[w] = Values(m, t, p)[w] + Values(n, t, p)[w]
  <2> TAKE w \in Warehouse
  <2> DEFINE y == <<t, <<w, p>>>>
  <2>1. /\ y \in MovementType \X Item
        /\ Quantities(m, t, p)[w] = m[y].qty /\ Values(m, t, p)[w] = m[y].value
        /\ Quantities(m, t, p)[w] \in Int /\ Values(m, t, p)[w] \in Int
    BY RowInts
  <2>2. /\ Quantities(n, t, p)[w] = n[y].qty /\ Values(n, t, p)[w] = n[y].value
        /\ Quantities(n, t, p)[w] \in Int /\ Values(n, t, p)[w] \in Int
    BY RowInts
  <2>3. Quantities(k, t, p)[w] = k[y].qty /\ Values(k, t, p)[w] = k[y].value
    BY <1>1, RowInts
  <2> HIDE DEF y
  <2> QED
    BY <1>1, <2>1, <2>2, <2>3
<1> QED
  BY <1>2, WarehouseAssumption, SumPlus DEF k

LEMMA SumNothing ==
  ASSUME NEW t \in MovementType, NEW p \in Product
  PROVE  /\ SumOf(Quantities(NoPosting, t, p), Warehouse) = 0
         /\ SumOf(Values(NoPosting, t, p), Warehouse) = 0
<1> DEFINE f == Quantities(NoPosting, t, p)
           g == Values(NoPosting, t, p)
<1>1. \A w \in Warehouse : f[w] = 0 /\ g[w] = 0
  <2> TAKE w \in Warehouse
  <2> DEFINE y == <<t, <<w, p>>>>
  <2>1. y \in MovementType \X Item /\ f[w] = NoPosting[y].qty /\ g[w] = NoPosting[y].value
    BY RowInts, NetNothing
  <2> HIDE DEF y, f, g
  <2> QED
    BY <2>1, NetNothing
<1> HIDE DEF f, g
<1>2. \A w \in Warehouse : /\ f[w] \in Int /\ f[w] = f[w] + f[w]
                           /\ g[w] \in Int /\ g[w] = g[w] + g[w]
  BY <1>1
<1>3. SumOf(f, Warehouse) = SumOf(f, Warehouse) + SumOf(f, Warehouse)
      /\ SumOf(g, Warehouse) = SumOf(g, Warehouse) + SumOf(g, Warehouse)
  BY <1>2, WarehouseAssumption, SumPlus
<1>4. SumOf(f, Warehouse) \in Int /\ SumOf(g, Warehouse) \in Int
  BY <1>2, WarehouseAssumption, SumFacts
<1>5. \A a \in Int : a = a + a => a = 0
  OBVIOUS
<1>6. SumOf(f, Warehouse) = 0 /\ SumOf(g, Warehouse) = 0
  BY <1>3, <1>4, <1>5
<1> QED
  BY <1>6 DEF f, g

-----------------------------------------------------------------------------
(* The invariant holds.                                                    *)

\* What a transfer has posted when it commits.
LEMMA TransferPosted ==
  ASSUME TypeOK, Arguments, NEW r \in Req, op[r] = "transfer", pc[r] = "commit", HasPosted(r)
  PROVE  \E w \in Warehouse :
           /\ w # dest[r][1]
           /\ posted[r] = Come(r, w) /\ Come(r, w) \in Ledger
           /\ \A i \in Item : Net(posted[r], i) =
                IF i = <<w, dest[r][2]>> THEN -mv[r].qty ELSE IF i = dest[r] THEN mv[r].qty ELSE 0
           /\ \A p \in Product :
                /\ SumOf(Quantities(posted[r], "TRANSFER_IN", p), Warehouse)
                     = SumOf(Quantities(posted[r], "TRANSFER_OUT", p), Warehouse)
                /\ SumOf(Values(posted[r], "TRANSFER_IN", p), Warehouse)
                     = SumOf(Values(posted[r], "TRANSFER_OUT", p), Warehouse)
<1>1. /\ mv[r].type = "TRANSFER_IN" /\ dest[r] \in Item /\ mv[r].qty \in Quantity
      /\ mv[r].cost \in Int /\ Transferring(r)
  BY DEF TypeOK, Arguments, Transferring
<1>2. PICK w \in Warehouse : w # dest[r][1] /\ posted[r] = Come(r, w)
  BY <1>1 DEF HasPosted
<1> DEFINE d == dest[r]
           n == mv[r].qty
           c == mv[r].cost
           s == <<w, d[2]>>
           out == Post(NoPosting, <<"TRANSFER_OUT", s>>, n, c)
           in == Post(out, <<"TRANSFER_IN", d>>, n, c)
<1>3. /\ d \in Item /\ d = <<d[1], d[2]>> /\ d[1] \in Warehouse /\ d[2] \in Product
      /\ s \in Item /\ s # d /\ n \in Int /\ c \in Int
  <2>1. n \in Int /\ c \in Int /\ d \in Item
    <3>1. \A q \in Quantity : q \in Int
      BY InputAssumption
    <3> QED
      BY <1>1, <3>1
  <2>2. d = <<d[1], d[2]>> /\ d[1] \in Warehouse /\ d[2] \in Product
    BY <2>1 DEF Item
  <2> HIDE DEF d, n, c
  <2>3. s \in Item /\ s # <<d[1], d[2]>>
    BY <1>2, <2>2 DEF Item, d
  <2> QED
    BY <2>1, <2>2, <2>3
<1>4. posted[r] = in /\ Come(r, w) = in
  BY <1>2 DEF Come, Gone
<1>5. /\ "TRANSFER_IN" \in MovementType /\ "TRANSFER_OUT" \in MovementType
      /\ \A q \in Int : Sign("TRANSFER_IN", q) = q /\ Sign("TRANSFER_OUT", q) = -q
  BY TypesSign DEF Sign
<1> HIDE DEF d, n, c, s
<1>6. /\ out \in Ledger
      /\ \A i \in Item : Net(out, i) = IF i = s THEN -n ELSE 0
  <2>1. out \in Ledger
    <3>1. <<"TRANSFER_OUT", s>> \in MovementType \X Item
      BY <1>3, <1>5
    <3> QED
      BY <1>3, <3>1, NetNothing, PostFacts
  <2>2. \A i \in Item : Net(out, i) = Net(NoPosting, i) + (IF i = s THEN Sign("TRANSFER_OUT", n) ELSE 0)
    BY <1>3, <1>5, NetNothing, NetPost
  <2> QED
    BY <1>3, <1>5, <2>1, <2>2, NetNothing
<1>7. /\ in \in Ledger
      /\ \A i \in Item : Net(in, i) = IF i = s THEN -n ELSE IF i = d THEN n ELSE 0
  <2> HIDE DEF out
  <2>1. in \in Ledger
    <3>1. <<"TRANSFER_IN", d>> \in MovementType \X Item
      BY <1>3, <1>5
    <3> QED
      BY <1>3, <1>6, <3>1, PostFacts
  <2>2. \A i \in Item : Net(in, i) = Net(out, i) + (IF i = d THEN Sign("TRANSFER_IN", n) ELSE 0)
    BY <1>3, <1>5, <1>6, NetPost
  <2> HIDE DEF in
  <2>3. \A i \in Item : Net(in, i) = (IF i = s THEN -n ELSE 0) + (IF i = d THEN n ELSE 0)
    BY <1>3, <1>5, <1>6, <2>2
  <2> QED
    BY <1>3, <2>1, <2>3
<1>8. ASSUME NEW p \in Product
      PROVE  /\ SumOf(Quantities(in, "TRANSFER_IN", p), Warehouse)
                  = SumOf(Quantities(in, "TRANSFER_OUT", p), Warehouse)
             /\ SumOf(Values(in, "TRANSFER_IN", p), Warehouse)
                  = SumOf(Values(in, "TRANSFER_OUT", p), Warehouse)
  <2> DEFINE q == IF p = d[2] THEN n ELSE 0
             v == IF p = d[2] THEN n * c ELSE 0
  <2>0. q \in Int /\ v \in Int
    BY <1>3
  <2>1. /\ SumOf(Quantities(out, "TRANSFER_OUT", p), Warehouse) = q
        /\ SumOf(Values(out, "TRANSFER_OUT", p), Warehouse) = v
        /\ SumOf(Quantities(out, "TRANSFER_IN", p), Warehouse) = 0
        /\ SumOf(Values(out, "TRANSFER_IN", p), Warehouse) = 0
    <3> DEFINE O == "TRANSFER_OUT"
               I == "TRANSFER_IN"
    <3>1. \A t \in {O, I} :
            /\ SumOf(Quantities(out, t, p), Warehouse) =
                 SumOf(Quantities(NoPosting, t, p), Warehouse) + (IF t = O /\ p = d[2] THEN n ELSE 0)
            /\ SumOf(Values(out, t, p), Warehouse) =
                 SumOf(Values(NoPosting, t, p), Warehouse) + (IF t = O /\ p = d[2] THEN n * c ELSE 0)
      BY <1>3, <1>5, NetNothing, SumPosted DEF s
    <3>2. \A t \in {O, I} : /\ SumOf(Quantities(NoPosting, t, p), Warehouse) = 0
                            /\ SumOf(Values(NoPosting, t, p), Warehouse) = 0
      BY <1>5, SumNothing
    <3> HIDE DEF out
    <3> QED
      BY <1>3, <2>0, <3>1, <3>2
  <2> HIDE DEF out
  <2>2. \A t \in {"TRANSFER_OUT", "TRANSFER_IN"} :
            /\ SumOf(Quantities(in, t, p), Warehouse) =
                 SumOf(Quantities(out, t, p), Warehouse) + (IF t = "TRANSFER_IN" /\ p = d[2] THEN n ELSE 0)
            /\ SumOf(Values(in, t, p), Warehouse) =
                 SumOf(Values(out, t, p), Warehouse) + (IF t = "TRANSFER_IN" /\ p = d[2] THEN n * c ELSE 0)
    <3> DEFINE x == <<"TRANSFER_IN", <<d[1], d[2]>>>>
    <3>1. in = Post(out, x, n, c)
      BY <1>3
    <3> QED
      BY <1>3, <1>5, <1>6, <3>1, SumPosted
  <2> HIDE DEF in
  <2> QED
    BY <2>0, <2>1, <2>2
<1> HIDE DEF in, out
<1> QED
  BY <1>2, <1>4, <1>7, <1>8 DEF d, n, s

LEMMA InitInv == Init => StockInv
<1> SUFFICES ASSUME Init PROVE StockInv
  OBVIOUS
<1>1. TypeOK /\ Arguments
  BY InitTypes
<1>2. Books
  BY BooksInit DEF Init
<1>3. \A r \in Req : HasPosted(r)
  BY DEF Init, HasPosted, Transferring
<1>4. Balanced
  <2>1. moved = NoPosting
    BY DEF Init
  <2> QED
    BY <2>1, SumNothing, TypesSign DEF Balanced
<1> QED
  BY <1>1, <1>2, <1>3, <1>4 DEF StockInv

\* A step of r that posts nothing.
LEMMA PostedKept ==
  ASSUME StockInv, NEW r \in Req, NEW l, pc' = [pc EXCEPT ![r] = l], UNCHANGED posted,
         \A q \in Req \ {r} : op'[q] = op[q] /\ mv'[q] = mv[q] /\ dest'[q] = dest[q],
         \/ l \in {"source", "find"} /\ pc[r] \in {"idle", "source"}
              /\ (op'[r] = "transfer" => mv'[r].type = "TRANSFER_OUT")
         \/ l # "commit" /\ pc[r] # "commit" /\ UNCHANGED <<op, mv, dest>>
              /\ (l \in {"find", "upsert", "log"} <=> pc[r] \in {"find", "upsert", "log"})
         \/ op[r] = "adjust" /\ UNCHANGED op
  PROVE  \A q \in Req : HasPosted(q)'
<1>1. TypeOK /\ \A q \in Req : HasPosted(q)
  BY DEF StockInv
<1>2. ASSUME NEW q \in Req \ {r} PROVE HasPosted(q)'
  <2>1. pc'[q] = pc[q] /\ op'[q] = op[q] /\ mv'[q] = mv[q] /\ dest'[q] = dest[q]
    BY <1>1, <1>2 DEF TypeOK
  <2>2. \A w \in Warehouse : Come(q, w)' = Come(q, w) /\ Gone(q, w)' = Gone(q, w)
    BY <2>1 DEF Come, Gone
  <2> HIDE DEF Come, Gone
  <2> QED
    BY <1>1, <2>1, <2>2 DEF HasPosted, Transferring
<1>3. HasPosted(r)'
  <2>1. pc'[r] = l
    BY <1>1 DEF TypeOK
  <2>2. CASE l \in {"source", "find"} /\ pc[r] \in {"idle", "source"}
              /\ (op'[r] = "transfer" => mv'[r].type = "TRANSFER_OUT")
    <3>1. posted[r] = NoPosting
      BY <1>1, <2>2 DEF HasPosted, Transferring
    <3> QED
      BY <2>1, <2>2, <3>1 DEF HasPosted, Transferring
  <2>3. CASE l # "commit" /\ pc[r] # "commit" /\ UNCHANGED <<op, mv, dest>>
              /\ (l \in {"find", "upsert", "log"} <=> pc[r] \in {"find", "upsert", "log"})
    <3>1. \A w \in Warehouse : Come(r, w)' = Come(r, w) /\ Gone(r, w)' = Gone(r, w)
      BY <2>3 DEF Come, Gone
    <3> HIDE DEF Come, Gone
    <3> QED
      BY <1>1, <2>1, <2>3, <3>1 DEF HasPosted, Transferring
  <2>4. CASE op[r] = "adjust" /\ UNCHANGED op
    BY <1>1, <2>4 DEF HasPosted, Transferring
  <2> QED
    BY <2>2, <2>3, <2>4
<1> QED
  BY <1>2, <1>3

\* r's transaction ends.
LEMMA PostedEnded ==
  ASSUME StockInv, NEW r \in Req, NEW l \in Answered, pc' = [pc EXCEPT ![r] = l],
         posted' = [posted EXCEPT ![r] = NoPosting], UNCHANGED <<op, mv, dest>>
  PROVE  \A q \in Req : HasPosted(q)'
<1>1. TypeOK /\ \A q \in Req : HasPosted(q)
  BY DEF StockInv
<1>2. ASSUME NEW q \in Req \ {r} PROVE HasPosted(q)'
  <2>1. pc'[q] = pc[q] /\ posted'[q] = posted[q]
    BY <1>1 DEF TypeOK
  <2>2. \A w \in Warehouse : Come(q, w)' = Come(q, w) /\ Gone(q, w)' = Gone(q, w)
    BY DEF Come, Gone
  <2> HIDE DEF Come, Gone
  <2> QED
    BY <1>1, <2>1, <2>2 DEF HasPosted, Transferring
<1>3. HasPosted(r)'
  BY <1>1 DEF TypeOK, HasPosted, Transferring, Answered
<1> QED
  BY <1>2, <1>3

LEMMA BooksStutter ==
  ASSUME Books, UNCHANGED <<stock, moved, posted, pc, op, mv, found, dest>>
  PROVE  Books'
BY DEF Books, BookTypes, Holders, Held, Counted, Cut, Change, Unlogged, Ahead, InTransaction

LEMMA BooksNext == Books /\ [Next]_vars => Books'
<1> SUFFICES ASSUME Books, [Next]_vars PROVE Books'
  OBVIOUS
<1>1. CASE UNCHANGED vars
  BY <1>1, BooksStutter DEF vars
<1>2. CASE Next
  BY <1>2, BooksStep DEF Next
<1> QED
  BY <1>1, <1>2

LEMMA InvStep == StockInv /\ [Next]_vars => StockInv'
<1> DEFINE Kept == (\A q \in Req : HasPosted(q)') /\ Balanced'
<1> SUFFICES ASSUME StockInv, [Next]_vars PROVE Kept
  BY TypeStep, BooksNext DEF StockInv
<1>1. TypeOK /\ Arguments /\ BookTypes /\ \A q \in Req : HasPosted(q)
  BY DEF StockInv, Books
<1>2. moved' = moved => Balanced'
  BY DEF StockInv, Balanced
<1>3. CASE UNCHANGED vars
  <2>1. \A q \in Req, w \in Warehouse : Come(q, w)' = Come(q, w) /\ Gone(q, w)' = Gone(q, w)
    BY <1>3 DEF vars, Come, Gone
  <2> HIDE DEF Come, Gone
  <2> QED
    BY <1>1, <1>2, <1>3, <2>1 DEF vars, HasPosted, Transferring
<1>4. ASSUME NEW r \in Req, Start(r) PROVE Kept
  <2>1. ASSUME NEW i \in Item, NEW q \in Quantity,
               NEW type \in {"ADJUSTMENT_IN", "ADJUSTMENT_OUT"},
               NEW c \in UnitCost \cup {NoCost}, StartAdjust(r, i, type, q, c)
        PROVE  Kept
    <3>1. op'[r] = "adjust" /\ \A x \in Req \ {r} : op'[x] = op[x] /\ mv'[x] = mv[x] /\ dest'[x] = dest[x]
      BY <1>1, <2>1 DEF StartAdjust, BookTypes
    <3> QED
      BY <1>2, <2>1, <3>1, PostedKept DEF StartAdjust
  <2>2. ASSUME NEW from \in Warehouse, NEW to \in Warehouse,
               NEW p \in Product, NEW q \in Quantity, StartTransfer(r, from, to, p, q)
        PROVE  Kept
    <3>1. /\ mv'[r].type = "TRANSFER_OUT"
          /\ \A x \in Req \ {r} : op'[x] = op[x] /\ mv'[x] = mv[x] /\ dest'[x] = dest[x]
      BY <1>1, <2>2 DEF StartTransfer, BookTypes
    <3> QED
      BY <1>2, <2>2, <3>1, PostedKept DEF StartTransfer
  <2> QED
    BY <1>4, <2>1, <2>2 DEF Start
<1>5. ASSUME NEW r \in Req, FindStock(r), UNCHANGED <<op, dest>> PROVE Kept
  BY <1>2, <1>5, PostedKept DEF FindStock
<1>6. ASSUME NEW r \in Req, UpsertStock(r), UNCHANGED <<op, dest>> PROVE Kept
  BY <1>2, <1>6, PostedKept DEF UpsertStock
<1>7. ASSUME NEW r \in Req, ReadSource(r) PROVE Kept
  <2>1. pc[r] = "source" /\ op[r] = "transfer" /\ mv[r] \in Movement /\ mv[r].type = "TRANSFER_OUT"
    BY <1>1, <1>7 DEF ReadSource, TypeOK, Arguments, Answered
  <2>2. /\ mv'[r].type = "TRANSFER_OUT" /\ UNCHANGED <<op, dest>>
        /\ \A x \in Req \ {r} : mv'[x] = mv[x]
    BY <1>1, <1>7, <2>1 DEF ReadSource, BookTypes, Movement
  <2> QED
    BY <1>2, <1>7, <2>1, <2>2, PostedKept DEF ReadSource
<1>8. ASSUME NEW r \in Req, AdjustLogged(r) PROVE Kept
  <2>1. /\ op[r] = "adjust" /\ LogMovement(r, "ok") /\ UNCHANGED <<op, mv, dest>>
        /\ ~InTransaction(r)
    BY <1>8 DEF AdjustLogged, InTransaction
  <2>2. pc' = [pc EXCEPT ![r] = "ok"] /\ posted' = posted
    BY <1>1, <2>1, LoggedFacts
  <2>3. \A q \in Req : HasPosted(q)'
    BY <2>1, <2>2, PostedKept
  <2> DEFINE c == LoggedCost(found[r], mv[r])
             t == mv[r].type
             n == mv[r].qty
             i == mv[r].item
  <2>4. moved' = Post(moved, <<t, i>>, n, c)
    BY <2>1 DEF LogMovement
  <2>5. /\ t \in {"ADJUSTMENT_IN", "ADJUSTMENT_OUT"} /\ t \in MovementType
        /\ n \in Int /\ c \in Int /\ i = <<i[1], i[2]>> /\ i[1] \in Warehouse /\ i[2] \in Product
    <3>1. mv[r] \in Movement /\ found[r] \in StockRow /\ pc[r] = "log"
      BY <1>1, <2>1 DEF LogMovement, BookTypes
    <3>2. t \in {"ADJUSTMENT_IN", "ADJUSTMENT_OUT"}
      BY <1>1, <2>1, <3>1 DEF Arguments
    <3>3. t \in MovementType /\ n \in Int /\ i \in Item
      BY <3>1, MovementFacts
    <3>4. c \in Int
      BY <3>1, RowFacts
    <3> HIDE DEF t, n, i, c
    <3> QED
      BY <3>2, <3>3, <3>4 DEF Item
  <2> HIDE DEF c, t, n, i
  <2>6. \A p \in Product, s \in {"TRANSFER_IN", "TRANSFER_OUT"} :
          /\ SumOf(Quantities(moved', s, p), Warehouse) = SumOf(Quantities(moved, s, p), Warehouse)
          /\ SumOf(Values(moved', s, p), Warehouse) = SumOf(Values(moved, s, p), Warehouse)
    <3> SUFFICES ASSUME NEW p \in Product, NEW s \in {"TRANSFER_IN", "TRANSFER_OUT"}
                 PROVE  /\ SumOf(Quantities(moved', s, p), Warehouse)
                             = SumOf(Quantities(moved, s, p), Warehouse)
                        /\ SumOf(Values(moved', s, p), Warehouse)
                             = SumOf(Values(moved, s, p), Warehouse)
      OBVIOUS
    <3>1. moved \in Ledger /\ s \in MovementType /\ s # t
      BY <1>1, <2>5, TypesSign DEF BookTypes
    <3>2. moved' = Post(moved, <<t, <<i[1], i[2]>>>>, n, c)
      BY <2>4, <2>5
    <3> QED
      BY <2>5, <3>1, <3>2, SumPosted
  <2>7. Balanced'
    BY <2>6 DEF StockInv, Balanced
  <2> QED
    BY <2>3, <2>7
<1>9. ASSUME NEW r \in Req, NEW l, op[r] = "transfer", LogMovement(r, l)
      PROVE  /\ posted' = [posted EXCEPT ![r] =
                             Post(posted[r], <<mv[r].type, mv[r].item>>, mv[r].qty, mv[r].cost)]
             /\ moved' = moved /\ pc' = [pc EXCEPT ![r] = l]
             /\ pc[r] = "log" /\ Transferring(r)
             /\ mv[r] \in Movement /\ dest[r] \in Item /\ mv[r].item \in Item
  <2>1. pc[r] = "log" /\ InTransaction(r) /\ mv[r].cost \in Int /\ Transferring(r)
    BY <1>1, <1>9 DEF LogMovement, InTransaction, Arguments, Transferring
  <2>2. LoggedCost(found[r], mv[r]) = mv[r].cost
    BY <2>1, InputAssumption DEF LoggedCost
  <2>3. mv[r] \in Movement /\ dest[r] \in Item /\ mv[r].item \in Item
    BY <1>1, <1>9, <2>1, MovementFacts DEF BookTypes
  <2> QED
    BY <1>9, <2>1, <2>2, <2>3 DEF LogMovement
<1>10. ASSUME NEW r \in Req, UNCHANGED <<op, dest>>, NEW l, pc' = [pc EXCEPT ![r] = l],
              \A q \in Req \ {r} : posted'[q] = posted[q] /\ mv'[q] = mv[q], NEW q \in Req \ {r}
       PROVE  HasPosted(q)'
  <2>1. pc'[q] = pc[q] /\ mv'[q] = mv[q] /\ posted'[q] = posted[q]
    BY <1>1, <1>10 DEF BookTypes
  <2>2. \A w \in Warehouse : Come(q, w)' = Come(q, w) /\ Gone(q, w)' = Gone(q, w)
    BY <1>10, <2>1 DEF Come, Gone
  <2> HIDE DEF Come, Gone
  <2> QED
    BY <1>1, <1>10, <2>1, <2>2 DEF HasPosted, Transferring
<1>11. ASSUME NEW r \in Req, TransferOutLogged(r) PROVE Kept
  <2> DEFINE m == [mv[r] EXCEPT !.type = "TRANSFER_IN", !.item = dest[r]]
  <2>1. /\ op[r] = "transfer" /\ mv[r].type = "TRANSFER_OUT" /\ LogMovement(r, "find")
        /\ mv' = [mv EXCEPT ![r] = m] /\ UNCHANGED <<op, dest>>
    BY <1>11 DEF TransferOutLogged
  <2>2. /\ posted' = [posted EXCEPT ![r] =
                        Post(posted[r], <<mv[r].type, mv[r].item>>, mv[r].qty, mv[r].cost)]
        /\ moved' = moved /\ pc' = [pc EXCEPT ![r] = "find"] /\ Transferring(r)
        /\ mv[r] \in Movement /\ dest[r] \in Item /\ mv[r].item \in Item /\ pc[r] = "log"
    BY <1>9, <2>1
  <2>3. /\ m.type = "TRANSFER_IN" /\ m.qty = mv[r].qty /\ m.cost = mv[r].cost
    BY <2>2 DEF Movement
  <2> HIDE DEF m
  <2>4. /\ mv'[r] = m /\ pc'[r] = "find"
        /\ posted'[r] = Post(posted[r], <<mv[r].type, mv[r].item>>, mv[r].qty, mv[r].cost)
        /\ \A q \in Req \ {r} : posted'[q] = posted[q] /\ mv'[q] = mv[q]
    BY <1>1, <2>1, <2>2 DEF BookTypes
  <2>5. posted[r] = NoPosting
    BY <1>1, <2>1 DEF HasPosted
  <2>6. PICK w \in Warehouse : mv[r].item = <<w, dest[r][2]>> /\ w # dest[r][1]
    BY <1>1, <2>1, <2>2 DEF Arguments, Item
  <2>7. posted'[r] = Gone(r, w)'
    BY <2>1, <2>3, <2>4, <2>5, <2>6 DEF Gone
  <2> HIDE DEF Gone
  <2>8. HasPosted(r)'
    BY <2>1, <2>3, <2>4, <2>6, <2>7 DEF HasPosted, Transferring
  <2> QED
    BY <1>2, <1>10, <2>1, <2>2, <2>4, <2>8
<1>12. ASSUME NEW r \in Req, TransferInLogged(r) PROVE Kept
  <2>1. /\ op[r] = "transfer" /\ mv[r].type = "TRANSFER_IN" /\ LogMovement(r, "commit")
        /\ UNCHANGED <<op, mv, dest>>
    BY <1>12 DEF TransferInLogged
  <2>2. /\ posted' = [posted EXCEPT ![r] =
                        Post(posted[r], <<mv[r].type, mv[r].item>>, mv[r].qty, mv[r].cost)]
        /\ moved' = moved /\ pc' = [pc EXCEPT ![r] = "commit"] /\ Transferring(r)
        /\ pc[r] = "log"
    BY <1>9, <2>1
  <2>3. /\ pc'[r] = "commit"
        /\ posted'[r] = Post(posted[r], <<mv[r].type, mv[r].item>>, mv[r].qty, mv[r].cost)
        /\ \A q \in Req \ {r} : posted'[q] = posted[q] /\ mv'[q] = mv[q]
    BY <1>1, <2>1, <2>2 DEF BookTypes
  <2>4. mv[r].item = dest[r]
    BY <1>1, <2>1, <2>2 DEF Arguments
  <2>5. PICK w \in Warehouse : w # dest[r][1] /\ posted[r] = Gone(r, w)
    BY <1>1, <2>1, <2>2 DEF HasPosted
  <2>6. posted'[r] = Come(r, w)'
    BY <2>1, <2>3, <2>4, <2>5 DEF Come, Gone
  <2> HIDE DEF Come
  <2>7. HasPosted(r)'
    BY <2>1, <2>3, <2>5, <2>6 DEF HasPosted, Transferring
  <2> QED
    BY <1>2, <1>10, <2>1, <2>2, <2>3, <2>7
<1>13. ASSUME NEW r \in Req, CommitTransfer(r) PROVE Kept
  <2>1. /\ pc[r] = "commit" /\ op[r] = "transfer" /\ pc' = [pc EXCEPT ![r] = "ok"]
        /\ moved' = Merge(moved, posted[r])
        /\ posted' = [posted EXCEPT ![r] = NoPosting] /\ UNCHANGED <<op, mv, dest>>
    BY <1>13 DEF CommitTransfer, KeepStock
  <2>2. \A q \in Req : HasPosted(q)'
    BY <2>1, PostedEnded DEF Answered
  <2>3. \A p \in Product :
          /\ SumOf(Quantities(posted[r], "TRANSFER_IN", p), Warehouse)
               = SumOf(Quantities(posted[r], "TRANSFER_OUT", p), Warehouse)
          /\ SumOf(Values(posted[r], "TRANSFER_IN", p), Warehouse)
               = SumOf(Values(posted[r], "TRANSFER_OUT", p), Warehouse)
    BY <1>1, <2>1, TransferPosted
  <2>4. \A p \in Product, t \in {"TRANSFER_IN", "TRANSFER_OUT"} :
          /\ SumOf(Quantities(moved', t, p), Warehouse) =
               SumOf(Quantities(moved, t, p), Warehouse) + SumOf(Quantities(posted[r], t, p), Warehouse)
          /\ SumOf(Values(moved', t, p), Warehouse) =
               SumOf(Values(moved, t, p), Warehouse) + SumOf(Values(posted[r], t, p), Warehouse)
    <3> TAKE p \in Product, t \in {"TRANSFER_IN", "TRANSFER_OUT"}
    <3>1. moved \in Ledger /\ posted[r] \in Ledger /\ t \in MovementType
      BY <1>1, TypesSign DEF BookTypes
    <3> QED
      BY <2>1, <3>1, SumMerged
  <2>5. Balanced'
    BY <2>3, <2>4 DEF StockInv, Balanced
  <2> QED
    BY <2>2, <2>5
<1>14. ASSUME NEW r \in Req, RefuseMovement(r), UNCHANGED <<op, dest>> PROVE Kept
  BY <1>2, <1>14, PostedEnded DEF RefuseMovement, DropStock, Answered
<1>15. ASSUME NEW r \in Req, Abort(r) PROVE Kept
  <2>1. PICK l \in Answered : pc' = [pc EXCEPT ![r] = l]
    BY <1>15 DEF Abort, Answered
  <2> QED
    BY <1>2, <1>15, <2>1, PostedEnded DEF Abort, DropStock
<1> QED
  BY <1>3, <1>4, <1>5, <1>6, <1>7, <1>8, <1>11, <1>12, <1>13, <1>14, <1>15 DEF Next, Step

LEMMA StockInvariant == Spec => []StockInv
  BY InitInv, InvStep, PTL DEF Spec

\* TypeOK holds of every reachable state.
THEOREM TypeCorrect == Spec => []TypeOK
<1>1. StockInv => TypeOK
  BY DEF StockInv
<1> QED
  BY <1>1, StockInvariant, PTL

\* Stock and ledger agree in every reachable state, whatever interleaves and
\* whichever handlers fail (inventory.service.ts:58-309).
THEOREM StockReconciles == Spec => []Reconciled
<1>1. StockInv => Reconciled
  BY BooksReconcile DEF StockInv
<1> QED
  BY <1>1, StockInvariant, PTL

\* The sums of the property are the sums of the invariant.
LEMMA QuantitySum ==
  ASSUME NEW m \in Ledger, NEW t \in MovementType, NEW p \in Product
  PROVE  MapThenSumSet(LAMBDA w : m[<<t, <<w, p>>>>].qty, Warehouse)
           = SumOf(Quantities(m, t, p), Warehouse)
<1> DEFINE g == Quantities(m, t, p)
           P(it) == it = [s \in SUBSET Warehouse |->
                            IF s = {} THEN 0
                            ELSE m[<<t, <<CHOOSE x \in s : TRUE, p>>>>].qty
                                   + it[s \ {CHOOSE x \in s : TRUE}]]
<1>1. \A it : P(it) <=> Iterates(it, g, Warehouse)
  <2>1. \A s \in SUBSET Warehouse : s # {} => (CHOOSE x \in s : TRUE) \in Warehouse
    OBVIOUS
  <2> QED
    BY <2>1 DEF Iterates, Quantities
<1>2. MapThenSumSet(LAMBDA w : m[<<t, <<w, p>>>>].qty, Warehouse) = (CHOOSE it : P(it))[Warehouse]
  BY DEF MapThenSumSet, MapThenFoldSet
<1> HIDE DEF P, g
<1>3. \A w \in Warehouse : g[w] \in Int
  BY RowInts DEF g
<1>4. P(CHOOSE it : P(it))
  BY <1>1, <1>3, WarehouseAssumption, FoldIs
<1> QED
  BY <1>1, <1>2, <1>3, <1>4, WarehouseAssumption, FoldIs DEF g

LEMMA ValueSum ==
  ASSUME NEW m \in Ledger, NEW t \in MovementType, NEW p \in Product
  PROVE  MapThenSumSet(LAMBDA w : m[<<t, <<w, p>>>>].value, Warehouse)
           = SumOf(Values(m, t, p), Warehouse)
<1> DEFINE g == Values(m, t, p)
           P(it) == it = [s \in SUBSET Warehouse |->
                            IF s = {} THEN 0
                            ELSE m[<<t, <<CHOOSE x \in s : TRUE, p>>>>].value
                                   + it[s \ {CHOOSE x \in s : TRUE}]]
<1>1. \A it : P(it) <=> Iterates(it, g, Warehouse)
  <2>1. \A s \in SUBSET Warehouse : s # {} => (CHOOSE x \in s : TRUE) \in Warehouse
    OBVIOUS
  <2> QED
    BY <2>1 DEF Iterates, Values
<1>2. MapThenSumSet(LAMBDA w : m[<<t, <<w, p>>>>].value, Warehouse) = (CHOOSE it : P(it))[Warehouse]
  BY DEF MapThenSumSet, MapThenFoldSet
<1> HIDE DEF P, g
<1>3. \A w \in Warehouse : g[w] \in Int
  BY RowInts DEF g
<1>4. P(CHOOSE it : P(it))
  BY <1>1, <1>3, WarehouseAssumption, FoldIs
<1> QED
  BY <1>1, <1>2, <1>3, <1>4, WarehouseAssumption, FoldIs DEF g

\* In every reachable state what transfers took out of all warehouses they put in,
\* in quantity and in value (inventory.service.ts:168-309).
THEOREM TransfersStayBalanced == Spec => []TransfersBalance
<1>1. StockInv => TransfersBalance
  <2> SUFFICES ASSUME StockInv, NEW p \in Product
               PROVE  /\ MapThenSumSet(LAMBDA w : moved[<<"TRANSFER_IN", <<w, p>>>>].qty, Warehouse)
                           = MapThenSumSet(LAMBDA w : moved[<<"TRANSFER_OUT", <<w, p>>>>].qty, Warehouse)
                      /\ MapThenSumSet(LAMBDA w : moved[<<"TRANSFER_IN", <<w, p>>>>].value, Warehouse)
                           = MapThenSumSet(LAMBDA w : moved[<<"TRANSFER_OUT", <<w, p>>>>].value, Warehouse)
    BY DEF TransfersBalance
  <2>1. moved \in Ledger /\ "TRANSFER_IN" \in MovementType /\ "TRANSFER_OUT" \in MovementType
    BY TypesSign DEF StockInv, TypeOK
  <2>2. MapThenSumSet(LAMBDA w : moved[<<"TRANSFER_IN", <<w, p>>>>].qty, Warehouse)
          = SumOf(Quantities(moved, "TRANSFER_IN", p), Warehouse)
    BY <2>1, QuantitySum
  <2>3. MapThenSumSet(LAMBDA w : moved[<<"TRANSFER_OUT", <<w, p>>>>].qty, Warehouse)
          = SumOf(Quantities(moved, "TRANSFER_OUT", p), Warehouse)
    BY <2>1, QuantitySum
  <2>4. MapThenSumSet(LAMBDA w : moved[<<"TRANSFER_IN", <<w, p>>>>].value, Warehouse)
          = SumOf(Values(moved, "TRANSFER_IN", p), Warehouse)
    BY <2>1, ValueSum
  <2>5. MapThenSumSet(LAMBDA w : moved[<<"TRANSFER_OUT", <<w, p>>>>].value, Warehouse)
          = SumOf(Values(moved, "TRANSFER_OUT", p), Warehouse)
    BY <2>1, ValueSum
  <2> QED
    BY <2>2, <2>3, <2>4, <2>5 DEF StockInv, Balanced
<1> QED
  BY <1>1, StockInvariant, PTL

-----------------------------------------------------------------------------
(* The stock book.                                                         *)

OnHand(i) == stock.now[i].qty
Booked(i) == Opening[i].qty + Net(moved, i)
Entry(r) == [id |-> r, item |-> mv[r].item, n |-> Signed(mv[r])]
IsPending(r) == op[r] = "adjust" /\ pc[r] \in {"log", "unlogged"}

LEMMA PendingFacts == Pending = {Entry(r) : r \in {x \in Req : IsPending(x)}}
BY DEF Pending, Entry, IsPending

\* A step that changes neither quantity nor who is pending stutters.
LEMMA Stutters ==
  ASSUME UNCHANGED Pending,
         \A i \in Item : OnHand(i)' = OnHand(i) /\ Net(moved', i) = Net(moved, i)
  PROVE  UNCHANGED Book!bookVars
<1>1. [i \in Item |-> stock.now[i].qty]' = [i \in Item |-> stock.now[i].qty]
  BY DEF OnHand
<1>2. [i \in Item |-> Opening[i].qty + Net(moved, i)]'
        = [i \in Item |-> Opening[i].qty + Net(moved, i)]
  OBVIOUS
<1> QED
  BY <1>1, <1>2 DEF Book!bookVars

LEMMA SamePending ==
  ASSUME NEW r \in Req, \A q \in Req \ {r} : op'[q] = op[q] /\ pc'[q] = pc[q] /\ mv'[q] = mv[q],
         IsPending(r)' <=> IsPending(r), IsPending(r) => mv'[r] = mv[r]
  PROVE  UNCHANGED Pending
<1>1. \A q \in Req : (IsPending(q)' <=> IsPending(q)) /\ (IsPending(q) => Entry(q)' = Entry(q))
  BY DEF IsPending, Entry
<1>2. Pending' = {Entry(q)' : q \in {x \in Req : IsPending(x)'}}
  BY DEF Pending, Entry, IsPending
<1> QED
  BY <1>1, <1>2, PendingFacts

LEMMA BookInit == Init => Book!Init
<1> SUFFICES ASSUME Init PROVE Book!Init
  OBVIOUS
<1>1. \A i \in Item : Opening[i].qty \in Int
  BY InputAssumption DEF StockRow
<1>2. [i \in Item |-> stock.now[i].qty] = [i \in Item |-> Opening[i].qty]
  BY InputAssumption DEF Init, NewTable
<1>3. [i \in Item |-> Opening[i].qty + Net(moved, i)] = [i \in Item |-> Opening[i].qty]
  BY <1>1, NetNothing DEF Init
<1>4. Pending = {}
  BY DEF Init, Pending
<1> QED
  BY <1>2, <1>3, <1>4 DEF Book!Init, Book!Item, Item

LEMMA BookStep ==
  StockInv /\ StockInv' /\ [Next]_vars => [Book!Next]_(Book!bookVars)
<1> DEFINE Mapped == Book!Next \/ UNCHANGED Book!bookVars
<1> SUFFICES ASSUME StockInv, StockInv', [Next]_vars PROVE Mapped
  OBVIOUS
<1> USE NobodyAssumption
<1>0. TypeOK /\ Arguments /\ TypeOK' /\ Books /\ BookTypes
  BY DEF StockInv, Books
<1>1. CASE UNCHANGED vars
  BY <1>1, Stutters DEF vars, OnHand, Pending
<1>2. ASSUME NEW r \in Req, NEW i \in Item, NEW q \in Quantity,
             NEW type \in {"ADJUSTMENT_IN", "ADJUSTMENT_OUT"},
             NEW c \in UnitCost \cup {NoCost}, StartAdjust(r, i, type, q, c)
      PROVE  Mapped
  <2>1. UNCHANGED Pending
    BY <1>0, <1>2, SamePending DEF StartAdjust, IsPending, TypeOK, Arguments
  <2> QED
    BY <1>2, <2>1, Stutters DEF StartAdjust, OnHand
<1>3. ASSUME NEW r \in Req, NEW from \in Warehouse, NEW to \in Warehouse,
             NEW p \in Product, NEW q \in Quantity, StartTransfer(r, from, to, p, q)
      PROVE  Mapped
  <2>1. UNCHANGED Pending
    BY <1>0, <1>3, SamePending DEF StartTransfer, IsPending, TypeOK, Arguments
  <2> QED
    BY <1>3, <2>1, Stutters DEF StartTransfer, OnHand
<1>4. ASSUME NEW r \in Req, FindStock(r), UNCHANGED <<op, dest>> PROVE Mapped
  <2>1. UNCHANGED Pending
    BY <1>0, <1>4, SamePending DEF FindStock, IsPending, TypeOK
  <2> QED
    BY <1>4, <2>1, Stutters DEF FindStock, OnHand
<1>5. ASSUME NEW r \in Req, ReadSource(r) PROVE Mapped
  <2>1. UNCHANGED Pending
    BY <1>0, <1>5, SamePending DEF ReadSource, IsPending, TypeOK, Arguments
  <2> QED
    BY <1>5, <2>1, Stutters DEF ReadSource, OnHand
<1>6. ASSUME NEW r \in Req, UpsertStock(r), UNCHANGED <<op, dest>> PROVE Mapped
  <2>1. /\ pc[r] = "upsert" /\ pc' = [pc EXCEPT ![r] = "log"] /\ UNCHANGED <<op, mv, moved>>
        /\ mv[r] \in Movement /\ mv[r].item \in Item /\ Signed(mv[r]) \in Int
    BY <1>0, <1>6, UpsertFacts
  <2>2. CASE InTransaction(r)
    <3>1. \A i \in Item : stock'.now[i] = stock.now[i]
      BY <1>0, <1>6, <2>2, UpsertFacts
    <3>2. UNCHANGED Pending
      BY <1>0, <2>1, <2>2, SamePending DEF IsPending, InTransaction, TypeOK
    <3> QED
      BY <2>1, <3>1, <3>2, Stutters DEF OnHand
  <2>3. CASE ~InTransaction(r)
    <3> DEFINE a == Entry(r)
    <3>1. op[r] = "adjust" /\ ~IsPending(r) /\ IsPending(r)'
      BY <1>0, <2>1, <2>3 DEF InTransaction, IsPending, TypeOK
    <3>2. /\ a.id = r /\ a.item = mv[r].item /\ a.n = Signed(mv[r])
          /\ a' = a /\ a \in Book!Adjustment
      <4>1. mv[r].qty \in Quantity
        BY <1>0, <2>1 DEF Arguments
      <4> QED
        BY <2>1, <4>1 DEF Entry, Signed, Book!Adjustment, Book!Item, Item
    <3>3. \A b \in Pending : b.id # a.id
      BY <3>1, <3>2, PendingFacts DEF Entry
    <3>4. Pending' = Pending \cup {a}
      <4>1. \A q \in Req \ {r} : (IsPending(q)' <=> IsPending(q)) /\ Entry(q)' = Entry(q)
        BY <1>0, <2>1 DEF IsPending, Entry, TypeOK
      <4>2. Pending' = {Entry(q)' : q \in {x \in Req : IsPending(x)'}}
        BY DEF Pending, Entry, IsPending
      <4> QED
        BY <3>1, <3>2, <4>1, <4>2, PendingFacts
    <3>5. \A i \in Item : OnHand(i)' = IF i = a.item THEN OnHand(i) + a.n ELSE OnHand(i)
      BY <1>0, <1>6, <2>3, <3>2, UpsertFacts DEF OnHand
    <3> HIDE DEF a
    <3>6. [i \in Item |-> OnHand(i)]' =
            [[i \in Item |-> OnHand(i)] EXCEPT ![a.item] = @ + a.n]
      BY <2>1, <3>2, <3>5
    <3>7. PICK x \in Book!Adjustment : x = a
      BY <3>2
    <3>8. Book!Adjust(x)
      BY <2>1, <3>3, <3>4, <3>6, <3>7 DEF Book!Adjust, OnHand
    <3> QED
      BY <3>8 DEF Book!Next
  <2> QED
    BY <2>2, <2>3
<1>7. ASSUME NEW r \in Req, AdjustLogged(r) PROVE Mapped
  <2> DEFINE a == Entry(r)
  <2>1. /\ op[r] = "adjust" /\ pc[r] = "log" /\ pc' = [pc EXCEPT ![r] = "ok"]
        /\ UNCHANGED <<op, mv, stock>> /\ ~InTransaction(r)
        /\ mv[r] \in Movement /\ mv[r].item \in Item
        /\ \A i \in Item : Net(moved', i) =
              Net(moved, i) + (IF mv[r].item = i THEN Signed(mv[r]) ELSE 0)
    BY <1>0, <1>7, LoggedFacts, MovementFacts DEF AdjustLogged, InTransaction
  <2>2. IsPending(r) /\ ~IsPending(r)'
    BY <1>0, <2>1 DEF IsPending, TypeOK
  <2>3. /\ a.id = r /\ a.item = mv[r].item /\ a.n = Signed(mv[r]) /\ a \in Pending
        /\ a \in Book!Adjustment /\ a.n \in Int
    <3>1. mv[r].qty \in Quantity
      BY <1>0, <2>1 DEF Arguments
    <3> QED
      BY <2>1, <2>2, <3>1, RowFacts, PendingFacts
         DEF Entry, Signed, Book!Adjustment, Book!Item, Item, Movement
  <2>4. Pending' = Pending \ {a}
    <3>1. \A q \in Req \ {r} : /\ IsPending(q)' <=> IsPending(q)
                               /\ Entry(q)' = Entry(q) /\ Entry(q) # Entry(r)
      BY <1>0, <2>1 DEF IsPending, Entry, TypeOK
    <3>2. Pending' = {Entry(q)' : q \in {x \in Req : IsPending(x)'}}
      BY DEF Pending, Entry, IsPending
    <3> QED
      BY <2>2, <3>1, <3>2, PendingFacts
  <2> HIDE DEF a
  <2>5. \A i \in Item : /\ Opening[i].qty \in Int /\ Net(moved, i) \in Int
    BY <1>0, InputAssumption, NetInt DEF TypeOK
  <2>6. [i \in Item |-> Booked(i)]' = [[i \in Item |-> Booked(i)] EXCEPT ![a.item] = @ + a.n]
    BY <2>1, <2>3, <2>5 DEF Booked
  <2>7. PICK x \in Book!Adjustment : x = a
    BY <2>3
  <2>8. Book!Enter(x)
    BY <2>1, <2>3, <2>4, <2>6, <2>7 DEF Book!Enter, Booked
  <2> QED
    BY <2>8 DEF Book!Next
<1>8. ASSUME NEW r \in Req, NEW l, LogMovement(r, l), op[r] = "transfer", UNCHANGED op,
             \A q \in Req \ {r} : mv'[q] = mv[q]
      PROVE  Mapped
  <2>1. InTransaction(r) /\ stock' = stock /\ pc' = [pc EXCEPT ![r] = l]
    BY <1>0, <1>8, LoggedFacts DEF InTransaction
  <2>2. \A i \in Item : Net(moved', i) = Net(moved, i)
    BY <1>0, <1>8, <2>1, LoggedFacts, NetInt DEF TypeOK
  <2>3. UNCHANGED Pending
    BY <1>0, <1>8, <2>1, SamePending DEF IsPending, TypeOK
  <2> QED
    BY <2>1, <2>2, <2>3, Stutters DEF OnHand
<1>9. ASSUME NEW r \in Req, TransferOutLogged(r) PROVE Mapped
  <2>1. \A q \in Req \ {r} : mv'[q] = mv[q]
    BY <1>0, <1>9 DEF TransferOutLogged, Arguments
  <2> QED
    BY <1>8, <1>9, <2>1 DEF TransferOutLogged
<1>10. ASSUME NEW r \in Req, TransferInLogged(r) PROVE Mapped
  BY <1>8, <1>10 DEF TransferInLogged
<1>11. ASSUME NEW r \in Req, CommitTransfer(r) PROVE Mapped
  <2>1. /\ pc[r] = "commit" /\ op[r] = "transfer" /\ pc' = [pc EXCEPT ![r] = "ok"]
        /\ stock' = Commit(stock, r) /\ moved' = Merge(moved, posted[r])
        /\ UNCHANGED <<op, mv>>
    BY <1>11 DEF CommitTransfer, KeepStock
  <2> DEFINE d == dest[r]
             n == mv[r].qty
  <2>2. d \in Item /\ n \in Quantity /\ n \in Nat /\ mv[r].type = "TRANSFER_IN"
    BY <1>0, <2>1, InputAssumption DEF TypeOK, Arguments
  <2>3. PICK w \in Warehouse :
          /\ w # d[1]
          /\ \A i \in Item : Net(posted[r], i) =
               IF i = <<w, d[2]>> THEN -n ELSE IF i = d THEN n ELSE 0
    BY <1>0, <2>1, TransferPosted DEF StockInv
  <2> DEFINE s == <<w, d[2]>>
  <2>4. s \in Item /\ s # d /\ d = <<d[1], d[2]>> /\ d[1] \in Warehouse /\ d[2] \in Product
    BY <2>2, <2>3 DEF Item
  <2>5. ASSUME NEW i \in Item
        PROVE  /\ OnHand(i)' = OnHand(i) + Net(posted[r], i)
               /\ Net(moved', i) = Net(moved, i) + Net(posted[r], i)
               /\ OnHand(i) \in Int /\ Net(moved, i) \in Int /\ Opening[i].qty \in Int
    BY <1>0, <1>11, <2>1, KeptFacts, BookRows DEF OnHand, CommitTransfer
  <2>6. UNCHANGED Pending
    BY <1>0, <2>1, SamePending DEF IsPending, TypeOK
  <2> HIDE DEF d, n, s
  <2>7. \A i \in Item :
          /\ OnHand(i)' = IF i = d THEN OnHand(i) + n ELSE IF i = s THEN OnHand(i) - n
                          ELSE OnHand(i)
          /\ Booked(i)' = IF i = d THEN Booked(i) + n ELSE IF i = s THEN Booked(i) - n
                          ELSE Booked(i)
    BY <2>2, <2>3, <2>4, <2>5 DEF s, Booked
  <2>8. [i \in Item |-> OnHand(i)]' =
          [[i \in Item |-> OnHand(i)] EXCEPT ![s] = @ - n, ![d] = @ + n]
    BY <2>4, <2>7
  <2>9. [i \in Item |-> Booked(i)]' =
          [[i \in Item |-> Booked(i)] EXCEPT ![s] = @ - n, ![d] = @ + n]
    BY <2>4, <2>7
  <2>10. PICK p \in Product, to \in Warehouse, k \in Quantity : p = d[2] /\ to = d[1] /\ k = n
    BY <2>2, <2>4
  <2>11. Book!Transfer(p, w, to, k)
    BY <2>3, <2>4, <2>6, <2>8, <2>9, <2>10 DEF Book!Transfer, OnHand, Booked, s
  <2> QED
    BY <2>10, <2>11 DEF Book!Next
<1>12. ASSUME NEW r \in Req, DropStock(r), UNCHANGED op, NEW l,
              pc' = [pc EXCEPT ![r] = l],
              l # "log", IsPending(r) <=> op[r] = "adjust" /\ l = "unlogged"
       PROVE  Mapped
  <2>1. stock' = Rollback(stock, r) /\ UNCHANGED <<moved, mv>>
    BY <1>12 DEF DropStock
  <2>2. stock'.now = stock.now
    BY <1>0, <2>1, RollbackFacts DEF TypeOK
  <2>3. UNCHANGED Pending
    <3>1. IsPending(r)' <=> IsPending(r)
      BY <1>0, <1>12, <2>1 DEF IsPending, TypeOK
    <3>2. \A q \in Req \ {r} : op'[q] = op[q] /\ pc'[q] = pc[q] /\ mv'[q] = mv[q]
      BY <1>0, <1>12, <2>1 DEF TypeOK
    <3> QED
      BY <2>1, <3>1, <3>2, SamePending
  <2> QED
    BY <2>1, <2>2, <2>3, Stutters DEF OnHand
<1>13. ASSUME NEW r \in Req, RefuseMovement(r), UNCHANGED <<op, dest>> PROVE Mapped
  BY <1>12, <1>13 DEF RefuseMovement, IsPending
<1>14. ASSUME NEW r \in Req, Abort(r) PROVE Mapped
  BY <1>12, <1>14 DEF Abort, IsPending, InFlight, Answered, InTransaction
<1> QED
  BY <1>1, <1>2, <1>3, <1>4, <1>5, <1>6, <1>7, <1>9, <1>10, <1>11, <1>13, <1>14
     DEF Next, Start, Step

\* However adjustments and transfers interleave, wait for each other's rows, are
\* refused or fail, they implement the stock book: stock and ledger change
\* together, a transfer's two sides at once, an adjustment's entry after its
\* stock (inventory.service.ts:58-309).
THEOREM ImplementsBook == Spec => BookSpec
<1>1. Spec => []StockInv
  BY StockInvariant
<1>2. Spec => Book!Init /\ [][Book!Next]_(Book!bookVars)
  BY <1>1, BookInit, BookStep, PTL DEF Spec
<1> QED
  BY <1>2 DEF BookSpec, Book!Spec
=============================================================================
