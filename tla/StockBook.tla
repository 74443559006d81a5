------------------------------ MODULE StockBook -----------------------------
(***************************************************************************)
(* What the inventory promises the rest of the system: the quantity on     *)
(* hand of every item, and the same quantity as the ledger of movements    *)
(* accounts for it.  A document (a transfer, a delivery, a receipt, a POS  *)
(* sale) changes both at once and by the same amounts, or neither; a       *)
(* manual adjustment changes the stock first, is pending, and is entered   *)
(* in the ledger later, or never when its handler was cut short.           *)
(***************************************************************************)
EXTENDS Integers

CONSTANTS Warehouse, Product, Req, Quantity, Opening

Item == Warehouse \X Product

VARIABLES onHand, book, pending

bookVars == <<onHand, book, pending>>

Init ==
  /\ onHand = [i \in Item |-> Opening[i].qty]
  /\ book = onHand
  /\ pending = {}

Adjustment == [id : Req, item : Item, n : Quantity \cup {-q : q \in Quantity}]

Adjust(a) ==
  /\ \A b \in pending : b.id # a.id
  /\ onHand' = [onHand EXCEPT ![a.item] = @ + a.n]
  /\ pending' = pending \cup {a}
  /\ UNCHANGED book

Enter(a) ==
  /\ a \in pending
  /\ book' = [book EXCEPT ![a.item] = @ + a.n]
  /\ pending' = pending \ {a}
  /\ UNCHANGED onHand

Transfer(p, from, to, n) ==
  /\ from # to
  /\ onHand' = [onHand EXCEPT ![<<from, p>>] = @ - n, ![<<to, p>>] = @ + n]
  /\ book' = [book EXCEPT ![<<from, p>>] = @ - n, ![<<to, p>>] = @ + n]
  /\ UNCHANGED pending

Next ==
  \/ \E a \in Adjustment : Adjust(a) \/ Enter(a)
  \/ \E p \in Product, from, to \in Warehouse, n \in Quantity :
       Transfer(p, from, to, n)

Spec == Init /\ [][Next]_bookVars
=============================================================================
