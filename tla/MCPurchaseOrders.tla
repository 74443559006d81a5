-------------------------- MODULE MCPurchaseOrders --------------------------
(* Instances of PurchaseOrders for TLC. *)
EXTENDS PurchaseOrders, TLC

CONSTANTS w1, w2, p1, p2, o1, o2, o3, a, b

MCOpening == [i \in Warehouse \X Product |-> [qty |-> 0, cost |-> 0]]

MCProductOf == [s \in Slot |-> IF s = a THEN p1 ELSE p2]

\* A receipt of either line, of both, and one that names a line twice.
Part(s, q) == [slot |-> s, qty |-> q, cost |-> 100]

MCDelivery == {<<Part(a, 1)>>, <<Part(b, 1)>>, <<Part(a, 1), Part(b, 1)>>,
               <<Part(a, 1), Part(a, 1)>>}

\* One order confirmed, one a draft, the others not created yet.
OneOfEach == [o \in Order |-> CASE o = o1 -> "CONFIRMED"
                                [] o = o2 -> "DRAFT"
                                [] OTHER  -> Absent]

\* Bound: a third request only when all three are about one order that exists,
\* and receive into one warehouse.
Busy == {r \in Req : pc[r] # "idle"}

ThirdOnSameOrder ==
  Cardinality(Busy) = 3 =>
    \E o \in {o1, o2} : \A r \in Busy :
      doc[r] = o /\ op[r] \in Handler /\ todo[r].warehouse \in {w1, Nobody}

Symmetry == Permutations(Req)
=============================================================================
