---------------------------- MODULE MCSalesOrders ---------------------------
(* Instances of SalesOrders for TLC. *)
EXTENDS SalesOrders, TLC

CONSTANTS w1, w2, p1, p2, o1, o2, o3, q1, a, b

\* Product p2 is short, so that a delivery may fail on its second line.
MCOpening == [i \in Warehouse \X Product |->
                [qty |-> IF i[2] = p1 THEN 3 ELSE 1, cost |-> 100]]

MCProductOf == [s \in Slot |-> IF s = a THEN p1 ELSE p2]

\* One order confirmed, one a draft, the others not created yet.
OneOfEach == [o \in Order |-> [warehouse |-> w1,
                               status |-> CASE o = o1 -> "CONFIRMED"
                                            [] o = o2 -> "DRAFT"
                                            [] OTHER  -> Absent]]

\* Bound: a third request only when all three are about one order that exists.
Busy == {r \in Req : pc[r] # "idle"}

ThirdOnSameOrder ==
  Cardinality(Busy) = 3 =>
    \E o \in {o1, o2} : \A r \in Busy : doc[r] = o /\ op[r] # "create"

Symmetry == Permutations(Req)
=============================================================================
