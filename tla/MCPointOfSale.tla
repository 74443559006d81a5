---------------------------- MODULE MCPointOfSale ---------------------------
(* Instances of PointOfSale for TLC. *)
EXTENDS PointOfSale, TLC

CONSTANTS w1, w2, p1, p2, t1

MCOpening == [i \in Warehouse \X Product |-> [qty |-> 2, cost |-> 100]]

L(p, q) == [product |-> p, qty |-> q, price |-> 1]

\* Sales of one product, and of two in either order.
MCBasket == {<<L(p1, 1)>>, <<L(p1, 2)>>, <<L(p1, 1), L(p2, 2)>>, <<L(p2, 2), L(p1, 2)>>}

Symmetry == Permutations(Req)
=============================================================================
