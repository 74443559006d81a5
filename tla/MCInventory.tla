----------------------------- MODULE MCInventory ----------------------------
(* Instances of Inventory for TLC. *)
EXTENDS Inventory, TLC

CONSTANTS w1, w2, p1

MCOpening == [i \in Warehouse \X Product |->
                IF i[1] = w1 THEN [qty |-> 2, cost |-> 100]
                             ELSE [qty |-> 1, cost |-> 300]]

Symmetry == Permutations(Req)
=============================================================================
