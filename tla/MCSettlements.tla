---------------------------- MODULE MCSettlements ---------------------------
(* Instances of Settlements for TLC. *)
EXTENDS Settlements, TLC

CONSTANTS s1, s2, b1

MCKind == [v \in Invoice |-> IF v = b1 THEN "purchase" ELSE "sales"]

Symmetry == Permutations(Req)
=============================================================================
