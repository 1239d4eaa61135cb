---------------------------- MODULE MCMovements ----------------------------
(* Two documents of every pair of kinds, two warehouses, one product, two days. *)
EXTENDS Movements, TLC

CONSTANTS A, B, cable, d1, d2

MCPayloads == {[i \in Products |-> 1]}
MCDiffs == {[i \in Products |-> n] : n \in {-1, 1}}
EitherWay == Permutations(Docs) \cup Permutations(Warehouses)
=============================================================================
