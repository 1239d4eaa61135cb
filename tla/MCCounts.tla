----------------------------- MODULE MCCounts -----------------------------
(***************************************************************************)
(* A warehouse with a laptop and two cables, two counts of it, and a       *)
(* discharge request for one of each, while laptops are sold, lost and     *)
(* written over and cables are deleted.                                    *)
(***************************************************************************)
EXTENDS Counts, TLC

CONSTANTS laptop, cable, k1, k2, d1, p1, p2

MCOpening == [i \in Items |-> IF i = laptop THEN 1 ELSE 2]
MCLinesOf == [d \in Discharges |-> [i \in Items |-> 1]]
MCMoves == {<<laptop, -1>>}
MCEdits == {<<laptop, 1>>}
MCSlips == {<<laptop, -1>>}

Alike == Permutations(Procs) \cup Permutations(Takes)
=============================================================================
