------------------------------ MODULE MCLoans ------------------------------
(***************************************************************************)
(* One loan with two requests at once, since the handlers of a stored      *)
(* loan look at no other.                                                  *)
(***************************************************************************)
EXTENDS Loans, TLC

CONSTANTS l1, laptop, p1, p2

MCItemsOf == [l \in Loans |-> {laptop}]

Alike == Permutations(Procs)
=============================================================================
