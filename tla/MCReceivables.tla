--------------------------- MODULE MCReceivables ---------------------------
(***************************************************************************)
(* Two sales to one client and a purchase, paid in up to two payments.     *)
(* With amounts of 1 and 2, a limit of 2 is enough for either sale but not *)
(* always for both, and two payments may add up to more than a document.   *)
(***************************************************************************)
EXTENDS Receivables, TLC

CONSTANTS s1, s2, o1, c1, y1, y2, p1, p2

Alike == Permutations(Procs) \cup Permutations(Payments)
=============================================================================
