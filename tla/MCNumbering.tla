---------------------------- MODULE MCNumbering ----------------------------
(***************************************************************************)
(* Numbering on a small instance.  Two sales and a purchase make two       *)
(* sequences of different lengths; two ranges that share their codes       *)
(* overlap; every field of a range may be edited while a sale is made.     *)
(***************************************************************************)
EXTENDS Numbering, TLC

CONSTANTS s1, s2, b1, r1, r2, p1, p2, codes

AllKinds == (s1 :> "sale") @@ (s2 :> "sale") @@ (b1 :> "purchase")

MCKindOf == [d \in Docs |-> AllKinds[d]]
MCSeries == [r \in Ranges |-> codes]

MCCreates == {[start |-> 1, end |-> 3, active |-> TRUE, expired |-> FALSE]}

Sent(s, e, a, x) == [start |-> s, end |-> e, active |-> a, expired |-> x]

\* A later start, an earlier end, and the switch.
MCEdits ==
    {Sent(2, None, None, None), Sent(None, 2, None, None), Sent(None, None, TRUE, None),
     Sent(None, None, FALSE, None)}

Alike == Permutations(Procs) \cup Permutations(Ranges)
=============================================================================
