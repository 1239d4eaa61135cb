---------------------------- MODULE MCTransfers ----------------------------
(***************************************************************************)
(* Two transfers from A to C.  One lists the laptops without a SKU twice;  *)
(* both list those with one, which get the same suffix in every warehouse  *)
(* (ids made within hours of one another begin alike).  The rows they need *)
(* in C are not there yet.  Edits relocate an asked item, to the           *)
(* destination too, and a row found there; rename an item and correct its  *)
(* units.                                                                  *)
(***************************************************************************)
EXTENDS Transfers, TLC

CONSTANTS A, B, C, a1, a2, n1, n2, t1, t2, l1, l2, l3, l4, p1, p2,
          laptop, phone, S, pre

MCWarehouses == {A, B, C}
MCRows == {a1, a2, n1, n2}

Row(w, x, s, n) == [place |-> w, product |-> x, sku |-> s, qty |-> n]
NotYet == Row(None, None, None, 0)

MCOpening ==
    (a1 :> Row(A, laptop, None, 2)) @@ (a2 :> Row(A, laptop, S, 2))
    @@ (n1 :> NotYet) @@ (n2 :> NotYet)

MCSource == [t \in Transfers |-> A]
MCDest == [t \in Transfers |-> C]

MCLines == {l1, l2, l3, l4}
MCDoc == (l1 :> t1) @@ (l2 :> t2) @@ (l3 :> t2) @@ (l4 :> t2)
MCItem == (l1 :> a2) @@ (l2 :> a1) @@ (l3 :> a1) @@ (l4 :> a2)
MCCount == [l \in MCLines |-> 1]

Edit(r, w, x, s, n) == [row |-> r, place |-> w, product |-> x, sku |-> s, qty |-> n]

MCEdits ==
    {Edit(a2, C, Same, Same, Same), Edit(a1, B, phone, Same, 2)}
    \cup {Edit(r, B, Same, Same, Same) : r \in {n1, n2}}

MCPrefix == [w \in MCWarehouses |-> pre]

Alike == Permutations(Procs) \cup Permutations({n1, n2}) \cup Permutations({l2, l3})
=============================================================================
