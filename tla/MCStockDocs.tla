---------------------------- MODULE MCStockDocs ----------------------------
(***************************************************************************)
(* StockDocs on small instances.  Two items with one unit each and two     *)
(* requests in flight are enough for two documents to compete for the last *)
(* unit, for the same document to be worked on twice at once and for two   *)
(* payloads to take their rows in opposite orders.                         *)
(***************************************************************************)
EXTENDS StockDocs, TLC

CONSTANTS i1, i2, p1, p2, sale1, outflow1, purchase1, entry1, exit1

MCItems == {i1, i2}
MCOpening == [i \in MCItems |-> 1]

L(n1, n2) == (i1 :> n1) @@ (i2 :> n2)

AllKinds == (sale1 :> "sale") @@ (outflow1 :> "outflow") @@ (purchase1 :> "purchase")
            @@ (entry1 :> "entry") @@ (exit1 :> "exit")

AllPayloads == (sale1 :> {L(1, 0), L(1, 1)}) @@ (outflow1 :> {L(1, 1)})
               @@ (purchase1 :> {L(1, 0)}) @@ (entry1 :> {L(1, 0)}) @@ (exit1 :> {L(1, 1)})

MCKindOf == [d \in Docs |-> AllKinds[d]]
MCPayloads == [d \in Docs |-> AllPayloads[d]]

Requests == Permutations(Procs)
=============================================================================
