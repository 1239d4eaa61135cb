---------------------------- MODULE StockLedger ----------------------------
(***************************************************************************)
(* What the stock-moving documents of the inventory API promise, without   *)
(* transactions, locks or requests: posting a document moves all of its    *)
(* units in one step, undoing it moves all of them back in one step, and   *)
(* nothing else changes a quantity.  StockDocs implements this.            *)
(***************************************************************************)
EXTENDS Integers, FiniteSets, Functions

CONSTANTS
    Items,     \* inventory items (rows of inventory_items)
    Docs,      \* sales, outflows, purchase invoices and transactions
    KindOf,    \* the table each document lives in
    Payloads,  \* the line maps a request may ask for, per document
    Opening    \* units of each item before the first document

Kinds == {"sale", "outflow", "purchase", "entry", "exit"}

\* A document's lines: at most one per item (duplicates are refused), with the
\* units asked for; 0 means no line.
Lines == [Items -> Nat]

Statuses == {"none", "DRAFT", "ACTIVE", "CANCELLED", "DELETED"}

VARIABLES
    qty,     \* units on hand
    live,    \* the item is not soft-deleted
    status,  \* "none" before the document exists
    lines

vars == <<qty, live, status, lines>>

\* Sales, outflows and OUT transactions take units, the others bring them in.
Outgoing(d) == KindOf[d] \in {"sale", "outflow", "exit"}

\* A transaction is deleted to undo it; every other document is cancelled.
UndoneAs(d) == IF KindOf[d] \in {"entry", "exit"} THEN "DELETED" ELSE "CANCELLED"

CanTake(l) == \A i \in Items : l[i] > 0 => live[i] /\ qty[i] >= l[i]

TypeOK ==
    /\ qty \in [Items -> Int]
    /\ live \in [Items -> BOOLEAN]
    /\ status \in [Docs -> Statuses]
    /\ lines \in [Docs -> Lines]

Init ==
    /\ qty = Opening
    /\ live = [i \in Items |-> TRUE]
    /\ status = [d \in Docs |-> "none"]
    /\ lines = [d \in Docs |-> [i \in Items |-> 0]]

\* A quotation reserves nothing.
Quote(d, l) ==
    /\ KindOf[d] = "sale" /\ status[d] = "none"
    /\ status' = [status EXCEPT ![d] = "DRAFT"]
    /\ lines' = [lines EXCEPT ![d] = l]
    /\ UNCHANGED <<qty, live>>

Edit(d, l) ==
    /\ status[d] = "DRAFT"
    /\ lines' = [lines EXCEPT ![d] = l]
    /\ UNCHANGED <<qty, live, status>>

Discard(d) ==
    /\ status[d] = "DRAFT"
    /\ status' = [status EXCEPT ![d] = "CANCELLED"]
    /\ UNCHANGED <<qty, live, lines>>

Move(l, out) == qty' = [i \in Items |-> IF out THEN qty[i] - l[i] ELSE qty[i] + l[i]]

PutInForce(d, l) ==
    /\ Outgoing(d) => CanTake(l)
    /\ Move(l, Outgoing(d))
    /\ status' = [status EXCEPT ![d] = "ACTIVE"]
    /\ lines' = [lines EXCEPT ![d] = l]
    /\ UNCHANGED live

Post(d, l) == status[d] = "none" /\ PutInForce(d, l)

Confirm(d) == status[d] = "DRAFT" /\ PutInForce(d, lines[d])

Undo(d) ==
    /\ status[d] = "ACTIVE"
    /\ ~Outgoing(d) => CanTake(lines[d])
    /\ Move(lines[d], ~Outgoing(d))
    /\ status' = [status EXCEPT ![d] = UndoneAs(d)]
    /\ UNCHANGED <<live, lines>>

SetLive(i, b) ==
    /\ live' = [live EXCEPT ![i] = b]
    /\ UNCHANGED <<qty, status, lines>>

Next ==
    \/ \E d \in Docs : \E l \in Payloads[d] : Quote(d, l) \/ Edit(d, l) \/ Post(d, l)
    \/ \E d \in Docs : Confirm(d) \/ Discard(d) \/ Undo(d)
    \/ \E i \in Items, b \in BOOLEAN : SetLive(i, b)

Spec == Init /\ [][Next]_vars

-----------------------------------------------------------------------------

\* No item is ever short of zero units (the promise of takeStock).
NonNegativeStock == \A i \in Items : qty[i] >= 0

Signed(d, i) == IF Outgoing(d) THEN -lines[d][i] ELSE lines[d][i]

\* What each document brings of an item, or takes.
Movement(i) == [d \in Docs |-> Signed(d, i)]

\* Every unit is accounted for: what is on hand is the opening stock plus
\* what the documents in force brought in, less what they took.
Conservation ==
    \A i \in Items :
        qty[i] = Opening[i]
                 + SumFunctionOnSet(Movement(i), {d \in Docs : status[d] = "ACTIVE"})
=============================================================================
