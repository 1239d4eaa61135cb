----------------------------- MODULE Transfers -----------------------------
(***************************************************************************)
(* Transfer requests between warehouses (TransferRequestsService): asked   *)
(* for, approved, sent and received, with the stock moved at the receipt.  *)
(* The receipt runs statement by statement, as several may at once; the    *)
(* send reads the status and writes it in two unlocked statements; the     *)
(* other handlers lock the document and commit before anything can come    *)
(* between, so each is one action.                                         *)
(*                                                                         *)
(* An item row is in one warehouse, and the inventory's edits move it to   *)
(* another, rename it or set its units whatever transfers ask for it.      *)
(* Rows a receipt inserts carry their data at once and are hidden from the *)
(* others until it commits.                                                *)
(***************************************************************************)
EXTENDS Integers, FiniteSets, Functions

CONSTANTS
    Warehouses,
    Rows,      \* item rows, those not inserted yet included
    Opening,   \* the rows and their units to begin with
    Transfers,
    Source, Dest,  \* the warehouses of each transfer
    Lines,     \* the lines of all transfers
    Doc, Item, Count,  \* each line's transfer, item and units
    Edits,     \* what an edit of a row may write
    Same,      \* for the fields an edit does not name
    Prefix,    \* the first characters of a warehouse id, a SKU's suffix
    Procs,     \* requests that may be in flight at once
    None

ASSUME TransferAssumption ==
    /\ Source \in [Transfers -> Warehouses]
    /\ Dest \in [Transfers -> Warehouses]
    /\ \A t \in Transfers : Source[t] # Dest[t]
    /\ IsFiniteSet(Rows) /\ IsFiniteSet(Lines)
    /\ Doc \in [Lines -> Transfers]
    /\ Item \in [Lines -> Rows]
    /\ Count \in [Lines -> Nat \ {0}]
    /\ None \notin Warehouses \cup Rows \cup Lines \cup Procs \cup Transfers
    /\ \A r \in Rows : /\ Opening[r].place \in Warehouses \cup {None}
                       /\ Opening[r].qty \in Nat
                       /\ Opening[r].place = None => Opening[r].qty = 0
    /\ \A e \in Edits : /\ e.row \in Rows
                        /\ e.place \in Warehouses \cup {Same}
                        /\ e.qty \in Nat \cup {Same}

VARIABLES
    info,        \* warehouse, product and SKU of each row
    qty, live,
    status,
    approvedAt, rejectedAt,  \* the dates, as set or null
    docLock,     \* who holds the transfer's row
    pc, job,     \* where each request is, and the transfer it works on
    seen,        \* the items of its lines as its look-up read them
    taken,       \* the lines it has taken from their items
    at,          \* the line it is placing and the row findFirst gave for it
    target,      \* the destination row of each line it has placed
    gain,        \* the units it has added to each row
    born,        \* the rows it has inserted
    slipped      \* history: lines whose row was edited after findFirst gave it

stock == <<info, qty, live>>
document == <<status, approvedAt, rejectedAt>>
placing == <<taken, at, target, gain, born, slipped>>
request == <<pc, job, seen, placing>>
vars == <<stock, document, docLock, request>>

NoRow == [place |-> None, product |-> None, sku |-> None]
NoData == [l \in Lines |-> [product |-> None, sku |-> None]]
NoLine == [line |-> None, row |-> None]
NoTargets == [l \in Lines |-> None]
NoGain == [r \in Rows |-> 0]

LinesOf(t) == {l \in Lines : Doc[l] = t}
Total(S) == SumFunctionOnSet(Count, S)

Present(r) == info[r].place # None
Visible(p, r) == Present(r) /\ \A q \in Procs \ {p} : r \notin born[q]
Committed(r) == Present(r) /\ \A q \in Procs : r \notin born[q]

Held(p) == {Item[l] : l \in taken[p]} \cup {target[p][l] : l \in Lines}
RowFree(p, r) == \A q \in Procs \ {p} : r \notin Held(q)

Init ==
    /\ info = [r \in Rows |-> [place |-> Opening[r].place,
                               product |-> Opening[r].product,
                               sku |-> Opening[r].sku]]
    /\ qty = [r \in Rows |-> Opening[r].qty]
    /\ live = [r \in Rows |-> TRUE]
    /\ status = [t \in Transfers |-> "none"]
    /\ approvedAt = [t \in Transfers |-> FALSE]
    /\ rejectedAt = [t \in Transfers |-> FALSE]
    /\ docLock = [t \in Transfers |-> None]
    /\ pc = [p \in Procs |-> "idle"]
    /\ job = [p \in Procs |-> None]
    /\ seen = [p \in Procs |-> NoData]
    /\ taken = [p \in Procs |-> {}]
    /\ at = [p \in Procs |-> NoLine]
    /\ target = [p \in Procs |-> NoTargets]
    /\ gain = [p \in Procs |-> NoGain]
    /\ born = [p \in Procs |-> {}]
    /\ slipped = [p \in Procs |-> {}]

-----------------------------------------------------------------------------
(* Handlers that are one step.                                             *)

\* The check at creation looks at committed rows, line by line, and reserves
\* nothing; an item may be on two lines.
Create(t) ==
    /\ status[t] = "none"
    /\ \A l \in LinesOf(t) : /\ Committed(Item[l]) /\ info[Item[l]].place = Source[t]
                             /\ qty[Item[l]] >= Count[l]
    /\ status' = [status EXCEPT ![t] = "PENDING"]
    /\ UNCHANGED <<stock, approvedAt, rejectedAt, docLock, request>>

\* Approval asks for the units again, of a soft-deleted item too.
Approve(t) ==
    /\ status[t] = "PENDING" /\ docLock[t] = None
    /\ \A l \in LinesOf(t) : qty[Item[l]] >= Count[l]
    /\ status' = [status EXCEPT ![t] = "APPROVED"]
    /\ approvedAt' = [approvedAt EXCEPT ![t] = TRUE]
    /\ UNCHANGED <<stock, rejectedAt, docLock, request>>

Reject(t) ==
    /\ status[t] = "PENDING" /\ docLock[t] = None
    /\ status' = [status EXCEPT ![t] = "REJECTED"]
    /\ rejectedAt' = [rejectedAt EXCEPT ![t] = TRUE]
    /\ UNCHANGED <<stock, approvedAt, docLock, request>>

Cancel(t) ==
    /\ status[t] \in {"PENDING", "APPROVED", "SENT"} /\ docLock[t] = None
    /\ status' = [status EXCEPT ![t] = "CANCELLED"]
    /\ UNCHANGED <<stock, approvedAt, rejectedAt, docLock, request>>

-----------------------------------------------------------------------------
(* The inventory's own writes, which look at no transfer.  They wait for a *)
(* row that a receipt has written.                                         *)

Unheld(r) == Committed(r) /\ \A p \in Procs : r \notin Held(p)

\* Soft deletion and restoration of an item.
SetDeleted(r) ==
    /\ Unheld(r)
    /\ live' = [live EXCEPT ![r] = ~@]
    /\ UNCHANGED <<info, qty, document, docLock, request>>

Given(v, old) == IF v = Same THEN old ELSE v

\* update, and bulkUpdate item by item: the warehouse, the name, the SKU, which
\* is unique, and the units, of any item by id.
EditItem(e) ==
    LET r == e.row
        n == [place |-> Given(e.place, info[r].place),
              product |-> Given(e.product, info[r].product),
              sku |-> Given(e.sku, info[r].sku)] IN
    /\ Unheld(r)
    /\ \A s \in Rows \ {r} : n.sku # None => info[s].sku # n.sku
    /\ info' = [info EXCEPT ![r] = n]
    /\ qty' = [qty EXCEPT ![r] = Given(e.qty, qty[r])]
    /\ slipped' = [p \in Procs |->
          slipped[p] \cup (IF at[p].row = r THEN {at[p].line} ELSE {})]
    /\ UNCHANGED <<live, document, docLock, pc, job, seen, taken, at, target, gain, born>>

-----------------------------------------------------------------------------
(* Sending: the status is read, and later written whatever it has become.  *)

ReadSend(p, t) ==
    /\ pc[p] = "idle" /\ status[t] = "APPROVED"
    /\ pc' = [pc EXCEPT ![p] = "send"]
    /\ job' = [job EXCEPT ![p] = t]
    /\ UNCHANGED <<stock, document, docLock, seen, placing>>

WriteSend(p) ==
    /\ pc[p] = "send" /\ docLock[job[p]] = None
    /\ status' = [status EXCEPT ![job[p]] = "SENT"]
    /\ pc' = [pc EXCEPT ![p] = "idle"]
    /\ job' = [job EXCEPT ![p] = None]
    /\ UNCHANGED <<stock, approvedAt, rejectedAt, docLock, seen, placing>>

-----------------------------------------------------------------------------
(* The receipt, by QR code or by hand.                                     *)

Rest(p) ==
    /\ pc' = [pc EXCEPT ![p] = "idle"]
    /\ job' = [job EXCEPT ![p] = None]
    /\ seen' = [seen EXCEPT ![p] = NoData]
    /\ taken' = [taken EXCEPT ![p] = {}]
    /\ at' = [at EXCEPT ![p] = NoLine]
    /\ target' = [target EXCEPT ![p] = NoTargets]
    /\ gain' = [gain EXCEPT ![p] = NoGain]
    /\ born' = [born EXCEPT ![p] = {}]
    /\ slipped' = [slipped EXCEPT ![p] = {}]
    /\ docLock' = [t \in Transfers |-> IF docLock[t] = p THEN None ELSE docLock[t]]

Rollback(p) ==
    /\ Rest(p)
    /\ info' = [r \in Rows |-> IF r \in born[p] THEN NoRow ELSE info[r]]
    /\ UNCHANGED <<qty, live, document>>

\* The look-up before the transaction, the only reading of the items' data.
LookUp(p, t) ==
    /\ pc[p] = "idle" /\ status[t] # "none"
    /\ pc' = [pc EXCEPT ![p] = "look"]
    /\ job' = [job EXCEPT ![p] = t]
    /\ seen' = [seen EXCEPT ![p] = [l \in Lines |->
          IF Doc[l] = t THEN [product |-> info[Item[l]].product, sku |-> info[Item[l]].sku]
                        ELSE NoData[l]]]
    /\ UNCHANGED <<stock, document, docLock, placing>>

\* A receipt that does not lock the document it completes.
ReceiveUnlocked(p) ==
    /\ pc[p] = "look" /\ status[job[p]] = "SENT"
    /\ pc' = [pc EXCEPT ![p] = "move"]
    /\ UNCHANGED <<stock, document, docLock, job, seen, placing>>

\* Locks the document and reads its status again; any but SENT is refused.
Receive(p) ==
    /\ pc[p] = "look" /\ docLock[job[p]] = None /\ status[job[p]] = "SENT"
    /\ docLock' = [docLock EXCEPT ![job[p]] = p]
    /\ pc' = [pc EXCEPT ![p] = "move"]
    /\ UNCHANGED <<stock, document, job, seen, placing>>

ReceiveRefused(p) ==
    /\ pc[p] = "look" /\ docLock[job[p]] = None /\ status[job[p]] # "SENT"
    /\ Rollback(p)

TakenOf(p, r) == Total({l \in taken[p] : Item[l] = r})

TakeOk(p, l) ==
    LET r == Item[l] IN live[r] /\ qty[r] >= TakenOf(p, r) + Count[l]

\* The first loop takes every line from its item (takeStock), by id and
\* wherever the item now is.
Take(p, l) ==
    /\ pc[p] = "move" /\ l \in LinesOf(job[p]) \ taken[p]
    /\ RowFree(p, Item[l]) /\ TakeOk(p, l)
    /\ taken' = [taken EXCEPT ![p] = @ \cup {l}]
    /\ UNCHANGED <<stock, document, docLock, pc, job, seen, at, target, gain, born, slipped>>

TakeShort(p, l) ==
    /\ pc[p] = "move" /\ l \in LinesOf(job[p]) \ taken[p]
    /\ RowFree(p, Item[l]) /\ ~TakeOk(p, l)
    /\ Rollback(p)

\* findFirst in the destination: by the product the look-up read, and by SKU
\* when the item had one.  A soft-deleted row will do.
Matches(p, l) ==
    {r \in Rows : /\ Visible(p, r)
                  /\ info[r].place = Dest[job[p]]
                  /\ info[r].product = seen[p][l].product
                  /\ seen[p][l].sku # None => info[r].sku = seen[p][l].sku}

\* The second loop, once every line is taken: look for the row ...
Find(p, l) ==
    /\ pc[p] = "move" /\ taken[p] = LinesOf(job[p])
    /\ l \in LinesOf(job[p]) /\ target[p][l] = None
    /\ \E r \in IF Matches(p, l) = {} THEN {None} ELSE Matches(p, l) :
          at' = [at EXCEPT ![p] = [line |-> l, row |-> r]]
    /\ pc' = [pc EXCEPT ![p] = "put"]
    /\ UNCHANGED <<stock, document, docLock, job, seen, taken, target, gain, born, slipped>>

Placed(p, r) ==
    /\ target' = [target EXCEPT ![p][at[p].line] = r]
    /\ at' = [at EXCEPT ![p] = NoLine]
    /\ pc' = [pc EXCEPT ![p] = "move"]
    /\ UNCHANGED <<qty, live, document, docLock, job, seen, taken, slipped>>

\* The quantity of the row set to the line's, and not incremented by it.
SetTo(p, r) == gain' = [gain EXCEPT ![p][r] = Count[at[p].line]]

AddTo(p, r) == gain' = [gain EXCEPT ![p][r] = @ + Count[at[p].line]]

\* ... increment it if it was there, by id ...
Increment(p) ==
    /\ pc[p] = "put" /\ at[p].row # None
    /\ RowFree(p, at[p].row)
    /\ AddTo(p, at[p].row) /\ Placed(p, at[p].row)
    /\ UNCHANGED <<info, born>>

\* ... or insert it.  The new SKU is the old one with a suffix.
NewRow(d, w) ==
    [place |-> w, product |-> d.product,
     sku |-> IF d.sku = None THEN None ELSE <<d.sku, Prefix[w]>>]

SkuTaken(n) == \E s \in Rows : info[s].sku = n.sku /\ n.sku # None

Insert(p) ==
    LET n == NewRow(seen[p][at[p].line], Dest[job[p]]) IN
    /\ pc[p] = "put" /\ at[p].row = None
    /\ ~SkuTaken(n)
    /\ \E r \in Rows :
          /\ ~Present(r)
          /\ info' = [info EXCEPT ![r] = n]
          /\ born' = [born EXCEPT ![p] = @ \cup {r}]
          /\ AddTo(p, r) /\ Placed(p, r)

\* The unique index on sku refuses a row whose SKU a row of the table, or of
\* this transaction, already has; it makes one wait that another is inserting.
InsertRefused(p) ==
    LET n == NewRow(seen[p][at[p].line], Dest[job[p]]) IN
    /\ pc[p] = "put" /\ at[p].row = None
    /\ \E s \in Rows : Visible(p, s) /\ info[s].sku = n.sku /\ n.sku # None
    /\ Rollback(p)

Commit(p) ==
    /\ pc[p] = "move" /\ \A l \in LinesOf(job[p]) : target[p][l] # None
    /\ qty' = [r \in Rows |-> qty[r] - TakenOf(p, r) + gain[p][r]]
    /\ status' = [status EXCEPT ![job[p]] = "COMPLETED"]
    /\ UNCHANGED <<info, live, approvedAt, rejectedAt>>
    /\ Rest(p)

\* A lost connection, a crash, a deadlock that PostgreSQL breaks.
Fail(p) == pc[p] # "idle" /\ Rollback(p)

Next ==
    \/ \E t \in Transfers : Create(t) \/ Approve(t) \/ Reject(t) \/ Cancel(t)
    \/ \E r \in Rows : SetDeleted(r)
    \/ \E e \in Edits : EditItem(e)
    \/ \E p \in Procs :
          \/ \E t \in Transfers : ReadSend(p, t) \/ LookUp(p, t)
          \/ \E l \in Lines : Take(p, l) \/ TakeShort(p, l) \/ Find(p, l)
          \/ WriteSend(p) \/ Receive(p) \/ ReceiveRefused(p)
          \/ Increment(p) \/ Insert(p) \/ InsertRefused(p) \/ Commit(p) \/ Fail(p)

Spec == Init /\ [][Next]_vars

-----------------------------------------------------------------------------
(* Properties.                                                             *)

TypeOK ==
    /\ info = [r \in Rows |-> info[r]]
    /\ \A r \in Rows : info[r].place \in Warehouses \cup {None}
    /\ qty \in [Rows -> Int]
    /\ live \in [Rows -> BOOLEAN]
    /\ status \in [Transfers -> {"none", "PENDING", "APPROVED", "REJECTED",
                                 "SENT", "COMPLETED", "CANCELLED"}]
    /\ approvedAt \in [Transfers -> BOOLEAN]
    /\ rejectedAt \in [Transfers -> BOOLEAN]
    /\ docLock \in [Transfers -> Procs \cup {None}]
    /\ pc \in [Procs -> {"idle", "send", "look", "move", "put"}]
    /\ job \in [Procs -> Transfers \cup {None}]
    /\ seen = [p \in Procs |-> seen[p]]
    /\ taken \in [Procs -> SUBSET Lines]
    /\ at \in [Procs -> [line : Lines \cup {None}, row : Rows \cup {None}]]
    /\ target \in [Procs -> [Lines -> Rows \cup {None}]]
    /\ gain \in [Procs -> [Rows -> Nat]]
    /\ born \in [Procs -> SUBSET Rows]
    /\ slipped = [p \in Procs |-> slipped[p]]

\* The rows a request wrote are its own, and the row it found stays to be seen.
RowsOk(p) ==
    /\ \A q \in Procs \ {p} : Held(p) \cap Held(q) \subseteq {None}
    /\ \A r \in Held(p) \ {None} : Present(r)
    /\ \A r \in Rows : gain[p][r] > 0 => r \in Held(p)
    /\ born[p] \subseteq Held(p) /\ \A r \in born[p] : qty[r] = 0
    /\ at[p].row # None => Visible(p, at[p].row)

\* A receipt in flight has its document SENT under its lock, and what it took is
\* still there to take when it commits; a send writes what was approved.
RequestOk(p) ==
    LET t == job[p] IN
    /\ pc[p] \in {"idle", "send", "look"} => Held(p) \subseteq {None}
    /\ pc[p] = "send" => t \in Transfers /\ approvedAt[t] /\ ~rejectedAt[t]
    /\ pc[p] = "look" => t \in Transfers
    /\ pc[p] \in {"move", "put"} =>
          /\ t \in Transfers /\ status[t] = "SENT" /\ docLock[t] = p
          /\ taken[p] \subseteq LinesOf(t)
          /\ \A l \in taken[p] : live[Item[l]] /\ qty[Item[l]] >= TakenOf(p, Item[l])
    /\ pc[p] = "put" => at[p].line \in Lines /\ target[p][at[p].line] = None

RequestInv ==
    /\ \A p \in Procs : RowsOk(p) /\ RequestOk(p)
    /\ \A r \in Rows : ~Present(r) => qty[r] = 0

\* A row of the destination and of the product read, for a line.
Fits(p, l, r) ==
    info[r].place = Dest[job[p]] /\ info[r].product = seen[p][l].product

\* Every line placed is in a row of its product in the destination, unless an
\* edit changed the row between findFirst and the increment, and a row gains
\* what the lines placed in it ask for.
LinesOk(p) ==
    LET t == job[p] IN
    pc[p] \in {"move", "put"} =>
        /\ \A l \in Lines : target[p][l] # None =>
              /\ l \in LinesOf(t) /\ taken[p] = LinesOf(t)
              /\ l \notin slipped[p] => Fits(p, l, target[p][l])
        /\ pc[p] = "put" =>
              /\ at[p].line \in LinesOf(t) /\ taken[p] = LinesOf(t)
              /\ at[p].row # None /\ at[p].line \notin slipped[p] =>
                    Fits(p, at[p].line, at[p].row)
        /\ \A r \in Rows : gain[p][r] = Total({l \in Lines : target[p][l] = r})

ApprovalOk(t) ==
    /\ status[t] \in {"none", "PENDING"} => ~approvedAt[t] /\ ~rejectedAt[t]
    /\ status[t] = "APPROVED" => approvedAt[t] /\ ~rejectedAt[t]

\* No receipt, alone or beside another of the same rows, takes units that are
\* not there (takeStock in the first loop of applyInventoryTransfer).
NonNegativeStock == \A r \in Rows : qty[r] >= 0

\* Stock is shipped and received only on an approval that nobody has refused,
\* although send writes its status without a lock.
ApprovedBeforeSent ==
    \A t \in Transfers :
        status[t] \in {"SENT", "COMPLETED"} => approvedAt[t] /\ ~rejectedAt[t]

RowsInv ==
    /\ TypeOK /\ RequestInv /\ NonNegativeStock
    /\ (\A t \in Transfers : ApprovalOk(t)) /\ ApprovedBeforeSent

LinesInv == \A p \in Procs : LinesOk(p)

\* confirmReceipt, sendTransfer: every statement of every request keeps the
\* rows, the locks and what the requests have read and written consistent,
\* leaves the stock and the approvals as said above, and puts the units taken
\* for a line in a row of the destination and of the product the look-up read,
\* whatever edits of the items come between, but for an edit of that very row
\* between findFirst and the increment.
IInv == RowsInv /\ LinesInv

Products == {info[r].product : r \in Rows} \ {None}

Stocked(r, w, x) == info[r].place = w /\ info[r].product = x

Units(w, x) == SumFunctionOnSet(qty, {r \in Rows : Stocked(r, w, x)})

\* Where a line's units go: to the destination as the product read, or, when an
\* edit took the row found away, wherever it took it.
Lands(p, l, w, x) ==
    IF l \in slipped[p] THEN Stocked(target[p][l], w, x)
                        ELSE w = Dest[job[p]] /\ x = seen[p][l].product

Delivered(t) ==
    LET p == docLock[t] IN
    /\ status[t] = "SENT" /\ status'[t] = "COMPLETED"
    /\ \A w \in Warehouses, x \in Products :
          Units(w, x)' = Units(w, x) - Total({l \in LinesOf(t) : Stocked(Item[l], w, x)})
                                     + Total({l \in LinesOf(t) : Lands(p, l, w, x)})

\* One row that no receipt in flight has written is given other units.
Corrected ==
    \E r \in Rows : /\ qty' = [qty EXCEPT ![r] = qty'[r]]
                    /\ \A p \in Procs : r \notin Held(p)

\* Units change hands only when a SENT transfer is completed, and then all its
\* lines at once: each leaves its item, in whatever warehouse an edit has put it
\* by then, and reaches the destination under the product the look-up read,
\* warehouse by warehouse and product by product, so that nothing is lost,
\* doubled or half done whatever rows the lines share or land in.  Apart from
\* that an edit corrects one item, never one a receipt is moving.
MovesWhole ==
    [][qty' # qty => Corrected \/ \E t \in Transfers : Delivered(t)]_vars
=============================================================================
