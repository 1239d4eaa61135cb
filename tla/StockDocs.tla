----------------------------- MODULE StockDocs -----------------------------
(***************************************************************************)
(* The documents that move stock, as the services run them: each request   *)
(* is one PostgreSQL READ COMMITTED transaction that locks its document    *)
(* row, reads the status it depends on, checks the stock, updates the item *)
(* rows one at a time (each update locks its row to the end of the         *)
(* transaction) and commits.  Requests interleave at every statement.      *)
(*                                                                         *)
(* qty, live, status and lines are the committed rows.  A request's own    *)
(* writes are the item rows in done[p] and become visible at Commit.       *)
(***************************************************************************)
EXTENDS Integers, FiniteSets

CONSTANTS
    Items, Docs, KindOf, Payloads, Opening,  \* as in StockLedger
    Procs,  \* requests that may be in flight at once
    None    \* no lock holder, no item

VARIABLES
    qty, live, status, lines,
    docLock,  \* who holds the document row (SELECT ... FOR UPDATE)
    pc,       \* where the request is in its transaction
    job,      \* what it was asked: an operation, its document, its payload
    move,     \* the units it decided to move, per item
    at,       \* the item its next statement updates
    done      \* the item rows it has updated and so holds locked

\* The ledger is read off the committed rows; requests in flight do not show.
Ledger == INSTANCE StockLedger WITH
    Items <- Items, Docs <- Docs, KindOf <- KindOf, Payloads <- Payloads,
    Opening <- Opening, qty <- qty, live <- live, status <- status, lines <- lines

rows == <<qty, live, status, lines>>
request == <<pc, job, move, at, done>>
vars == <<rows, docLock, request>>

Lines == Ledger!Lines
NoLines == [i \in Items |-> 0]
Outgoing(d) == Ledger!Outgoing(d)

Ops == {"create", "confirm", "edit", "cancel"}
Jobs == [op : Ops, doc : Docs, lines : Lines]
NoJob == [op |-> None, doc |-> None, lines |-> NoLines]

ASSUME StockAssumption ==
    /\ IsFiniteSet(Docs)
    /\ KindOf \in [Docs -> Ledger!Kinds]
    /\ Payloads \in [Docs -> SUBSET Lines]
    /\ Opening \in Lines
    /\ None \notin Procs \cup Items \cup Docs \cup Ops

-----------------------------------------------------------------------------

\* The operations offered on a stored document of each kind.
OpsOn(kind) == IF kind = "sale" THEN {"confirm", "edit", "cancel"} ELSE {"cancel"}

\* confirm and edit that only refuse a sale in force.
ExpectsNotActive(op, kind) ==
    IF op = "cancel" THEN {"DRAFT", "ACTIVE"} ELSE {"DRAFT", "CANCELLED"}

\* The statuses under which an operation goes on (otherwise it is refused).
Expects(op, kind) ==
    CASE op \in {"confirm", "edit"} -> {"DRAFT"}
      [] op = "cancel" -> IF kind = "sale" THEN {"DRAFT", "ACTIVE"} ELSE {"ACTIVE"}

\* A request that writes quantities uses takeStock when it posts an outgoing
\* document or undoes an incoming one, and a plain increment otherwise.
Taking(p) == Outgoing(job[p].doc) <=> job[p].op # "cancel"

ToDo(p) == {i \in Items : move[p][i] > 0} \ done[p]

RowFree(i) == \A q \in Procs : i \notin done[q]

Enough(l) == \A i \in Items : l[i] > 0 => live[i] /\ qty[i] >= l[i]

\* What the request's transaction leaves in an item row.
Written(p, i) ==
    IF i \notin done[p] THEN qty[i]
    ELSE IF Taking(p) THEN qty[i] - move[p][i] ELSE qty[i] + move[p][i]

TypeOK ==
    /\ qty \in [Items -> Int]
    /\ live \in [Items -> BOOLEAN]
    /\ status \in [Docs -> Ledger!Statuses]
    /\ lines \in [Docs -> Lines]
    /\ docLock \in [Docs -> Procs \cup {None}]
    /\ pc \in [Procs -> {"idle", "lock", "read", "check", "move", "write"}]
    /\ job \in [Procs -> Jobs \cup {NoJob}]
    /\ move \in [Procs -> Lines]
    /\ at \in [Procs -> Items \cup {None}]
    /\ done \in [Procs -> SUBSET Items]

Init ==
    /\ Ledger!Init
    /\ docLock = [d \in Docs |-> None]
    /\ pc = [p \in Procs |-> "idle"]
    /\ job = [p \in Procs |-> NoJob]
    /\ move = [p \in Procs |-> NoLines]
    /\ at = [p \in Procs |-> None]
    /\ done = [p \in Procs |-> {}]

-----------------------------------------------------------------------------
(* Statements of a request.                                                *)

Goto(p, label) == pc' = [pc EXCEPT ![p] = label]

\* A lock that outlives the transaction (a session lock never released).
EndKeepingLock(p) ==
    /\ Goto(p, "idle")
    /\ job' = [job EXCEPT ![p] = NoJob]
    /\ move' = [move EXCEPT ![p] = NoLines]
    /\ at' = [at EXCEPT ![p] = None]
    /\ done' = [done EXCEPT ![p] = {}]
    /\ UNCHANGED docLock

\* The transaction ends and its locks go with it.
End(p) ==
    /\ Goto(p, "idle")
    /\ job' = [job EXCEPT ![p] = NoJob]
    /\ move' = [move EXCEPT ![p] = NoLines]
    /\ at' = [at EXCEPT ![p] = None]
    /\ done' = [done EXCEPT ![p] = {}]
    /\ docLock' = [d \in Docs |-> IF docLock[d] = p THEN None ELSE docLock[d]]

Rollback(p) == End(p) /\ UNCHANGED rows

\* A document that no row and no other request's uncommitted insert stands for.
Fresh(d) == status[d] = "none" /\ \A q \in Procs : job[q].doc # d

\* A quotation only inserts the sale: no stock check, no decrement.
Quote(d, l) ==
    /\ KindOf[d] = "sale" /\ Fresh(d)
    /\ status' = [status EXCEPT ![d] = "DRAFT"]
    /\ lines' = [lines EXCEPT ![d] = l]
    /\ UNCHANGED <<qty, live, docLock, request>>

\* A new document.  Its payload was validated before the transaction, which a
\* later change may belie; label is the transaction's first statement.
StartCreate(p, d, l, label) ==
    /\ pc[p] = "idle" /\ Fresh(d)
    /\ job' = [job EXCEPT ![p] = [op |-> "create", doc |-> d, lines |-> l]]
    /\ move' = [move EXCEPT ![p] = l]
    /\ Goto(p, label)
    /\ UNCHANGED <<rows, docLock, at, done>>

\* A request on a stored document.  The look-up before the transaction only
\* asks that it exists and may be seen.
StartOn(p, op, d, l) ==
    /\ pc[p] = "idle"
    /\ status[d] \notin {"none", "DELETED"}
    /\ job' = [job EXCEPT ![p] = [op |-> op, doc |-> d, lines |-> l]]
    /\ Goto(p, "lock")
    /\ UNCHANGED <<rows, docLock, move, at, done>>

\* The handlers.  Each begins as below and goes on with the statements that
\* follow, which the services share.
CreateSale(p, d, l) == KindOf[d] = "sale" /\ StartCreate(p, d, l, "check")
ConfirmSale(p, d) == KindOf[d] = "sale" /\ StartOn(p, "confirm", d, NoLines)
EditSale(p, d, l) == KindOf[d] = "sale" /\ StartOn(p, "edit", d, l)
CancelSale(p, d) == KindOf[d] = "sale" /\ StartOn(p, "cancel", d, NoLines)
CreateOutflow(p, d, l) == KindOf[d] = "outflow" /\ StartCreate(p, d, l, "check")
CancelOutflow(p, d) == KindOf[d] = "outflow" /\ StartOn(p, "cancel", d, NoLines)
CreatePurchase(p, d, l) == KindOf[d] = "purchase" /\ StartCreate(p, d, l, "check")
CancelPurchase(p, d) == KindOf[d] = "purchase" /\ StartOn(p, "cancel", d, NoLines)

\* A transaction goes straight to the quantities: no second look at its items.
CreateTransaction(p, d, l) ==
    KindOf[d] \in {"entry", "exit"} /\ StartCreate(p, d, l, "move")
RemoveTransaction(p, d) ==
    KindOf[d] \in {"entry", "exit"} /\ StartOn(p, "cancel", d, NoLines)

\* lockForUpdate without the wait.
LockDocAtOnce(p) ==
    /\ pc[p] = "lock"
    /\ docLock' = [docLock EXCEPT ![job[p].doc] = p]
    /\ Goto(p, "read")
    /\ UNCHANGED <<rows, job, move, at, done>>

LockDoc(p) ==
    /\ pc[p] = "lock"
    /\ docLock[job[p].doc] = None
    /\ docLock' = [docLock EXCEPT ![job[p].doc] = p]
    /\ Goto(p, "read")
    /\ UNCHANGED <<rows, job, move, at, done>>

\* The status and the lines are read under the lock.
ReadDoc(p) ==
    LET d == job[p].doc IN
    /\ pc[p] = "read"
    /\ status[d] \in Expects(job[p].op, KindOf[d])
    /\ move' = [move EXCEPT ![p] =
                    IF job[p].op = "confirm" \/ status[d] = "ACTIVE"
                    THEN lines[d] ELSE NoLines]
    /\ Goto(p, IF job[p].op = "cancel" THEN "move" ELSE "check")
    /\ UNCHANGED <<rows, docLock, job, at, done>>

RefuseStatus(p) ==
    /\ pc[p] = "read"
    /\ status[job[p].doc] \notin Expects(job[p].op, KindOf[job[p].doc])
    /\ Rollback(p)

\* The re-read inside the transaction: the items must be live and, for a sale
\* or an outflow, in stock.  An edit checks its new lines for existence only.
CheckPasses(p) ==
    LET l == IF job[p].op = "edit" THEN job[p].lines ELSE move[p] IN
    IF Taking(p) /\ job[p].op # "edit" THEN Enough(l)
    ELSE \A i \in Items : l[i] > 0 => live[i]

CheckItems(p) ==
    /\ pc[p] = "check" /\ CheckPasses(p)
    /\ Goto(p, "move")
    /\ UNCHANGED <<rows, docLock, job, move, at, done>>

RefuseItems(p) == pc[p] = "check" /\ ~CheckPasses(p) /\ Rollback(p)

\* The next line's update is sent; the payload may list items in any order.
Send(p, i) ==
    /\ pc[p] = "move" /\ i \in ToDo(p)
    /\ at' = [at EXCEPT ![p] = i]
    /\ Goto(p, "write")
    /\ UNCHANGED <<rows, docLock, job, move, done>>

Wrote(p) ==
    /\ RowFree(at[p])
    /\ done' = [done EXCEPT ![p] = @ \cup {at[p]}]
    /\ at' = [at EXCEPT ![p] = None]
    /\ Goto(p, "move")
    /\ UNCHANGED <<rows, docLock, job, move>>

\* takeStock without the re-check of deletedAt.
TakeDeleted(p, i) == qty[i] >= move[p][i]

\* takeStock: one UPDATE that waits for the row and re-checks it when it has it.
TakeOk(p, i) == live[i] /\ qty[i] >= move[p][i]

Take(p) == pc[p] = "write" /\ Taking(p) /\ TakeOk(p, at[p]) /\ Wrote(p)

\* A committed row that does not qualify matches nothing, locked or not.
TakeShort(p) == pc[p] = "write" /\ Taking(p) /\ ~TakeOk(p, at[p]) /\ Rollback(p)

\* quantity: { increment }, which looks at nothing else.
Put(p) == pc[p] = "write" /\ ~Taking(p) /\ Wrote(p)

NewStatus(p) ==
    LET d == job[p].doc IN
    CASE job[p].op \in {"create", "confirm"} -> "ACTIVE"
      [] job[p].op = "edit" -> "DRAFT"
      [] job[p].op = "cancel" -> Ledger!UndoneAs(d)

Commit(p) ==
    LET d == job[p].doc IN
    /\ pc[p] = "move" /\ ToDo(p) = {}
    /\ qty' = [i \in Items |-> Written(p, i)]
    /\ status' = [status EXCEPT ![d] = NewStatus(p)]
    /\ lines' = [lines EXCEPT ![d] =
                    IF job[p].op \in {"create", "edit"} THEN job[p].lines ELSE @]
    /\ UNCHANGED live
    /\ End(p)

\* Anything else that stops the transaction: no number left to assign, the
\* credit limit, active payments, a lost connection, a crash.
Fail(p) == pc[p] # "idle" /\ Rollback(p)

\* PostgreSQL breaks a cycle of waiting transactions by aborting one of them.
WaitsFor(p, q) == p # q /\ pc[p] = "write" /\ at[p] \in done[q]

Deadlocked(p) ==
    \E S \in SUBSET Procs :
        p \in S /\ \A x \in S : \E y \in S : WaitsFor(x, y)

DeadlockVictim(p) == Deadlocked(p) /\ Rollback(p)

-----------------------------------------------------------------------------
(* Single-statement requests on an item row.                               *)

SoftDelete(i) ==
    /\ live[i] /\ RowFree(i)
    /\ live' = [live EXCEPT ![i] = FALSE]
    /\ UNCHANGED <<qty, status, lines, docLock, request>>

Restore(i) ==
    /\ ~live[i] /\ RowFree(i)
    /\ live' = [live EXCEPT ![i] = TRUE]
    /\ UNCHANGED <<qty, status, lines, docLock, request>>

Begin(p) ==
    \E d \in Docs :
        \/ \E l \in Payloads[d] :
              \/ CreateSale(p, d, l) \/ EditSale(p, d, l)
              \/ CreateOutflow(p, d, l) \/ CreatePurchase(p, d, l)
              \/ CreateTransaction(p, d, l)
        \/ ConfirmSale(p, d) \/ CancelSale(p, d) \/ CancelOutflow(p, d)
        \/ CancelPurchase(p, d) \/ RemoveTransaction(p, d)

Step(p) ==
    \/ LockDoc(p) \/ ReadDoc(p) \/ RefuseStatus(p)
    \/ CheckItems(p) \/ RefuseItems(p)
    \/ \E i \in Items : Send(p, i)
    \/ Take(p) \/ TakeShort(p) \/ Put(p)
    \/ Commit(p)

Next ==
    \/ \E d \in Docs : \E l \in Payloads[d] : Quote(d, l)
    \/ \E p \in Procs : Begin(p) \/ Step(p) \/ Fail(p) \/ DeadlockVictim(p)
    \/ \E i \in Items : SoftDelete(i) \/ Restore(i)

Spec == Init /\ [][Next]_vars

\* A statement that can run does run; one that waits for a row gets it if the
\* row is free again and again (PostgreSQL queues waiters); a cycle is broken.
Fairness ==
    /\ \A p \in Procs : SF_vars(Step(p))
    /\ WF_vars(\E p \in Procs : DeadlockVictim(p))

FairSpec == Spec /\ Fairness

-----------------------------------------------------------------------------
(* Properties.                                                             *)

\* What a request in flight knows of its own job.
JobOk(p) ==
    IF pc[p] = "idle" THEN job[p] = NoJob /\ done[p] = {}
    ELSE /\ job[p] \in Jobs
         /\ job[p].op \in OpsOn(KindOf[job[p].doc]) \cup {"create"}
         /\ job[p].op \in {"create", "edit"} => job[p].lines \in Payloads[job[p].doc]
         /\ job[p].op = "create" =>
                /\ pc[p] \in {"check", "move", "write"}
                /\ move[p] = job[p].lines

JobInv == \A p \in Procs : JobOk(p)

\* The document stays as the request found it: a new one is nobody else's, and
\* a stored one keeps the status and the lines read under its lock.
DocOk(p) ==
    LET d == job[p].doc IN
    IF job[p].op = "create"
    THEN status[d] = "none" /\ \A q \in Procs \ {p} : job[q].doc # d
    ELSE /\ status[d] # "none"
         /\ pc[p] # "lock" => docLock[d] = p
         /\ pc[p] \in {"check", "move", "write"} =>
                /\ status[d] \in Expects(job[p].op, KindOf[d])
                /\ move[p] = IF job[p].op = "confirm" \/ status[d] = "ACTIVE"
                             THEN lines[d] ELSE NoLines

DocInv == \A p \in Procs : pc[p] # "idle" => DocOk(p)

\* An updated item row is locked by its writer alone, and units taken from it
\* are still there to take when the writer commits.
RowOk(p) ==
    /\ \A q \in Procs \ {p} : done[p] \cap done[q] = {}
    /\ \A i \in done[p] :
          /\ pc[p] \in {"move", "write"}
          /\ move[p][i] > 0
          /\ Taking(p) => live[i] /\ qty[i] >= move[p][i]
    /\ pc[p] = "write" => at[p] \in ToDo(p)

RowInv == \A p \in Procs : RowOk(p)

\* No interleaving of sales, outflows, cancellations and deletions leaves an
\* item below zero, though takeStock and the increments of several requests
\* run between one another's reads and writes.
NonNegativeStock == Ledger!NonNegativeStock

\* The inductive invariant: every statement of every request, in any order with
\* the others', keeps the request, its document and its rows consistent.
IInv == TypeOK /\ JobInv /\ DocInv /\ RowInv /\ NonNegativeStock

\* What is on hand is always the opening stock plus what the documents in force
\* brought in, less what they took: no document moves its units twice, half of
\* them, or lines it does not have, whatever two requests do to it at once.
Conservation == Ledger!Conservation

\* Every committed step is one whole posting, edit or undo of one document.
ImplementsLedger == Ledger!Spec

\* Units never leave an item that is soft-deleted when the transaction commits,
\* although the item may be deleted after the friendly check has passed.
TakesOnlyFromLive == [][\A i \in Items : qty'[i] < qty[i] => live[i]]_vars

\* Every request is answered: waiting for rows ends even when the payloads of
\* two requests name the same items in opposite orders.
RequestsEnd == \A p \in Procs : pc[p] # "idle" ~> pc[p] = "idle"
=============================================================================
