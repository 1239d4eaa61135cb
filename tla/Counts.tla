------------------------------- MODULE Counts -------------------------------
(***************************************************************************)
(* Stock taken and stock given away: the counts of a warehouse             *)
(* (StockTakeService) and the discharge requests that write items off      *)
(* (DischargeRequestsService), beside the documents that move the same     *)
(* rows and whatever happens on the shelf.                                 *)
(*                                                                         *)
(* The counts of one warehouse are modelled, as two warehouses share no    *)
(* row of theirs.  shelf is what is really there: it moves with qty when a *)
(* document does, alone when a unit is lost or found, and stays when qty   *)
(* is written over.  It is below zero while units are owed that the system *)
(* held and the shelf did not.                                             *)
(***************************************************************************)
EXTENDS Integers

CONSTANTS
    Items,       \* the items of the warehouse
    Opening,     \* units of each to begin with
    Takes,       \* rows of stock_takes
    Discharges,
    LinesOf,     \* the units each discharge request asks for, one line per item
    Moves,       \* <<item, units>> that other documents may move
    Slips,       \* <<item, units>> that may be lost or found on the shelf
    Edits,       \* <<item, units>> that may be written over what the system holds
    Deletable,   \* items that may be deleted meanwhile
    MaxUnits,    \* bound on what is on the shelf, or owed
    Procs,       \* requests that may be in flight at once
    None

Docs == Takes \cup Discharges

ASSUME CountsAssumption ==
    /\ Takes \cap Discharges = {}
    /\ Opening \in [Items -> Nat]
    /\ LinesOf \in [Discharges -> [Items -> Nat]]
    /\ Moves \subseteq Items \X Int
    /\ Slips \subseteq Items \X Int
    /\ Edits \subseteq Items \X Nat
    /\ Deletable \subseteq Items
    /\ MaxUnits \in Nat
    /\ None \notin Docs \cup Items \cup Procs \cup Nat

VARIABLES
    qty, live,  \* the committed item rows
    shelf,
    take,       \* status of each stock take
    applied,    \* its adjustmentsApplied
    line,       \* its line of each item, NoLine if it has none
    discharge,  \* status of each discharge request
    outflows,   \* outflows made of it
    homeLock,   \* who holds the warehouse's row
    docLock,    \* who holds the row of a stock take or discharge request
    pc, job,    \* where each request is, and what it works on
    plan, done  \* the change it is to make to each item, and those it has made

\* exact is history: what was counted was on the shelf when it was saved, and
\* nothing was lost, found or written over since.
NoLine == [expected |-> None, counted |-> None, exact |-> FALSE]
NoJob == [doc |-> None, item |-> None, saw |-> 0, apply |-> FALSE]
NoPlan == [i \in Items |-> 0]

stock == <<qty, live, shelf>>
counts == <<take, applied, line>>
requests == <<discharge, outflows>>
locks == <<homeLock, docLock>>
flight == <<pc, job, plan, done>>
vars == <<stock, counts, requests, locks, flight>>

Init ==
    /\ qty = Opening
    /\ live = [i \in Items |-> TRUE]
    /\ shelf = Opening
    /\ take = [k \in Takes |-> "none"]
    /\ applied = [k \in Takes |-> FALSE]
    /\ line = [k \in Takes |-> [i \in Items |-> NoLine]]
    /\ discharge = [d \in Discharges |-> "none"]
    /\ outflows = [d \in Discharges |-> 0]
    /\ homeLock = None
    /\ docLock = [d \in Docs |-> None]
    /\ pc = [p \in Procs |-> "idle"]
    /\ job = [p \in Procs |-> NoJob]
    /\ plan = [p \in Procs |-> NoPlan]
    /\ done = [p \in Procs |-> {}]

Goto(p, label) == pc' = [pc EXCEPT ![p] = label]

Begin(p, j, label) ==
    pc[p] = "idle" /\ job' = [job EXCEPT ![p] = j] /\ Goto(p, label)

End(p) ==
    /\ Goto(p, "idle")
    /\ job' = [job EXCEPT ![p] = NoJob]
    /\ plan' = [plan EXCEPT ![p] = NoPlan]
    /\ done' = [done EXCEPT ![p] = {}]
    /\ homeLock' = IF homeLock = p THEN None ELSE homeLock
    /\ docLock' = [d \in Docs |-> IF docLock[d] = p THEN None ELSE docLock[d]]

Rollback(p) == End(p) /\ UNCHANGED <<stock, counts, requests>>

RowFree(i) == \A q \in Procs : i \notin done[q]

-----------------------------------------------------------------------------
(* A stock take is started, counted item by item, and cancelled.           *)

InProgress == {k \in Takes : take[k] = "IN_PROGRESS"}

Fresh(k) == take[k] = "none" /\ \A q \in Procs : job[q].doc # k

\* The look for a count in progress without the warehouse's lock.
StartUnlocked(p, k) ==
    /\ InProgress = {} /\ Fresh(k)
    /\ Begin(p, [NoJob EXCEPT !.doc = k], "start")
    /\ UNCHANGED <<stock, counts, requests, locks, plan, done>>

Start(p, k) ==
    /\ InProgress = {} /\ Fresh(k)
    /\ homeLock = None /\ homeLock' = p
    /\ Begin(p, [NoJob EXCEPT !.doc = k], "start")
    /\ UNCHANGED <<stock, counts, requests, docLock, plan, done>>

\* A line for every live item, with what the system holds.
Create(p) ==
    /\ pc[p] = "start"
    /\ take' = [take EXCEPT ![job[p].doc] = "IN_PROGRESS"]
    /\ line' = [line EXCEPT ![job[p].doc] =
                   [i \in Items |-> IF live[i] THEN [NoLine EXCEPT !.expected = qty[i]] ELSE NoLine]]
    /\ UNCHANGED <<stock, applied, requests>>
    /\ End(p)

\* Somebody looks at the shelf, and will send what they saw.
Look(p, k, i) ==
    /\ take[k] = "IN_PROGRESS" /\ line[k][i].expected # None /\ shelf[i] >= 0
    /\ Begin(p, [doc |-> k, item |-> i, saw |-> shelf[i], apply |-> FALSE], "count")
    /\ UNCHANGED <<stock, counts, requests, locks, plan, done>>

\* The variance against what the system held when the take was started.
ExpectedAtStart(k, i) == line[k][i].expected

\* What a count is compared with: the system's units as they are now.
Expected(k, i) == qty[i]

\* updateItem: the take is locked and found in progress.  The variance it stores
\* is counted - expected.
SaveCount(p) ==
    LET k == job[p].doc
        i == job[p].item
    IN
    /\ pc[p] = "count" /\ docLock[k] = None /\ take[k] = "IN_PROGRESS"
    /\ line' = [line EXCEPT ![k][i] = [expected |-> Expected(k, i), counted |-> job[p].saw,
                                       exact |-> job[p].saw = shelf[i]]]
    /\ UNCHANGED <<stock, take, applied, requests>>
    /\ End(p)

RefuseCount(p) ==
    /\ pc[p] = "count" /\ docLock[job[p].doc] = None /\ take[job[p].doc] # "IN_PROGRESS"
    /\ Rollback(p)

\* Only a completed take cannot be cancelled.
Cancel(k) ==
    /\ take[k] \in {"IN_PROGRESS", "CANCELLED"} /\ docLock[k] = None
    /\ take' = [take EXCEPT ![k] = "CANCELLED"]
    /\ UNCHANGED <<stock, applied, line, requests, locks, flight>>

-----------------------------------------------------------------------------
(* A take is completed and a discharge request approved: both lock their   *)
(* row, check, update the items one by one and commit.                     *)

Lines(k) == {i \in Items : line[k][i].expected # None}

Variance(k, i) ==
    IF i \in Lines(k) THEN line[k][i].counted - line[k][i].expected ELSE 0

Complete(p, k, apply) ==
    /\ docLock[k] = None /\ docLock' = [docLock EXCEPT ![k] = p]
    /\ take[k] = "IN_PROGRESS" /\ \A i \in Lines(k) : line[k][i].counted # None
    /\ plan' = [plan EXCEPT ![p] = [i \in Items |-> IF apply THEN Variance(k, i) ELSE 0]]
    /\ Begin(p, [doc |-> k, item |-> None, saw |-> 0, apply |-> apply], "move")
    /\ UNCHANGED <<stock, counts, requests, homeLock, done>>

\* The public form asks for the units, of a deleted item too, and reserves none.
Ask(d) ==
    /\ discharge[d] = "none" /\ \A i \in Items : qty[i] >= LinesOf[d][i]
    /\ discharge' = [discharge EXCEPT ![d] = "PENDING"]
    /\ UNCHANGED <<stock, counts, outflows, locks, flight>>

\* complete that trusts the look-up before the transaction.
ApproveUnlocked(p, d) ==
    /\ discharge[d] = "PENDING"
    /\ plan' = [plan EXCEPT ![p] = [i \in Items |-> -LinesOf[d][i]]]
    /\ Begin(p, [NoJob EXCEPT !.doc = d], "check")
    /\ UNCHANGED <<stock, counts, requests, locks, done>>

Approve(p, d) ==
    /\ discharge[d] = "PENDING"
    /\ docLock[d] = None /\ docLock' = [docLock EXCEPT ![d] = p]
    /\ plan' = [plan EXCEPT ![p] = [i \in Items |-> -LinesOf[d][i]]]
    /\ Begin(p, [NoJob EXCEPT !.doc = d], "check")
    /\ UNCHANGED <<stock, counts, requests, homeLock, done>>

TakeOk(p, i) == live[i] /\ qty[i] + plan[p][i] >= 0

Available(p) == \A i \in Items : plan[p][i] < 0 => live[i] /\ qty[i] + plan[p][i] >= 0

\* The items are read again, and refused early.
Check(p) ==
    /\ pc[p] = "check" /\ Available(p)
    /\ Goto(p, "move")
    /\ UNCHANGED <<stock, counts, requests, locks, job, plan, done>>

RefuseItems(p) == pc[p] = "check" /\ ~Available(p) /\ Rollback(p)

ToDo(p) == {i \in Items : plan[p][i] # 0} \ done[p]

Write(p, i) ==
    /\ pc[p] = "move" /\ i \in ToDo(p) /\ RowFree(i)
    /\ done' = [done EXCEPT ![p] = @ \cup {i}]
    /\ UNCHANGED <<stock, counts, requests, locks, pc, job, plan>>

\* takeStock for what goes out, an increment for what comes in.
Take(p, i) == plan[p][i] < 0 /\ TakeOk(p, i) /\ Write(p, i)
Put(p, i) == plan[p][i] > 0 /\ Write(p, i)

TakeShort(p, i) ==
    /\ pc[p] = "move" /\ i \in ToDo(p) /\ RowFree(i) /\ plan[p][i] < 0 /\ ~TakeOk(p, i)
    /\ Rollback(p)

AllDone(p) == pc[p] = "move" /\ ToDo(p) = {}

Moved(p) == [i \in Items |-> qty[i] + plan[p][i]]

CommitTake(p) ==
    LET k == job[p].doc IN
    /\ AllDone(p) /\ k \in Takes
    /\ qty' = Moved(p)
    /\ take' = [take EXCEPT ![k] = "COMPLETED"]
    /\ applied' = [applied EXCEPT ![k] = job[p].apply]
    /\ UNCHANGED <<live, shelf, line, requests>>
    /\ End(p)

\* The outflow is recorded and the units leave the shelf.
CommitDischarge(p) ==
    LET d == job[p].doc IN
    /\ AllDone(p) /\ d \in Discharges
    /\ qty' = Moved(p)
    /\ shelf' = [i \in Items |-> shelf[i] + plan[p][i]]
    /\ discharge' = [discharge EXCEPT ![d] = "COMPLETED"]
    /\ outflows' = [outflows EXCEPT ![d] = @ + 1]
    /\ UNCHANGED <<live, counts>>
    /\ End(p)

\* reject reads the status in its transaction, without a lock, and then writes.
ReadReject(p, d) ==
    /\ discharge[d] = "PENDING"
    /\ Begin(p, [NoJob EXCEPT !.doc = d], "reject")
    /\ UNCHANGED <<stock, counts, requests, locks, plan, done>>

WriteReject(p) ==
    /\ pc[p] = "reject" /\ docLock[job[p].doc] = None
    /\ discharge' = [discharge EXCEPT ![job[p].doc] = "REJECTED"]
    /\ UNCHANGED <<stock, counts, outflows>>
    /\ End(p)

Fail(p) == pc[p] # "idle" /\ Rollback(p)

-----------------------------------------------------------------------------
(* What else happens to the items.                                         *)

\* Another document's commit on the row (takeStock or an increment).
MoveStock(i, n) ==
    /\ RowFree(i) /\ qty[i] + n >= 0 /\ (n < 0 => live[i])
    /\ shelf[i] + n \in -MaxUnits .. MaxUnits
    /\ qty' = [qty EXCEPT ![i] = @ + n]
    /\ shelf' = [shelf EXCEPT ![i] = @ + n]
    /\ UNCHANGED <<live, counts, requests, locks, flight>>

Slip(i, n) ==
    /\ shelf[i] + n \in 0 .. MaxUnits
    /\ shelf' = [shelf EXCEPT ![i] = @ + n]
    /\ line' = [k \in Takes |-> [line[k] EXCEPT ![i].exact = FALSE]]
    /\ UNCHANGED <<qty, live, take, applied, requests, locks, flight>>

\* inventory.update sets the quantity to what its client sent, whatever the item's
\* counts have measured.
SetQuantity(i, n) ==
    /\ RowFree(i)
    /\ qty' = [qty EXCEPT ![i] = n]
    /\ line' = [k \in Takes |-> [line[k] EXCEPT ![i].exact = FALSE]]
    /\ UNCHANGED <<live, shelf, take, applied, requests, locks, flight>>

\* Soft deletion and restoration.
SetLive(i) ==
    /\ RowFree(i)
    /\ live' = [live EXCEPT ![i] = ~@]
    /\ UNCHANGED <<qty, shelf, counts, requests, locks, flight>>

Next ==
    \/ \E p \in Procs :
          \/ \E k \in Takes :
                \/ Start(p, k)
                \/ \E i \in Items : Look(p, k, i)
                \/ \E b \in BOOLEAN : Complete(p, k, b)
          \/ \E d \in Discharges : Approve(p, d) \/ ReadReject(p, d)
          \/ \E i \in Items : Take(p, i) \/ Put(p, i) \/ TakeShort(p, i)
          \/ Create(p) \/ SaveCount(p) \/ RefuseCount(p) \/ Check(p) \/ RefuseItems(p)
          \/ CommitTake(p) \/ CommitDischarge(p) \/ WriteReject(p) \/ Fail(p)
    \/ \E k \in Takes : Cancel(k)
    \/ \E d \in Discharges : Ask(d)
    \/ \E m \in Moves : MoveStock(m[1], m[2])
    \/ \E m \in Slips : Slip(m[1], m[2])
    \/ \E m \in Edits : SetQuantity(m[1], m[2])
    \/ \E i \in Deletable : SetLive(i)

Spec == Init /\ [][Next]_vars

-----------------------------------------------------------------------------
(* Properties.                                                             *)

TypeOK ==
    /\ qty \in [Items -> Int]
    /\ live \in [Items -> BOOLEAN]
    /\ shelf \in [Items -> Int]
    /\ take \in [Takes -> {"none", "IN_PROGRESS", "COMPLETED", "CANCELLED"}]
    /\ applied \in [Takes -> BOOLEAN]
    /\ line \in [Takes -> [Items -> [expected : Nat \cup {None}, counted : Nat \cup {None},
                                     exact : BOOLEAN]]]
    /\ discharge \in [Discharges -> {"none", "PENDING", "COMPLETED", "REJECTED"}]
    /\ outflows \in [Discharges -> Nat]
    /\ homeLock \in Procs \cup {None}
    /\ docLock \in [Docs -> Procs \cup {None}]
    /\ pc \in [Procs -> {"idle", "start", "count", "check", "move", "reject"}]
    /\ job \in [Procs -> [doc : Docs \cup {None}, item : Items \cup {None}, saw : Nat,
                          apply : BOOLEAN]]
    /\ plan \in [Procs -> [Items -> Int]]
    /\ done \in [Procs -> SUBSET Items]

\* A request that moves stock holds its document as it found it, plans what the
\* document says, and has the rows it wrote to itself, with what it took from
\* them still there.
MoveOk(p) ==
    LET d == job[p].doc IN
    /\ d \in Docs /\ docLock[d] = p
    /\ IF d \in Takes
       THEN /\ take[d] = "IN_PROGRESS" /\ \A i \in Lines(d) : line[d][i].counted # None
            /\ plan[p] = [i \in Items |-> IF job[p].apply THEN Variance(d, i) ELSE 0]
       ELSE discharge[d] = "PENDING" /\ plan[p] = [i \in Items |-> -LinesOf[d][i]]
    /\ \A i \in done[p] : plan[p][i] < 0 => live[i] /\ qty[i] + plan[p][i] >= 0
    /\ \A q \in Procs \ {p} : done[p] \cap done[q] = {}

RequestOk(p) ==
    LET d == job[p].doc IN
    /\ pc[p] = "idle" => job[p] = NoJob
    /\ pc[p] = "start" => homeLock = p /\ d \in Takes /\ take[d] = "none" /\ InProgress = {}
    /\ pc[p] = "count" => d \in Takes /\ take[d] # "none" /\ job[p].item \in Lines(d)
    /\ IF pc[p] \in {"check", "move"} THEN MoveOk(p) ELSE done[p] = {}
    /\ pc[p] = "reject" => d \in Discharges /\ discharge[d] # "none"

\* A line is counted only where there is one, and only a take that was started
\* has any.  Until the take ends, the variance of a right count stays the
\* difference between the shelf and the system.
LineOk(k, i) ==
    LET l == line[k][i] IN
    /\ l.expected = None => l.counted = None
    /\ take[k] = "none" => l = NoLine
    /\ l.exact => /\ l.counted # None
                  /\ take[k] = "IN_PROGRESS" => shelf[i] - qty[i] = l.counted - l.expected

\* A request nobody has completed has given nothing out.
OutflowOk(d) == discharge[d] \in {"none", "PENDING"} => outflows[d] = 0

\* Neither a count nor a discharge takes an item below zero, though its units
\* may be sold after the count was saved or the request was checked.
NonNegativeStock == \A i \in Items : qty[i] >= 0

\* A discharge request becomes one outflow at most ("a concurrent completion
\* waits here, then sees COMPLETED, so stock leaves once").
DeliveredOnce == \A d \in Discharges : outflows[d] <= 1

\* "Two requests starting a count in the same warehouse wait for each other
\* here, so the second one sees the first one's count" (create).
OneCountAtATime == \A j, k \in InProgress : j = k

\* complete: what a request that moves stock knows of its document and its rows
\* stays true at every statement, and the stock is taken as said above.
IInv ==
    /\ TypeOK
    /\ \A p \in Procs : RequestOk(p)
    /\ \A k \in Takes, i \in Items : LineOk(k, i)
    /\ \A d \in Discharges : OutflowOk(d)
    /\ NonNegativeStock /\ DeliveredOnce /\ OneCountAtATime

\* Completing a take makes the system agree with the shelf for every item whose
\* count was right when it was saved, whatever was sold or came in before and
\* after: the difference is applied once, to the units it was measured against.
\* An edit of the quantity after the count spoils it, as a unit lost or found does.
CountSettles ==
    [][\A k \in Takes, i \in Items :
          take[k] # "COMPLETED" /\ take'[k] = "COMPLETED" /\ applied'[k] /\ line[k][i].exact
          => qty'[i] = shelf'[i]]_vars
=============================================================================
