----------------------------- MODULE Movements -----------------------------
(***************************************************************************)
(* The movements report (reports/stock-movements.service.ts): nothing      *)
(* records a movement, the report derives them from the documents that     *)
(* cause them and from the dates those documents carry.  The documents     *)
(* change as in StockLedger, whole commits at a time, and carry the dates  *)
(* the report reads; a date is taken by the request and the commit may     *)
(* come after midnight.  Whether the units are on hand is StockDocs'       *)
(* business: here they are.  What each commit moved is remembered beside   *)
(* the documents, to compare the report with.                              *)
(***************************************************************************)
EXTENDS Integers, FiniteSets, FiniteSetsExt, Functions

CONSTANTS
    Warehouses,
    Products,      \* products; a warehouse stocks each in a row of its own
    Docs,
    Payloads,   \* the lines a request may ask for: units of each item
    Diffs,      \* what counting may find, against the books
    MaxDay,     \* bounds the clock
    Null        \* no warehouse, or no date

Kinds == {"entry", "exit", "shift", "sale", "purchase", "outflow", "transfer", "take"}
Manual == {"entry", "exit", "shift"}
Days == 0 .. MaxDay

ASSUME MovementsAssumption ==
    /\ IsFiniteSet(Docs) /\ IsFiniteSet(Warehouses)
    /\ MaxDay \in Nat \ {0}
    /\ Null \notin Warehouses \cup Days
    /\ Payloads \subseteq [Products -> Nat] /\ Diffs \subseteq [Products -> Int]

VARIABLES
    kind,      \* the table, and for a transaction the type, of each document
    doc,       \* its row
    day,       \* the business day; days before 1 are before confirmedAt existed
    settled,   \* every request that took a date up to this day has ended
    moved,     \* what the document moved per date, in the warehouses it names
    landed,    \* the same in the warehouses where its items were
    resent     \* transfers put back to SENT after their receipt

movementsVars == <<kind, doc, day, settled, moved, landed, resent>>

NoLines == [i \in Products |-> 0]
NoDoc == [status |-> "none", src |-> Null, dst |-> Null, home |-> Null, lines |-> NoLines,
          date |-> Null, created |-> Null, confirmed |-> Null, cancelled |-> Null,
          done |-> Null, updated |-> Null, quoted |-> FALSE, applied |-> FALSE]
Minus(l) == [i \in Products |-> -l[i]]
Nowhere == [w \in Warehouses |-> NoLines]

\* A sale saved before sales kept the date they were confirmed, and a transfer
\* completed before transfers kept the date they were received.
OldSale(w, l) == [NoDoc EXCEPT !.status = "ACTIVE", !.src = w, !.lines = l, !.created = 0]
OldTransfer(w, v, l) ==
    [NoDoc EXCEPT !.status = "COMPLETED", !.src = w, !.dst = v, !.lines = l,
                  !.created = 0, !.updated = 0]

-----------------------------------------------------------------------------
(* The documents. *)

At(w, l) == [Nowhere EXCEPT ![w] = l]

Add(f, delta) == [w \in Warehouses |-> [i \in Products |-> f[w][i] + delta[w][i]]]

\* Documents write the stock by item id, and inventory.update and bulkUpdate put an
\* item in another warehouse with no look at the documents that list it: by the
\* time the units move, what a document lists in one warehouse may be in any.
Found == [Warehouses -> [Products -> Warehouses]]

Landed(found, delta) ==
    [w \in Warehouses |-> [i \in Products |->
        SumFunctionOnSet([v \in Warehouses |-> delta[v][i]], {v \in Warehouses : found[v][i] = w})]]

\* One commit: the row becomes r, and the document moves delta at date t.
Commit(d, r, delta, t) ==
    /\ doc' = [doc EXCEPT ![d] = r]
    /\ moved' = [moved EXCEPT ![d][t] = Add(@, delta)]
    /\ \E found \in Found : landed' = [landed EXCEPT ![d][t] = Add(@, Landed(found, delta))]
    /\ UNCHANGED <<kind, day, settled, resent>>

\* A request that began before midnight may commit after it.
Stamps == settled + 1 .. day

New(d, k) == kind[d] = k /\ doc[d].status = "none"

\* The declared warehouses need not be those of the items, and the date is the user's.
CreateTransaction(d, w, v, l, t) ==
    LET r == [NoDoc EXCEPT !.status = "ACTIVE", !.home = w, !.lines = l, !.date = t] IN
    \/ New(d, "entry") /\ Commit(d, [r EXCEPT !.dst = v], At(w, l), t)
    \/ New(d, "exit") /\ Commit(d, [r EXCEPT !.src = v], At(w, Minus(l)), t)
    \/ New(d, "shift") /\ w # v /\ Commit(d, [r EXCEPT !.src = w, !.dst = v], Nowhere, t)

\* Everything but the lines and the type may be edited.
EditTransaction(d, v, t) ==
    /\ kind[d] \in Manual /\ doc[d].status = "ACTIVE"
    /\ Commit(d, [doc[d] EXCEPT !.date = t,
                                !.src = IF kind[d] = "exit" THEN v ELSE @,
                                !.dst = IF kind[d] = "entry" THEN v ELSE @], Nowhere, t)

\* The row is deleted, and the units go back the way they came.
RemoveTransaction(d) ==
    /\ kind[d] \in Manual /\ doc[d].status = "ACTIVE"
    /\ Commit(d, [NoDoc EXCEPT !.status = "gone"],
              At(doc[d].home, CASE kind[d] = "entry" -> Minus(doc[d].lines)
                                [] kind[d] = "exit" -> doc[d].lines
                                [] OTHER -> NoLines), day)

\* The report reads updatedAt of transfers and counts only.
Saved(w, l, t) == [NoDoc EXCEPT !.status = "ACTIVE", !.src = w, !.lines = l, !.created = t]

Quote(d, w, l, t) ==
    /\ New(d, "sale")
    /\ Commit(d, [Saved(w, l, t) EXCEPT !.status = "DRAFT", !.quoted = TRUE], Nowhere, t)

EditSale(d, w, l, t) ==
    /\ kind[d] = "sale" /\ doc[d].status = "DRAFT"
    /\ Commit(d, [doc[d] EXCEPT !.src = w, !.lines = l], Nowhere, t)

CreateSale(d, w, l, t) ==
    /\ New(d, "sale")
    /\ Commit(d, [Saved(w, l, t) EXCEPT !.confirmed = t], At(w, Minus(l)), t)

ConfirmSale(d, t) ==
    /\ kind[d] = "sale" /\ doc[d].status = "DRAFT"
    /\ Commit(d, [doc[d] EXCEPT !.status = "ACTIVE", !.confirmed = t],
              At(doc[d].src, Minus(doc[d].lines)), t)

Cancelled(d, t) == [doc[d] EXCEPT !.status = "CANCELLED", !.cancelled = t]

\* A plausible slip: every cancellation gives the units back.
CancelAnySale(d, t) ==
    /\ kind[d] = "sale" /\ doc[d].status \in {"DRAFT", "ACTIVE"}
    /\ Commit(d, Cancelled(d, t), At(doc[d].src, doc[d].lines), t)

\* Discarding a quotation gives nothing back.
CancelSale(d, t) ==
    /\ kind[d] = "sale"
    /\ \/ doc[d].status = "DRAFT" /\ Commit(d, Cancelled(d, t), Nowhere, t)
       \/ doc[d].status = "ACTIVE" /\ Commit(d, Cancelled(d, t), At(doc[d].src, doc[d].lines), t)

CreatePurchase(d, w, l, t) == New(d, "purchase") /\ Commit(d, Saved(w, l, t), At(w, l), t)

CancelPurchase(d, t) ==
    /\ kind[d] = "purchase" /\ doc[d].status = "ACTIVE"
    /\ Commit(d, Cancelled(d, t), At(doc[d].src, Minus(doc[d].lines)), t)

CreateOutflow(d, w, l, t) == New(d, "outflow") /\ Commit(d, Saved(w, l, t), At(w, Minus(l)), t)

CancelOutflow(d, t) ==
    /\ kind[d] = "outflow" /\ doc[d].status = "ACTIVE"
    /\ Commit(d, Cancelled(d, t), At(doc[d].src, doc[d].lines), t)

CreateTransfer(d, w, v, l, t) ==
    /\ New(d, "transfer") /\ w # v
    /\ Commit(d, [Saved(w, l, t) EXCEPT !.status = "PENDING", !.dst = v, !.updated = t], Nowhere, t)

\* Approved, and then sent.
AdvanceTransfer(d, t) ==
    /\ kind[d] = "transfer" /\ doc[d].status \in {"PENDING", "APPROVED"}
    /\ Commit(d, [doc[d] EXCEPT !.status = IF @ = "PENDING" THEN "APPROVED" ELSE "SENT",
                                !.updated = t], Nowhere, t)

\* The units leave one warehouse and reach the other when they are received.
ReceiveTransfer(d, t) ==
    /\ kind[d] = "transfer" /\ doc[d].status = "SENT"
    /\ Commit(d, [doc[d] EXCEPT !.status = "COMPLETED", !.done = t, !.updated = t],
              [At(doc[d].src, Minus(doc[d].lines)) EXCEPT ![doc[d].dst] = doc[d].lines], t)

\* A send that read APPROVED before the transfer was sent and received writes
\* SENT over COMPLETED (Transfers shows the interleaving).  Bound: once a transfer.
Resend(d, t) ==
    /\ kind[d] = "transfer" /\ doc[d].status = "COMPLETED" /\ d \notin resent
    /\ doc' = [doc EXCEPT ![d].status = "SENT", ![d].updated = t]
    /\ resent' = resent \cup {d}
    /\ UNCHANGED <<kind, day, settled, moved, landed>>

StartTake(d, w, t) ==
    /\ New(d, "take")
    /\ Commit(d, [Saved(w, NoLines, t) EXCEPT !.status = "IN_PROGRESS", !.updated = t], Nowhere, t)

\* The lines of a count are the differences found.
Count(d, l, t) ==
    /\ kind[d] = "take" /\ doc[d].status = "IN_PROGRESS"
    /\ Commit(d, [doc[d] EXCEPT !.lines = l, !.updated = t], Nowhere, t)

CompleteTake(d, apply, t) ==
    /\ kind[d] = "take" /\ doc[d].status = "IN_PROGRESS"
    /\ Commit(d, [doc[d] EXCEPT !.status = "COMPLETED", !.applied = apply,
                                !.done = t, !.updated = t],
              IF apply THEN At(doc[d].src, doc[d].lines) ELSE Nowhere, t)

\* Midnight.  Requests are shorter than a day: those of the day before have ended.
Midnight ==
    /\ day < MaxDay /\ settled = day - 1
    /\ day' = day + 1
    /\ UNCHANGED <<kind, doc, settled, moved, landed, resent>>

Settle ==
    /\ settled = day - 2
    /\ settled' = day - 1
    /\ UNCHANGED <<kind, doc, day, moved, landed, resent>>

-----------------------------------------------------------------------------
(* The report. *)

\* Each document is read for the dates it carries, so that only the period is read.
InRange(q, t) == t # Null /\ q.from <= t /\ t <= q.to

Sees(ws, w) == ws = Null \/ w \in ws
SeesEither(ws, r) == Sees(ws, r.src) \/ Sees(ws, r.dst)

ReadTransactions(ws, q) ==
    {d \in Docs : /\ kind[d] \in Manual /\ doc[d].status = "ACTIVE"
                  /\ SeesEither(ws, doc[d]) /\ InRange(q, doc[d].date)}

\* A plausible slip: every sale that is not a quotation any more.
ReadEverySale(ws, q) ==
    {d \in Docs :
        LET r == doc[d] IN
        /\ kind[d] = "sale" /\ r.status \notin {"none", "DRAFT"} /\ Sees(ws, r.src)
        /\ \E t \in {r.confirmed, r.created, r.cancelled} : InRange(q, t)}

\* A quotation discarded before it was confirmed moved nothing.
ReadSales(ws, q) ==
    {d \in Docs :
        LET r == doc[d] IN
        /\ kind[d] = "sale" /\ r.status \notin {"none", "DRAFT"} /\ Sees(ws, r.src)
        /\ ~(r.confirmed = Null /\ r.quoted)
        /\ \/ InRange(q, r.confirmed)
           \/ r.confirmed = Null /\ InRange(q, r.created)
           \/ InRange(q, r.cancelled)}

\* A plausible slip: the documents of the period are those saved in it.
ReadSaved(k, ws, q) ==
    {d \in Docs : kind[d] = k /\ doc[d].status # "none" /\ Sees(ws, doc[d].src)
                  /\ InRange(q, doc[d].created)}

ReadDocuments(k, ws, q) ==
    {d \in Docs : /\ kind[d] = k /\ doc[d].status # "none" /\ Sees(ws, doc[d].src)
                  /\ InRange(q, doc[d].created) \/ InRange(q, doc[d].cancelled)}

DoneAt(r) == IF r.done # Null THEN r.done ELSE r.updated

ReadTransfers(ws, q) ==
    {d \in Docs : /\ kind[d] = "transfer" /\ doc[d].status = "COMPLETED"
                  /\ SeesEither(ws, doc[d]) /\ InRange(q, DoneAt(doc[d]))}

ReadTakes(ws, q) ==
    {d \in Docs : /\ kind[d] = "take" /\ doc[d].status = "COMPLETED" /\ doc[d].applied
                  /\ Sees(ws, doc[d].src) /\ InRange(q, DoneAt(doc[d]))}

Movement(d, part, t, from, to, l) ==
    [doc |-> d, part |-> part, date |-> t, from |-> from, to |-> to, lines |-> l]

Moves(d, part, t, type, w, l) ==
    IF type = "IN" THEN Movement(d, part, t, Null, w, l) ELSE Movement(d, part, t, w, Null, l)

\* A document counts when it was saved and, the other way round, when it was cancelled.
PushDocument(d, r, savedAt, type) ==
    LET undo == IF type = "IN" THEN "OUT" ELSE "IN" IN
       {Moves(d, "saved", savedAt, type, r.src, r.lines)}
       \cup IF r.cancelled = Null THEN {}
            ELSE {Moves(d, "cancel", r.cancelled, undo, r.src, r.lines)}

SavedAt(r) == IF r.confirmed # Null THEN r.confirmed ELSE r.created

\* A count may raise some items and lower others: one movement each way.
Side(d, r, type) ==
    LET picked == [i \in Products |-> Max({IF type = "IN" THEN r.lines[i] ELSE -r.lines[i], 0})]
    IN IF picked = NoLines THEN {} ELSE {Moves(d, type, DoneAt(r), type, r.src, picked)}

Built(ws, q) ==
    {Movement(d, "saved", doc[d].date, doc[d].src, doc[d].dst, doc[d].lines)
        : d \in ReadTransactions(ws, q)}
    \cup (UNION {PushDocument(d, doc[d], SavedAt(doc[d]), "OUT") : d \in ReadSales(ws, q)})
    \cup (UNION {PushDocument(d, doc[d], doc[d].created, "IN") : d \in ReadDocuments("purchase", ws, q)})
    \cup (UNION {PushDocument(d, doc[d], doc[d].created, "OUT") : d \in ReadDocuments("outflow", ws, q)})
    \cup {Movement(d, "saved", DoneAt(doc[d]), doc[d].src, doc[d].dst, doc[d].lines)
             : d \in ReadTransfers(ws, q)}
    \cup (UNION {Side(d, doc[d], "IN") \cup Side(d, doc[d], "OUT") : d \in ReadTakes(ws, q)})

\* The dates above choose documents, and this chooses their movements.
FindAll(ws, q) == {m \in Built(ws, q) : InRange(q, m.date)}

-----------------------------------------------------------------------------

MovementsInit ==
    /\ kind \in [Docs -> Kinds]
    /\ day = 1 /\ settled = 0 /\ resent = {}
    /\ doc \in [Docs -> {NoDoc}
                       \cup {OldSale(w, l) : w \in Warehouses, l \in Payloads}
                       \cup {OldTransfer(w, v, l) : w \in Warehouses, v \in Warehouses, l \in Payloads}]
    /\ \A d \in Docs : \/ doc[d] = NoDoc
                       \/ kind[d] = "sale" /\ doc[d].status = "ACTIVE"
                       \/ kind[d] = "transfer" /\ doc[d].src # doc[d].dst /\ doc[d].updated = 0
    /\ moved = [d \in Docs |-> [t \in Days |->
                 IF t # 0 \/ doc[d] = NoDoc THEN Nowhere
                 ELSE [w \in Warehouses |-> IF w = doc[d].src THEN Minus(doc[d].lines)
                                            ELSE IF w = doc[d].dst THEN doc[d].lines ELSE NoLines]]]
    /\ landed = moved

Transactions(d) ==
    \/ \E w, v \in Warehouses, l \in Payloads, t \in 1 .. MaxDay : CreateTransaction(d, w, v, l, t)
    \/ \E v \in Warehouses, t \in 1 .. MaxDay : EditTransaction(d, v, t)
    \/ RemoveTransaction(d)

Documents(d, t) ==
    \/ \E w \in Warehouses, l \in Payloads :
          \/ Quote(d, w, l, t) \/ EditSale(d, w, l, t) \/ CreateSale(d, w, l, t)
          \/ CreatePurchase(d, w, l, t) \/ CreateOutflow(d, w, l, t)
          \/ \E v \in Warehouses : CreateTransfer(d, w, v, l, t)
    \/ ConfirmSale(d, t) \/ CancelSale(d, t) \/ CancelPurchase(d, t) \/ CancelOutflow(d, t)
    \/ AdvanceTransfer(d, t) \/ ReceiveTransfer(d, t) \/ Resend(d, t)
    \/ \E w \in Warehouses : StartTake(d, w, t)
    \/ \E l \in Diffs : Count(d, l, t)
    \/ \E apply \in BOOLEAN : CompleteTake(d, apply, t)

MovementsNext ==
    \/ \E d \in Docs : Transactions(d) \/ \E t \in Stamps : Documents(d, t)
    \/ Midnight
    \/ Settle

MovementsSpec == MovementsInit /\ [][MovementsNext]_movementsVars

-----------------------------------------------------------------------------
(* Properties.                                                             *)

Places == Warehouses \cup {Null}
Dates == Days \cup {Null}

DocTypes ==
    [status : {"none", "ACTIVE", "gone", "DRAFT", "CANCELLED", "PENDING", "APPROVED", "SENT",
               "COMPLETED", "IN_PROGRESS"},
     src : Places, dst : Places, home : Places, lines : [Products -> Int],
     date : Dates, created : Dates, confirmed : Dates, cancelled : Dates,
     done : Dates, updated : Dates, quoted : BOOLEAN, applied : BOOLEAN]

MovementsTypeOK ==
    /\ kind \in [Docs -> Kinds]
    /\ doc \in [Docs -> DocTypes]
    /\ day \in Days /\ settled \in {day - 1, day - 2} \cap Nat
    /\ {moved, landed} \subseteq [Docs -> [Days -> [Warehouses -> [Products -> Int]]]]
    /\ resent \subseteq {d \in Docs : kind[d] = "transfer"}

\* What a document moved on the days ts in a warehouse as its rows name it, and as
\* its items were; and what all of ds moved there.
MovedBy(d, ts, w, i) == SumFunctionOnSet([t \in Days |-> moved[d][t][w][i]], ts)
LandedBy(d, ts, w, i) == SumFunctionOnSet([t \in Days |-> landed[d][t][w][i]], ts)
Total(ds, ts, w, i) == SumFunctionOnSet([d \in Docs |-> LandedBy(d, ts, w, i)], ds)

If(b, n) == IF b THEN n ELSE 0

\* A document of kind k whose row is r has moved stock.
Posted(k, r) ==
    CASE k = "sale" -> r.status \notin {"none", "DRAFT"} /\ ~(r.confirmed = Null /\ r.quoted)
      [] k \in {"purchase", "outflow"} -> r.status # "none"
      [] k = "transfer" -> r.status = "COMPLETED"
      [] k = "take" -> r.status = "COMPLETED" /\ r.applied
      [] OTHER -> FALSE

PostedAt(k, r) ==
    CASE k = "sale" -> SavedAt(r)
      [] k \in {"purchase", "outflow"} -> r.created
      [] OTHER -> DoneAt(r)

\* What it moved when it was posted, and gave back when it was cancelled.
Own(k, r, w, i) ==
    LET n == r.lines[i] IN
    CASE k = "transfer" -> If(w = r.dst, n) - If(w = r.src, n)
      [] k \in {"sale", "outflow"} -> If(w = r.src, -n)
      [] OTHER -> If(w = r.src, n)

Effect(k, r, t, w, i) ==
    IF Posted(k, r) THEN If(t = PostedAt(k, r), Own(k, r, w, i)) - If(t = r.cancelled, Own(k, r, w, i))
    ELSE 0

DatesOk(k, r) ==
    /\ Posted(k, r) => PostedAt(k, r) \in Days
    /\ k \notin Manual /\ r.status # "none" => r.src \in Warehouses
    /\ k = "sale" /\ r.status = "ACTIVE" => ~(r.confirmed = Null /\ r.quoted)
    /\ k = "sale" /\ r.status = "DRAFT" => r.quoted /\ r.confirmed = Null /\ r.cancelled = Null
    /\ k \in {"sale", "purchase", "outflow"} /\ r.status \in {"none", "ACTIVE"} => r.cancelled = Null
    /\ k \in {"transfer", "take"} => r.cancelled = Null

\* What a transaction brings in.
Brought(k, r, i) == CASE k = "entry" -> r.lines[i] [] k = "exit" -> -r.lines[i] [] OTHER -> 0

\* A transaction declares its warehouses as it likes.
DeclaredOk(k, r) ==
    /\ r.status \in {"none", "ACTIVE", "gone"}
    /\ IF r.status # "ACTIVE" THEN r.home = Null
       ELSE /\ r.date \in Days /\ r.home \in Warehouses
            /\ r.src \in Warehouses <=> k # "entry"
            /\ r.dst \in Warehouses <=> k # "exit"
            /\ r.src # r.dst

\* One that still stands has moved its units in the items' own warehouse, on whatever days.
ManualOk(k, r, m) ==
    /\ DeclaredOk(k, r)
    /\ \A w \in Warehouses, i \in Products :
          SumFunctionOnSet([t \in Days |-> m[t][w][i]], Days)
              = If(w = r.home, Brought(k, r, i))

\* What a transfer took from one warehouse it gave to the other, however often.
TransferOk(r, m) ==
    /\ IF r.status = "none" THEN r.src = Null /\ r.dst = Null
       ELSE r.src \in Warehouses /\ r.dst \in Warehouses /\ r.src # r.dst
    /\ \A t \in Days, i \in Products :
          /\ \A w \in Warehouses \ {r.src, r.dst} : m[t][w][i] = 0
          /\ r.status # "none" => m[t][r.dst][i] = -m[t][r.src][i]

\* The row of a document says what the document moved.
RowOk(k, r, m, again) ==
    /\ DatesOk(k, r)
    /\ k \in Manual => ManualOk(k, r, m)
    /\ k = "transfer" => TransferOk(r, m)
    /\ k \notin Manual /\ ~again =>
          \A t \in Days, w \in Warehouses, i \in Products : m[t][w][i] = Effect(k, r, t, w, i)

\* Wherever the items were, the units are those the document moved.
SameUnits(m, l) ==
    \A t \in Days, i \in Products :
        SumFunctionOnSet([w \in Warehouses |-> l[t][w][i]], Warehouses)
            = SumFunctionOnSet([w \in Warehouses |-> m[t][w][i]], Warehouses)

\* Of each document its dates and status say what it moved
\* (stock-movements.service.ts:95, 133: the report reads nothing else).
MovementsInv ==
    /\ MovementsTypeOK
    /\ \A d \in Docs : RowOk(kind[d], doc[d], moved[d], d \in resent) /\ SameUnits(moved[d], landed[d])

\* What a movement brings to a warehouse.
Units(m, w, i) == If(m.to = w, m.lines[i]) - If(m.from = w, m.lines[i])
Net(ms, w, i) == SumFunctionOnSet([m \in ms |-> Units(m, w, i)], ms)

Period(a, b) == [from |-> a, to |-> b]

\* Documents whose movements the report cannot date: the user dates transactions,
\* and a transfer back in SENT is left out until it is received again.
Undated == resent \cup {d \in Docs : kind[d] \in Manual}

\* Documents with an item that had been taken to another warehouse when it moved:
\* the report puts them down to the warehouse the document names.
Strayed == {d \in Docs : landed[d] # moved[d]}

\* findAll (comment at line 133): for each warehouse and each period the report
\* nets to exactly what the documents moved there on those days, each movement
\* once, with its sign, on the side it happened.
NetsOut ==
    \A a, b \in Days, w \in Warehouses, i \in Products :
        Net({m \in FindAll({w}, Period(a, b)) : m.doc \notin Undated \cup Strayed}, w, i)
            = Total(Docs \ (Undated \cup Strayed), a .. b, w, i)

\* All warehouses together it does so for the documents with strayed items too.
AllPlaces ==
    \A a, b \in Days, i \in Products :
        SumFunctionOnSet([w \in Warehouses |->
                Net({m \in FindAll(Null, Period(a, b)) : m.doc \notin Undated}, w, i)], Warehouses)
            = SumFunctionOnSet([w \in Warehouses |-> Total(Docs \ Undated, a .. b, w, i)], Warehouses)

\* "Every stock movement in the system" (line 95): over the whole history, all
\* warehouses together, the report nets to the change of stock, whatever
\* happened to dates, declared warehouses and transfers sent again.
WholeHistory ==
    \A i \in Products :
        SumFunctionOnSet([w \in Warehouses |-> Net(FindAll(Null, Period(0, MaxDay)), w, i)], Warehouses)
            = SumFunctionOnSet([w \in Warehouses |-> Total(Docs, Days, w, i)], Warehouses)

\* stock-movements.service.ts:95, 133: the report nets to what the documents moved:
\* for a warehouse and a period, unless an item had been taken to another warehouse;
\* for a period in all warehouses together; and over the whole history.
ReportNets == NetsOut /\ AllPlaces /\ WholeHistory

\* Once the requests of a day have ended, nothing that happens later changes
\* what the report says of it, transactions and transfers sent again apart.
PastIsFixed ==
    [][\A ws \in {Null} \cup {{w} : w \in Warehouses} : \A b \in 0 .. settled :
         LET past == FindAll(ws, Period(0, b)) IN
         {m \in past' : m.doc \notin Undated'} = {m \in past : m.doc \notin Undated'}]_movementsVars
=============================================================================
