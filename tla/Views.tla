------------------------------- MODULE Views -------------------------------
(***************************************************************************)
(* What users are shown: pages of a table, counters of it by status, and   *)
(* the inventory's cached summaries.  Each answer is put together from     *)
(* several queries, sent at once, while others write: a query sees the     *)
(* table as it was at some moment of the reading.  Which change of status  *)
(* follows which is the business of the other modules: here any may.       *)
(***************************************************************************)
EXTENDS Integers, FiniteSets, Functions, Requests

CONSTANTS
    Rows,
    Present,          \* those there at first, and when they were created
    Scenes,           \* which table is looked at, who comes to look, and the writes left
    Warehouses,
    Homes,           \* the warehouses and category a row may name, as [src, dst, cat]
    First,            \* those each row names when it is created
    Ranks,            \* names, quantities or dates, for lists that are sorted by these
    Scopes,           \* what users may see: All, or the set of their warehouses
    Filters,          \* what lists are asked for: None, a status, or "owing"
    Viewers,          \* the requests for counters and summaries; the others read lists
    Limit,            \* rows to a page
    Cut,              \* candidates an "owing" list considers
    MaxWrites,
    All

Counted == {"sale", "outflow", "purchase", "payment", "loan", "transfer", "discharge", "take", "alert"}
ListKinds == Counted \cup {"item", "transaction", "warehouse", "user", "record"}

ASSUME ViewsAssumption ==
    /\ Limit \in Nat \ {0} /\ Cut \in Nat \ {0} /\ MaxWrites \in Nat
    /\ IsFiniteSet(Rows) /\ Viewers \subseteq Procs
    /\ Scopes \subseteq {All} \cup SUBSET Warehouses
    /\ All # None /\ None \notin {"owing", "ACTIVE", "count", "categories"} /\ \A S \in SUBSET Warehouses : S # All /\ S # None
    /\ \A scene \in Scenes : scene.kind \in ListKinds /\ scene.left \in 0..MaxWrites
    /\ \A a \in Homes : a.src \in Warehouses /\ a.dst \in Warehouses
    /\ First \in [Rows -> Homes] /\ Ranks \subseteq Int
    /\ DOMAIN Present \subseteq Rows
    /\ \A r \in DOMAIN Present : Present[r] \in Int /\ Present[r] <= 0
    /\ \A r, x \in DOMAIN Present : Present[r] = Present[x] => r = x

Readers == Procs \ Viewers

VARIABLES
    kind,      \* the table
    row,       \* its rows
    cache,     \* the answers kept in memory
    owed,      \* item writes whose clearing of the cache is still to come
    settled,   \* item writes whose clearing is done
    writes,    \* how many writes there were
    req        \* what each request has read

viewsVars == <<kind, row, cache, owed, settled, writes, req>>

SaleStatuses == {"DRAFT", "ACTIVE", "CANCELLED"}
StockedStatuses == {"ACTIVE", "CANCELLED"}
LoanStatuses ==
    {"PENDING", "SENT", "RECEIVED", "RETURN_PENDING", "RETURNED", "OVERDUE", "CANCELLED"}
TransferStatuses == {"PENDING", "APPROVED", "SENT", "COMPLETED", "REJECTED", "CANCELLED"}
DischargeStatuses == {"PENDING", "COMPLETED", "REJECTED"}
TakeStatuses == {"IN_PROGRESS", "COMPLETED", "CANCELLED"}
ItemStatuses == {"IN_STOCK", "LOW_STOCK", "OUT_OF_STOCK", "IN_USE"}
Silent == {"LOW_STOCK", "OUT_OF_STOCK", "EXPIRING_SOON"}
Notified == {"LOW_STOCK, notified", "OUT_OF_STOCK, notified", "EXPIRING_SOON, notified"}
AlertStatuses == Silent \cup Notified \cup {"RESOLVED"}

Statuses ==
    CASE kind = "sale" -> SaleStatuses
      [] kind \in {"outflow", "purchase", "payment"} -> StockedStatuses
      [] kind = "loan" -> LoanStatuses
      [] kind = "transfer" -> TransferStatuses
      [] kind = "discharge" -> DischargeStatuses
      [] kind = "take" -> TakeStatuses
      [] kind = "item" -> ItemStatuses
      [] kind = "alert" -> AlertStatuses
      [] OTHER -> {None}

\* What a row is created as.
Born ==
    CASE kind = "sale" -> {"DRAFT", "ACTIVE"}
      [] kind \in {"outflow", "purchase", "payment"} -> {"ACTIVE"}
      [] kind \in {"loan", "transfer", "discharge"} -> {"PENDING"}
      [] kind = "take" -> {"IN_PROGRESS"}
      [] kind = "item" -> ItemStatuses
      [] kind = "alert" -> Silent
      [] OTHER -> {None}

-----------------------------------------------------------------------------
(* What each service's counters count: the statuses of each part. *)

InventoryParts ==
    [total |-> ItemStatuses, inStock |-> {"IN_STOCK"}, lowStock |-> {"LOW_STOCK"},
     outOfStock |-> {"OUT_OF_STOCK"}, inUse |-> {"IN_USE"}, totalValue |-> ItemStatuses,
     categories |-> ItemStatuses, locations |-> ItemStatuses]

\* A plausible slip: quotations are left out.
SaleActiveParts == [total |-> SaleStatuses, active |-> {"ACTIVE"}, cancelled |-> {"CANCELLED"},
                    byCustomerType |-> {"ACTIVE"}, revenueByCurrency |-> {"ACTIVE"}, draft |-> {}]

SaleParts ==
    [total |-> SaleStatuses, active |-> {"ACTIVE"}, draft |-> {"DRAFT"},
     cancelled |-> {"CANCELLED"}, byCustomerType |-> {"ACTIVE"}, revenueByCurrency |-> {"ACTIVE"}]

OutflowParts ==
    [total |-> StockedStatuses, active |-> {"ACTIVE"}, cancelled |-> {"CANCELLED"},
     byReason |-> {"ACTIVE"}]

PurchaseParts ==
    [total |-> StockedStatuses, active |-> {"ACTIVE"}, cancelled |-> {"CANCELLED"},
     totalByCurrency |-> {"ACTIVE"}]

PaymentParts ==
    [total |-> StockedStatuses, active |-> {"ACTIVE"}, cancelled |-> {"CANCELLED"},
     byMethod |-> {"ACTIVE"}]

LoanParts ==
    [totalPending |-> {"PENDING"}, totalSent |-> {"SENT"}, totalReceived |-> {"RECEIVED"},
     totalReturnPending |-> {"RETURN_PENDING"}, totalReturned |-> {"RETURNED"},
     totalOverdue |-> {"OVERDUE"}]

TransferParts ==
    [total |-> TransferStatuses, pending |-> {"PENDING"}, approved |-> {"APPROVED"},
     sent |-> {"SENT"}, completed |-> {"COMPLETED"}, rejected |-> {"REJECTED"},
     cancelled |-> {"CANCELLED"}]

DischargeParts ==
    [total |-> DischargeStatuses, pending |-> {"PENDING"}, completed |-> {"COMPLETED"},
     rejected |-> {"REJECTED"}]

TakeParts ==
    [total |-> TakeStatuses, inProgress |-> {"IN_PROGRESS"}, completed |-> {"COMPLETED"},
     cancelled |-> {"CANCELLED"}]

AlertParts ==
    [total |-> AlertStatuses, active |-> Silent \cup Notified,
     lowStock |-> {"LOW_STOCK", "LOW_STOCK, notified"},
     outOfStock |-> {"OUT_OF_STOCK", "OUT_OF_STOCK, notified"},
     expiringItems |-> {"EXPIRING_SOON", "EXPIRING_SOON, notified"}, notified |-> Notified]

Parts ==
    CASE kind = "item" -> InventoryParts
      [] kind = "sale" -> SaleParts
      [] kind = "outflow" -> OutflowParts
      [] kind = "purchase" -> PurchaseParts
      [] kind = "payment" -> PaymentParts
      [] kind = "loan" -> LoanParts
      [] kind = "transfer" -> TransferParts
      [] kind = "discharge" -> DischargeParts
      [] kind = "take" -> TakeParts
      [] kind = "alert" -> AlertParts

-----------------------------------------------------------------------------
(* The rows of table t each service lists for a user, with filter f. *)

Within(t, r, S) == S = All \/ t[r].at.src \in S
Between(t, r, S) == S = All \/ {t[r].at.src, t[r].at.dst} \cap S # {}
Live(t, r) == t[r].state = "live"
Fits(t, r, f) == f = None \/ t[r].status = f
Owing(t, r, f) == f = "owing" /\ t[r].status = "ACTIVE" /\ t[r].owing

InventoryList(t, S, f) == {r \in Rows : Live(t, r) /\ Within(t, r, S) /\ Fits(t, r, f)}
SalesList(t, S, f) == {r \in Rows : Live(t, r) /\ Within(t, r, S) /\ (Owing(t, r, f) \/ Fits(t, r, f))}
OutflowsList(t, S, f) == {r \in Rows : Live(t, r) /\ Within(t, r, S) /\ Fits(t, r, f)}
PurchasesList(t, S, f) == {r \in Rows : Live(t, r) /\ Within(t, r, S) /\ (Owing(t, r, f) \/ Fits(t, r, f))}
PaymentsList(t, S, f) == {r \in Rows : Live(t, r) /\ Within(t, r, S) /\ Fits(t, r, f)}
DischargesList(t, S, f) == {r \in Rows : Live(t, r) /\ Within(t, r, S) /\ Fits(t, r, f)}
LoansList(t, S, f) == {r \in Rows : Live(t, r) /\ Between(t, r, S) /\ Fits(t, r, f)}
TransfersList(t, S, f) == {r \in Rows : Live(t, r) /\ Between(t, r, S) /\ Fits(t, r, f)}
TransactionsList(t, S) == {r \in Rows : Live(t, r) /\ Between(t, r, S)}
WarehousesList(t, S) == {r \in Rows : Live(t, r) /\ Within(t, r, S)}
TakesList(t, f) == {r \in Rows : Live(t, r) /\ Fits(t, r, f)}
AlertsList(t, f) == {r \in Rows : Live(t, r) /\ Fits(t, r, f)}
UsersList(t) == {r \in Rows : Live(t, r)}
RecordsList(t) == {r \in Rows : Live(t, r)}

Lists(t, S, f) ==
    CASE kind = "item" -> InventoryList(t, S, f)
      [] kind = "sale" -> SalesList(t, S, f)
      [] kind = "outflow" -> OutflowsList(t, S, f)
      [] kind = "purchase" -> PurchasesList(t, S, f)
      [] kind = "payment" -> PaymentsList(t, S, f)
      [] kind = "discharge" -> DischargesList(t, S, f)
      [] kind = "loan" -> LoansList(t, S, f)
      [] kind = "transfer" -> TransfersList(t, S, f)
      [] kind = "transaction" -> TransactionsList(t, S)
      [] kind = "warehouse" -> WarehousesList(t, S)
      [] kind = "take" -> TakesList(t, f)
      [] kind = "alert" -> AlertsList(t, f)
      [] kind = "user" -> UsersList(t)
      [] kind = "record" -> RecordsList(t)

\* The rows shown by their id, to a user of S or to whoever may look at all.
Stored(t, r) == t[r].state \in {"live", "deleted"}
SaleShown(t, S, r) == Live(t, r) /\ Within(t, r, S)
PurchaseShown(t, S, r) == Live(t, r) /\ Within(t, r, S)
OutflowShown(t, S, r) == Live(t, r) /\ Within(t, r, S)
PaymentShown(t, S, r) == Live(t, r) /\ Within(t, r, S)
WarehouseShown(t, S, r) == Live(t, r) /\ Within(t, r, S)
LoanShown(t, S, r) == Live(t, r) /\ Between(t, r, S)
TransferShown(t, S, r) == Live(t, r) /\ Between(t, r, S)
TransactionShown(t, S, r) == Live(t, r) /\ Between(t, r, S)
ItemShown(t, r) == Stored(t, r)
UserShown(t, r) == Stored(t, r)
TakeShown(t, r) == Stored(t, r)
DischargeShown(t, r) == Stored(t, r)
AlertShown(t, r) == Stored(t, r)
RecordShown(t, r) == Live(t, r)

Shown(t, S, r) ==
    CASE kind = "item" -> ItemShown(t, r)
      [] kind = "sale" -> SaleShown(t, S, r)
      [] kind = "outflow" -> OutflowShown(t, S, r)
      [] kind = "purchase" -> PurchaseShown(t, S, r)
      [] kind = "payment" -> PaymentShown(t, S, r)
      [] kind = "discharge" -> DischargeShown(t, r)
      [] kind = "loan" -> LoanShown(t, S, r)
      [] kind = "transfer" -> TransferShown(t, S, r)
      [] kind = "transaction" -> TransactionShown(t, S, r)
      [] kind = "warehouse" -> WarehouseShown(t, S, r)
      [] kind = "take" -> TakeShown(t, r)
      [] kind = "alert" -> AlertShown(t, r)
      [] kind = "user" -> UserShown(t, r)
      [] kind = "record" -> RecordShown(t, r)

\* Lists without pages.  A loan's item is what its row is about; the items that
\* run low are shown after they were deleted, too.
LoansActive(t, S) == {r \in LoansList(t, S, None) : t[r].status \notin {"RETURNED", "CANCELLED"}}
LoansByItem(t, S, i) == {r \in LoansList(t, S, None) : t[r].at.cat = i}
LoansByWarehouse(t, S, w) ==
    IF S = All \/ w \in S THEN {r \in Rows : Live(t, r) /\ w \in {t[r].at.src, t[r].at.dst}} ELSE {}
LowStockItems(t, S) ==
    {r \in Rows : Stored(t, r) /\ Within(t, r, S) /\ t[r].status \in {"LOW_STOCK", "OUT_OF_STOCK"}}

\* As queries order them: by creation, by the column the client of the inventory
\* names, categories by name and transactions by date.  No second column orders the
\* rows that are equal in it.
SortKey(t, r, sort) == IF sort = "rank" THEN t[r].rank ELSE t[r].created
Before(t, x, r, sort, dir) ==
    IF dir = "asc" THEN SortKey(t, x, sort) < SortKey(t, r, sort)
    ELSE SortKey(t, x, sort) > SortKey(t, r, sort)
Place(t, set, r, sort, dir) == Cardinality({x \in set : x = r \/ Before(t, x, r, sort, dir)})
Equals(t, set, r, sort) == {x \in set : SortKey(t, x, sort) = SortKey(t, r, sort)}
Tied(t, set, sort) == \E r \in set : Equals(t, set, r, sort) # {r}

\* A plausible slip: pages counted from zero.
OnPageFromZero(n, k) == n * Limit < k /\ k <= (n + 1) * Limit
OnPage(n, k) == (n - 1) * Limit < k /\ k <= n * Limit

\* What page n of a list of the rows of set may hold: of equal rows, as many as
\* their places on it.
Pages(t, set, n, sort, dir) ==
    {page \in SUBSET set :
        \A r \in set :
            LET equals == Equals(t, set, r, sort)
                first == Place(t, set, r, sort, dir)
            IN Cardinality(page \cap equals)
                  = Cardinality({k \in first..(first + Cardinality(equals) - 1) : OnPage(n, k)})}

HasNext(total, n) == n * Limit < total

RecentTransactions(t, S) == Pages(t, TransactionsList(t, S), 1, "rank", "desc")

\* What a list without pages may hold.
Brief(t, S) ==
    CASE kind = "item" -> {LowStockItems(t, S)}
      [] kind = "transaction" -> RecentTransactions(t, S)
      [] kind = "loan" -> {LoansActive(t, S)} \cup {LoansByItem(t, S, t[r].at.cat) : r \in Rows}
                          \cup {LoansByWarehouse(t, S, w) : w \in Warehouses}
      [] OTHER -> {}

\* The latest ACTIVE documents, as many as a list of those owing considers.
Candidates(t, S, dir) ==
    LET all == Lists(t, S, "ACTIVE") IN {r \in all : Place(t, all, r, "created", dir) <= Cut}

\* What a list holds: the rows that r, paging through it, is after.
Expected(t, r) == Lists(t, r.scope, r.filter)

\* An "owing" list leaves the older documents out once there are too many.
Overfull(t, r) == r.filter = "owing" /\ Cardinality(Lists(t, r.scope, "ACTIVE")) > Cut

-----------------------------------------------------------------------------
(* Writes, by whoever makes them. *)

\* A list being read loses a row, or a row of it moves to another place, or shares
\* one, or an "owing" list gets too long.
Shifts(t, u, r) ==
    \/ ~(Expected(t, r) \subseteq Expected(u, r))
    \/ \E x \in Expected(t, r) : SortKey(u, x, r.sort) # SortKey(t, x, r.sort)
    \/ Tied(u, Expected(u, r), r.sort)
    \/ Overfull(u, r)

\* A reading under way may see the table before or after.
Watched(r) ==
    IF r.pc # "read" THEN r
    ELSE [r EXCEPT
            !.seen = @ \cup {row'},
            !.since = IF kind = "item" THEN @ \cup {writes'} ELSE @,
            !.shifted = @ \/ (r.op = "list" /\ Shifts(row, row', r))]

Write(rows) ==
    /\ writes < MaxWrites
    /\ row' = rows /\ writes' = writes + 1
    /\ owed' = IF kind = "item" THEN owed \cup {writes'} ELSE owed
    /\ cache' = [k \in DOMAIN cache |->
                    IF cache[k] = None \/ kind # "item" THEN cache[k]
                    ELSE [cache[k] EXCEPT !.missed = @ \cup {writes'}]]
    /\ req' = [q \in Procs |-> Watched(req[q])]
    /\ UNCHANGED <<kind, settled>>

Insert(r) ==
    /\ row[r].state = "none"
    /\ \E s \in Born, k \in Ranks :
          Write([row EXCEPT ![r] = [row[r] EXCEPT !.state = "live", !.status = s, !.owing = s = "ACTIVE",
                                                  !.created = writes + 1, !.rank = k]])

Change(r) ==
    /\ row[r].state = "live"
    /\ \E s \in Statuses \ {row[r].status} : Write([row EXCEPT ![r].status = s])

\* A payment, or the cancelling of one.
Pay(r) ==
    /\ kind \in {"sale", "purchase"} /\ row[r].state = "live" /\ row[r].status = "ACTIVE"
    /\ Write([row EXCEPT ![r].owing = ~@])

Sorts ==
    CASE kind \in {"item", "record"} -> {"created", "rank"}
      [] kind = "transaction" -> {"rank"}
      [] OTHER -> {"created"}

\* The column a list may be sorted by is edited.
Rename(r, k) ==
    /\ "rank" \in Sorts /\ row[r].state = "live" /\ k # row[r].rank
    /\ Write([row EXCEPT ![r].rank = k])

\* Items, quotations and transactions may be given another warehouse, and items
\* another category.
Relocate(r, a) ==
    /\ kind \in {"item", "sale", "transaction"} /\ row[r].state = "live" /\ a # row[r].at
    /\ kind = "sale" => row[r].status = "DRAFT"
    /\ Write([row EXCEPT ![r] = [row[r] EXCEPT !.at = a, !.been = row[r].been \cup {a}]])

\* Items and users keep their row.
SoftDelete(r) ==
    /\ kind \in {"item", "user"} /\ row[r].state = "live"
    /\ Write([row EXCEPT ![r].state = "deleted"])

Restore(r) ==
    /\ kind \in {"item", "user"} /\ row[r].state = "deleted"
    /\ Write([row EXCEPT ![r].state = "live"])

Delete(r) ==
    /\ kind \in {"loan", "transaction", "warehouse", "record"} /\ row[r].state = "live"
    /\ Write([row EXCEPT ![r].state = "gone"])

\* A plausible slip: only the keys that can be named are wiped.
ClearNamed(n) ==
    /\ n \in owed
    /\ cache' = [k \in DOMAIN cache |-> IF k[2] = All THEN None ELSE cache[k]]
    /\ owed' = owed \ {n} /\ settled' = settled \cup {n}
    /\ req' = [q \in Procs |->
                 IF req[q].pc = "read" THEN [req[q] EXCEPT !.crossed = TRUE] ELSE req[q]]
    /\ UNCHANGED <<kind, row, writes>>

\* The service wipes the cache some time after each item write of its own, and
\* after each refresh of the statuses.
Clear(n) ==
    /\ n \in owed
    /\ cache' = [k \in DOMAIN cache |-> None]
    /\ owed' = owed \ {n} /\ settled' = settled \cup {n}
    /\ req' = [q \in Procs |->
                 IF req[q].pc = "read" THEN [req[q] EXCEPT !.crossed = TRUE] ELSE req[q]]
    /\ UNCHANGED <<kind, row, writes>>

\* The audit entry awaited in between fails, and nothing is wiped.
AuditFails(n) ==
    /\ n \in owed
    /\ owed' = owed \ {n}
    /\ UNCHANGED <<kind, row, cache, settled, writes, req>>

\* Sixty seconds or five minutes passed, or a hundred newer keys came.
Forget(k) ==
    /\ cache[k] # None
    /\ cache' = [cache EXCEPT ![k] = None]
    /\ UNCHANGED <<kind, row, owed, settled, writes, req>>

-----------------------------------------------------------------------------
(* Counters and the cached summaries. *)

Idle == [op |-> None, pc |-> "new", user |-> None, scope |-> None, filter |-> None,
         sort |-> None, dir |-> None, seen |-> {}, since |-> {}, crossed |-> FALSE, page |-> 1,
         there |-> {}, shown |-> {}, shifted |-> FALSE, mixed |-> FALSE, answer |-> None]

Absent == [Idle EXCEPT !.pc = "done"]

Untouched == <<kind, row, owed, settled, writes>>

Begin(q, ask) ==
    /\ req[q].pc = "new"
    /\ req' = [req EXCEPT ![q] = ask]
    /\ UNCHANGED <<Untouched, cache>>

Reading(op, S) == [Idle EXCEPT !.op = op, !.pc = "read", !.user = S, !.scope = S, !.seen = {row}]
Answered(op, S, a) == [Idle EXCEPT !.op = op, !.pc = "done", !.user = S, !.answer = a]

\* A plausible slip: one key for every user.
KeyForAll(op, S) == <<op, All>>

\* The statistics are kept for those who see everything; the two lists of names
\* for each set of warehouses, with the empty one under the key of everything.
KeyOf(op, S) == <<op, IF S = {} \/ op = "count" THEN All ELSE S>>
Keys == {<<"count", All>>} \cup {"categories", "locations"} \X ((Scopes \ {{}}) \cup {All})

\* A plausible slip: the statistics of a user with warehouses are kept as well.
KeptForAll(op, S) == op # "count" \/ (kind = "item" /\ S # {})
Cacheable(op, S) == op # "count" \/ (kind = "item" /\ S = All)

Ask(q, op, S) ==
    LET k == KeyOf(op, S) IN
    IF Cacheable(op, S) /\ cache[k] # None THEN Begin(q, Answered(op, S, cache[k].answer))
    ELSE Begin(q, Reading(op, S))

Entry(q, a) ==
    [answer |-> a, by |-> req[q].user, missed |-> req[q].since, crossed |-> req[q].crossed]

Finish(q, a) ==
    /\ req' = [req EXCEPT ![q] = Answered(req[q].op, req[q].user, a)]
    /\ cache' = IF Cacheable(req[q].op, req[q].user)
                THEN [cache EXCEPT ![KeyOf(req[q].op, req[q].user)] = Entry(q, a)] ELSE cache
    /\ UNCHANGED Untouched

At(q, op) == req[q].op = op /\ req[q].pc = "read"

CountedFor(t, r, S) ==
    CASE kind \in {"loan", "transfer"} -> Between(t, r, S)
      [] kind \in {"take", "alert"} -> TRUE
      [] OTHER -> Within(t, r, S)

Number(t, S, ss) ==
    Cardinality({r \in Rows : Live(t, r) /\ CountedFor(t, r, S) /\ t[r].status \in ss})

\* The raw sum of the stock's value knows no user without warehouses.
Reach(S, part) == IF part = "totalValue" /\ S = {} THEN All ELSE S

AskCount(q, S) == kind \in Counted \cup {"item"} /\ Ask(q, "count", S)

\* getStats: each part is a query of its own.
Count(q) ==
    /\ At(q, "count")
    /\ \E see \in [DOMAIN Parts -> req[q].seen] :
          Finish(q, [got |-> [p \in DOMAIN Parts |-> Number(see[p], Reach(req[q].scope, p), Parts[p])],
                     moments |-> Cardinality(req[q].seen),
                     due |-> [s \in Statuses |-> Number(row, req[q].scope, {s})]])

AskCategories(q, S) == kind = "item" /\ Ask(q, "categories", S)

Categories(q) ==
    /\ At(q, "categories")
    /\ \E t \in req[q].seen : Finish(q, {t[r].at.cat : r \in {x \in Rows : Live(t, x) /\ Within(t, x, req[q].scope)}})

AskLocations(q, S) == kind = "warehouse" /\ Ask(q, "locations", S)

\* Narrowed to warehouses, the query names a column that table lacks, and fails.
Locations(q) ==
    /\ At(q, "locations")
    /\ IF req[q].scope \notin {All, {}}
       THEN /\ req' = [req EXCEPT ![q] = Answered("locations", req[q].user, None)]
            /\ UNCHANGED <<Untouched, cache>>
       ELSE \E t \in req[q].seen : Finish(q, {t[r].at.src : r \in {x \in Rows : Live(t, x)}})

-----------------------------------------------------------------------------
(* A user opens a row or a short list, each read by one query. *)

Open(q, S, r) ==
    Begin(q, [Answered("open", S, None) EXCEPT
                 !.shown = IF Shown(row, S, r) THEN {r} ELSE {}])

Glance(q, S) == \E rows \in Brief(row, S) : Begin(q, [Answered("glance", S, None) EXCEPT !.shown = rows])

-----------------------------------------------------------------------------
(* A user pages through a list, as long as there is a next page. *)

Selecting == {"sale", "outflow", "purchase", "discharge"}
OldestFirst == {"item", "sale", "outflow", "purchase", "payment", "loan", "transaction", "user"}

\* Categories are sorted by name, the other records of one column each by creation.
Sorted(sort, dir) ==
    /\ sort \in Sorts
    /\ IF kind = "record" THEN dir = "asc" <=> sort = "rank" ELSE dir = "asc" => kind \in OldestFirst

\* resolveWarehouseScope: None refuses.
Pick(S, w) ==
    CASE w = None -> S
      [] w # None /\ (S = All \/ w \in S) -> {w}
      [] OTHER -> None

\* The inventory's own filter replaces the warehouses of the user.
Selected(S, w) == IF kind = "item" /\ w # None THEN {w} ELSE Pick(S, w)

BeginList(q, S, w, f, sort, dir) ==
    LET scope == Selected(S, w)
        ask == [Reading("list", S) EXCEPT !.scope = scope, !.filter = f, !.sort = sort, !.dir = dir]
        now == Lists(row, scope, f)
    IN /\ w # None => kind \in Selecting \cup {"item"}
       /\ f # None => f \in Statuses \/ (f = "owing" /\ kind \in {"sale", "purchase"})
       /\ Sorted(sort, dir)
       /\ IF scope = None THEN Begin(q, Answered("list", S, None))
          ELSE Begin(q, [ask EXCEPT
                           !.there = now,
                           !.shifted = Tied(row, now, sort) \/ Overfull(row, ask)])

\* The page came with a total; with more to come, the user asks for the next.
Turn(q, rows, total, mixed) ==
    LET r == req[q]
        next == [r EXCEPT !.shown = @ \cup rows, !.mixed = @ \/ mixed, !.seen = {row}]
    IN /\ req' = [req EXCEPT ![q] = IF HasNext(total, r.page) THEN [next EXCEPT !.page = @ + 1]
                                    ELSE [next EXCEPT !.pc = "done", !.seen = {}, !.page = 1,
                                                               !.sort = None, !.dir = None]]
       /\ UNCHANGED <<Untouched, cache>>

\* The rows and their number are two queries.
ReadPage(q) ==
    LET r == req[q] IN
    /\ At(q, "list") /\ r.filter # "owing"
    /\ \E t1, t2 \in r.seen : \E page \in Pages(t1, Expected(t1, r), r.page, r.sort, r.dir) :
          Turn(q, page, Cardinality(Expected(t2, r)), t1 # t2)

\* The candidates, then their payments; the page is cut in memory.
ReadOwing(q) ==
    LET r == req[q] IN
    /\ At(q, "list") /\ r.filter = "owing"
    /\ \E t1, t2 \in r.seen :
          LET left == {x \in Candidates(t1, r.scope, r.dir) : t2[x].owing}
          IN \E page \in Pages(t1, left, r.page, r.sort, r.dir) : Turn(q, page, Cardinality(left), t1 # t2)

-----------------------------------------------------------------------------

ViewsInit ==
    /\ \E scene \in Scenes :
          /\ kind = scene.kind /\ writes = MaxWrites - scene.left
          /\ req = [q \in Procs |-> IF q \in scene.who THEN Idle ELSE Absent]
    /\ \E s \in Born :
          row = [r \in Rows |->
                   LET there == r \in DOMAIN Present
                       n == IF there THEN Present[r] ELSE 0
                   IN [state |-> IF there THEN "live" ELSE "none", status |-> s,
                       owing |-> there /\ s = "ACTIVE", created |-> n, rank |-> n,
                       at |-> First[r], been |-> {First[r]}]]
    /\ cache = [k \in Keys |-> None]
    /\ owed = {} /\ settled = {}

ViewsNext ==
    \/ \E r \in Rows : Insert(r) \/ Change(r) \/ Pay(r) \/ SoftDelete(r) \/ Restore(r) \/ Delete(r)
    \/ \E r \in Rows : (\E k \in Ranks : Rename(r, k)) \/ \E a \in Homes : Relocate(r, a)
    \/ \E n \in owed : Clear(n) \/ AuditFails(n)
    \/ \E k \in Keys : Forget(k)
    \/ \E q \in Viewers, S \in Scopes : AskCount(q, S) \/ AskCategories(q, S) \/ AskLocations(q, S)
    \/ \E q \in Viewers : Count(q) \/ Categories(q) \/ Locations(q)
    \/ \E q \in Readers, S \in Scopes, w \in Warehouses \cup {None}, f \in Filters :
          \E sort \in {"created", "rank"}, dir \in {"asc", "desc"} : BeginList(q, S, w, f, sort, dir)
    \/ \E q \in Readers, S \in Scopes : Glance(q, S) \/ \E r \in Rows : Open(q, S, r)
    \/ \E q \in Readers : ReadPage(q) \/ ReadOwing(q)

ViewsSpec == ViewsInit /\ [][ViewsNext]_viewsVars

-----------------------------------------------------------------------------
(* What a table, an answer and a request are made of. *)

Tables == [Rows -> [state : {"none", "live", "deleted", "gone"}, status : Statuses,
                    owing : BOOLEAN, created : Int, rank : Int, at : Homes, been : SUBSET Homes]]

\* No two rows were created at once.
Dated(t) ==
    \A r, x \in Rows :
        t[r].state # "none" /\ t[x].state # "none" /\ t[r].created = t[x].created => r = x

Answers(op) ==
    CASE op = "count" -> [got : [DOMAIN Parts -> Nat], moments : Nat, due : [Statuses -> Nat]]
      [] op = "categories" -> SUBSET {a.cat : a \in Homes}
      [] op = "locations" -> SUBSET Warehouses
      [] OTHER -> {None}

Askings(op) ==
    [op : {op}, pc : {"new", "read", "done"}, user : Scopes \cup {None},
     scope : Scopes \cup {{w} : w \in Warehouses} \cup {None}, filter : Filters \cup {None},
     sort : {"created", "rank", None}, dir : {"asc", "desc", None}, seen : SUBSET Tables, since : SUBSET (1..writes),
     crossed : BOOLEAN, page : Nat, there : SUBSET Rows, shown : SUBSET Rows,
     shifted : BOOLEAN, mixed : BOOLEAN, answer : {None} \cup Answers(op)]

Entries(op) ==
    [answer : Answers(op), by : Scopes, missed : SUBSET (1..writes), crossed : BOOLEAN]

ViewsTypeOK ==
    /\ kind \in ListKinds
    /\ row \in Tables /\ Dated(row)
    /\ \A r \in Rows : row[r].created <= writes /\ row[r].at \in row[r].been
    /\ writes \in 0..MaxWrites /\ owed \cup settled \subseteq 1..writes /\ owed \cap settled = {}
    /\ cache = [k \in Keys |-> cache[k]] /\ \A k \in Keys : cache[k] # None => cache[k] \in Entries(k[1])
    /\ req = [q \in Procs |-> req[q]] /\ \A q \in Procs : req[q] \in Askings(req[q].op)

-----------------------------------------------------------------------------
(* Properties of what is shown. *)

\* What is narrowed to the warehouses of the user: not the inventory's list, which a
\* warehouse picked in its filter takes over, nor items and discharges by their id,
\* nor anything of stock takes, alerts, users and records.
Narrowed ==
    LET documents == {"sale", "outflow", "purchase", "payment", "loan", "transfer",
                      "transaction", "warehouse"}
    IN [list |-> documents \cup {"discharge"}, open |-> documents,
        glance |-> {"item", "loan", "transaction"}]

\* Rows that name, or have named, a warehouse of S, and the categories they had there.
Own(r, S) ==
    \E a \in row[r].been :
        a.src \in S \/ (kind \in {"loan", "transfer", "transaction"} /\ a.dst \in S)
OwnRows(r) ==
    r.user # All /\ r.op \in DOMAIN Narrowed /\ kind \in Narrowed[r.op]
        => \A x \in r.shown : Own(x, r.user)
OwnNames(S, names) ==
    \A n \in names : \E r \in Rows : \E a \in row[r].been : a.src \in S /\ a.cat = n

\* inventory.service.ts:708, warehouse-filter.util.ts:52: what a user who does not see
\* everything is shown in the lists and by the ids of Narrowed is, or was, of the
\* user's warehouses, whatever warehouse is picked and whatever moves meanwhile; and
\* so are the categories, whoever filled the cache, but those shown to a user who has
\* no warehouse.
ScopedAnswers ==
    \A q \in Procs : req[q].pc = "done" /\ req[q].user # All =>
        /\ req[q].op = "categories" /\ req[q].user # {} => OwnNames(req[q].user, req[q].answer)
        /\ OwnRows(req[q])

\* inventory.service.ts:759: once an item write has wiped the cache, an answer kept
\* there shows the write, unless it was being read while some write wiped it.
EditsShow ==
    \A k \in Keys : cache[k] # None /\ ~cache[k].crossed => cache[k].missed \cap settled = {}

\* The parts of the counters that cover the table between them, and what they cover:
\* cancelled loans and resolved alerts are in no such part.
Splits ==
    CASE kind = "item" -> {{"total"}, {"totalValue"}, {"inStock", "lowStock", "outOfStock", "inUse"}}
      [] kind = "sale" -> {{"total"}, {"active", "draft", "cancelled"}}
      [] kind \in {"outflow", "purchase", "payment"} -> {{"total"}, {"active", "cancelled"}}
      [] kind = "loan" -> {DOMAIN LoanParts}
      [] kind = "transfer" -> {{"total"}, DOMAIN TransferParts \ {"total"}}
      [] kind = "discharge" -> {{"total"}, DOMAIN DischargeParts \ {"total"}}
      [] kind = "take" -> {{"total"}, DOMAIN TakeParts \ {"total"}}
      [] kind = "alert" -> {{"total"}, {"active"}, {"lowStock", "outOfStock", "expiringItems"}}
Covered(parts) ==
    CASE kind = "loan" -> LoanStatuses \ {"CANCELLED"}
      [] kind = "alert" /\ parts # {"total"} -> Silent \cup Notified
      [] OTHER -> Statuses

\* What parts add up to and what there is, k tables apart at most.
Near(n, m, k) == n < m + k /\ m < n + k

AddsUp(S, a) ==
    \A parts \in Splits :
        \/ S = {} /\ parts = {"totalValue"}
        \/ Near(SumFunctionOnSet(a.got, parts), SumFunctionOnSet(a.due, Covered(parts)), a.moments)

\* sales.service.ts:955 and the other getStats: the counters of one answer add up to
\* the documents there are, within one for each write that came between its queries,
\* and exactly when none did.  Users without warehouses get the value of everything.
PartsAddUp ==
    \A q \in Procs : req[q].op = "count" /\ req[q].pc = "done" => AddsUp(req[q].user, req[q].answer)

\* pagination.helper.ts:33: a user who asks for page after page while there is a next
\* one has seen every row the list held at the start, whatever came in meanwhile,
\* unless the list lost a row, one was given another place in it, two shared one, or
\* rows and total of one page were read on either side of a write.
WalkShowsAll ==
    \A q \in Procs :
        req[q].op = "list" /\ req[q].pc = "done" /\ ~req[q].shifted /\ ~req[q].mixed
            => req[q].there \subseteq req[q].shown

-----------------------------------------------------------------------------
(* The inductive invariant. *)

\* A reading sees the table of this moment among others, and knows the item writes
\* that came since it began unless some write has wiped the cache.
ReadingOk(r) ==
    r.pc = "read" =>
        /\ r.op \in {"count", "categories", "locations", "list"} /\ r.user \in Scopes
        /\ IsFiniteSet(r.seen) /\ row \in r.seen
        /\ \A t \in r.seen, x \in Rows : t[x].at \in row[x].been
        /\ ~r.crossed => r.since \cap settled = {}
        /\ IF r.op = "list"
           THEN /\ r.page \in Nat \ {0} /\ r.scope # None
                /\ r.filter = "owing" => kind \in {"sale", "purchase"}
                /\ kind # "item" /\ r.user # All => r.scope # All /\ r.scope \subseteq r.user
           ELSE r.scope = r.user
        /\ r.op = "count" => kind \in Counted \cup {"item"}

\* Whatever tables the parts are read from, they add up to what any of the tables
\* holds, within the number of the others.
CountOk(r) ==
    r.op = "count" /\ r.pc = "read" =>
        \A parts \in Splits : \A see \in [parts -> r.seen], t \in r.seen :
            Near(SumFunctionOnSet([p \in parts |-> Number(see[p], r.scope, Parts[p])], parts),
                 Number(t, r.scope, Covered(parts)), Cardinality(r.seen))

\* While no row leaves the list, rows only come in and push others to later pages:
\* what was there at first and is not on a later page has been shown.
Passed(t, r) ==
    \A x \in r.there :
        Place(t, Expected(t, r), x, r.sort, r.dir) <= (r.page - 1) * Limit => x \in r.shown
WalkOk(r) ==
    r.op = "list" /\ r.pc = "read" /\ ~r.shifted =>
        /\ ~Tied(row, Expected(row, r), r.sort)
        /\ \A t \in r.seen :
              /\ r.there \subseteq Expected(t, r) /\ Expected(t, r) \subseteq Expected(row, r)
              /\ \A x \in Expected(t, r) : SortKey(t, x, r.sort) = SortKey(row, x, r.sort)
              /\ ~Overfull(t, r)
              /\ ~r.mixed => Passed(t, r)

\* inventory.service.ts:674: only the statistics of those who see everything are
\* kept under their one key; an entry was filled for whoever its key is for, or for
\* a user without warehouses, under the key of those who see everything.
Kept ==
    \A k \in Keys : cache[k] # None =>
        /\ k[1] = "count" => cache[k].by = All /\ kind = "item" /\ AddsUp(All, cache[k].answer)
        /\ cache[k].by = k[2] \/ (cache[k].by = {} /\ k[2] = All)
        /\ k[1] = "categories" /\ k[2] # All => OwnNames(k[2], cache[k].answer)

\* The types, what each request has read and shown so far, and what is kept.
ViewsInv ==
    /\ ViewsTypeOK /\ Kept /\ EditsShow
    /\ \A q \in Procs : ReadingOk(req[q]) /\ CountOk(req[q]) /\ WalkOk(req[q]) /\ OwnRows(req[q])
    /\ ScopedAnswers /\ PartsAddUp /\ WalkShowsAll
=============================================================================
