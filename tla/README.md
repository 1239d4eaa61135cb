# A verification project for the Obsid inventory API

Obsid is a NestJS 11 service over Prisma and PostgreSQL: about 22,000 lines of
TypeScript outside the tests, `src/src`, that keep the stock of several warehouses, the documents
that move it, the money owed for them and the numbers printed on them.  Every
request is a handler of a service class.  What makes it correct is decided where
two requests meet in the database, and unit tests with a mocked Prisma client do
not go there.  These modules do: they interleave the handlers statement by
statement, check the result with TLC and prove the central invariants with TLAPS.

| module | what it is |
| --- | --- |
| `StockLedger` | the promise: a document moves all its units in one step, or none |
| `StockDocs` | sales, outflows, purchase invoices and transactions as concurrent database transactions; implements `StockLedger` |
| `Transfers` | transfer requests between warehouses, and the receipt that moves the stock |
| `Loans` | loans, from creation to return, with the overdue job |
| `Receivables` | credit limits, payments and cancellations |
| `Numbering` | document sequences and CAI ranges, and their edits |
| `Counts` | stock takes and discharge requests, beside the sales of the same items |
| `StockLevels` | the debounced refresh of statuses and alerts, and the inventory's own edits |
| `Movements` | the stock movements report, against what the documents moved |
| `Access` | roles, permissions and the cache of them on each server |
| `Registry` | clients, users, categories, warehouses, access lists and devices |
| `Views` | lists, counters and the inventory's cached summaries |
| `Requests` | the constants the models of several services share: requests in flight, and null |
| `Sums` | lemmas about sums over finite sets |
| `StockDocs_proofs`, `Transfers_proofs`, `Counts_proofs` | the theorems about each of these |
| `Documents_proofs` | the theorems about `Views` and `Numbering`: how documents are shown, and numbered |
| `Debts_proofs` | the theorems about `Receivables` and `Loans`: what others owe |
| `Accounts_proofs` | the theorems about `Access` and `Registry`: who may do what, and who is who |
| `Inventory_proofs` | the theorems about `StockLevels` and `Movements`: what the system says of its stock |
| `MC*` | the instances TLC checks, one `.cfg` per run |

## 1. The system

### How requests meet

There is one Node process (a timer, cron jobs and request handlers interleave at
every `await`) and one PostgreSQL database at its default isolation, READ
COMMITTED.  No service keeps stock or documents in memory; permissions and a few
summaries are cached there.  So handlers meet in these ways, and the models are made of them:

- **Statements.**  `prisma.$transaction(async tx => ...)` is a sequence of
  statements; each sees what was committed when it started, and between two of
  them anything may commit.  A check made by one statement may be false by the next.
- **Row locks.**  An `UPDATE` keeps its row to the end of the transaction;
  a second one waits, and then evaluates its `WHERE` again on the row as it has become.
  `takeStock` (`inventory/stock.util.ts`) relies on this: one
  `updateMany` with `quantity >= n AND deletedAt IS NULL`, and a refusal if it
  matched nothing.
- **`lockForUpdate`** (`common/locking.ts`): `SELECT ... FOR UPDATE` on the document's row,
  after which the handler reads the status again.
- **All or nothing.**  An exception, a lost connection or a crash rolls the
  transaction back.  PostgreSQL aborts one transaction of a deadlock.

- **Memory.**  A cache is read, the database is read, and the cache is written, at
  three different moments; whoever empties it may come between them.

After its transaction a handler writes an audit record, emits a web-socket event
and calls `StockLevelService.scheduleRefresh()`, a debounced job
that recomputes statuses and alerts.  None of that feeds back into
stock or money: `StockDocs` and `StockLevels` meet only in a row's quantity, which any
commit may change, and the lists and the report only read.

- **Items move.**  `inventory.update` and `bulkUpdate` put an item in another warehouse, rename it,
  give it another SKU or write its quantity over, with no look at the documents that list it; the
  documents' stock writes go by item id alone.  `Transfers`, `Counts` and `Movements` have these edits.

### Components

| component | state | operations | what makes it correct |
| --- | --- | --- | --- |
| Sales | `sales`, `sale_items`: DRAFT, ACTIVE, CANCELLED | create (quotation or sale), update, confirm, cancel | takes its units once and gives them back once, from whatever warehouse the items are in; within the client's credit; a number of its own |
| Outflows | ACTIVE, CANCELLED | create, cancel | the same for stock |
| Purchase invoices | ACTIVE, CANCELLED | create, cancel | brings units in once; a cancellation takes back only what is still there |
| Transactions | rows, hard-deleted | create (IN, OUT, TRANSFER), update, remove | undoing an IN never leaves an item below zero |
| Stock primitives | `inventory_items.quantity`, `deletedAt` | takeStock, increment, lockForUpdate | never negative; nothing taken from a deleted item |
| Transfer requests | PENDING, APPROVED, REJECTED, SENT, COMPLETED, CANCELLED | create, approve, reject, send, receive (QR or by hand), cancel | stock moves as a whole, on an approval that stands |
| Loans | PENDING, SENT, RECEIVED, RETURN_PENDING, OVERDUE, RETURNED, CANCELLED | create, send, receive, return (four ways), cancel, remove, overdue job | codes and signatures written once; closed loans stay closed |
| Payments | ACTIVE, CANCELLED | create, cancel | never more than is owed; never on a cancelled document |
| Clients | `creditLimit` | create, update, remove | open credit within the limit |
| Numbering | the row of `fiscal_config`, `cai_ranges` | assignNumber, edits of the ranges | no gaps, no duplicates, no number of a range that is not in force |
| Stock takes | IN_PROGRESS, COMPLETED, CANCELLED | create, updateItem, complete, cancel | a variance is applied once, to the stock it was measured against, sales meanwhile allowed for |
| Discharge requests | PENDING, COMPLETED, REJECTED | create, complete, reject | one outflow per request; rejected means nothing left |
| Inventory | items, soft deletion | create, update with an absolute quantity, remove, restore, bulk, reset | every change of a quantity is followed by a refresh of the status |
| Stock levels, alerts | `status`, alerts, a timer and two flags | scheduleRefresh, refreshNow, syncStatuses, checkLowStock | statuses and alerts catch up with the quantities |
| Permissions, roles | role rows, `permissionsVersion`, a cache per server | look-up, role create, update, remove, a user's role | a permission taken away stops working within a minute; a role's set is one somebody asked for, where the updates lock the role |
| Users, clients, suppliers, categories | rows with a code, an e-mail or a name | create, update, remove, restore | two live records share a code only if their writes overlapped or no look-up was made |
| Warehouses, access | warehouses, managers, `user_warehouses` | create, update, remove, setUserWarehouses, setWarehouseManager | a replaced list holds what was asked for, and besides only what others added meanwhile; a manager loses access only to a list |
| Devices | `expoPushToken` | updatePushToken, clean-up after a push | a phone belongs to who registered it last |
| Movements report | none: derived from six tables | findAll | nets to what was moved, warehouse by warehouse where the items stayed; the past does not change |
| Lists, counters | an in-memory cache of summaries | findAll, findOne, getStats, getCategories, getLocations | what is narrowed to one's warehouses stays so; pages miss no row that kept its place; counters add up; edits show |
| Authentication | refresh tokens, lockout | login, refresh, reset | not modelled |
| Scheduled reports | `nextRunAt` | cron | not modelled |
| Reports, PDF, audit, events, mail, push, QR, CSRF, health, seed | none of their own, or write-only | | not modelled |

### Where it is hard

`PROJECT.json` lists every hazard at its line.  They are of these kinds: the
last unit wanted twice; one document worked on by two requests; a check made
before the write it guards (credit limit, items on loan, `findFirst` and then `create`,
an unlocked `send`); rows updated in opposite orders; a number taken by a
transaction that then fails; an edit of a range in three statements while sales
take its numbers; the overdue job between two steps of a loan; an item sold
while it is being counted; a refresh that read before the change it was asked for;
a cache filled with what was read before it was emptied; a uniqueness check with no index
behind it; an item moved, renamed or corrected while documents list it; a list read in pages while
rows come, go and change the column it is sorted by; a document dated on one
side of midnight and saved on the other.

## 2. Module by module

In every module `pc[p]` is the label of the statement request `p` runs next, and
its locals are variables indexed by `p`.  Variables without that index are the
committed rows.  Each transaction writes its rows to the database at its commit action;
until then its writes are kept apart (`done`, `taken`, `gain`, `born`).
`Fail` rolls any request back at any statement; it stands for every refusal not
modelled, lost connections and crashes.

### StockLedger and StockDocs

`StockLedger` is the abstract specification: `qty`, `live`, `status`, `lines` and
one atomic step each for quoting, editing, discarding, posting, confirming and
undoing a document and for deleting and restoring an item.

`StockDocs` has the same four variables as committed rows, and a request that
goes through the statements the handlers share:

| label | code | action |
| --- | --- | --- |
| `idle` | the ten handlers | `CreateSale`, `ConfirmSale`, ..., `RemoveTransaction` |
| `lock` | `lockForUpdate` | `LockDoc` |
| `read` | status and lines read again | `ReadDoc`, `RefuseStatus` |
| `check` | stock check inside the transaction | `CheckItems`, `RefuseItems` |
| `move` | the loop over the lines | `Send` (any order: it is the payload's), `Commit` |
| `write` | `takeStock` or an increment, waiting for the row | `Take`, `TakeShort`, `Put` |

The check before the transaction is left out on purpose: a later commit may
belie it, so it restricts nothing.  The increment that restores stock looks neither at
`deletedAt` nor at the quantity (`Put`), as in the code.  A payload lists an item
at most once (the DTO validation refuses duplicates), so lines are a function of the items.

The refinement mapping is the identity on the rows: `ImplementsLedger` says that
`Commit` is one whole posting, edit or undo and every other statement a stutter.

### Transfers

`approve`, `reject` and `cancel` lock, check and write with nothing in between that
another request can see, so each is an action.  `sendTransfer` reads the status and
writes it in two unlocked statements (`ReadSend`, `WriteSend`).  The receipt
(`confirmReceipt`, `complete` and then `applyInventoryTransfer`) runs statement by statement:
take every line from its item, then for each line look for a row of the
destination and increment or insert it.  A row inserted is visible to its own
transaction only (`born`), except to the unique index on `sku`.

The look-up before the transaction (`LookUp`) is the only reading of the items' names and SKUs: the
receipt works with what it read (`seen`).  `EditItem` is the inventory's edit of any item, with no
look at transfers: it may take an item asked for to another warehouse, the destination included,
rename it or correct its units.  The units are then taken by id from wherever the item is, and
arrive under the name read before.  Lines are a set apart from items, so a transfer may list an item
twice, which nothing refuses.  `slipped` is history: the lines whose destination row was edited
between `findFirst` and the increment, which get their units wherever the edit took it.

### Loans

A loan moves no stock.  Each handler looks the loan up (`LookUp`) and then, in an action of its own, locks it,
reads the status again and writes; the second is one action because all of it
runs under the row lock.  `sendCode` and `returnCode`, and `receivedBy` and
`returnedBy`, hold the request that wrote them, which is what tells a first write
from an overwrite.  The overdue job is one `updateMany`.

### Receivables

A client's row is locked before the open sales and their payments are read, in
two statements (`ReadOpen`, `ReadPaid`).  Payments lock their document, compute
the balance and insert; a payment's own cancellation has no lock.  Amounts are
cents; tax, rounding and exchange rates only determine the amount and are left out.
The stock part of these handlers is in `StockDocs` and the number in `Numbering`:
the three models share no variable because the code's three parts share no row.

### Numbering

A sale scans the active ranges `FOR UPDATE`: the rows that qualified when the
scan began (`Scan`) are locked one by one and re-checked
(`LockRange`, `SkipRange`), the first is used or the sale is refused; with none, it
falls back to its sequence.  The counters are columns of one row, locked to the
end of the transaction that saves the document.  The edits
of a range have no transaction: a read (`CreateRange`, `UpdateRange`), the
deactivation of the others and the write are separate steps.

### Counts

The counts of one warehouse and the discharge requests of its items.  `create` and
`complete` of a stock take, and the approval of a discharge, run
statement by statement under a row lock (`homeLock`, `docLock`); `updateItem` and
`cancel` are single actions under the same lock.  `plan[p]` is the change a
request will make to each item (the variances, or minus the units asked for), `done[p]`
the rows it has already updated and holds.  `reject` is two unlocked steps (`ReadReject`,
`WriteReject`), of which the second waits for the row, as its `UPDATE` does.

Two variables are not in the database.  `shelf` is what is physically there: a document moves it
together with `qty`, `Slip` alone, and `SetQuantity`, the absolute edit of an item, writes `qty`
alone.  `exact`, per line, is history: the count saved was what the shelf held, and nothing was
lost, found or written over since.  They are what lets `CountSettles` say what a count is *for*:
after a completion that applies it, system and shelf agree on every item counted right.  The other
documents appear as `MoveStock`, one committed change.  A line's `variance` column is `counted -
expected` and is not kept apart.  A discharge lists an item once; the public form may list it twice,
and `takeStock` then takes the lines, or refuses, as it would their sum.

### StockLevels

One process with a program counter, `stage`, is the refresh: `ReadItems` (the whole
table), `WriteStatuses` (one statement per status, in any order), the check of expiring
and low items, each an unlocked read and a write, and the wiping of the cache.  `timer` and `rerun` are
`StockLevelService.timer` and `rerunRequested`.  A handler of the inventory
commits in one action and asks for the refresh in a later one, since an audit entry
is awaited in between (`AuditFails`); `Document` is any document's commit.  `Crash` loses the
timer, the flags and the refresh, and the refresh at start makes up for them.  `blind` is history: a
change that nobody announced, or a refresh that failed, until a refresh completes after it.
The two formulas for a status, `computeInventoryStatus` and the one in
`bulkUpdate`, are both there: they differ for a minimum of 0.

### Movements

The report derives movements from the documents' dates.  `Movements` keeps those dates (`date`,
`createdAt`, `confirmedAt`, `cancelledAt`, `completedAt`, `updatedAt`), on a clock of a few business
days, and beside them `moved`, what each commit really moved and when.  `moved` is by the warehouses
the document names, as its rows say; `landed`, by those its items were in when the commit came, any
(`Found`), since stock is written by item id.  `Strayed` are the documents for which the two
differ.  A request takes its date and may commit after midnight; `settled` is the last day whose
requests have all ended.  `Effect` says what the dates and the status of a document make it have
moved on a day; `RowOk` that it did.  Each of the six readings is an operator (`ReadSales`, ...,
`ReadTakes`) with its own rule of dates, signs and filters.  The documents of before the dates were
kept (`OldSale`, `OldTransfer`) are there at first, as the fallbacks of the code are for them.

### Access

`cache[i][u]` is instance `i`'s entry for user `u`, with the ticks it has left.  A look-up is three
actions (`ReadUser`, `ReadPerms`, `SetCache`; two for a SYSTEM_ADMIN, who is answered with the
wildcard, or a user without a role), and an update of a role goes row, listing, deletion, insertion,
versions, commit and eviction, of which the eviction reaches one instance only.  `since[u]` counts
the ticks since what `u` may do changed.  `UpdateUser` gives a user another role, or none (`roleId:
null`), or takes SYSTEM_ADMIN away; it bumps no version and evicts nothing, and `quiet` says which
users that has not happened to.  `late` are the users who got a role after its removal counted its
users.

### Registry

One request variable for eight kinds of requests.  `create` and `update` of a client look the code
up and then write; two variables keep history: `twins` are the pairs of which one was written
between the look-up and the write of the other, `blind` the records whose handler looks nothing up.
Access lists and device registrations are transactions whose statements wait for the rows of others
(`RowsFree`, `UserFree`, `SameToken`), and may deadlock (`Deadlocked`, `Victim`).  The appointment
of a manager is three steps: the update of the warehouse (`BeginAppoint`), the upsert (`Grant`),
which finds the row of the list there and takes no lock of it or inserts it, and `CommitAppoint`; a
replacement of that manager's list may run and commit between any two.

### Views

One table of any one kind, with rows that are inserted, change status, are soft- or hard-deleted.
Which status follows which is the business of the other modules: here any may.  A reading sends its
queries at once and each sees the table at some moment of the reading: `seen` collects the tables
there were since it began, and the answer picks one for each query.  A row carries when it was
created, and a `rank`: the column a client of the inventory names, the name of a category, or the
date of a transaction.  `Place` counts the rows before it in the column the list is sorted by
(`SortKey`), and a page is the rows whose places it covers; of rows that are equal there, any that
fill their places (`Pages`, `Tied`), as the queries have no second key.  Rows are also given another
rank (`Rename`) and other warehouses (`Relocate`; `been` is where a row has been).  The user asks
for page after page as long as the total says there is a next one; the list of documents with a
balance is cut from candidates in memory.  `KeyOf` and `Cacheable` are how the inventory keys and
keeps its summaries, and `Clear` is the wiping that follows an item write, some time later.

## 3. The runs

Most instances have two requests in flight, symmetric where nothing but their names tells them
apart; `stock_levels` has one beside the refresh, `views` one reader or one or two viewers of the
cache, and `loans` two requests on one loan, so that two loans created at once are not interleaved
there.  That is enough for every property here to be violated by the bugs it is about: the mutants
in `PROJECT.json` give one such bug for each property, and each is caught on the same instance.

| run | instance | shows |
| --- | --- | --- |
| `stock_docs` | 2 items with 1 unit each, a document of each of the 5 kinds | nothing is oversold, lost or moved twice; every commit is a step of the ledger; units leave only live items |
| `stock_docs_live` | a sale and an OUT transaction over the same 2 items | every request ends, deadlocks over rows taken in opposite orders included |
| `transfers` | 3 warehouses, 2 transfers sharing rows, one listing an item twice; 2 rows still to be inserted; 4 edits of items | units change hands only as whole transfers, on a standing approval, never below zero, wherever edits put the items |
| `loans` | 1 loan, every pair of handlers, the overdue job and removal | codes and signatures are written once and agree with the status; what is returned went out |
| `receivables` | 2 sales, 1 purchase, 1 client, 2 payments, amounts 1 and 2, limits none and 2 | no overpayment, no money on a cancelled document, no sale over the limit |
| `numbering` | 2 sales and a purchase, 2 ranges with the same codes | no gaps, no number of a range out of force |
| `counts` | 2 takes, 1 discharge, 1 laptop, sold, lost and written over, and 2 cables, deleted | one count at a time; a right count settles its item unless an edit wrote over it; nothing below zero; a request delivers once |
| `stock_levels` | 1 item of either kind with 0 to 2 units, 1 edit under way | with nothing pending statuses and alerts are right; an item left alone gets both right in the end |
| `access` | 1 user, 2 roles, 2 permissions, 1 server, 2 requests, entries of 1 tick | stale answers die in time; sets do not mix where the role is locked; removals take no role from whom they counted |
| `movements` | 2 documents of every pair of kinds, 2 warehouses, items in either, 1 product, 2 days | the report nets to what was moved: per period and warehouse where the items had stayed, per period in all warehouses, and over all; settled days are reported the same for ever |
| `registry` | 2 requests of every pair of kinds; 2 clients, 2 users, 2 categories, 2 warehouses, 2 devices | which overlaps leave twins, what a replaced list may hold, how a manager may lose access, whose device it is, and that every request ends |
| `views` | 3 rows, pages of 1, 2 writes; 1 reader, or 1 or 2 users of the cache | what is narrowed to one's warehouses stays so; an edit shows once the cache is wiped; counters add up within the writes they straddle; paging misses no row, unless one left, changed place, shared one, or a page and its total straddled a write |

**Why the bounds are enough.**  Two units of stock, one of each item, are the fewest for which two
documents compete for the last one while one of them is half done; two items, the fewest for
opposite orders.  Documents of different kinds share only item rows, so one of each kind covers the
pairs of kinds, and two requests may work on the same document.  A loan's handlers look at no other
loan, save the check at its creation, which the proofs cover for any number of loans and one loan
does not exercise.  With amounts 1 and 2 and a limit of 2, either sale fits and both may not; two
payments may add up to more than a document.  Two ranges are the fewest for deactivation, and the
same codes on both are the case in which their numbers can clash.

For `transfers`, both documents list the laptops with a SKU, whose suffix is the same in every
warehouse (`MCPrefix`): it is made of the first characters of the warehouse id, which warehouses
created close together share, so that the second receipt finds the SKU taken.  The second document
also lists the other laptops twice.  The four edits are one of each kind that can matter: an asked
item is taken to the destination itself, another to the third warehouse under another name and with
other units, and either row that a receipt may have found is taken away from under it.

For `counts`, the one laptop is sold, lost and written over, and the two cables are deleted:
one item whose units change and one whose row does is the case in which a completion
does half its work.  `MaxUnits` bounds what may be on the shelf, or owed.

For `stock_levels`, statuses of different items do not meet: the refresh treats each on its own and
the flags are shared by all, so one item beside the traffic of any (`Document`) is the general case;
the proofs are for any number.  For `access`, one tick of life and one of look-up are the least for
which an entry can be too old; the second instance is left to the proofs, since an evicted-too-early
entry of one instance is as stale as another's.  For `movements`, two days make a period with an
inside, an outside and an edge; one product, because lines do not meet; a second warehouse for items
to have strayed to; one resend per transfer.  For `registry`, each request runs once, and two are
enough for a look-up, a deletion or a lock to fall between two statements of the other; three scenes
say which rows are soft-deleted at first.  For `views`, three rows in pages of one are a list with a
first, a middle and a last page and a row to come; with two ranks beside creation rows may be equal,
and may pass each other; three homes name the user's warehouse first, second or not at all; `Cut`,
two, stands for the 2000 candidates of the list with a balance; two writes while one user reads, and
one where the counters have many parts or the table is the items', since a reading of `n` queries
has (writes + 1)^n answers.  A scene says which table it is and who comes, so that tables do not
multiply one another.

Deadlock checking is off where the system may really stop: removed loans, numbered documents,
requests that all ended, or a clock at its bound.

**Fairness.**  `stock_docs_live`: strong fairness of each request's next statement: the process runs
a request whose query has answered, and PostgreSQL queues the waiters of a row, so a row that
becomes free again and again is granted.  Weak fairness of the deadlock victim: PostgreSQL looks for
a cycle after `deadlock_timeout`.  Nothing is assumed of clients: no request need ever arrive.
`registry` assumes weak fairness of each request's next statement and of the victim, which is enough
where each request runs once.  `stock_levels` assumes weak fairness of the six-hourly job and of a
refresh's next statement, and none of the debounce timer: a change that arrives in time restarts it,
for ever if they keep coming.  The result, `CatchesUp`, is the weaker for it and is what the code
promises.

## 4. What the code does otherwise

The properties are written so that they hold of the code as it is.  Where it does
something else than a comment or a document says, the model does it too, and the property
names the exception.  What a reader of the code should know:

**Requests that overlap.**

1. *`sendTransfer` reads and writes without a lock* (`ReadSend`, `WriteSend`).  A second send
   that read APPROVED writes SENT over COMPLETED; the transfer can be received again
   and the stock moves twice, against "so stock moves once"
   (`transfer-requests.service.ts:590`).  In `Movements` such a transfer is in `resent`, and
   the report omits it until it is received again.
2. *`findFirst` and `create` race* at the destination of two receipts: both insert a row,
   against the comment at line 666 (`Find`, `Insert` of `Transfers`).
3. *`initiateReturn` takes an overdue loan that was never received* to RETURN_PENDING, from
   where its return is confirmed with no receipt on record, against
   `docs/CODEMAPS/loans-transfers.md:159`.
4. *`reject` overwrites a completed discharge* (`ReadReject`, `WriteReject` of `Counts`): its `UPDATE` waits for
   the approval and lands on top of it, against `discharge-requests.service.ts:416`.
5. *The start of a range moves after a number was issued*, decided from an unlocked read
   (`UpdateRange`), against `cai-ranges.service.ts:76`.
6. *An item ends on two loans* when two creations look for active loans of it at once
   (`CheckItems`, `CreateLoan`); the run has one loan and does not show it.
7. *Two clients with one code*, two users with one e-mail: looked up, then written, with no unique
   index; restoring or editing a user looks nothing up (`twins`, `blind`).  Two replacements of one
   access list at once may leave the union of both.  The appointment of a manager who is in already
   locks no row of the list, so a list without the warehouse may be committed between its
   statements, and the manager ends without access (`Grant`, `CommitAppoint`).
8. *A look-up that fills the permission cache after the eviction* serves the old set
   for a whole entry's life; the comment at `permissions.service.ts:8` puts the window below a
   millisecond.  `BoundedStaleness` allows it, up to `TTL + FillTime`.
9. *Two updates of one role mix* when one of them names no field of the role, and so updates no row
   to lock it (`loose`).  `users.update` gives another role, or none (`roleId: null` is not
   checked), or ends a SYSTEM_ADMIN's wildcard, with no new version and no eviction (`quiet`), and
   the seed changes grants with none.  A user given a role after its removal has counted its users
   is left with none (`late`).
10. *Removing a transaction, or editing its date or warehouses*, rewrites the report of a day
    that is over; `update-transaction.dto.ts:4-5` says that notes are what is updated.

**Items that move.**  `inventory.update` and `bulkUpdate` (`inventory.service.ts:427-435`, `839`)
change an item's warehouse, name, SKU and quantity with no look at open documents.

- *Transfers* take their units by item id, from whatever warehouse the item is in by then, the
  destination included: the transfer's source warehouse is checked at creation only
  (`transfer-requests.service.ts:125-137`).  They arrive under the name and SKU read before the
  transaction, though the item may have been renamed.  A destination row edited between `findFirst`
  and the increment gets the units wherever the edit took it (`slipped`).  `MovesWhole` says just
  this of each commit.
- *An absolute quantity*, from what the browser showed, overwrites what a sale took since, or what a
  receipt brought for whose row the edit waited.
- *A transfer may list an item twice*; availability is asked line by line.  An item with a SKU
  listed twice can never be received, nor one whose suffixed SKU another row has (`InsertRefused`):
  the row the first line inserts has the suffixed SKU, which `findFirst` does not look for, and the
  second insertion meets the unique index.
- *Sales, outflows, purchases, counts* write by item id too, at confirmation and cancellation
  (`sales.service.ts:815-817`, `916-924`), so the movements report, which puts the units down to the
  document's warehouse, nets one warehouse to what happened in another.  `NetsOut` excludes these
  documents (`Strayed`); `AllPlaces` and `WholeHistory` include them.  The edits themselves change
  the stock of a warehouse with no document and no line in the report, which is compared with what
  documents moved.
- *A count* keeps its line when its item is moved to another warehouse, and an absolute quantity
  written during it is corrected by the variance of what was there before (`SetQuantity`; `exact`
  excludes it from `CountSettles`).
- `StockDocs` has no absolute edits, since its ledger is of documents: `Conservation` speaks of
  stock nobody wrote over.  They are in `StockLevels`, `Transfers` and `Counts`.

**Views.**

- An audit entry that cannot be written leaves an inventory edit unannounced: no refresh and no
  wiping of the cache until the next (`AuditFails`).
- EXPIRING_SOON alerts of items in stock are resolved and made again at each refresh.
- *What is not narrowed to one's warehouses.*  The inventory's filter by warehouse replaces the
  user's own warehouses in the query, unlike the other lists (`warehouse-filter.util.ts:52`).  Items
  and discharge requests opened by id, and all stock takes, alerts and their counters, are shown to
  whoever may look at all.  `ScopedAnswers` leaves these out (`Narrowed`), and the model shows other
  warehouses' rows there.  "One's own" includes the rows that were in one's warehouses when they
  were read, or before: a row may be moved away after.
- *Sorting.*  The client of the inventory names the column (`inventory.service.ts:294-297`),
  categories are sorted by name (`categories.service.ts:13-16`), and neither query has a second key:
  a row edited in that column between two pages, or equal to another in it, may be on no page though
  it stayed in the list.  `WalkShowsAll` excludes these (`Shifts`, `Tied`), and a page whose rows
  and total were read on either side of a write (`mixed`).  Creation times are taken to be distinct.
- An answer that was being read while the cache was wiped is kept, with what it read before
  (`crossed`), for the life of the entry, and `EditsShow` excludes it.
- For a user without warehouses: the categories and names of warehouses come from the
  key of those who see everything, and fill it with theirs; the value of
  the stock is everybody's; the names of warehouses are all of them.
- With warehouses, `getLocations` asks for a column that the table does not have, and fails.
- `getLowStockItems` shows deleted items.  Loan counters have no part for CANCELLED, transfer counters none
  for RECEIVED, which nothing writes.
- Transactions are listed by a date their author types, with no second key: those of one day may be on
  two pages or on none.
- A list of documents with a balance considers the 2000 latest.

## 5. What is proved

TLAPS checks these for every value of the constants: any number of items, documents,
transfers, loans, ranges, counts, users, roles, servers and requests.

| theorem | says |
| --- | --- |
| `StockDocs_proofs!Coherent` | `IInv` is an invariant |
| `StockDocs_proofs!StockNeverNegative` | no item below zero |
| `StockDocs_proofs!TakenFromLive` | units leave only live items |
| `StockDocs_proofs!DocsImplementLedger` | `StockDocs` implements `StockLedger` |
| `StockDocs_proofs!UnitsAccounted` | what is on hand is the opening stock and what the documents in force moved |
| `Debts_proofs!Safety` | `IInv` of `Receivables`: what each request has read, and what its credit check has summed, still holds when it writes |
| `Debts_proofs!NobodyOverpays`, `MoneyStays` | no balance below zero; money only on documents in force |
| `Debts_proofs!CreditLimit` | no sale takes its client over the limit |
| `Debts_proofs!LoansCoherent`, `ReturnedWasOut` | status and paper trail agree; a returned loan was sent |
| `Debts_proofs!SignedOnce`, `StaysClosed` | codes and signatures are written once; closed stays closed |
| `Documents_proofs!Coherent`, `NoGaps`, `NeverClash` | the number taken stays the next one; no gaps; the unique index refuses nothing in a sequence |
| `Documents_proofs!InForce` | a range gives numbers only in force |
| `Documents_proofs!ViewsSafe` | `ViewsInv`: what each request has read, counted and shown so far, and for whom each cached answer was made |
| `Documents_proofs!OwnAnswers` | what the code narrows shows rows that are or were of the user's own warehouses, whoever filled the cache and wherever rows are moved |
| `Documents_proofs!EditsSeen` | what the cache keeps shows every write that has wiped it, unless it was being read while wiped |
| `Documents_proofs!CountersAddUp` | counters add up to the documents there are, within one for each write between their queries |
| `Documents_proofs!WalksComplete` | paging to the end shows every row of the list at the start, unless one left, changed place in the sort column or shared one, or a page and its total straddled a write |
| `Transfers_proofs!Safety`, `NeverShort`, `OnlyApproved` | `IInv`: each receipt's rows are its own, and what it has placed is in the destination as the product read, unless the row was edited after `findFirst`; receipts of the same rows leave none below zero; what is shipped stands approved |
| `Transfers_proofs!DeliversWhole` | a receipt moves every line at once: the units leave their items, wherever these are, and reach the destination as the product read, warehouse by warehouse and product by product; nothing else moves any but an edit that corrects one item |
| `Counts_proofs!Safety` | `IInv`: what a count or a discharge is about to write is still right |
| `Counts_proofs!OneCount`, `Settled` | one count at a time; a right count settles its item unless it was written over since |
| `Inventory_proofs!Coherent`, `StatusesRight`, `BellRings` | a status or an alert that no longer fits has a refresh coming; with none pending they are right |
| `Inventory_proofs!BooksBalance` | a document's dates and status say what it moved and when, and the units are as many wherever its items had been taken |
| `Inventory_proofs!ReportAddsUp` | the report of any period nets to what was moved in it: in each warehouse for documents whose items were where they say, in all together for the others too; and over the whole history to the change of stock the documents made |
| `Inventory_proofs!PastStands` | a settled day is reported the same for ever, sending again and transactions apart |
| `Accounts_proofs!Coherent`, `Fresh` | a stale answer is at most as old as an entry and a look-up |
| `Accounts_proofs!Versioned` | an answer with the present version is right, but for a user given another role, none, or demoted |
| `Accounts_proofs!Whole`, `RoleKept` | updates that lock the role do not mix; a role is removed from nobody but those who got it after its users were counted |
| `Accounts_proofs!RegistrySafe` | `RegistryInv`: indexes and references hold, transactions hold rows apart, a look-up's answer is still known to be right or is in `since` |
| `Accounts_proofs!TwinsKnown` | two records share a code only if their writes overlapped or no look-up was made |
| `Accounts_proofs!DevicesHeldOnce` | a token is with who registered it last, and with nobody else |
| `Accounts_proofs!ListsExact`, `ManagersKeepAccess` | a replaced list holds what was asked for, and besides only what others added while it ran; a manager is without access only once a list without the warehouse replaced theirs, after the appointment or while it ran |

**Assumptions.**  Each module's `...Assumption` types its constants and sets `None` (in `Movements`,
`Null`) apart from the rest; TLC evaluates them in every run.  Beyond types: `NumberingAssumption`
says that the codes of a range are never the name of a sequence (the code formats them differently);
`RegistryAssumption`, that the rows there are at first satisfy the indexes and foreign keys of the
database; `TransferAssumption`, that no transfer is from a warehouse to itself, which `create`
refuses; `ViewsAssumption`, that no two rows there are at first were created at once (later ones are
created one by one), and that a page has room for a row.  Where a property is a sum, the rows summed
are finitely many, as rows of a table are: `Docs` of `StockDocs`, `Rows` of `Transfers`, `Sales` and
`Payments` of `Receivables`, `Docs` and `Warehouses` of `Movements`; so are the `Rows` of `Views`,
which are counted.  Nothing else is assumed finite.

**The arguments.**  None of the properties is inductive alone.

- *StockDocs.*  `qty >= 0` at a commit needs to know that what the request took is still
  there.  `RowInv` says so: a row in `done[p]` is `p`'s alone, and if `p`
  takes from it, it is live and has the units.  That in turn needs `DocInv` (the status and
  the lines read under the lock have not changed) and `JobInv`.  For the refinement, a
  commit finds `done[p]` equal to the rows of its lines, so its write is the ledger's `Move`;
  no other step changes a quantity or a document.  `UnitsAccounted` then speaks of the ledger only: a step
  of it adds to an item what it adds to the sum over the documents in force, one summand having changed.
- *Receivables.*  The checks are of sums read in two statements.  `CreditOk` carries them: at `paid`
  the sales read still contain those in force, and at `post` what the new sale would leave open fits
  beside `Uncollected`.  It survives the others' steps because who puts a sale of the client in
  force holds the client's row, and payments, cancellations and edits only lower what is
  uncollected: `SumAtMost` and the like of `Sums`.
- *Loans.*  `OutBeforeBack` fails of a loan in RETURN_PENDING that was never
  sent; `TrailOk` gives, for each status, the codes and signatures that must
  and must not be there.  `WrittenOnce` follows because each handler writes where `TrailOk`
  says the field is still empty.
- *Numbering.*  `Gapless` survives a `Save` only if the number taken is the
  counter's current value: `TakenOk`, which holds because nobody else writes the row
  while it is locked.  `RangeOk` says a locked range is still active, which is what makes `InForce` true
  though edits have no transaction: their `UPDATE`s wait for the lock.
- *Transfers.*  `Commit` writes `qty` from what the request took and what it has added, so `RowsOk`
  says whose the rows are: no two requests hold one row, what a request added lies in rows it holds,
  and what it inserted has no units before the commit.  `RequestOk` says the units taken are still
  there.  `ApprovedBeforeSent` needs `ApprovalOk`, and for the unlocked send that the approval it
  read cannot be refused any more: `reject` wants PENDING.  `LinesOk` adds, for `MovesWhole`, that
  each line placed is in a row of the destination and of the product the look-up read, unless it is
  in `slipped`, and that a row gains the sum of the lines placed in it.  An edit cannot disturb
  that, as it waits for rows that are written, and puts in `slipped` the line whose row it changes
  before.  At the commit all are placed, and what a warehouse gains of a product is the sum over its
  rows, which is the sum over the lines that land there, part by part.
- *Counts.*  `CountSettles` compares the shelf with the system after the completion, so `LineOk`
  carries their difference along: for a line counted exactly, `shelf - qty = counted - expected`
  until the completion, whatever is sold meanwhile; an edit that writes the quantity over makes the
  line inexact.  `MoveOk` says the plan of a completion is still the variance of its lines.
- *StockLevels.*  "With nothing pending the status is right" is not inductive: the refresh
  writes what it read.  `StageInv` and `StatusInv` say what holds at each of its statements:
  a status that does not fit is in the plan, or has a request, the timer or
  `rerun` still to ask for another refresh, or is in `blind`.
- *Access.*  An entry is right or old enough to bound: `EntryInv` adds what is left of it to
  the ticks since the change.  For the look-up that will write the entry, `FillOk` says the same of
  what it has read so far, and `took` bounds how long ago that was.  `WriterOk` says that of
  two updates of one role, one has the row or both know they share it.
- *Registry.*  `LookedUp` says that what shares a code with a request about to write is known to it,
  or came since its look-up; the write then puts the pair in `twins`.  A replacement keeps the same
  account of what others add (`ListKnown`).  Of an appointment `AppointKnown` says that the manager
  is about to be let in, is in, or was put out since the upsert found the row.  `RowsApart` says
  that no two transactions hold one row, from which `TokenMine` follows: at its commit nobody else
  has, or is about to get, the token.
- *Movements.*  Nothing records a movement, so the invariant is that nothing need be: `RowOk` says
  that `Effect`, computed from the dates and the status, is what `moved` holds for every day.  Each
  action is one step of one row at one date (`RowStep`, `StillStep`, `BackStep`).  For
  `PastIsFixed`, such a step changes neither `Effect` nor a line of the report on a day before its
  date, and no date is before a settled day (`Turn`, `Steady`).  For `ReportNets`, `SameUnits` says
  that `landed` holds as many units as `moved`, wherever they landed, and is `moved` for a document
  that has not `Strayed`; and the report is the disjoint union of what it shows of each document
  (`RowMoves`), and for each kind the lines shown net to `Effect` over the period.  A sent-again
  transfer or a transaction does not, on a given day; over the whole history it does, because sums
  over warehouses and days may be swapped (`SumSwap`) and what a transfer takes from one it gives to
  the other.
- *Views.*  `CountOk` is about every way the answer could still be put together: whichever of the
  tables seen each counter is read from, and whichever they are compared with, the two differ by
  less than the number of tables seen (`Agree`).  A write changes one row, which is in at most one
  counter of a split, so one more table moves the difference by at most one (`SumMoves`,
  `AgreeStill`); that the counters split the statuses is a case for each table (`SplitsAre`).
  `WalkOk` says that what was listed at first and has its place before the page has been shown, in
  each table seen: in the column the list is sorted by, rows that come in push others back, never
  forward (`PlaceGrows`), and where no two rows are equal in it a page is the rows whose places it
  covers.  `ReadingOk` says that a row is, in each table seen, where it has `been`.  `Kept` and
  `ReadingOk` say for whom each answer in the cache was made, and that the item writes a reading
  does not know of have not wiped the cache since.

Sums are `SumFunctionOnSet` of the community modules.  `Sums` proves what is needed of them, by an
induction over subsets stated with a set and not an operator: the sum of a difference, of a change
in one place, of parts, of a swap.

**What stays with TLC.**  Liveness (`RequestsEnd`, `CatchesUp`), which needs fairness and `ENABLED`,
neither of which the installed provers reach.  Every other property the runs check is a theorem.

## 6. What is not modelled

- UNIQUE lines of purchase invoices (one row per serial number), a loan's notes and a changed due date.
- Currencies, tax and rounding; they only fix an amount.
- The first creation of the `fiscal_config` row: the code accepts a one-time race there.
- The spreadsheet import's parsing, templates, and full-text search, which falls
  back to `LIKE` whenever it finds nothing.
- Authentication: sessions, lockout and password tokens share no state with what is modelled.
- Scheduled reports, the other reports and PDF receipts: they read and write
  nothing the rest depends on.
- Audit, events, mail, push, QR images, CSRF, health and seed: input and output.
- Validation of requests and the guards that decide whether a request may run: the models allow
  all requests, except where the data shown depends on the user (`Views`).

## 7. The plan

The core is first because every other part rests on `takeStock` and `lockForUpdate`:

1. `StockLedger`, `StockDocs`, the refinement and conservation, checked and proved (done).
2. `Transfers`, `Loans`, `Receivables`, `Numbering`, checked and proved (done).
3. `Counts`: stock takes and discharge requests, checked and proved (done).
4. `StockLevels` and `Access`, checked and proved (done).
5. `Movements`, `Registry` and `Views`, checked and proved but for liveness (done).
6. Next: an abstract specification of `Counts` (a discharge is one outflow) shown to be implemented, as
   `StockLedger` is by `StockDocs`.
