---------------------------- MODULE StockLevels ----------------------------
(***************************************************************************)
(* StockLevelService, the stock alerts it raises, and the inventory        *)
(* handlers whose changes it has to follow.                                *)
(*                                                                         *)
(* A handler commits its change and calls scheduleRefresh() some awaits    *)
(* later.  scheduleRefresh() restarts a timer; the timer, a six-hourly job *)
(* and a button start a refresh, which is one at a time: it reads every    *)
(* item, writes the statuses that no longer fit, checks the alerts and     *)
(* clears the cache.  Whoever asks for a refresh while one is running gets *)
(* another, later.  The process may crash at any await; the refresh run at *)
(* its start makes up for the timer it lost.                               *)
(***************************************************************************)
EXTENDS Naturals

CONSTANTS
    Items,          \* rows of inventory_items, inserted or not
    Requests,       \* requests in flight
    Rows,           \* the values of the columns a status depends on
    Dtos,           \* bodies of updates: functions on some of those columns
    None            \* neither a status nor an alert type

Statuses == {"IN_STOCK", "LOW_STOCK", "OUT_OF_STOCK", "IN_USE"}
AlertTypes == {"LOW_STOCK", "OUT_OF_STOCK", "EXPIRING_SOON"}

ASSUME LevelsAssumption ==
    /\ None \notin Statuses \cup AlertTypes
    /\ \A dto \in Dtos : "status" \in DOMAIN dto => dto.status \in Statuses

VARIABLES
    row,            \* [Items -> Rows]
    state,          \* [Items -> {"absent", "live", "deleted"}]
    status,         \* [Items -> Statuses], the stored one
    expires,        \* [Items -> BOOLEAN]: within the next seven days
    alerts,         \* [Items -> SUBSET AlertTypes]: types with an unresolved alert
    pc,             \* where each request is
    job,            \* the item and the columns an edit is about to write
    timer,          \* the debounce timer is set
    rerun,          \* rerunRequested
    stage,          \* the statement the refresh runs next, "idle" if none runs
    plan,           \* [Items -> Statuses \cup {None}]: idsByStatus, unwritten
    seen,           \* [Items -> AlertTypes \cup {None}]: the alert an item calls for
    todo,           \* [Items -> alert to write, or None]
    blind           \* history: a change no refresh was asked for, or a failed refresh

items == <<row, state, status, expires>>
requests == <<pc, job>>
process == <<timer, rerun, stage>>
check == <<alerts, seen, todo>>
vars == <<items, requests, process, check, plan, blind>>

(***************************************************************************)
(* computeInventoryStatus, and the formula bulkUpdate has of its own: it   *)
(* takes a minimum of 0 for none given, and calls a unit LOW_STOCK.        *)
(***************************************************************************)
Level(r) ==
    IF r.kind = "UNIQUE"
    THEN IF r.assigned THEN "IN_USE"
         ELSE IF r.qty >= 1 THEN "IN_STOCK" ELSE "OUT_OF_STOCK"
    ELSE IF r.qty <= 0 THEN "OUT_OF_STOCK"
         ELSE IF r.qty <= r.min THEN "LOW_STOCK" ELSE "IN_STOCK"

Merge(dto, r) == [f \in DOMAIN r |-> IF f \in DOMAIN dto THEN dto[f] ELSE r[f]]

BulkLevel(dto, r) ==
    LET min == IF "min" \in DOMAIN dto /\ dto.min # 0 THEN dto.min ELSE r.min
    IN  IF r.kind = "UNIQUE" /\ r.assigned THEN "IN_USE"
        ELSE IF dto.qty = 0 THEN "OUT_OF_STOCK"
        ELSE IF dto.qty <= min THEN "LOW_STOCK" ELSE "IN_STOCK"

\* An update that names the status writes it; one that touches what it
\* depends on writes the one computed for the kind the item had; any other
\* leaves it.
EditStatus(dto, r) ==
    IF "status" \in DOMAIN dto THEN dto.status
    ELSE IF DOMAIN dto \cap {"qty", "min", "assigned"} # {}
         THEN Level(Merge([f \in DOMAIN dto \ {"kind"} |-> dto[f]], r))
         ELSE None

BulkStatus(dto, r) ==
    IF "status" \in DOMAIN dto THEN dto.status
    ELSE IF "qty" \in DOMAIN dto THEN BulkLevel(dto, r) ELSE None

NoJob == [item |-> None, dto |-> None, status |-> None]

Init ==
    /\ row \in [Items -> Rows]
    /\ state \in [Items -> {"absent", "live"}]
    /\ status \in [Items -> {"IN_STOCK"}]
    /\ expires = [i \in Items |-> FALSE]
    /\ alerts = [i \in Items |-> {}]
    /\ pc = [p \in Requests |-> "idle"]
    /\ job = [p \in Requests |-> NoJob]
    /\ timer = FALSE
    /\ rerun = FALSE
    /\ stage = "read"
    /\ plan = [i \in Items |-> None]
    /\ seen = [i \in Items |-> None]
    /\ todo = [i \in Items |-> None]
    /\ blind = FALSE

----------------------------------------------------------------------------
(* The handlers. *)

Goto(p, l) == pc' = [pc EXCEPT ![p] = l]

Exists(i) == state[i] # "absent"

\* A sale, an outflow, a transfer, a count, ... commits: the quantity of a row
\* changes and its status does not.  Counts and discharges audit it first.
Document(p, i) ==
    /\ pc[p] = "idle"
    /\ Exists(i)
    /\ \E r \in Rows :
        /\ r.qty # row[i].qty
        /\ r = [row[i] EXCEPT !.qty = r.qty]
        /\ row' = [row EXCEPT ![i] = r]
    /\ Goto(p, "owes") \/ Goto(p, "audit")
    /\ UNCHANGED <<state, status, expires, job, process, check, plan, blind>>

\* create: the status is the one asked for, or computed.
Create(p, i) ==
    /\ pc[p] = "idle"
    /\ state[i] = "absent"
    /\ \E s \in Statuses : status' = [status EXCEPT ![i] = s]
    /\ state' = [state EXCEPT ![i] = "live"]
    /\ Goto(p, "audit")
    /\ UNCHANGED <<row, expires, job, process, check, plan, blind>>

\* update reads the item, computes its status, and writes both later.
ReadItem(p, i) ==
    /\ pc[p] = "idle"
    /\ Exists(i)
    /\ \E dto \in Dtos :
        job' = [job EXCEPT ![p] =
                   [item |-> i, dto |-> dto, status |-> EditStatus(dto, row[i])]]
    /\ Goto(p, "edit")
    /\ UNCHANGED <<items, process, check, plan, blind>>

Overwrite(p) ==
    LET i == job[p].item
    IN  /\ row' = [row EXCEPT ![i] = Merge(job[p].dto, row[i])]
        /\ status' = [status EXCEPT ![i] = IF job[p].status = None THEN @
                                           ELSE job[p].status]
        /\ job' = [job EXCEPT ![p] = NoJob]

WriteItem(p) ==
    /\ pc[p] = "edit"
    /\ Overwrite(p)
    /\ Goto(p, "audit")
    /\ UNCHANGED <<state, expires, process, check, plan, blind>>

Remove(p, i) ==
    /\ pc[p] = "idle"
    /\ Exists(i)
    /\ state' = [state EXCEPT ![i] = "deleted"]
    /\ Goto(p, "owes")
    /\ UNCHANGED <<row, status, expires, job, process, check, plan, blind>>

Restore(p, i) ==
    /\ pc[p] = "idle"
    /\ state[i] = "deleted"
    /\ state' = [state EXCEPT ![i] = "live"]
    /\ Goto(p, "owes")
    /\ UNCHANGED <<row, status, expires, job, process, check, plan, blind>>

ResetAll(p) ==
    /\ pc[p] = "idle"
    /\ state' = [i \in Items |-> IF state[i] = "live" THEN "deleted" ELSE state[i]]
    /\ Goto(p, "audit")
    /\ UNCHANGED <<row, status, expires, job, process, check, plan, blind>>

\* The bulk handlers commit item by item and ask for one refresh at the end.
BeginBulk(p) ==
    /\ pc[p] = "idle"
    /\ Goto(p, "bulk")
    /\ UNCHANGED <<items, job, process, check, plan, blind>>

BulkRead(p, i) ==
    /\ pc[p] = "bulk"
    /\ Exists(i)
    /\ \E dto \in Dtos :
        job' = [job EXCEPT ![p] =
                   [item |-> i, dto |-> dto, status |-> BulkStatus(dto, row[i])]]
    /\ Goto(p, "bulk edit")
    /\ UNCHANGED <<items, process, check, plan, blind>>

BulkUpdate(p) ==
    /\ pc[p] = "bulk edit"
    /\ Overwrite(p)
    /\ Goto(p, "bulk")
    /\ UNCHANGED <<state, expires, process, check, plan, blind>>

BulkDelete(p, i) ==
    /\ pc[p] = "bulk"
    /\ Exists(i)
    /\ state' = [state EXCEPT ![i] = "deleted"]
    /\ UNCHANGED <<row, status, expires, requests, process, check, plan, blind>>

\* bulkImport's formula knows no UNIQUE items and has a default minimum of 10.
BulkImport(p, i) ==
    /\ pc[p] = "bulk"
    /\ state[i] = "absent"
    /\ state' = [state EXCEPT ![i] = "live"]
    /\ \E s \in {"IN_STOCK", "LOW_STOCK", "OUT_OF_STOCK"} :
        /\ s = "OUT_OF_STOCK" <=> row[i].qty = 0
        /\ status' = [status EXCEPT ![i] = s]
    /\ UNCHANGED <<row, expires, requests, process, check, plan, blind>>

\* Between its commit and its call of scheduleRefresh() the handler awaits its
\* audit record, and an error there skips the call.
AuditFails(p) ==
    /\ pc[p] = "audit"
    /\ Goto(p, "idle")
    /\ blind' = TRUE
    /\ UNCHANGED <<items, job, process, check, plan>>

ScheduleRefresh(p) ==
    /\ pc[p] \in {"owes", "audit", "bulk"}
    /\ Goto(p, "idle")
    /\ timer' = TRUE
    /\ UNCHANGED <<items, job, rerun, stage, check, plan, blind>>

ExpirationPasses(i) ==
    /\ expires' = [expires EXCEPT ![i] = ~@]
    /\ UNCHANGED <<row, state, status, requests, process, check, plan, blind>>

\* An alert resolved by hand.
Resolve(i) ==
    /\ \E t \in alerts[i] : alerts' = [alerts EXCEPT ![i] = @ \ {t}]
    /\ UNCHANGED <<items, requests, process, seen, todo, plan, blind>>

----------------------------------------------------------------------------
(* The refresh. *)

\* A request made during a refresh is taken to be answered by it.
RefreshOnce ==
    /\ stage' = IF stage = "idle" THEN "read" ELSE stage
    /\ UNCHANGED rerun

RefreshNow ==
    IF stage = "idle" THEN stage' = "read" /\ UNCHANGED rerun
    ELSE rerun' = TRUE /\ UNCHANGED stage

FireTimer ==
    /\ timer
    /\ timer' = FALSE
    /\ RefreshNow
    /\ UNCHANGED <<items, requests, check, plan, blind>>

\* The six-hourly job, or the button.
Cron ==
    /\ RefreshNow
    /\ UNCHANGED <<items, requests, timer, check, plan, blind>>

ReadItems ==
    /\ stage = "read"
    /\ plan' = [i \in Items |->
                   IF state[i] = "live" /\ status[i] # Level(row[i])
                   THEN Level(row[i]) ELSE None]
    /\ blind' = FALSE
    /\ stage' = "write"
    /\ UNCHANGED <<items, requests, timer, rerun, check>>

\* One updateMany per status, in any order.
WriteStatuses(s) ==
    LET ids == {i \in Items : plan[i] = s}
    IN  /\ stage = "write"
        /\ ids # {}
        /\ status' = [i \in Items |-> IF i \in ids THEN s ELSE status[i]]
        /\ plan' = [i \in Items |-> IF i \in ids THEN None ELSE plan[i]]
        /\ UNCHANGED <<row, state, expires, requests, process, check, blind>>

\* checkLowStock reads the items that are low or out by their stored status ...
ReadLow ==
    /\ stage = "write"
    /\ \A i \in Items : plan[i] = None
    /\ seen' = [i \in Items |->
                  IF state[i] = "live" /\ status[i] \in {"LOW_STOCK", "OUT_OF_STOCK"}
                  THEN IF row[i].qty = 0 THEN "OUT_OF_STOCK" ELSE "LOW_STOCK"
                  ELSE None]
    /\ stage' = "open"
    /\ UNCHANGED <<items, requests, timer, rerun, alerts, todo, plan, blind>>

\* ... then their unresolved alerts, of whatever type, keeping one of each item.
\* An alert that is there is left as it is.
NoUpgrade(i, t) == None

Upgrade(i, t) ==
    IF t # "OUT_OF_STOCK" /\ seen[i] = "OUT_OF_STOCK"
    THEN [from |-> t, to |-> seen[i]] ELSE None

ReadOpen ==
    /\ stage = "open"
    /\ \E first \in [Items -> AlertTypes \cup {None}] :
        /\ \A i \in Items : IF alerts[i] = {} THEN first[i] = None
                            ELSE first[i] \in alerts[i]
        /\ todo' = [i \in Items |->
                      IF seen[i] = None THEN None
                      ELSE IF first[i] = None THEN [from |-> None, to |-> seen[i]]
                      ELSE Upgrade(i, first[i])]
    /\ stage' = "raise"
    /\ UNCHANGED <<items, requests, timer, rerun, alerts, seen, plan, blind>>

\* One alert is inserted, or its type updated: an alert resolved meanwhile
\* stays resolved.
Raise(i) ==
    /\ stage \in {"raise", "expiring"}
    /\ todo[i] # None
    /\ alerts' = [alerts EXCEPT ![i] =
                     IF todo[i].from = None THEN @ \cup {todo[i].to}
                     ELSE IF todo[i].from \in @ THEN (@ \ {todo[i].from}) \cup {todo[i].to}
                     ELSE @]
    /\ todo' = [todo EXCEPT ![i] = None]
    /\ UNCHANGED <<items, requests, process, seen, plan, blind>>

ReadExpiring ==
    /\ stage = "raise"
    /\ \A i \in Items : todo[i] = None
    /\ seen' = [i \in Items |-> IF state[i] = "live" /\ expires[i]
                                THEN "EXPIRING_SOON" ELSE None]
    /\ stage' = "known"
    /\ UNCHANGED <<items, requests, timer, rerun, alerts, todo, plan, blind>>

ReadExpiryAlerts ==
    /\ stage = "known"
    /\ todo' = [i \in Items |-> IF seen[i] # None /\ seen[i] \notin alerts[i]
                                THEN [from |-> None, to |-> seen[i]] ELSE None]
    /\ stage' = "expiring"
    /\ UNCHANGED <<items, requests, timer, rerun, alerts, seen, plan, blind>>

\* Deleted items are not thought of.
ResolveByStatus ==
    /\ stage = "expiring"
    /\ \A i \in Items : todo[i] = None
    /\ alerts' = [i \in Items |-> IF status[i] \in {"IN_STOCK", "IN_USE"}
                                  THEN {} ELSE alerts[i]]
    /\ seen' = [i \in Items |-> None]
    /\ stage' = "clear"
    /\ UNCHANGED <<items, requests, timer, rerun, todo, plan, blind>>

\* One updateMany: every alert of an item that is in stock, in use or deleted.
ResolveAlerts ==
    /\ stage = "expiring"
    /\ \A i \in Items : todo[i] = None
    /\ alerts' = [i \in Items |-> IF \/ status[i] \in {"IN_STOCK", "IN_USE"}
                                     \/ state[i] = "deleted"
                                  THEN {} ELSE alerts[i]]
    /\ seen' = [i \in Items |-> None]
    /\ stage' = "clear"
    /\ UNCHANGED <<items, requests, timer, rerun, todo, plan, blind>>

\* The flag is reset and nothing is scheduled.
EndedForGood ==
    /\ stage' = "idle"
    /\ rerun' = FALSE
    /\ UNCHANGED timer

Ended ==
    /\ stage' = "idle"
    /\ rerun' = FALSE
    /\ timer' = (timer \/ rerun)

\* The cache is cleared and the refresh ends; a refresh asked for meanwhile is
\* scheduled.
Finish ==
    /\ stage = "clear"
    /\ Ended
    /\ UNCHANGED <<items, requests, check, plan, blind>>

\* syncStatuses fails: the refresh logs the error and ends.
SyncFails ==
    /\ stage \in {"read", "write"}
    /\ Ended
    /\ plan' = [i \in Items |-> None]
    /\ blind' = TRUE
    /\ UNCHANGED <<items, requests, check>>

\* checkLowStock fails: it logs the error, and the refresh goes on.
CheckFails ==
    /\ stage \in {"open", "raise", "known", "expiring"}
    /\ stage' = "clear"
    /\ seen' = [i \in Items |-> None]
    /\ todo' = [i \in Items |-> None]
    /\ blind' = TRUE
    /\ UNCHANGED <<items, requests, timer, rerun, alerts, plan>>

\* The process dies and starts again, with a refresh.
Crash ==
    /\ pc' = [p \in Requests |-> "idle"]
    /\ job' = [p \in Requests |-> NoJob]
    /\ timer' = FALSE
    /\ rerun' = FALSE
    /\ stage' = "read"
    /\ plan' = [i \in Items |-> None]
    /\ seen' = [i \in Items |-> None]
    /\ todo' = [i \in Items |-> None]
    /\ UNCHANGED <<items, alerts, blind>>

----------------------------------------------------------------------------

Handler(p) ==
    \/ \E i \in Items : \/ Document(p, i)
                        \/ Create(p, i)
                        \/ ReadItem(p, i)
                        \/ Remove(p, i)
                        \/ Restore(p, i)
                        \/ BulkRead(p, i)
                        \/ BulkDelete(p, i)
                        \/ BulkImport(p, i)
    \/ WriteItem(p)
    \/ ResetAll(p)
    \/ BeginBulk(p)
    \/ BulkUpdate(p)
    \/ AuditFails(p)
    \/ ScheduleRefresh(p)

RefreshStep ==
    \/ ReadItems
    \/ \E s \in Statuses : WriteStatuses(s)
    \/ ReadLow
    \/ ReadOpen
    \/ \E i \in Items : Raise(i)
    \/ ReadExpiring
    \/ ReadExpiryAlerts
    \/ ResolveAlerts
    \/ Finish

Next ==
    \/ \E p \in Requests : Handler(p)
    \/ \E i \in Items : ExpirationPasses(i) \/ Resolve(i)
    \/ FireTimer
    \/ Cron
    \/ RefreshStep
    \/ SyncFails
    \/ CheckFails
    \/ Crash

Spec == Init /\ [][Next]_vars

\* The job runs again and again, and a refresh that has started goes on.  The
\* timer is given no fairness: a change that arrives before it fires restarts it.
FairSpec == Spec /\ WF_vars(Cron) /\ WF_vars(RefreshStep)

----------------------------------------------------------------------------

Jobs == [item : Items \cup {None}, dto : Dtos \cup {None},
         status : Statuses \cup {None}]

\* Statuses, alerts and the places of requests and refresh are of their types.
TypeOK ==
    /\ state \in [Items -> {"absent", "live", "deleted"}]
    /\ status \in [Items -> Statuses]
    /\ alerts \in [Items -> SUBSET AlertTypes]
    /\ pc \in [Requests -> {"idle", "owes", "audit", "edit", "bulk", "bulk edit"}]
    /\ job \in [Requests -> Jobs]
    /\ stage \in {"idle", "read", "write", "open", "raise", "known", "expiring", "clear"}
    /\ plan \in [Items -> Statuses \cup {None}]
    /\ seen \in [Items -> AlertTypes \cup {None}]
    /\ todo \in [Items -> [from : AlertTypes \cup {None}, to : AlertTypes] \cup {None}]

Owes(p) == pc[p] \in {"owes", "audit", "bulk", "bulk edit"}

\* Somebody is still to ask for a refresh, or a refresh is on its way that has
\* not read the items yet.
Pending == \/ blind \/ timer \/ rerun
           \/ stage = "read"
           \/ \E p \in Requests : Owes(p)

\* With no refresh pending, the status of every item is right or about to be
\* made right by the refresh that is running.
StatusInv ==
    ~Pending => \A i \in Items : state[i] = "live" =>
        IF plan[i] # None THEN plan[i] = Level(row[i])
        ELSE status[i] = Level(row[i])

\* No alert outlives the check that should have resolved it.
BellInv ==
    ~Pending /\ stage \in {"clear", "idle"} =>
        \A i \in Items : alerts[i] # {} =>
            /\ state[i] = "live"
            /\ Level(row[i]) \in {"LOW_STOCK", "OUT_OF_STOCK"}

\* Alerts, and the check's work, are of items that exist.
AlertInv ==
    \A i \in Items : state[i] = "absent" =>
        alerts[i] = {} /\ seen[i] = None /\ todo[i] = None

\* What the refresh read is forgotten with the stage that uses it.
StageInv ==
    /\ stage # "write" => \A i \in Items : plan[i] = None
    /\ rerun => stage # "idle"

\* The inductive invariant: whatever a stock change, a failed refresh or a crash
\* leaves wrong, some refresh is still to come, or this one is about to mend it.
IInv ==
    /\ TypeOK
    /\ StageInv
    /\ StatusInv
    /\ AlertInv
    /\ BellInv

Quiet == ~Pending /\ stage = "idle"

\* When nothing is running, set or owed, and nothing failed, every stored
\* status is the one computeInventoryStatus gives (the promise of
\* StockLevelService).
StatusesAgree ==
    Quiet => \A i \in Items : state[i] = "live" => status[i] = Level(row[i])

\* Then no item that is in stock, in use or deleted has an unresolved alert
\* ("Resolve alerts for items that are now in stock, in use, or deleted").
BellAgrees ==
    Quiet => \A i \in Items : alerts[i] # {} =>
                /\ state[i] = "live"
                /\ Level(row[i]) \in {"LOW_STOCK", "OUT_OF_STOCK"}

\* What disturbs item i: a change of it, an edit of it, an alert of it resolved
\* by hand.
Disturbs(i) ==
    \/ row'[i] # row[i]
    \/ state'[i] # state[i]
    \/ Resolve(i)
    \/ \E p \in Requests : job[p].item = i /\ (WriteItem(p) \/ BulkUpdate(p))

Failure ==
    \/ SyncFails
    \/ CheckFails
    \/ Crash

BellRight(i) ==
    CASE Level(row[i]) = "OUT_OF_STOCK" -> "OUT_OF_STOCK" \in alerts[i]
      [] Level(row[i]) = "LOW_STOCK" -> alerts[i] # {}
      [] OTHER -> stage = "idle" => alerts[i] = {}

\* Once an item is left alone and failures stop, its status becomes right and
\* stays so, and so do its alerts: one that says it is out, one at least if it is low,
\* none after the check otherwise.  However busy the other items are, and whether
\* or not a refresh was ever asked for: the six-hourly job is the "safety net
\* for anything that changes stock without calling scheduleRefresh()".
CatchesUp ==
    \A i \in Items :
        \/ []<><<Disturbs(i) \/ Failure>>_vars
        \/ <>[](state[i] = "live" => status[i] = Level(row[i]) /\ BellRight(i))
=============================================================================
