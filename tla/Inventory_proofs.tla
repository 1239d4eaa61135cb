------------------------- MODULE Inventory_proofs -------------------------
(***************************************************************************)
(* What the system says of its stock.  That no change is missed: with no   *)
(* refresh pending, every status is the one computed from the item's       *)
(* quantity, and no alert outlives its cause (StockLevels).  That the      *)
(* movements report adds up: each period's lines net to what the documents *)
(* moved in it, and the report of a day gone by stays what it was          *)
(* (Movements).                                                            *)
(***************************************************************************)
EXTENDS StockLevels, Movements, Sums

LEMMA LevelStatus == \A r : Level(r) \in Statuses
  BY DEF Level, Statuses

LEMMA EditedStatus ==
  ASSUME NEW dto \in Dtos, NEW r
  PROVE  /\ EditStatus(dto, r) \in Statuses \cup {None}
         /\ BulkStatus(dto, r) \in Statuses \cup {None}
<1>1. BulkLevel(dto, r) \in Statuses
  BY DEF BulkLevel, Statuses
<1> QED
  BY <1>1, LevelStatus, LevelsAssumption DEF EditStatus, BulkStatus

\* A step after which a refresh is pending owes nothing but the types.
LEMMA StillPending ==
  ASSUME Pending', TypeOK', StageInv', AlertInv'
  PROVE  IInv'
  BY DEF IInv, StatusInv, BellInv

LEMMA InitInv == Init => IInv
<1> SUFFICES ASSUME Init PROVE IInv
  OBVIOUS
<1>1. TypeOK
  BY DEF Init, TypeOK, Statuses, AlertTypes, Jobs, NoJob
<1>2. Pending
  BY DEF Init, Pending
<1> QED
  BY <1>1, <1>2 DEF Init, IInv, StageInv, StatusInv, AlertInv, BellInv

----------------------------------------------------------------------------
(* A handler that commits a change leaves itself owing a refresh. *)

\* The request p, at label l, owes a refresh.
LEMMA GotoOwes ==
  ASSUME TypeOK, NEW p \in Requests, NEW l \in {"owes", "audit", "bulk", "bulk edit"},
         Goto(p, l)
  PROVE  Pending' /\ pc' \in [Requests -> {"idle", "owes", "audit", "edit", "bulk", "bulk edit"}]
<1>1. pc'[p] = l /\ pc' \in [Requests -> {"idle", "owes", "audit", "edit", "bulk", "bulk edit"}]
  BY DEF Goto, TypeOK
<1> QED
  BY <1>1 DEF Pending, Owes

LEMMA ChangeInv ==
  ASSUME IInv, NEW p \in Requests, NEW i \in Items,
         Document(p, i) \/ Create(p, i) \/ Remove(p, i) \/ Restore(p, i)
  PROVE  IInv'
<1> USE DEF IInv
<1>1. CASE Document(p, i)
  <2>1. PICK l \in {"owes", "audit", "bulk", "bulk edit"} : Goto(p, l)
    BY <1>1 DEF Document
  <2>2. Pending' /\ pc' \in [Requests -> {"idle", "owes", "audit", "edit", "bulk", "bulk edit"}]
    BY <2>1, GotoOwes
  <2> QED
    BY <1>1, <2>2, StillPending
    DEF Document, TypeOK, StageInv, AlertInv, process, check
<1>2. CASE Create(p, i)
  <2>1. Pending' /\ pc' \in [Requests -> {"idle", "owes", "audit", "edit", "bulk", "bulk edit"}]
    BY <1>2, GotoOwes DEF Create
  <2> QED
    BY <1>2, <2>1, StillPending
    DEF Create, TypeOK, StageInv, AlertInv, process, check
<1>3. CASE Remove(p, i)
  <2>1. Pending' /\ pc' \in [Requests -> {"idle", "owes", "audit", "edit", "bulk", "bulk edit"}]
    BY <1>3, GotoOwes DEF Remove
  <2> QED
    BY <1>3, <2>1, StillPending
    DEF Remove, Exists, TypeOK, StageInv, AlertInv, process, check
<1>4. CASE Restore(p, i)
  <2>1. Pending' /\ pc' \in [Requests -> {"idle", "owes", "audit", "edit", "bulk", "bulk edit"}]
    BY <1>4, GotoOwes DEF Restore
  <2> QED
    BY <1>4, <2>1, StillPending
    DEF Restore, TypeOK, StageInv, AlertInv, process, check
<1> QED
  BY <1>1, <1>2, <1>3, <1>4

\* Reading an item for an edit changes nothing yet.
LEMMA ReadInv ==
  ASSUME IInv, NEW p \in Requests, NEW i \in Items,
         ReadItem(p, i) \/ BulkRead(p, i)
  PROVE  IInv'
<1> USE DEF IInv
<1>1. \/ pc[p] = "idle" /\ Goto(p, "edit")
      \/ pc[p] = "bulk" /\ Goto(p, "bulk edit")
  BY DEF ReadItem, BulkRead
<1>2. \E dto \in Dtos, s \in Statuses \cup {None} :
         job' = [job EXCEPT ![p] = [item |-> i, dto |-> dto, status |-> s]]
  BY EditedStatus DEF ReadItem, BulkRead
<1>3. UNCHANGED <<items, process, check, plan, blind>>
  BY DEF ReadItem, BulkRead
<1>4. TypeOK'
  <2>1. PICK dto \in Dtos, s \in Statuses \cup {None} :
           job' = [job EXCEPT ![p] = [item |-> i, dto |-> dto, status |-> s]]
    BY <1>2
  <2>2. [item |-> i, dto |-> dto, status |-> s] \in Jobs
    BY DEF Jobs
  <2>3. job' \in [Requests -> Jobs]
    BY <2>1, <2>2 DEF TypeOK
  <2> QED
    BY <2>3, <1>1, <1>3 DEF TypeOK, Goto, items, process, check
<1>5. \A q \in Requests : Owes(q)' <=> Owes(q)
  BY <1>1 DEF Owes, Goto, TypeOK
<1>6. Pending' <=> Pending
  BY <1>3, <1>5 DEF Pending, process
<1> QED
  BY <1>3, <1>4, <1>6
  DEF StageInv, StatusInv, AlertInv, BellInv, items, process, check

LEMMA WriteInv ==
  ASSUME IInv, NEW p \in Requests, WriteItem(p) \/ BulkUpdate(p)
  PROVE  IInv'
<1> USE DEF IInv
<1>1. Overwrite(p) /\ UNCHANGED <<state, expires, process, check, plan, blind>>
  BY DEF WriteItem, BulkUpdate
<1>2. Pending' /\ pc' \in [Requests -> {"idle", "owes", "audit", "edit", "bulk", "bulk edit"}]
  BY GotoOwes DEF WriteItem, BulkUpdate
<1>3. status' \in [Items -> Statuses]
  BY <1>1 DEF Overwrite, TypeOK, Jobs
<1>4. job' \in [Requests -> Jobs]
  BY <1>1 DEF Overwrite, NoJob, TypeOK, Jobs
<1> QED
  BY <1>1, <1>2, <1>3, <1>4, StillPending
  DEF TypeOK, StageInv, AlertInv, process, check

LEMMA ResetInv ==
  ASSUME IInv, NEW p \in Requests, ResetAll(p)
  PROVE  IInv'
<1> USE DEF IInv
<1>1. Pending' /\ pc' \in [Requests -> {"idle", "owes", "audit", "edit", "bulk", "bulk edit"}]
  BY GotoOwes DEF ResetAll
<1>2. TypeOK'
  BY <1>1 DEF ResetAll, TypeOK, process, check
<1> QED
  BY <1>1, <1>2, StillPending DEF ResetAll, StageInv, AlertInv, TypeOK, process, check

LEMMA BeginBulkInv ==
  ASSUME IInv, NEW p \in Requests, BeginBulk(p)
  PROVE  IInv'
<1> USE DEF IInv
<1>1. Pending' /\ pc' \in [Requests -> {"idle", "owes", "audit", "edit", "bulk", "bulk edit"}]
  BY GotoOwes DEF BeginBulk
<1>2. TypeOK'
  BY <1>1 DEF BeginBulk, TypeOK, items, process, check
<1> QED
  BY <1>1, <1>2, StillPending DEF BeginBulk, StageInv, AlertInv, items, process, check

LEMMA BulkDeleteInv ==
  ASSUME IInv, NEW p \in Requests, NEW i \in Items, BulkDelete(p, i)
  PROVE  IInv'
<1> USE DEF IInv
<1>1. Pending'
  BY DEF BulkDelete, Pending, Owes, requests
<1>2. TypeOK'
  BY DEF BulkDelete, TypeOK, requests, process, check
<1> QED
  BY <1>1, <1>2, StillPending
  DEF BulkDelete, Exists, StageInv, AlertInv, process, check

LEMMA BulkImportInv ==
  ASSUME IInv, NEW p \in Requests, NEW i \in Items, BulkImport(p, i)
  PROVE  IInv'
<1> USE DEF IInv
<1>1. Pending'
  BY DEF BulkImport, Pending, Owes, requests
<1>2. PICK s \in Statuses : status' = [status EXCEPT ![i] = s]
  BY DEF BulkImport, Statuses
<1>3. status' \in [Items -> Statuses]
  BY <1>2 DEF TypeOK
<1>4. UNCHANGED <<row, expires, requests, process, check, plan, blind>>
  BY DEF BulkImport
<1>5. state' = [state EXCEPT ![i] = "live"]
  BY DEF BulkImport
<1>6. TypeOK'
  BY <1>3, <1>4, <1>5 DEF TypeOK, requests, process, check
<1> QED
  BY <1>1, <1>4, <1>5, <1>6, StillPending DEF StageInv, AlertInv, TypeOK, process, check

\* The call itself sets the timer; a call that is skipped is remembered.
LEMMA CallInv ==
  ASSUME IInv, NEW p \in Requests, AuditFails(p) \/ ScheduleRefresh(p)
  PROVE  IInv'
<1> USE DEF IInv
<1>1. Pending'
  BY DEF AuditFails, ScheduleRefresh, Pending
<1>2. TypeOK'
  BY DEF AuditFails, ScheduleRefresh, TypeOK, Goto, items, process, check
<1> QED
  BY <1>1, <1>2, StillPending
  DEF AuditFails, ScheduleRefresh, StageInv, AlertInv, items, process, check

----------------------------------------------------------------------------
(* The refresh. *)

\* Neither the calendar nor a user who resolves an alert asks for a refresh.
LEMMA OutsideInv ==
  ASSUME IInv, NEW i \in Items, ExpirationPasses(i) \/ Resolve(i)
  PROVE  IInv'
<1> USE DEF IInv
<1>1. CASE ExpirationPasses(i)
  BY <1>1 DEF ExpirationPasses, TypeOK, StageInv, StatusInv, AlertInv, BellInv,
              Pending, Owes, requests, process, check
<1>2. CASE Resolve(i)
  <2>1. \A j \in Items : alerts'[j] \subseteq alerts[j]
    BY <1>2 DEF Resolve, TypeOK
  <2>2. TypeOK'
    BY <1>2 DEF Resolve, TypeOK, items, requests, process
  <2>3. Pending' <=> Pending
    BY <1>2 DEF Resolve, Pending, Owes, requests, process
  <2> QED
    BY <1>2, <2>1, <2>2, <2>3
    DEF Resolve, StageInv, StatusInv, AlertInv, BellInv, items, process
<1> QED
  BY <1>1, <1>2

LEMMA AskInv ==
  ASSUME IInv, FireTimer \/ Cron
  PROVE  IInv'
<1> USE DEF IInv
<1>1. Pending'
  BY DEF FireTimer, Cron, RefreshNow, Pending
<1>2. TypeOK'
  BY DEF FireTimer, Cron, RefreshNow, TypeOK, items, requests, check
<1>3. StageInv'
  BY DEF FireTimer, Cron, RefreshNow, StageInv
<1> QED
  BY <1>1, <1>2, <1>3, StillPending
  DEF FireTimer, Cron, AlertInv, items, check

\* What the refresh has read it will write, and no other item needs it.
LEMMA ReadItemsInv ==
  ASSUME IInv, ReadItems
  PROVE  IInv'
<1> USE DEF IInv
<1>1. TypeOK'
  BY LevelStatus DEF ReadItems, TypeOK, items, requests, check
<1>2. StatusInv'
  BY LevelStatus, LevelsAssumption
  DEF ReadItems, StatusInv, TypeOK, items
<1> QED
  BY <1>1, <1>2 DEF ReadItems, StageInv, AlertInv, BellInv, items, check

LEMMA WriteStatusesInv ==
  ASSUME IInv, NEW s \in Statuses, WriteStatuses(s)
  PROVE  IInv'
<1> USE DEF IInv
<1>1. TypeOK'
  BY DEF WriteStatuses, TypeOK, requests, process, check
<1>2. Pending' <=> Pending
  BY DEF WriteStatuses, Pending, Owes, requests, process
<1>3. StatusInv'
  BY <1>2, LevelsAssumption DEF WriteStatuses, StatusInv, TypeOK
<1> QED
  BY <1>1, <1>2, <1>3
  DEF WriteStatuses, StageInv, AlertInv, BellInv, process, check
\* The alert check reads and writes what only the check uses, save the alerts.
LEMMA ReadLowInv ==
  ASSUME IInv, ReadLow
  PROVE  IInv'
<1> USE DEF IInv
<1>1. seen' \in [Items -> AlertTypes \cup {None}]
  BY DEF ReadLow, AlertTypes
<1>2. TypeOK'
  BY <1>1 DEF ReadLow, TypeOK, items, requests
<1>3. Pending' => Pending
  BY DEF ReadLow, Pending, Owes, requests
<1> QED
  BY <1>2, <1>3
  DEF ReadLow, Pending, Owes, TypeOK, StageInv, StatusInv, AlertInv, BellInv, items, requests

LEMMA ReadOpenInv ==
  ASSUME IInv, ReadOpen
  PROVE  IInv'
<1> USE DEF IInv
<1>1. /\ stage = "open" /\ stage' = "raise"
      /\ UNCHANGED <<items, requests, timer, rerun, alerts, seen, plan, blind>>
      /\ \A i \in Items : seen[i] = None => todo'[i] = None
  BY DEF ReadOpen
<1>2. PICK first \in [Items -> AlertTypes \cup {None}] :
         todo' = [i \in Items |->
                    IF seen[i] = None THEN None
                    ELSE IF first[i] = None THEN [from |-> None, to |-> seen[i]]
                    ELSE Upgrade(i, first[i])]
  BY DEF ReadOpen
<1>3. \A i \in Items : todo'[i] \in [from : AlertTypes \cup {None}, to : AlertTypes] \cup {None}
  BY <1>2 DEF Upgrade, TypeOK
<1>4. todo' \in [Items -> [from : AlertTypes \cup {None}, to : AlertTypes] \cup {None}]
  BY <1>2, <1>3
<1>5. TypeOK'
  BY <1>1, <1>4 DEF TypeOK, items, requests
<1>6. Pending' <=> Pending
  BY <1>1 DEF Pending, Owes, requests
<1> QED
  BY <1>1, <1>5, <1>6 DEF StageInv, StatusInv, AlertInv, BellInv, items

LEMMA RaiseInv ==
  ASSUME IInv, NEW i \in Items, Raise(i)
  PROVE  IInv'
<1> USE DEF IInv
<1>1. /\ stage \in {"raise", "expiring"} /\ todo[i] # None
      /\ UNCHANGED <<items, requests, process, seen, plan, blind>>
      /\ todo' = [todo EXCEPT ![i] = None]
  BY DEF Raise
<1>2. todo[i].to \in AlertTypes
  BY <1>1 DEF TypeOK
<1>3. /\ alerts' \in [Items -> SUBSET AlertTypes]
      /\ \A j \in Items : j # i => alerts'[j] = alerts[j]
  BY <1>2 DEF Raise, TypeOK
<1>4. TypeOK'
  BY <1>1, <1>3 DEF TypeOK, items, requests, process
<1>5. Pending' <=> Pending
  BY <1>1 DEF Pending, Owes, requests, process
<1>6. AlertInv'
  BY <1>1, <1>3 DEF AlertInv, TypeOK, items
<1> QED
  BY <1>1, <1>4, <1>5, <1>6 DEF StageInv, StatusInv, BellInv, items, process

LEMMA ExpiringInv ==
  ASSUME IInv, ReadExpiring \/ ReadExpiryAlerts
  PROVE  IInv'
<1> USE DEF IInv
<1>1. /\ stage' \in {"known", "expiring"} /\ stage \notin {"read", "write", "idle"}
      /\ UNCHANGED <<items, requests, timer, rerun, alerts, plan, blind>>
  BY DEF ReadExpiring, ReadExpiryAlerts
<1>2. /\ seen' \in [Items -> AlertTypes \cup {None}]
      /\ todo' \in [Items -> [from : AlertTypes \cup {None}, to : AlertTypes] \cup {None}]
  <2>1. CASE ReadExpiring
    BY <2>1 DEF ReadExpiring, AlertTypes, TypeOK
  <2>2. CASE ReadExpiryAlerts
    <3>1. \A i \in Items : seen[i] # None =>
             [from |-> None, to |-> seen[i]] \in [from : AlertTypes \cup {None}, to : AlertTypes]
      BY DEF TypeOK
    <3> QED
      BY <2>2, <3>1 DEF ReadExpiryAlerts, TypeOK
  <2> QED
    BY <2>1, <2>2
<1>3. TypeOK'
  BY <1>1, <1>2 DEF TypeOK, items, requests
<1>4. Pending' <=> Pending
  BY <1>1 DEF Pending, Owes, requests
<1>5. AlertInv'
  BY <1>1 DEF ReadExpiring, ReadExpiryAlerts, AlertInv, items
<1> QED
  BY <1>1, <1>3, <1>4, <1>5 DEF StageInv, StatusInv, BellInv, items

\* With no refresh pending the statuses are right, so what is resolved is what
\* should be.
LEMMA ResolveAlertsInv ==
  ASSUME IInv, ResolveAlerts
  PROVE  IInv'
<1> USE DEF IInv
<1>1. /\ stage = "expiring" /\ stage' = "clear"
      /\ UNCHANGED <<items, requests, timer, rerun, todo, plan, blind>>
      /\ seen' = [i \in Items |-> None]
  BY DEF ResolveAlerts
<1>2. \A i \in Items : alerts'[i] # {} =>
         /\ alerts[i] # {} /\ state[i] # "deleted"
         /\ status[i] \notin {"IN_STOCK", "IN_USE"}
  BY DEF ResolveAlerts
<1>3. TypeOK'
  BY <1>1 DEF ResolveAlerts, TypeOK, items, requests
<1>4. Pending' <=> Pending
  BY <1>1 DEF Pending, Owes, requests
<1>5. AlertInv'
  BY <1>1, <1>2 DEF AlertInv, items
<1>6. BellInv'
  <2> SUFFICES ASSUME ~Pending, NEW i \in Items, alerts'[i] # {}
               PROVE  state[i] = "live" /\ Level(row[i]) \in {"LOW_STOCK", "OUT_OF_STOCK"}
    BY <1>1, <1>4 DEF BellInv, items
  <2>1. state[i] = "live"
    BY <1>2 DEF AlertInv, TypeOK
  <2>2. status[i] = Level(row[i])
    BY <2>1, <1>1 DEF StatusInv, StageInv
  <2> QED
    BY <2>1, <2>2, <1>2 DEF TypeOK, Statuses
<1> QED
  BY <1>1, <1>3, <1>4, <1>5, <1>6 DEF StageInv, StatusInv, items

\* A refresh that was asked for meanwhile is scheduled as this one ends.
LEMMA EndInv ==
  ASSUME IInv, Finish \/ SyncFails \/ CheckFails
  PROVE  IInv'
<1> USE DEF IInv
<1>1. CASE Finish
  <2>1. TypeOK'
    BY <1>1 DEF Finish, Ended, TypeOK, items, requests, check
  <2>2. Pending' <=> Pending
    BY <1>1 DEF Finish, Ended, Pending, Owes, requests
  <2> QED
    BY <1>1, <2>1, <2>2
    DEF Finish, Ended, StageInv, StatusInv, AlertInv, BellInv, items, check
<1>2. CASE SyncFails \/ CheckFails
  <2>1. Pending'
    BY <1>2 DEF SyncFails, CheckFails, Pending
  <2>2. TypeOK'
    BY <1>2 DEF SyncFails, CheckFails, Ended, TypeOK, items, requests, check
  <2> QED
    BY <1>2, <2>1, <2>2, StillPending
    DEF SyncFails, CheckFails, Ended, StageInv, AlertInv, items, check
<1> QED
  BY <1>1, <1>2

LEMMA CrashInv ==
  ASSUME IInv, Crash
  PROVE  IInv'
<1> USE DEF IInv
<1>1. Pending'
  BY DEF Crash, Pending
<1>2. TypeOK'
  BY DEF Crash, TypeOK, items, Jobs, NoJob
<1> QED
  BY <1>1, <1>2, StillPending DEF Crash, StageInv, AlertInv, items

----------------------------------------------------------------------------

LEMMA NextInv ==
  ASSUME IInv, [Next]_vars
  PROVE  IInv'
<1>1. CASE \E p \in Requests : Handler(p)
  <2> SUFFICES ASSUME NEW p \in Requests, Handler(p) PROVE IInv'
    BY <1>1
  <2> QED
    BY ChangeInv, ReadInv, WriteInv, ResetInv, BeginBulkInv, BulkDeleteInv,
       BulkImportInv, CallInv
    DEF Handler
<1>2. CASE \E i \in Items : ExpirationPasses(i) \/ Resolve(i)
  BY <1>2, OutsideInv
<1>3. CASE FireTimer \/ Cron
  BY <1>3, AskInv
<1>4. CASE RefreshStep
  BY <1>4, ReadItemsInv, WriteStatusesInv, ReadLowInv, ReadOpenInv, RaiseInv,
     ExpiringInv, ResolveAlertsInv, EndInv
  DEF RefreshStep
<1>5. CASE SyncFails \/ CheckFails \/ Crash
  BY <1>5, EndInv, CrashInv
<1>6. CASE UNCHANGED vars
  <2>1. UNCHANGED <<items, requests, process, check, plan, blind>>
    BY <1>6 DEF vars
  <2>2. Pending' <=> Pending
    BY <2>1 DEF Pending, Owes, requests, process
  <2> QED
    BY <2>1, <2>2
    DEF IInv, TypeOK, StageInv, StatusInv, AlertInv, BellInv, items, requests, process, check
<1> QED
  BY <1>1, <1>2, <1>3, <1>4, <1>5, <1>6 DEF Next

\* Whatever the interleaving of changes, refreshes, failures and crashes, some
\* refresh is still to come for every change that is not reflected yet.
THEOREM Coherent == Spec => []IInv
<1>1. Init => IInv
  BY InitInv
<1>2. IInv /\ [Next]_vars => IInv'
  BY NextInv
<1> QED
  BY <1>1, <1>2, PTL DEF Spec

\* When StockLevelService is idle and owes nothing, every stored status is the
\* one computeInventoryStatus gives.
THEOREM StatusesRight == Spec => []StatusesAgree
<1>1. IInv => StatusesAgree
  BY DEF IInv, StageInv, StatusInv, StatusesAgree, Quiet
<1> QED
  BY <1>1, Coherent, PTL

\* Then no alert is left of an item that is in stock, in use or deleted.
THEOREM BellRings == Spec => []BellAgrees
<1>1. IInv => BellAgrees
  BY DEF IInv, BellInv, BellAgrees, Quiet
<1> QED
  BY <1>1, Coherent, PTL

----------------------------------------------------------------------------
(* The movements report: what one commit adds to what its document moved.  *)

Deltas == [Warehouses -> [Products -> Int]]
Histories == [Days -> Deltas]

\* What a document has moved once it moves delta at t.
Posting(m, t, delta) == [m EXCEPT ![t] = Add(m[t], delta)]

LEMMA DaysAre ==
  /\ Days = 0 .. MaxDay /\ Days \subseteq Nat /\ IsFiniteSet(Days)
  /\ 1 .. MaxDay \subseteq Days /\ IsFiniteSet(1 .. MaxDay) /\ 0 \in Days
<1>1. MaxDay \in Nat \ {0}
  BY MovementsAssumption
<1> QED
  BY <1>1, FS_Interval DEF Days

LEMMA PostingAdds ==
  ASSUME NEW m \in Histories, NEW t \in Days, NEW delta \in Deltas
  PROVE  /\ Posting(m, t, delta) \in Histories
         /\ \A u \in Days, w \in Warehouses, i \in Products :
               Posting(m, t, delta)[u][w][i] = m[u][w][i] + If(u = t, delta[w][i])
<1>1. Add(m[t], delta) \in Deltas
  BY DEF Add, Deltas, Histories
<1>2. Posting(m, t, delta) \in Histories
  BY <1>1 DEF Posting, Histories
<1>3. ASSUME NEW u \in Days, NEW w \in Warehouses, NEW i \in Products
      PROVE  Posting(m, t, delta)[u][w][i] = m[u][w][i] + If(u = t, delta[w][i])
  <2>1. m[u][w][i] \in Int /\ delta[w][i] \in Int
    BY DEF Histories, Deltas
  <2>2. CASE u = t
    <3>1. Posting(m, t, delta)[u] = Add(m[t], delta)
      BY <2>2 DEF Posting, Histories
    <3>2. Add(m[t], delta)[w][i] = m[t][w][i] + delta[w][i]
      BY DEF Add
    <3> QED
      BY <2>2, <3>1, <3>2 DEF If
  <2>3. CASE u # t
    <3>1. Posting(m, t, delta)[u] = m[u]
      BY <2>3 DEF Posting, Histories
    <3> QED
      BY <2>1, <2>3, <3>1 DEF If
  <2> QED
    BY <2>2, <2>3
<1> QED
  BY <1>2, <1>3

LEMMA HistorySum ==
  ASSUME NEW m \in Histories, NEW ts \in SUBSET Days, NEW w \in Warehouses, NEW i \in Products
  PROVE  /\ IsFiniteSet(ts)
         /\ \A u \in Days : m[u][w][i] \in Int
         /\ SumFunctionOnSet([u \in Days |-> m[u][w][i]], ts) \in Int
<1>1. IsFiniteSet(ts)
  BY DaysAre, FS_Subset
<1>2. \A u \in Days : m[u][w][i] \in Int
  BY DEF Histories, Deltas
<1>3. \A u \in ts : [v \in Days |-> m[v][w][i]][u] \in Int
  BY <1>2
<1> QED
  BY <1>1, <1>2, <1>3, SumStep

\* What a document moved in all grows by delta.
LEMMA PostingSum ==
  ASSUME NEW m \in Histories, NEW ts \in SUBSET Days, NEW t \in ts, NEW delta \in Deltas,
         NEW w \in Warehouses, NEW i \in Products
  PROVE  SumFunctionOnSet([u \in Days |-> Posting(m, t, delta)[u][w][i]], ts)
           = SumFunctionOnSet([u \in Days |-> m[u][w][i]], ts) + delta[w][i]
<1>1. PICK f, g : /\ f = [u \in Days |-> m[u][w][i]]
                  /\ g = [u \in Days |-> Posting(m, t, delta)[u][w][i]]
  OBVIOUS
<1>2. \A u \in Days : f[u] \in Int /\ g[u] = f[u] + If(u = t, delta[w][i])
  <2>1. \A u \in Days : m[u][w][i] \in Int
    BY DEF Histories, Deltas
  <2>2. \A u \in Days : Posting(m, t, delta)[u][w][i] = m[u][w][i] + If(u = t, delta[w][i])
    BY PostingAdds
  <2> QED
    BY <1>1, <2>1, <2>2
<1>3. delta[w][i] \in Int
  BY DEF Deltas
<1>4. /\ \A u \in ts : f[u] \in Int /\ g[u] \in Int
      /\ \A u \in ts \ {t} : g[u] = f[u]
      /\ g[t] - f[t] = delta[w][i]
  BY <1>2, <1>3 DEF If
<1>5. IsFiniteSet(ts)
  BY DaysAre, FS_Subset
<1>6. SumFunctionOnSet(g, ts) = SumFunctionOnSet(f, ts) + (g[t] - f[t])
  BY <1>4, <1>5, SumChange
<1> QED
  BY <1>1, <1>4, <1>6

\* Wherever the items were, the units that moved are those the document moved.
LEMMA LandedIs ==
  ASSUME NEW found \in Found, NEW delta \in Deltas
  PROVE  /\ Landed(found, delta) \in Deltas
         /\ \A i \in Products :
               SumFunctionOnSet([w \in Warehouses |-> Landed(found, delta)[w][i]], Warehouses)
                 = SumFunctionOnSet([w \in Warehouses |-> delta[w][i]], Warehouses)
<1> DEFINE from(w, i) == {v \in Warehouses : found[v][i] = w}
<1>1. IsFiniteSet(Warehouses)
  BY MovementsAssumption
<1>2. ASSUME NEW w \in Warehouses, NEW i \in Products
      PROVE  /\ IsFiniteSet(from(w, i))
             /\ Landed(found, delta)[w][i] = SumFunctionOnSet([v \in Warehouses |-> delta[v][i]], from(w, i))
             /\ Landed(found, delta)[w][i] \in Int
  <2>1. PICK f, S : f = [v \in Warehouses |-> delta[v][i]] /\ S = from(w, i)
    OBVIOUS
  <2>2. IsFiniteSet(S) /\ \A v \in S : f[v] \in Int
    <3>1. S \subseteq Warehouses
      BY <2>1
    <3>2. IsFiniteSet(S)
      BY <1>1, <3>1, FS_Subset
    <3> QED
      BY <2>1, <3>1, <3>2 DEF Deltas
  <2>3. SumFunctionOnSet(f, S) \in Int
    BY <2>2, SumStep
  <2>4. Landed(found, delta)[w][i] = SumFunctionOnSet([v \in Warehouses |-> delta[v][i]], from(w, i))
    BY DEF Landed
  <2> QED
    BY <2>1, <2>2, <2>3, <2>4
<1>3. Landed(found, delta) \in Deltas
  BY <1>2 DEF Landed, Deltas
<1>4. ASSUME NEW i \in Products
      PROVE  SumFunctionOnSet([w \in Warehouses |-> Landed(found, delta)[w][i]], Warehouses)
               = SumFunctionOnSet([w \in Warehouses |-> delta[w][i]], Warehouses)
  <2>1. PICK f, g, P, W : /\ f = [v \in Warehouses |-> delta[v][i]] /\ W = Warehouses
                          /\ g = [w \in Warehouses |-> Landed(found, delta)[w][i]]
                          /\ P = [w \in Warehouses |-> from(w, i)]
    OBVIOUS
  <2>2. \A v \in W : found[v][i] \in W
    BY <2>1 DEF Found
  <2>3. \A w \in W : P[w] = {v \in W : found[v][i] = w}
    BY <2>1
  <2>4. \A w \in W : IsFiniteSet(P[w])
    BY <1>2, <2>1
  <2>5. \A r, q \in W : r # q => P[r] \cap P[q] = {}
    BY <2>3
  <2>6. \A x : x \in W <=> \E r \in W : x \in P[r]
    BY <2>2, <2>3
  <2>7. IsFiniteSet(W)
    BY <1>1, <2>1
  <2>8. Partition(P, W, W)
    BY <2>4, <2>5, <2>6, <2>7 DEF Partition
  <2>9. (\A x \in W : f[x] \in Int) /\ \A r \in W : g[r] = SumFunctionOnSet(f, P[r])
    BY <1>2, <2>1 DEF Deltas
  <2>10. SumFunctionOnSet(g, W) = SumFunctionOnSet(f, W)
    BY ONLY <2>8, <2>9, SumByParts
  <2> QED
    BY <2>1, <2>10
<1> QED
  BY <1>3, <1>4

\* What a document moved on a day grows by delta, in all warehouses together.
LEMMA PostingPlaces ==
  ASSUME NEW m \in Histories, NEW t \in Days, NEW delta \in Deltas, NEW u \in Days, NEW i \in Products
  PROVE  SumFunctionOnSet([w \in Warehouses |-> Posting(m, t, delta)[u][w][i]], Warehouses)
           = SumFunctionOnSet([w \in Warehouses |-> m[u][w][i]], Warehouses)
             + If(u = t, SumFunctionOnSet([w \in Warehouses |-> delta[w][i]], Warehouses))
<1>1. PICK f, g, h, W : /\ W = Warehouses
                        /\ f = [w \in Warehouses |-> Posting(m, t, delta)[u][w][i]]
                        /\ g = [w \in Warehouses |-> m[u][w][i]]
                        /\ h = [w \in Warehouses |-> If(u = t, delta[w][i])]
  OBVIOUS
<1>2. IsFiniteSet(W)
  BY <1>1, MovementsAssumption
<1>3. \A w \in Warehouses : m[u][w][i] \in Int /\ delta[w][i] \in Int
  BY DEF Histories, Deltas
<1>4. \A w \in W : g[w] \in Int /\ h[w] \in Int /\ f[w] = g[w] + h[w]
  <2>1. \A w \in Warehouses : Posting(m, t, delta)[u][w][i] = m[u][w][i] + If(u = t, delta[w][i])
    BY PostingAdds
  <2>2. \A w \in Warehouses : If(u = t, delta[w][i]) \in Int
    BY <1>3 DEF If
  <2> QED
    BY <1>1, <1>3, <2>1, <2>2
<1>5. SumFunctionOnSet(f, W) = SumFunctionOnSet(g, W) + SumFunctionOnSet(h, W)
  BY <1>2, <1>4, SumPlus
<1>6. SumFunctionOnSet(h, W) = If(u = t, SumFunctionOnSet([w \in Warehouses |-> delta[w][i]], Warehouses))
  <2>1. CASE u = t
    <3>1. h = [w \in Warehouses |-> delta[w][i]]
      BY <1>1, <2>1 DEF If
    <3> QED
      BY <1>1, <2>1, <3>1 DEF If
  <2>2. CASE u # t
    <3>1. \A w \in W : h[w] = 0
      BY <1>1, <2>2 DEF If
    <3>2. SumFunctionOnSet(h, W) = 0
      BY <1>2, <3>1, SumZero
    <3> QED
      BY <2>2, <3>2 DEF If
  <2> QED
    BY <2>1, <2>2
<1> QED
  BY <1>1, <1>5, <1>6

LEMMA SameStays ==
  ASSUME NEW m \in Histories, NEW l \in Histories, SameUnits(m, l), NEW t \in Days,
         NEW delta \in Deltas, NEW found \in Found
  PROVE  /\ Posting(l, t, Landed(found, delta)) \in Histories
         /\ SameUnits(Posting(m, t, delta), Posting(l, t, Landed(found, delta)))
<1>1. PICK real : real = Landed(found, delta)
  OBVIOUS
<1>2. real \in Deltas
  BY <1>1, LandedIs
<1>3. \A i \in Products : SumFunctionOnSet([w \in Warehouses |-> real[w][i]], Warehouses)
                            = SumFunctionOnSet([w \in Warehouses |-> delta[w][i]], Warehouses)
  BY <1>1, LandedIs
<1>4. ASSUME NEW u \in Days, NEW i \in Products
      PROVE  SumFunctionOnSet([w \in Warehouses |-> Posting(l, t, real)[u][w][i]], Warehouses)
               = SumFunctionOnSet([w \in Warehouses |-> Posting(m, t, delta)[u][w][i]], Warehouses)
  <2>1. SumFunctionOnSet([w \in Warehouses |-> Posting(l, t, real)[u][w][i]], Warehouses)
          = SumFunctionOnSet([w \in Warehouses |-> l[u][w][i]], Warehouses)
            + If(u = t, SumFunctionOnSet([w \in Warehouses |-> real[w][i]], Warehouses))
    BY <1>2, PostingPlaces
  <2>2. SumFunctionOnSet([w \in Warehouses |-> Posting(m, t, delta)[u][w][i]], Warehouses)
          = SumFunctionOnSet([w \in Warehouses |-> m[u][w][i]], Warehouses)
            + If(u = t, SumFunctionOnSet([w \in Warehouses |-> delta[w][i]], Warehouses))
    BY PostingPlaces
  <2>3. SumFunctionOnSet([w \in Warehouses |-> l[u][w][i]], Warehouses)
          = SumFunctionOnSet([w \in Warehouses |-> m[u][w][i]], Warehouses)
    BY DEF SameUnits
  <2> QED
    BY <1>3, <2>1, <2>2, <2>3
<1>5. Posting(l, t, real) \in Histories
  BY <1>2, PostingAdds
<1> QED
  BY <1>1, <1>4, <1>5 DEF SameUnits

LEMMA CommitInv ==
  ASSUME MovementsInv, NEW d \in Docs, NEW r \in DocTypes, NEW delta \in Deltas,
         NEW t \in 1 .. MaxDay, Commit(d, r, delta, t),
         RowOk(kind[d], r, Posting(moved[d], t, delta), d \in resent)
  PROVE  MovementsInv'
<1>1. /\ MovementsTypeOK
      /\ \A e \in Docs : RowOk(kind[e], doc[e], moved[e], e \in resent) /\ SameUnits(moved[e], landed[e])
  BY DEF MovementsInv
<1>2. moved \in [Docs -> Histories] /\ landed \in [Docs -> Histories] /\ t \in Days
  BY <1>1, DaysAre DEF MovementsTypeOK, Histories, Deltas
<1>3. PICK found \in Found :
         /\ doc' = [doc EXCEPT ![d] = r]
         /\ moved' = [moved EXCEPT ![d] = Posting(moved[d], t, delta)]
         /\ landed' = [landed EXCEPT ![d] = Posting(landed[d], t, Landed(found, delta))]
         /\ UNCHANGED <<kind, day, settled, resent>>
  BY <1>2 DEF Commit, Posting, Histories
<1>4. /\ Posting(moved[d], t, delta) \in Histories
      /\ Posting(landed[d], t, Landed(found, delta)) \in Histories
      /\ SameUnits(Posting(moved[d], t, delta), Posting(landed[d], t, Landed(found, delta)))
  <2>1. PICK m, l : m = moved[d] /\ l = landed[d]
    OBVIOUS
  <2>2. m \in Histories /\ l \in Histories /\ SameUnits(m, l)
    BY <1>1, <1>2, <2>1
  <2>3. Posting(m, t, delta) \in Histories
    BY <1>2, <2>2, PostingAdds
  <2>4. /\ Posting(l, t, Landed(found, delta)) \in Histories
        /\ SameUnits(Posting(m, t, delta), Posting(l, t, Landed(found, delta)))
    BY <1>2, <2>2, SameStays
  <2> QED
    BY <2>1, <2>3, <2>4
<1>5. moved' \in [Docs -> Histories] /\ landed' \in [Docs -> Histories]
  BY <1>2, <1>3, <1>4
<1>6. MovementsTypeOK'
  BY <1>1, <1>3, <1>5 DEF MovementsTypeOK, Histories, Deltas
<1>7. ASSUME NEW e \in Docs
      PROVE  /\ RowOk(kind'[e], doc'[e], moved'[e], e \in resent')
             /\ SameUnits(moved'[e], landed'[e])
  <2>1. CASE e = d
    <3>1. /\ doc'[e] = r /\ moved'[e] = Posting(moved[d], t, delta)
          /\ landed'[e] = Posting(landed[d], t, Landed(found, delta))
      BY <1>1, <1>2, <1>3, <2>1 DEF MovementsTypeOK
    <3> QED
      BY <1>3, <1>4, <2>1, <3>1
  <2>2. CASE e # d
    <3>1. doc'[e] = doc[e] /\ moved'[e] = moved[e] /\ landed'[e] = landed[e]
      BY <1>1, <1>2, <1>3, <2>2 DEF MovementsTypeOK
    <3> QED
      BY <1>1, <1>3, <3>1
  <2> QED
    BY <2>1, <2>2
<1>8. \A e \in Docs : SameUnits(moved[e], landed[e])'
  BY <1>7 DEF SameUnits
<1> QED
  BY <1>6, <1>7, <1>8 DEF MovementsInv

----------------------------------------------------------------------------
(* The movements report: what the row of a document says after each commit. *)

Lines == [Products -> Int]

LEMMA AtIs ==
  ASSUME NEW w \in Warehouses, NEW l \in Lines
  PROVE  /\ At(w, l) \in Deltas
         /\ \A v \in Warehouses, i \in Products : At(w, l)[v][i] = If(v = w, l[i])
BY DEF At, Nowhere, NoLines, Deltas, Lines, If

LEMMA NowhereIs ==
  Nowhere \in Deltas /\ \A v \in Warehouses, i \in Products : Nowhere[v][i] = 0
BY DEF Nowhere, NoLines, Deltas

LEMMA MinusIs ==
  ASSUME NEW l \in Lines
  PROVE  Minus(l) \in Lines /\ \A i \in Products : Minus(l)[i] = -l[i]
BY DEF Minus, Lines

LEMMA IfIs ==
  ASSUME NEW n \in Int
  PROVE  If(TRUE, n) = n /\ If(FALSE, n) = 0 /\ \A b \in BOOLEAN : If(b, n) \in Int
BY DEF If

LEMMA NoDocIs ==
  /\ NoDoc \in DocTypes /\ NoDoc.status = "none" /\ NoDoc.src = Null /\ NoDoc.dst = Null
  /\ NoDoc.home = Null /\ NoDoc.date = Null /\ NoDoc.created = Null /\ NoDoc.confirmed = Null
  /\ NoDoc.cancelled = Null /\ NoDoc.done = Null /\ NoDoc.updated = Null
  /\ NoDoc.quoted = FALSE /\ NoDoc.applied = FALSE /\ NoDoc.lines = NoLines
BY DEF NoDoc, DocTypes, NoLines, Places, Dates

LEMMA SavedIs ==
  ASSUME NEW w \in Places, NEW l \in Lines, NEW t \in Days
  PROVE  LET r == Saved(w, l, t) IN
         /\ r \in DocTypes /\ r.status = "ACTIVE" /\ r.src = w /\ r.lines = l /\ r.created = t
         /\ r.dst = Null /\ r.home = Null /\ r.date = Null /\ r.confirmed = Null
         /\ r.cancelled = Null /\ r.done = Null /\ r.updated = Null
         /\ r.quoted = FALSE /\ r.applied = FALSE
BY DEF Saved, NoDoc, DocTypes, Places, Dates, Lines, NoLines

LEMMA RowTyped ==
  ASSUME NEW r \in DocTypes
  PROVE  /\ r.lines \in Lines /\ r.src \in Places /\ r.dst \in Places /\ r.home \in Places
         /\ r.created \in Dates /\ r.confirmed \in Dates /\ r.cancelled \in Dates
         /\ r.done \in Dates /\ r.updated \in Dates /\ r.date \in Dates
         /\ \A i \in Products : r.lines[i] \in Int
BY DEF DocTypes, Lines

LEMMA NullIs == Null \notin Days /\ Null \notin Warehouses
BY MovementsAssumption

\* The row r2 says what r said and the delta moved at t.
LEMMA RowStep ==
  ASSUME NEW k \in Kinds \ Manual, NEW r, NEW r2, NEW m \in Histories, NEW again \in BOOLEAN,
         RowOk(k, r, m, again), NEW t \in Days, NEW delta \in Deltas, DatesOk(k, r2),
         k = "transfer" => TransferOk(r2, Posting(m, t, delta)),
         again \/ \A u \in Days, w \in Warehouses, i \in Products :
                     Effect(k, r, u, w, i) + If(u = t, delta[w][i]) = Effect(k, r2, u, w, i)
  PROVE  RowOk(k, r2, Posting(m, t, delta), again)
<1>1. ASSUME ~again, NEW u \in Days, NEW w \in Warehouses, NEW i \in Products
      PROVE  Posting(m, t, delta)[u][w][i] = Effect(k, r2, u, w, i)
  <2>1. m[u][w][i] = Effect(k, r, u, w, i)
    BY <1>1 DEF RowOk
  <2>2. Posting(m, t, delta)[u][w][i] = m[u][w][i] + If(u = t, delta[w][i])
    BY PostingAdds
  <2> QED
    BY <1>1, <2>1, <2>2
<1> QED
  BY <1>1 DEF RowOk

\* The same for a step that moves nothing, of documents that moved nothing yet.
LEMMA StillStep ==
  ASSUME NEW k \in Kinds \ (Manual \cup {"transfer"}), NEW r, NEW r2, NEW m \in Histories,
         NEW again \in BOOLEAN, RowOk(k, r, m, again), NEW t \in Days, DatesOk(k, r2),
         ~Posted(k, r), ~Posted(k, r2)
  PROVE  RowOk(k, r2, Posting(m, t, Nowhere), again)
<1>1. \A u \in Days, w \in Warehouses, i \in Products :
         Effect(k, r, u, w, i) + If(u = t, Nowhere[w][i]) = Effect(k, r2, u, w, i)
  BY NowhereIs DEF Effect, Own, If
<1> QED
  BY <1>1, NowhereIs, RowStep

\* The lines of a document of kind k as they change the stock, and as they change it back.
Signed(k, l) == IF k \in {"sale", "outflow"} THEN Minus(l) ELSE l
Unsigned(k, l) == IF k \in {"sale", "outflow"} THEN l ELSE Minus(l)

LEMMA SignedIs ==
  ASSUME NEW k, NEW l \in Lines
  PROVE  /\ Signed(k, l) \in Lines /\ Unsigned(k, l) \in Lines
         /\ \A i \in Products :
               /\ l[i] \in Int
               /\ Signed(k, l)[i] = IF k \in {"sale", "outflow"} THEN -l[i] ELSE l[i]
               /\ Unsigned(k, l)[i] = IF k \in {"sale", "outflow"} THEN l[i] ELSE -l[i]
BY MinusIs DEF Signed, Unsigned, Lines

\* A commit that takes the units of its lines out or in.
LEMMA FirstStep ==
  ASSUME NEW k \in {"sale", "purchase", "outflow", "take"}, NEW r, NEW r2 \in DocTypes, NEW m \in Histories,
         NEW again \in BOOLEAN, RowOk(k, r, m, again), NEW t \in Days, DatesOk(k, r2),
         ~Posted(k, r), Posted(k, r2), PostedAt(k, r2) = t, r2.cancelled = Null
  PROVE  /\ At(r2.src, Signed(k, r2.lines)) \in Deltas
         /\ RowOk(k, r2, Posting(m, t, At(r2.src, Signed(k, r2.lines))), again)
<1> DEFINE l == Signed(k, r2.lines)
<1>0. r2.src \in Warehouses /\ l \in Lines /\ k \in Kinds \ Manual /\ k # "transfer"
  BY RowTyped, SignedIs DEF DatesOk, Posted, Kinds, Manual
<1>1. ASSUME NEW u \in Days, NEW w \in Warehouses, NEW i \in Products
      PROVE  Effect(k, r, u, w, i) + If(u = t, At(r2.src, l)[w][i]) = Effect(k, r2, u, w, i)
  <2>1. Effect(k, r, u, w, i) = 0
    BY DEF Effect
  <2>2. At(r2.src, l)[w][i] = If(w = r2.src, l[i])
    BY <1>0, AtIs
  <2>3. r2.lines[i] \in Int /\ l[i] = IF k \in {"sale", "outflow"} THEN -r2.lines[i] ELSE r2.lines[i]
    BY RowTyped, SignedIs
  <2>4. u # r2.cancelled
    BY NullIs
  <2> HIDE DEF l
  <2> QED
    BY <1>0, <2>1, <2>2, <2>3, <2>4 DEF Effect, Own, If
<1> QED
  BY <1>0, <1>1, AtIs, RowStep

\* A commit that gives them back.
LEMMA BackStep ==
  ASSUME NEW k \in {"sale", "purchase", "outflow"}, NEW r \in DocTypes, NEW r2 \in DocTypes,
         NEW m \in Histories, NEW again \in BOOLEAN, RowOk(k, r, m, again), NEW t \in Days,
         DatesOk(k, r2), Posted(k, r), Posted(k, r2), PostedAt(k, r2) = PostedAt(k, r),
         r.cancelled = Null, r2.cancelled = t, r2.src = r.src, r2.lines = r.lines
  PROVE  /\ At(r.src, Unsigned(k, r.lines)) \in Deltas
         /\ RowOk(k, r2, Posting(m, t, At(r.src, Unsigned(k, r.lines))), again)
<1> DEFINE l == Unsigned(k, r.lines)
<1>0. r.src \in Warehouses /\ l \in Lines /\ k \in Kinds \ Manual /\ k # "transfer"
  BY RowTyped, SignedIs DEF DatesOk, Posted, RowOk, Kinds, Manual
<1>1. ASSUME NEW u \in Days, NEW w \in Warehouses, NEW i \in Products
      PROVE  Effect(k, r, u, w, i) + If(u = t, At(r.src, l)[w][i]) = Effect(k, r2, u, w, i)
  <2>2. At(r.src, l)[w][i] = If(w = r.src, l[i])
    BY <1>0, AtIs
  <2>3. r.lines[i] \in Int /\ l[i] = IF k \in {"sale", "outflow"} THEN r.lines[i] ELSE -r.lines[i]
    BY RowTyped, SignedIs
  <2>4. u # r.cancelled
    BY NullIs
  <2> HIDE DEF l
  <2> QED
    BY <1>0, <2>2, <2>3, <2>4 DEF Effect, Own, If
<1> QED
  BY <1>0, <1>1, AtIs, RowStep

----------------------------------------------------------------------------
(* The movements report: every action keeps the books.                     *)

LEMMA RowFacts ==
  ASSUME MovementsInv, NEW d \in Docs
  PROVE  /\ kind[d] \in Kinds /\ doc[d] \in DocTypes /\ moved[d] \in Histories
         /\ RowOk(kind[d], doc[d], moved[d], d \in resent) /\ DatesOk(kind[d], doc[d])
         /\ d \in resent => kind[d] = "transfer"
BY DEF MovementsInv, MovementsTypeOK, Histories, Deltas, RowOk

LEMMA StampsAre ==
  ASSUME MovementsInv
  PROVE  Stamps \subseteq 1 .. MaxDay /\ Stamps \subseteq Days /\ 1 .. MaxDay \subseteq Days
<1>1. day \in 0 .. MaxDay /\ settled \in Nat /\ MaxDay \in Nat
  BY MovementsAssumption DEF MovementsInv, MovementsTypeOK, Days
<1> QED
  BY <1>1, DaysAre DEF Stamps

LEMMA PayloadsAre ==
  \A l : l \in Payloads \/ l \in Diffs => l \in Lines
BY MovementsAssumption DEF Lines

\* A row that changes at t has moved stock at t at the earliest, and what it had
\* moved before it still says.
Turn(k, r, r2, t) ==
    \/ ~Posted(k, r) /\ (Posted(k, r2) => PostedAt(k, r2) = t /\ r2.cancelled = Null)
    \/ /\ Posted(k, r) /\ Posted(k, r2) /\ PostedAt(k, r2) = PostedAt(k, r)
       /\ k \in {"sale", "purchase", "outflow"} /\ r.cancelled = Null /\ r2.cancelled = t
       /\ r2.src = r.src /\ r2.lines = r.lines

\* A step that does so, of all but the documents the report cannot date.
Steady ==
    /\ kind' = kind
    /\ \A e \in Docs \ Undated' :
          doc'[e] = doc[e] \/ \E t \in Stamps : Turn(kind[e], doc[e], doc'[e], t)

LEMMA CommitTurn ==
  ASSUME MovementsInv, NEW d \in Docs, NEW r2 \in DocTypes, NEW t, NEW delta, Commit(d, r2, delta, t),
         kind[d] \in Manual \/ (t \in Stamps /\ Turn(kind[d], doc[d], r2, t))
  PROVE  Steady
<1>1. doc \in [Docs -> DocTypes] /\ kind' = kind /\ doc' = [doc EXCEPT ![d] = r2]
  BY DEF MovementsInv, MovementsTypeOK, Commit
<1>2. ASSUME NEW e \in Docs \ Undated'
      PROVE  doc'[e] = doc[e] \/ \E u \in Stamps : Turn(kind[e], doc[e], doc'[e], u)
  <2>1. kind[e] \notin Manual
    BY <1>1 DEF Undated
  <2> QED
    BY <1>1, <2>1
<1> QED
  BY <1>1, <1>2 DEF Steady

\* A new document, or one taken up, whose row becomes r2.
LEMMA StillInv ==
  ASSUME MovementsInv, NEW d \in Docs, NEW r2 \in DocTypes, NEW t \in Stamps,
         kind[d] \notin Manual \cup {"transfer"}, DatesOk(kind[d], r2),
         ~Posted(kind[d], doc[d]), ~Posted(kind[d], r2), Commit(d, r2, Nowhere, t)
  PROVE  MovementsInv' /\ Steady
<1>1. PICK k, r, m, again : k = kind[d] /\ r = doc[d] /\ m = moved[d] /\ again = (d \in resent)
  OBVIOUS
<1>2. k \in Kinds \ (Manual \cup {"transfer"}) /\ m \in Histories /\ again \in BOOLEAN /\ RowOk(k, r, m, again)
  BY <1>1, RowFacts
<1>3. t \in Days /\ t \in 1 .. MaxDay
  BY StampsAre
<1>4. RowOk(k, r2, Posting(m, t, Nowhere), again)
  BY <1>1, <1>2, <1>3, StillStep
<1>5. MovementsInv'
  BY <1>1, <1>3, <1>4, NowhereIs, CommitInv
<1> QED
  BY <1>5, CommitTurn DEF Turn

LEMMA FirstInv ==
  ASSUME MovementsInv, NEW d \in Docs, NEW r2 \in DocTypes, NEW t \in Stamps,
         kind[d] \in {"sale", "purchase", "outflow", "take"}, DatesOk(kind[d], r2),
         ~Posted(kind[d], doc[d]), Posted(kind[d], r2), PostedAt(kind[d], r2) = t,
         r2.cancelled = Null, Commit(d, r2, At(r2.src, Signed(kind[d], r2.lines)), t)
  PROVE  MovementsInv' /\ Steady
<1>1. PICK k, r, m, again : k = kind[d] /\ r = doc[d] /\ m = moved[d] /\ again = (d \in resent)
  OBVIOUS
<1>2. m \in Histories /\ again \in BOOLEAN /\ RowOk(k, r, m, again)
  BY <1>1, RowFacts
<1>3. t \in Days /\ t \in 1 .. MaxDay
  BY StampsAre
<1>0. PICK delta : delta = At(r2.src, Signed(kind[d], r2.lines))
  OBVIOUS
<1>4. delta \in Deltas /\ RowOk(k, r2, Posting(m, t, delta), again)
  BY <1>0, <1>1, <1>2, <1>3, FirstStep
<1>5. MovementsInv'
  BY <1>0, <1>1, <1>3, <1>4, CommitInv
<1> QED
  BY <1>5, CommitTurn DEF Turn

LEMMA BackInv ==
  ASSUME MovementsInv, NEW d \in Docs, NEW t \in Stamps,
         kind[d] \in {"sale", "purchase", "outflow"}, doc[d].status = "ACTIVE",
         Commit(d, Cancelled(d, t), At(doc[d].src, Unsigned(kind[d], doc[d].lines)), t)
  PROVE  MovementsInv' /\ Steady
<1>1. PICK k, r, m, again : k = kind[d] /\ r = doc[d] /\ m = moved[d] /\ again = (d \in resent)
  OBVIOUS
<1>2. m \in Histories /\ again \in BOOLEAN /\ RowOk(k, r, m, again) /\ r \in DocTypes /\ DatesOk(k, r)
  BY <1>1, RowFacts
<1>3. t \in Days /\ t \in 1 .. MaxDay /\ t # Null
  BY StampsAre, NullIs
<1>4. PICK r2 : r2 = [r EXCEPT !.status = "CANCELLED", !.cancelled = t]
  OBVIOUS
<1>5. /\ r2 \in DocTypes /\ r2.status = "CANCELLED" /\ r2.cancelled = t /\ r2.src = r.src
      /\ r2.lines = r.lines /\ r2.confirmed = r.confirmed /\ r2.created = r.created
      /\ r2.quoted = r.quoted
  BY <1>2, <1>3, <1>4 DEF DocTypes, Dates
<1>6. Posted(k, r) /\ r.cancelled = Null
  BY <1>1, <1>2 DEF Posted, DatesOk
<1>7. Posted(k, r2) /\ PostedAt(k, r2) = PostedAt(k, r) /\ DatesOk(k, r2)
  BY <1>1, <1>2, <1>5, <1>6 DEF Posted, PostedAt, SavedAt, DatesOk, Manual
<1>9. PICK delta : delta = At(r.src, Unsigned(k, r.lines))
  OBVIOUS
<1>8. delta \in Deltas /\ RowOk(k, r2, Posting(m, t, delta), again)
  <2>1. k \in {"sale", "purchase", "outflow"}
    BY <1>1
  <2>2. /\ At(r.src, Unsigned(k, r.lines)) \in Deltas
        /\ RowOk(k, r2, Posting(m, t, At(r.src, Unsigned(k, r.lines))), again)
    BY <1>2, <1>3, <1>5, <1>6, <1>7, <2>1, BackStep
  <2> QED
    BY <1>9, <2>2
<1>10. Commit(d, r2, delta, t)
  BY <1>1, <1>4, <1>9 DEF Cancelled
<1>11. MovementsInv'
  BY <1>1, <1>3, <1>5, <1>8, <1>9, <1>10, CommitInv
<1>12. Turn(kind[d], doc[d], r2, t)
  BY <1>1, <1>5, <1>6, <1>7 DEF Turn
<1> QED
  BY <1>5, <1>10, <1>11, <1>12, CommitTurn

LEMMA SaleInv ==
  ASSUME MovementsInv, NEW d \in Docs, NEW t \in Stamps, NEW w \in Places, NEW l \in Lines,
         \/ w \in Warehouses /\ (Quote(d, w, l, t) \/ EditSale(d, w, l, t) \/ CreateSale(d, w, l, t))
         \/ ConfirmSale(d, t) \/ CancelSale(d, t)
  PROVE  MovementsInv' /\ Steady
<1>1. PICK r : r = doc[d] /\ r \in DocTypes
  BY RowFacts
<1>2. t \in Days /\ t # Null /\ DatesOk(kind[d], r)
  BY <1>1, StampsAre, NullIs, RowFacts
<1>3. PICK s : s = Saved(w, l, t)
  OBVIOUS
<1>4. /\ s \in DocTypes /\ s.status = "ACTIVE" /\ s.src = w /\ s.lines = l /\ s.created = t
      /\ s.confirmed = Null /\ s.cancelled = Null
  BY <1>2, <1>3, SavedIs
<1>5. CASE w \in Warehouses /\ Quote(d, w, l, t)
  <2>1. PICK r2 : r2 = [s EXCEPT !.status = "DRAFT", !.quoted = TRUE]
    OBVIOUS
  <2>2. /\ r2 \in DocTypes /\ r2.status = "DRAFT" /\ r2.quoted /\ r2.confirmed = Null
        /\ r2.cancelled = Null /\ r2.src = w
    BY <1>4, <2>1 DEF DocTypes
  <2>3. Commit(d, r2, Nowhere, t) /\ kind[d] = "sale" /\ doc[d].status = "none"
    BY <1>3, <1>5, <2>1 DEF Quote, New
  <2>4. DatesOk("sale", r2) /\ ~Posted("sale", r2) /\ ~Posted("sale", doc[d])
    BY <1>5, <2>2, <2>3 DEF DatesOk, Posted, Manual
  <2> QED
    BY <2>2, <2>3, <2>4, StillInv DEF Manual
<1>6. CASE w \in Warehouses /\ EditSale(d, w, l, t)
  <2>1. PICK r2 : r2 = [r EXCEPT !.src = w, !.lines = l]
    OBVIOUS
  <2>2. Commit(d, r2, Nowhere, t) /\ kind[d] = "sale" /\ r.status = "DRAFT"
    BY <1>1, <1>6, <2>1 DEF EditSale
  <2>3. /\ r2 \in DocTypes /\ r2.status = "DRAFT" /\ r2.quoted = r.quoted
        /\ r2.confirmed = r.confirmed /\ r2.cancelled = r.cancelled /\ r2.src = w
    BY <1>1, <1>2, <2>1, <2>2 DEF DocTypes, Lines
  <2>4. DatesOk("sale", r2) /\ ~Posted("sale", r2) /\ ~Posted("sale", r)
    BY <1>6, <1>2, <2>2, <2>3 DEF DatesOk, Posted, Manual
  <2> QED
    BY <1>1, <2>2, <2>3, <2>4, StillInv DEF Manual
<1>7. CASE w \in Warehouses /\ CreateSale(d, w, l, t)
  <2>1. PICK r2 : r2 = [s EXCEPT !.confirmed = t]
    OBVIOUS
  <2>2. /\ r2 \in DocTypes /\ r2.status = "ACTIVE" /\ r2.confirmed = t /\ r2.src = w /\ r2.lines = l
        /\ r2.cancelled = Null
    BY <1>2, <1>4, <2>1 DEF DocTypes, Dates
  <2>3. /\ Commit(d, r2, At(r2.src, Signed("sale", r2.lines)), t)
        /\ kind[d] = "sale" /\ doc[d].status = "none"
    BY <1>3, <1>7, <2>1, <2>2 DEF CreateSale, New, Signed
  <2>4. /\ DatesOk("sale", r2) /\ Posted("sale", r2) /\ ~Posted("sale", doc[d])
        /\ PostedAt("sale", r2) = t
    BY <1>7, <1>2, <2>2, <2>3 DEF DatesOk, Posted, PostedAt, SavedAt, Manual
  <2> QED
    BY <2>2, <2>3, <2>4, FirstInv
<1>8. CASE ConfirmSale(d, t)
  <2>1. PICK r2 : r2 = [r EXCEPT !.status = "ACTIVE", !.confirmed = t]
    OBVIOUS
  <2>2. /\ r2 \in DocTypes /\ r2.status = "ACTIVE" /\ r2.confirmed = t /\ r2.src = r.src
        /\ r2.lines = r.lines /\ r2.cancelled = r.cancelled
    BY <1>1, <1>2, <2>1 DEF DocTypes, Dates
  <2>3. /\ Commit(d, r2, At(r2.src, Signed("sale", r2.lines)), t)
        /\ kind[d] = "sale" /\ r.status = "DRAFT"
    BY <1>1, <1>8, <2>1, <2>2 DEF ConfirmSale, Signed
  <2>4. /\ DatesOk("sale", r2) /\ Posted("sale", r2) /\ ~Posted("sale", r) /\ r2.cancelled = Null
        /\ PostedAt("sale", r2) = t
    BY <1>2, <2>2, <2>3 DEF DatesOk, Posted, PostedAt, SavedAt, Manual
  <2> QED
    BY <1>1, <2>2, <2>3, <2>4, FirstInv
<1>9. CASE CancelSale(d, t)
  <2>0. kind[d] = "sale"
    BY <1>9 DEF CancelSale
  <2>1. CASE r.status = "DRAFT" /\ Commit(d, Cancelled(d, t), Nowhere, t)
    <3>1. PICK r2 : r2 = [r EXCEPT !.status = "CANCELLED", !.cancelled = t]
      OBVIOUS
    <3>2. /\ r2 \in DocTypes /\ r2.status = "CANCELLED" /\ r2.quoted = r.quoted
          /\ r2.confirmed = r.confirmed /\ r2.src = r.src
      BY <1>1, <1>2, <3>1 DEF DocTypes, Dates
    <3>3. Commit(d, r2, Nowhere, t)
      BY <1>1, <2>1, <3>1 DEF Cancelled
    <3>4. DatesOk("sale", r2) /\ ~Posted("sale", r2) /\ ~Posted("sale", r)
      BY <1>2, <2>0, <2>1, <3>2 DEF DatesOk, Posted, Manual
    <3> QED
      BY <1>1, <2>0, <3>2, <3>3, <3>4, StillInv DEF Manual
  <2>2. CASE r.status = "ACTIVE" /\ Commit(d, Cancelled(d, t), At(doc[d].src, doc[d].lines), t)
    BY <1>1, <2>0, <2>2, BackInv DEF Unsigned
  <2> QED
    BY <1>1, <1>9, <2>1, <2>2 DEF CancelSale
<1> QED
  BY <1>5, <1>6, <1>7, <1>8, <1>9

LEMMA StockedInv ==
  ASSUME MovementsInv, NEW d \in Docs, NEW t \in Stamps, NEW w \in Places, NEW l \in Lines,
         \/ w \in Warehouses /\ (CreatePurchase(d, w, l, t) \/ CreateOutflow(d, w, l, t))
         \/ CancelPurchase(d, t) \/ CancelOutflow(d, t)
  PROVE  MovementsInv' /\ Steady
<1>1. t \in Days /\ t # Null
  BY StampsAre, NullIs
<1>2. PICK k : k = kind[d]
  OBVIOUS
<1>3. CASE w \in Warehouses /\ (CreatePurchase(d, w, l, t) \/ CreateOutflow(d, w, l, t))
  <2>1. PICK r2 : r2 = Saved(w, l, t)
    OBVIOUS
  <2>2. /\ r2 \in DocTypes /\ r2.status = "ACTIVE" /\ r2.src = w /\ r2.lines = l /\ r2.created = t
        /\ r2.cancelled = Null
    BY <1>1, <2>1, SavedIs
  <2>3. /\ Commit(d, r2, At(r2.src, Signed(k, r2.lines)), t)
        /\ k \in {"purchase", "outflow"} /\ doc[d].status = "none"
    BY <1>2, <1>3, <2>1, <2>2 DEF CreatePurchase, CreateOutflow, New, Signed
  <2>4. DatesOk(k, r2) /\ Posted(k, r2) /\ ~Posted(k, doc[d]) /\ PostedAt(k, r2) = t
    BY <1>3, <1>1, <2>2, <2>3 DEF DatesOk, Posted, PostedAt, Manual
  <2> QED
    BY <1>2, <2>2, <2>3, <2>4, FirstInv
<1>4. CASE CancelPurchase(d, t) \/ CancelOutflow(d, t)
  BY <1>4, BackInv DEF CancelPurchase, CancelOutflow, Unsigned
<1> QED
  BY <1>3, <1>4

LEMMA TakeInv ==
  ASSUME MovementsInv, NEW d \in Docs, NEW t \in Stamps, NEW w \in Places, NEW l \in Lines,
         NEW apply \in BOOLEAN,
         (w \in Warehouses /\ StartTake(d, w, t)) \/ Count(d, l, t) \/ CompleteTake(d, apply, t)
  PROVE  MovementsInv' /\ Steady
<1>1. PICK r : r = doc[d] /\ r \in DocTypes
  BY RowFacts
<1>2. NoLines \in Lines /\ t \in Days /\ t # Null /\ DatesOk(kind[d], r)
  BY <1>1, StampsAre, NullIs, RowFacts DEF NoLines, Lines
<1>3. CASE w \in Warehouses /\ StartTake(d, w, t)
  <2>0. PICK s : s = Saved(w, NoLines, t)
    OBVIOUS
  <2>1. s \in DocTypes /\ s.cancelled = Null /\ s.src = w
    BY <1>2, <2>0, SavedIs
  <2>2. PICK r2 : r2 = [s EXCEPT !.status = "IN_PROGRESS", !.updated = t]
    OBVIOUS
  <2>3. r2 \in DocTypes /\ r2.status = "IN_PROGRESS" /\ r2.cancelled = Null /\ r2.src = w
    BY <1>2, <2>1, <2>2 DEF DocTypes, Dates
  <2>4. Commit(d, r2, Nowhere, t) /\ kind[d] = "take" /\ r.status = "none"
    BY <1>1, <1>3, <2>0, <2>2 DEF StartTake, New
  <2>5. DatesOk("take", r2) /\ ~Posted("take", r2) /\ ~Posted("take", r)
    BY <1>3, <2>3, <2>4 DEF DatesOk, Posted, Manual
  <2> QED
    BY <1>1, <2>3, <2>4, <2>5, StillInv DEF Manual
<1>4. CASE Count(d, l, t)
  <2>2. PICK r2 : r2 = [r EXCEPT !.lines = l, !.updated = t]
    OBVIOUS
  <2>4. Commit(d, r2, Nowhere, t) /\ kind[d] = "take" /\ r.status = "IN_PROGRESS"
    BY <1>1, <1>4, <2>2 DEF Count
  <2>3. /\ r2 \in DocTypes /\ r2.status = "IN_PROGRESS" /\ r2.cancelled = r.cancelled
        /\ r2.src = r.src
    BY <1>1, <1>2, <2>2, <2>4 DEF DocTypes, Dates, Lines
  <2>5. DatesOk("take", r2) /\ ~Posted("take", r2) /\ ~Posted("take", r)
    BY <1>2, <2>3, <2>4 DEF DatesOk, Posted, Manual
  <2> QED
    BY <1>1, <2>3, <2>4, <2>5, StillInv DEF Manual
<1>5. CASE CompleteTake(d, apply, t)
  <2>1. PICK r2 : r2 = [r EXCEPT !.status = "COMPLETED", !.applied = apply, !.done = t, !.updated = t]
    OBVIOUS
  <2>2. /\ r2 \in DocTypes /\ r2.status = "COMPLETED" /\ r2.applied = apply /\ r2.done = t
        /\ r2.cancelled = r.cancelled /\ r2.src = r.src /\ r2.lines = r.lines
    BY <1>1, <1>2, <2>1 DEF DocTypes, Dates
  <2>3. kind[d] = "take" /\ r.status = "IN_PROGRESS"
    BY <1>1, <1>5 DEF CompleteTake
  <2>4. ~Posted("take", r) /\ r2.cancelled = Null /\ (Posted("take", r2) <=> apply)
        /\ PostedAt("take", r2) = t
    BY <1>2, <2>2, <2>3 DEF DatesOk, Posted, PostedAt, DoneAt, Manual
  <2>5. CASE apply
    <3>1. Commit(d, r2, At(r2.src, Signed("take", r2.lines)), t)
      BY <1>1, <1>5, <2>1, <2>2, <2>5 DEF CompleteTake, Signed
    <3>2. DatesOk("take", r2)
      BY <1>2, <2>2, <2>3, <2>4 DEF DatesOk, Manual
    <3> QED
      BY <1>1, <2>2, <2>3, <2>4, <2>5, <3>1, <3>2, FirstInv
  <2>6. CASE ~apply
    <3>1. Commit(d, r2, Nowhere, t)
      BY <1>1, <1>5, <2>1, <2>6 DEF CompleteTake
    <3>2. DatesOk("take", r2)
      BY <1>2, <2>2, <2>3, <2>4, <2>6 DEF DatesOk, Manual
    <3> QED
      BY <1>1, <2>2, <2>3, <2>4, <2>6, <3>1, <3>2, StillInv DEF Manual
  <2> QED
    BY <2>5, <2>6
<1> QED
  BY <1>3, <1>4, <1>5

\* A transfer that moves delta at t.
LEMMA TransferInv ==
  ASSUME MovementsInv, NEW d \in Docs, NEW r2 \in DocTypes, NEW t \in Stamps, NEW delta \in Deltas,
         kind[d] = "transfer", DatesOk("transfer", r2), Commit(d, r2, delta, t),
         Turn("transfer", doc[d], r2, t),
         TransferOk(r2, Posting(moved[d], t, delta)),
         \A u \in Days, w \in Warehouses, i \in Products :
             Effect("transfer", doc[d], u, w, i) + If(u = t, delta[w][i])
                 = Effect("transfer", r2, u, w, i)
  PROVE  MovementsInv' /\ Steady
<1>1. PICK k, r, m, again : k = "transfer" /\ r = doc[d] /\ m = moved[d] /\ again = (d \in resent)
  OBVIOUS
<1>2. m \in Histories /\ again \in BOOLEAN /\ RowOk(k, r, m, again) /\ k \in Kinds \ Manual
  BY <1>1, RowFacts DEF Kinds, Manual
<1>3. t \in Days /\ t \in 1 .. MaxDay
  BY StampsAre
<1>4. /\ DatesOk(k, r2) /\ TransferOk(r2, Posting(m, t, delta))
      /\ \A u \in Days, w \in Warehouses, i \in Products :
            Effect(k, r, u, w, i) + If(u = t, delta[w][i]) = Effect(k, r2, u, w, i)
  BY <1>1
<1>5. RowOk(k, r2, Posting(m, t, delta), again)
  BY <1>2, <1>3, <1>4, RowStep
<1>6. MovementsInv'
  BY <1>1, <1>3, <1>5, CommitInv
<1> QED
  BY <1>6, CommitTurn

LEMMA AskTransferInv ==
  ASSUME MovementsInv, NEW d \in Docs, NEW t \in Stamps, NEW w \in Places, NEW v \in Places,
         NEW l \in Lines,
         \/ w \in Warehouses /\ v \in Warehouses /\ CreateTransfer(d, w, v, l, t)
         \/ AdvanceTransfer(d, t)
  PROVE  MovementsInv' /\ Steady
<1>1. PICK r, m : r = doc[d] /\ m = moved[d]
  OBVIOUS
<1>2. r \in DocTypes /\ t \in Days /\ m \in Histories
  BY <1>1, RowFacts, StampsAre
<1>3. kind[d] = "transfer"
  BY DEF CreateTransfer, AdvanceTransfer, New
<1>4. DatesOk("transfer", r) /\ TransferOk(r, m)
  BY <1>1, <1>3, RowFacts DEF RowOk
<1>5. PICK r2 : /\ r2 \in DocTypes /\ Commit(d, r2, Nowhere, t) /\ r2.status \in {"PENDING", "APPROVED", "SENT"}
                /\ r2.cancelled = Null
                /\ \/ /\ r.status = "none" /\ r2.src = w /\ r2.dst = v /\ w # v
                      /\ w \in Warehouses /\ v \in Warehouses
                   \/ r.status \in {"PENDING", "APPROVED"} /\ r2.src = r.src /\ r2.dst = r.dst
  <2>1. CASE w \in Warehouses /\ v \in Warehouses /\ CreateTransfer(d, w, v, l, t)
    <3>1. PICK s : s = Saved(w, l, t)
      OBVIOUS
    <3>2. s \in DocTypes /\ s.src = w /\ s.cancelled = Null
      BY <1>2, <3>1, SavedIs
    <3>3. PICK z : z = [s EXCEPT !.status = "PENDING", !.dst = v, !.updated = t]
      OBVIOUS
    <3>4. /\ z \in DocTypes /\ z.status = "PENDING" /\ z.src = w /\ z.dst = v /\ z.cancelled = Null
      BY <1>2, <3>2, <3>3 DEF DocTypes, Dates
    <3> QED
      BY <1>1, <2>1, <3>1, <3>3, <3>4 DEF CreateTransfer, New
  <2>2. CASE AdvanceTransfer(d, t)
    <3>0. PICK st : st = IF r.status = "PENDING" THEN "APPROVED" ELSE "SENT"
      OBVIOUS
    <3>5. st \in {"APPROVED", "SENT"}
      BY <3>0
    <3>1. PICK z : z = [r EXCEPT !.status = st, !.updated = t]
      OBVIOUS
    <3>2. /\ z \in DocTypes /\ z.status \in {"APPROVED", "SENT"} /\ z.src = r.src /\ z.dst = r.dst
          /\ z.cancelled = r.cancelled
      BY <1>2, <3>1, <3>5 DEF DocTypes, Dates
    <3>3. Commit(d, z, Nowhere, t) /\ r.status \in {"PENDING", "APPROVED"}
      BY <1>1, <2>2, <3>0, <3>1 DEF AdvanceTransfer
    <3>4. z.cancelled = Null
      BY <1>4, <3>2 DEF DatesOk
    <3> QED
      BY <3>2, <3>3, <3>4
  <2> QED
    BY <2>1, <2>2
<1>6. DatesOk("transfer", r2)
  BY <1>4, <1>5 DEF DatesOk, Posted, TransferOk
<1>7. \A u \in Days, x \in Warehouses, i \in Products :
         Posting(m, t, Nowhere)[u][x][i] = m[u][x][i] /\ m[u][x][i] \in Int
  <2>1. PICK delta : delta = Nowhere
    OBVIOUS
  <2>2. delta \in Deltas /\ \A x \in Warehouses, i \in Products : delta[x][i] = 0
    BY <2>1, NowhereIs
  <2>3. \A u \in Days, x \in Warehouses, i \in Products :
           /\ m[u][x][i] \in Int
           /\ Posting(m, t, delta)[u][x][i] = m[u][x][i] + If(u = t, delta[x][i])
    <3>1. \A u \in Days, x \in Warehouses, i \in Products : m[u][x][i] \in Int
      BY <1>2 DEF Histories, Deltas
    <3> QED
      BY <1>2, <2>2, <3>1, PostingAdds
  <2> QED
    BY <2>1, <2>2, <2>3 DEF If
<1>8. TransferOk(r2, Posting(m, t, Nowhere))
  <2>1. CASE r.status = "none"
    <3>1. \A u \in Days, x \in Warehouses, i \in Products : m[u][x][i] = 0
      BY <1>4, <2>1, NullIs DEF TransferOk
    <3> QED
      BY <1>5, <1>7, <2>1, <3>1 DEF TransferOk
  <2>2. CASE r.status \in {"PENDING", "APPROVED"}
    BY <1>4, <1>5, <1>7, <2>2 DEF TransferOk
  <2> QED
    BY <1>5, <2>1, <2>2
<1>9. \A u \in Days, x \in Warehouses, i \in Products :
         Effect("transfer", r, u, x, i) + If(u = t, Nowhere[x][i]) = Effect("transfer", r2, u, x, i)
  BY <1>5, NowhereIs DEF Effect, Posted, If
<1>10. Turn("transfer", doc[d], r2, t)
  BY <1>1, <1>5 DEF Turn, Posted
<1> QED
  BY <1>1, <1>3, <1>5, <1>6, <1>8, <1>9, <1>10, NowhereIs, TransferInv

LEMMA ReceiveInv ==
  ASSUME MovementsInv, NEW d \in Docs, NEW t \in Stamps, ReceiveTransfer(d, t)
  PROVE  MovementsInv' /\ Steady
<1>1. PICK r, m, delta : /\ r = doc[d] /\ m = moved[d]
                         /\ delta = [At(r.src, Minus(r.lines)) EXCEPT ![r.dst] = r.lines]
  OBVIOUS
<1>2. r \in DocTypes /\ t \in Days /\ m \in Histories /\ t # Null
  BY <1>1, RowFacts, StampsAre, NullIs
<1>3. kind[d] = "transfer" /\ r.status = "SENT"
  BY <1>1 DEF ReceiveTransfer
<1>4. DatesOk("transfer", r) /\ TransferOk(r, m)
  BY <1>1, <1>3, RowFacts DEF RowOk
<1>5. r.src \in Warehouses /\ r.dst \in Warehouses /\ r.src # r.dst /\ r.lines \in Lines
  BY <1>2, <1>3, <1>4, RowTyped DEF TransferOk
<1>6. PICK r2 : r2 = [r EXCEPT !.status = "COMPLETED", !.done = t, !.updated = t]
  OBVIOUS
<1>7. /\ r2 \in DocTypes /\ r2.status = "COMPLETED" /\ r2.done = t /\ r2.src = r.src
      /\ r2.dst = r.dst /\ r2.lines = r.lines /\ r2.cancelled = r.cancelled
  BY <1>2, <1>6 DEF DocTypes, Dates
<1>8. Commit(d, r2, delta, t)
  BY <1>1, <1>6 DEF ReceiveTransfer
<1>9. /\ delta \in Deltas
      /\ \A w \in Warehouses, i \in Products :
            delta[w][i] = If(w = r.dst, r.lines[i]) - If(w = r.src, r.lines[i])
  <2>1. PICK a : a = At(r.src, Minus(r.lines))
    OBVIOUS
  <2>2. a \in Deltas /\ \A w \in Warehouses, i \in Products : a[w][i] = If(w = r.src, -r.lines[i])
    BY <1>5, <2>1, AtIs, MinusIs
  <2>3. delta = [a EXCEPT ![r.dst] = r.lines]
    BY <1>1, <2>1
  <2>4. delta \in Deltas
    BY <1>5, <2>2, <2>3 DEF Deltas, Lines
  <2>5. ASSUME NEW w \in Warehouses, NEW i \in Products
        PROVE  delta[w][i] = If(w = r.dst, r.lines[i]) - If(w = r.src, r.lines[i])
    <3>1. r.lines[i] \in Int
      BY <1>5 DEF Lines
    <3>2. CASE w = r.dst
      BY <1>5, <2>2, <2>3, <3>1, <3>2 DEF If, Deltas
    <3>3. CASE w # r.dst
      <4>1. delta[w] = a[w]
        BY <2>2, <2>3, <3>3 DEF Deltas
      <4> QED
        BY <2>2, <3>1, <3>3, <4>1 DEF If
    <3> QED
      BY <3>2, <3>3
  <2> QED
    BY <2>4, <2>5
<1>10. DatesOk("transfer", r2) /\ Posted("transfer", r2) /\ PostedAt("transfer", r2) = t /\ r2.cancelled = Null
  BY <1>2, <1>4, <1>5, <1>7 DEF DatesOk, Posted, PostedAt, DoneAt
<1>11. TransferOk(r2, Posting(m, t, delta))
  <2>1. ASSUME NEW u \in Days, NEW i \in Products
        PROVE  /\ \A w \in Warehouses \ {r.src, r.dst} : Posting(m, t, delta)[u][w][i] = 0
               /\ Posting(m, t, delta)[u][r.dst][i] = -Posting(m, t, delta)[u][r.src][i]
    <3>1. \A w \in Warehouses : /\ m[u][w][i] \in Int /\ r.lines[i] \in Int
                                /\ Posting(m, t, delta)[u][w][i] = m[u][w][i] + If(u = t, delta[w][i])
      <4>1. \A w \in Warehouses : m[u][w][i] \in Int /\ r.lines[i] \in Int
        BY <1>2, <1>5 DEF Histories, Deltas, Lines
      <4>2. \A w \in Warehouses : Posting(m, t, delta)[u][w][i] = m[u][w][i] + If(u = t, delta[w][i])
        BY <1>2, <1>9, PostingAdds
      <4> QED
        BY <4>1, <4>2
    <3>2. /\ \A w \in Warehouses \ {r.src, r.dst} : m[u][w][i] = 0
          /\ m[u][r.dst][i] = -m[u][r.src][i]
      BY <1>3, <1>4 DEF TransferOk
    <3>3. /\ \A w \in Warehouses \ {r.src, r.dst} : delta[w][i] = 0
          /\ delta[r.dst][i] = r.lines[i] /\ delta[r.src][i] = -r.lines[i]
      BY <1>5, <1>9, <3>1 DEF If
    <3> QED
      BY <1>5, <3>1, <3>2, <3>3 DEF If
  <2> QED
    BY <1>5, <1>7, <2>1 DEF TransferOk
<1>12. ASSUME NEW u \in Days, NEW w \in Warehouses, NEW i \in Products
       PROVE  Effect("transfer", r, u, w, i) + If(u = t, delta[w][i]) = Effect("transfer", r2, u, w, i)
  <2>1. Effect("transfer", r, u, w, i) = 0 /\ r.lines[i] \in Int /\ u # Null
    BY <1>3, <1>5, NullIs DEF Effect, Posted, Lines
  <2>2. delta[w][i] = If(w = r.dst, r.lines[i]) - If(w = r.src, r.lines[i])
    BY <1>9
  <2> QED
    BY <1>5, <1>7, <1>10, <2>1, <2>2 DEF Effect, Own, If
<1>13. /\ TransferOk(r2, Posting(moved[d], t, delta))
       /\ \A u \in Days, w \in Warehouses, i \in Products :
             Effect("transfer", doc[d], u, w, i) + If(u = t, delta[w][i])
                 = Effect("transfer", r2, u, w, i)
  BY <1>1, <1>11, <1>12
<1>14. /\ delta \in Deltas /\ r2 \in DocTypes /\ DatesOk("transfer", r2)
       /\ Turn("transfer", doc[d], r2, t)
  BY <1>1, <1>3, <1>7, <1>9, <1>10 DEF Turn, Posted
<1> QED
  BY <1>3, <1>8, <1>13, <1>14, TransferInv

LEMMA ResendInv ==
  ASSUME MovementsInv, NEW d \in Docs, NEW t \in Stamps, Resend(d, t)
  PROVE  MovementsInv' /\ Steady
<1>1. PICK r : r = doc[d]
  OBVIOUS
<1>2. r \in DocTypes /\ t \in Days /\ kind[d] = "transfer" /\ r.status = "COMPLETED"
  BY <1>1, RowFacts, StampsAre DEF Resend
<1>3. PICK r2 : r2 = [r EXCEPT !.status = "SENT", !.updated = t]
  OBVIOUS
<1>4. /\ r2 \in DocTypes /\ r2.status = "SENT" /\ r2.src = r.src /\ r2.dst = r.dst
      /\ r2.cancelled = r.cancelled
  BY <1>2, <1>3 DEF DocTypes, Dates
<1>5. MovementsTypeOK /\ \A e \in Docs : RowOk(kind[e], doc[e], moved[e], e \in resent)
  BY DEF MovementsInv
<1>6. /\ doc' = [doc EXCEPT ![d] = r2] /\ resent' = resent \cup {d}
      /\ UNCHANGED <<kind, day, settled, moved, landed>>
  BY <1>1, <1>3, <1>5 DEF Resend, MovementsTypeOK, DocTypes
<1>7. MovementsTypeOK'
  BY <1>2, <1>4, <1>5, <1>6 DEF MovementsTypeOK
<1>8. \A e \in Docs : SameUnits(moved[e], landed[e])'
  BY <1>6 DEF MovementsInv, SameUnits
<1>9. ASSUME NEW e \in Docs PROVE RowOk(kind'[e], doc'[e], moved'[e], e \in resent')
  <2>1. CASE e = d
    <3>1. DatesOk("transfer", r) /\ TransferOk(r, moved[d])
      BY <1>1, <1>2, <1>5 DEF RowOk
    <3>2. DatesOk("transfer", r2)
      BY <1>2, <1>4, <3>1 DEF DatesOk, Posted
    <3>3. TransferOk(r2, moved[d])
      BY <1>2, <1>4, <3>1 DEF TransferOk
    <3>4. doc'[e] = r2 /\ moved'[e] = moved[d] /\ kind'[e] = "transfer" /\ e \in resent'
      BY <1>2, <1>5, <1>6, <2>1 DEF MovementsTypeOK
    <3> QED
      BY <3>2, <3>3, <3>4 DEF RowOk, Manual
  <2>2. CASE e # d
    <3>1. doc'[e] = doc[e] /\ moved'[e] = moved[e] /\ kind'[e] = kind[e] /\ (e \in resent' <=> e \in resent)
      BY <1>5, <1>6, <2>2 DEF MovementsTypeOK
    <3>2. (e \in resent') = (e \in resent)
      BY <3>1
    <3> QED
      BY <1>5, <3>1, <3>2
  <2> QED
    BY <2>1, <2>2
<1>10. Steady
  BY <1>5, <1>6 DEF Steady, Undated, MovementsTypeOK
<1> QED
  BY <1>7, <1>8, <1>9, <1>10 DEF MovementsInv

\* A transaction that moves delta at t.
LEMMA ManualInv ==
  ASSUME MovementsInv, NEW d \in Docs, NEW r2 \in DocTypes, NEW t \in 1 .. MaxDay, NEW delta \in Deltas,
         kind[d] \in Manual, Commit(d, r2, delta, t), DeclaredOk(kind[d], r2),
         \A w \in Warehouses, i \in Products :
             If(w = doc[d].home, Brought(kind[d], doc[d], i)) + delta[w][i]
                 = If(w = r2.home, Brought(kind[d], r2, i))
  PROVE  MovementsInv' /\ Steady
<1>1. PICK k, r, m, again : k = kind[d] /\ r = doc[d] /\ m = moved[d] /\ again = (d \in resent)
  OBVIOUS
<1>2. m \in Histories /\ again \in BOOLEAN /\ RowOk(k, r, m, again) /\ k \in Manual
  BY <1>1, RowFacts
<1>3. t \in Days /\ Days \in SUBSET Days
  BY DaysAre
<1>4. ASSUME NEW w \in Warehouses, NEW i \in Products
      PROVE  SumFunctionOnSet([u \in Days |-> Posting(m, t, delta)[u][w][i]], Days)
               = If(w = r2.home, Brought(k, r2, i))
  <2>1. SumFunctionOnSet([u \in Days |-> Posting(m, t, delta)[u][w][i]], Days)
           = SumFunctionOnSet([u \in Days |-> m[u][w][i]], Days) + delta[w][i]
    BY <1>2, <1>3, PostingSum
  <2>2. SumFunctionOnSet([u \in Days |-> m[u][w][i]], Days) = If(w = r.home, Brought(k, r, i))
    BY <1>2 DEF RowOk, ManualOk
  <2>3. If(w = r.home, Brought(k, r, i)) + delta[w][i] = If(w = r2.home, Brought(k, r2, i))
    BY <1>1
  <2> QED
    BY <2>1, <2>2, <2>3
<1>5. DatesOk(k, r2)
  BY <1>2 DEF DatesOk, Posted, Manual
<1>6. ManualOk(k, r2, Posting(m, t, delta))
  BY <1>1, <1>4 DEF ManualOk
<1>7. RowOk(k, r2, Posting(m, t, delta), again)
  BY <1>2, <1>5, <1>6 DEF RowOk, Manual
<1>8. MovementsInv'
  BY <1>1, <1>7, CommitInv
<1> QED
  BY <1>8, CommitTurn

LEMMA CreateTransactionInv ==
  ASSUME MovementsInv, NEW d \in Docs, NEW w \in Warehouses, NEW v \in Warehouses, NEW l \in Payloads,
         NEW t \in 1 .. MaxDay, CreateTransaction(d, w, v, l, t)
  PROVE  MovementsInv' /\ Steady
<1>1. PICK k, r : k = kind[d] /\ r = doc[d]
  OBVIOUS
<1>2. l \in Lines /\ t \in Days /\ w \in Places /\ v \in Places /\ Null \in Places /\ k \in Manual
  BY <1>1, PayloadsAre, DaysAre DEF Places, Manual, CreateTransaction, New
<1>3. r.status = "none" /\ r.home = Null
  BY <1>1, <1>2, RowFacts DEF CreateTransaction, New, RowOk, ManualOk, DeclaredOk
<1>4. PICK z : z = [NoDoc EXCEPT !.status = "ACTIVE", !.home = w, !.lines = l, !.date = t]
  OBVIOUS
<1>5. /\ z \in DocTypes /\ z.status = "ACTIVE" /\ z.home = w /\ z.lines = l /\ z.date = t
      /\ z.src = Null /\ z.dst = Null
  BY <1>2, <1>4, NoDocIs DEF DocTypes, Dates, Lines
<1>6. PICK x, y, delta, r2 :
         /\ r2 = [z EXCEPT !.src = x, !.dst = y] /\ x \in Places /\ y \in Places /\ x # y
         /\ x \in Warehouses <=> k # "entry" 
         /\ y \in Warehouses <=> k # "exit"
         /\ delta = CASE k = "entry" -> At(w, l) [] k = "exit" -> At(w, Minus(l)) [] OTHER -> Nowhere
         /\ Commit(d, r2, delta, t)
  <2>1. CASE k = "entry"
    <3>1. [z EXCEPT !.dst = v] = [z EXCEPT !.src = Null, !.dst = v]
      BY <1>5 DEF DocTypes
    <3>2. Commit(d, [z EXCEPT !.dst = v], At(w, l), t)
      BY <1>1, <1>4, <2>1 DEF CreateTransaction, New
    <3> QED
      BY <1>2, <2>1, <3>1, <3>2, NullIs
  <2>2. CASE k = "exit"
    <3>1. [z EXCEPT !.src = v] = [z EXCEPT !.src = v, !.dst = Null]
      BY <1>5 DEF DocTypes
    <3>2. Commit(d, [z EXCEPT !.src = v], At(w, Minus(l)), t)
      BY <1>1, <1>4, <2>2 DEF CreateTransaction, New
    <3> QED
      BY <1>2, <2>2, <3>1, <3>2, NullIs
  <2>3. CASE k = "shift"
    <3>1. Commit(d, [z EXCEPT !.src = w, !.dst = v], Nowhere, t) /\ w # v
      BY <1>1, <1>4, <2>3 DEF CreateTransaction, New
    <3> QED
      BY <1>2, <2>3, <3>1, NullIs
  <2> QED
    BY <1>2, <2>1, <2>2, <2>3 DEF Manual
<1>7. /\ r2 \in DocTypes /\ r2.status = "ACTIVE" /\ r2.home = w /\ r2.lines = l /\ r2.date = t
      /\ r2.src = x /\ r2.dst = y
  BY <1>2, <1>5, <1>6 DEF DocTypes
<1>8. DeclaredOk(k, r2)
  BY <1>2, <1>6, <1>7 DEF DeclaredOk
<1>9. /\ delta \in Deltas
      /\ \A u \in Warehouses, i \in Products :
            If(u = r.home, Brought(k, r, i)) + delta[u][i] = If(u = r2.home, Brought(k, r2, i))
  <2>1. Minus(l) \in Lines /\ \A i \in Products : l[i] \in Int /\ Minus(l)[i] = -l[i]
    BY <1>2, MinusIs DEF Lines
  <2>2. \A u \in Warehouses : u # r.home
    BY <1>3, NullIs
  <2>3. CASE k = "entry"
    <3>1. delta = At(w, l) /\ At(w, l) \in Deltas
      BY <1>2, <1>6, <2>3, AtIs
    <3>2. \A u \in Warehouses, i \in Products : delta[u][i] = If(u = w, l[i])
      BY <1>2, <3>1, AtIs
    <3> QED
      BY <1>7, <2>1, <2>2, <2>3, <3>1, <3>2 DEF If, Brought
  <2>4. CASE k = "exit"
    <3>1. delta = At(w, Minus(l)) /\ At(w, Minus(l)) \in Deltas
      BY <1>6, <2>1, <2>4, AtIs
    <3>2. \A u \in Warehouses, i \in Products : delta[u][i] = If(u = w, Minus(l)[i])
      BY <2>1, <3>1, AtIs
    <3> QED
      BY <1>7, <2>1, <2>2, <2>4, <3>1, <3>2 DEF If, Brought
  <2>5. CASE k = "shift"
    <3>1. delta = Nowhere
      BY <1>6, <2>5
    <3> QED
      BY <2>2, <2>5, <3>1, NowhereIs DEF If, Brought
  <2> QED
    BY <1>2, <2>3, <2>4, <2>5 DEF Manual
<1>10. /\ kind[d] \in Manual /\ DeclaredOk(kind[d], r2)
       /\ \A u \in Warehouses, i \in Products :
             If(u = doc[d].home, Brought(kind[d], doc[d], i)) + delta[u][i]
                 = If(u = r2.home, Brought(kind[d], r2, i))
  BY <1>1, <1>2, <1>8, <1>9
<1>11. Commit(d, r2, delta, t) /\ delta \in Deltas /\ r2 \in DocTypes
  BY <1>6, <1>7, <1>9
<1> QED
  BY <1>10, <1>11, ManualInv

LEMMA EditTransactionInv ==
  ASSUME MovementsInv, NEW d \in Docs, NEW v \in Warehouses, NEW t \in 1 .. MaxDay, EditTransaction(d, v, t)
  PROVE  MovementsInv' /\ Steady
<1>1. PICK k, r : k = kind[d] /\ r = doc[d]
  OBVIOUS
<1>2. r \in DocTypes /\ t \in Days /\ k \in Manual /\ r.status = "ACTIVE" /\ v \in Places
  BY <1>1, RowFacts, DaysAre DEF EditTransaction, Places
<1>3. DeclaredOk(k, r)
  BY <1>1, <1>2, RowFacts DEF RowOk, ManualOk
<1>4. PICK x, y : x = (IF k = "exit" THEN v ELSE r.src) /\ y = (IF k = "entry" THEN v ELSE r.dst)
  OBVIOUS
<1>5. PICK r2 : r2 = [r EXCEPT !.date = t, !.src = x, !.dst = y]
  OBVIOUS
<1>6. x \in Places /\ y \in Places
  BY <1>2, <1>4, RowTyped
<1>7. /\ r2 \in DocTypes /\ r2.status = "ACTIVE" /\ r2.home = r.home /\ r2.lines = r.lines /\ r2.date = t
      /\ r2.src = x /\ r2.dst = y
  BY <1>2, <1>5, <1>6 DEF DocTypes, Dates
<1>8. DeclaredOk(k, r2)
  BY <1>2, <1>3, <1>4, <1>6, <1>7, NullIs DEF DeclaredOk, Places
<1>9. Commit(d, r2, Nowhere, t)
  BY <1>1, <1>4, <1>5 DEF EditTransaction
<1>10. ASSUME NEW u \in Warehouses, NEW i \in Products
       PROVE  If(u = r.home, Brought(k, r, i)) + Nowhere[u][i] = If(u = r2.home, Brought(k, r2, i))
  <2>1. r.lines[i] \in Int
    BY <1>2, RowTyped
  <2>2. Brought(k, r, i) \in Int /\ Brought(k, r2, i) = Brought(k, r, i)
    BY <1>2, <1>7, <2>1 DEF Brought, Manual
  <2>3. Nowhere[u][i] = 0
    BY NowhereIs
  <2> QED
    BY <1>7, <2>2, <2>3 DEF If
<1> QED
  BY <1>1, <1>2, <1>7, <1>8, <1>9, <1>10, NowhereIs, ManualInv

LEMMA RemoveTransactionInv ==
  ASSUME MovementsInv, NEW d \in Docs, RemoveTransaction(d)
  PROVE  MovementsInv' /\ Steady
<1>1. PICK k, r, l : /\ k = kind[d] /\ r = doc[d]
                     /\ l = CASE k = "entry" -> Minus(r.lines) [] k = "exit" -> r.lines [] OTHER -> NoLines
  OBVIOUS
<1>2. r \in DocTypes /\ k \in Manual /\ r.status = "ACTIVE"
  BY <1>1, RowFacts DEF RemoveTransaction
<1>3. r.home \in Warehouses
  BY <1>1, <1>2, RowFacts DEF RowOk, ManualOk, DeclaredOk
<1>4. PICK r2, delta : r2 = [NoDoc EXCEPT !.status = "gone"] /\ delta = At(r.home, l)
  OBVIOUS
<1>5. r2 \in DocTypes /\ r2.status = "gone" /\ r2.home = Null
  BY <1>4, NoDocIs DEF DocTypes
<1>12. PICK t : t = day
  OBVIOUS
<1>6. DeclaredOk(k, r2) /\ Commit(d, r2, delta, t)
  BY <1>1, <1>4, <1>5, <1>12 DEF DeclaredOk, RemoveTransaction
<1>7. t \in 1 .. MaxDay
  <2>1. day \in 0 .. MaxDay /\ MaxDay \in Nat /\ settled \in {day - 1, day - 2} \cap Nat
    BY MovementsAssumption DEF MovementsInv, MovementsTypeOK, Days
  <2> QED
    BY <1>12, <2>1
<1>8. l \in Lines /\ \A i \in Products : l[i] = -Brought(k, r, i) /\ Brought(k, r, i) \in Int
  <2>1. r.lines \in Lines /\ Minus(r.lines) \in Lines /\ NoLines \in Lines
    BY <1>2, RowTyped, MinusIs DEF NoLines, Lines
  <2>2. \A i \in Products : r.lines[i] \in Int /\ Minus(r.lines)[i] = -r.lines[i] /\ NoLines[i] = 0
    BY <2>1, MinusIs DEF NoLines, Lines
  <2>3. CASE k = "entry"
    BY <1>1, <2>1, <2>2, <2>3 DEF Brought
  <2>4. CASE k = "exit"
    BY <1>1, <2>1, <2>2, <2>4 DEF Brought
  <2>5. CASE k = "shift"
    BY <1>1, <2>1, <2>2, <2>5 DEF Brought
  <2> QED
    BY <1>2, <2>3, <2>4, <2>5 DEF Manual
<1>9. delta \in Deltas /\ \A u \in Warehouses, i \in Products : delta[u][i] = If(u = r.home, l[i])
  BY <1>3, <1>4, <1>8, AtIs
<1>10. \A u \in Warehouses, i \in Products :
          If(u = r.home, Brought(k, r, i)) + delta[u][i] = If(u = r2.home, Brought(k, r2, i))
  BY <1>5, <1>8, <1>9, NullIs DEF If
<1>11. /\ kind[d] \in Manual /\ DeclaredOk(kind[d], r2)
       /\ \A u \in Warehouses, i \in Products :
             If(u = doc[d].home, Brought(kind[d], doc[d], i)) + delta[u][i]
                 = If(u = r2.home, Brought(kind[d], r2, i))
  BY <1>1, <1>2, <1>6, <1>10
<1> QED
  BY <1>5, <1>6, <1>7, <1>9, <1>11, ManualInv

LEMMA IdleInv ==
  ASSUME MovementsInv, Midnight \/ Settle \/ UNCHANGED movementsVars
  PROVE  MovementsInv' /\ Steady
<1>1. UNCHANGED <<kind, doc, moved, landed, resent>>
  BY DEF Midnight, Settle, movementsVars
<1>2. day' \in Days /\ settled' \in {day' - 1, day' - 2} \cap Nat
  <2>1. day \in 0 .. MaxDay /\ MaxDay \in Nat /\ settled \in {day - 1, day - 2} \cap Nat
    BY MovementsAssumption DEF MovementsInv, MovementsTypeOK, Days
  <2> QED
    BY <2>1 DEF Midnight, Settle, movementsVars, Days
<1>3. MovementsTypeOK'
  BY <1>1, <1>2 DEF MovementsInv, MovementsTypeOK
<1>4. \A e \in Docs : SameUnits(moved[e], landed[e])'
  BY <1>1 DEF MovementsInv, SameUnits
<1>5. Steady
  BY <1>1 DEF Steady
<1> QED
  BY <1>1, <1>3, <1>4, <1>5 DEF MovementsInv

LEMMA MovementsStep == MovementsInv /\ [MovementsNext]_movementsVars => MovementsInv' /\ Steady
<1> SUFFICES ASSUME MovementsInv, [MovementsNext]_movementsVars PROVE MovementsInv' /\ Steady
  OBVIOUS
<1>1. CASE Midnight \/ Settle \/ UNCHANGED movementsVars
  BY <1>1, IdleInv
<1>2. ASSUME NEW d \in Docs, Transactions(d) PROVE MovementsInv' /\ Steady
  BY <1>2, CreateTransactionInv, EditTransactionInv, RemoveTransactionInv DEF Transactions
<1>3. ASSUME NEW d \in Docs, NEW t \in Stamps, Documents(d, t) PROVE MovementsInv' /\ Steady
  <2>0. /\ Null \in Places /\ NoLines \in Lines /\ Warehouses \subseteq Places
        /\ Payloads \subseteq Lines /\ Diffs \subseteq Lines /\ TRUE \in BOOLEAN
    BY PayloadsAre DEF Places, Lines, NoLines
  <2>1. CASE \E w \in Warehouses, l \in Payloads :
                Quote(d, w, l, t) \/ EditSale(d, w, l, t) \/ CreateSale(d, w, l, t)
    BY <2>0, <2>1, SaleInv
  <2>2. CASE ConfirmSale(d, t) \/ CancelSale(d, t)
    BY <2>0, <2>2, SaleInv
  <2>3. CASE \E w \in Warehouses, l \in Payloads : CreatePurchase(d, w, l, t) \/ CreateOutflow(d, w, l, t)
    BY <2>0, <2>3, StockedInv
  <2>4. CASE CancelPurchase(d, t) \/ CancelOutflow(d, t)
    BY <2>0, <2>4, StockedInv
  <2>5. CASE \E w, v \in Warehouses, l \in Payloads : CreateTransfer(d, w, v, l, t)
    BY <2>0, <2>5, AskTransferInv
  <2>6. CASE AdvanceTransfer(d, t)
    BY <2>0, <2>6, AskTransferInv
  <2>7. CASE ReceiveTransfer(d, t) \/ Resend(d, t)
    BY <2>7, ReceiveInv, ResendInv
  <2>8. CASE \E w \in Warehouses : StartTake(d, w, t)
    BY <2>0, <2>8, TakeInv
  <2>9. CASE \E l \in Diffs : Count(d, l, t)
    BY <2>0, <2>9, TakeInv
  <2>10. CASE \E apply \in BOOLEAN : CompleteTake(d, apply, t)
    BY <2>0, <2>10, TakeInv
  <2> QED
    BY <1>3, <2>1, <2>2, <2>3, <2>4, <2>5, <2>6, <2>7, <2>8, <2>9, <2>10 DEF Documents
<1> QED
  BY <1>1, <1>2, <1>3 DEF MovementsNext

\* The documents a history may begin with.
Old(k, r) ==
    \/ r = NoDoc
    \/ k = "sale" /\ \E w \in Warehouses, l \in Payloads : r = OldSale(w, l)
    \/ k = "transfer" /\ \E w, v \in Warehouses, l \in Payloads : r = OldTransfer(w, v, l) /\ w # v

OldMoved(r) ==
    [t \in Days |->
        IF t # 0 \/ r = NoDoc THEN Nowhere
        ELSE [w \in Warehouses |-> IF w = r.src THEN Minus(r.lines)
                                   ELSE IF w = r.dst THEN r.lines ELSE NoLines]]

LEMMA OldRow ==
  ASSUME NEW k \in Kinds, NEW r, Old(k, r)
  PROVE  r \in DocTypes /\ OldMoved(r) \in Histories /\ RowOk(k, r, OldMoved(r), FALSE)
<1>0. 0 \in Days /\ NoLines \in Lines /\ Null # 0
  BY DaysAre, NullIs DEF NoLines, Lines
<1>1. CASE r = NoDoc
  <2>1. OldMoved(r) = [t \in Days |-> Nowhere]
    BY <1>1 DEF OldMoved
  <2>2. OldMoved(r) \in Histories
    BY <2>1, NowhereIs DEF Histories
  <2>3. \A t \in Days, w \in Warehouses, i \in Products : OldMoved(r)[t][w][i] = 0
    BY <2>1, NowhereIs
  <2>4. DatesOk(k, r)
    BY <1>1, NoDocIs DEF DatesOk, Posted, Kinds
  <2>5. ~Posted(k, r)
    BY <1>1, NoDocIs DEF Posted, Kinds
  <2>6. ASSUME k \in Manual PROVE ManualOk(k, r, OldMoved(r))
    <3>1. DeclaredOk(k, r)
      BY <1>1, NoDocIs DEF DeclaredOk
    <3>2. ASSUME NEW w \in Warehouses, NEW i \in Products
          PROVE  SumFunctionOnSet([t \in Days |-> OldMoved(r)[t][w][i]], Days) = If(w = r.home, Brought(k, r, i))
      <4>1. \A t \in Days : [u \in Days |-> OldMoved(r)[u][w][i]][t] = 0
        BY <2>3
      <4>2. SumFunctionOnSet([t \in Days |-> OldMoved(r)[t][w][i]], Days) = 0
        BY <4>1, DaysAre, SumZero
      <4> QED
        BY <1>1, <4>2, NoDocIs, NullIs DEF If
    <3> QED
      BY <3>1, <3>2 DEF ManualOk
  <2>7. TransferOk(r, OldMoved(r))
    BY <1>1, <2>3, NoDocIs DEF TransferOk
  <2>8. \A t \in Days, w \in Warehouses, i \in Products : OldMoved(r)[t][w][i] = Effect(k, r, t, w, i)
    BY <2>3, <2>5 DEF Effect
  <2> QED
    BY <1>1, <2>2, <2>4, <2>6, <2>7, <2>8, NoDocIs DEF RowOk
<1>2. CASE r # NoDoc
  <2>1. PICK w \in Warehouses, y \in Places, l \in Lines :
           /\ r \in DocTypes /\ r.src = w /\ r.dst = y /\ r.lines = l /\ r.created = 0
           /\ r.cancelled = Null /\ r.confirmed = Null /\ r.done = Null /\ w # y
           /\ \/ k = "sale" /\ r.status = "ACTIVE" /\ r.quoted = FALSE /\ y = Null
              \/ k = "transfer" /\ r.status = "COMPLETED" /\ y \in Warehouses /\ r.updated = 0
    <3>1. CASE k = "sale" /\ \E w \in Warehouses, l \in Payloads : r = OldSale(w, l)
      <4>1. PICK w \in Warehouses, l \in Lines : r = OldSale(w, l)
        BY <3>1, PayloadsAre
      <4>2. /\ r \in DocTypes /\ r.src = w /\ r.dst = Null /\ r.lines = l /\ r.created = 0
            /\ r.cancelled = Null /\ r.confirmed = Null /\ r.done = Null
            /\ r.status = "ACTIVE" /\ r.quoted = FALSE
        BY <1>0, <4>1, NoDocIs DEF OldSale, DocTypes, Places, Dates, Lines
      <4> QED
        BY <3>1, <4>2, NullIs DEF Places
    <3>2. CASE k = "transfer" /\ \E w, v \in Warehouses, l \in Payloads : r = OldTransfer(w, v, l) /\ w # v
      <4>1. PICK w \in Warehouses, v \in Warehouses, l \in Lines : r = OldTransfer(w, v, l) /\ w # v
        BY <3>2, PayloadsAre
      <4>2. /\ r \in DocTypes /\ r.src = w /\ r.dst = v /\ r.lines = l /\ r.created = 0
            /\ r.cancelled = Null /\ r.confirmed = Null /\ r.done = Null
            /\ r.status = "COMPLETED" /\ r.updated = 0
        BY <1>0, <4>1, NoDocIs DEF OldTransfer, DocTypes, Places, Dates, Lines
      <4> QED
        BY <3>2, <4>1, <4>2 DEF Places
    <3> QED
      BY <1>2, <3>1, <3>2 DEF Old
  <2>2. l \in Lines /\ Minus(l) \in Lines /\ \A i \in Products : l[i] \in Int /\ Minus(l)[i] = -l[i]
    BY MinusIs DEF Lines
  <2>3. PICK delta : delta = [x \in Warehouses |-> IF x = w THEN Minus(l) ELSE IF x = y THEN l ELSE NoLines]
    OBVIOUS
  <2>4. /\ delta \in Deltas
        /\ \A x \in Warehouses, i \in Products : delta[x][i] = If(x = y, l[i]) - If(x = w, l[i])
    <3>1. \A x \in Warehouses, i \in Products : delta[x][i] = If(x = y, l[i]) - If(x = w, l[i])
      BY <2>1, <2>2, <2>3 DEF If, NoLines
    <3>2. \A x \in Warehouses : delta[x] \in Lines
      BY <1>0, <2>2, <2>3
    <3> QED
      BY <2>3, <3>1, <3>2 DEF Deltas, Lines
  <2>5. OldMoved(r) = [t \in Days |-> IF t = 0 THEN delta ELSE Nowhere]
    BY <1>2, <2>1, <2>3 DEF OldMoved
  <2>6. OldMoved(r) \in Histories
    BY <2>4, <2>5, NowhereIs DEF Histories
  <2>7. \A t \in Days, x \in Warehouses, i \in Products :
           OldMoved(r)[t][x][i] = IF t = 0 THEN If(x = y, l[i]) - If(x = w, l[i]) ELSE 0
    BY <2>4, <2>5, NowhereIs
  <2>8. Posted(k, r) /\ PostedAt(k, r) = 0
    BY <1>0, <2>1 DEF Posted, PostedAt, SavedAt, DoneAt
  <2>9. DatesOk(k, r)
    BY <1>0, <2>1, <2>8 DEF DatesOk, Manual
  <2>10. ASSUME k = "transfer" PROVE TransferOk(r, OldMoved(r))
    BY <2>1, <2>2, <2>7, <2>10 DEF TransferOk, If
  <2>11. ASSUME NEW t \in Days, NEW x \in Warehouses, NEW i \in Products
         PROVE  OldMoved(r)[t][x][i] = Effect(k, r, t, x, i)
    <3>1. t # Null /\ x # Null /\ l[i] \in Int
      BY <2>2, NullIs
    <3> QED
      BY <2>1, <2>7, <2>8, <3>1 DEF Effect, Own, If
  <2> QED
    BY <2>1, <2>6, <2>9, <2>10, <2>11 DEF RowOk, Manual
<1> QED
  BY <1>1, <1>2

LEMMA MovementsStart == MovementsInit => MovementsInv
<1> SUFFICES ASSUME MovementsInit PROVE MovementsInv
  OBVIOUS
<1>1. /\ kind \in [Docs -> Kinds] /\ day = 1 /\ settled = 0 /\ resent = {}
      /\ moved = [d \in Docs |-> OldMoved(doc[d])] /\ landed = moved
  BY DEF MovementsInit, OldMoved
<1>2. ASSUME NEW d \in Docs PROVE Old(kind[d], doc[d])
  <2>1. CASE doc[d] = NoDoc
    BY <2>1 DEF Old
  <2>2. CASE \E w \in Warehouses, l \in Payloads : doc[d] = OldSale(w, l)
    <3>1. doc[d].updated = Null /\ Null # 0 /\ doc[d] # NoDoc
      BY <2>2, NoDocIs, NullIs, DaysAre DEF OldSale, DocTypes
    <3> QED
      BY <2>2, <3>1 DEF MovementsInit, Old
  <2>3. CASE \E w, v \in Warehouses, l \in Payloads : doc[d] = OldTransfer(w, v, l)
    <3>1. PICK w \in Warehouses, v \in Warehouses, l \in Payloads : doc[d] = OldTransfer(w, v, l)
      BY <2>3
    <3>2. doc[d].status = "COMPLETED" /\ doc[d].src = w /\ doc[d].dst = v
      BY <3>1, NoDocIs DEF OldTransfer, DocTypes
    <3> QED
      BY <3>1, <3>2, NoDocIs DEF MovementsInit, Old
  <2> QED
    BY <2>1, <2>2, <2>3 DEF MovementsInit
<1>3. ASSUME NEW d \in Docs
      PROVE  /\ doc[d] \in DocTypes /\ moved[d] \in Histories
             /\ RowOk(kind[d], doc[d], moved[d], d \in resent)
             /\ moved[d] = OldMoved(doc[d])
  <2>1. PICK k, r : k = kind[d] /\ r = doc[d]
    OBVIOUS
  <2>2. k \in Kinds /\ Old(k, r) /\ moved[d] = OldMoved(r) /\ (d \in resent) = FALSE
    BY <1>1, <1>2, <2>1
  <2> QED
    BY <2>1, <2>2, OldRow
<1>4. MovementsTypeOK
  <2>1. doc \in [Docs -> DocTypes] /\ moved \in [Docs -> Histories]
    <3>1. \A d \in Docs : doc[d] \in DocTypes /\ moved[d] \in Histories
      BY <1>3
    <3>2. doc = [d \in Docs |-> doc[d]]
      BY SMTT(60) DEF MovementsInit
    <3>3. moved = [d \in Docs |-> OldMoved(doc[d])]
      BY <1>1
    <3> QED
      BY <3>1, <3>2, <3>3
  <2>2. day \in Days /\ settled \in {day - 1, day - 2} \cap Nat
    BY <1>1, MovementsAssumption DEF Days
  <2>3. {moved, landed} \subseteq [Docs -> [Days -> [Warehouses -> [Products -> Int]]]]
    BY <1>1, <2>1 DEF Histories, Deltas
  <2>4. resent \subseteq {d \in Docs : kind[d] = "transfer"}
    BY <1>1
  <2> QED
    BY <1>1, <2>1, <2>2, <2>3, <2>4 DEF MovementsTypeOK
<1>5. \A d \in Docs : SameUnits(moved[d], landed[d])
  BY <1>1 DEF SameUnits
<1> QED
  BY <1>3, <1>4, <1>5 DEF MovementsInv

\* The movements report: in every reachable state the dates and status of a document
\* say what it moved, though nothing records a movement (stock-movements.service.ts:95,
\* 133), and the units are as many wherever its items had been taken meanwhile.
THEOREM BooksBalance == MovementsSpec => []MovementsInv
<1>1. MovementsInv /\ [MovementsNext]_movementsVars => MovementsInv'
  BY MovementsStep
<1> QED
  BY <1>1, MovementsStart, PTL DEF MovementsSpec

----------------------------------------------------------------------------
(* The movements report: what it shows of one document.                    *)

\* A document the report reads, whatever its dates.
Listed(k, r, ws) ==
    IF k \in Manual THEN r.status = "ACTIVE" /\ SeesEither(ws, r)
    ELSE Posted(k, r) /\ IF k = "transfer" THEN SeesEither(ws, r) ELSE Sees(ws, r.src)

\* What it makes of it.
Steps(d, k, r) ==
    IF k \in Manual THEN {Movement(d, "saved", r.date, r.src, r.dst, r.lines)}
    ELSE CASE k = "transfer" -> {Movement(d, "saved", DoneAt(r), r.src, r.dst, r.lines)}
           [] k = "take" -> Side(d, r, "IN") \cup Side(d, r, "OUT")
           [] k = "purchase" -> PushDocument(d, r, PostedAt(k, r), "IN")
           [] OTHER -> PushDocument(d, r, PostedAt(k, r), "OUT")

RowMoves(d, k, r, ws, q) == {m \in Steps(d, k, r) : Listed(k, r, ws) /\ InRange(q, m.date)}

LEMMA MovementIs ==
  ASSUME NEW d, NEW part, NEW t, NEW from, NEW to, NEW l
  PROVE  LET m == Movement(d, part, t, from, to, l) IN
         m.doc = d /\ m.part = part /\ m.date = t /\ m.from = from /\ m.to = to /\ m.lines = l
BY DEF Movement

LEMMA MovesIs ==
  ASSUME NEW d, NEW part, NEW t, NEW type, NEW w, NEW l
  PROVE  LET m == Moves(d, part, t, type, w, l) IN
         /\ m.doc = d /\ m.part = part /\ m.date = t /\ m.lines = l
         /\ m.from = (IF type = "IN" THEN Null ELSE w)
         /\ m.to = (IF type = "IN" THEN w ELSE Null)
BY MovementIs DEF Moves

LEMMA StepsAre ==
  ASSUME NEW d, NEW k, NEW r
  PROVE  \A m \in Steps(d, k, r) : m.doc = d
BY MovementIs, MovesIs DEF Steps, PushDocument, Side

\* What is made of a document of another kind than a count is dated by its row.
LEMMA StepDates ==
  ASSUME NEW d, NEW k \in {"sale", "purchase", "outflow"}, NEW r, NEW m \in Steps(d, k, r)
  PROVE  m.date = PostedAt(k, r) \/ (m.date = r.cancelled /\ r.cancelled # Null)
BY MovesIs DEF Steps, PushDocument, Manual

LEMMA StepDate ==
  ASSUME NEW d, NEW k \in {"transfer", "take"}, NEW r, NEW m \in Steps(d, k, r)
  PROVE  m.date = PostedAt(k, r)
BY MovementIs, MovesIs DEF Steps, Side, PostedAt, Manual

\* The pieces the report is made of.
Pieces(d, ws, q) ==
    LET r == doc[d] IN
    IF d \in ReadTransactions(ws, q) THEN {Movement(d, "saved", r.date, r.src, r.dst, r.lines)}
    ELSE IF d \in ReadSales(ws, q) THEN PushDocument(d, r, SavedAt(r), "OUT")
    ELSE IF d \in ReadDocuments("purchase", ws, q) THEN PushDocument(d, r, r.created, "IN")
    ELSE IF d \in ReadDocuments("outflow", ws, q) THEN PushDocument(d, r, r.created, "OUT")
    ELSE IF d \in ReadTransfers(ws, q) THEN {Movement(d, "saved", DoneAt(r), r.src, r.dst, r.lines)}
    ELSE IF d \in ReadTakes(ws, q) THEN Side(d, r, "IN") \cup Side(d, r, "OUT")
    ELSE {}

LEMMA BuiltIs ==
  ASSUME NEW ws, NEW q
  PROVE  \A m : m \in Built(ws, q) <=> \E d \in Docs : m \in Pieces(d, ws, q)
<1> DEFINE T == ReadTransactions(ws, q)
           S == ReadSales(ws, q)
           P == ReadDocuments("purchase", ws, q)
           O == ReadDocuments("outflow", ws, q)
           X == ReadTransfers(ws, q)
           K == ReadTakes(ws, q)
<1>1. /\ T \subseteq Docs /\ S \subseteq Docs /\ P \subseteq Docs /\ O \subseteq Docs
      /\ X \subseteq Docs /\ K \subseteq Docs
      /\ \A d \in T : kind[d] \in Manual
      /\ \A d \in S : kind[d] = "sale"
      /\ \A d \in P : kind[d] = "purchase"
      /\ \A d \in O : kind[d] = "outflow"
      /\ \A d \in X : kind[d] = "transfer"
      /\ \A d \in K : kind[d] = "take"
  BY DEF ReadTransactions, ReadSales, ReadDocuments, ReadTransfers, ReadTakes
<1>2. \A d \in Docs :
        /\ d \in T => d \notin S \cup P \cup O \cup X \cup K
        /\ d \in S => d \notin P \cup O \cup X \cup K
        /\ d \in P => d \notin O \cup X \cup K
        /\ d \in O => d \notin X \cup K
        /\ d \in X => d \notin K
  BY <1>1 DEF Manual
<1>3. \A d \in Docs :
        /\ d \in T => Pieces(d, ws, q) = {Movement(d, "saved", doc[d].date, doc[d].src, doc[d].dst, doc[d].lines)}
        /\ d \in S => Pieces(d, ws, q) = PushDocument(d, doc[d], SavedAt(doc[d]), "OUT")
        /\ d \in P => Pieces(d, ws, q) = PushDocument(d, doc[d], doc[d].created, "IN")
        /\ d \in O => Pieces(d, ws, q) = PushDocument(d, doc[d], doc[d].created, "OUT")
        /\ d \in X => Pieces(d, ws, q)
                        = {Movement(d, "saved", DoneAt(doc[d]), doc[d].src, doc[d].dst, doc[d].lines)}
        /\ d \in K => Pieces(d, ws, q) = Side(d, doc[d], "IN") \cup Side(d, doc[d], "OUT")
        /\ d \notin T \cup S \cup P \cup O \cup X \cup K => Pieces(d, ws, q) = {}
  BY <1>2 DEF Pieces
<1> DEFINE BT == {Movement(d, "saved", doc[d].date, doc[d].src, doc[d].dst, doc[d].lines) : d \in T}
           BS == UNION {PushDocument(d, doc[d], SavedAt(doc[d]), "OUT") : d \in S}
           BP == UNION {PushDocument(d, doc[d], doc[d].created, "IN") : d \in P}
           BO == UNION {PushDocument(d, doc[d], doc[d].created, "OUT") : d \in O}
           BX == {Movement(d, "saved", DoneAt(doc[d]), doc[d].src, doc[d].dst, doc[d].lines) : d \in X}
           BK == UNION {Side(d, doc[d], "IN") \cup Side(d, doc[d], "OUT") : d \in K}
<1>6. Built(ws, q) = BT \cup BS \cup BP \cup BO \cup BX \cup BK
  BY DEF Built
<1> HIDE DEF T, S, P, O, X, K
<1>4. ASSUME NEW m
      PROVE  m \in Built(ws, q) <=>
               \/ \E d \in T : m = Movement(d, "saved", doc[d].date, doc[d].src, doc[d].dst, doc[d].lines)
               \/ \E d \in S : m \in PushDocument(d, doc[d], SavedAt(doc[d]), "OUT")
               \/ \E d \in P : m \in PushDocument(d, doc[d], doc[d].created, "IN")
               \/ \E d \in O : m \in PushDocument(d, doc[d], doc[d].created, "OUT")
               \/ \E d \in X : m = Movement(d, "saved", DoneAt(doc[d]), doc[d].src, doc[d].dst, doc[d].lines)
               \/ \E d \in K : m \in Side(d, doc[d], "IN") \cup Side(d, doc[d], "OUT")
  <2>1. m \in BT <=> \E d \in T : m = Movement(d, "saved", doc[d].date, doc[d].src, doc[d].dst, doc[d].lines)
    OBVIOUS
  <2>2. m \in BS <=> \E d \in S : m \in PushDocument(d, doc[d], SavedAt(doc[d]), "OUT")
    OBVIOUS
  <2>3. m \in BP <=> \E d \in P : m \in PushDocument(d, doc[d], doc[d].created, "IN")
    OBVIOUS
  <2>4. m \in BO <=> \E d \in O : m \in PushDocument(d, doc[d], doc[d].created, "OUT")
    OBVIOUS
  <2>5. m \in BX <=> \E d \in X : m = Movement(d, "saved", DoneAt(doc[d]), doc[d].src, doc[d].dst, doc[d].lines)
    OBVIOUS
  <2>6. m \in BK <=> \E d \in K : m \in Side(d, doc[d], "IN") \cup Side(d, doc[d], "OUT")
    OBVIOUS
  <2> HIDE DEF BT, BS, BP, BO, BX, BK
  <2>7. m \in Built(ws, q) <=> m \in BT \/ m \in BS \/ m \in BP \/ m \in BO \/ m \in BX \/ m \in BK
    BY <1>6
  <2> QED
    BY <2>1, <2>2, <2>3, <2>4, <2>5, <2>6, <2>7
<1>5. ASSUME NEW m
      PROVE  m \in Built(ws, q) <=> \E d \in T \cup S \cup P \cup O \cup X \cup K : m \in Pieces(d, ws, q)
  BY <1>1, <1>3, <1>4
<1> QED
  BY <1>1, <1>3, <1>5

\* What the report shows in a period is what it makes of the documents it lists.
LEMMA ShownIs ==
  ASSUME MovementsInv, NEW ws, NEW q
  PROVE  \A m : m \in FindAll(ws, q) <=> \E d \in Docs : m \in RowMoves(d, kind[d], doc[d], ws, q)
<1>1. ASSUME NEW d \in Docs, NEW m
      PROVE  m \in Pieces(d, ws, q) /\ InRange(q, m.date) <=> m \in RowMoves(d, kind[d], doc[d], ws, q)
  <2>1. PICK k, r : k = kind[d] /\ r = doc[d] /\ k \in Kinds
    BY RowFacts
  <2>2. CASE k \in Manual
    <3>1. /\ d \notin ReadSales(ws, q) /\ d \notin ReadTransfers(ws, q) /\ d \notin ReadTakes(ws, q)
          /\ \A j \in {"purchase", "outflow"} : d \notin ReadDocuments(j, ws, q)
      BY <2>1, <2>2 DEF Manual, ReadSales, ReadDocuments, ReadTransfers, ReadTakes
    <3>2. PICK x : x = Movement(d, "saved", r.date, r.src, r.dst, r.lines)
      OBVIOUS
    <3>3. Pieces(d, ws, q) = IF d \in ReadTransactions(ws, q) THEN {x} ELSE {}
      BY <2>1, <3>1, <3>2 DEF Pieces
    <3>4. d \in ReadTransactions(ws, q) <=> Listed(k, r, ws) /\ InRange(q, r.date)
      BY <2>1, <2>2 DEF ReadTransactions, Listed
    <3>5. Steps(d, k, r) = {x} /\ x.date = r.date
      BY <2>2, <3>2, MovementIs DEF Steps
    <3> QED
      BY <2>1, <3>3, <3>4, <3>5 DEF RowMoves
  <2>3. CASE k = "transfer"
    <3>1. /\ d \notin ReadTransactions(ws, q) /\ d \notin ReadSales(ws, q) /\ d \notin ReadTakes(ws, q)
          /\ \A j \in {"purchase", "outflow"} : d \notin ReadDocuments(j, ws, q)
      BY <2>1, <2>3 DEF Manual, ReadTransactions, ReadSales, ReadDocuments, ReadTakes
    <3>2. PICK x : x = Movement(d, "saved", DoneAt(r), r.src, r.dst, r.lines)
      OBVIOUS
    <3>3. Pieces(d, ws, q) = IF d \in ReadTransfers(ws, q) THEN {x} ELSE {}
      BY <2>1, <3>1, <3>2 DEF Pieces
    <3>4. d \in ReadTransfers(ws, q) <=> Listed(k, r, ws) /\ InRange(q, DoneAt(r))
      BY <2>1, <2>3 DEF ReadTransfers, Listed, Manual, Posted
    <3>5. Steps(d, k, r) = {x} /\ x.date = DoneAt(r)
      BY <2>3, <3>2, MovementIs DEF Steps, Manual
    <3> QED
      BY <2>1, <3>3, <3>4, <3>5 DEF RowMoves
  <2>4. CASE k = "take"
    <3>1. \A x \in Side(d, r, "IN") \cup Side(d, r, "OUT") : x.date = DoneAt(r)
      BY MovesIs DEF Side
    <3> QED
      <4>1. /\ d \notin ReadTransactions(ws, q) /\ d \notin ReadSales(ws, q) /\ d \notin ReadTransfers(ws, q)
            /\ \A j \in {"purchase", "outflow"} : d \notin ReadDocuments(j, ws, q)
        BY <2>1, <2>4 DEF Manual, ReadTransactions, ReadSales, ReadDocuments, ReadTransfers
      <4>2. Pieces(d, ws, q) = IF d \in ReadTakes(ws, q) THEN Side(d, r, "IN") \cup Side(d, r, "OUT") ELSE {}
        BY <2>1, <4>1 DEF Pieces
      <4>3. d \in ReadTakes(ws, q) <=> Listed(k, r, ws) /\ InRange(q, DoneAt(r))
        BY <2>1, <2>4 DEF ReadTakes, Listed, Manual, Posted
      <4>4. Steps(d, k, r) = Side(d, r, "IN") \cup Side(d, r, "OUT")
        BY <2>4 DEF Steps, Manual
      <4> QED
        BY <2>1, <3>1, <4>2, <4>3, <4>4 DEF RowMoves
  <2>5. CASE k = "sale"
    <3>1. \A x \in PushDocument(d, r, SavedAt(r), "OUT") : x.date = SavedAt(r) \/ x.date = r.cancelled
      BY MovesIs DEF PushDocument
    <3>2. Steps(d, k, r) = PushDocument(d, r, SavedAt(r), "OUT")
      BY <2>5 DEF Steps, PostedAt, Manual
    <3>3. d \notin ReadTransactions(ws, q)
      BY <2>1, <2>5 DEF ReadTransactions, Manual
    <3>4. InRange(q, SavedAt(r)) <=> InRange(q, r.confirmed) \/ (r.confirmed = Null /\ InRange(q, r.created))
      BY DEF InRange, SavedAt
    <3>5. d \in ReadSales(ws, q) <=> Listed(k, r, ws) /\ (InRange(q, SavedAt(r)) \/ InRange(q, r.cancelled))
      BY <2>1, <2>5, <3>4 DEF ReadSales, Listed, Posted, Manual
    <3>6. /\ d \notin ReadDocuments("purchase", ws, q) /\ d \notin ReadDocuments("outflow", ws, q)
          /\ d \notin ReadTransfers(ws, q) /\ d \notin ReadTakes(ws, q)
      BY <2>1, <2>5 DEF ReadDocuments, ReadTransfers, ReadTakes
    <3> QED
      BY <2>1, <3>1, <3>2, <3>3, <3>5, <3>6 DEF RowMoves, Pieces
  <2>6. CASE k \in {"purchase", "outflow"}
    <3>0. PICK type : type = IF k = "purchase" THEN "IN" ELSE "OUT"
      OBVIOUS
    <3>1. \A x \in PushDocument(d, r, r.created, type) : x.date = r.created \/ x.date = r.cancelled
      BY MovesIs DEF PushDocument
    <3>2. Steps(d, k, r) = PushDocument(d, r, r.created, type)
      BY <2>6, <3>0 DEF Steps, PostedAt, Manual
    <3>3. d \notin ReadTransactions(ws, q) /\ d \notin ReadSales(ws, q)
      BY <2>1, <2>6 DEF ReadTransactions, ReadSales, Manual
    <3>5. d \in ReadDocuments(k, ws, q) <=> Listed(k, r, ws) /\ (InRange(q, r.created) \/ InRange(q, r.cancelled))
      BY <2>1, <2>6 DEF ReadDocuments, Listed, Posted, Manual
    <3>6. /\ \A j \in {"purchase", "outflow"} : j # k => d \notin ReadDocuments(j, ws, q)
          /\ d \notin ReadTransfers(ws, q) /\ d \notin ReadTakes(ws, q)
      BY <2>1, <2>6 DEF ReadDocuments, ReadTransfers, ReadTakes
    <3>7. Pieces(d, ws, q) = IF d \in ReadDocuments(k, ws, q) THEN PushDocument(d, r, r.created, type) ELSE {}
      BY <2>1, <2>6, <3>0, <3>3, <3>6 DEF Pieces
    <3> QED
      BY <2>1, <3>1, <3>2, <3>5, <3>7 DEF RowMoves
  <2> QED
    BY <2>1, <2>2, <2>3, <2>4, <2>5, <2>6 DEF Kinds, Manual
<1>2. \A m : m \in FindAll(ws, q) <=> \E d \in Docs : m \in Pieces(d, ws, q) /\ InRange(q, m.date)
  BY BuiltIs DEF FindAll
<1> QED
  BY <1>1, <1>2

\* A row that changes after b leaves the report of the days up to b alone.
LEMMA PastRow ==
  ASSUME NEW k \in Kinds \ Manual, NEW r, NEW r2, NEW t \in Int, NEW b \in Int, t > b,
         Turn(k, r, r2, t), NEW d, NEW ws
  PROVE  RowMoves(d, k, r2, ws, Period(0, b)) = RowMoves(d, k, r, ws, Period(0, b))
<1>1. ~InRange(Period(0, b), t) /\ ~InRange(Period(0, b), Null)
  BY DEF InRange, Period
<1>2. CASE ~Posted(k, r) /\ (Posted(k, r2) => PostedAt(k, r2) = t /\ r2.cancelled = Null)
  <2>1. RowMoves(d, k, r, ws, Period(0, b)) = {}
    BY <1>2 DEF RowMoves, Listed
  <2>2. ASSUME NEW m \in Steps(d, k, r2), Posted(k, r2) PROVE m.date = t
    BY <1>2, <2>2, StepDates, StepDate DEF Kinds, Manual
  <2>3. RowMoves(d, k, r2, ws, Period(0, b)) = {}
    BY <1>1, <2>2 DEF RowMoves, Listed
  <2> QED
    BY <2>1, <2>3
<1>3. CASE /\ Posted(k, r) /\ Posted(k, r2) /\ PostedAt(k, r2) = PostedAt(k, r)
           /\ k \in {"sale", "purchase", "outflow"} /\ r.cancelled = Null /\ r2.cancelled = t
           /\ r2.src = r.src /\ r2.lines = r.lines
  <2>1. Listed(k, r2, ws) <=> Listed(k, r, ws)
    BY <1>3 DEF Listed
  <2>2. PICK type : type = IF k = "purchase" THEN "IN" ELSE "OUT"
    OBVIOUS
  <2>3. PICK undo, m, n : /\ undo = (IF type = "IN" THEN "OUT" ELSE "IN")
                          /\ m = Moves(d, "saved", PostedAt(k, r), type, r.src, r.lines)
                          /\ n = Moves(d, "cancel", t, undo, r.src, r.lines)
    OBVIOUS
  <2>4. Steps(d, k, r) = {m}
    BY <1>3, <2>2, <2>3 DEF Steps, PushDocument, Manual
  <2>5. Steps(d, k, r2) \subseteq {m, n} /\ m \in Steps(d, k, r2)
    BY <1>3, <2>2, <2>3 DEF Steps, PushDocument, Manual
  <2>6. n.date = t
    BY <2>3, MovesIs
  <2> QED
    BY <1>1, <2>1, <2>4, <2>5, <2>6 DEF RowMoves
<1> QED
  BY <1>2, <1>3 DEF Turn

LEMMA PastStep ==
  ASSUME MovementsInv, MovementsInv', [MovementsNext]_movementsVars, NEW ws, NEW b \in 0 .. settled
  PROVE  LET past == FindAll(ws, Period(0, b)) IN
         {m \in past' : m.doc \notin Undated'} = {m \in past : m.doc \notin Undated'}
<1>1. Steady
  BY MovementsStep
<1>2. PICK q : q = Period(0, b)
  OBVIOUS
<1>3. \A m : m \in FindAll(ws, q) <=> \E d \in Docs : m \in RowMoves(d, kind[d], doc[d], ws, q)
  BY ShownIs
<1>4. \A m : m \in FindAll(ws, q)' <=> \E d \in Docs : m \in RowMoves(d, kind'[d], doc'[d], ws, q)
  <2>1. (MovementsInv => \A m : m \in FindAll(ws, q) <=> \E d \in Docs : m \in RowMoves(d, kind[d], doc[d], ws, q))'
    BY ShownIs, PTL
  <2> QED
    BY <2>1
<1>5. ASSUME NEW d \in Docs \ Undated'
      PROVE  RowMoves(d, kind'[d], doc'[d], ws, q) = RowMoves(d, kind[d], doc[d], ws, q)
  <2>1. kind'[d] = kind[d] /\ kind[d] \in Kinds \ Manual
    BY <1>1, <1>5, RowFacts DEF Steady, Undated
  <2>2. CASE doc'[d] = doc[d]
    BY <2>1, <2>2
  <2>3. ASSUME NEW t \in Stamps, Turn(kind[d], doc[d], doc'[d], t)
        PROVE  RowMoves(d, kind'[d], doc'[d], ws, q) = RowMoves(d, kind[d], doc[d], ws, q)
    <3>1. PICK k, r, r2 : k = kind[d] /\ r = doc[d] /\ r2 = doc'[d]
      OBVIOUS
    <3>2. t \in Int /\ b \in Int /\ t > b
      BY DEF Stamps, MovementsInv, MovementsTypeOK
    <3>3. Turn(k, r, r2, t) /\ k \in Kinds \ Manual
      BY <2>1, <2>3, <3>1
    <3>4. RowMoves(d, k, r2, ws, Period(0, b)) = RowMoves(d, k, r, ws, Period(0, b))
      BY <3>2, <3>3, PastRow
    <3> QED
      BY <1>2, <2>1, <3>1, <3>4
  <2> QED
    BY <1>1, <2>2, <2>3 DEF Steady
<1>6. \A d, k, r : \A m \in RowMoves(d, k, r, ws, q) : m.doc = d
  BY StepsAre DEF RowMoves
<1>7. \A m : m \in FindAll(ws, q)' /\ m.doc \notin Undated' <=> m \in FindAll(ws, q) /\ m.doc \notin Undated'
  BY <1>3, <1>4, <1>5, <1>6
<1> QED
  BY <1>2, <1>7

\* stock-movements.service.ts:133: once the requests of a day have ended nothing
\* that happens later changes what the report says of that day, transactions and
\* transfers sent again apart.
THEOREM PastStands == MovementsSpec => PastIsFixed
<1>1. MovementsInv /\ MovementsInv' /\ [MovementsNext]_movementsVars =>
        [\A ws \in {Null} \cup {{w} : w \in Warehouses} : \A b \in 0 .. settled :
            LET past == FindAll(ws, Period(0, b)) IN
            {m \in past' : m.doc \notin Undated'} = {m \in past : m.doc \notin Undated'}]_movementsVars
  BY PastStep
<1> QED
  BY <1>1, BooksBalance, PTL DEF MovementsSpec, PastIsFixed

----------------------------------------------------------------------------
(* The movements report: what it nets to.                                  *)

LEMMA OwnIs ==
  ASSUME NEW k, NEW r \in DocTypes, NEW w, NEW i \in Products
  PROVE  r.lines[i] \in Int /\ Own(k, r, w, i) \in Int
BY RowTyped DEF Own, If

\* What a document moved on the days ts: what it posted on one of them, less what it
\* gave back on one of them.
NetEffect(k, r, ts, w, i) ==
    IF Posted(k, r)
    THEN If(PostedAt(k, r) \in ts, Own(k, r, w, i)) - If(r.cancelled \in ts, Own(k, r, w, i))
    ELSE 0

LEMMA EffectSum ==
  ASSUME NEW k, NEW r \in DocTypes, NEW ts \in SUBSET Days, NEW w, NEW i \in Products
  PROVE  SumFunctionOnSet([t \in Days |-> Effect(k, r, t, w, i)], ts) = NetEffect(k, r, ts, w, i)
<1>1. IsFiniteSet(ts)
  BY DaysAre, FS_Subset
<1>2. PICK own, at, back : own = Own(k, r, w, i) /\ at = PostedAt(k, r) /\ back = r.cancelled
  OBVIOUS
<1>3. own \in Int
  BY <1>2, OwnIs
<1>4. CASE Posted(k, r)
  <2>1. PICK f, g, h : /\ f = [t \in Days |-> Effect(k, r, t, w, i)]
                       /\ g = [t \in Days |-> If(t = at, own)]
                       /\ h = [t \in Days |-> If(t = back, -own)]
    OBVIOUS
  <2>2. \A t \in ts : /\ g[t] \in Int /\ h[t] \in Int /\ f[t] = g[t] + h[t]
                      /\ (t # at => g[t] = 0) /\ (t # back => h[t] = 0)
    BY <1>2, <1>3, <1>4, <2>1 DEF Effect, If
  <2>3. SumFunctionOnSet(f, ts) = SumFunctionOnSet(g, ts) + SumFunctionOnSet(h, ts)
    BY <1>1, <2>2, SumPlus
  <2>4. SumFunctionOnSet(g, ts) = IF at \in ts THEN g[at] ELSE 0
    BY <1>1, <2>2, SumSpike
  <2>5. SumFunctionOnSet(h, ts) = IF back \in ts THEN h[back] ELSE 0
    BY <1>1, <2>2, SumSpike
  <2>6. (at \in ts => g[at] = own) /\ (back \in ts => h[back] = -own)
    BY <2>1 DEF If
  <2>7. NetEffect(k, r, ts, w, i) = If(at \in ts, own) - If(back \in ts, own)
    BY <1>2, <1>4 DEF NetEffect
  <2> QED
    BY <1>3, <2>1, <2>3, <2>4, <2>5, <2>6, <2>7 DEF If
<1>5. CASE ~Posted(k, r)
  <2>1. PICK f : f = [t \in Days |-> Effect(k, r, t, w, i)]
    OBVIOUS
  <2>2. \A t \in ts : f[t] = 0
    BY <1>5, <2>1 DEF Effect
  <2>3. SumFunctionOnSet(f, ts) = 0
    BY <1>1, <2>2, SumZero
  <2> QED
    BY <1>5, <2>1, <2>3 DEF NetEffect
<1> QED
  BY <1>4, <1>5

LEMMA RangeIs ==
  ASSUME NEW a \in Days, NEW b \in Days
  PROVE  a .. b \in SUBSET Days /\ \A t \in Dates : InRange(Period(a, b), t) <=> t \in a .. b
<1>1. Days = 0 .. MaxDay /\ MaxDay \in Nat /\ a \in Int /\ b \in Int /\ a >= 0 /\ b <= MaxDay
  BY DaysAre, MovementsAssumption
<1>2. Null \notin a .. b
  BY <1>1, NullIs
<1> QED
  BY <1>1, <1>2 DEF Dates, InRange, Period

\* Two movements at most, of which one or both fall in the period.
LEMMA TwoNet ==
  ASSUME NEW f, NEW R, NEW m, NEW n, m # n, R \subseteq {m, n}, NEW x \in Int, NEW y \in Int,
         m \in R => f[m] = x, n \in R => f[n] = y
  PROVE  /\ IsFiniteSet(R) /\ \A z \in R : f[z] \in Int
         /\ SumFunctionOnSet(f, R) = (IF m \in R THEN x ELSE 0) + (IF n \in R THEN y ELSE 0)
<1>1. \A z \in R : f[z] \in Int
  OBVIOUS
<1>2. /\ IsFiniteSet(R)
      /\ SumFunctionOnSet(f, R) = (IF m \in R THEN f[m] ELSE 0) + (IF n \in R THEN f[n] ELSE 0)
  BY <1>1, SumPair
<1> QED
  BY <1>1, <1>2 DEF If

LEMMA MaxIs == ASSUME NEW n \in Int PROVE Max({n, 0}) = IF n >= 0 THEN n ELSE 0
BY DEF Max

LEMMA SideIs ==
  ASSUME NEW l \in Lines
  PROVE  LET up == [i \in Products |-> Max({l[i], 0})]
             down == [i \in Products |-> Max({-l[i], 0})]
         IN \A i \in Products : up[i] \in Int /\ down[i] \in Int /\ up[i] - down[i] = l[i]
<1>1. \A i \in Products : l[i] \in Int /\ -l[i] \in Int
  BY DEF Lines
<1> QED
  BY <1>1, MaxIs

\* The values of f over R are integers that add to n.
AddsTo(f, R, n) ==
    IsFiniteSet(R) /\ (\A z \in R : f[z] \in Int) /\ SumFunctionOnSet(f, R) = n

\* What the report makes of a document nets, in a warehouse it is asked for, to what
\* the document moved there.
LEMMA RowNets ==
  ASSUME NEW d, NEW k \in Kinds \ Manual, NEW r \in DocTypes, DatesOk(k, r), NEW ws,
         NEW w \in Warehouses, Sees(ws, w), NEW i \in Products, NEW a \in Days, NEW b \in Days,
         NEW f, \A z \in RowMoves(d, k, r, ws, Period(a, b)) : f[z] = Units(z, w, i)
  PROVE  AddsTo(f, RowMoves(d, k, r, ws, Period(a, b)), NetEffect(k, r, a .. b, w, i))
<1> USE DEF AddsTo
<1>1. PICK R, own, at, back, n, ts :
         /\ R = RowMoves(d, k, r, ws, Period(a, b)) /\ own = Own(k, r, w, i) /\ at = PostedAt(k, r)
         /\ back = r.cancelled /\ n = r.lines[i] /\ ts = a .. b
  OBVIOUS
<1>2. own \in Int /\ n \in Int /\ w # Null /\ Null \notin ts /\ (\A z \in R : f[z] = Units(z, w, i))
  <2>1. ts \in SUBSET Days
    BY <1>1, RangeIs
  <2> QED
    BY <1>1, <2>1, OwnIs, NullIs
<1>3. ASSUME ~Listed(k, r, ws)
      PROVE  R = {} /\ NetEffect(k, r, ts, w, i) = 0
  <2>1. R = {}
    BY <1>1, <1>3 DEF RowMoves
  <2>2. ASSUME Posted(k, r) PROVE own = 0
    <3>1. r.src # w /\ (k = "transfer" => r.dst # w)
      BY <1>3, <2>2 DEF Listed, SeesEither
    <3> QED
      BY <1>1, <1>2, <3>1 DEF Own, If
  <2> QED
    BY <1>1, <2>1, <2>2 DEF NetEffect, If
<1>4. CASE ~Listed(k, r, ws)
  <2>1. SumFunctionOnSet(f, {}) = 0 /\ IsFiniteSet({})
    BY SumEmpty, FS_EmptySet
  <2> QED
    BY <1>1, <1>3, <1>4, <2>1
<1>5. CASE Listed(k, r, ws)
  <2>1. Posted(k, r) /\ at \in Days /\ r.cancelled \in Dates
    BY <1>1, <1>5, RowTyped DEF Listed, DatesOk
  <2>2. NetEffect(k, r, ts, w, i) = If(at \in ts, own) - If(back \in ts, own)
    BY <1>1, <2>1 DEF NetEffect
  <2>3. \A t \in Dates : InRange(Period(a, b), t) <=> t \in ts
    BY <1>1, RangeIs
  <2>4. at \in Dates /\ back \in Dates
    BY <1>1, <2>1 DEF Dates
  <2>5. CASE k \in {"sale", "purchase", "outflow"}
    <3>1. PICK type, undo : /\ type = (IF k = "purchase" THEN "IN" ELSE "OUT")
                            /\ undo = (IF type = "IN" THEN "OUT" ELSE "IN")
      OBVIOUS
    <3>2. PICK x, y : /\ x = Moves(d, "saved", at, type, r.src, r.lines)
                      /\ y = Moves(d, "cancel", back, undo, r.src, r.lines)
      OBVIOUS
    <3>3. Steps(d, k, r) = {x} \cup (IF back = Null THEN {} ELSE {y})
      BY <1>1, <2>5, <3>1, <3>2 DEF Steps, PushDocument, Manual
    <3>4. /\ x.date = at /\ y.date = back /\ x # y
          /\ x.from = (IF type = "IN" THEN Null ELSE r.src) /\ x.to = (IF type = "IN" THEN r.src ELSE Null)
          /\ y.from = (IF undo = "IN" THEN Null ELSE r.src) /\ y.to = (IF undo = "IN" THEN r.src ELSE Null)
          /\ x.lines = r.lines /\ y.lines = r.lines
      <4>1. /\ x.part = "saved" /\ x.date = at /\ x.lines = r.lines
            /\ x.from = (IF type = "IN" THEN Null ELSE r.src) /\ x.to = (IF type = "IN" THEN r.src ELSE Null)
        BY <3>2, MovesIs
      <4>2. /\ y.part = "cancel" /\ y.date = back /\ y.lines = r.lines
            /\ y.from = (IF undo = "IN" THEN Null ELSE r.src) /\ y.to = (IF undo = "IN" THEN r.src ELSE Null)
        BY <3>2, MovesIs
      <4> QED
        BY <4>1, <4>2
    <3>5. R \subseteq {x, y} /\ (x \in R <=> at \in ts) /\ (y \in R <=> back \in ts)
      BY <1>1, <1>2, <1>5, <2>3, <2>4, <3>3, <3>4 DEF RowMoves
    <3>6. Units(x, w, i) = own /\ Units(y, w, i) = -own
      BY <1>1, <1>2, <2>5, <3>1, <3>4 DEF Units, Own, If
    <3>7. /\ IsFiniteSet(R) /\ \A z \in R : f[z] \in Int
          /\ SumFunctionOnSet(f, R) = (IF x \in R THEN own ELSE 0) + (IF y \in R THEN -own ELSE 0)
      <4>1. PICK minus : minus = -own
        OBVIOUS
      <4>2. /\ x # y /\ R \subseteq {x, y} /\ own \in Int /\ minus \in Int
            /\ x \in R => f[x] = own
            /\ y \in R => f[y] = minus
        BY <1>2, <3>4, <3>5, <3>6, <4>1
      <4>3. /\ IsFiniteSet(R) /\ \A z \in R : f[z] \in Int
            /\ SumFunctionOnSet(f, R) = (IF x \in R THEN own ELSE 0) + (IF y \in R THEN minus ELSE 0)
        BY <4>2, TwoNet
      <4> QED
        BY <4>1, <4>3
    <3>8. (IF x \in R THEN own ELSE 0) + (IF y \in R THEN -own ELSE 0) = If(at \in ts, own) - If(back \in ts, own)
      BY <1>2, <3>5 DEF If
    <3> QED
      BY <1>1, <2>2, <3>7, <3>8
  <2>6. CASE k \in {"transfer", "take"}
    <3>0. back = Null /\ back \notin ts /\ NetEffect(k, r, ts, w, i) = If(at \in ts, own)
      BY <1>1, <1>2, <2>2, <2>6 DEF DatesOk, If
    <3>1. CASE k = "transfer"
      <4>1. PICK x, y : /\ x = Movement(d, "saved", at, r.src, r.dst, r.lines)
                        /\ y = Movement(d, "cancel", at, r.src, r.dst, r.lines)
        OBVIOUS
      <4>2. /\ x.date = at /\ x.part = "saved" /\ x.from = r.src /\ x.to = r.dst /\ x.lines = r.lines
            /\ y.part = "cancel"
        BY <4>1, MovementIs
      <4>3. x # y /\ Steps(d, k, r) = {x}
        BY <1>1, <3>1, <4>1, <4>2 DEF Steps, PostedAt, Manual
      <4>4. R \subseteq {x, y} /\ (x \in R <=> at \in ts) /\ y \notin R
        BY <1>1, <1>5, <2>3, <2>4, <4>2, <4>3 DEF RowMoves
      <4>5. Units(x, w, i) = own
        BY <1>1, <1>2, <3>1, <4>2 DEF Units, Own
      <4>6. /\ IsFiniteSet(R) /\ \A z \in R : f[z] \in Int
            /\ SumFunctionOnSet(f, R) = (IF x \in R THEN own ELSE 0) + (IF y \in R THEN 0 ELSE 0)
        <5>0. PICK zero : zero = 0
          OBVIOUS
        <5>1. /\ x # y /\ R \subseteq {x, y} /\ own \in Int /\ zero \in Int
              /\ x \in R => f[x] = own
              /\ y \in R => f[y] = zero
          BY <1>1, <1>2, <4>3, <4>4, <4>5, <5>0
        <5>2. /\ IsFiniteSet(R) /\ \A z \in R : f[z] \in Int
              /\ SumFunctionOnSet(f, R) = (IF x \in R THEN own ELSE 0) + (IF y \in R THEN zero ELSE 0)
          BY <5>1, TwoNet
        <5> QED
          BY <5>0, <5>2
      <4>7. (IF x \in R THEN own ELSE 0) + (IF y \in R THEN 0 ELSE 0) = If(at \in ts, own)
        BY <1>2, <4>4 DEF If
      <4> QED
        BY <1>1, <3>0, <4>6, <4>7
    <3>2. CASE k = "take"
      <4>1. PICK up, down : /\ up = [j \in Products |-> Max({r.lines[j], 0})]
                            /\ down = [j \in Products |-> Max({-r.lines[j], 0})]
        OBVIOUS
      <4>2. up[i] \in Int /\ down[i] \in Int /\ up[i] - down[i] = n
        BY <1>1, <4>1, RowTyped, SideIs
      <4>3. PICK x, y : /\ x = Moves(d, "IN", at, "IN", r.src, up)
                        /\ y = Moves(d, "OUT", at, "OUT", r.src, down)
        OBVIOUS
      <4>4. /\ x.part = "IN" /\ x.date = at /\ x.from = Null /\ x.to = r.src /\ x.lines = up
            /\ y.part = "OUT" /\ y.date = at /\ y.from = r.src /\ y.to = Null /\ y.lines = down
        BY <4>3, MovesIs
      <4>5. Steps(d, k, r) = (IF up = NoLines THEN {} ELSE {x}) \cup (IF down = NoLines THEN {} ELSE {y})
        BY <1>1, <3>2, <4>1, <4>3 DEF Steps, Side, PostedAt, Manual
      <4>6. /\ R \subseteq {x, y} /\ x # y /\ (x \in R <=> at \in ts /\ up # NoLines)
            /\ (y \in R <=> at \in ts /\ down # NoLines)
        BY <1>1, <1>5, <2>3, <2>4, <4>4, <4>5 DEF RowMoves
      <4>7. PICK p, s : p = If(w = r.src, up[i]) /\ s = -If(w = r.src, down[i])
        OBVIOUS
      <4>8. p \in Int /\ s \in Int /\ Units(x, w, i) = p /\ Units(y, w, i) = s /\ p + s = own
        BY <1>1, <1>2, <3>2, <4>2, <4>4, <4>7 DEF Units, Own, If
      <4>9. (up = NoLines => p = 0) /\ (down = NoLines => s = 0)
        <5>1. NoLines[i] = 0
          BY DEF NoLines
        <5>2. (up = NoLines => up[i] = 0) /\ (down = NoLines => down[i] = 0)
          BY <5>1
        <5> QED
          <6>1. up = NoLines => If(w = r.src, up[i]) = 0
            BY <5>2 DEF If
          <6>2. down = NoLines => If(w = r.src, down[i]) = 0
            BY <5>2 DEF If
          <6> QED
            BY <4>7, <6>1, <6>2
      <4>10. /\ IsFiniteSet(R) /\ \A z \in R : f[z] \in Int
             /\ SumFunctionOnSet(f, R) = (IF x \in R THEN p ELSE 0) + (IF y \in R THEN s ELSE 0)
        <5>1. /\ x # y /\ R \subseteq {x, y} /\ p \in Int /\ s \in Int
              /\ x \in R => f[x] = p
              /\ y \in R => f[y] = s
          BY <1>2, <4>6, <4>8
        <5> QED
          BY <5>1, TwoNet
      <4>11. (IF x \in R THEN p ELSE 0) + (IF y \in R THEN s ELSE 0) = If(at \in ts, own)
        BY <1>2, <4>6, <4>8, <4>9 DEF If
      <4> QED
        BY <1>1, <3>0, <4>10, <4>11
    <3> QED
      BY <2>6, <3>1, <3>2
  <2> QED
    BY <2>5, <2>6 DEF Kinds, Manual
<1> QED
  BY <1>4, <1>5

\* And what the document moved there is what its row says.
LEMMA MovedNets ==
  ASSUME MovementsInv, NEW d \in Docs, kind[d] \notin Manual, d \notin resent, NEW ts \in SUBSET Days,
         NEW w \in Warehouses, NEW i \in Products
  PROVE  MovedBy(d, ts, w, i) = NetEffect(kind[d], doc[d], ts, w, i)
<1>1. PICK k, r, m : k = kind[d] /\ r = doc[d] /\ m = moved[d]
  OBVIOUS
<1>2. r \in DocTypes /\ m \in Histories /\ \A t \in Days : m[t][w][i] = Effect(k, r, t, w, i)
  BY <1>1, RowFacts DEF RowOk
<1>3. [t \in Days |-> m[t][w][i]] = [t \in Days |-> Effect(k, r, t, w, i)]
  BY <1>2
<1>4. SumFunctionOnSet([t \in Days |-> Effect(k, r, t, w, i)], ts) = NetEffect(k, r, ts, w, i)
  BY <1>2, EffectSum
<1> QED
  BY <1>1, <1>3, <1>4 DEF MovedBy

\* What the report shows of the documents D nets to what it shows of each.
LEMMA NetByDoc ==
  ASSUME MovementsInv, NEW ws, NEW q, NEW D \in SUBSET Docs, NEW S,
         \A m : m \in S <=> m \in FindAll(ws, q) /\ m.doc \in D,
         NEW w, NEW i, NEW f, f = [m \in S |-> Units(m, w, i)],
         \A d \in D : LET R == RowMoves(d, kind[d], doc[d], ws, q) IN
                      IsFiniteSet(R) /\ \A m \in R : f[m] \in Int
  PROVE  Net(S, w, i) = SumFunctionOnSet([d \in D |-> SumFunctionOnSet(f, RowMoves(d, kind[d], doc[d], ws, q))], D)
<1>1. PICK P, g : /\ P = [d \in D |-> RowMoves(d, kind[d], doc[d], ws, q)]
                  /\ g = [d \in D |-> SumFunctionOnSet(f, RowMoves(d, kind[d], doc[d], ws, q))]
  OBVIOUS
<1>2. \A d, k, r : \A m \in RowMoves(d, k, r, ws, q) : m.doc = d
  BY StepsAre DEF RowMoves
<1>3. \A m : m \in S <=> \E d \in D : m \in P[d]
  BY <1>1, <1>2, ShownIs
<1>4. IsFiniteSet(D)
  BY MovementsAssumption, FS_Subset
<1>5. Partition(P, D, S)
  <2>1. \A d \in D : IsFiniteSet(P[d])
    BY <1>1
  <2>2. \A c, d \in D : c # d => P[c] \cap P[d] = {}
    BY <1>1, <1>2
  <2> QED
    BY <1>3, <1>4, <2>1, <2>2 DEF Partition
<1>6. \A m \in S : f[m] \in Int
  BY <1>1, <1>3
<1>7. \A d \in D : g[d] = SumFunctionOnSet(f, P[d])
  BY <1>1
<1>8. SumFunctionOnSet(g, D) = SumFunctionOnSet(f, S)
  BY ONLY <1>5, <1>6, <1>7, SumByParts
<1> QED
  BY <1>1, <1>8 DEF Net

\* What the report shows in a warehouse of the documents D nets to what their rows say.
LEMMA ReportNetsRows ==
  ASSUME MovementsInv, NEW a \in Days, NEW b \in Days, NEW w \in Warehouses, NEW i \in Products,
         NEW ws, Sees(ws, w), NEW X, Undated \subseteq X, NEW D, D = Docs \ X
  PROVE  Net({m \in FindAll(ws, Period(a, b)) : m.doc \notin X}, w, i)
           = SumFunctionOnSet([d \in Docs |-> MovedBy(d, a .. b, w, i)], D)
<1>1. PICK S, f, q :
                        /\ q = Period(a, b)
                        /\ S = {m \in FindAll(ws, q) : m.doc \notin X}
                        /\ f = [m \in S |-> Units(m, w, i)]
  OBVIOUS
<1>2. D \in SUBSET Docs /\ IsFiniteSet(D) /\ a .. b \in SUBSET Days
  BY MovementsAssumption, FS_Subset, RangeIs
<1>3. \A d, k, r : \A m \in RowMoves(d, k, r, ws, q) : m.doc = d
  BY StepsAre DEF RowMoves
<1>4. \A m : m \in S <=> m \in FindAll(ws, q) /\ m.doc \in D
  <2>1. \A m : m \in FindAll(ws, q) <=> \E d \in Docs : m \in RowMoves(d, kind[d], doc[d], ws, q)
    BY ShownIs
  <2>2. \A m \in FindAll(ws, q) : m.doc \in Docs
    BY <1>3, <2>1
  <2> QED
    BY <1>1, <2>2
<1>10. ASSUME NEW d \in D, NEW m \in RowMoves(d, kind[d], doc[d], ws, q)
       PROVE  f[m] = Units(m, w, i)
  <2>1. \A x : x \in FindAll(ws, q) <=> \E e \in Docs : x \in RowMoves(e, kind[e], doc[e], ws, q)
    BY ShownIs
  <2>2. m.doc = d /\ m \in FindAll(ws, q)
    BY <1>2, <1>3, <2>1
  <2>3. m \in S
    BY <1>4, <2>2
  <2> QED
    BY <1>1, <2>3
<1>5. ASSUME NEW d \in D
      PROVE  LET R == RowMoves(d, kind[d], doc[d], ws, q) IN
             /\ IsFiniteSet(R) /\ \A m \in R : f[m] \in Int
             /\ SumFunctionOnSet(f, R) = MovedBy(d, a .. b, w, i) /\ MovedBy(d, a .. b, w, i) \in Int
  <2>1. PICK k, r : k = kind[d] /\ r = doc[d]
    OBVIOUS
  <2>2. d \in Docs /\ k \in Kinds \ Manual /\ d \notin resent /\ r \in DocTypes /\ DatesOk(k, r) /\ Sees(ws, w)
    BY <1>1, <1>2, <2>1, RowFacts DEF Undated
  <2>3. \A m \in RowMoves(d, k, r, ws, Period(a, b)) : f[m] = Units(m, w, i)
    BY <1>1, <1>10, <2>1
  <2>4. /\ IsFiniteSet(RowMoves(d, k, r, ws, Period(a, b)))
        /\ \A m \in RowMoves(d, k, r, ws, Period(a, b)) : f[m] \in Int
        /\ SumFunctionOnSet(f, RowMoves(d, k, r, ws, Period(a, b))) = NetEffect(k, r, a .. b, w, i)
    <3>1. AddsTo(f, RowMoves(d, k, r, ws, Period(a, b)), NetEffect(k, r, a .. b, w, i))
      BY <2>2, <2>3, RowNets
    <3> QED
      BY <3>1 DEF AddsTo
  <2>5. MovedBy(d, a .. b, w, i) = NetEffect(kind[d], doc[d], a .. b, w, i)
    BY <1>2, <2>1, <2>2, MovedNets
  <2>6. SumFunctionOnSet(f, RowMoves(d, k, r, ws, Period(a, b))) \in Int
    BY <2>4, SumStep
  <2> QED
    BY <1>1, <2>1, <2>4, <2>5, <2>6
<1>11. \A d \in D : LET R == RowMoves(d, kind[d], doc[d], ws, q) IN
                     IsFiniteSet(R) /\ \A m \in R : f[m] \in Int
  BY <1>5
<1>12. f = [m \in S |-> Units(m, w, i)]
  BY <1>1
<1>6. Net(S, w, i) = SumFunctionOnSet([d \in D |-> SumFunctionOnSet(f, RowMoves(d, kind[d], doc[d], ws, q))], D)
  BY <1>2, <1>4, <1>11, <1>12, NetByDoc
<1>7. PICK g, h : /\ g = [d \in D |-> SumFunctionOnSet(f, RowMoves(d, kind[d], doc[d], ws, q))]
                  /\ h = [d \in Docs |-> MovedBy(d, a .. b, w, i)]
  OBVIOUS
<1>8. \A d \in D : g[d] \in Int /\ g[d] = h[d]
  BY <1>2, <1>5, <1>7
<1>9. SumFunctionOnSet(g, D) = SumFunctionOnSet(h, D)
  BY <1>2, <1>8, SumSame
<1> QED
  BY <1>1, <1>6, <1>7, <1>9

LEMMA ByIs ==
  ASSUME MovementsInv, NEW d \in Docs, NEW ts \in SUBSET Days, NEW w \in Warehouses, NEW i \in Products
  PROVE  /\ landed[d] \in Histories /\ moved[d] \in Histories /\ SameUnits(moved[d], landed[d])
         /\ MovedBy(d, ts, w, i) \in Int /\ LandedBy(d, ts, w, i) \in Int
<1>1. PICK m, l : m = moved[d] /\ l = landed[d]
  OBVIOUS
<1>2. m \in Histories /\ l \in Histories /\ SameUnits(m, l)
  BY <1>1 DEF MovementsInv, MovementsTypeOK, Histories, Deltas
<1>3. /\ SumFunctionOnSet([u \in Days |-> m[u][w][i]], ts) \in Int
      /\ SumFunctionOnSet([u \in Days |-> l[u][w][i]], ts) \in Int
  BY <1>2, HistorySum
<1> QED
  BY <1>1, <1>2, <1>3 DEF MovedBy, LandedBy

LEMMA NetsOutHolds == MovementsInv => NetsOut
<1> SUFFICES ASSUME MovementsInv, NEW a \in Days, NEW b \in Days, NEW w \in Warehouses, NEW i \in Products
             PROVE  Net({m \in FindAll({w}, Period(a, b)) : m.doc \notin Undated \cup Strayed}, w, i)
                      = Total(Docs \ (Undated \cup Strayed), a .. b, w, i)
  BY DEF NetsOut
<1>1. PICK X, D, f, g : /\ X = Undated \cup Strayed /\ D = Docs \ X
                        /\ f = [d \in Docs |-> MovedBy(d, a .. b, w, i)]
                        /\ g = [d \in Docs |-> LandedBy(d, a .. b, w, i)]
  OBVIOUS
<1>2. Sees({w}, w) /\ Undated \subseteq X /\ IsFiniteSet(D) /\ a .. b \in SUBSET Days
  BY <1>1, MovementsAssumption, FS_Subset, RangeIs DEF Sees
<1>3. Net({m \in FindAll({w}, Period(a, b)) : m.doc \notin X}, w, i) = SumFunctionOnSet(f, D)
  BY <1>1, <1>2, ReportNetsRows
<1>4. \A d \in D : f[d] \in Int /\ f[d] = g[d]
  <2>1. \A d \in D : landed[d] = moved[d] /\ d \in Docs
    BY <1>1 DEF Strayed
  <2>2. \A d \in D : MovedBy(d, a .. b, w, i) \in Int
    BY <1>2, <2>1, ByIs
  <2> QED
    BY <1>1, <2>1, <2>2 DEF MovedBy, LandedBy
<1>5. SumFunctionOnSet(f, D) = SumFunctionOnSet(g, D)
  BY <1>2, <1>4, SumSame
<1> QED
  BY <1>1, <1>3, <1>5 DEF Total

\* In all warehouses together a document moved what its row says.
LEMMA DocPlaces ==
  ASSUME MovementsInv, NEW d \in Docs, NEW ts \in SUBSET Days, NEW i \in Products
  PROVE  SumFunctionOnSet([w \in Warehouses |-> MovedBy(d, ts, w, i)], Warehouses)
           = SumFunctionOnSet([w \in Warehouses |-> LandedBy(d, ts, w, i)], Warehouses)
<1> DEFINE grid(h) == [w \in Warehouses |-> [t \in Days |-> h[t][w][i]]]
           by(h) == [w \in Warehouses |-> SumFunctionOnSet(grid(h)[w], ts)]
           on(h) == [t \in ts |-> SumFunctionOnSet([w \in Warehouses |-> h[t][w][i]], Warehouses)]
<1>1. PICK m, l : m = moved[d] /\ l = landed[d]
  OBVIOUS
<1>2. m \in Histories /\ l \in Histories /\ SameUnits(m, l)
  BY <1>1 DEF MovementsInv, MovementsTypeOK, Histories, Deltas
<1>3. IsFiniteSet(ts) /\ IsFiniteSet(Warehouses)
  BY MovementsAssumption, DaysAre, FS_Subset
<1>4. ASSUME NEW h \in Histories
      PROVE  SumFunctionOnSet(by(h), Warehouses) = SumFunctionOnSet(on(h), ts)
  <2>1. PICK A : A = grid(h)
    OBVIOUS
  <2>2. \A w \in Warehouses, t \in ts : A[w][t] \in Int /\ A[w][t] = h[t][w][i]
    <3>1. \A w \in Warehouses, t \in Days : h[t][w][i] \in Int
      BY DEF Histories, Deltas
    <3> QED
      BY <2>1, <3>1
  <2>3. SumFunctionOnSet([w \in Warehouses |-> SumFunctionOnSet(A[w], ts)], Warehouses)
          = SumFunctionOnSet([t \in ts |-> SumFunctionOnSet([w \in Warehouses |-> A[w][t]], Warehouses)], ts)
    BY <1>3, <2>2, SumSwap
  <2>4. \A t \in ts : [w \in Warehouses |-> A[w][t]] = [w \in Warehouses |-> h[t][w][i]]
    BY <2>2
  <2>5. [t \in ts |-> SumFunctionOnSet([w \in Warehouses |-> A[w][t]], Warehouses)] = on(h)
    BY <2>4
  <2> QED
    BY <2>1, <2>3, <2>5
<1>5. on(m) = on(l)
  BY <1>2 DEF SameUnits
<1>6. /\ [w \in Warehouses |-> MovedBy(d, ts, w, i)] = by(m)
      /\ [w \in Warehouses |-> LandedBy(d, ts, w, i)] = by(l)
  BY <1>1 DEF MovedBy, LandedBy
<1>7. /\ SumFunctionOnSet(by(m), Warehouses) = SumFunctionOnSet(on(m), ts)
      /\ SumFunctionOnSet(by(l), Warehouses) = SumFunctionOnSet(on(l), ts)
  BY <1>2, <1>4
<1> HIDE DEF by, on
<1> QED
  BY <1>5, <1>6, <1>7

\* So did any documents.
LEMMA DocsPlaces ==
  ASSUME MovementsInv, NEW D \in SUBSET Docs, NEW ts \in SUBSET Days, NEW i \in Products
  PROVE  SumFunctionOnSet([w \in Warehouses |->
                 SumFunctionOnSet([d \in Docs |-> MovedBy(d, ts, w, i)], D)], Warehouses)
           = SumFunctionOnSet([w \in Warehouses |-> Total(D, ts, w, i)], Warehouses)
<1>1. PICK M, L, x, y : /\ M = [w \in Warehouses |-> [d \in Docs |-> MovedBy(d, ts, w, i)]]
                        /\ L = [w \in Warehouses |-> [d \in Docs |-> LandedBy(d, ts, w, i)]]
                        /\ x = [d \in D |-> SumFunctionOnSet([w \in Warehouses |-> M[w][d]], Warehouses)]
                        /\ y = [d \in D |-> SumFunctionOnSet([w \in Warehouses |-> L[w][d]], Warehouses)]
  OBVIOUS
<1>2. IsFiniteSet(D) /\ IsFiniteSet(Warehouses)
  BY MovementsAssumption, FS_Subset
<1>3. (\A w \in Warehouses, d \in D : M[w][d] \in Int) /\ \A w \in Warehouses, d \in D : L[w][d] \in Int
  <2>1. \A w \in Warehouses, d \in Docs : MovedBy(d, ts, w, i) \in Int /\ LandedBy(d, ts, w, i) \in Int
    BY ByIs
  <2> QED
    BY <1>1, <2>1
<1>4. /\ SumFunctionOnSet([w \in Warehouses |-> SumFunctionOnSet(M[w], D)], Warehouses) = SumFunctionOnSet(x, D)
      /\ SumFunctionOnSet([w \in Warehouses |-> SumFunctionOnSet(L[w], D)], Warehouses) = SumFunctionOnSet(y, D)
  <2>1. ASSUME NEW A, \A w \in Warehouses, d \in D : A[w][d] \in Int
        PROVE  SumFunctionOnSet([w \in Warehouses |-> SumFunctionOnSet(A[w], D)], Warehouses)
             = SumFunctionOnSet([d \in D |-> SumFunctionOnSet([w \in Warehouses |-> A[w][d]], Warehouses)], D)
    BY <1>2, <2>1, SumSwap
  <2> QED
    BY <1>1, <1>3, <2>1
<1>5. x = y
  <2>1. ASSUME NEW d \in D
        PROVE  SumFunctionOnSet([w \in Warehouses |-> M[w][d]], Warehouses)
                 = SumFunctionOnSet([w \in Warehouses |-> L[w][d]], Warehouses)
    <3>1. /\ [w \in Warehouses |-> M[w][d]] = [w \in Warehouses |-> MovedBy(d, ts, w, i)]
          /\ [w \in Warehouses |-> L[w][d]] = [w \in Warehouses |-> LandedBy(d, ts, w, i)]
      BY <1>1
    <3>2. SumFunctionOnSet([w \in Warehouses |-> MovedBy(d, ts, w, i)], Warehouses)
            = SumFunctionOnSet([w \in Warehouses |-> LandedBy(d, ts, w, i)], Warehouses)
      BY DocPlaces
    <3> QED
      BY <3>1, <3>2, Zenon
  <2> QED
    BY <1>1, <2>1
<1>6. /\ [w \in Warehouses |-> SumFunctionOnSet([d \in Docs |-> MovedBy(d, ts, w, i)], D)]
           = [w \in Warehouses |-> SumFunctionOnSet(M[w], D)]
      /\ [w \in Warehouses |-> Total(D, ts, w, i)] = [w \in Warehouses |-> SumFunctionOnSet(L[w], D)]
  BY <1>1 DEF Total
<1> QED
  BY <1>4, <1>5, <1>6

LEMMA AllPlacesHold == MovementsInv => AllPlaces
<1> SUFFICES ASSUME MovementsInv, NEW a \in Days, NEW b \in Days, NEW i \in Products
             PROVE  SumFunctionOnSet([w \in Warehouses |->
                            Net({m \in FindAll(Null, Period(a, b)) : m.doc \notin Undated}, w, i)], Warehouses)
                      = SumFunctionOnSet([w \in Warehouses |-> Total(Docs \ Undated, a .. b, w, i)], Warehouses)
  BY DEF AllPlaces
<1> DEFINE net(w) == Net({m \in FindAll(Null, Period(a, b)) : m.doc \notin Undated}, w, i)
           rows(w) == SumFunctionOnSet([d \in Docs |-> MovedBy(d, a .. b, w, i)], Docs \ Undated)
<1>1. a .. b \in SUBSET Days /\ Docs \ Undated \in SUBSET Docs /\ \A w \in Warehouses : Sees(Null, w)
  BY RangeIs DEF Sees
<1>2. ASSUME NEW w \in Warehouses PROVE net(w) = rows(w)
  <2>1. PICK X, D, ws, A : /\ X = Undated /\ D = Docs \ X /\ ws = Null
                           /\ A = {m \in FindAll(ws, Period(a, b)) : m.doc \notin X}
    OBVIOUS
  <2>2. Sees(ws, w) /\ Undated \subseteq X
    BY <1>1, <2>1
  <2>3. Net({m \in FindAll(ws, Period(a, b)) : m.doc \notin X}, w, i)
          = SumFunctionOnSet([d \in Docs |-> MovedBy(d, a .. b, w, i)], D)
    BY <2>1, <2>2, ReportNetsRows
  <2>4. A = {m \in FindAll(Null, Period(a, b)) : m.doc \notin Undated}
    BY <2>1
  <2>5. Net(A, w, i) = SumFunctionOnSet([d \in Docs |-> MovedBy(d, a .. b, w, i)], D)
    BY <2>1, <2>3, Zenon
  <2>6. net(w) = Net(A, w, i)
    BY <2>4, Zenon
  <2>7. D = Docs \ Undated
    BY <2>1
  <2>8. rows(w) = SumFunctionOnSet([d \in Docs |-> MovedBy(d, a .. b, w, i)], D)
    BY <2>7, Zenon
  <2> QED
    BY <2>5, <2>6, <2>8, Zenon
<1>3. SumFunctionOnSet([w \in Warehouses |-> rows(w)], Warehouses)
        = SumFunctionOnSet([w \in Warehouses |-> Total(Docs \ Undated, a .. b, w, i)], Warehouses)
  BY <1>1, DocsPlaces
<1> HIDE DEF net, rows
<1>4. [w \in Warehouses |-> net(w)] = [w \in Warehouses |-> rows(w)]
  BY <1>2
<1>5. SumFunctionOnSet([w \in Warehouses |-> net(w)], Warehouses)
        = SumFunctionOnSet([w \in Warehouses |-> Total(Docs \ Undated, a .. b, w, i)], Warehouses)
  BY <1>3, <1>4
<1> QED
  BY <1>5 DEF net

\* What goes from one warehouse to another adds to nothing.
LEMMA ShiftNets ==
  ASSUME NEW f, NEW x \in Warehouses, NEW y \in Warehouses, x # y, f[x] \in Int, f[y] = -f[x],
         \A w \in Warehouses \ {x, y} : f[w] = 0
  PROVE  SumFunctionOnSet(f, Warehouses) = 0
<1>1. PICK T : T = {x, y}
  OBVIOUS
<1>2. T \in SUBSET Warehouses /\ x \in T /\ y \in T /\ T \subseteq {x, y}
  BY <1>1
<1>3. \A w \in Warehouses : f[w] \in Int /\ (w \notin T => f[w] = 0)
  BY <1>1
<1>4. SumFunctionOnSet(f, Warehouses) = SumFunctionOnSet(f, T)
  BY <1>2, <1>3, MovementsAssumption, SumSupport
<1>5. SumFunctionOnSet(f, T) = (IF x \in T THEN f[x] ELSE 0) + (IF y \in T THEN f[y] ELSE 0)
  BY <1>2, <1>3, SumPair
<1> QED
  BY <1>2, <1>4, <1>5

\* A transfer, sent again or not, moved nothing over all warehouses,
LEMMA TransferMoves ==
  ASSUME MovementsInv, NEW d \in Docs, kind[d] = "transfer", NEW i \in Products
  PROVE  /\ \A w \in Warehouses : MovedBy(d, Days, w, i) \in Int
         /\ SumFunctionOnSet([w \in Warehouses |-> MovedBy(d, Days, w, i)], Warehouses) = 0
<1>1. PICK r, m, f : r = doc[d] /\ m = moved[d] /\ f = [w \in Warehouses |-> MovedBy(d, Days, w, i)]
  OBVIOUS
<1>2. m \in Histories /\ TransferOk(r, m) /\ IsFiniteSet(Days) /\ Days \in SUBSET Days
  BY <1>1, RowFacts, DaysAre DEF RowOk
<1>3. \A w \in Warehouses : f[w] = SumFunctionOnSet([t \in Days |-> m[t][w][i]], Days)
  BY <1>1 DEF MovedBy
<1>4. \A w \in Warehouses : f[w] \in Int /\ \A t \in Days : m[t][w][i] \in Int
  <2> SUFFICES ASSUME NEW w \in Warehouses PROVE f[w] \in Int /\ \A t \in Days : m[t][w][i] \in Int
    OBVIOUS
  <2>1. SumFunctionOnSet([u \in Days |-> m[u][w][i]], Days) \in Int /\ \A u \in Days : m[u][w][i] \in Int
    BY <1>2, HistorySum
  <2> QED
    BY <1>3, <2>1
<1>5. ASSUME NEW w \in Warehouses \ {r.src, r.dst} PROVE f[w] = 0
  <2>1. PICK g : g = [t \in Days |-> m[t][w][i]]
    OBVIOUS
  <2>2. \A t \in Days : g[t] = 0
    BY <1>2, <2>1 DEF TransferOk
  <2>3. SumFunctionOnSet(g, Days) = 0
    BY <1>2, <2>2, SumZero
  <2> QED
    BY <1>3, <2>1, <2>3
<1>6. CASE r.status = "none"
  <2>1. \A w \in Warehouses : f[w] = 0
    BY <1>2, <1>5, <1>6, NullIs DEF TransferOk
  <2>2. SumFunctionOnSet(f, Warehouses) = 0
    BY <2>1, MovementsAssumption, SumZero
  <2> QED
    BY <1>1, <1>4, <2>2
<1>7. CASE r.status # "none"
  <2>1. r.src \in Warehouses /\ r.dst \in Warehouses /\ r.src # r.dst
    BY <1>2, <1>7 DEF TransferOk
  <2>2. PICK g, h, z : /\ g = [t \in Days |-> m[t][r.src][i]] /\ h = [t \in Days |-> m[t][r.dst][i]]
                       /\ z = [t \in Days |-> 0]
    OBVIOUS
  <2>3. \A t \in Days : g[t] \in Int /\ h[t] \in Int /\ z[t] = g[t] + h[t] /\ z[t] = 0
    <3>1. \A t \in Days : m[t][r.dst][i] = -m[t][r.src][i]
      BY <1>2, <1>7 DEF TransferOk
    <3> QED
      BY <1>4, <2>1, <2>2, <3>1
  <2>4. SumFunctionOnSet(z, Days) = SumFunctionOnSet(g, Days) + SumFunctionOnSet(h, Days)
    BY <1>2, <2>3, SumPlus
  <2>5. SumFunctionOnSet(z, Days) = 0
    BY <1>2, <2>3, SumZero
  <2>6. f[r.src] = SumFunctionOnSet(g, Days) /\ f[r.dst] = SumFunctionOnSet(h, Days)
    BY <1>3, <2>1, <2>2
  <2>7. f[r.dst] = -f[r.src]
    BY <1>4, <2>1, <2>4, <2>5, <2>6
  <2>8. SumFunctionOnSet(f, Warehouses) = 0
    BY <1>4, <1>5, <2>1, <2>7, ShiftNets
  <2> QED
    BY <1>1, <1>4, <2>8
<1> QED
  BY <1>6, <1>7

\* and the report shows as much.
LEMMA TransferShows ==
  ASSUME NEW r \in DocTypes, r.src # r.dst, r.src \in Warehouses, r.dst \in Warehouses, NEW ts, NEW i \in Products
  PROVE  r.cancelled = Null /\ Null \notin ts =>
           SumFunctionOnSet([w \in Warehouses |-> NetEffect("transfer", r, ts, w, i)], Warehouses) = 0
<1> SUFFICES ASSUME r.cancelled = Null, Null \notin ts
             PROVE  SumFunctionOnSet([w \in Warehouses |-> NetEffect("transfer", r, ts, w, i)], Warehouses) = 0
  OBVIOUS
<1>1. PICK f, n : f = [w \in Warehouses |-> NetEffect("transfer", r, ts, w, i)] /\ n = r.lines[i]
  OBVIOUS
<1>2. n \in Int
  BY <1>1, RowTyped
<1>3. \A w \in Warehouses : f[w] = IF Posted("transfer", r) /\ PostedAt("transfer", r) \in ts
                                   THEN If(w = r.dst, n) - If(w = r.src, n) ELSE 0
  BY <1>1, <1>2 DEF NetEffect, Own, If
<1>4. f[r.src] \in Int /\ f[r.dst] = -f[r.src] /\ \A w \in Warehouses \ {r.src, r.dst} : f[w] = 0
  BY <1>2, <1>3 DEF If
<1>5. SumFunctionOnSet(f, Warehouses) = 0
  BY <1>4, ShiftNets
<1> QED
  BY <1>1, <1>5

\* A transaction moved over all warehouses what it brings in,
LEMMA ManualMoves ==
  ASSUME MovementsInv, NEW d \in Docs, kind[d] \in Manual, NEW i \in Products
  PROVE  /\ \A w \in Warehouses : MovedBy(d, Days, w, i) \in Int
         /\ SumFunctionOnSet([w \in Warehouses |-> MovedBy(d, Days, w, i)], Warehouses)
              = IF doc[d].status = "ACTIVE" THEN Brought(kind[d], doc[d], i) ELSE 0
<1>1. PICK k, r, f, n : /\ k = kind[d] /\ r = doc[d] /\ n = Brought(k, r, i)
                        /\ f = [w \in Warehouses |-> MovedBy(d, Days, w, i)]
  OBVIOUS
<1>2. r \in DocTypes /\ ManualOk(k, r, moved[d]) /\ k \in Manual
  BY <1>1, RowFacts DEF RowOk
<1>3. n \in Int
  BY <1>1, <1>2, RowTyped DEF Brought, Manual
<1>4. \A w \in Warehouses : f[w] = If(w = r.home, n)
  BY <1>1, <1>2 DEF ManualOk, MovedBy
<1>5. \A w \in Warehouses : f[w] \in Int /\ (w # r.home => f[w] = 0)
  BY <1>3, <1>4 DEF If
<1>6. SumFunctionOnSet(f, Warehouses) = IF r.home \in Warehouses THEN f[r.home] ELSE 0
  BY <1>5, MovementsAssumption, SumSpike
<1>7. r.home \in Warehouses <=> r.status = "ACTIVE"
  BY <1>2, NullIs DEF ManualOk, DeclaredOk
<1> QED
  BY <1>1, <1>4, <1>5, <1>6, <1>7 DEF If

\* and the report of the whole history shows as much.
LEMMA ManualShows ==
  ASSUME MovementsInv, NEW d \in Docs, kind[d] \in Manual, NEW i \in Products, NEW q, q = Period(0, MaxDay),
         NEW R, R = RowMoves(d, kind[d], doc[d], Null, q),
         NEW f, \A w \in Warehouses : \A m \in R : f[w][m] = Units(m, w, i)
  PROVE  /\ IsFiniteSet(R) /\ \A w \in Warehouses : \A m \in R : f[w][m] \in Int
         /\ \A w \in Warehouses : SumFunctionOnSet(f[w], R) \in Int
         /\ SumFunctionOnSet([w \in Warehouses |-> SumFunctionOnSet(f[w], R)], Warehouses)
              = IF doc[d].status = "ACTIVE" THEN Brought(kind[d], doc[d], i) ELSE 0
<1>1. PICK k, r, n, x : /\ k = kind[d] /\ r = doc[d] /\ n = r.lines[i]
                        /\ x = Movement(d, "saved", r.date, r.src, r.dst, r.lines)
  OBVIOUS
<1>2. r \in DocTypes /\ DeclaredOk(k, r) /\ k \in Manual /\ n \in Int
  BY <1>1, RowFacts, RowTyped DEF RowOk, ManualOk
<1>3. x.date = r.date /\ x.from = r.src /\ x.to = r.dst /\ x.lines = r.lines
  BY <1>1, MovementIs
<1>4. Listed(k, r, Null) <=> r.status = "ACTIVE"
  BY <1>2 DEF Listed, SeesEither, Sees
<1>5. r.status = "ACTIVE" => InRange(q, r.date)
  <2>1. \A t \in Days : t # Null /\ 0 <= t /\ t <= MaxDay
    BY DaysAre, MovementsAssumption, NullIs
  <2> QED
    BY <1>2, <2>1 DEF DeclaredOk, InRange, Period
<1>6. R = IF r.status = "ACTIVE" THEN {x} ELSE {}
  BY <1>1, <1>2, <1>3, <1>4, <1>5 DEF RowMoves, Steps
<1>7. \A w \in Warehouses : x \in R => f[w][x] = If(w = r.dst, n) - If(w = r.src, n)
  BY <1>1, <1>3 DEF Units
<1>8. IsFiniteSet(R) /\ \A w \in Warehouses : \A m \in R : f[w][m] \in Int
  <2>1. IsFiniteSet(R)
    BY <1>6, FS_EmptySet, FS_Singleton
  <2>2. \A w \in Warehouses : x \in R => f[w][x] \in Int
    BY <1>2, <1>7 DEF If
  <2> QED
    BY <1>6, <2>1, <2>2
<1>9. CASE r.status # "ACTIVE"
  <2>1. \A w \in Warehouses : SumFunctionOnSet(f[w], R) = 0
    BY <1>6, <1>9, SumEmpty
  <2>2. PICK g : g = [w \in Warehouses |-> SumFunctionOnSet(f[w], R)]
    OBVIOUS
  <2>3. \A w \in Warehouses : g[w] = 0
    BY <2>1, <2>2
  <2>4. SumFunctionOnSet(g, Warehouses) = 0
    BY <2>3, MovementsAssumption, SumZero
  <2> QED
    BY <1>1, <1>8, <1>9, <2>1, <2>2, <2>4
<1>10. CASE r.status = "ACTIVE"
  <2>1. \A w \in Warehouses : SumFunctionOnSet(f[w], R) = If(w = r.dst, n) - If(w = r.src, n)
    <3> SUFFICES ASSUME NEW w \in Warehouses
                 PROVE  SumFunctionOnSet(f[w], R) = If(w = r.dst, n) - If(w = r.src, n)
      OBVIOUS
    <3>1. PICK h : h = f[w]
      OBVIOUS
    <3>2. \A m \in R : h[m] \in Int
      BY <1>8, <3>1
    <3>3. x \in R /\ R \ {x} = {}
      BY <1>6, <1>10
    <3>4. SumFunctionOnSet(h, R) = h[x] + SumFunctionOnSet(h, R \ {x})
      BY <1>8, <3>2, <3>3, SumStep
    <3>5. SumFunctionOnSet(h, R \ {x}) = 0
      BY <3>3, SumEmpty
    <3> QED
      BY <1>7, <3>1, <3>2, <3>3, <3>4, <3>5
  <2>2. PICK g, a, b : /\ g = [w \in Warehouses |-> SumFunctionOnSet(f[w], R)]
                       /\ a = [w \in Warehouses |-> If(w = r.dst, n)]
                       /\ b = [w \in Warehouses |-> If(w = r.src, -n)]
    OBVIOUS
  <2>3. \A w \in Warehouses : /\ a[w] \in Int /\ b[w] \in Int /\ g[w] = a[w] + b[w]
                              /\ (w # r.dst => a[w] = 0) /\ (w # r.src => b[w] = 0)
    BY <1>2, <2>1, <2>2 DEF If
  <2>4. SumFunctionOnSet(g, Warehouses) = SumFunctionOnSet(a, Warehouses) + SumFunctionOnSet(b, Warehouses)
    BY <2>3, MovementsAssumption, SumPlus
  <2>5. SumFunctionOnSet(a, Warehouses) = IF r.dst \in Warehouses THEN a[r.dst] ELSE 0
    BY <2>3, MovementsAssumption, SumSpike
  <2>6. SumFunctionOnSet(b, Warehouses) = IF r.src \in Warehouses THEN b[r.src] ELSE 0
    BY <2>3, MovementsAssumption, SumSpike
  <2>7. /\ r.src \in Warehouses <=> k # "entry"
        /\ r.dst \in Warehouses <=> k # "exit"
    BY <1>2, <1>10 DEF DeclaredOk
  <2>8. SumFunctionOnSet(g, Warehouses) = Brought(k, r, i)
    BY <1>1, <1>2, <2>2, <2>4, <2>5, <2>6, <2>7 DEF Brought, If, Manual
  <2>9. \A w \in Warehouses : SumFunctionOnSet(f[w], R) \in Int
    BY <2>2, <2>3
  <2> QED
    BY <1>1, <1>8, <1>10, <2>2, <2>8, <2>9
<1> QED
  BY <1>9, <1>10

LEMMA DocWhole ==
  ASSUME MovementsInv, NEW d \in Docs, NEW i \in Products, NEW q, q = Period(0, MaxDay),
         NEW R, R = RowMoves(d, kind[d], doc[d], Null, q),
         NEW f, \A w \in Warehouses : \A m \in R : f[w][m] = Units(m, w, i)
  PROVE  /\ IsFiniteSet(R) /\ \A w \in Warehouses : \A m \in R : f[w][m] \in Int
         /\ \A w \in Warehouses : SumFunctionOnSet(f[w], R) \in Int /\ MovedBy(d, Days, w, i) \in Int
         /\ SumFunctionOnSet([w \in Warehouses |-> SumFunctionOnSet(f[w], R)], Warehouses)
              = SumFunctionOnSet([w \in Warehouses |-> MovedBy(d, Days, w, i)], Warehouses)
<1>1. CASE kind[d] \in Manual
  BY <1>1, ManualShows, ManualMoves
<1>2. CASE kind[d] \notin Manual
  <2>1. PICK k, r, ts, ws, g, h :
           /\ k = kind[d] /\ r = doc[d] /\ ts = 0 .. MaxDay /\ ws = Null
           /\ g = [w \in Warehouses |-> SumFunctionOnSet(f[w], R)]
           /\ h = [w \in Warehouses |-> MovedBy(d, Days, w, i)]
    OBVIOUS
  <2>2. /\ k \in Kinds \ Manual /\ r \in DocTypes /\ DatesOk(k, r) /\ Sees(ws, ws)
        /\ 0 \in Days /\ MaxDay \in Days /\ ts = Days /\ Null \notin ts
        /\ \A w \in Warehouses : Sees(ws, w)
    BY <1>2, <2>1, RowFacts, DaysAre, NullIs, MovementsAssumption DEF Sees
  <2>3. ASSUME NEW w \in Warehouses
        PROVE  AddsTo(f[w], R, NetEffect(k, r, ts, w, i)) /\ g[w] = NetEffect(k, r, ts, w, i)
    <3>1. PICK fw, b : fw = f[w] /\ b = MaxDay
      OBVIOUS
    <3>2. b \in Days /\ 0 \in Days /\ \A z \in RowMoves(d, k, r, ws, Period(0, b)) : fw[z] = Units(z, w, i)
      BY <2>1, <2>2, <3>1
    <3>3. AddsTo(fw, RowMoves(d, k, r, ws, Period(0, b)), NetEffect(k, r, 0 .. b, w, i))
      BY <2>2, <3>2, RowNets
    <3>4. AddsTo(f[w], R, NetEffect(k, r, ts, w, i))
      BY <2>1, <3>1, <3>3
    <3> QED
      BY <2>1, <3>4 DEF AddsTo
  <2>4. IsFiniteSet(R) /\ (\A w \in Warehouses : \A m \in R : f[w][m] \in Int) /\ \A w \in Warehouses : g[w] \in Int
    <3>1. IsFiniteSet(R)
      <4>1. PICK fw, b : fw = [m \in R |-> Units(m, Null, i)] /\ b = MaxDay
        OBVIOUS
      <4>2. CASE Warehouses # {}
        BY <2>3, <4>2 DEF AddsTo
      <4>3. CASE Warehouses = {}
        <5>1. ~Listed(k, r, ws)
          <6>1. Posted(k, r) => r.status # "none"
            BY <2>2 DEF Posted, Kinds, Manual
          <6> QED
            BY <2>2, <4>3, <6>1 DEF Listed, DatesOk
        <5> QED
          BY <2>1, <5>1, FS_EmptySet DEF RowMoves
      <4> QED
        BY <4>2, <4>3
    <3>2. ASSUME NEW w \in Warehouses PROVE g[w] \in Int /\ \A m \in R : f[w][m] \in Int
      <4>1. PICK fw : fw = f[w]
        OBVIOUS
      <4>2. \A m \in R : fw[m] \in Int
        BY <2>3, <4>1 DEF AddsTo
      <4>3. SumFunctionOnSet(fw, R) \in Int
        BY <3>1, <4>2, SumStep
      <4> QED
        BY <2>1, <4>1, <4>2, <4>3
    <3> QED
      BY <3>1, <3>2
  <2>5. CASE k # "transfer"
    <3>1. ASSUME NEW w \in Warehouses PROVE h[w] = g[w]
      <4>1. d \notin resent /\ Days \in SUBSET Days
        BY <2>1, <2>5, RowFacts
      <4>2. MovedBy(d, Days, w, i) = NetEffect(kind[d], doc[d], Days, w, i)
        BY <1>2, <4>1, MovedNets
      <4> QED
        BY <2>1, <2>2, <2>3, <4>2
    <3>2. SumFunctionOnSet(g, Warehouses) = SumFunctionOnSet(h, Warehouses)
      BY <2>4, <3>1, MovementsAssumption, SumSame
    <3> QED
      BY <2>1, <2>4, <3>1, <3>2
  <2>6. CASE k = "transfer"
    <3>1. (\A w \in Warehouses : h[w] \in Int) /\ SumFunctionOnSet(h, Warehouses) = 0
      BY <2>1, <2>6, TransferMoves
    <3>2. SumFunctionOnSet(g, Warehouses) = 0
      <4>1. TransferOk(r, moved[d]) /\ r.cancelled = Null
        BY <2>1, <2>2, <2>6, RowFacts DEF RowOk, DatesOk
      <4>2. CASE r.status = "none"
        <5>1. \A w \in Warehouses : g[w] = 0
          BY <2>3, <2>6, <4>2 DEF NetEffect, Posted
        <5> QED
          BY <5>1, MovementsAssumption, SumZero
      <4>3. CASE r.status # "none"
        <5>1. r.src \in Warehouses /\ r.dst \in Warehouses /\ r.src # r.dst
          BY <4>1, <4>3 DEF TransferOk
        <5>2. SumFunctionOnSet([w \in Warehouses |-> NetEffect("transfer", r, ts, w, i)], Warehouses) = 0
          BY <2>2, <4>1, <5>1, TransferShows
        <5>3. g = [w \in Warehouses |-> NetEffect("transfer", r, ts, w, i)]
          BY <2>1, <2>3, <2>6
        <5> QED
          BY <5>2, <5>3
      <4> QED
        BY <4>2, <4>3
    <3> QED
      BY <2>1, <2>4, <3>1, <3>2
  <2> QED
    BY <2>5, <2>6
<1> QED
  BY <1>1, <1>2

LEMMA WholeHistoryHolds == MovementsInv => WholeHistory
<1> SUFFICES ASSUME MovementsInv, NEW i \in Products
             PROVE  SumFunctionOnSet([w \in Warehouses |-> Net(FindAll(Null, Period(0, MaxDay)), w, i)], Warehouses)
                      = SumFunctionOnSet([w \in Warehouses |-> Total(Docs, Days, w, i)], Warehouses)
  BY DEF WholeHistory
<1>1. PICK q, S, f, R : /\ q = Period(0, MaxDay) /\ S = FindAll(Null, q)
                        /\ f = [w \in Warehouses |-> [m \in S |-> Units(m, w, i)]]
                        /\ R = [d \in Docs |-> RowMoves(d, kind[d], doc[d], Null, q)]
  OBVIOUS
<1>2. PICK N, M : /\ N = [w \in Warehouses |-> [d \in Docs |-> SumFunctionOnSet(f[w], R[d])]]
                  /\ M = [w \in Warehouses |-> [d \in Docs |-> MovedBy(d, Days, w, i)]]
  OBVIOUS
<1>3. IsFiniteSet(Docs) /\ IsFiniteSet(Warehouses)
  BY MovementsAssumption
<1>4. ASSUME NEW d \in Docs
      PROVE  /\ IsFiniteSet(R[d]) /\ \A w \in Warehouses : \A m \in R[d] : f[w][m] \in Int
             /\ \A w \in Warehouses : N[w][d] \in Int /\ M[w][d] \in Int
             /\ SumFunctionOnSet([w \in Warehouses |-> N[w][d]], Warehouses)
                  = SumFunctionOnSet([w \in Warehouses |-> M[w][d]], Warehouses)
  <2>1. PICK rows : rows = R[d] /\ rows = RowMoves(d, kind[d], doc[d], Null, q)
    BY <1>1
  <2>2. \A m \in rows : m \in S
    BY <1>1, <2>1, ShownIs
  <2>3. \A w \in Warehouses : \A m \in rows : f[w][m] = Units(m, w, i)
    BY <1>1, <2>2
  <2>4. /\ IsFiniteSet(rows) /\ \A w \in Warehouses : \A m \in rows : f[w][m] \in Int
        /\ \A w \in Warehouses : SumFunctionOnSet(f[w], rows) \in Int /\ MovedBy(d, Days, w, i) \in Int
        /\ SumFunctionOnSet([w \in Warehouses |-> SumFunctionOnSet(f[w], rows)], Warehouses)
             = SumFunctionOnSet([w \in Warehouses |-> MovedBy(d, Days, w, i)], Warehouses)
    <3>1. q = Period(0, MaxDay) /\ rows = RowMoves(d, kind[d], doc[d], Null, q)
      BY <1>1, <2>1
    <3> QED
      BY <2>3, <3>1, DocWhole
  <2>5. /\ [w \in Warehouses |-> N[w][d]] = [w \in Warehouses |-> SumFunctionOnSet(f[w], rows)]
        /\ [w \in Warehouses |-> M[w][d]] = [w \in Warehouses |-> MovedBy(d, Days, w, i)]
        /\ \A w \in Warehouses : N[w][d] = SumFunctionOnSet(f[w], rows) /\ M[w][d] = MovedBy(d, Days, w, i)
    BY <1>2, <2>1
  <2> QED
    BY <2>1, <2>4, <2>5
<1>5. ASSUME NEW w \in Warehouses
      PROVE  /\ Net(S, w, i) = SumFunctionOnSet(N[w], Docs)
             /\ SumFunctionOnSet([d \in Docs |-> MovedBy(d, Days, w, i)], Docs) = SumFunctionOnSet(M[w], Docs)
  <2>1. PICK fw, D, ws : fw = f[w] /\ D = Docs /\ ws = Null
    OBVIOUS
  <2>2. D \in SUBSET Docs /\ fw = [m \in S |-> Units(m, w, i)]
    BY <1>1, <2>1
  <2>3. \A m : m \in S <=> m \in FindAll(ws, q) /\ m.doc \in D
    <3>1. \A d, k, r : \A m \in RowMoves(d, k, r, ws, q) : m.doc = d
      BY StepsAre DEF RowMoves
    <3>2. \A m : m \in FindAll(ws, q) <=> \E d \in Docs : m \in RowMoves(d, kind[d], doc[d], ws, q)
      BY ShownIs
    <3> QED
      BY <1>1, <2>1, <3>1, <3>2
  <2>4. \A d \in D : LET Z == RowMoves(d, kind[d], doc[d], ws, q) IN
                     IsFiniteSet(Z) /\ \A m \in Z : fw[m] \in Int
    BY <1>1, <1>4, <2>1
  <2>5. Net(S, w, i) = SumFunctionOnSet([d \in D |-> SumFunctionOnSet(fw, RowMoves(d, kind[d], doc[d], ws, q))], D)
    BY <2>2, <2>3, <2>4, NetByDoc
  <2>6. N[w] = [d \in D |-> SumFunctionOnSet(fw, RowMoves(d, kind[d], doc[d], ws, q))]
    BY <1>1, <1>2, <2>1
  <2>7. M[w] = [d \in Docs |-> MovedBy(d, Days, w, i)]
    BY <1>2
  <2> QED
    BY <2>1, <2>5, <2>6, <2>7
<1>6. ASSUME NEW A, \A w \in Warehouses, d \in Docs : A[w][d] \in Int
      PROVE  SumFunctionOnSet([w \in Warehouses |-> SumFunctionOnSet(A[w], Docs)], Warehouses)
           = SumFunctionOnSet([d \in Docs |-> SumFunctionOnSet([w \in Warehouses |-> A[w][d]], Warehouses)], Docs)
  BY <1>3, <1>6, SumSwap
<1>7. PICK x, y : /\ x = [d \in Docs |-> SumFunctionOnSet([w \in Warehouses |-> N[w][d]], Warehouses)]
                  /\ y = [d \in Docs |-> SumFunctionOnSet([w \in Warehouses |-> M[w][d]], Warehouses)]
  OBVIOUS
<1>8. x = y
  BY <1>4, <1>7
<1>9. /\ SumFunctionOnSet([w \in Warehouses |-> SumFunctionOnSet(N[w], Docs)], Warehouses) = SumFunctionOnSet(x, Docs)
      /\ SumFunctionOnSet([w \in Warehouses |-> SumFunctionOnSet(M[w], Docs)], Warehouses) = SumFunctionOnSet(y, Docs)
  <2>1. (\A w \in Warehouses, d \in Docs : N[w][d] \in Int) /\ \A w \in Warehouses, d \in Docs : M[w][d] \in Int
    BY <1>4
  <2> QED
    BY <1>6, <1>7, <2>1
<1>10. /\ [w \in Warehouses |-> Net(S, w, i)] = [w \in Warehouses |-> SumFunctionOnSet(N[w], Docs)]
       /\ [w \in Warehouses |-> SumFunctionOnSet([d \in Docs |-> MovedBy(d, Days, w, i)], Docs)]
            = [w \in Warehouses |-> SumFunctionOnSet(M[w], Docs)]
  BY <1>5
<1>11. SumFunctionOnSet([w \in Warehouses |->
               SumFunctionOnSet([d \in Docs |-> MovedBy(d, Days, w, i)], Docs)], Warehouses)
         = SumFunctionOnSet([w \in Warehouses |-> Total(Docs, Days, w, i)], Warehouses)
  <2>1. PICK D, ts : D = Docs /\ ts = Days
    OBVIOUS
  <2>2. D \in SUBSET Docs /\ ts \in SUBSET Days
    BY <2>1
  <2>3. SumFunctionOnSet([w \in Warehouses |->
               SumFunctionOnSet([d \in Docs |-> MovedBy(d, ts, w, i)], D)], Warehouses)
         = SumFunctionOnSet([w \in Warehouses |-> Total(D, ts, w, i)], Warehouses)
    BY <2>2, DocsPlaces
  <2> QED
    BY <2>1, <2>3
<1> QED
  BY <1>1, <1>8, <1>9, <1>10, <1>11

\* stock-movements.service.ts:95, 133: for every warehouse, product and period the
\* report nets to exactly what the documents moved there in the period, those apart of
\* which an item was in another warehouse by then; for every period, all warehouses
\* together, it nets to what they moved, those included; and over the whole history,
\* transactions and transfers sent again included, to the change of stock.
THEOREM ReportAddsUp == MovementsSpec => []ReportNets
<1>1. MovementsInv => ReportNets
  BY NetsOutHolds, AllPlacesHold, WholeHistoryHolds DEF ReportNets
<1> QED
  BY <1>1, BooksBalance, PTL
=============================================================================
