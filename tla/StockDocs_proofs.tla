-------------------------- MODULE StockDocs_proofs --------------------------
(***************************************************************************)
(* Proofs about StockDocs for every set of items, documents and requests:  *)
(* its inductive invariant, that stock never goes below zero, that it      *)
(* implements StockLedger, and that every unit is accounted for.           *)
(***************************************************************************)
EXTENDS StockDocs, Sums

USE DEF Lines, Outgoing, Ledger!Lines, Ledger!Statuses, NoLines

\* The initial state is coherent: no request, no document, the opening stock.
LEMMA InitInv == Init => IInv
<1> SUFFICES ASSUME Init PROVE IInv
  OBVIOUS
<1> USE StockAssumption DEF Init, Ledger!Init
<1>1. TypeOK
  BY DEF TypeOK, NoJob
<1>2. JobInv
  BY DEF JobInv, JobOk
<1>3. DocInv /\ RowInv
  BY DEF DocInv, RowInv, RowOk
<1>4. NonNegativeStock
  BY DEF NonNegativeStock, Ledger!NonNegativeStock
<1> QED
  BY <1>1, <1>2, <1>3, <1>4 DEF IInv

\* Ending a transaction without touching the rows keeps everything coherent.
LEMMA RollbackInv ==
  ASSUME IInv, NEW p \in Procs, pc[p] # "idle", Rollback(p)
  PROVE  IInv'
<1> USE DEF Rollback, End, Goto, rows
<1>1. TypeOK'
  BY StockAssumption DEF IInv, TypeOK, NoJob
<1>2. JobInv'
  BY DEF IInv, TypeOK, JobInv, JobOk, NoJob
<1>3. DocInv'
  <2> SUFFICES ASSUME NEW q \in Procs, (pc[q] # "idle")' PROVE DocOk(q)'
    BY DEF DocInv
  <2>1. q # p /\ pc[q] # "idle" /\ DocOk(q)
    BY DEF IInv, TypeOK, DocInv
  <2>2. job'[q] = job[q] /\ pc'[q] = pc[q] /\ move'[q] = move[q]
    BY <2>1 DEF IInv, TypeOK
  <2>3. job[q].doc \in Docs
    BY <2>1 DEF IInv, JobInv, JobOk, Jobs
  <2>4. docLock[job[q].doc] = q => docLock'[job[q].doc] = q
    BY <2>1, <2>3 DEF IInv, TypeOK
  <2>5. \A r \in Procs : job[r].doc # job[q].doc => job'[r].doc # job[q].doc
    BY <2>3, StockAssumption DEF IInv, TypeOK, NoJob
  <2> QED
    BY <2>1, <2>2, <2>4, <2>5 DEF DocOk
<1>4. RowInv'
  BY DEF IInv, TypeOK, RowInv, RowOk, Taking, ToDo
<1>5. NonNegativeStock'
  BY DEF IInv, NonNegativeStock, Ledger!NonNegativeStock
<1> QED
  BY <1>1, <1>2, <1>3, <1>4, <1>5 DEF IInv

\* Quoting a fresh sale disturbs no request.
LEMMA QuoteInv ==
  ASSUME IInv, NEW d \in Docs, NEW l \in Payloads[d], Quote(d, l)
  PROVE  IInv'
<1> USE DEF Quote, Fresh, request
<1>0. l \in Lines
  BY StockAssumption
<1>1. TypeOK'
  BY <1>0 DEF IInv, TypeOK
<1>2. JobInv'
  BY DEF IInv, JobInv, JobOk
<1>3. DocInv'
  <2> SUFFICES ASSUME NEW q \in Procs, pc[q] # "idle" PROVE DocOk(q)'
    BY DEF DocInv
  <2>1. DocOk(q) /\ job[q].doc # d
    BY DEF IInv, DocInv, DocOk
  <2>2. status'[job[q].doc] = status[job[q].doc] /\ lines'[job[q].doc] = lines[job[q].doc]
    BY <2>1 DEF IInv, TypeOK, JobInv, JobOk, Jobs
  <2> QED
    BY <2>1, <2>2 DEF DocOk
<1>4. RowInv'
  BY DEF IInv, RowInv, RowOk, Taking, ToDo
<1>5. NonNegativeStock'
  BY DEF IInv, NonNegativeStock, Ledger!NonNegativeStock
<1> QED
  BY <1>1, <1>2, <1>3, <1>4, <1>5 DEF IInv

\* What a request knows of its document survives the other requests' steps
\* that write no row and leave its document to it.
LEMMA DocFrame ==
  ASSUME IInv, NEW q \in Procs, pc[q] # "idle", UNCHANGED <<status, lines>>,
         job'[q] = job[q], pc'[q] = pc[q], move'[q] = move[q],
         docLock[job[q].doc] = q => docLock'[job[q].doc] = q,
         \A r \in Procs \ {q} : job[q].op = "create" /\ job'[r].doc = job[q].doc
                               => job[r].doc = job[q].doc
  PROVE  DocOk(q)'
BY DEF IInv, DocInv, DocOk

\* A new document is fresh, so its creation disturbs no request in flight.
LEMMA StartCreateInv ==
  ASSUME IInv, NEW p \in Procs, NEW d \in Docs, NEW l \in Payloads[d],
         NEW label \in {"check", "move"}, StartCreate(p, d, l, label)
  PROVE  IInv'
<1> USE DEF StartCreate, Fresh, Goto, rows
<1>1. l \in Lines /\ pc[p] = "idle"
  BY StockAssumption
<1>2. TypeOK'
  BY <1>1 DEF IInv, TypeOK, Jobs, Ops
<1>3. JobInv'
  BY <1>1 DEF IInv, TypeOK, JobInv, JobOk, Jobs, Ops
<1>4. DocInv'
  <2> SUFFICES ASSUME NEW q \in Procs, (pc[q] # "idle")' PROVE DocOk(q)'
    BY DEF DocInv
  <2>1. CASE q = p
    BY <2>1, <1>1 DEF IInv, TypeOK, DocOk
  <2>2. CASE q # p
    BY <2>2, DocFrame DEF IInv, TypeOK
  <2> QED
    BY <2>1, <2>2
<1>5. RowInv'
  BY <1>1 DEF IInv, TypeOK, JobInv, JobOk, RowInv, RowOk, Taking, ToDo
<1>6. NonNegativeStock'
  BY DEF IInv, NonNegativeStock, Ledger!NonNegativeStock
<1> QED
  BY <1>2, <1>3, <1>4, <1>5, <1>6 DEF IInv

\* A request on a stored document reads nothing of it yet.
LEMMA StartOnInv ==
  ASSUME IInv, NEW p \in Procs, NEW d \in Docs, NEW l \in Lines,
         NEW op \in OpsOn(KindOf[d]), op = "edit" => l \in Payloads[d], StartOn(p, op, d, l)
  PROVE  IInv'
<1> USE DEF StartOn, Goto, rows
<1>1. l \in Lines /\ pc[p] = "idle" /\ op # "create" /\ op \in Ops
  BY DEF OpsOn, Ops
<1>2. TypeOK'
  BY <1>1 DEF IInv, TypeOK, Jobs
<1>3. JobInv'
  BY <1>1 DEF IInv, TypeOK, JobInv, JobOk, Jobs
<1>4. DocInv'
  <2> SUFFICES ASSUME NEW q \in Procs, (pc[q] # "idle")' PROVE DocOk(q)'
    BY DEF DocInv
  <2>1. CASE q = p
    BY <2>1, <1>1 DEF IInv, TypeOK, DocOk
  <2>2. CASE q # p
    <3>1. job[q].op = "create" => job[q].doc # d
      BY <2>2 DEF IInv, TypeOK, DocInv, DocOk
    <3> QED
      BY <2>2, <3>1, DocFrame DEF IInv, TypeOK
  <2> QED
    BY <2>1, <2>2
<1>5. RowInv'
  BY <1>1 DEF IInv, TypeOK, JobInv, JobOk, RowInv, RowOk, Taking, ToDo
<1>6. NonNegativeStock'
  BY DEF IInv, NonNegativeStock, Ledger!NonNegativeStock
<1> QED
  BY <1>2, <1>3, <1>4, <1>5, <1>6 DEF IInv

\* Getting the document row: nobody else held it, so nobody else loses it.
LEMMA LockDocInv ==
  ASSUME IInv, NEW p \in Procs, LockDoc(p)
  PROVE  IInv'
<1> USE DEF LockDoc, Goto, rows
<1>1. job[p] \in Jobs /\ job[p].doc \in Docs /\ job[p].op # "create"
  BY DEF IInv, JobInv, JobOk, Jobs
<1>2. TypeOK'
  BY <1>1 DEF IInv, TypeOK
<1>3. JobInv'
  BY <1>1 DEF IInv, TypeOK, JobInv, JobOk
<1>4. DocInv'
  <2> SUFFICES ASSUME NEW q \in Procs, (pc[q] # "idle")' PROVE DocOk(q)'
    BY DEF DocInv
  <2>1. CASE q = p
    BY <2>1, <1>1 DEF IInv, TypeOK, DocInv, DocOk
  <2>2. CASE q # p
    <3>1. docLock[job[q].doc] = q => docLock'[job[q].doc] = q
      BY <1>1, StockAssumption DEF IInv, TypeOK
    <3> QED
      BY <2>2, <3>1, DocFrame DEF IInv, TypeOK
  <2> QED
    BY <2>1, <2>2
<1>5. RowInv'
  BY DEF IInv, TypeOK, RowInv, RowOk, Taking, ToDo
<1>6. NonNegativeStock'
  BY DEF IInv, NonNegativeStock, Ledger!NonNegativeStock
<1> QED
  BY <1>2, <1>3, <1>4, <1>5, <1>6 DEF IInv

\* Reading under the lock: what is read is what stands.
LEMMA ReadDocInv ==
  ASSUME IInv, NEW p \in Procs, ReadDoc(p)
  PROVE  IInv'
<1> USE DEF ReadDoc, Goto, rows
<1>1. job[p] \in Jobs /\ job[p].doc \in Docs /\ job[p].op # "create"
  BY DEF IInv, JobInv, JobOk, Jobs
<1>2. TypeOK'
  BY <1>1 DEF IInv, TypeOK
<1>3. JobInv'
  BY <1>1 DEF IInv, TypeOK, JobInv, JobOk
<1>4. DocInv'
  <2> SUFFICES ASSUME NEW q \in Procs, (pc[q] # "idle")' PROVE DocOk(q)'
    BY DEF DocInv
  <2>1. CASE q = p
    BY <2>1, <1>1 DEF IInv, TypeOK, DocInv, DocOk
  <2>2. CASE q # p
    BY <2>2, DocFrame DEF IInv, TypeOK
  <2> QED
    BY <2>1, <2>2
<1>5. RowInv'
  <2>1. done[p] = {}
    BY DEF IInv, RowInv, RowOk
  <2> QED
    BY <2>1 DEF IInv, TypeOK, RowInv, RowOk, Taking, ToDo
<1>6. NonNegativeStock'
  BY DEF IInv, NonNegativeStock, Ledger!NonNegativeStock
<1> QED
  BY <1>2, <1>3, <1>4, <1>5, <1>6 DEF IInv

\* The check and the sending of an update move the request on and nothing else.
LEMMA CheckSendInv ==
  ASSUME IInv, NEW p \in Procs, CheckItems(p) \/ \E i \in Items : Send(p, i)
  PROVE  IInv'
<1> USE DEF CheckItems, Send, Goto, rows
<1>1. pc[p] \in {"check", "move"} /\ pc'[p] \in {"move", "write"}
  BY DEF IInv, TypeOK
<1>2. TypeOK'
  <2>1. pc' \in [Procs -> {"idle", "lock", "read", "check", "move", "write"}]
    BY DEF IInv, TypeOK
  <2>2. at' \in [Procs -> Items \cup {None}]
    BY DEF IInv, TypeOK
  <2> QED
    BY <2>1, <2>2 DEF IInv, TypeOK
<1>3. JobInv'
  BY <1>1 DEF IInv, TypeOK, JobInv, JobOk
<1>4. DocInv'
  <2> SUFFICES ASSUME NEW q \in Procs, (pc[q] # "idle")' PROVE DocOk(q)'
    BY DEF DocInv
  <2>1. CASE q = p
    BY <2>1, <1>1 DEF IInv, TypeOK, DocInv, DocOk
  <2>2. CASE q # p
    BY <2>2, DocFrame DEF IInv, TypeOK
  <2> QED
    BY <2>1, <2>2
<1>5. RowInv'
  <2> SUFFICES ASSUME NEW q \in Procs PROVE RowOk(q)'
    BY DEF RowInv
  <2>1. RowOk(q) /\ (Taking(q)' <=> Taking(q)) /\ ToDo(q)' = ToDo(q)
    BY DEF IInv, RowInv, Taking, ToDo
  <2>2. CASE q = p
    BY <2>1, <2>2 DEF IInv, TypeOK, RowOk
  <2>3. CASE q # p
    BY <2>1, <2>3 DEF IInv, TypeOK, RowOk
  <2> QED
    BY <2>2, <2>3
<1>6. NonNegativeStock'
  BY DEF IInv, NonNegativeStock, Ledger!NonNegativeStock
<1> QED
  BY <1>2, <1>3, <1>4, <1>5, <1>6 DEF IInv

\* An update gets a row no other transaction has written, and a takeStock only
\* one with enough units; the row is the writer's from then on.
LEMMA WriteInv ==
  ASSUME IInv, NEW p \in Procs, Take(p) \/ Put(p)
  PROVE  IInv'
<1> USE DEF Take, Put, Wrote, Goto, rows
<1>1. pc[p] = "write" /\ at[p] \in Items /\ at[p] \in ToDo(p)
  BY DEF IInv, RowInv, RowOk, ToDo
<1>2. TypeOK'
  <2>1. pc' \in [Procs -> {"idle", "lock", "read", "check", "move", "write"}]
    BY DEF IInv, TypeOK
  <2>2. done' \in [Procs -> SUBSET Items]
    BY <1>1 DEF IInv, TypeOK
  <2>3. at' = [at EXCEPT ![p] = None] /\ UNCHANGED <<qty, live, status, lines, docLock, job, move>>
    OBVIOUS
  <2> HIDE DEF Take, Put, Wrote
  <2>4. at' \in [Procs -> Items \cup {None}]
    BY <2>3 DEF IInv, TypeOK
  <2> QED
    BY <2>1, <2>2, <2>3, <2>4 DEF IInv, TypeOK
<1>3. JobInv'
  BY <1>1 DEF IInv, TypeOK, JobInv, JobOk
<1>4. DocInv'
  <2> SUFFICES ASSUME NEW q \in Procs, (pc[q] # "idle")' PROVE DocOk(q)'
    BY DEF DocInv
  <2>1. CASE q = p
    BY <2>1, <1>1 DEF IInv, TypeOK, DocInv, DocOk
  <2>2. CASE q # p
    BY <2>2, DocFrame DEF IInv, TypeOK
  <2> QED
    BY <2>1, <2>2
<1>5. RowInv'
  <2> SUFFICES ASSUME NEW q \in Procs PROVE RowOk(q)'
    BY DEF RowInv
  <2>1. RowOk(q) /\ (Taking(q)' <=> Taking(q))
    BY DEF IInv, RowInv, Taking
  <2>2. CASE q = p
    <3>1. pc'[p] = "move" /\ done'[p] = done[p] \cup {at[p]}
      BY DEF IInv, TypeOK
    <3>2. \A r \in Procs \ {p} : done'[p] \cap done'[r] = {}
      BY <3>1, <2>1, <2>2 DEF IInv, TypeOK, RowOk, RowFree
    <3>3. move[p][at[p]] > 0 /\ (Taking(p) => TakeOk(p, at[p]))
      BY <1>1 DEF ToDo
    <3> QED
      BY <2>1, <2>2, <3>1, <3>2, <3>3 DEF RowOk, TakeOk
  <2>3. CASE q # p
    <3>1. pc'[q] = pc[q] /\ done'[q] = done[q] /\ at'[q] = at[q] /\ ToDo(q)' = ToDo(q)
      BY <2>3 DEF IInv, TypeOK, ToDo
    <3>2. \A r \in Procs \ {q} : done'[q] \cap done'[r] = {}
      <4> SUFFICES ASSUME NEW r \in Procs \ {q} PROVE done[q] \cap done'[r] = {}
        BY <3>1
      <4>1. done[q] \cap done[r] = {} /\ at[p] \notin done[q]
        BY <2>1 DEF RowOk, RowFree
      <4>2. done'[r] \subseteq done[r] \cup {at[p]}
        BY DEF IInv, TypeOK
      <4> QED
        BY <4>1, <4>2
    <3> QED
      BY <2>1, <3>1, <3>2 DEF RowOk
  <2> QED
    BY <2>2, <2>3
<1>6. NonNegativeStock'
  BY DEF IInv, NonNegativeStock, Ledger!NonNegativeStock
<1> QED
  BY <1>2, <1>3, <1>4, <1>5, <1>6 DEF IInv

\* Deleting or restoring an item waits for its row, so no request that has
\* taken units from it is in flight.
LEMMA SetLiveInv ==
  ASSUME IInv, NEW i \in Items, SoftDelete(i) \/ Restore(i)
  PROVE  IInv'
<1> USE DEF SoftDelete, Restore, request
<1>1. TypeOK'
  BY DEF IInv, TypeOK
<1>2. JobInv' /\ DocInv'
  BY DEF IInv, JobInv, JobOk, DocInv, DocOk
<1>3. RowInv'
  <2> SUFFICES ASSUME NEW q \in Procs PROVE RowOk(q)'
    BY DEF RowInv
  <2>1. RowOk(q) /\ (Taking(q)' <=> Taking(q)) /\ ToDo(q)' = ToDo(q)
    BY DEF IInv, RowInv, Taking, ToDo
  <2>2. \A j \in done[q] : live'[j] = live[j]
    BY DEF IInv, TypeOK, RowFree
  <2> QED
    BY <2>1, <2>2 DEF RowOk
<1>4. NonNegativeStock'
  BY DEF IInv, NonNegativeStock, Ledger!NonNegativeStock
<1> QED
  BY <1>1, <1>2, <1>3, <1>4 DEF IInv

\* Committing publishes the rows the request holds locked: the other requests'
\* rows and documents are not among them.
LEMMA CommitInv ==
  ASSUME IInv, NEW p \in Procs, Commit(p)
  PROVE  IInv'
<1> DEFINE d == job[p].doc
<1> USE DEF Commit, End, Goto
<1>1. job[p] \in Jobs /\ d \in Docs /\ pc[p] = "move" /\ done[p] \subseteq Items
  BY DEF IInv, TypeOK, JobInv, JobOk, Jobs
<1>2. \A i \in Items : Written(p, i) \in Int /\ Written(p, i) >= 0
  <2> SUFFICES ASSUME NEW i \in Items PROVE Written(p, i) \in Int /\ Written(p, i) >= 0
    OBVIOUS
  <2>1. qty[i] \in Int /\ qty[i] >= 0 /\ move[p][i] \in Nat
    BY DEF IInv, TypeOK, NonNegativeStock, Ledger!NonNegativeStock
  <2>2. i \in done[p] /\ Taking(p) => qty[i] >= move[p][i]
    BY DEF IInv, RowInv, RowOk
  <2> QED
    BY <2>1, <2>2 DEF Written
<1>3. NewStatus(p) \in Ledger!Statuses \ {"none"}
  BY <1>1 DEF NewStatus, Jobs, Ops, Ledger!UndoneAs
<1>4. TypeOK'
  <2>1. qty' \in [Items -> Int]
    BY <1>2
  <2>2. status' \in [Docs -> Ledger!Statuses] /\ lines' \in [Docs -> Lines]
    BY <1>1, <1>3 DEF IInv, TypeOK, Jobs
  <2>3. docLock' \in [Docs -> Procs \cup {None}]
    BY DEF IInv, TypeOK
  <2>4. job' \in [Procs -> Jobs \cup {NoJob}] /\ move' \in [Procs -> Lines]
    BY DEF IInv, TypeOK
  <2>5. /\ live' \in [Items -> BOOLEAN]
        /\ pc' \in [Procs -> {"idle", "lock", "read", "check", "move", "write"}]
        /\ at' \in [Procs -> Items \cup {None}]
        /\ done' \in [Procs -> SUBSET Items]
    BY DEF IInv, TypeOK
  <2> QED
    BY <2>1, <2>2, <2>3, <2>4, <2>5 DEF TypeOK
<1>5. JobInv'
  BY DEF IInv, TypeOK, JobInv, JobOk, NoJob
<1>6. DocInv'
  <2> SUFFICES ASSUME NEW q \in Procs, (pc[q] # "idle")' PROVE DocOk(q)'
    BY DEF DocInv
  <2>1. q # p /\ pc[q] # "idle" /\ DocOk(q)
    BY DEF IInv, TypeOK, DocInv
  <2>2. job'[q] = job[q] /\ pc'[q] = pc[q] /\ move'[q] = move[q] /\ job[q].doc \in Docs
    BY <2>1 DEF IInv, TypeOK, JobInv, JobOk, Jobs
  <2>3. DocOk(p)
    BY <1>1 DEF IInv, DocInv
  <2>4. \A r \in Procs : job[r].doc # job[q].doc => job'[r].doc # job[q].doc
    BY <2>2, StockAssumption DEF IInv, TypeOK, NoJob
  <2>5. docLock[job[q].doc] = q => docLock'[job[q].doc] = q
    BY <2>1, <2>2 DEF IInv, TypeOK
  <2>6. CASE job[q].doc = d
    <3>1. job[q].op # "create" /\ job[p].op # "create"
      BY <2>1, <2>3, <2>6 DEF DocOk
    <3>2. pc[q] = "lock"
      BY <2>1, <2>3, <2>6, <3>1, <1>1 DEF DocOk
    <3>3. status'[d] # "none"
      BY <1>1, <1>3 DEF IInv, TypeOK
    <3> QED
      BY <2>2, <2>6, <3>1, <3>2, <3>3 DEF DocOk
  <2>7. CASE job[q].doc # d
    <3>1. status'[job[q].doc] = status[job[q].doc] /\ lines'[job[q].doc] = lines[job[q].doc]
      BY <2>2, <2>7 DEF IInv, TypeOK
    <3> QED
      BY <2>1, <2>2, <2>4, <2>5, <3>1 DEF DocOk
  <2> QED
    BY <2>6, <2>7
<1>7. RowInv'
  <2> SUFFICES ASSUME NEW q \in Procs PROVE RowOk(q)'
    BY DEF RowInv
  <2>1. CASE q = p
    BY <2>1 DEF IInv, TypeOK, RowOk
  <2>2. CASE q # p
    <3>1. RowOk(q) /\ pc'[q] = pc[q] /\ done'[q] = done[q] /\ at'[q] = at[q]
          /\ job'[q] = job[q] /\ move'[q] = move[q] /\ live' = live
      BY <2>2 DEF IInv, TypeOK, RowInv
    <3>2. (Taking(q)' <=> Taking(q)) /\ ToDo(q)' = ToDo(q)
      BY <3>1 DEF Taking, ToDo
    <3>3. \A r \in Procs : done'[r] \subseteq done[r]
      BY DEF IInv, TypeOK
    <3>4. \A i \in done[q] : qty'[i] = qty[i]
      BY <3>1, <2>2 DEF IInv, TypeOK, RowOk, Written
    <3> QED
      BY <3>1, <3>2, <3>3, <3>4 DEF RowOk
  <2> QED
    BY <2>1, <2>2
<1>8. NonNegativeStock'
  BY <1>2 DEF NonNegativeStock, Ledger!NonNegativeStock
<1> QED
  BY <1>4, <1>5, <1>6, <1>7, <1>8 DEF IInv

\* Every step of every request keeps the invariant.
LEMMA StepInv == IInv /\ [Next]_vars => IInv'
<1> SUFFICES ASSUME IInv, [Next]_vars PROVE IInv'
  OBVIOUS
<1>1. CASE \E d \in Docs : \E l \in Payloads[d] : Quote(d, l)
  BY <1>1, QuoteInv
<1>2. ASSUME NEW p \in Procs, Begin(p) PROVE IInv'
  <2>1. PICK d \in Docs :
           \/ \E l \in Payloads[d], label \in {"check", "move"} : StartCreate(p, d, l, label)
           \/ \E l \in Payloads[d] : "edit" \in OpsOn(KindOf[d]) /\ StartOn(p, "edit", d, l)
           \/ "confirm" \in OpsOn(KindOf[d]) /\ StartOn(p, "confirm", d, NoLines)
           \/ "cancel" \in OpsOn(KindOf[d]) /\ StartOn(p, "cancel", d, NoLines)
    BY <1>2 DEF Begin, CreateSale, EditSale, CreateOutflow, CreatePurchase, CreateTransaction,
         ConfirmSale, CancelSale, CancelOutflow, CancelPurchase, RemoveTransaction, OpsOn
  <2>2. NoLines \in Lines /\ Payloads[d] \subseteq Lines
    BY StockAssumption
  <2> QED
    BY <2>1, <2>2, StartCreateInv, StartOnInv
<1>3. ASSUME NEW p \in Procs, Step(p) PROVE IInv'
  <2>1. CASE LockDoc(p)
    BY <2>1, LockDocInv
  <2>2. CASE ReadDoc(p)
    BY <2>2, ReadDocInv
  <2>3. CASE RefuseStatus(p) \/ RefuseItems(p) \/ TakeShort(p)
    <3>1. pc[p] # "idle" /\ Rollback(p)
      BY <2>3 DEF RefuseStatus, RefuseItems, TakeShort
    <3> QED
      BY <3>1, RollbackInv
  <2>4. CASE CheckItems(p) \/ \E i \in Items : Send(p, i)
    BY <2>4, CheckSendInv
  <2>5. CASE Take(p) \/ Put(p)
    BY <2>5, WriteInv
  <2>6. CASE Commit(p)
    BY <2>6, CommitInv
  <2> QED
    BY <1>3, <2>1, <2>2, <2>3, <2>4, <2>5, <2>6 DEF Step
<1>4. ASSUME NEW p \in Procs, Fail(p) \/ DeadlockVictim(p) PROVE IInv'
  <2>1. pc[p] # "idle" /\ Rollback(p)
    BY <1>4 DEF Fail, DeadlockVictim, Deadlocked, WaitsFor
  <2> QED
    BY <2>1, RollbackInv
<1>5. CASE \E i \in Items : SoftDelete(i) \/ Restore(i)
  BY <1>5, SetLiveInv
<1>6. CASE UNCHANGED vars
  BY <1>6 DEF vars, rows, request, IInv, TypeOK, JobInv, JobOk, DocInv, DocOk,
       RowInv, RowOk, Taking, ToDo, NonNegativeStock, Ledger!NonNegativeStock
<1> QED
  BY <1>1, <1>2, <1>3, <1>4, <1>5, <1>6 DEF Next

\* The invariant holds in every reachable state: the locks really do keep each
\* request's reads true until it commits.
THEOREM Coherent == Spec => []IInv
<1> QED
  BY InitInv, StepInv, PTL DEF Spec

\* No interleaving of sales, outflows, purchases and their reversals takes an
\* item below zero, whatever the number of items, documents and requests.
THEOREM StockNeverNegative == Spec => []NonNegativeStock
<1>1. IInv => NonNegativeStock
  BY DEF IInv
<1> QED
  BY <1>1, Coherent, PTL

\* A step that lowers a quantity is the commit of a request that took units.
LEMMA OnlyTakersLower ==
  ASSUME IInv, [Next]_vars, NEW i \in Items, qty'[i] < qty[i]
  PROVE  \E p \in Procs : Commit(p) /\ Taking(p) /\ i \in done[p]
<1>1. qty[i] \in Int /\ qty' # qty
  BY DEF IInv, TypeOK
<1>2. PICK p \in Procs : Commit(p)
  BY <1>1 DEF Next, Begin, Step, vars, rows, Quote, StartCreate, StartOn, CreateSale, EditSale,
       CreateOutflow, CreatePurchase, CreateTransaction, ConfirmSale, CancelSale, CancelOutflow,
       CancelPurchase, RemoveTransaction, LockDoc, ReadDoc,
       RefuseStatus, CheckItems, RefuseItems, Send, Take, TakeShort, Put, Wrote, Fail,
       DeadlockVictim, SoftDelete, Restore, Rollback
<1>3. qty'[i] = Written(p, i) /\ move[p][i] \in Nat
  BY <1>2 DEF Commit, IInv, TypeOK
<1> QED
  BY <1>1, <1>2, <1>3 DEF Written

\* Units never leave an item that is soft-deleted when they leave.
THEOREM TakenFromLive == Spec => TakesOnlyFromLive
<1>1. IInv /\ [Next]_vars => [\A i \in Items : qty'[i] < qty[i] => live[i]]_vars
  <2> SUFFICES ASSUME IInv, [Next]_vars, NEW i \in Items, qty'[i] < qty[i] PROVE live[i]
    OBVIOUS
  <2> QED
    BY OnlyTakersLower DEF IInv, RowInv, RowOk
<1> QED
  BY <1>1, Coherent, PTL DEF Spec, TakesOnlyFromLive

\* A commit has written every line it set out to move, so it publishes the
\* ledger's Move of those lines, and units it took were all there.
LEMMA CommitMoves ==
  ASSUME IInv, NEW p \in Procs, Commit(p)
  PROVE  /\ Ledger!Move(move[p], Taking(p))
         /\ Taking(p) => Ledger!CanTake(move[p])
<1>1. \A i \in Items : move[p][i] \in Nat /\ qty[i] \in Int
  BY DEF IInv, TypeOK
<1>2. \A i \in Items : i \notin done[p] => move[p][i] = 0
  BY <1>1 DEF Commit, ToDo
<1>3. \A i \in Items :
         Written(p, i) = IF Taking(p) THEN qty[i] - move[p][i] ELSE qty[i] + move[p][i]
  BY <1>1, <1>2 DEF Written
<1>4. Ledger!Move(move[p], Taking(p))
  BY <1>3 DEF Commit, Ledger!Move
<1>5. ASSUME Taking(p), NEW i \in Items, move[p][i] > 0
      PROVE  live[i] /\ qty[i] >= move[p][i]
  BY <1>1, <1>2, <1>5 DEF IInv, RowInv, RowOk
<1> QED
  BY <1>4, <1>5 DEF Ledger!CanTake

\* Each operation's commit is one step of the ledger.
LEMMA CommitRefines ==
  ASSUME IInv, NEW p \in Procs, Commit(p)
  PROVE  Ledger!Next \/ UNCHANGED Ledger!vars
<1> DEFINE d == job[p].doc
<1>1. /\ job[p] \in Jobs /\ d \in Docs
      /\ job[p].op \in OpsOn(KindOf[d]) \cup {"create"}
      /\ job[p].op \in {"create", "edit"} => job[p].lines \in Payloads[d]
      /\ job[p].op = "create" => move[p] = job[p].lines
      /\ DocOk(p) /\ pc[p] = "move" /\ lines \in [Docs -> Lines]
  BY DEF IInv, TypeOK, JobInv, JobOk, DocInv, Commit, Jobs
<1>2. /\ status' = [status EXCEPT ![d] = NewStatus(p)]
      /\ lines' = [lines EXCEPT ![d] =
                      IF job[p].op \in {"create", "edit"} THEN job[p].lines ELSE @]
      /\ live' = live
  BY DEF Commit
<1>3. Ledger!Move(move[p], Taking(p)) /\ (Taking(p) => Ledger!CanTake(move[p]))
  BY CommitMoves
<1>4. CASE job[p].op = "create"
  <2>1. (Outgoing(d) => Ledger!CanTake(move[p])) /\ Ledger!Move(move[p], Outgoing(d))
    BY <1>3, <1>4 DEF Taking, Ledger!Move
  <2>2. /\ status[d] = "none" /\ move[p] = job[p].lines
        /\ status' = [status EXCEPT ![d] = "ACTIVE"]
        /\ lines' = [lines EXCEPT ![d] = job[p].lines]
    BY <1>1, <1>2, <1>4 DEF DocOk, NewStatus
  <2>3. Ledger!Post(d, job[p].lines)
    BY <1>2, <2>1, <2>2 DEF Ledger!Post, Ledger!PutInForce
  <2> QED
    BY <1>1, <1>4, <2>3 DEF Ledger!Next
<1>5. CASE job[p].op = "confirm"
  <2>1. status[d] = "DRAFT" /\ move[p] = lines[d] /\ lines' = [lines EXCEPT ![d] = lines[d]]
    BY <1>1, <1>2, <1>5 DEF DocOk, Expects
  <2>2. (Outgoing(d) => Ledger!CanTake(move[p])) /\ Ledger!Move(move[p], Outgoing(d))
    BY <1>3, <1>5 DEF Taking, Ledger!Move
  <2>3. status' = [status EXCEPT ![d] = "ACTIVE"]
    BY <1>2, <1>5 DEF NewStatus
  <2>4. Ledger!Confirm(d)
    BY <1>2, <2>1, <2>2, <2>3 DEF Ledger!Confirm, Ledger!PutInForce
  <2> QED
    BY <1>1, <2>4 DEF Ledger!Next
<1>6. CASE job[p].op = "edit"
  <2>1. status[d] = "DRAFT" /\ move[p] = NoLines
    BY <1>1, <1>6 DEF DocOk, Expects
  <2>2. qty' = qty /\ status' = status
    <3>1. \A i \in Items : i \notin done[p]
      BY <2>1 DEF IInv, TypeOK, RowInv, RowOk
    <3>2. qty' = [i \in Items |-> qty[i]]
      BY <3>1 DEF Commit, Written
    <3> QED
      BY <3>2, <1>2, <1>6, <2>1 DEF IInv, TypeOK, NewStatus
  <2>3. Ledger!Edit(d, job[p].lines)
    BY <1>2, <1>6, <2>1, <2>2 DEF Ledger!Edit
  <2> QED
    BY <1>1, <1>6, <2>3 DEF Ledger!Next
<1>7. CASE job[p].op = "cancel" /\ status[d] = "DRAFT"
  <2>1. KindOf[d] = "sale" /\ move[p] = NoLines
    BY <1>1, <1>7 DEF DocOk, Expects
  <2>2. qty' = qty /\ lines' = lines
    <3>1. \A i \in Items : i \notin done[p]
      BY <2>1 DEF IInv, TypeOK, RowInv, RowOk
    <3>2. qty' = [i \in Items |-> qty[i]]
      BY <3>1 DEF Commit, Written
    <3> QED
      BY <3>2, <1>1, <1>2, <1>7 DEF IInv, TypeOK
  <2>3. Ledger!Discard(d)
    BY <1>2, <1>7, <2>1, <2>2 DEF Ledger!Discard, Ledger!UndoneAs, NewStatus
  <2> QED
    BY <1>1, <2>3 DEF Ledger!Next
<1>8. CASE job[p].op = "cancel" /\ status[d] # "DRAFT"
  <2>1. status[d] = "ACTIVE" /\ move[p] = lines[d]
    BY <1>1, <1>8 DEF DocOk, Expects
  <2>2. lines' = lines /\ status' = [status EXCEPT ![d] = Ledger!UndoneAs(d)]
    BY <1>1, <1>2, <1>8 DEF NewStatus
  <2>3. Taking(p) <=> ~Outgoing(d)
    BY <1>8 DEF Taking
  <2>4. Ledger!Undo(d)
    BY <1>2, <1>3, <2>1, <2>2, <2>3 DEF Ledger!Undo, Ledger!Move
  <2> QED
    BY <1>1, <2>4 DEF Ledger!Next
<1> QED
  BY <1>1, <1>4, <1>5, <1>6, <1>7, <1>8 DEF Jobs, Ops

\* Every other step leaves the rows alone or is one of the ledger's.
LEMMA StepRefines == IInv /\ [Next]_vars => [Ledger!Next]_(Ledger!vars)
<1> SUFFICES ASSUME IInv, [Next]_vars PROVE Ledger!Next \/ UNCHANGED Ledger!vars
  OBVIOUS
<1>1. ASSUME NEW d \in Docs, NEW l \in Payloads[d], Quote(d, l) PROVE Ledger!Next
  <2>1. Ledger!Quote(d, l)
    BY <1>1 DEF Quote, Fresh, Ledger!Quote
  <2> QED
    BY <2>1 DEF Ledger!Next
<1>2. ASSUME NEW p \in Procs, Commit(p) PROVE Ledger!Next \/ UNCHANGED Ledger!vars
  BY <1>2, CommitRefines
<1>3. ASSUME NEW i \in Items, SoftDelete(i) \/ Restore(i) PROVE Ledger!Next
  <2>1. \E b \in BOOLEAN : Ledger!SetLive(i, b)
    BY <1>3 DEF SoftDelete, Restore, Ledger!SetLive
  <2> QED
    BY <2>1 DEF Ledger!Next
<1>4. CASE UNCHANGED rows
  BY <1>4 DEF rows, Ledger!vars
<1> QED
  BY <1>1, <1>2, <1>3, <1>4 DEF Next, Begin, Step, vars, StartCreate, StartOn, CreateSale, EditSale,
       CreateOutflow, CreatePurchase, CreateTransaction, ConfirmSale, CancelSale, CancelOutflow,
       CancelPurchase, RemoveTransaction, LockDoc, ReadDoc,
     RefuseStatus, CheckItems, RefuseItems, Send, Take, TakeShort, Put, Wrote, Fail,
     DeadlockVictim, Rollback

\* The services implement the ledger: seen from the committed rows, a posting or
\* an undo is one atomic step, however its statements interleave with others'.
THEOREM DocsImplementLedger == Spec => ImplementsLedger
<1>1. Init => Ledger!Init
  BY DEF Init
<1> QED
  BY <1>1, StepRefines, Coherent, PTL DEF Spec, ImplementsLedger, Ledger!Spec

----------------------------------------------------------------------------
(* Every unit accounted for: a sum over the documents in force.            *)

USE DEF Ledger!Signed, Ledger!Outgoing

InForce == {d \in Docs : status[d] = "ACTIVE"}

Accounted(i) == qty[i] = Opening[i] + SumFunctionOnSet(Ledger!Movement(i), InForce)

LEMMA MovementType ==
  ASSUME lines \in [Docs -> Lines], NEW i \in Items
  PROVE  /\ IsFiniteSet(InForce) /\ InForce \subseteq Docs
         /\ \A d \in Docs : /\ Ledger!Movement(i)[d] = Ledger!Signed(d, i)
                            /\ Ledger!Movement(i)[d] \in Int
<1>1. IsFiniteSet(InForce) /\ InForce \subseteq Docs
  BY StockAssumption, FS_Subset DEF InForce
<1>2. ASSUME NEW d \in Docs
      PROVE  Ledger!Movement(i)[d] = Ledger!Signed(d, i) /\ Ledger!Movement(i)[d] \in Int
  <2>1. lines[d][i] \in Nat
    OBVIOUS
  <2>2. Ledger!Signed(d, i) \in Int
    BY <2>1
  <2> QED
    BY <2>2 DEF Ledger!Movement
<1> QED
  BY <1>1, <1>2

\* A document put in force, or edited and put in force, moves its lines once.
LEMMA PostAccounted ==
  ASSUME qty \in [Items -> Int], lines \in [Docs -> Lines], status \in [Docs -> Ledger!Statuses],
         NEW d \in Docs, NEW l \in Lines, status[d] # "ACTIVE", Ledger!PutInForce(d, l),
         NEW i \in Items, Accounted(i)
  PROVE  Accounted(i)'
<1>1. /\ lines' = [lines EXCEPT ![d] = l] /\ status' = [status EXCEPT ![d] = "ACTIVE"]
      /\ qty' = [j \in Items |-> IF Outgoing(d) THEN qty[j] - l[j] ELSE qty[j] + l[j]]
  BY DEF Ledger!PutInForce, Ledger!Move
<1>2. lines' \in [Docs -> Lines] /\ lines'[d] = l /\ \A x \in Docs \ {d} : lines'[x] = lines[x]
  BY <1>1
<1>3. PICK f, g, S, T : /\ f = Ledger!Movement(i) /\ g = Ledger!Movement(i)'
                        /\ S = InForce /\ T = InForce'
  OBVIOUS
<1>4. T = S \cup {d} /\ d \notin S /\ S \subseteq Docs /\ IsFiniteSet(S)
  BY <1>1, <1>3, MovementType DEF InForce
<1>5. /\ \A x \in Docs : f[x] = Ledger!Signed(x, i) /\ f[x] \in Int
      /\ \A x \in Docs : g[x] = Ledger!Signed(x, i)' /\ g[x] \in Int
  <2>1. \A x \in Docs : f[x] = Ledger!Signed(x, i) /\ f[x] \in Int
    BY <1>3, MovementType
  <2>2. ASSUME NEW x \in Docs PROVE g[x] = Ledger!Signed(x, i)' /\ g[x] \in Int
    <3>1. lines'[x][i] \in Nat
      BY <1>2
    <3> QED
      BY <1>3, <3>1 DEF Ledger!Movement
  <2> QED
    BY <2>1, <2>2
<1>6. \A x \in S : g[x] = f[x]
  BY <1>2, <1>4, <1>5
<1>7. SumFunctionOnSet(g, T) = g[d] + SumFunctionOnSet(g, S)
  BY <1>4, <1>5, SumAdd
<1>8. SumFunctionOnSet(g, S) = SumFunctionOnSet(f, S) /\ SumFunctionOnSet(f, S) \in Int
  BY <1>4, <1>5, <1>6, SumSame, SumStep
<1>9. qty[i] = Opening[i] + SumFunctionOnSet(f, S)
  BY <1>3 DEF Accounted
<1>10. qty'[i] = qty[i] + g[d]
  <2>1. g[d] = IF Outgoing(d) THEN -l[i] ELSE l[i]
    BY <1>2, <1>5
  <2>2. qty[i] \in Int /\ l[i] \in Nat
    OBVIOUS
  <2> QED
    BY <1>1, <2>1, <2>2
<1>11. Opening[i] \in Nat /\ g[d] \in Int
  BY <1>5, StockAssumption
<1>12. qty'[i] = Opening[i] + SumFunctionOnSet(g, T)
  BY <1>7, <1>8, <1>9, <1>10, <1>11
<1> QED
  BY <1>3, <1>12 DEF Accounted

\* Undoing a document gives back what it moved.
LEMMA UndoAccounted ==
  ASSUME qty \in [Items -> Int], lines \in [Docs -> Lines], status \in [Docs -> Ledger!Statuses],
         NEW d \in Docs, Ledger!Undo(d), NEW i \in Items, Accounted(i)
  PROVE  Accounted(i)'
<1>1. /\ lines' = lines /\ status[d] = "ACTIVE"
      /\ status' = [status EXCEPT ![d] = Ledger!UndoneAs(d)]
      /\ qty' = [j \in Items |-> IF ~Outgoing(d) THEN qty[j] - lines[d][j] ELSE qty[j] + lines[d][j]]
  BY DEF Ledger!Undo, Ledger!Move
<1>2. Ledger!UndoneAs(d) # "ACTIVE"
  BY DEF Ledger!UndoneAs
<1>3. PICK f, S, T : /\ f = Ledger!Movement(i) /\ f = Ledger!Movement(i)'
                     /\ S = InForce /\ T = InForce'
  BY <1>1 DEF Ledger!Movement
<1>4. S = T \cup {d} /\ d \notin T /\ S \subseteq Docs /\ IsFiniteSet(S)
  BY <1>1, <1>2, <1>3, MovementType DEF InForce
<1>5. \A x \in Docs : f[x] = Ledger!Signed(x, i) /\ f[x] \in Int
  BY <1>3, MovementType
<1>6. IsFiniteSet(T)
  BY <1>4, FS_Subset
<1>7. SumFunctionOnSet(f, S) = f[d] + SumFunctionOnSet(f, T) /\ SumFunctionOnSet(f, T) \in Int
  BY <1>4, <1>5, <1>6, SumAdd, SumStep
<1>8. qty[i] = Opening[i] + SumFunctionOnSet(f, S)
  BY <1>3 DEF Accounted
<1>9. qty'[i] = qty[i] - f[d]
  <2>1. f[d] = IF Outgoing(d) THEN -lines[d][i] ELSE lines[d][i]
    BY <1>5
  <2>2. qty[i] \in Int /\ lines[d][i] \in Nat
    OBVIOUS
  <2> QED
    BY <1>1, <2>1, <2>2
<1>10. Opening[i] \in Nat /\ f[d] \in Int
  BY <1>5, StockAssumption
<1>11. qty'[i] = Opening[i] + SumFunctionOnSet(f, T)
  BY <1>7, <1>8, <1>9, <1>10
<1> QED
  BY <1>3, <1>11 DEF Accounted

\* Lines that change only on documents not in force do not count.
LEMMA IdleAccounted ==
  ASSUME qty \in [Items -> Int], lines \in [Docs -> Lines], lines' \in [Docs -> Lines],
         qty' = qty, \A d \in Docs : (status'[d] = "ACTIVE") <=> (status[d] = "ACTIVE"),
         \A d \in Docs : status[d] = "ACTIVE" => lines'[d] = lines[d],
         NEW i \in Items, Accounted(i)
  PROVE  Accounted(i)'
<1>1. PICK f, g, S : /\ f = Ledger!Movement(i) /\ g = Ledger!Movement(i)'
                     /\ S = InForce /\ S = InForce'
  BY DEF InForce
<1>2. IsFiniteSet(S) /\ \A x \in S : f[x] \in Int /\ f[x] = g[x]
  <2>1. IsFiniteSet(S) /\ \A x \in Docs : f[x] = Ledger!Signed(x, i) /\ f[x] \in Int
    BY <1>1, MovementType
  <2>2. \A x \in Docs : g[x] = Ledger!Signed(x, i)'
    BY <1>1 DEF Ledger!Movement
  <2>3. \A x \in S : x \in Docs /\ lines'[x] = lines[x]
    BY <1>1 DEF InForce
  <2> QED
    BY <2>1, <2>2, <2>3
<1>3. SumFunctionOnSet(f, S) = SumFunctionOnSet(g, S)
  BY <1>2, SumSame
<1> QED
  BY <1>1, <1>3 DEF Accounted

LEMMA LedgerAccounts ==
  ASSUME Ledger!TypeOK, lines' \in [Docs -> Lines], [Ledger!Next]_(Ledger!vars),
         NEW i \in Items, Accounted(i)
  PROVE  Accounted(i)'
<1> USE DEF Ledger!TypeOK
<1>1. ASSUME NEW d \in Docs, NEW l \in Payloads[d], Ledger!Quote(d, l) \/ Ledger!Edit(d, l)
      PROVE  Accounted(i)'
  BY <1>1, IdleAccounted DEF Ledger!Quote, Ledger!Edit
<1>2. ASSUME NEW d \in Docs, NEW l \in Payloads[d], Ledger!Post(d, l) PROVE Accounted(i)'
  <2>1. l \in Lines
    BY StockAssumption
  <2> QED
    BY <1>2, <2>1, PostAccounted DEF Ledger!Post
<1>3. ASSUME NEW d \in Docs, Ledger!Confirm(d) PROVE Accounted(i)'
  <2>1. lines[d] \in Lines
    OBVIOUS
  <2> QED
    BY <1>3, <2>1, PostAccounted DEF Ledger!Confirm
<1>4. ASSUME NEW d \in Docs, Ledger!Discard(d) PROVE Accounted(i)'
  BY <1>4, IdleAccounted DEF Ledger!Discard
<1>5. ASSUME NEW d \in Docs, Ledger!Undo(d) PROVE Accounted(i)'
  BY <1>5, UndoAccounted
<1>6. CASE (\E j \in Items, b \in BOOLEAN : Ledger!SetLive(j, b)) \/ UNCHANGED Ledger!vars
  <2>1. UNCHANGED <<qty, status, lines>>
    BY <1>6 DEF Ledger!SetLive, Ledger!vars
  <2> QED
    BY <2>1, IdleAccounted
<1> QED
  BY <1>1, <1>2, <1>3, <1>4, <1>5, <1>6 DEF Ledger!Next

\* The ledger sums with its own instance of the operator.
LEMMA LedgerSum ==
  ASSUME NEW f, NEW S
  PROVE  Ledger!SumFunctionOnSet(f, S) = SumFunctionOnSet(f, S)
BY DEF SumFunctionOnSet, FoldFunctionOnSet, MapThenFoldSet,
       Ledger!SumFunctionOnSet, Ledger!FoldFunctionOnSet, Ledger!MapThenFoldSet

\* Whatever requests do to the same items and documents at once, what is on hand
\* is the opening stock plus what the documents in force brought in, less what
\* they took: nothing is moved twice, by half or under other lines.
THEOREM UnitsAccounted == Spec => []Conservation
<1> DEFINE A == \A i \in Items : Accounted(i)
<1>1. Init => A
  <2> SUFFICES ASSUME Init, NEW i \in Items PROVE Accounted(i)
    OBVIOUS
  <2>1. InForce = {} /\ qty[i] = Opening[i] /\ Opening[i] \in Nat
    BY StockAssumption DEF Init, Ledger!Init, InForce
  <2>2. SumFunctionOnSet(Ledger!Movement(i), {}) = 0
    BY SumEmpty
  <2> QED
    BY <2>1, <2>2 DEF Accounted
<1>2. IInv /\ A /\ [Next]_vars => A'
  <2> SUFFICES ASSUME IInv, A, [Next]_vars, NEW i \in Items PROVE Accounted(i)'
    OBVIOUS
  <2>1. Ledger!TypeOK
    BY DEF IInv, TypeOK, Ledger!TypeOK
  <2>2. lines' \in [Docs -> Lines]
    BY StepInv DEF IInv, TypeOK
  <2> QED
    BY <2>1, <2>2, StepRefines, LedgerAccounts
<1>3. A => Conservation
  <2>1. Conservation <=> Ledger!Conservation
    BY DEF Conservation
  <2>2. Ledger!Conservation <=>
           \A i \in Items :
              qty[i] = Opening[i] + SumFunctionOnSet(Ledger!Movement(i), InForce)
    BY LedgerSum DEF Ledger!Conservation, InForce
  <2> QED
    BY <2>1, <2>2 DEF Accounted
<1> HIDE DEF A
<1> QED
  BY <1>1, <1>2, <1>3, Coherent, PTL DEF Spec
=============================================================================
