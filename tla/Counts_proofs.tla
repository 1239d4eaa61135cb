---------------------------- MODULE Counts_proofs ----------------------------
(***************************************************************************)
(* Proofs about Counts for every set of items, takes, discharge requests   *)
(* and requests in flight: the inductive invariant, that one count at most *)
(* is in progress, and that completing a count settles what was counted.   *)
(***************************************************************************)
EXTENDS Counts, TLAPS

USE CountsAssumption DEF Docs

Labels == {"idle", "start", "count", "check", "move", "reject"}
Jobs == [doc : Docs \cup {None}, item : Items \cup {None}, saw : Nat, apply : BOOLEAN]
Entries == [expected : Nat \cup {None}, counted : Nat \cup {None}, exact : BOOLEAN]

LEMMA InitInv == Init => IInv
<1> SUFFICES ASSUME Init PROVE IInv
  OBVIOUS
<1>1. TypeOK
  BY DEF Init, TypeOK, NoLine, NoJob, NoPlan
<1>2. \A p \in Procs : RequestOk(p)
  BY DEF Init, RequestOk
<1>3. \A k \in Takes, i \in Items : LineOk(k, i)
  BY DEF Init, LineOk, NoLine
<1>4. (\A d \in Discharges : OutflowOk(d)) /\ DeliveredOnce
  BY DEF Init, OutflowOk, DeliveredOnce
<1>5. NonNegativeStock /\ OneCountAtATime
  BY DEF Init, NonNegativeStock, OneCountAtATime, InProgress
<1> QED
  BY <1>1, <1>2, <1>3, <1>4, <1>5 DEF IInv

----------------------------------------------------------------------------
(* What a step of one request leaves to another.                           *)

\* A take that changes ends, and leaves no count in progress.
Ends(k) ==
    \/ take'[k] = take[k]
    \/ take[k] # "none" /\ take'[k] \notin {"none", "IN_PROGRESS"}

DocKept(d) ==
    /\ d \in Takes => /\ take'[d] = take[d]
                      /\ \A i \in Items : /\ line'[d][i].expected = line[d][i].expected
                                          /\ line'[d][i].counted = line[d][i].counted
    /\ d \in Discharges => discharge'[d] = discharge[d]

Untouched(q) ==
    /\ pc'[q] = pc[q] /\ job'[q] = job[q] /\ plan'[q] = plan[q] /\ done'[q] = done[q]
    /\ homeLock = q => homeLock' = q /\ \A k \in Takes : Ends(k)
    /\ MoveOk(q) => docLock'[job[q].doc] = q /\ DocKept(job[q].doc)
    /\ \A i \in done[q] : live'[i] = live[i] /\ qty'[i] = qty[i]
    /\ \A r \in Procs \ {q} : done[q] \cap done'[r] = {}

\* What was once started, listed or asked for stays so.
Grows ==
    /\ \A k \in Takes : take[k] # "none" =>
          /\ take'[k] # "none"
          /\ \A i \in Items : line[k][i].expected # None => line'[k][i].expected # None
    /\ \A d \in Discharges : discharge[d] # "none" => discharge'[d] # "none"

LEMMA UntouchedOk ==
  ASSUME IInv, Grows, NEW q \in Procs, Untouched(q)
  PROVE  RequestOk(q)'
<1> PICK d : d = job[q].doc
  OBVIOUS
<1>0. RequestOk(q) /\ TypeOK
  BY DEF IInv
<1>1. /\ pc'[q] = pc[q] /\ job'[q] = job[q] /\ plan'[q] = plan[q] /\ done'[q] = done[q]
      /\ job'[q].doc = d
  BY DEF Untouched
<1>2. CASE pc[q] = "start"
  <2>1. homeLock' = q /\ d \in Takes /\ take'[d] = "none"
    BY <1>0, <1>2 DEF RequestOk, Untouched, Ends
  <2>2. InProgress' = {}
    BY <1>0, <1>2 DEF RequestOk, Untouched, Ends, InProgress
  <2> QED
    BY <1>0, <1>1, <1>2, <2>1, <2>2 DEF RequestOk
<1>3. CASE pc[q] = "count"
  <2>1. d \in Takes /\ take[d] # "none" /\ job[q].item \in Lines(d)
    BY <1>0, <1>3 DEF RequestOk
  <2>2. take'[d] # "none" /\ job[q].item \in Lines(d)'
    BY <2>1 DEF Grows, Lines
  <2> QED
    BY <1>0, <1>1, <1>3, <2>1, <2>2 DEF RequestOk
<1>4. CASE pc[q] \in {"check", "move"}
  <2>1. MoveOk(q)
    BY <1>0, <1>4 DEF RequestOk
  <2>2. d \in Docs /\ docLock'[d] = q /\ DocKept(d)
    BY <2>1 DEF MoveOk, Untouched
  <2>3. d \in Takes => Lines(d)' = Lines(d)
    BY <2>2 DEF DocKept, Lines
  <2>4. d \in Takes => \A i \in Items : Variance(d, i)' = Variance(d, i)
    BY <2>2, <2>3 DEF DocKept, Lines, Variance
  <2>5. IF d \in Takes
        THEN /\ take'[d] = "IN_PROGRESS" /\ \A i \in Lines(d)' : line'[d][i].counted # None
             /\ plan'[q] = [i \in Items |-> IF job'[q].apply THEN Variance(d, i)' ELSE 0]
        ELSE discharge'[d] = "PENDING" /\ plan'[q] = [i \in Items |-> -LinesOf[d][i]]
    <3>1. CASE d \in Takes
      <4>1. take'[d] = "IN_PROGRESS"
        BY <2>1, <2>2, <3>1 DEF MoveOk, DocKept
      <4>2. \A i \in Lines(d)' : line'[d][i].counted # None
        BY <2>1, <2>2, <2>3, <3>1 DEF MoveOk, DocKept, Lines
      <4>3. plan[q] = [i \in Items |-> IF job[q].apply THEN Variance(d, i) ELSE 0]
        BY <2>1, <3>1 DEF MoveOk
      <4> QED
        BY <1>1, <2>4, <3>1, <4>1, <4>2, <4>3
    <3>2. CASE d \notin Takes
      BY <1>1, <2>1, <2>2, <3>2 DEF MoveOk, DocKept
    <3> QED
      BY <3>1, <3>2
  <2>6. \A i \in done'[q] : plan'[q][i] < 0 => live'[i] /\ qty'[i] + plan'[q][i] >= 0
    BY <1>1, <2>1 DEF MoveOk, Untouched
  <2>7. \A r \in Procs \ {q} : done'[q] \cap done'[r] = {}
    BY <1>1 DEF Untouched
  <2>8. MoveOk(q)'
    BY <1>1, <2>2, <2>5, <2>6, <2>7 DEF MoveOk
  <2> QED
    BY <1>1, <1>4, <2>8 DEF RequestOk
<1>5. CASE pc[q] \notin {"start", "count", "check", "move"}
  BY <1>0, <1>1, <1>5 DEF RequestOk, Grows
<1> QED
  BY <1>2, <1>3, <1>4, <1>5
\* The requests beside p, which holds no row of theirs.
LEMMA Apart ==
  ASSUME IInv, NEW p \in Procs, NEW q \in Procs \ {p}
  PROVE  done[p] \cap done[q] = {}
<1>1. RequestOk(p)
  BY DEF IInv
<1>2. CASE pc[p] \in {"check", "move"}
  BY <1>1, <1>2 DEF RequestOk, MoveOk
<1>3. CASE pc[p] \notin {"check", "move"}
  BY <1>1, <1>3 DEF RequestOk
<1> QED
  BY <1>2, <1>3

LEMMA EndTypes ==
  ASSUME TypeOK, NEW p \in Procs, End(p)
  PROVE  /\ pc' \in [Procs -> Labels] /\ job' \in [Procs -> Jobs]
         /\ plan' \in [Procs -> [Items -> Int]] /\ done' \in [Procs -> SUBSET Items]
         /\ homeLock' \in Procs \cup {None} /\ docLock' \in [Docs -> Procs \cup {None}]
BY DEF End, Goto, TypeOK, NoJob, NoPlan, Labels, Jobs

\* The end of p's transaction: it is idle, and nobody else lost anything.
LEMMA EndFrame ==
  ASSUME IInv, NEW p \in Procs, End(p)
  PROVE  /\ RequestOk(p)'
         /\ \A q \in Procs \ {p} :
               /\ pc'[q] = pc[q] /\ job'[q] = job[q] /\ plan'[q] = plan[q] /\ done'[q] = done[q]
               /\ homeLock = q => homeLock' = q
               /\ \A d \in Docs : docLock[d] = q => docLock'[d] = q
               /\ \A r \in Procs \ {q} : done[q] \cap done'[r] = {}
<1>1. TypeOK
  BY DEF IInv
<1>2. pc'[p] = "idle" /\ job'[p] = NoJob /\ done'[p] = {}
  BY <1>1 DEF End, Goto, TypeOK
<1>3. RequestOk(p)'
  BY <1>2 DEF RequestOk
<1>4. ASSUME NEW q \in Procs \ {p}
      PROVE  /\ pc'[q] = pc[q] /\ job'[q] = job[q] /\ plan'[q] = plan[q] /\ done'[q] = done[q]
             /\ homeLock = q => homeLock' = q
             /\ \A d \in Docs : docLock[d] = q => docLock'[d] = q
  BY <1>1 DEF End, Goto, TypeOK
<1>5. \A q \in Procs \ {p} : \A r \in Procs \ {q} : done[q] \cap done'[r] = {}
  BY <1>2, <1>4, Apart
<1> QED
  BY <1>3, <1>4, <1>5

----------------------------------------------------------------------------
(* Steps that write nothing yet.                                           *)

\* A step of p that only changes its own locals and locks.
LEMMA OwnStep ==
  ASSUME IInv, NEW p \in Procs, UNCHANGED <<stock, counts, requests>>,
         pc' \in [Procs -> Labels], job' \in [Procs -> Jobs],
         plan' \in [Procs -> [Items -> Int]], done' \in [Procs -> SUBSET Items],
         homeLock' \in Procs \cup {None}, docLock' \in [Docs -> Procs \cup {None}],
         RequestOk(p)',
         \A q \in Procs \ {p} :
            /\ pc'[q] = pc[q] /\ job'[q] = job[q] /\ plan'[q] = plan[q] /\ done'[q] = done[q]
            /\ homeLock = q => homeLock' = q
            /\ \A d \in Docs : docLock[d] = q => docLock'[d] = q
            /\ done[q] \cap done'[p] = {}
  PROVE  IInv'
<1> USE DEF stock, counts, requests
<1>1. TypeOK'
  BY DEF IInv, TypeOK, Labels, Jobs
<1>2. Grows
  BY DEF Grows
<1>3. ASSUME NEW q \in Procs \ {p} PROVE RequestOk(q)'
  <2>1. \A r \in Procs \ {q} : done[q] \cap done'[r] = {}
    BY Apart
  <2>2. /\ qty' = qty /\ live' = live /\ take' = take /\ line' = line /\ discharge' = discharge
        /\ pc'[q] = pc[q] /\ job'[q] = job[q] /\ plan'[q] = plan[q] /\ done'[q] = done[q]
        /\ homeLock = q => homeLock' = q
        /\ \A d \in Docs : docLock[d] = q => docLock'[d] = q
    OBVIOUS
  <2>3. (\A k \in Takes : Ends(k)) /\ \A d \in Docs : DocKept(d)
    BY <2>2 DEF Ends, DocKept
  <2>4. Untouched(q)
    BY <2>1, <2>2, <2>3 DEF Untouched, MoveOk
  <2> QED
    BY <1>2, <2>4, UntouchedOk
<1>4. \A k \in Takes, i \in Items : LineOk(k, i)'
  BY DEF IInv, LineOk
<1>5. (\A d \in Discharges : OutflowOk(d)') /\ NonNegativeStock' /\ DeliveredOnce' /\ OneCountAtATime'
  BY DEF IInv, OutflowOk, NonNegativeStock, DeliveredOnce, OneCountAtATime, InProgress
<1> QED
  BY <1>1, <1>3, <1>4, <1>5 DEF IInv

LEMMA RollbackInv ==
  ASSUME IInv, NEW p \in Procs, Rollback(p)
  PROVE  IInv'
<1>1. End(p) /\ UNCHANGED <<stock, counts, requests>> /\ TypeOK
  BY DEF Rollback, IInv
<1>2. RequestOk(p)'
  BY <1>1, EndFrame
<1>3. ASSUME NEW q \in Procs \ {p}
      PROVE  /\ pc'[q] = pc[q] /\ job'[q] = job[q] /\ plan'[q] = plan[q] /\ done'[q] = done[q]
             /\ homeLock = q => homeLock' = q
             /\ \A d \in Docs : docLock[d] = q => docLock'[d] = q
             /\ done[q] \cap done'[p] = {}
  BY <1>1, EndFrame
<1>4. /\ pc' \in [Procs -> Labels] /\ job' \in [Procs -> Jobs]
      /\ plan' \in [Procs -> [Items -> Int]] /\ done' \in [Procs -> SUBSET Items]
      /\ homeLock' \in Procs \cup {None} /\ docLock' \in [Docs -> Procs \cup {None}]
  BY <1>1, EndTypes
<1> QED
  BY <1>1, <1>2, <1>3, <1>4, OwnStep

\* A request begins with a read, with or without a lock on what it read.
LEMMA StartInv ==
  ASSUME IInv, NEW p \in Procs, NEW k \in Takes, Start(p, k)
  PROVE  IInv'
<1>0. TypeOK /\ RequestOk(p)
  BY DEF IInv
<1>1. /\ pc' = [pc EXCEPT ![p] = "start"]
      /\ job' = [job EXCEPT ![p] = [NoJob EXCEPT !.doc = k]]
      /\ pc[p] = "idle" /\ homeLock = None /\ homeLock' = p
      /\ UNCHANGED <<stock, counts, requests, docLock, plan, done>>
      /\ InProgress = {} /\ take[k] = "none"
  BY DEF Start, Begin, Goto, Fresh
<1>2. [NoJob EXCEPT !.doc = k] \in Jobs /\ [NoJob EXCEPT !.doc = k].doc = k
  BY DEF NoJob, Jobs
<1>3. pc' \in [Procs -> Labels] /\ job' \in [Procs -> Jobs] /\ pc'[p] = "start" /\ job'[p].doc = k
  BY <1>0, <1>1, <1>2 DEF TypeOK, Labels, Jobs
<1>4. done[p] = {}
  BY <1>0, <1>1 DEF RequestOk
<1>5. RequestOk(p)'
  BY <1>1, <1>3, <1>4 DEF RequestOk, InProgress, counts
<1>6. \A q \in Procs \ {p} : homeLock # q /\ pc'[q] = pc[q] /\ job'[q] = job[q]
  BY <1>0, <1>1 DEF TypeOK
<1> QED
  BY <1>0, <1>1, <1>3, <1>4, <1>5, <1>6, OwnStep DEF TypeOK

LEMMA LookInv ==
  ASSUME IInv, NEW p \in Procs, NEW k \in Takes, NEW i \in Items, Look(p, k, i)
  PROVE  IInv'
<1> DEFINE j == [doc |-> k, item |-> i, saw |-> shelf[i], apply |-> FALSE]
<1>0. TypeOK /\ RequestOk(p)
  BY DEF IInv
<1>1. /\ pc' = [pc EXCEPT ![p] = "count"] /\ job' = [job EXCEPT ![p] = j]
      /\ pc[p] = "idle"
      /\ UNCHANGED <<stock, counts, requests, locks, plan, done>>
      /\ take[k] = "IN_PROGRESS" /\ line[k][i].expected # None /\ shelf[i] >= 0
  BY DEF Look, Begin, Goto
<1>2. j \in Jobs /\ j.doc = k /\ j.item = i
  <2>1. shelf[i] \in Nat
    BY <1>0, <1>1 DEF TypeOK
  <2> QED
    BY <2>1 DEF Jobs
<1> HIDE DEF j
<1>3. /\ pc' \in [Procs -> Labels] /\ job' \in [Procs -> Jobs]
      /\ pc'[p] = "count" /\ job'[p].doc = k /\ job'[p].item = i
  BY <1>0, <1>1, <1>2 DEF TypeOK, Labels, Jobs
<1>4. done[p] = {}
  BY <1>0, <1>1 DEF RequestOk
<1>5. RequestOk(p)'
  BY <1>1, <1>3, <1>4 DEF RequestOk, Lines, counts
<1>6. \A q \in Procs \ {p} : pc'[q] = pc[q] /\ job'[q] = job[q]
  BY <1>0, <1>1 DEF TypeOK
<1> QED
  BY <1>0, <1>1, <1>3, <1>4, <1>5, <1>6, OwnStep DEF TypeOK, locks

LEMMA ReadRejectInv ==
  ASSUME IInv, NEW p \in Procs, NEW d \in Discharges, ReadReject(p, d)
  PROVE  IInv'
<1>0. TypeOK /\ RequestOk(p)
  BY DEF IInv
<1>1. /\ pc' = [pc EXCEPT ![p] = "reject"]
      /\ job' = [job EXCEPT ![p] = [NoJob EXCEPT !.doc = d]]
      /\ pc[p] = "idle"
      /\ UNCHANGED <<stock, counts, requests, locks, plan, done>>
      /\ discharge[d] = "PENDING"
  BY DEF ReadReject, Begin, Goto
<1>2. [NoJob EXCEPT !.doc = d] \in Jobs /\ [NoJob EXCEPT !.doc = d].doc = d
  BY DEF NoJob, Jobs
<1>3. pc' \in [Procs -> Labels] /\ job' \in [Procs -> Jobs] /\ pc'[p] = "reject" /\ job'[p].doc = d
  BY <1>0, <1>1, <1>2 DEF TypeOK, Labels, Jobs
<1>4. done[p] = {}
  BY <1>0, <1>1 DEF RequestOk
<1>5. RequestOk(p)'
  BY <1>1, <1>3, <1>4 DEF RequestOk, requests
<1>6. \A q \in Procs \ {p} : pc'[q] = pc[q] /\ job'[q] = job[q]
  BY <1>0, <1>1 DEF TypeOK
<1> QED
  BY <1>0, <1>1, <1>3, <1>4, <1>5, <1>6, OwnStep DEF TypeOK, locks
LEMMA Integral ==
  ASSUME IInv, NEW k \in Takes, \A i \in Lines(k) : line[k][i].counted # None, NEW i \in Items
  PROVE  Variance(k, i) \in Int
BY DEF IInv, TypeOK, Variance, Lines

LEMMA CompleteInv ==
  ASSUME IInv, NEW p \in Procs, NEW k \in Takes, NEW b \in BOOLEAN, Complete(p, k, b)
  PROVE  IInv'
<1> DEFINE j == [doc |-> k, item |-> None, saw |-> 0, apply |-> b]
           m == [i \in Items |-> IF b THEN Variance(k, i) ELSE 0]
<1>0. TypeOK /\ RequestOk(p)
  BY DEF IInv
<1>1. /\ pc' = [pc EXCEPT ![p] = "move"] /\ job' = [job EXCEPT ![p] = j]
      /\ plan' = [plan EXCEPT ![p] = m]
      /\ pc[p] = "idle"
      /\ UNCHANGED <<stock, counts, requests, homeLock, done>>
      /\ docLock[k] = None /\ docLock' = [docLock EXCEPT ![k] = p]
      /\ take[k] = "IN_PROGRESS" /\ \A i \in Lines(k) : line[k][i].counted # None
  BY DEF Complete, Begin, Goto
<1>2. j \in Jobs /\ j.doc = k /\ j.apply = b
  BY DEF Jobs
<1>3. m \in [Items -> Int]
  BY <1>1, Integral
<1>4. \A i \in Items : Variance(k, i)' = Variance(k, i)
  BY <1>1 DEF Variance, Lines, counts
<1>5. m = [i \in Items |-> IF b THEN Variance(k, i)' ELSE 0]
  BY <1>4
<1> HIDE DEF j, m
<1>6. /\ pc' \in [Procs -> Labels] /\ job' \in [Procs -> Jobs] /\ plan' \in [Procs -> [Items -> Int]]
      /\ docLock' \in [Docs -> Procs \cup {None}]
      /\ pc'[p] = "move" /\ job'[p].doc = k /\ job'[p].apply = b /\ plan'[p] = m /\ docLock'[k] = p
  BY <1>0, <1>1, <1>2, <1>3 DEF TypeOK, Labels, Jobs
<1>7. done[p] = {} /\ done' = done
  BY <1>0, <1>1 DEF RequestOk
<1>8. take' = take /\ Lines(k)' = Lines(k) /\ line' = line
  BY <1>1 DEF counts, Lines
<1>9. MoveOk(p)'
  BY <1>1, <1>5, <1>6, <1>7, <1>8 DEF MoveOk
<1>10. RequestOk(p)'
  BY <1>6, <1>9 DEF RequestOk
<1>11. \A q \in Procs \ {p} :
          /\ pc'[q] = pc[q] /\ job'[q] = job[q] /\ plan'[q] = plan[q] /\ done'[q] = done[q]
          /\ homeLock = q => homeLock' = q
          /\ \A d \in Docs : docLock[d] = q => docLock'[d] = q
          /\ done[q] \cap done'[p] = {}
  BY <1>0, <1>1, <1>7 DEF TypeOK
<1>12. done' \in [Procs -> SUBSET Items] /\ homeLock' \in Procs \cup {None}
  BY <1>0, <1>1 DEF TypeOK
<1> QED
  BY <1>1, <1>6, <1>10, <1>11, <1>12, OwnStep

LEMMA ApproveInv ==
  ASSUME IInv, NEW p \in Procs, NEW d \in Discharges, Approve(p, d)
  PROVE  IInv'
<1> DEFINE j == [NoJob EXCEPT !.doc = d]
           m == [i \in Items |-> -LinesOf[d][i]]
<1>0. TypeOK /\ RequestOk(p)
  BY DEF IInv
<1>1. /\ pc' = [pc EXCEPT ![p] = "check"] /\ job' = [job EXCEPT ![p] = j]
      /\ plan' = [plan EXCEPT ![p] = m]
      /\ pc[p] = "idle"
      /\ UNCHANGED <<stock, counts, requests, homeLock, done>>
      /\ docLock[d] = None /\ docLock' = [docLock EXCEPT ![d] = p]
      /\ discharge[d] = "PENDING" /\ d \notin Takes
  BY DEF Approve, Begin, Goto
<1>2. j \in Jobs /\ j.doc = d
  BY DEF Jobs, NoJob
<1>3. m \in [Items -> Int]
  OBVIOUS
<1>4. m = [i \in Items |-> -LinesOf[d][i]]
  OBVIOUS
<1> HIDE DEF j, m
<1>6. /\ pc' \in [Procs -> Labels] /\ job' \in [Procs -> Jobs] /\ plan' \in [Procs -> [Items -> Int]]
      /\ docLock' \in [Docs -> Procs \cup {None}]
      /\ pc'[p] = "check" /\ job'[p].doc = d /\ plan'[p] = m /\ docLock'[d] = p
  BY <1>0, <1>1, <1>2, <1>3 DEF TypeOK, Labels, Jobs
<1>7. done[p] = {} /\ done' = done /\ discharge' = discharge
  BY <1>0, <1>1 DEF RequestOk, requests
<1>9. MoveOk(p)'
  BY <1>1, <1>4, <1>6, <1>7 DEF MoveOk
<1>10. RequestOk(p)'
  BY <1>6, <1>9 DEF RequestOk
<1>11. \A q \in Procs \ {p} :
          /\ pc'[q] = pc[q] /\ job'[q] = job[q] /\ plan'[q] = plan[q] /\ done'[q] = done[q]
          /\ homeLock = q => homeLock' = q
          /\ \A e \in Docs : docLock[e] = q => docLock'[e] = q
          /\ done[q] \cap done'[p] = {}
  BY <1>0, <1>1, <1>7 DEF TypeOK
<1>12. done' \in [Procs -> SUBSET Items] /\ homeLock' \in Procs \cup {None}
  BY <1>0, <1>1 DEF TypeOK
<1> QED
  BY <1>1, <1>6, <1>10, <1>11, <1>12, OwnStep

\* p writes its rows one by one, each under the row's lock.
LEMMA MoveInv ==
  ASSUME IInv, NEW p \in Procs,
         \/ Check(p)
         \/ \E i \in Items : Take(p, i) \/ Put(p, i)
  PROVE  IInv'
<1>0. TypeOK /\ RequestOk(p)
  BY DEF IInv
<1>1. /\ UNCHANGED <<stock, counts, requests, locks, job, plan>>
      /\ pc[p] \in {"check", "move"} /\ pc' = [pc EXCEPT ![p] = "move"]
  BY <1>0 DEF Check, Take, Put, Write, Goto, TypeOK
<1>2. \/ done' = done
      \/ \E i \in Items : /\ done' = [done EXCEPT ![p] = done[p] \cup {i}] /\ RowFree(i)
                          /\ plan[p][i] < 0 => live[i] /\ qty[i] + plan[p][i] >= 0
  <2>1. CASE Check(p)
    BY <2>1 DEF Check
  <2>2. ASSUME NEW i \in Items, Take(p, i)
        PROVE  /\ done' = [done EXCEPT ![p] = done[p] \cup {i}] /\ RowFree(i)
               /\ live[i] /\ qty[i] + plan[p][i] >= 0
    BY <2>2 DEF Take, Write, TakeOk
  <2>3. ASSUME NEW i \in Items, Put(p, i)
        PROVE  /\ done' = [done EXCEPT ![p] = done[p] \cup {i}] /\ RowFree(i)
               /\ ~(plan[p][i] < 0)
    <3>1. plan[p][i] \in Int
      BY <1>0 DEF TypeOK
    <3> QED
      BY <2>3, <3>1 DEF Put, Write
  <2> QED
    BY <2>1, <2>2, <2>3
<1>3. /\ done' \in [Procs -> SUBSET Items]
      /\ \A q \in Procs \ {p} : done'[q] = done[q] /\ done[q] \cap done'[p] = {}
  <2>1. CASE done' = done
    BY <1>0, <2>1, Apart DEF TypeOK
  <2>2. ASSUME NEW i \in Items, done' = [done EXCEPT ![p] = done[p] \cup {i}], RowFree(i)
        PROVE  /\ done' \in [Procs -> SUBSET Items]
               /\ \A q \in Procs \ {p} : done'[q] = done[q] /\ done[q] \cap done'[p] = {}
    <3>1. done'[p] = done[p] \cup {i} /\ \A q \in Procs \ {p} : done'[q] = done[q] /\ i \notin done[q]
      BY <1>0, <2>2 DEF TypeOK, RowFree
    <3>2. done' \in [Procs -> SUBSET Items]
      BY <1>0, <2>2 DEF TypeOK
    <3> QED
      BY <3>1, <3>2, Apart
  <2> QED
    BY <1>2, <2>1, <2>2
<1>4. MoveOk(p)
  BY <1>0, <1>1 DEF RequestOk
<1>5. \A i \in done'[p] : plan[p][i] < 0 => live[i] /\ qty[i] + plan[p][i] >= 0
  BY <1>0, <1>2, <1>4 DEF MoveOk, TypeOK
<1>6. MoveOk(p)'
  <2>1. PICK d : d = job[p].doc /\ job'[p].doc = d
    BY <1>1
  <2>2. /\ take' = take /\ line' = line /\ discharge' = discharge /\ docLock' = docLock
        /\ plan' = plan /\ job' = job /\ live' = live /\ qty' = qty
    BY <1>1 DEF stock, counts, requests, locks
  <2>3. Lines(d)' = Lines(d) /\ \A i \in Items : Variance(d, i)' = Variance(d, i)
    BY <2>1, <2>2 DEF Lines, Variance
  <2>4. \A q \in Procs \ {p} : done'[p] \cap done'[q] = {}
    BY <1>3
  <2> QED
    BY <1>4, <1>5, <2>1, <2>2, <2>3, <2>4 DEF MoveOk
<1>7. pc' \in [Procs -> Labels] /\ pc'[p] = "move" /\ \A q \in Procs \ {p} : pc'[q] = pc[q]
  BY <1>0, <1>1 DEF TypeOK, Labels
<1>8. RequestOk(p)'
  BY <1>6, <1>7 DEF RequestOk
<1> QED
  BY <1>0, <1>1, <1>3, <1>7, <1>8, OwnStep DEF TypeOK, locks, Jobs

----------------------------------------------------------------------------
(* Steps that write.                                                       *)

LEMMA CreateInv ==
  ASSUME IInv, NEW p \in Procs, Create(p)
  PROVE  IInv'
<1> PICK k : k = job[p].doc
  OBVIOUS
<1> DEFINE rows == [i \in Items |-> IF live[i] THEN [NoLine EXCEPT !.expected = qty[i]] ELSE NoLine]
<1>0. TypeOK /\ RequestOk(p) /\ End(p)
  BY DEF IInv, Create
<1>1. k \in Takes /\ take[k] = "none" /\ homeLock = p /\ InProgress = {}
  BY <1>0 DEF Create, RequestOk
<1>2. /\ take' = [take EXCEPT ![k] = "IN_PROGRESS"] /\ line' = [line EXCEPT ![k] = rows]
      /\ UNCHANGED <<stock, applied, requests>>
  BY DEF Create
<1>3. rows \in [Items -> Entries] /\ \A i \in Items : rows[i].counted = None /\ ~rows[i].exact
  <2>1. NonNegativeStock
    BY DEF IInv
  <2>2. ASSUME NEW i \in Items PROVE qty[i] \in Nat
    <3>1. qty[i] \in Int
      BY <1>0 DEF TypeOK
    <3>2. qty[i] >= 0
      BY <2>1 DEF NonNegativeStock
    <3> QED
      BY <3>1, <3>2
  <2> QED
    BY <2>2 DEF NoLine, Entries
<1> HIDE DEF rows
<1>4. TypeOK'
  <2>1. take' \in [Takes -> {"none", "IN_PROGRESS", "COMPLETED", "CANCELLED"}] /\ line' \in [Takes -> [Items -> Entries]]
    BY <1>0, <1>1, <1>2, <1>3 DEF TypeOK, Entries
  <2> QED
    BY <1>0, <1>2, <2>1, EndTypes DEF TypeOK, stock, requests, Labels, Jobs, Entries
<1>5. take'[k] = "IN_PROGRESS" /\ line'[k] = rows
      /\ \A j \in Takes \ {k} : take'[j] = take[j] /\ line'[j] = line[j]
  BY <1>0, <1>1, <1>2 DEF TypeOK
<1>6. Grows
  BY <1>1, <1>2, <1>5 DEF Grows, requests
<1>7. ASSUME NEW q \in Procs \ {p} PROVE RequestOk(q)'
  <2>1. homeLock # q
    BY <1>1
  <2>2. MoveOk(q) => docLock'[job[q].doc] = q /\ DocKept(job[q].doc)
    <3>1. MoveOk(q) => job[q].doc \in Docs /\ docLock[job[q].doc] = q /\ job[q].doc # k
      BY <1>1 DEF MoveOk
    <3> QED
      BY <1>0, <1>2, <1>5, <3>1, EndFrame DEF DocKept, requests
  <2>3. \A i \in done[q] : live'[i] = live[i] /\ qty'[i] = qty[i]
    BY <1>2 DEF stock
  <2>4. Untouched(q)
    BY <1>0, <2>1, <2>2, <2>3, EndFrame DEF Untouched
  <2> QED
    BY <1>6, <2>4, UntouchedOk
<1>8. ASSUME NEW j \in Takes, NEW i \in Items PROVE LineOk(j, i)'
  <2>1. CASE j = k
    BY <1>3, <1>5, <2>1 DEF LineOk
  <2>2. CASE j # k
    BY <1>2, <1>5, <2>2 DEF LineOk, IInv, stock
  <2> QED
    BY <2>1, <2>2
<1>9. OneCountAtATime'
  BY <1>1, <1>5 DEF OneCountAtATime, InProgress
<1>10. NonNegativeStock' /\ DeliveredOnce' /\ \A d \in Discharges : OutflowOk(d)'
  BY <1>2 DEF IInv, NonNegativeStock, DeliveredOnce, OutflowOk, stock, requests
<1> QED
  BY <1>0, <1>4, <1>7, <1>8, <1>9, <1>10, EndFrame DEF IInv
LEMMA SaveCountInv ==
  ASSUME IInv, NEW p \in Procs, SaveCount(p)
  PROVE  IInv'
<1> PICK k : k = job[p].doc
  OBVIOUS
<1> PICK i : i = job[p].item
  OBVIOUS
<1> PICK l : l = [expected |-> qty[i], counted |-> job[p].saw, exact |-> job[p].saw = shelf[i]]
  OBVIOUS
<1>0. TypeOK /\ RequestOk(p) /\ End(p)
  BY DEF IInv, SaveCount
<1>1. k \in Takes /\ i \in Items /\ i \in Lines(k) /\ docLock[k] = None /\ take[k] = "IN_PROGRESS"
  BY <1>0 DEF SaveCount, RequestOk, Lines
<1>2. line' = [line EXCEPT ![k][i] = l] /\ UNCHANGED <<stock, take, applied, requests>>
  BY DEF SaveCount, Expected
<1>3. job[p].saw \in Nat /\ qty[i] \in Nat /\ shelf[i] \in Int
  <2>1. qty[i] \in Int /\ job[p].saw \in Nat /\ shelf[i] \in Int
    BY <1>0, <1>1 DEF TypeOK
  <2>2. qty[i] >= 0
    BY <1>1 DEF IInv, NonNegativeStock
  <2> QED
    BY <2>1, <2>2
<1>4. l \in Entries /\ l.expected = qty[i] /\ l.counted = job[p].saw /\ (l.exact <=> job[p].saw = shelf[i])
  BY <1>3 DEF Entries
<1>5. line' \in [Takes -> [Items -> Entries]]
  BY <1>0, <1>1, <1>2, <1>4 DEF TypeOK, Entries
<1>6. TypeOK'
  BY <1>0, <1>2, <1>5, EndTypes DEF TypeOK, stock, requests, Labels, Jobs, Entries
<1>7. /\ line'[k][i] = l
      /\ \A j \in Takes, h \in Items : j # k \/ h # i => line'[j][h] = line[j][h]
  BY <1>0, <1>1, <1>2 DEF TypeOK
<1>8. l.expected # None /\ l.counted # None
  BY <1>3, <1>4
<1>9. Grows
  BY <1>2, <1>7, <1>8 DEF Grows, requests
<1>10. ASSUME NEW q \in Procs \ {p} PROVE RequestOk(q)'
  <2>1. MoveOk(q) => docLock'[job[q].doc] = q /\ DocKept(job[q].doc)
    <3>1. MoveOk(q) => job[q].doc \in Docs /\ docLock[job[q].doc] = q /\ job[q].doc # k
      BY <1>1 DEF MoveOk
    <3> QED
      BY <1>0, <1>2, <1>7, <3>1, EndFrame DEF DocKept, requests
  <2>2. \A h \in done[q] : live'[h] = live[h] /\ qty'[h] = qty[h]
    BY <1>2 DEF stock
  <2>3. Untouched(q)
    BY <1>0, <1>2, <2>1, <2>2, EndFrame DEF Untouched, Ends
  <2> QED
    BY <1>9, <2>3, UntouchedOk
<1>11. ASSUME NEW j \in Takes, NEW h \in Items PROVE LineOk(j, h)'
  <2>1. CASE j = k /\ h = i
    BY <1>1, <1>2, <1>3, <1>4, <1>7, <1>8, <2>1 DEF LineOk, stock
  <2>2. CASE j # k \/ h # i
    BY <1>2, <1>7, <2>2 DEF LineOk, IInv, stock
  <2> QED
    BY <2>1, <2>2
<1>12. /\ NonNegativeStock' /\ DeliveredOnce' /\ OneCountAtATime'
       /\ \A d \in Discharges : OutflowOk(d)'
  BY <1>2 DEF IInv, NonNegativeStock, DeliveredOnce, OneCountAtATime, InProgress, OutflowOk,
              stock, requests
<1> QED
  BY <1>0, <1>6, <1>10, <1>11, <1>12, EndFrame DEF IInv

\* What a request that commits has planned and done.
LEMMA MovedRows ==
  ASSUME IInv, NEW p \in Procs, AllDone(p)
  PROVE  /\ MoveOk(p)
         /\ plan[p] \in [Items -> Int] /\ qty \in [Items -> Int]
         /\ Moved(p) \in [Items -> Int]
         /\ \A i \in Items : Moved(p)[i] = qty[i] + plan[p][i] /\ Moved(p)[i] >= 0
         /\ \A q \in Procs \ {p} : \A i \in done[q] : i \in Items /\ Moved(p)[i] = qty[i]
<1>0. TypeOK /\ RequestOk(p) /\ NonNegativeStock
  BY DEF IInv
<1>1. MoveOk(p)
  BY <1>0 DEF AllDone, RequestOk
<1>2. plan[p] \in [Items -> Int] /\ qty \in [Items -> Int]
  BY <1>0 DEF TypeOK
<1>3. Moved(p) \in [Items -> Int] /\ \A i \in Items : Moved(p)[i] = qty[i] + plan[p][i]
  BY <1>2 DEF Moved
<1>4. ASSUME NEW i \in Items PROVE Moved(p)[i] >= 0
  <2>1. CASE plan[p][i] < 0
    <3>1. i \in done[p]
      BY <1>2, <2>1 DEF AllDone, ToDo
    <3> QED
      BY <1>1, <1>3, <2>1, <3>1 DEF MoveOk
  <2>2. CASE plan[p][i] >= 0
    BY <1>0, <1>2, <1>3, <2>2 DEF NonNegativeStock
  <2> QED
    BY <1>2, <2>1, <2>2
<1>5. ASSUME NEW q \in Procs \ {p}, NEW i \in done[q] PROVE i \in Items /\ Moved(p)[i] = qty[i]
  <2>1. i \in Items
    BY <1>0 DEF TypeOK
  <2>2. i \notin done[p]
    BY Apart
  <2>3. plan[p][i] = 0
    BY <2>1, <2>2 DEF AllDone, ToDo
  <2> QED
    BY <1>2, <1>3, <2>1, <2>3
<1> QED
  BY <1>1, <1>2, <1>3, <1>4, <1>5

LEMMA CommitTakeInv ==
  ASSUME IInv, NEW p \in Procs, CommitTake(p)
  PROVE  IInv'
<1> PICK k : k = job[p].doc
  OBVIOUS
<1>0. TypeOK /\ RequestOk(p) /\ End(p)
  BY DEF IInv, CommitTake
<1>1. k \in Takes /\ docLock[k] = p /\ take[k] = "IN_PROGRESS" /\ AllDone(p)
  BY MovedRows DEF CommitTake, MoveOk
<1>2. /\ qty' = Moved(p) /\ take' = [take EXCEPT ![k] = "COMPLETED"]
      /\ applied' = [applied EXCEPT ![k] = job[p].apply]
      /\ UNCHANGED <<live, shelf, line, requests>>
  BY DEF CommitTake
<1>3. TypeOK'
  <2>1. qty' \in [Items -> Int]
    BY <1>1, <1>2, MovedRows
  <2>2. take' \in [Takes -> {"none", "IN_PROGRESS", "COMPLETED", "CANCELLED"}]
    BY <1>0, <1>2 DEF TypeOK
  <2>3. applied' \in [Takes -> BOOLEAN]
    BY <1>0, <1>2 DEF TypeOK
  <2> QED
    BY <1>0, <1>2, <2>1, <2>2, <2>3, EndTypes DEF TypeOK, requests, Labels, Jobs
<1>4. take'[k] = "COMPLETED" /\ \A j \in Takes \ {k} : take'[j] = take[j]
  BY <1>0, <1>1, <1>2 DEF TypeOK
<1>5. Grows
  BY <1>2, <1>4 DEF Grows, requests
<1>6. ASSUME NEW q \in Procs \ {p} PROVE RequestOk(q)'
  <2>1. MoveOk(q) => docLock'[job[q].doc] = q /\ DocKept(job[q].doc)
    <3>1. MoveOk(q) => job[q].doc \in Docs /\ docLock[job[q].doc] = q /\ job[q].doc # k
      BY <1>1 DEF MoveOk
    <3> QED
      BY <1>0, <1>2, <1>4, <3>1, EndFrame DEF DocKept, requests
  <2>2. \A i \in done[q] : live'[i] = live[i] /\ qty'[i] = qty[i]
    BY <1>1, <1>2, MovedRows
  <2>3. \A j \in Takes : Ends(j)
    BY <1>1, <1>4 DEF Ends
  <2>4. Untouched(q)
    BY <1>0, <2>1, <2>2, <2>3, EndFrame DEF Untouched
  <2> QED
    BY <1>5, <2>4, UntouchedOk
<1>7. \A j \in Takes : take'[j] # "IN_PROGRESS"
  BY <1>1, <1>4 DEF IInv, OneCountAtATime, InProgress
<1>8. ASSUME NEW j \in Takes, NEW i \in Items PROVE LineOk(j, i)'
  <2>1. LineOk(j, i) /\ (take'[j] = "none" => take[j] = "none")
    BY <1>4 DEF IInv
  <2> QED
    BY <1>2, <1>7, <2>1 DEF LineOk
<1>9. OneCountAtATime'
  BY <1>7 DEF OneCountAtATime, InProgress
<1>10. NonNegativeStock'
  BY <1>1, <1>2, MovedRows DEF NonNegativeStock
<1>11. DeliveredOnce' /\ \A d \in Discharges : OutflowOk(d)'
  BY <1>2 DEF IInv, DeliveredOnce, OutflowOk, requests
<1> QED
  BY <1>0, <1>3, <1>6, <1>8, <1>9, <1>10, <1>11, EndFrame DEF IInv

LEMMA CommitDischargeInv ==
  ASSUME IInv, NEW p \in Procs, CommitDischarge(p)
  PROVE  IInv'
<1> PICK d : d = job[p].doc
  OBVIOUS
<1>0. TypeOK /\ RequestOk(p) /\ End(p)
  BY DEF IInv, CommitDischarge
<1>1. d \in Discharges /\ d \notin Takes /\ docLock[d] = p /\ discharge[d] = "PENDING" /\ AllDone(p)
  <2>1. d \in Discharges /\ AllDone(p)
    BY DEF CommitDischarge
  <2>2. d \notin Takes
    BY <2>1
  <2>3. MoveOk(p)
    BY <2>1, MovedRows
  <2> QED
    BY <2>1, <2>2, <2>3 DEF MoveOk
<1>2. /\ qty' = Moved(p) /\ shelf' = [i \in Items |-> shelf[i] + plan[p][i]]
      /\ discharge' = [discharge EXCEPT ![d] = "COMPLETED"]
      /\ outflows' = [outflows EXCEPT ![d] = outflows[d] + 1]
      /\ UNCHANGED <<live, counts>>
  BY DEF CommitDischarge
<1>3. TypeOK'
  <2>1. qty' \in [Items -> Int]
    BY <1>1, <1>2, MovedRows
  <2>2. shelf' \in [Items -> Int]
    BY <1>0, <1>2 DEF TypeOK
  <2>3. discharge' \in [Discharges -> {"none", "PENDING", "COMPLETED", "REJECTED"}]
    BY <1>0, <1>2 DEF TypeOK
  <2>4. outflows' \in [Discharges -> Nat]
    <3>1. outflows \in [Discharges -> Nat]
      BY <1>0 DEF TypeOK
    <3>2. outflows[d] + 1 \in Nat
      BY <1>1, <3>1
    <3> QED
      BY <1>2, <3>1, <3>2
  <2> QED
    BY <1>0, <1>2, <2>1, <2>2, <2>3, <2>4, EndTypes DEF TypeOK, counts, Labels, Jobs
<1>4. /\ discharge'[d] = "COMPLETED" /\ outflows'[d] = outflows[d] + 1
      /\ \A e \in Discharges \ {d} : discharge'[e] = discharge[e] /\ outflows'[e] = outflows[e]
  BY <1>0, <1>1, <1>2 DEF TypeOK
<1>5. Grows
  BY <1>2, <1>4 DEF Grows, counts
<1>6. ASSUME NEW q \in Procs \ {p} PROVE RequestOk(q)'
  <2>1. MoveOk(q) => docLock'[job[q].doc] = q /\ DocKept(job[q].doc)
    <3>1. MoveOk(q) => job[q].doc \in Docs /\ docLock[job[q].doc] = q /\ job[q].doc # d
      BY <1>1 DEF MoveOk
    <3> QED
      BY <1>0, <1>2, <1>4, <3>1, EndFrame DEF DocKept, counts
  <2>2. \A i \in done[q] : live'[i] = live[i] /\ qty'[i] = qty[i]
    BY <1>1, <1>2, MovedRows
  <2>3. \A j \in Takes : Ends(j)
    BY <1>2 DEF Ends, counts
  <2>4. Untouched(q)
    BY <1>0, <2>1, <2>2, <2>3, EndFrame DEF Untouched
  <2> QED
    BY <1>5, <2>4, UntouchedOk
<1>7. \A i \in Items : shelf'[i] - qty'[i] = shelf[i] - qty[i]
  <2>1. \A i \in Items : qty'[i] = qty[i] + plan[p][i] /\ qty[i] \in Int /\ plan[p][i] \in Int
    BY <1>1, <1>2, MovedRows
  <2>2. \A i \in Items : shelf'[i] = shelf[i] + plan[p][i] /\ shelf[i] \in Int
    BY <1>0, <1>2 DEF TypeOK
  <2> QED
    BY <2>1, <2>2
<1>8. \A j \in Takes, i \in Items : LineOk(j, i)'
  BY <1>2, <1>7 DEF LineOk, IInv, counts
<1>9. OneCountAtATime'
  BY <1>2 DEF IInv, OneCountAtATime, InProgress, counts
<1>10. NonNegativeStock'
  BY <1>1, <1>2, MovedRows DEF NonNegativeStock
<1>11. outflows[d] = 0
  BY <1>1 DEF IInv, OutflowOk
<1>12. DeliveredOnce' /\ \A e \in Discharges : OutflowOk(e)'
  BY <1>4, <1>11 DEF IInv, DeliveredOnce, OutflowOk
<1> QED
  BY <1>0, <1>3, <1>6, <1>8, <1>9, <1>10, <1>12, EndFrame DEF IInv

LEMMA WriteRejectInv ==
  ASSUME IInv, NEW p \in Procs, WriteReject(p)
  PROVE  IInv'
<1> PICK d : d = job[p].doc
  OBVIOUS
<1>0. TypeOK /\ RequestOk(p) /\ End(p)
  BY DEF IInv, WriteReject
<1>1. d \in Discharges /\ d \notin Takes /\ docLock[d] = None
  BY <1>0 DEF WriteReject, RequestOk
<1>2. discharge' = [discharge EXCEPT ![d] = "REJECTED"] /\ UNCHANGED <<stock, counts, outflows>>
  BY DEF WriteReject
<1>3. TypeOK'
  <2>1. discharge' \in [Discharges -> {"none", "PENDING", "COMPLETED", "REJECTED"}]
    BY <1>0, <1>2 DEF TypeOK
  <2> QED
    BY <1>0, <1>2, <2>1, EndTypes DEF TypeOK, stock, counts, Labels, Jobs
<1>4. discharge'[d] = "REJECTED" /\ \A e \in Discharges \ {d} : discharge'[e] = discharge[e]
  BY <1>0, <1>1, <1>2 DEF TypeOK
<1>5. Grows
  BY <1>2, <1>4 DEF Grows, counts
<1>6. ASSUME NEW q \in Procs \ {p} PROVE RequestOk(q)'
  <2>1. MoveOk(q) => docLock'[job[q].doc] = q /\ DocKept(job[q].doc)
    <3>1. MoveOk(q) => job[q].doc \in Docs /\ docLock[job[q].doc] = q /\ job[q].doc # d
      BY <1>1 DEF MoveOk
    <3> QED
      BY <1>0, <1>2, <1>4, <3>1, EndFrame DEF DocKept, counts
  <2>2. \A i \in done[q] : live'[i] = live[i] /\ qty'[i] = qty[i]
    BY <1>2 DEF stock
  <2>3. \A j \in Takes : Ends(j)
    BY <1>2 DEF Ends, counts
  <2>4. Untouched(q)
    BY <1>0, <2>1, <2>2, <2>3, EndFrame DEF Untouched
  <2> QED
    BY <1>5, <2>4, UntouchedOk
<1>7. \A j \in Takes, i \in Items : LineOk(j, i)'
  BY <1>2 DEF LineOk, IInv, stock, counts
<1>8. OneCountAtATime' /\ NonNegativeStock'
  BY <1>2 DEF IInv, OneCountAtATime, InProgress, NonNegativeStock, stock, counts
<1>9. DeliveredOnce' /\ \A e \in Discharges : OutflowOk(e)'
  BY <1>2, <1>4 DEF IInv, DeliveredOnce, OutflowOk
<1> QED
  BY <1>0, <1>3, <1>6, <1>7, <1>8, <1>9, EndFrame DEF IInv
----------------------------------------------------------------------------
(* Steps of nobody's request.                                              *)

\* Every request still has what it relies on.
LEMMA Environment ==
  ASSUME IInv, UNCHANGED <<locks, flight>>, Grows,
         \A k \in Takes : Ends(k),
         \A q \in Procs : MoveOk(q) => DocKept(job[q].doc),
         \A q \in Procs : \A i \in done[q] : live'[i] = live[i] /\ qty'[i] = qty[i]
  PROVE  \A q \in Procs : RequestOk(q)'
<1> SUFFICES ASSUME NEW q \in Procs PROVE RequestOk(q)'
  OBVIOUS
<1>1. /\ pc' = pc /\ job' = job /\ plan' = plan /\ done' = done
      /\ homeLock' = homeLock /\ docLock' = docLock
  BY DEF locks, flight
<1>2. \A r \in Procs \ {q} : done[q] \cap done'[r] = {}
  BY <1>1, Apart
<1>3. Untouched(q)
  BY <1>1, <1>2 DEF Untouched, MoveOk
<1> QED
  BY <1>3, UntouchedOk

LEMMA CancelInv ==
  ASSUME IInv, NEW k \in Takes, Cancel(k)
  PROVE  IInv'
<1>0. TypeOK
  BY DEF IInv
<1>1. /\ take[k] \in {"IN_PROGRESS", "CANCELLED"} /\ docLock[k] = None
      /\ take' = [take EXCEPT ![k] = "CANCELLED"]
      /\ UNCHANGED <<stock, applied, line, requests, locks, flight>>
  BY DEF Cancel
<1>2. TypeOK'
  BY <1>0, <1>1 DEF TypeOK, stock, requests, locks, flight
<1>3. take'[k] = "CANCELLED" /\ \A j \in Takes \ {k} : take'[j] = take[j]
  BY <1>0, <1>1 DEF TypeOK
<1>4. Grows /\ \A j \in Takes : Ends(j)
  BY <1>1, <1>3 DEF Grows, Ends, requests
<1>5. ASSUME NEW q \in Procs, MoveOk(q) PROVE DocKept(job[q].doc)
  <2>1. job[q].doc # k
    BY <1>1, <1>5 DEF MoveOk
  <2> QED
    BY <1>1, <1>3, <2>1 DEF DocKept, requests
<1>6. \A q \in Procs : RequestOk(q)'
  BY <1>1, <1>4, <1>5, Environment DEF stock
<1>7. \A j \in Takes, i \in Items : LineOk(j, i)'
  <2>1. \A j \in Takes : (take'[j] = "none" => take[j] = "none")
                         /\ (take'[j] = "IN_PROGRESS" => take[j] = "IN_PROGRESS")
    BY <1>3
  <2> QED
    BY <1>1, <2>1 DEF LineOk, IInv, stock
<1>8. OneCountAtATime'
  BY <1>3 DEF IInv, OneCountAtATime, InProgress
<1>9. NonNegativeStock' /\ DeliveredOnce' /\ \A d \in Discharges : OutflowOk(d)'
  BY <1>1 DEF IInv, NonNegativeStock, DeliveredOnce, OutflowOk, stock, requests
<1> QED
  BY <1>2, <1>6, <1>7, <1>8, <1>9 DEF IInv

LEMMA AskInv ==
  ASSUME IInv, NEW d \in Discharges, Ask(d)
  PROVE  IInv'
<1>0. TypeOK
  BY DEF IInv
<1>1. /\ discharge[d] = "none" /\ discharge' = [discharge EXCEPT ![d] = "PENDING"]
      /\ UNCHANGED <<stock, counts, outflows, locks, flight>>
  BY DEF Ask
<1>2. TypeOK'
  BY <1>0, <1>1 DEF TypeOK, stock, counts, locks, flight
<1>3. discharge'[d] = "PENDING" /\ \A e \in Discharges \ {d} : discharge'[e] = discharge[e]
  BY <1>0, <1>1 DEF TypeOK
<1>4. Grows /\ \A j \in Takes : Ends(j)
  BY <1>1, <1>3 DEF Grows, Ends, counts
<1>5. ASSUME NEW q \in Procs, MoveOk(q) PROVE DocKept(job[q].doc)
  <2>1. job[q].doc # d
    BY <1>1, <1>5 DEF MoveOk
  <2> QED
    BY <1>1, <1>3, <2>1 DEF DocKept, counts
<1>6. \A q \in Procs : RequestOk(q)'
  BY <1>1, <1>4, <1>5, Environment DEF stock
<1>7. \A e \in Discharges : OutflowOk(e)'
  BY <1>1, <1>3 DEF IInv, OutflowOk
<1>8. /\ NonNegativeStock' /\ DeliveredOnce' /\ OneCountAtATime'
      /\ \A j \in Takes, i \in Items : LineOk(j, i)'
  BY <1>1 DEF IInv, NonNegativeStock, DeliveredOnce, OneCountAtATime, InProgress, LineOk, stock, counts
<1> QED
  BY <1>2, <1>6, <1>7, <1>8 DEF IInv

\* Other documents, and the shelf, leave alone the rows a request has written.
LEMMA RowsInv ==
  ASSUME IInv,
         \/ \E m \in Moves : MoveStock(m[1], m[2])
         \/ \E i \in Deletable : SetLive(i)
  PROVE  IInv'
<1>0. TypeOK
  BY DEF IInv
<1>1. UNCHANGED <<counts, requests, locks, flight>>
  BY DEF MoveStock, SetLive
<1>2. /\ qty' \in [Items -> Int] /\ shelf' \in [Items -> Int] /\ live' \in [Items -> BOOLEAN]
      /\ \A i \in Items : qty'[i] >= 0 /\ shelf'[i] - qty'[i] = shelf[i] - qty[i]
      /\ \A q \in Procs : \A i \in done[q] : live'[i] = live[i] /\ qty'[i] = qty[i]
  <2>1. ASSUME NEW m \in Moves, MoveStock(m[1], m[2])
        PROVE  /\ qty' \in [Items -> Int] /\ shelf' \in [Items -> Int] /\ live' = live
               /\ \A i \in Items : qty'[i] >= 0 /\ shelf'[i] - qty'[i] = shelf[i] - qty[i]
               /\ \A q \in Procs : \A i \in done[q] : qty'[i] = qty[i]
    <3> PICK i \in Items, n \in Int : i = m[1] /\ n = m[2]
      OBVIOUS
    <3>1. /\ RowFree(i) /\ qty[i] + n >= 0 /\ live' = live
          /\ qty' = [qty EXCEPT ![i] = qty[i] + n] /\ shelf' = [shelf EXCEPT ![i] = shelf[i] + n]
      BY <2>1 DEF MoveStock
    <3>2. qty \in [Items -> Int] /\ shelf \in [Items -> Int]
      BY <1>0 DEF TypeOK
    <3>3. \A q \in Procs : \A h \in done[q] : h \in Items /\ h # i
      BY <1>0, <3>1 DEF TypeOK, RowFree
    <3>4. \A h \in Items : qty[h] >= 0
      BY DEF IInv, NonNegativeStock
    <3> QED
      BY <3>1, <3>2, <3>3, <3>4
  <2>2. ASSUME NEW i \in Deletable, SetLive(i)
        PROVE  /\ live' \in [Items -> BOOLEAN] /\ qty' = qty /\ shelf' = shelf
               /\ \A q \in Procs : \A h \in done[q] : live'[h] = live[h]
    BY <1>0, <2>2 DEF SetLive, RowFree, TypeOK
  <2>3. qty \in [Items -> Int] /\ shelf \in [Items -> Int] /\ live \in [Items -> BOOLEAN]
        /\ \A i \in Items : qty[i] >= 0
    BY <1>0 DEF TypeOK, IInv, NonNegativeStock
  <2> QED
    BY <2>1, <2>2, <2>3
<1>3. TypeOK'
  BY <1>0, <1>1, <1>2 DEF TypeOK, counts, requests, locks, flight
<1>4. Grows /\ \A j \in Takes : Ends(j)
  BY <1>1 DEF Grows, Ends, counts, requests
<1>5. \A q \in Procs : MoveOk(q) => DocKept(job[q].doc)
  BY <1>1 DEF DocKept, counts, requests
<1>6. \A q \in Procs : RequestOk(q)'
  BY <1>1, <1>2, <1>4, <1>5, Environment
<1>7. \A j \in Takes, i \in Items : LineOk(j, i)'
  BY <1>1, <1>2 DEF IInv, LineOk, counts
<1>8. NonNegativeStock'
  BY <1>2 DEF NonNegativeStock
<1>9. DeliveredOnce' /\ OneCountAtATime' /\ \A d \in Discharges : OutflowOk(d)'
  BY <1>1 DEF IInv, DeliveredOnce, OneCountAtATime, InProgress, OutflowOk, counts, requests
<1> QED
  BY <1>3, <1>6, <1>7, <1>8, <1>9 DEF IInv

\* A unit lost or found, or the quantity written over: no count of the item is a
\* right one any more.
LEMMA SpoilInv ==
  ASSUME IInv, NEW i \in Items,
         (\E n \in Int : Slip(i, n)) \/ (\E n \in Nat : SetQuantity(i, n))
  PROVE  IInv'
<1>0. TypeOK
  BY DEF IInv
<1>1. /\ line' = [k \in Takes |-> [line[k] EXCEPT ![i].exact = FALSE]]
      /\ UNCHANGED <<live, take, applied, requests, locks, flight>>
  BY DEF Slip, SetQuantity
<1>2. /\ shelf' \in [Items -> Int] /\ \A h \in Items \ {i} : shelf'[h] = shelf[h]
      /\ qty' \in [Items -> Int] /\ \A h \in Items \ {i} : qty'[h] = qty[h]
      /\ \A h \in Items : qty'[h] >= 0
      /\ \A q \in Procs : i \in done[q] => qty' = qty
  <2>1. qty \in [Items -> Int] /\ shelf \in [Items -> Int] /\ \A h \in Items : qty[h] >= 0
    BY <1>0 DEF IInv, TypeOK, NonNegativeStock
  <2>2. CASE \E n \in Int : Slip(i, n)
    BY <2>1, <2>2 DEF Slip
  <2>3. CASE \E n \in Nat : SetQuantity(i, n)
    BY <2>1, <2>3 DEF SetQuantity, RowFree
  <2> QED
    BY <2>2, <2>3
<1>3. ASSUME NEW k \in Takes
      PROVE  /\ line'[k] \in [Items -> Entries]
             /\ \A h \in Items \ {i} : line'[k][h] = line[k][h]
             /\ line'[k][i] = [line[k][i] EXCEPT !.exact = FALSE]
  <2>1. line[k] \in [Items -> Entries]
    BY <1>0 DEF TypeOK, Entries
  <2>2. line'[k] = [line[k] EXCEPT ![i] = [line[k][i] EXCEPT !.exact = FALSE]]
    BY <1>1
  <2>3. [line[k][i] EXCEPT !.exact = FALSE] \in Entries
    BY <2>1 DEF Entries
  <2> QED
    BY <2>1, <2>2, <2>3
<1>4. line' \in [Takes -> [Items -> Entries]]
  BY <1>1, <1>3
<1>5. ASSUME NEW k \in Takes
      PROVE  /\ line'[k][i].expected = line[k][i].expected
             /\ line'[k][i].counted = line[k][i].counted
             /\ line'[k][i].exact = FALSE
  <2>1. line[k][i] \in Entries
    BY <1>0 DEF TypeOK, Entries
  <2> QED
    BY <1>3, <2>1 DEF Entries
<1>6. TypeOK'
  BY <1>0, <1>1, <1>2, <1>4 DEF TypeOK, requests, locks, flight, Entries
<1>7. ASSUME NEW k \in Takes, NEW h \in Items
      PROVE  /\ line'[k][h].expected = line[k][h].expected
             /\ line'[k][h].counted = line[k][h].counted
  <2>1. CASE h = i
    BY <1>5, <2>1
  <2>2. CASE h # i
    BY <1>3, <2>2
  <2> QED
    BY <2>1, <2>2
<1>8. Grows /\ (\A k \in Takes : Ends(k)) /\ \A q \in Procs : MoveOk(q) => DocKept(job[q].doc)
  BY <1>1, <1>7 DEF Grows, Ends, DocKept, requests
<1>9. \A q \in Procs : RequestOk(q)'
  <2>1. \A q \in Procs : \A h \in done[q] : live'[h] = live[h] /\ qty'[h] = qty[h]
    BY <1>0, <1>1, <1>2 DEF TypeOK
  <2> QED
    BY <1>1, <1>8, <2>1, Environment
<1>10. ASSUME NEW k \in Takes, NEW h \in Items PROVE LineOk(k, h)'
  <2>1. LineOk(k, h)
    BY DEF IInv
  <2>2. CASE h = i
    <3>1. take[k] = "none" => line'[k][i] = NoLine
      BY <1>3, <2>1, <2>2 DEF LineOk, NoLine
    <3> QED
      BY <1>1, <1>5, <2>1, <2>2, <3>1 DEF LineOk
  <2>3. CASE h # i
    BY <1>1, <1>2, <1>3, <2>1, <2>3 DEF LineOk
  <2> QED
    BY <2>2, <2>3
<1>11. /\ NonNegativeStock' /\ DeliveredOnce' /\ OneCountAtATime'
       /\ \A d \in Discharges : OutflowOk(d)'
  BY <1>1, <1>2 DEF IInv, NonNegativeStock, DeliveredOnce, OneCountAtATime, InProgress, OutflowOk, requests
<1> QED
  BY <1>6, <1>9, <1>10, <1>11 DEF IInv

----------------------------------------------------------------------------
(* The theorems.                                                           *)

LEMMA NextInv == IInv /\ [Next]_vars => IInv'
<1> SUFFICES ASSUME IInv, [Next]_vars PROVE IInv'
  OBVIOUS
<1>1. ASSUME NEW p \in Procs, NEW k \in Takes, Start(p, k) PROVE IInv'
  BY <1>1, StartInv
<1>2. ASSUME NEW p \in Procs, NEW k \in Takes, NEW i \in Items, Look(p, k, i) PROVE IInv'
  BY <1>2, LookInv
<1>3. ASSUME NEW p \in Procs, NEW k \in Takes, NEW b \in BOOLEAN, Complete(p, k, b) PROVE IInv'
  BY <1>3, CompleteInv
<1>4. ASSUME NEW p \in Procs, NEW d \in Discharges, Approve(p, d) \/ ReadReject(p, d) PROVE IInv'
  BY <1>4, ApproveInv, ReadRejectInv
<1>5. ASSUME NEW p \in Procs, NEW i \in Items, Take(p, i) \/ Put(p, i) PROVE IInv'
  BY <1>5, MoveInv
<1>6. ASSUME NEW p \in Procs,
             \/ \E i \in Items : TakeShort(p, i)
             \/ RefuseCount(p) \/ RefuseItems(p) \/ Fail(p)
      PROVE  IInv'
  BY <1>6, RollbackInv DEF TakeShort, RefuseCount, RefuseItems, Fail
<1>7. ASSUME NEW p \in Procs,
             Create(p) \/ SaveCount(p) \/ CommitTake(p) \/ CommitDischarge(p) \/ WriteReject(p)
      PROVE  IInv'
  BY <1>7, CreateInv, SaveCountInv, CommitTakeInv, CommitDischargeInv, WriteRejectInv
<1>8. ASSUME NEW p \in Procs, Check(p) PROVE IInv'
  BY <1>8, MoveInv
<1>9. ASSUME NEW k \in Takes, Cancel(k) PROVE IInv'
  BY <1>9, CancelInv
<1>10. ASSUME NEW d \in Discharges, Ask(d) PROVE IInv'
  BY <1>10, AskInv
<1>11. ASSUME \/ \E m \in Moves : MoveStock(m[1], m[2])
              \/ \E i \in Deletable : SetLive(i)
       PROVE  IInv'
  BY <1>11, RowsInv
<1>12. ASSUME \/ \E m \in Slips : Slip(m[1], m[2])
              \/ \E m \in Edits : SetQuantity(m[1], m[2])
       PROVE  IInv'
  <2>1. (\A m \in Slips : m[1] \in Items /\ m[2] \in Int)
        /\ \A m \in Edits : m[1] \in Items /\ m[2] \in Nat
    OBVIOUS
  <2> QED
    BY <1>12, <2>1, SpoilInv
<1>13. CASE UNCHANGED vars
  <2> USE <1>13 DEF vars, stock, counts, requests, locks, flight
  <2>1. TypeOK'
    BY DEF IInv, TypeOK
  <2>2. Grows /\ (\A k \in Takes : Ends(k)) /\ \A q \in Procs : MoveOk(q) => DocKept(job[q].doc)
    BY DEF Grows, Ends, DocKept
  <2>3. \A q \in Procs : RequestOk(q)'
    BY <2>2, Environment
  <2>4. \A k \in Takes, i \in Items : LineOk(k, i)'
    BY DEF IInv, LineOk
  <2>5. /\ NonNegativeStock' /\ DeliveredOnce' /\ OneCountAtATime'
        /\ \A d \in Discharges : OutflowOk(d)'
    BY DEF IInv, NonNegativeStock, DeliveredOnce, OneCountAtATime, InProgress, OutflowOk
  <2> QED
    BY <2>1, <2>3, <2>4, <2>5 DEF IInv
<1> QED
  BY <1>1, <1>2, <1>3, <1>4, <1>5, <1>6, <1>7, <1>8, <1>9, <1>10, <1>11, <1>12, <1>13 DEF Next

\* StockTakeService, DischargeRequestsService: what a request that moves stock
\* has read stays true until it commits, stock is never negative, a request is
\* given out once at most, and one count at most is in progress.
THEOREM Safety == Spec => []IInv
  BY InitInv, NextInv, PTL DEF Spec

\* StockTakeService.create: one count at a time in a warehouse.
THEOREM OneCount == Spec => []OneCountAtATime
<1>1. IInv => OneCountAtATime
  BY DEF IInv
<1> QED
  BY <1>1, Safety, PTL

\* Completing a take changes no document but the take, and settles its lines.
LEMMA SettlesStep ==
  ASSUME IInv, NEW p \in Procs, CommitTake(p), NEW i \in Items
  PROVE  LET k == job[p].doc IN
         applied'[k] /\ line[k][i].exact => qty'[i] = shelf'[i]
<1> PICK k : k = job[p].doc
  OBVIOUS
<1> SUFFICES ASSUME applied'[k], line[k][i].exact PROVE qty'[i] = shelf'[i]
  OBVIOUS
<1>0. TypeOK
  BY DEF IInv
<1>1. k \in Takes /\ take[k] = "IN_PROGRESS" /\ AllDone(p)
  BY MovedRows DEF CommitTake, MoveOk
<1>2. /\ qty' = Moved(p) /\ shelf' = shelf
      /\ applied' = [applied EXCEPT ![k] = job[p].apply]
  BY DEF CommitTake
<1>3. job[p].apply
  BY <1>0, <1>1, <1>2 DEF TypeOK
<1>4. plan[p][i] = Variance(k, i)
  <2>1. MoveOk(p)
    BY <1>1, MovedRows
  <2>2. plan[p] = [h \in Items |-> IF job[p].apply THEN Variance(k, h) ELSE 0]
    BY <1>1, <2>1 DEF MoveOk
  <2> QED
    BY <1>3, <2>2
<1>5. /\ line[k][i].counted # None /\ line[k][i].expected # None
      /\ shelf[i] - qty[i] = line[k][i].counted - line[k][i].expected
  BY <1>1 DEF IInv, LineOk
<1>6. Variance(k, i) = shelf[i] - qty[i]
  BY <1>5 DEF Variance, Lines
<1>7. qty'[i] = qty[i] + (shelf[i] - qty[i])
  BY <1>1, <1>2, <1>4, <1>6, MovedRows
<1>8. qty[i] \in Int /\ shelf[i] \in Int
  BY <1>0 DEF TypeOK
<1> QED
  BY <1>2, <1>7, <1>8

LEMMA Settles ==
  ASSUME IInv, [Next]_vars, NEW k \in Takes, NEW i \in Items,
         take[k] # "COMPLETED", take'[k] = "COMPLETED", applied'[k], line[k][i].exact
  PROVE  qty'[i] = shelf'[i]
<1>0. TypeOK
  BY DEF IInv
<1>1. CASE \E p \in Procs : CommitTake(p)
  <2> PICK p \in Procs : CommitTake(p)
    BY <1>1
  <2>1. k = job[p].doc
    BY <1>0 DEF CommitTake, TypeOK
  <2> QED
    BY <2>1, SettlesStep
<1>2. CASE UNCHANGED take
  BY <1>2
<1>3. CASE \E p \in Procs : Create(p)
  BY <1>0, <1>3 DEF Create, TypeOK
<1>4. CASE \E j \in Takes : Cancel(j)
  BY <1>0, <1>4 DEF Cancel, TypeOK
<1>5. (\E p \in Procs : CommitTake(p) \/ Create(p)) \/ (\E j \in Takes : Cancel(j)) \/ UNCHANGED take
  BY DEF Next, vars, Start, Look, Complete, Approve, ReadReject, Take, Put, Write, TakeShort,
         SaveCount, RefuseCount, Check, RefuseItems, CommitDischarge, WriteReject, Fail, Rollback,
         Ask, MoveStock, Slip, SetQuantity, SetLive, counts
<1> QED
  BY <1>1, <1>2, <1>3, <1>4, <1>5

\* StockTakeService.complete: a count that was right when it was saved leaves
\* the system agreeing with the shelf.
THEOREM Settled == Spec => CountSettles
<1>1. IInv /\ [Next]_vars =>
        [\A k \in Takes, i \in Items :
            take[k] # "COMPLETED" /\ take'[k] = "COMPLETED" /\ applied'[k] /\ line[k][i].exact
            => qty'[i] = shelf'[i]]_vars
  BY Settles
<1> QED
  BY <1>1, Safety, PTL DEF Spec, CountSettles
=============================================================================
