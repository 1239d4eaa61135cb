-------------------------- MODULE Transfers_proofs --------------------------
(***************************************************************************)
(* Proofs about Transfers for every set of warehouses, rows, transfers,    *)
(* lines, edits and requests: the inductive invariant, and with it that a  *)
(* receipt never takes units that are not there, ships nothing that was    *)
(* not approved and moves all its lines at once.                           *)
(***************************************************************************)
EXTENDS Transfers, Sums

USE TransferAssumption

Labels == {"idle", "send", "look", "move", "put"}
Statuses == {"none", "PENDING", "APPROVED", "REJECTED", "SENT", "COMPLETED", "CANCELLED"}
Places == [line : Lines \cup {None}, row : Rows \cup {None}]

LocalsOk ==
    /\ docLock \in [Transfers -> Procs \cup {None}]
    /\ pc \in [Procs -> Labels]
    /\ job \in [Procs -> Transfers \cup {None}]
    /\ seen = [p \in Procs |-> seen[p]]
    /\ taken \in [Procs -> SUBSET Lines]
    /\ at \in [Procs -> Places]
    /\ target \in [Procs -> [Lines -> Rows \cup {None}]]
    /\ gain \in [Procs -> [Rows -> Nat]]
    /\ born \in [Procs -> SUBSET Rows]
    /\ slipped = [p \in Procs |-> slipped[p]]

LEMMA TypedLocals == TypeOK => LocalsOk
BY DEF TypeOK, LocalsOk, Labels, Places

LEMMA InitInv == Init => RowsInv
<1> SUFFICES ASSUME Init PROVE RowsInv
  OBVIOUS
<1>0. ASSUME NEW r \in Rows
      PROVE  /\ qty[r] \in Int /\ qty[r] >= 0
             /\ info[r].place \in Warehouses \cup {None}
             /\ info[r].place = None => qty[r] = 0
  <2>1. /\ Opening[r].place \in Warehouses \cup {None}
        /\ Opening[r].qty \in Nat
        /\ Opening[r].place = None => Opening[r].qty = 0
    OBVIOUS
  <2>2. qty[r] = Opening[r].qty /\ info[r].place = Opening[r].place
    BY DEF Init
  <2> QED
    BY <2>1, <2>2
<1>1. TypeOK
  <2>1. info = [r \in Rows |-> info[r]]
    BY DEF Init
  <2>3. qty \in [Rows -> Int] /\ live \in [Rows -> BOOLEAN]
    <3>1. qty = [r \in Rows |-> qty[r]]
      BY DEF Init
    <3>2. live \in [Rows -> BOOLEAN]
      BY DEF Init
    <3> QED
      BY <1>0, <3>1, <3>2
  <2>2. /\ at \in [Procs -> [line : Lines \cup {None}, row : Rows \cup {None}]]
        /\ target \in [Procs -> [Lines -> Rows \cup {None}]] /\ gain \in [Procs -> [Rows -> Nat]]
        /\ seen = [p \in Procs |-> seen[p]] /\ slipped = [p \in Procs |-> slipped[p]]
    BY DEF Init, NoLine, NoTargets, NoGain
  <2> QED
    BY <1>0, <2>1, <2>2, <2>3 DEF Init, TypeOK
<1>2. \A p \in Procs : Held(p) \subseteq {None}
  BY DEF Init, Held, NoTargets
<1>3. \A p \in Procs : RowsOk(p)
  BY <1>2 DEF Init, RowsOk, NoLine, NoGain
<1>4. \A p \in Procs : RequestOk(p)
  BY <1>2 DEF Init, RequestOk
<1>5. NonNegativeStock /\ \A r \in Rows : ~Present(r) => qty[r] = 0
  BY <1>0 DEF Present, NonNegativeStock
<1>6. ApprovedBeforeSent /\ \A t \in Transfers : ApprovalOk(t)
  BY DEF Init, ApprovedBeforeSent, ApprovalOk
<1> QED
  BY <1>1, <1>3, <1>4, <1>5, <1>6 DEF RowsInv, RequestInv

LEMMA Parts ==
  ASSUME RowsInv
  PROVE  /\ TypeOK
         /\ \A p \in Procs : RowsOk(p) /\ RequestOk(p)
         /\ \A r \in Rows : qty[r] \in Nat /\ (~Present(r) => qty[r] = 0)
         /\ \A t \in Transfers : ApprovalOk(t)
<1>1. TypeOK /\ RequestInv /\ NonNegativeStock /\ \A t \in Transfers : ApprovalOk(t)
  BY DEF RowsInv
<1>2. \A r \in Rows : qty[r] \in Int /\ qty[r] >= 0
  BY <1>1 DEF TypeOK, NonNegativeStock
<1> QED
  BY <1>1, <1>2 DEF RequestInv

LEMMA HeldRows ==
  ASSUME TypeOK, NEW p \in Procs
  PROVE  /\ Held(p) \subseteq Rows \cup {None}
         /\ \A l \in taken[p] : l \in Lines /\ Item[l] \in Rows /\ Item[l] \in Held(p) \ {None}
         /\ \A l \in Lines : target[p][l] \in Held(p)
BY DEF TypeOK, Held

\* The units taken from a row: none from a row that is not held.
LEMMA TakenUnits ==
  ASSUME TypeOK, NEW p \in Procs, NEW r \in Rows
  PROVE  TakenOf(p, r) \in Nat /\ (r \notin Held(p) => TakenOf(p, r) = 0)
<1> PICK S : S = {l \in taken[p] : Item[l] = r}
  OBVIOUS
<1>1. S \subseteq Lines /\ IsFiniteSet(S) /\ TakenOf(p, r) = SumFunctionOnSet(Count, S)
  BY FS_Subset DEF TypeOK, TakenOf, Total
<1>2. TakenOf(p, r) \in Nat
  <2>1. \A l \in S : Count[l] \in Nat
    BY <1>1
  <2> QED
    BY <1>1, <2>1, SumNat
<1>3. r \notin Held(p) => S = {}
  BY DEF Held
<1> QED
  BY <1>1, <1>2, <1>3, SumEmpty

LEMMA NoneTaken ==
  ASSUME NEW p \in Procs, NEW r \in Rows, ~\E l \in taken[p] : Item[l] = r
  PROVE  TakenOf(p, r) = 0
<1>1. {l \in taken[p] : Item[l] = r} = {}
  OBVIOUS
<1> QED
  BY <1>1, SumEmpty DEF TakenOf, Total

LEMMA TakenMore ==
  ASSUME TypeOK, NEW p \in Procs, NEW l \in Lines \ taken[p], NEW r \in Rows,
         taken'[p] = taken[p] \cup {l}
  PROVE  TakenOf(p, r)' = TakenOf(p, r) + (IF r = Item[l] THEN Count[l] ELSE 0)
<1> PICK S, T : S = {k \in taken[p] : Item[k] = r} /\ T = {k \in taken'[p] : Item[k] = r}
  OBVIOUS
<1> PICK a, b, c : a = TakenOf(p, r) /\ b = TakenOf(p, r)' /\ c = Count[l]
  OBVIOUS
<1>1. a = SumFunctionOnSet(Count, S) /\ b = SumFunctionOnSet(Count, T)
  BY DEF TakenOf, Total
<1>2. S \subseteq Lines /\ IsFiniteSet(S) /\ l \notin S
  BY FS_Subset DEF TypeOK
<1>3. CASE r = Item[l]
  <2>1. T = S \cup {l}
    BY <1>3
  <2>2. \A k \in S \cup {l} : Count[k] \in Int
    BY <1>2
  <2>3. SumFunctionOnSet(Count, S \cup {l}) = Count[l] + SumFunctionOnSet(Count, S)
    BY <1>2, <2>2, SumAdd
  <2>4. a \in Nat /\ c \in Nat
    BY TakenUnits
  <2>5. b = c + a
    BY <1>1, <2>1, <2>3, Zenon
  <2> QED
    BY <1>3, <2>4, <2>5
<1>4. CASE r # Item[l]
  <2>1. T = S
    BY <1>4
  <2>2. a \in Nat
    BY TakenUnits
  <2>3. b = a
    BY <1>1, <2>1, Zenon
  <2> QED
    BY <1>4, <2>2, <2>3
<1> QED
  BY <1>3, <1>4

LEMMA SameTaken ==
  ASSUME NEW p \in Procs, taken'[p] = taken[p]
  PROVE  \A r : TakenOf(p, r)' = TakenOf(p, r)
BY DEF TakenOf, Total

----------------------------------------------------------------------------
(* What a step of one request leaves to another.                           *)

SameLocals(q) ==
    /\ pc'[q] = pc[q] /\ job'[q] = job[q] /\ at'[q] = at[q]
    /\ taken'[q] = taken[q] /\ target'[q] = target[q]
    /\ gain'[q] = gain[q] /\ born'[q] = born[q]

DocKept(q) ==
    LET t == job[q] IN
    t \in Transfers =>
       /\ docLock[t] = q => docLock'[t] = q /\ status'[t] = status[t]
       /\ approvedAt[t] /\ ~rejectedAt[t] => approvedAt'[t] /\ ~rejectedAt'[t]

Untouched(q) ==
    /\ SameLocals(q) /\ DocKept(q)
    /\ \A o \in Procs \ {q} : Held(q) \cap Held(o)' \subseteq {None}
    /\ \A r \in Held(q) \ {None} : Present(r)' /\ qty'[r] = qty[r] /\ live'[r] = live[r]
    /\ at[q].row # None => Present(at[q].row)' /\ \A o \in Procs \ {q} : at[q].row \notin born'[o]

LEMMA SameHeld ==
  ASSUME NEW q \in Procs, SameLocals(q)
  PROVE  Held(q)' = Held(q)
BY DEF SameLocals, Held

LEMMA UntouchedOk ==
  ASSUME RowsInv, NEW q \in Procs, Untouched(q)
  PROVE  RowsOk(q)' /\ RequestOk(q)'
<1>0. TypeOK /\ RowsOk(q) /\ RequestOk(q)
  BY Parts
<1>1. SameLocals(q) /\ Held(q)' = Held(q)
  BY SameHeld DEF Untouched
<1>2. RowsOk(q)'
  <2>1. \A o \in Procs \ {q} : Held(q)' \cap Held(o)' \subseteq {None}
    BY <1>1 DEF Untouched
  <2>2. \A r \in Held(q)' \ {None} : Present(r)'
    BY <1>1 DEF Untouched
  <2>3. \A r \in Rows : gain'[q][r] > 0 => r \in Held(q)'
    BY <1>0, <1>1 DEF RowsOk, SameLocals
  <2>4. born'[q] \subseteq Held(q)' /\ \A r \in born'[q] : qty'[r] = 0
    <3>1. born[q] \subseteq Held(q) \ {None}
      BY <1>0 DEF RowsOk, TypeOK
    <3> QED
      BY <1>0, <1>1, <3>1 DEF RowsOk, SameLocals, Untouched
  <2>5. (at[q].row # None => Visible(q, at[q].row))'
    BY <1>1 DEF SameLocals, Untouched, Visible, Present
  <2> QED
    BY <2>1, <2>2, <2>3, <2>4, <2>5 DEF RowsOk
<1>3. RequestOk(q)'
  <2>1. PICK t : t = job[q] /\ t = job'[q]
    BY <1>1 DEF SameLocals
  <2>2. pc'[q] \in {"idle", "send", "look"} => Held(q)' \subseteq {None}
    BY <1>0, <1>1 DEF RequestOk, SameLocals
  <2>3. pc'[q] = "send" => t \in Transfers /\ approvedAt'[t] /\ ~rejectedAt'[t]
    BY <1>0, <1>1, <2>1 DEF RequestOk, SameLocals, Untouched, DocKept
  <2>4. pc'[q] \in {"move", "put"} =>
          t \in Transfers /\ status'[t] = "SENT" /\ docLock'[t] = q /\ taken'[q] \subseteq LinesOf(t)
    BY <1>0, <1>1, <2>1 DEF RequestOk, SameLocals, Untouched, DocKept
  <2>5. ASSUME pc'[q] \in {"move", "put"}, NEW l \in taken'[q]
        PROVE  live'[Item[l]] /\ qty'[Item[l]] >= TakenOf(q, Item[l])'
    <3>1. l \in taken[q] /\ pc[q] \in {"move", "put"} /\ taken'[q] = taken[q]
      BY <1>1, <2>5 DEF SameLocals
    <3>2. Item[l] \in Held(q) \ {None}
      BY <1>0, <3>1, HeldRows
    <3>3. live[Item[l]] /\ qty[Item[l]] >= TakenOf(q, Item[l])
      BY <1>0, <3>1 DEF RequestOk
    <3>4. TakenOf(q, Item[l])' = TakenOf(q, Item[l])
      BY <3>1, SameTaken
    <3> QED
      BY <3>2, <3>3, <3>4 DEF Untouched
  <2>6. /\ pc'[q] = "put" => at'[q].line \in Lines /\ target'[q][at'[q].line] = None
        /\ pc'[q] = "look" => t \in Transfers
    BY <1>0, <1>1, <2>1 DEF RequestOk, SameLocals
  <2> QED
    BY <2>1, <2>2, <2>3, <2>4, <2>5, <2>6 DEF RequestOk
<1> QED
  BY <1>2, <1>3

----------------------------------------------------------------------------
(* Handlers that are one step.                                             *)

\* No row and no request changes but the documents, and none in receipt.
LEMMA DocumentStep ==
  ASSUME RowsInv, NEW t \in Transfers, UNCHANGED <<stock, docLock, request>>,
         status' \in [Transfers -> Statuses],
         approvedAt' \in [Transfers -> BOOLEAN], rejectedAt' \in [Transfers -> BOOLEAN],
         \A u \in Transfers \ {t} : /\ status'[u] = status[u]
                                    /\ approvedAt'[u] = approvedAt[u]
                                    /\ rejectedAt'[u] = rejectedAt[u],
         docLock[t] = None \/ status[t] # "SENT",
         approvedAt[t] /\ ~rejectedAt[t] => approvedAt'[t] /\ ~rejectedAt'[t],
         ApprovalOk(t)',
         status'[t] \in {"SENT", "COMPLETED"} => approvedAt'[t] /\ ~rejectedAt'[t]
  PROVE  RowsInv'
<1> USE DEF stock, request, placing
<1>1. TypeOK'
  BY DEF RowsInv, TypeOK, Statuses
<1>2. ASSUME NEW q \in Procs PROVE RowsOk(q)' /\ RequestOk(q)'
  <2>0. TypeOK /\ RowsOk(q) /\ RequestOk(q)
    BY Parts
  <2>2. \A o : Held(o)' = Held(o)
    BY DEF Held
  <2>1. RowsOk(q)'
    BY <2>0, <2>2 DEF RowsOk, Present, Visible
  <2>3. PICK u : u = job[q] /\ u = job'[q]
    OBVIOUS
  <2>4. pc[q] \in {"move", "put"} => u \in Transfers /\ status'[u] = "SENT" /\ docLock[u] = q
    <3>1. pc[q] \in {"move", "put"} => u \in Transfers /\ status[u] = "SENT" /\ docLock[u] = q
      BY <2>0, <2>3 DEF RequestOk
    <3>2. u \in Transfers /\ docLock[u] = q /\ status[u] = "SENT" => u # t
      OBVIOUS
    <3> QED
      BY <3>1, <3>2
  <2>5. pc[q] = "send" => u \in Transfers /\ approvedAt'[u] /\ ~rejectedAt'[u]
    <3>1. pc[q] = "send" => u \in Transfers /\ approvedAt[u] /\ ~rejectedAt[u]
      BY <2>0, <2>3 DEF RequestOk
    <3> QED
      BY <3>1
  <2>6. RequestOk(q)'
    <3>1. \A r : TakenOf(q, r)' = TakenOf(q, r)
      BY SameTaken
    <3> QED
      BY <2>0, <2>2, <2>3, <2>4, <2>5, <3>1 DEF RequestOk
  <2> QED
    BY <2>1, <2>6
<1>3. \A r \in Rows : ~Present(r)' => qty'[r] = 0
  BY Parts DEF Present
<1>4. NonNegativeStock'
  BY DEF RowsInv, NonNegativeStock
<1>5. \A u \in Transfers : ApprovalOk(u)'
  BY Parts DEF ApprovalOk
<1>6. ApprovedBeforeSent'
  BY DEF RowsInv, ApprovedBeforeSent
<1> QED
  BY <1>1, <1>2, <1>3, <1>4, <1>5, <1>6 DEF RowsInv, RequestInv
LEMMA DocumentInv ==
  ASSUME RowsInv, NEW t \in Transfers, Create(t) \/ Approve(t) \/ Reject(t) \/ Cancel(t)
  PROVE  RowsInv'
<1>0. TypeOK /\ ApprovalOk(t)
  BY Parts
<1>1. CASE Create(t)
  BY <1>0, <1>1, DocumentStep DEF Create, TypeOK, Statuses, ApprovalOk
<1>2. CASE Approve(t)
  BY <1>0, <1>2, DocumentStep DEF Approve, TypeOK, Statuses, ApprovalOk
<1>3. CASE Reject(t)
  BY <1>0, <1>3, DocumentStep DEF Reject, TypeOK, Statuses, ApprovalOk
<1>4. CASE Cancel(t)
  BY <1>0, <1>4, DocumentStep DEF Cancel, TypeOK, Statuses, ApprovalOk
<1> QED
  BY <1>1, <1>2, <1>3, <1>4

\* A row that nobody holds is written in one step, and stays where it can be found.
LEMMA FreeRowStep ==
  ASSUME RowsInv, NEW r \in Rows, Unheld(r), UNCHANGED <<document, docLock>>,
         \A q \in Procs : SameLocals(q), TypeOK', qty'[r] >= 0, Present(r)',
         \A x \in Rows \ {r} : info'[x] = info[x] /\ qty'[x] = qty[x] /\ live'[x] = live[x]
  PROVE  RowsInv'
<1> USE DEF document
<1>0. TypeOK /\ Committed(r) /\ \A p \in Procs : r \notin Held(p)
  BY Parts DEF Unheld
<1>1. ASSUME NEW q \in Procs PROVE RowsOk(q)' /\ RequestOk(q)'
  <2>0. RowsOk(q) /\ SameLocals(q) /\ DocKept(q)
    BY Parts DEF DocKept
  <2>1. \A o \in Procs \ {q} : Held(q) \cap Held(o)' \subseteq {None}
    BY <2>0, SameHeld DEF RowsOk
  <2>2. \A x \in Held(q) \ {None} : Present(x)' /\ qty'[x] = qty[x] /\ live'[x] = live[x]
    <3>1. \A x \in Held(q) \ {None} : x \in Rows \ {r} /\ Present(x)
      BY <1>0, <2>0, HeldRows DEF RowsOk
    <3> QED
      BY <3>1 DEF Present
  <2>3. at[q].row # None => at[q].row \in Rows /\ Visible(q, at[q].row)
    BY <1>0, <2>0 DEF RowsOk, TypeOK
  <2>4. at[q].row # None => Present(at[q].row)' /\ \A o \in Procs \ {q} : at[q].row \notin born'[o]
    BY <2>0, <2>3 DEF Visible, Present, SameLocals
  <2> QED
    BY <2>0, <2>1, <2>2, <2>4, UntouchedOk DEF Untouched
<1>2. \A x \in Rows : ~Present(x)' => qty'[x] = 0
  BY Parts DEF Present
<1>3. NonNegativeStock'
  BY DEF RowsInv, NonNegativeStock
<1>4. ApprovedBeforeSent' /\ \A t \in Transfers : ApprovalOk(t)'
  BY DEF RowsInv, ApprovedBeforeSent, ApprovalOk
<1> QED
  BY <1>1, <1>2, <1>3, <1>4 DEF RowsInv, RequestInv

LEMMA SetDeletedInv ==
  ASSUME RowsInv, NEW r \in Rows, SetDeleted(r)
  PROVE  RowsInv'
<1>0. TypeOK /\ Present(r) /\ qty[r] \in Nat
  BY Parts DEF SetDeleted, Unheld, Committed
<1>1. /\ live' = [live EXCEPT ![r] = ~live[r]] /\ Unheld(r)
      /\ UNCHANGED <<info, qty, document, docLock, request>>
  BY DEF SetDeleted
<1>2. TypeOK'
  BY <1>0, <1>1 DEF TypeOK, document, request, placing
<1>3. \A x \in Rows \ {r} : live'[x] = live[x]
  BY <1>0, <1>1 DEF TypeOK
<1>4. Present(r)' /\ \A q \in Procs : SameLocals(q)
  BY <1>0, <1>1 DEF Present, SameLocals, request, placing
<1> QED
  BY <1>0, <1>1, <1>2, <1>3, <1>4, FreeRowStep

LEMMA EditItemInv ==
  ASSUME RowsInv, NEW e \in Edits, EditItem(e)
  PROVE  RowsInv'
<1> PICK r : r = e.row
  OBVIOUS
<1>0. TypeOK /\ r \in Rows /\ Present(r) /\ Unheld(r) /\ qty[r] \in Nat
  BY Parts DEF EditItem, Unheld, Committed
<1>1. PICK n : /\ n.place = Given(e.place, info[r].place) /\ info' = [info EXCEPT ![r] = n]
               /\ qty' = [qty EXCEPT ![r] = Given(e.qty, qty[r])]
               /\ slipped' = [p \in Procs |->
                     slipped[p] \cup (IF at[p].row = r THEN {at[p].line} ELSE {})]
               /\ UNCHANGED <<live, document, docLock, pc, job, seen, taken, at, target, gain, born>>
  BY DEF EditItem
<1>2. n.place \in Warehouses /\ Given(e.qty, qty[r]) \in Nat
  <2>1. info[r].place \in Warehouses
    BY <1>0 DEF TypeOK, Present
  <2> QED
    BY <1>0, <1>1, <2>1 DEF Given
<1>3. info = [x \in Rows |-> info[x]] /\ qty \in [Rows -> Int]
  BY <1>0 DEF TypeOK
<1>4. /\ info'[r] = n /\ \A x \in Rows \ {r} : info'[x] = info[x]
      /\ info' = [x \in Rows |-> info'[x]]
  BY <1>0, <1>1, <1>3
<1>5. /\ qty'[r] \in Nat /\ \A x \in Rows \ {r} : qty'[x] = qty[x]
      /\ qty' \in [Rows -> Int]
  BY <1>0, <1>1, <1>2, <1>3
<1>6. TypeOK'
  <2>1. \A x \in Rows : info'[x].place \in Warehouses \cup {None}
    BY <1>0, <1>2, <1>4 DEF TypeOK
  <2>2. slipped' = [p \in Procs |-> slipped'[p]]
    BY <1>1
  <2> QED
    BY <1>0, <1>1, <1>4, <1>5, <2>1, <2>2 DEF TypeOK, document
<1>7. Present(r)' /\ \A q \in Procs : SameLocals(q)
  BY <1>1, <1>2, <1>4 DEF Present, SameLocals
<1> QED
  BY <1>0, <1>1, <1>4, <1>5, <1>6, <1>7, FreeRowStep

----------------------------------------------------------------------------
(* The statements of a request.                                            *)

\* What p does to rows and documents leaves the others alone.
LEMMA Others ==
  ASSUME RowsInv, NEW p \in Procs, NEW q \in Procs \ {p},
         \A o \in Procs \ {p} : SameLocals(o),
         DocKept(q),
         Held(q) \cap Held(p)' \subseteq {None},
         \A r \in Held(q) \ {None} : Present(r)' /\ qty'[r] = qty[r] /\ live'[r] = live[r],
         at[q].row # None => Present(at[q].row)' /\ at[q].row \notin born'[p]
  PROVE  RowsOk(q)' /\ RequestOk(q)'
<1>0. TypeOK /\ RowsOk(q)
  BY Parts
<1>1. \A o \in Procs \ {q} : Held(q) \cap Held(o)' \subseteq {None}
  <2>1. \A o \in Procs \ {p, q} : Held(o)' = Held(o) /\ Held(q) \cap Held(o) \subseteq {None}
    BY <1>0, SameHeld DEF RowsOk
  <2> QED
    BY <2>1
<1>2. at[q].row # None => \A o \in Procs \ {p, q} : at[q].row \notin born'[o]
  BY <1>0 DEF RowsOk, Visible, SameLocals
<1> QED
  BY <1>1, <1>2, UntouchedOk DEF Untouched

\* p ends with nothing in its hands; the rows it inserted may go.
LEMMA RestFrame ==
  ASSUME RowsInv, NEW p \in Procs, Rest(p)
  PROVE  /\ Held(p)' \subseteq {None} /\ pc'[p] = "idle" /\ born'[p] = {} /\ at'[p].row = None
         /\ \A r \in Rows : gain'[p][r] = 0
         /\ \A q \in Procs \ {p} : SameLocals(q) /\ \A t \in Transfers : docLock[t] = q => docLock'[t] = q
         /\ LocalsOk'
<1>0. LocalsOk
  BY Parts, TypedLocals
<1>1. /\ pc'[p] = "idle" /\ born'[p] = {} /\ at'[p] = NoLine
      /\ taken'[p] = {} /\ target'[p] = NoTargets /\ gain'[p] = NoGain
  BY <1>0 DEF Rest, LocalsOk
<1>2. Held(p)' \subseteq {None}
  BY <1>1 DEF Held, NoTargets
<1>3. \A q \in Procs \ {p} : SameLocals(q) /\ \A t \in Transfers : docLock[t] = q => docLock'[t] = q
  BY <1>0 DEF Rest, LocalsOk, SameLocals
<1>4. docLock' \in [Transfers -> Procs \cup {None}]
  BY <1>0 DEF Rest, LocalsOk
<1>5. /\ pc' \in [Procs -> Labels] /\ job' \in [Procs -> Transfers \cup {None}]
      /\ taken' \in [Procs -> SUBSET Lines] /\ born' \in [Procs -> SUBSET Rows]
  BY <1>0 DEF Rest, LocalsOk, Labels
<1>6. at' \in [Procs -> Places]
  BY <1>0 DEF Rest, LocalsOk, NoLine, Places
<1>7. target' \in [Procs -> [Lines -> Rows \cup {None}]]
  BY <1>0 DEF Rest, LocalsOk, NoTargets
<1>8. gain' \in [Procs -> [Rows -> Nat]]
  BY <1>0 DEF Rest, LocalsOk, NoGain
<1>9. seen' = [q \in Procs |-> seen'[q]] /\ slipped' = [q \in Procs |-> slipped'[q]]
  BY <1>0 DEF Rest, LocalsOk
<1> QED
  BY <1>1, <1>2, <1>3, <1>4, <1>5, <1>6, <1>7, <1>8, <1>9 DEF NoLine, NoGain, LocalsOk

LEMMA AtRest ==
  ASSUME RowsInv, NEW p \in Procs, Rest(p),
         \A q \in Procs \ {p} : Held(p)' \cap Held(q)' \subseteq {None}
  PROVE  RowsOk(p)' /\ RequestOk(p)'
<1>1. /\ Held(p)' \subseteq {None} /\ pc'[p] = "idle" /\ born'[p] = {} /\ at'[p].row = None
      /\ \A r \in Rows : gain'[p][r] = 0
  BY RestFrame
<1>2. RowsOk(p)'
  BY <1>1 DEF RowsOk
<1>3. RequestOk(p)'
  BY <1>1 DEF RequestOk
<1> QED
  BY <1>2, <1>3

LEMMA RollbackInv ==
  ASSUME RowsInv, NEW p \in Procs, Rollback(p)
  PROVE  RowsInv'
<1>0. TypeOK /\ RowsOk(p) /\ Rest(p)
  BY Parts DEF Rollback
<1>1. /\ info' = [r \in Rows |-> IF r \in born[p] THEN NoRow ELSE info[r]]
      /\ UNCHANGED <<qty, live, document>>
  BY DEF Rollback
<1>2. LocalsOk'
  BY <1>0, RestFrame
<1>3. /\ info' = [r \in Rows |-> info'[r]]
      /\ \A r \in Rows : info'[r].place \in Warehouses \cup {None}
  BY <1>0, <1>1 DEF TypeOK, NoRow
<1>4. TypeOK'
  BY <1>0, <1>1, <1>2, <1>3 DEF TypeOK, LocalsOk, document, Labels, Places
<1>5. \A r \in Rows \ born[p] : info'[r] = info[r]
  BY <1>1
<1>6. ASSUME NEW q \in Procs \ {p} PROVE RowsOk(q)' /\ RequestOk(q)'
  <2>0. RowsOk(q)
    BY Parts
  <2>1. \A o \in Procs \ {p} : SameLocals(o)
    BY <1>0, RestFrame
  <2>2. DocKept(q)
    BY <1>0, <1>1, RestFrame DEF DocKept, document
  <2>3. Held(q) \cap Held(p)' \subseteq {None}
    BY <1>0, RestFrame
  <2>4. \A r \in Held(q) \ {None} : r \in Rows /\ r \notin born[p]
    BY <1>0, <2>0, HeldRows DEF RowsOk
  <2>5. \A r \in Held(q) \ {None} : Present(r)' /\ qty'[r] = qty[r] /\ live'[r] = live[r]
    BY <1>1, <1>5, <2>0, <2>4 DEF RowsOk, Present
  <2>6. at[q].row # None => at[q].row \in Rows \ born[p] /\ Present(at[q].row)
    BY <1>0, <2>0 DEF RowsOk, Visible, TypeOK
  <2>7. at[q].row # None => Present(at[q].row)' /\ at[q].row \notin born'[p]
    <3>1. at'[q] = at[q]
      BY <2>1 DEF SameLocals
    <3>2. born'[p] = {}
      BY <1>0, RestFrame
    <3> QED
      BY <1>5, <2>6, <3>1, <3>2 DEF Present
  <2> QED
    BY <2>1, <2>2, <2>3, <2>5, <2>7, Others
<1>7. RowsOk(p)' /\ RequestOk(p)'
  BY <1>0, AtRest, RestFrame
<1>8. \A r \in Rows : ~Present(r)' => qty'[r] = 0
  <2>1. ASSUME NEW r \in Rows, r \in born[p] PROVE qty'[r] = 0
    BY <1>0, <1>1, <2>1 DEF RowsOk
  <2>2. ASSUME NEW r \in Rows, r \notin born[p], ~Present(r)' PROVE qty'[r] = 0
    BY <1>1, <1>5, <2>2, Parts DEF Present
  <2> QED
    BY <2>1, <2>2
<1>9. NonNegativeStock' /\ ApprovedBeforeSent' /\ \A t \in Transfers : ApprovalOk(t)'
  BY <1>1 DEF RowsInv, NonNegativeStock, ApprovedBeforeSent, ApprovalOk, document
<1> QED
  BY <1>4, <1>6, <1>7, <1>8, <1>9 DEF RowsInv, RequestInv

\* A statement of p that changes no row and no document, only its locals.
LEMMA OwnStep ==
  ASSUME RowsInv, NEW p \in Procs, UNCHANGED <<stock, document, gain, born, target>>,
         LocalsOk',
         \A q \in Procs \ {p} : /\ SameLocals(q)
                                /\ \A t \in Transfers : docLock[t] = q => docLock'[t] = q
                                /\ Held(p)' \cap Held(q) \subseteq {None},
         Held(p) \subseteq Held(p)', \A r \in Held(p)' \ {None} : Present(r),
         at'[p].row # None => Visible(p, at'[p].row),
         RequestOk(p)'
  PROVE  RowsInv'
<1> USE DEF stock, document
<1>0. TypeOK /\ RowsOk(p)
  BY Parts
<1>1. TypeOK'
  BY <1>0 DEF TypeOK, LocalsOk, Labels, Places
<1>2. ASSUME NEW q \in Procs \ {p} PROVE RowsOk(q)' /\ RequestOk(q)'
  <2>0. RowsOk(q)
    BY Parts
  <2>1. DocKept(q)
    BY DEF DocKept
  <2>2. \A r \in Held(q) \ {None} : Present(r)' /\ qty'[r] = qty[r] /\ live'[r] = live[r]
    BY <2>0 DEF RowsOk, Present
  <2>3. at[q].row # None => Present(at[q].row)' /\ at[q].row \notin born'[p]
    BY <2>0 DEF RowsOk, Visible, Present, SameLocals
  <2> QED
    BY <2>1, <2>2, <2>3, Others
<1>3. RowsOk(p)'
  <2>1. \A q \in Procs \ {p} : Held(p)' \cap Held(q)' \subseteq {None}
    BY SameHeld
  <2>2. \A r \in Held(p)' \ {None} : Present(r)'
    BY DEF Present
  <2>3. (at[p].row # None => Visible(p, at[p].row))'
    BY DEF Visible, Present
  <2>4. /\ \A r \in Rows : gain'[p][r] > 0 => r \in Held(p)'
        /\ born'[p] \subseteq Held(p)' /\ \A r \in born'[p] : qty'[r] = 0
    BY <1>0 DEF RowsOk
  <2> QED
    BY <2>1, <2>2, <2>3, <2>4 DEF RowsOk
<1>4. \A r \in Rows : ~Present(r)' => qty'[r] = 0
  BY Parts DEF Present
<1>5. NonNegativeStock' /\ ApprovedBeforeSent' /\ \A t \in Transfers : ApprovalOk(t)'
  BY DEF RowsInv, NonNegativeStock, ApprovedBeforeSent, ApprovalOk
<1> QED
  BY <1>1, <1>2, <1>3, <1>4, <1>5 DEF RowsInv, RequestInv

\* A request that holds no row reads or locks its document.
LEMMA BeginStep ==
  ASSUME RowsInv, NEW p \in Procs, NEW t \in Transfers, NEW s,
         UNCHANGED <<stock, document, placing>>, LocalsOk',
         pc[p] \in {"idle", "look"}, pc' = [pc EXCEPT ![p] = s], job' = [job EXCEPT ![p] = t],
         \A q \in Procs \ {p} : \A u \in Transfers : docLock[u] = q => docLock'[u] = q,
         s \in {"send", "look", "move"},
         s = "send" => approvedAt[t] /\ ~rejectedAt[t],
         s = "move" => status[t] = "SENT" /\ docLock'[t] = p
  PROVE  RowsInv'
<1>0. TypeOK /\ RowsOk(p) /\ RequestOk(p)
  BY Parts
<1>1. UNCHANGED <<taken, at, target, gain, born>> /\ UNCHANGED <<status, approvedAt, rejectedAt>>
  BY DEF placing, document
<1>2. job'[p] = t /\ pc'[p] = s /\ \A q \in Procs \ {p} : job'[q] = job[q] /\ pc'[q] = pc[q]
  BY <1>0 DEF TypeOK
<1>3. \A q \in Procs \ {p} : SameLocals(q)
  BY <1>1, <1>2 DEF SameLocals
<1>4. Held(p)' = Held(p) /\ Held(p) \subseteq {None} /\ taken'[p] = {}
  <2>1. Held(p)' = Held(p) /\ taken'[p] = taken[p]
    BY <1>1 DEF Held
  <2>2. Held(p) \subseteq {None}
    BY <1>0 DEF RequestOk
  <2> QED
    BY <1>0, <2>1, <2>2, HeldRows
<1>5. RequestOk(p)'
  <2>1. /\ s \in {"idle", "send", "look"} => Held(p)' \subseteq {None}
        /\ s # "put" /\ taken'[p] = {}
    BY <1>4
  <2>2. s = "send" => approvedAt'[t] /\ ~rejectedAt'[t]
    BY <1>1
  <2>3. s = "move" => status'[t] = "SENT" /\ docLock'[t] = p
    BY <1>1
  <2> QED
    BY <1>2, <2>1, <2>2, <2>3 DEF RequestOk
<1>6. at'[p].row # None => Visible(p, at'[p].row)
  BY <1>0, <1>1 DEF RowsOk
<1>7. UNCHANGED <<stock, document, gain, born, target>>
  BY <1>1
<1>8. /\ \A q \in Procs \ {p} : Held(p)' \cap Held(q) \subseteq {None}
      /\ Held(p) \subseteq Held(p)' /\ \A r \in Held(p)' \ {None} : Present(r)
  BY <1>4
<1> QED
  BY <1>3, <1>5, <1>6, <1>7, <1>8, OwnStep

LEMMA BeginInv ==
  ASSUME RowsInv, NEW p \in Procs, NEW t \in Transfers, ReadSend(p, t) \/ LookUp(p, t)
  PROVE  RowsInv'
<1>0. TypeOK /\ LocalsOk /\ ApprovalOk(t)
  BY Parts, TypedLocals
<1>1. CASE ReadSend(p, t)
  <2>1. /\ UNCHANGED <<stock, document, placing>> /\ UNCHANGED <<docLock, seen>>
        /\ pc[p] = "idle" /\ pc' = [pc EXCEPT ![p] = "send"] /\ job' = [job EXCEPT ![p] = t]
    BY <1>1 DEF ReadSend
  <2>2. LocalsOk'
    BY <1>0, <2>1 DEF LocalsOk, Labels, placing
  <2>3. approvedAt[t] /\ ~rejectedAt[t]
    BY <1>0, <1>1 DEF ReadSend, ApprovalOk
  <2> QED
    BY <2>1, <2>2, <2>3, BeginStep
<1>2. CASE LookUp(p, t)
  <2>1. /\ UNCHANGED <<stock, document, placing>> /\ docLock' = docLock
        /\ pc[p] = "idle" /\ pc' = [pc EXCEPT ![p] = "look"] /\ job' = [job EXCEPT ![p] = t]
    BY <1>2 DEF LookUp
  <2>2. seen' = [q \in Procs |-> seen'[q]]
    BY <1>0, <1>2 DEF LookUp, LocalsOk
  <2>3. LocalsOk'
    BY <1>0, <2>1, <2>2 DEF LocalsOk, Labels, placing
  <2> QED
    BY <2>1, <2>3, BeginStep
<1> QED
  BY <1>1, <1>2

LEMMA ReceiveInv ==
  ASSUME RowsInv, NEW p \in Procs, Receive(p)
  PROVE  RowsInv'
<1> PICK t : t = job[p]
  OBVIOUS
<1>0. TypeOK /\ LocalsOk /\ RequestOk(p)
  BY Parts, TypedLocals
<1>1. /\ UNCHANGED <<stock, document, placing>> /\ UNCHANGED <<job, seen>>
      /\ pc[p] = "look" /\ pc' = [pc EXCEPT ![p] = "move"]
      /\ docLock[t] = None /\ docLock' = [docLock EXCEPT ![t] = p] /\ status[t] = "SENT"
  BY DEF Receive
<1>2. t \in Transfers /\ job' = [job EXCEPT ![p] = t]
  <2>1. t \in Transfers
    BY <1>0, <1>1 DEF RequestOk
  <2>2. job = [job EXCEPT ![p] = t]
    BY <1>0, <2>1 DEF LocalsOk
  <2> QED
    BY <1>1, <2>1, <2>2
<1>3. LocalsOk'
  BY <1>0, <1>1, <1>2 DEF LocalsOk, Labels, placing
<1>4. docLock'[t] = p /\ \A q \in Procs \ {p} : \A u \in Transfers : docLock[u] = q => docLock'[u] = q
  BY <1>0, <1>1, <1>2 DEF LocalsOk
<1>5. /\ UNCHANGED <<stock, document, placing>> /\ pc[p] \in {"idle", "look"}
      /\ pc' = [pc EXCEPT ![p] = "move"] /\ status[t] = "SENT"
  BY <1>1
<1> QED
  BY <1>2, <1>3, <1>4, <1>5, BeginStep

\* The document was approved when the send read it, and nobody rejects it since.
LEMMA WriteSendInv ==
  ASSUME RowsInv, NEW p \in Procs, WriteSend(p)
  PROVE  RowsInv'
<1> PICK t : t = job[p]
  OBVIOUS
<1>0. TypeOK /\ RowsOk(p) /\ RequestOk(p)
  BY Parts
<1>1. t \in Transfers /\ approvedAt[t] /\ ~rejectedAt[t] /\ Held(p) \subseteq {None}
  BY <1>0 DEF WriteSend, RequestOk
<1>2. /\ docLock[t] = None /\ status' = [status EXCEPT ![t] = "SENT"]
      /\ pc' = [pc EXCEPT ![p] = "idle"] /\ job' = [job EXCEPT ![p] = None]
      /\ UNCHANGED <<stock, approvedAt, rejectedAt, docLock, seen, placing>>
  BY DEF WriteSend
<1> USE DEF stock, placing
<1>3. TypeOK'
  BY <1>0, <1>2 DEF TypeOK
<1>4. /\ status'[t] = "SENT" /\ \A u \in Transfers \ {t} : status'[u] = status[u]
      /\ \A q \in Procs \ {p} : SameLocals(q)
      /\ pc'[p] = "idle"
  BY <1>0, <1>1, <1>2 DEF TypeOK, SameLocals
<1>5. \A q \in Procs : Held(q)' = Held(q)
  BY <1>2 DEF Held
<1>6. ASSUME NEW q \in Procs \ {p} PROVE RowsOk(q)' /\ RequestOk(q)'
  <2>0. RowsOk(q)
    BY Parts
  <2>1. DocKept(q)
    BY <1>2, <1>4 DEF DocKept
  <2>2. \A r \in Held(q) \ {None} : Present(r)' /\ qty'[r] = qty[r] /\ live'[r] = live[r]
    BY <1>2, <2>0 DEF RowsOk, Present
  <2>3. at[q].row # None => Present(at[q].row)' /\ at[q].row \notin born'[p]
    BY <1>2, <2>0 DEF RowsOk, Visible, Present
  <2> QED
    BY <1>1, <1>4, <1>5, <2>1, <2>2, <2>3, Others
<1>7. RowsOk(p)'
  BY <1>0, <1>2, <1>5 DEF RowsOk, Present, Visible
<1>8. RequestOk(p)'
  BY <1>1, <1>4, <1>5 DEF RequestOk
<1>9. \A r \in Rows : ~Present(r)' => qty'[r] = 0
  BY <1>2, Parts DEF Present
<1>10. NonNegativeStock' /\ ApprovedBeforeSent' /\ \A u \in Transfers : ApprovalOk(u)'
  BY <1>1, <1>2, <1>4 DEF RowsInv, NonNegativeStock, ApprovedBeforeSent, ApprovalOk
<1> QED
  BY <1>3, <1>6, <1>7, <1>8, <1>9, <1>10 DEF RowsInv, RequestInv

\* A line is taken under the lock of its row, while the row has the units.
LEMMA TakeInv ==
  ASSUME RowsInv, NEW p \in Procs, NEW l \in Lines, Take(p, l)
  PROVE  RowsInv'
<1> PICK t, r : t = job[p] /\ r = Item[l]
  OBVIOUS
<1>0. TypeOK /\ LocalsOk /\ RowsOk(p) /\ RequestOk(p) /\ r \in Rows
  BY Parts, TypedLocals
<1>1. t \in Transfers /\ status[t] = "SENT" /\ docLock[t] = p /\ taken[p] \subseteq LinesOf(t)
  BY <1>0 DEF Take, RequestOk
<1>2. /\ pc[p] = "move" /\ l \in LinesOf(t) \ taken[p] /\ RowFree(p, r)
      /\ live[r] /\ qty[r] >= TakenOf(p, r) + Count[l]
      /\ taken' = [taken EXCEPT ![p] = taken[p] \cup {l}]
      /\ UNCHANGED <<stock, document, docLock, pc, job, seen, at, target, gain, born, slipped>>
  BY DEF Take, TakeOk
<1>3. /\ taken'[p] = taken[p] \cup {l} /\ \A q \in Procs \ {p} : taken'[q] = taken[q]
      /\ LocalsOk'
  BY <1>0, <1>2 DEF LocalsOk
<1>4. Held(p)' = Held(p) \cup {r}
  BY <1>2, <1>3 DEF Held
<1>5. Present(r)
  <2>1. PICK a, c, n : a = TakenOf(p, r) /\ c = Count[l] /\ n = qty[r]
    OBVIOUS
  <2>3. a \in Nat /\ c \in Nat \ {0} /\ n \in Nat /\ n >= a + c
    BY <1>0, <1>2, <2>1, TakenUnits, Parts
  <2>2. qty[r] # 0
    BY <2>1, <2>3
  <2> QED
    BY <1>0, <2>2, Parts
<1>6. \A q \in Procs \ {p} : SameLocals(q) /\ Held(p)' \cap Held(q) \subseteq {None}
  BY <1>0, <1>2, <1>3, <1>4 DEF SameLocals, RowsOk, RowFree
<1>7. RequestOk(p)'
  <2>1. ASSUME NEW k \in taken'[p]
        PROVE  live'[Item[k]] /\ qty'[Item[k]] >= TakenOf(p, Item[k])'
    <3>1. k \in Lines /\ Item[k] \in Rows /\ k \in taken[p] \cup {l}
      BY <1>0, <1>3 DEF LocalsOk
    <3>2. TakenOf(p, Item[k])' = TakenOf(p, Item[k]) + (IF Item[k] = r THEN Count[l] ELSE 0)
      BY <1>0, <1>2, <1>3, <3>1, TakenMore
    <3>3. CASE Item[k] = r
      BY <1>2, <3>2, <3>3 DEF stock
    <3>4. CASE Item[k] # r
      <4>1. live[Item[k]] /\ qty[Item[k]] >= TakenOf(p, Item[k])
        BY <1>0, <1>2, <3>1, <3>4 DEF RequestOk
      <4>2. TakenOf(p, Item[k]) \in Nat
        BY <1>0, <3>1, TakenUnits
      <4> QED
        BY <1>2, <3>2, <3>4, <4>1, <4>2 DEF stock
    <3> QED
      BY <3>3, <3>4
  <2>2. taken'[p] \subseteq LinesOf(t) /\ pc'[p] = "move" /\ job'[p] = t
    BY <1>1, <1>2, <1>3
  <2>3. status'[t] = "SENT" /\ docLock'[t] = p
    BY <1>1, <1>2 DEF document
  <2> QED
    BY <1>1, <2>1, <2>2, <2>3 DEF RequestOk
<1>8. \A x \in Held(p)' \ {None} : Present(x)
  BY <1>0, <1>4, <1>5 DEF RowsOk
<1>9. at'[p].row # None => Visible(p, at'[p].row)
  BY <1>0, <1>2 DEF RowsOk
<1> QED
  BY <1>2, <1>3, <1>4, <1>6, <1>7, <1>8, <1>9, OwnStep

LEMMA FindInv ==
  ASSUME RowsInv, NEW p \in Procs, NEW l \in Lines, Find(p, l)
  PROVE  RowsInv'
<1>0. TypeOK /\ LocalsOk /\ RowsOk(p) /\ RequestOk(p)
  BY Parts, TypedLocals
<1>1. /\ pc[p] = "move" /\ pc' = [pc EXCEPT ![p] = "put"] /\ target[p][l] = None
      /\ UNCHANGED <<stock, document, docLock, job, seen, taken, target, gain, born, slipped>>
  BY DEF Find
<1>2. PICK r : /\ r = None \/ r \in Matches(p, l)
               /\ at' = [at EXCEPT ![p] = [line |-> l, row |-> r]]
  BY DEF Find
<1>3. r \in Rows \cup {None} /\ (r # None => Visible(p, r))
  BY <1>2 DEF Matches
<1>4. at' \in [Procs -> Places] /\ at'[p].line = l /\ at'[p].row = r
      /\ \A q \in Procs \ {p} : at'[q] = at[q]
  BY <1>0, <1>2, <1>3 DEF LocalsOk, Places
<1>5. pc'[p] = "put" /\ LocalsOk' /\ \A q \in Procs \ {p} : pc'[q] = pc[q]
  BY <1>0, <1>1, <1>4 DEF LocalsOk, Labels
<1>6. Held(p)' = Held(p)
  BY <1>1 DEF Held
<1>7. \A q \in Procs \ {p} : SameLocals(q) /\ Held(p)' \cap Held(q) \subseteq {None}
  BY <1>0, <1>1, <1>4, <1>5, <1>6 DEF SameLocals, RowsOk
<1>8. RequestOk(p)'
  <2>1. \A x : TakenOf(p, x)' = TakenOf(p, x)
    BY <1>1, SameTaken
  <2> QED
    BY <1>0, <1>1, <1>4, <1>5, <2>1 DEF RequestOk, stock, document
<1>9. \A x \in Held(p)' \ {None} : Present(x)
  BY <1>0, <1>6 DEF RowsOk
<1> QED
  BY <1>1, <1>3, <1>4, <1>5, <1>6, <1>7, <1>8, <1>9, OwnStep

\* A line is placed in a row nobody else has written.
LEMMA PlaceInv ==
  ASSUME RowsInv, NEW p \in Procs, NEW r \in Rows,
         pc[p] = "put", AddTo(p, r), Placed(p, r),
         RowFree(p, r),
         info' = [x \in Rows |-> info'[x]],
         info'[r].place \in Warehouses, \A x \in Rows \ {r} : info'[x] = info[x],
         \/ Present(r) /\ born' = born
         \/ ~Present(r) /\ born' = [born EXCEPT ![p] = born[p] \cup {r}]
  PROVE  RowsInv'
<1> PICK t : t = job[p]
  OBVIOUS
<1> PICK i : i = at[p].line
  OBVIOUS
<1>0. TypeOK /\ LocalsOk /\ RowsOk(p) /\ RequestOk(p)
  BY Parts, TypedLocals
<1>1. t \in Transfers /\ status[t] = "SENT" /\ docLock[t] = p /\ i \in Lines
  BY <1>0 DEF RequestOk
<1>2. /\ target' = [target EXCEPT ![p][i] = r]
      /\ gain' = [gain EXCEPT ![p][r] = gain[p][r] + Count[i]]
      /\ at' = [at EXCEPT ![p] = NoLine] /\ pc' = [pc EXCEPT ![p] = "move"]
      /\ UNCHANGED <<qty, live, document, docLock, job, seen, taken, slipped>>
  BY DEF AddTo, Placed
<1>3. /\ target' \in [Procs -> [Lines -> Rows \cup {None}]]
      /\ target'[p] = [target[p] EXCEPT ![i] = r]
  BY <1>0, <1>1, <1>2 DEF TypeOK
<1>4. /\ gain' \in [Procs -> [Rows -> Nat]]
      /\ \A x \in Rows \ {r} : gain'[p][x] = gain[p][x]
  <2>1. gain \in [Procs -> [Rows -> Nat]]
    BY <1>0 DEF TypeOK
  <2>2. gain[p][r] + Count[i] \in Nat
    BY <1>1, <2>1
  <2> QED
    BY <1>2, <2>1, <2>2
<1>5. /\ at' \in [Procs -> Places] /\ at'[p].row = None /\ pc' \in [Procs -> Labels]
      /\ pc'[p] = "move"
  BY <1>0, <1>2 DEF TypeOK, NoLine, Places, Labels
<1>6. /\ born' \in [Procs -> SUBSET Rows] /\ \A q \in Procs \ {p} : born'[q] = born[q]
      /\ \/ born'[p] = born[p]
         \/ ~Present(r) /\ born'[p] = born[p] \cup {r}
  <2>0. born \in [Procs -> SUBSET Rows]
    BY <1>0 DEF TypeOK
  <2>1. ASSUME born' = born
        PROVE  /\ born' \in [Procs -> SUBSET Rows] /\ \A q \in Procs \ {p} : born'[q] = born[q]
               /\ born'[p] = born[p]
    BY <2>0, <2>1, Zenon
  <2>2. ASSUME ~Present(r), born' = [born EXCEPT ![p] = born[p] \cup {r}]
        PROVE  /\ born' \in [Procs -> SUBSET Rows] /\ \A q \in Procs \ {p} : born'[q] = born[q]
               /\ ~Present(r) /\ born'[p] = born[p] \cup {r}
    BY <2>0, <2>2
  <2> QED
    BY <2>1, <2>2, Zenon
<1>7. TypeOK'
  <2>1. \A x \in Rows : info'[x].place \in Warehouses \cup {None}
    BY <1>0 DEF TypeOK
  <2>2. qty' \in [Rows -> Int] /\ live' \in [Rows -> BOOLEAN]
    BY <1>0, <1>2 DEF TypeOK
  <2>3. LocalsOk'
    BY <1>0, <1>2, <1>3, <1>4, <1>5, <1>6 DEF LocalsOk
  <2> QED
    BY <1>0, <1>2, <2>1, <2>2, <2>3 DEF TypeOK, LocalsOk, document, Labels, Places
<1>8. Held(p)' \subseteq Held(p) \cup {r} /\ r \in Held(p)'
  BY <1>0, <1>1, <1>2, <1>3 DEF Held, TypeOK
<1>9. Held(p) \ {None} \subseteq Held(p)'
  <2> SUFFICES ASSUME NEW x \in Held(p) \ {None} PROVE x \in Held(p)'
    OBVIOUS
  <2>1. CASE \E l \in taken[p] : Item[l] = x
    BY <1>2, <2>1 DEF Held
  <2>2. CASE \E h \in Lines \ {i} : target[p][h] = x
    BY <1>0, <1>3, <2>2 DEF Held, TypeOK
  <2>3. target[p][i] = None
    BY <1>0 DEF RequestOk
  <2> QED
    BY <2>1, <2>2, <2>3 DEF Held
<1>10. \A q \in Procs \ {p} : /\ SameLocals(q)
                              /\ Held(q) \cap Held(p) \subseteq {None} /\ r \notin Held(q)
  <2>1. \A q \in Procs \ {p} : born'[q] = born[q] /\ target'[q] = target[q] /\ gain'[q] = gain[q]
    BY <1>0, <1>2, <1>6 DEF TypeOK
  <2>2. \A q \in Procs \ {p} : pc'[q] = pc[q] /\ at'[q] = at[q] /\ job'[q] = job[q] /\ taken'[q] = taken[q]
    BY <1>0, <1>2 DEF TypeOK
  <2>3. \A q \in Procs \ {p} : Held(q) \cap Held(p) \subseteq {None} /\ r \notin Held(q)
    BY <1>0 DEF RowsOk, RowFree
  <2> QED
    BY <2>1, <2>2, <2>3 DEF SameLocals
<1>11. Present(r)' /\ \A x \in Rows : Present(x) => Present(x)'
  <2>1. info'[r].place # None
    OBVIOUS
  <2> QED
    BY <2>1 DEF Present
<1>12. ASSUME NEW q \in Procs \ {p} PROVE RowsOk(q)' /\ RequestOk(q)'
  <2>0. RowsOk(q)
    BY Parts
  <2>1. DocKept(q)
    BY <1>2 DEF DocKept, document
  <2>2. Held(q) \cap Held(p)' \subseteq {None}
    BY <1>8, <1>10
  <2>3. \A x \in Held(q) \ {None} : Present(x)' /\ qty'[x] = qty[x] /\ live'[x] = live[x]
    BY <1>0, <1>2, <1>11, <2>0, HeldRows DEF RowsOk
  <2>4. at[q].row # None => at[q].row \in Rows /\ Present(at[q].row) /\ at[q].row \notin born[p]
    BY <1>0, <2>0 DEF RowsOk, Visible, TypeOK
  <2>5. at[q].row # None => Present(at[q].row)' /\ at[q].row \notin born'[p]
    <3>1. at'[q] = at[q]
      BY <1>10 DEF SameLocals
    <3>2. PICK a : a = at[q].row /\ a = at'[q].row
      BY <3>1
    <3>3. a # None => info'[a].place # None
      BY <1>11, <2>4, <3>2 DEF Present
    <3>4. a # None => a \notin born'[p]
      BY <1>6, <2>4, <3>2
    <3> QED
      BY <3>2, <3>3, <3>4 DEF Present
  <2>6. \A o \in Procs \ {p} : SameLocals(o)
    BY <1>10
  <2> QED
    BY <2>1, <2>2, <2>3, <2>5, <2>6, Others
<1>13. RowsOk(p)'
  <2>1. \A q \in Procs \ {p} : Held(p)' \cap Held(q)' \subseteq {None}
    BY <1>8, <1>10, SameHeld
  <2>2. \A x \in Held(p)' \ {None} : Present(x)'
    BY <1>0, <1>8, <1>11, HeldRows DEF RowsOk
  <2>3. \A x \in Rows : gain'[p][x] > 0 => x \in Held(p)'
    BY <1>0, <1>4, <1>8, <1>9 DEF RowsOk
  <2>4. /\ born'[p] \subseteq Held(p)'
        /\ \A x \in born'[p] : qty'[x] = 0
    <3>2. born[p] \subseteq Held(p) \ {None} /\ \A x \in born[p] : qty[x] = 0
      BY <1>0 DEF RowsOk, TypeOK
    <3>3. ~Present(r) => qty[r] = 0
      BY Parts
    <3> QED
      BY <1>2, <1>6, <1>8, <1>9, <3>2, <3>3
  <2>5. at'[p].row = None
    BY <1>5
  <2> QED
    BY <2>1, <2>2, <2>3, <2>4, <2>5 DEF RowsOk
<1>14. RequestOk(p)'
  <2>1. /\ taken[p] \subseteq LinesOf(t)
        /\ \A l \in taken[p] : live[Item[l]] /\ qty[Item[l]] >= TakenOf(p, Item[l])
    BY <1>0 DEF RequestOk
  <2>2. \A x : TakenOf(p, x)' = TakenOf(p, x)
    BY <1>2, SameTaken
  <2> QED
    BY <1>1, <1>2, <1>5, <2>1, <2>2 DEF RequestOk, document
<1>15. \A x \in Rows : ~Present(x)' => qty'[x] = 0
  BY <1>2, <1>11, Parts
<1>16. NonNegativeStock' /\ ApprovedBeforeSent' /\ \A u \in Transfers : ApprovalOk(u)'
  BY <1>2 DEF RowsInv, NonNegativeStock, ApprovedBeforeSent, ApprovalOk, document
<1> QED
  BY <1>7, <1>12, <1>13, <1>14, <1>15, <1>16 DEF RowsInv, RequestInv

LEMMA IncrementInv ==
  ASSUME RowsInv, NEW p \in Procs, Increment(p)
  PROVE  RowsInv'
<1> PICK r : r = at[p].row
  OBVIOUS
<1>0. TypeOK /\ RowsOk(p)
  BY Parts
<1>1. r \in Rows /\ Present(r)
  BY <1>0 DEF Increment, RowsOk, Visible, TypeOK
<1>2. /\ pc[p] = "put" /\ AddTo(p, r) /\ Placed(p, r) /\ RowFree(p, r)
      /\ UNCHANGED <<info, born>>
  BY DEF Increment
<1>3. info[r].place \in Warehouses /\ info = [x \in Rows |-> info[x]]
  BY <1>0, <1>1 DEF Present, TypeOK
<1> QED
  BY <1>1, <1>2, <1>3, PlaceInv

LEMMA InsertInv ==
  ASSUME RowsInv, NEW p \in Procs, Insert(p)
  PROVE  RowsInv'
<1> PICK n : n = NewRow(seen[p][at[p].line], Dest[job[p]])
  OBVIOUS
<1>0. TypeOK /\ RequestOk(p)
  BY Parts
<1>1. pc[p] = "put" /\ job[p] \in Transfers
  BY <1>0 DEF Insert, RequestOk
<1>2. n.place \in Warehouses
  BY <1>1 DEF NewRow
<1>3. PICK r \in Rows : /\ ~Present(r) /\ info' = [info EXCEPT ![r] = n]
                        /\ born' = [born EXCEPT ![p] = born[p] \cup {r}]
                        /\ AddTo(p, r) /\ Placed(p, r)
  BY DEF Insert
<1>4. RowFree(p, r)
  <2>1. \A q \in Procs : r \notin Held(q)
    BY <1>3, Parts DEF RowsOk
  <2> QED
    BY <2>1 DEF RowFree
<1>5. info = [x \in Rows |-> info[x]]
  BY <1>0 DEF TypeOK
<1>6. /\ info' = [x \in Rows |-> info'[x]] /\ info'[r] = n
      /\ \A x \in Rows \ {r} : info'[x] = info[x]
  BY <1>3, <1>5
<1> QED
  BY <1>1, <1>2, <1>3, <1>4, <1>6, PlaceInv

\* What was taken is still there, and no other request has written the rows.
LEMMA CommitInv ==
  ASSUME RowsInv, NEW p \in Procs, Commit(p)
  PROVE  RowsInv'
<1> PICK t : t = job[p]
  OBVIOUS
<1>0. TypeOK /\ RowsOk(p) /\ RequestOk(p) /\ Rest(p)
  BY Parts DEF Commit
<1>1. /\ qty' = [r \in Rows |-> qty[r] - TakenOf(p, r) + gain[p][r]]
      /\ status' = [status EXCEPT ![t] = "COMPLETED"]
      /\ UNCHANGED <<info, live, approvedAt, rejectedAt>>
  BY DEF Commit
<1>2. t \in Transfers /\ status[t] = "SENT" /\ docLock[t] = p
  BY <1>0 DEF Commit, RequestOk
<1>3. ASSUME NEW r \in Rows PROVE qty'[r] \in Nat /\ (r \notin Held(p) => qty'[r] = qty[r])
  <2>0. qty[r] \in Nat /\ gain[p][r] \in Nat /\ TakenOf(p, r) \in Nat
    BY <1>0, Parts, TakenUnits DEF TypeOK
  <2>1. CASE \E l \in taken[p] : Item[l] = r
    <3>1. PICK l \in taken[p] : Item[l] = r
      BY <2>1
    <3>2. qty[r] >= TakenOf(p, r) /\ r \in Held(p)
      BY <1>0, <3>1, HeldRows DEF Commit, RequestOk
    <3> QED
      BY <1>1, <2>0, <3>2
  <2>2. CASE ~\E l \in taken[p] : Item[l] = r
    <3>1. r \notin Held(p) => gain[p][r] = 0
      BY <1>0, <2>0 DEF RowsOk
    <3>2. TakenOf(p, r) = 0
      BY <1>0, <2>2, NoneTaken
    <3> QED
      BY <1>1, <2>0, <3>1, <3>2
  <2> QED
    BY <2>1, <2>2
<1>4. LocalsOk'
  BY <1>0, RestFrame
<1>5. qty' \in [Rows -> Int]
  BY <1>1, <1>3
<1>6. /\ status' \in [Transfers -> Statuses] /\ status'[t] = "COMPLETED"
      /\ \A u \in Transfers \ {t} : status'[u] = status[u]
  BY <1>0, <1>1, <1>2 DEF TypeOK, Statuses
<1>7. TypeOK'
  BY <1>0, <1>1, <1>4, <1>5, <1>6 DEF TypeOK, LocalsOk, Labels, Places, Statuses
<1>8. ASSUME NEW q \in Procs \ {p} PROVE RowsOk(q)' /\ RequestOk(q)'
  <2>0. RowsOk(q)
    BY Parts
  <2>1. \A o \in Procs \ {p} : SameLocals(o)
    BY <1>0, RestFrame
  <2>2. DocKept(q)
    BY <1>0, <1>1, <1>2, <1>6, RestFrame DEF DocKept
  <2>3. Held(q) \cap Held(p)' \subseteq {None}
    BY <1>0, RestFrame
  <2>4. \A x \in Held(q) \ {None} : x \in Rows /\ x \notin Held(p)
    BY <1>0, <2>0, HeldRows DEF RowsOk
  <2>5. \A x \in Held(q) \ {None} : Present(x)' /\ qty'[x] = qty[x] /\ live'[x] = live[x]
    BY <1>1, <1>3, <2>0, <2>4 DEF RowsOk, Present
  <2>6. at[q].row # None => Present(at[q].row)' /\ at[q].row \notin born'[p]
    <3>1. born'[p] = {} /\ at'[q] = at[q]
      BY <1>0, <2>1, RestFrame DEF SameLocals
    <3> QED
      BY <1>1, <2>0, <3>1 DEF RowsOk, Visible, Present
  <2> QED
    BY <2>1, <2>2, <2>3, <2>5, <2>6, Others
<1>9. RowsOk(p)' /\ RequestOk(p)'
  BY <1>0, AtRest, RestFrame
<1>10. \A r \in Rows : ~Present(r)' => qty'[r] = 0
  <2> SUFFICES ASSUME NEW r \in Rows, ~Present(r)' PROVE qty'[r] = 0
    OBVIOUS
  <2>1. ~Present(r)
    BY <1>1 DEF Present
  <2>2. r \notin Held(p) /\ qty[r] = 0
    <3>1. r # None
      OBVIOUS
    <3> QED
      BY <1>0, <2>1, <3>1, Parts DEF RowsOk
  <2> QED
    BY <1>3, <2>2
<1>11. NonNegativeStock'
  BY <1>3 DEF NonNegativeStock
<1>12. ApprovedBeforeSent' /\ \A u \in Transfers : ApprovalOk(u)'
  BY <1>1, <1>2, <1>6 DEF RowsInv, ApprovedBeforeSent, ApprovalOk
<1> QED
  BY <1>7, <1>8, <1>9, <1>10, <1>11, <1>12 DEF RowsInv, RequestInv

LEMMA NextInv == RowsInv /\ [Next]_vars => RowsInv'
<1> SUFFICES ASSUME RowsInv, [Next]_vars PROVE RowsInv'
  OBVIOUS
<1>1. CASE \E t \in Transfers : Create(t) \/ Approve(t) \/ Reject(t) \/ Cancel(t)
  BY <1>1, DocumentInv
<1>2. CASE (\E r \in Rows : SetDeleted(r)) \/ \E e \in Edits : EditItem(e)
  BY <1>2, SetDeletedInv, EditItemInv
<1>3. ASSUME NEW p \in Procs, \E t \in Transfers : ReadSend(p, t) \/ LookUp(p, t) PROVE RowsInv'
  BY <1>3, BeginInv
<1>4. ASSUME NEW p \in Procs, NEW l \in Lines, Take(p, l) \/ TakeShort(p, l) \/ Find(p, l)
      PROVE RowsInv'
  <2>1. CASE Take(p, l)
    BY <2>1, TakeInv
  <2>2. CASE TakeShort(p, l)
    BY <2>2, RollbackInv DEF TakeShort
  <2>3. CASE Find(p, l)
    BY <2>3, FindInv
  <2> QED
    BY <1>4, <2>1, <2>2, <2>3
<1>5. ASSUME NEW p \in Procs, \/ WriteSend(p) \/ Receive(p) \/ ReceiveRefused(p)
                              \/ Increment(p) \/ Insert(p) \/ InsertRefused(p)
                              \/ Commit(p) \/ Fail(p)
      PROVE RowsInv'
  <2>1. CASE ReceiveRefused(p) \/ InsertRefused(p) \/ Fail(p)
    <3>1. Rollback(p)
      BY <2>1 DEF ReceiveRefused, InsertRefused, Fail
    <3> QED
      BY <3>1, RollbackInv
  <2> QED
    BY <1>5, <2>1, WriteSendInv, ReceiveInv, IncrementInv, InsertInv, CommitInv
<1>6. CASE UNCHANGED vars
  <2>1. UNCHANGED <<info, qty, live, status, approvedAt, rejectedAt, docLock, pc, job, seen, taken,
                    at, target, gain, born, slipped>>
    BY <1>6 DEF vars, stock, document, request, placing
  <2>2. TypeOK'
    BY <2>1, Parts DEF TypeOK
  <2>3. ASSUME NEW p \in Procs PROVE RowsOk(p)' /\ RequestOk(p)'
    <3>0. RowsOk(p) /\ RequestOk(p)
      BY Parts
    <3>1. \A q \in Procs : Held(q)' = Held(q) /\ born'[q] = born[q] /\ at'[q] = at[q]
                            /\ gain'[q] = gain[q]
      BY <2>1 DEF Held
    <3>3. \A r : (Present(r)' <=> Present(r)) /\ qty'[r] = qty[r]
      BY <2>1 DEF Present
    <3>4. at[p].row # None => Present(at[p].row)' /\ \A q \in Procs \ {p} : at[p].row \notin born'[q]
      BY <2>1, <3>0, <3>1 DEF RowsOk, Visible, Present
    <3>5. RowsOk(p)'
      BY <3>0, <3>1, <3>3, <3>4 DEF RowsOk, Visible
    <3>6. \A x : TakenOf(p, x)' = TakenOf(p, x)
      BY <2>1, SameTaken
    <3>2. RequestOk(p)'
      BY <2>1, <3>0, <3>1, <3>6 DEF RequestOk
    <3> QED
      BY <3>5, <3>2
  <2>4. \A r \in Rows : ~Present(r)' => qty'[r] = 0
    BY <2>1, Parts DEF Present
  <2>5. NonNegativeStock' /\ ApprovedBeforeSent' /\ \A t \in Transfers : ApprovalOk(t)'
    BY <2>1 DEF RowsInv, NonNegativeStock, ApprovedBeforeSent, ApprovalOk
  <2> QED
    BY <2>2, <2>3, <2>4, <2>5 DEF RowsInv, RequestInv
<1> QED
  BY <1>1, <1>2, <1>3, <1>4, <1>5, <1>6 DEF Next

----------------------------------------------------------------------------
(* The lines a receipt places.                                             *)

LEMMA LinesParts ==
  ASSUME IInv
  PROVE  /\ RowsInv /\ TypeOK /\ LocalsOk
         /\ \A p \in Procs : LinesOk(p) /\ RowsOk(p) /\ RequestOk(p)
BY Parts, TypedLocals DEF IInv, LinesInv

\* What a request holds it can see.
LEMMA HeldSeen ==
  ASSUME IInv, NEW p \in Procs, NEW r \in Held(p) \ {None}
  PROVE  r \in Rows /\ Visible(p, r)
<1>0. TypeOK /\ \A q \in Procs : RowsOk(q)
  BY LinesParts
<1>1. r \in Rows /\ Present(r)
  BY <1>0, HeldRows DEF RowsOk
<1>2. \A q \in Procs \ {p} : r \notin born[q]
  BY <1>0 DEF RowsOk
<1> QED
  BY <1>1, <1>2 DEF Visible

\* A request has its lines right while the rows it holds keep their data, and
\* the row it found does or its line counts as slipped.
LEMMA SameLines ==
  ASSUME IInv, NEW q \in Procs, SameLocals(q), seen'[q] = seen[q], slipped[q] \subseteq slipped'[q],
         \A r \in Held(q) \ {None} : info'[r] = info[r],
         at[q].row # None => info'[at[q].row] = info[at[q].row] \/ at[q].line \in slipped'[q]
  PROVE  LinesOk(q)'
<1>0. LinesOk(q) /\ TypeOK
  BY LinesParts
<1>1. PICK t, l, y : /\ t = job[q] /\ l = at[q].line /\ y = at[q].row
                     /\ t = job'[q] /\ l = at'[q].line /\ y = at'[q].row
  BY DEF SameLocals
<1>2. pc'[q] = pc[q] /\ target'[q] = target[q] /\ gain'[q] = gain[q] /\ taken'[q] = taken[q]
  BY DEF SameLocals
<1> SUFFICES ASSUME pc[q] \in {"move", "put"} PROVE LinesOk(q)'
  BY <1>2 DEF LinesOk
<1>4. ASSUME NEW k \in Lines, target[q][k] # None
      PROVE  /\ k \in LinesOf(t) /\ taken[q] = LinesOf(t)
             /\ k \notin slipped'[q] => Fits(q, k, target[q][k])'
  <2>1. /\ k \in LinesOf(t) /\ taken[q] = LinesOf(t)
        /\ k \notin slipped[q] => Fits(q, k, target[q][k])
    BY <1>0, <1>1, <1>4 DEF LinesOk
  <2>2. target[q][k] \in Held(q) \ {None}
    BY <1>0, <1>4, HeldRows
  <2>3. info'[target[q][k]] = info[target[q][k]] /\ target'[q][k] = target[q][k]
    BY <1>2, <2>2
  <2> QED
    BY <1>1, <2>1, <2>3 DEF Fits
<1>5. pc[q] = "put" =>
          /\ l \in LinesOf(t) /\ taken[q] = LinesOf(t)
          /\ y # None /\ l \notin slipped'[q] => Fits(q, l, y)'
  BY <1>0, <1>1 DEF LinesOk, Fits
<1>6. \A r \in Rows : gain[q][r] = Total({k \in Lines : target[q][k] = r})
  BY <1>0, <1>1 DEF LinesOk
<1> QED
  BY <1>1, <1>2, <1>4, <1>5, <1>6 DEF LinesOk

\* What a statement of p leaves to the others: the rows it did not insert.
KeepsRows(p) ==
    /\ \A r \in Rows : Present(r) /\ r \notin born[p] => info'[r] = info[r]
    /\ \A q \in Procs \ {p} : SameLocals(q) /\ seen'[q] = seen[q] /\ slipped'[q] = slipped[q]

LEMMA LinesStep ==
  ASSUME IInv, NEW p \in Procs, KeepsRows(p), LinesOk(p)'
  PROVE  LinesInv'
<1>1. ASSUME NEW q \in Procs \ {p} PROVE LinesOk(q)'
  <2>0. TypeOK /\ RowsOk(q)
    BY LinesParts
  <2>1. \A r \in Rows : Visible(q, r) => info'[r] = info[r]
    BY DEF KeepsRows, Visible
  <2>2. \A r \in Held(q) \ {None} : info'[r] = info[r]
    BY <2>1, HeldSeen
  <2>3. at[q].row # None => info'[at[q].row] = info[at[q].row]
    BY <2>0, <2>1 DEF RowsOk, TypeOK
  <2> QED
    BY <2>2, <2>3, SameLines DEF KeepsRows
<1> QED
  BY <1>1 DEF LinesInv

\* Handlers that touch no request and no row's data.
LEMMA HandlersLines ==
  ASSUME IInv,
         \/ \E t \in Transfers : Create(t) \/ Approve(t) \/ Reject(t) \/ Cancel(t)
         \/ \E r \in Rows : SetDeleted(r)
         \/ UNCHANGED vars
  PROVE  LinesInv'
<1>1. UNCHANGED <<info, request>>
  BY DEF Create, Approve, Reject, Cancel, SetDeleted, vars, stock
<1>2. ASSUME NEW q \in Procs PROVE LinesOk(q)'
  <2>1. SameLocals(q) /\ seen'[q] = seen[q] /\ slipped'[q] = slipped[q]
    BY <1>1 DEF request, placing, SameLocals
  <2> QED
    BY <1>1, <2>1, SameLines
<1> QED
  BY <1>2 DEF LinesInv

\* An edit reaches no row that a receipt has written, and the line that is to be
\* placed in the row it edits is counted.
LEMMA EditLines ==
  ASSUME IInv, NEW e \in Edits, EditItem(e)
  PROVE  LinesInv'
<1> PICK r : r = e.row
  OBVIOUS
<1>0. TypeOK /\ r \in Rows /\ \A q \in Procs : r \notin Held(q)
  BY LinesParts DEF EditItem, Unheld
<1>1. PICK n : /\ info' = [info EXCEPT ![r] = n]
               /\ slipped' = [q \in Procs |->
                     slipped[q] \cup (IF at[q].row = r THEN {at[q].line} ELSE {})]
               /\ UNCHANGED <<pc, job, seen, taken, at, target, gain, born>>
  BY DEF EditItem
<1>2. \A x \in Rows \ {r} : info'[x] = info[x]
  BY <1>0, <1>1 DEF TypeOK
<1>3. ASSUME NEW q \in Procs PROVE LinesOk(q)'
  <2>1. SameLocals(q) /\ seen'[q] = seen[q]
    BY <1>1 DEF SameLocals
  <2>2. slipped'[q] = slipped[q] \cup (IF at[q].row = r THEN {at[q].line} ELSE {})
    BY <1>1
  <2>3. \A x \in Held(q) \ {None} : info'[x] = info[x]
    BY <1>0, <1>2, HeldSeen
  <2>4. at[q].row # None => info'[at[q].row] = info[at[q].row] \/ at[q].line \in slipped'[q]
    BY <1>0, <1>2, <2>2 DEF TypeOK
  <2> QED
    BY <2>1, <2>2, <2>3, <2>4, SameLines
<1> QED
  BY <1>3 DEF LinesInv

\* A request that begins has placed nothing.
LEMMA BeginLines ==
  ASSUME IInv, NEW p \in Procs, (\E t \in Transfers : ReadSend(p, t) \/ LookUp(p, t)) \/ Receive(p)
  PROVE  LinesInv'
<1>0. TypeOK /\ RowsOk(p) /\ RequestOk(p)
  BY LinesParts
<1>1. /\ pc[p] \in {"idle", "look"} /\ UNCHANGED <<info, placing>>
      /\ \A q \in Procs \ {p} : pc'[q] = pc[q] /\ job'[q] = job[q] /\ seen'[q] = seen[q]
      /\ pc'[p] # "put"
  BY <1>0 DEF ReadSend, LookUp, Receive, TypeOK, stock
<1>2. \A l \in Lines : target[p][l] = None
  BY <1>0, <1>1, HeldRows DEF RequestOk
<1>3. \A r \in Rows : gain[p][r] = 0
  <2>1. \A r \in Rows : gain[p][r] \in Nat /\ ~(gain[p][r] > 0)
    BY <1>0, <1>1 DEF RowsOk, RequestOk, TypeOK
  <2> QED
    BY <2>1
<1>4. ASSUME NEW r \in Rows PROVE gain'[p][r] = Total({l \in Lines : target'[p][l] = r})
  <2>1. {l \in Lines : target'[p][l] = r} = {}
    BY <1>1, <1>2 DEF placing
  <2>2. gain'[p][r] = 0
    BY <1>1, <1>3 DEF placing
  <2> QED
    BY <2>1, <2>2, SumEmpty DEF Total
<1>5. \A l \in Lines : target'[p][l] = None
  BY <1>1, <1>2 DEF placing
<1>6. LinesOk(p)'
  BY <1>1, <1>4, <1>5 DEF LinesOk
<1>7. KeepsRows(p)
  BY <1>1 DEF KeepsRows, SameLocals, placing
<1> QED
  BY <1>6, <1>7, LinesStep

LEMMA WriteSendLines ==
  ASSUME IInv, NEW p \in Procs, WriteSend(p)
  PROVE  LinesInv'
<1>0. TypeOK
  BY LinesParts
<1>1. /\ UNCHANGED <<info, seen, placing>> /\ pc'[p] = "idle"
      /\ \A q \in Procs \ {p} : pc'[q] = pc[q] /\ job'[q] = job[q]
  BY <1>0 DEF WriteSend, TypeOK, stock
<1>2. KeepsRows(p)
  BY <1>1 DEF KeepsRows, SameLocals, placing
<1>3. LinesOk(p)'
  BY <1>1 DEF LinesOk
<1> QED
  BY <1>2, <1>3, LinesStep

\* A request that ends, in either way.
LEMMA RestLines ==
  ASSUME IInv, NEW p \in Procs, Rest(p), \A r \in Rows \ born[p] : info'[r] = info[r]
  PROVE  LinesInv'
<1>0. RowsInv /\ LocalsOk
  BY LinesParts
<1>1. pc'[p] = "idle" /\ \A q \in Procs \ {p} : SameLocals(q)
  BY <1>0, RestFrame
<1>2. \A q \in Procs \ {p} : seen'[q] = seen[q] /\ slipped'[q] = slipped[q]
  BY <1>0 DEF Rest, LocalsOk
<1>3. KeepsRows(p)
  BY <1>1, <1>2 DEF KeepsRows
<1>4. LinesOk(p)'
  BY <1>1 DEF LinesOk
<1> QED
  BY <1>3, <1>4, LinesStep

LEMMA RollbackLines ==
  ASSUME IInv, NEW p \in Procs, Rollback(p)
  PROVE  LinesInv'
<1>1. \A r \in Rows \ born[p] : info'[r] = info[r]
  BY DEF Rollback
<1> QED
  BY <1>1, RestLines DEF Rollback

\* No line is placed before all are taken.
LEMMA TakeLines ==
  ASSUME IInv, NEW p \in Procs, NEW l \in Lines, Take(p, l)
  PROVE  LinesInv'
<1>0. TypeOK /\ LinesOk(p)
  BY LinesParts
<1>1. /\ pc[p] = "move" /\ l \in LinesOf(job[p]) \ taken[p]
      /\ UNCHANGED <<info, pc, job, seen, at, target, gain, born, slipped>>
      /\ \A q \in Procs \ {p} : taken'[q] = taken[q]
  BY <1>0 DEF Take, TypeOK, stock
<1>2. \A k \in Lines : target[p][k] = None
  BY <1>0, <1>1 DEF LinesOk
<1>3. LinesOk(p)'
  BY <1>0, <1>1, <1>2 DEF LinesOk
<1>4. KeepsRows(p)
  BY <1>1 DEF KeepsRows, SameLocals
<1> QED
  BY <1>3, <1>4, LinesStep

LEMMA FindLines ==
  ASSUME IInv, NEW p \in Procs, NEW l \in Lines, Find(p, l)
  PROVE  LinesInv'
<1> PICK t : t = job[p]
  OBVIOUS
<1>0. TypeOK /\ LinesOk(p)
  BY LinesParts
<1>1. /\ pc[p] = "move" /\ l \in LinesOf(t) /\ taken[p] = LinesOf(t)
      /\ UNCHANGED <<info, job, seen, taken, target, gain, born, slipped>>
      /\ pc'[p] = "put" /\ \A q \in Procs \ {p} : pc'[q] = pc[q]
  BY <1>0 DEF Find, TypeOK, stock
<1>2. PICK r : /\ r = None \/ r \in Matches(p, l)
               /\ at' = [at EXCEPT ![p] = [line |-> l, row |-> r]]
  BY DEF Find
<1>3. r # None => Fits(p, l, r)'
  BY <1>1, <1>2 DEF Matches, Fits
<1>4. at'[p] = [line |-> l, row |-> r] /\ \A q \in Procs \ {p} : at'[q] = at[q]
  BY <1>0, <1>2 DEF TypeOK
<1>5. at'[p].line = l /\ at'[p].row = r
  BY <1>4
<1>6. /\ \A k \in Lines : target[p][k] # None =>
            /\ k \in LinesOf(t)
            /\ k \notin slipped[p] => Fits(p, k, target[p][k])
      /\ \A x \in Rows : gain[p][x] = Total({k \in Lines : target[p][k] = x})
  BY <1>0, <1>1 DEF LinesOk
<1>7. \A k \in Lines : target'[p][k] # None =>
            /\ k \in LinesOf(t)
            /\ k \notin slipped'[p] => Fits(p, k, target[p][k])'
  BY <1>1, <1>6 DEF Fits
<1>8. LinesOk(p)'
  BY <1>1, <1>3, <1>5, <1>6, <1>7 DEF LinesOk
<1>9. KeepsRows(p)
  BY <1>1, <1>4 DEF KeepsRows, SameLocals
<1> QED
  BY <1>8, <1>9, LinesStep

\* The row gains what its lines ask for, the new one included.
LEMMA PlaceLines ==
  ASSUME IInv, NEW p \in Procs, NEW r \in Rows,
         pc[p] = "put", AddTo(p, r), Placed(p, r),
         at[p].line \notin slipped[p] =>
            info'[r].place = Dest[job[p]] /\ info'[r].product = seen[p][at[p].line].product,
         \A x \in Rows : Present(x) => info'[x] = info[x],
         \A q \in Procs \ {p} : born'[q] = born[q]
  PROVE  LinesInv'
<1> PICK t, i : t = job[p] /\ i = at[p].line
  OBVIOUS
<1>0. TypeOK /\ RowsOk(p) /\ RequestOk(p) /\ LinesOk(p)
  BY LinesParts
<1>1. i \in LinesOf(t) /\ i \in Lines /\ taken[p] = LinesOf(t) /\ target[p][i] = None
  BY <1>0 DEF LinesOk, RequestOk
<1>2. /\ target' = [target EXCEPT ![p][i] = r]
      /\ gain' = [gain EXCEPT ![p][r] = gain[p][r] + Count[i]]
      /\ at' = [at EXCEPT ![p] = NoLine] /\ pc' = [pc EXCEPT ![p] = "move"]
      /\ UNCHANGED <<job, seen, taken, slipped>>
  BY DEF AddTo, Placed
<1>3. /\ target'[p][i] = r /\ \A k \in Lines \ {i} : target'[p][k] = target[p][k]
      /\ gain'[p][r] = gain[p][r] + Count[i]
      /\ \A x \in Rows \ {r} : gain'[p][x] = gain[p][x]
      /\ pc'[p] = "move"
  <2>1. target \in [Procs -> [Lines -> Rows \cup {None}]] /\ gain \in [Procs -> [Rows -> Nat]]
    BY <1>0 DEF TypeOK
  <2>2. target'[p] = [target[p] EXCEPT ![i] = r]
    BY <1>2, <2>1
  <2>3. gain'[p] = [gain[p] EXCEPT ![r] = gain[p][r] + Count[i]]
    BY <1>2, <2>1
  <2>4. pc'[p] = "move"
    BY <1>0, <1>2 DEF TypeOK
  <2> QED
    BY <1>1, <2>1, <2>2, <2>3, <2>4
<1>4. \A q \in Procs \ {p} : SameLocals(q)
  <2>1. \A q \in Procs \ {p} : target'[q] = target[q] /\ gain'[q] = gain[q]
    BY <1>0, <1>2 DEF TypeOK
  <2>2. \A q \in Procs \ {p} : pc'[q] = pc[q] /\ at'[q] = at[q] /\ job'[q] = job[q]
                               /\ taken'[q] = taken[q]
    BY <1>0, <1>2 DEF TypeOK
  <2> QED
    BY <2>1, <2>2 DEF SameLocals
<1>5. ASSUME NEW k \in Lines, target'[p][k] # None
      PROVE  /\ k \in LinesOf(t)
             /\ k \notin slipped'[p] => Fits(p, k, target[p][k])'
  <2>1. CASE k = i
    BY <1>1, <1>2, <1>3, <2>1 DEF Fits
  <2>2. CASE k # i
    <3>1. PICK y : y = target[p][k] /\ y = target'[p][k]
      BY <1>3, <2>2
    <3>2. k \in LinesOf(t) /\ (k \notin slipped[p] => Fits(p, k, y))
      <4>1. target[p][k] # None
        BY <1>5, <3>1
      <4> QED
        BY <1>0, <3>1, <4>1 DEF LinesOk
    <3>3. y \in Rows /\ Present(y)
      <4>1. target[p][k] \in Held(p) /\ target[p][k] # None
        BY <1>0, <1>5, <3>1, HeldRows
      <4>2. y \in Held(p) \ {None}
        BY <3>1, <4>1
      <4> QED
        BY <4>2, HeldSeen DEF Visible
    <3> QED
      BY <1>2, <3>1, <3>2, <3>3 DEF Fits
  <2> QED
    BY <2>1, <2>2
<1>6. ASSUME NEW x \in Rows PROVE gain'[p][x] = Total({k \in Lines : target'[p][k] = x})
  <2>2. PICK S, T : S = {k \in Lines : target[p][k] = x} /\ T = {k \in Lines : target'[p][k] = x}
    OBVIOUS
  <2>1. gain[p][x] = Total(S)
    BY <1>0, <2>2 DEF LinesOk
  <2>3. CASE x # r
    <3>1. T = S
      BY <1>1, <1>3, <2>2, <2>3
    <3>2. Total(T) = Total(S)
      BY <3>1, Zenon
    <3>3. gain'[p][x] = Total(T)
      BY <1>3, <2>1, <2>3, <3>2
    <3> QED
      BY <2>2, <3>3
  <2>4. CASE x = r
    <3>1. T = S \cup {i}
      BY <1>1, <1>3, <2>2, <2>4
    <3>2. IsFiniteSet(S) /\ i \notin S
      BY <1>1, <2>2, <2>4, FS_Subset
    <3>3. SumFunctionOnSet(Count, S \cup {i}) = Count[i] + SumFunctionOnSet(Count, S)
      <4>1. \A y \in S \cup {i} : Count[y] \in Int
        BY <1>1, <2>2
      <4> QED
        BY <3>2, <4>1, SumAdd
    <3>4. PICK a, b, c : a = Total(S) /\ b = Total(T) /\ c = Count[i]
      OBVIOUS
    <3>5. b = c + a
      BY <3>1, <3>3, <3>4, Zenon DEF Total
    <3>6. a \in Nat /\ c \in Nat /\ gain[p][r] = a
      BY <1>0, <1>1, <2>1, <2>4, <3>4 DEF TypeOK
    <3>7. gain'[p][x] = b
      BY <1>3, <2>4, <3>4, <3>5, <3>6
    <3> QED
      BY <2>2, <3>4, <3>7
  <2> QED
    BY <2>3, <2>4
<1>7. LinesOk(p)'
  BY <1>1, <1>2, <1>3, <1>5, <1>6 DEF LinesOk
<1>8. KeepsRows(p)
  BY <1>2, <1>4 DEF KeepsRows
<1> QED
  BY <1>7, <1>8, LinesStep

LEMMA IncrementLines ==
  ASSUME IInv, NEW p \in Procs, Increment(p)
  PROVE  LinesInv'
<1> PICK r : r = at[p].row
  OBVIOUS
<1>1. TypeOK /\ LinesOk(p)
  BY LinesParts
<1>2. r \in Rows /\ (at[p].line \notin slipped[p] => Fits(p, at[p].line, r))
  BY <1>1 DEF Increment, LinesOk, TypeOK
<1> QED
  BY <1>2, PlaceLines DEF Increment, Fits

LEMMA InsertLines ==
  ASSUME IInv, NEW p \in Procs, Insert(p)
  PROVE  LinesInv'
<1> PICK n : n = NewRow(seen[p][at[p].line], Dest[job[p]])
  OBVIOUS
<1>0. TypeOK
  BY LinesParts
<1>1. PICK r \in Rows : /\ ~Present(r) /\ info' = [info EXCEPT ![r] = n]
                        /\ born' = [born EXCEPT ![p] = born[p] \cup {r}]
                        /\ AddTo(p, r) /\ Placed(p, r) /\ pc[p] = "put"
  BY DEF Insert
<1>2. info = [x \in Rows |-> info[x]]
  BY <1>0 DEF TypeOK
<1>3. info'[r] = n /\ \A x \in Rows \ {r} : info'[x] = info[x]
  BY <1>1, <1>2
<1>4. n.place = Dest[job[p]] /\ n.product = seen[p][at[p].line].product
  BY DEF NewRow
<1>5. \A q \in Procs \ {p} : born'[q] = born[q]
  BY <1>0, <1>1 DEF TypeOK
<1>6. \A x \in Rows : Present(x) => info'[x] = info[x]
  BY <1>1, <1>3
<1> QED
  BY <1>1, <1>3, <1>4, <1>5, <1>6, PlaceLines

LEMMA StepInv == IInv /\ [Next]_vars => IInv'
<1> SUFFICES ASSUME IInv, [Next]_vars PROVE LinesInv'
  BY NextInv DEF IInv
<1>1. CASE \/ \E t \in Transfers : Create(t) \/ Approve(t) \/ Reject(t) \/ Cancel(t)
           \/ \E r \in Rows : SetDeleted(r)
           \/ UNCHANGED vars
  BY <1>1, HandlersLines
<1>2. CASE \E e \in Edits : EditItem(e)
  BY <1>2, EditLines
<1>3. ASSUME NEW p \in Procs, (\E t \in Transfers : ReadSend(p, t) \/ LookUp(p, t)) \/ Receive(p)
      PROVE LinesInv'
  BY <1>3, BeginLines
<1>4. ASSUME NEW p \in Procs, NEW l \in Lines, Take(p, l) \/ TakeShort(p, l) \/ Find(p, l)
      PROVE LinesInv'
  <2>1. CASE Take(p, l)
    BY <2>1, TakeLines
  <2>2. CASE TakeShort(p, l)
    BY <2>2, RollbackLines DEF TakeShort
  <2>3. CASE Find(p, l)
    BY <2>3, FindLines
  <2> QED
    BY <1>4, <2>1, <2>2, <2>3
<1>5. ASSUME NEW p \in Procs, \/ WriteSend(p) \/ ReceiveRefused(p) \/ Increment(p) \/ Insert(p)
                              \/ InsertRefused(p) \/ Commit(p) \/ Fail(p)
      PROVE LinesInv'
  <2>1. CASE ReceiveRefused(p) \/ InsertRefused(p) \/ Fail(p)
    <3>1. Rollback(p)
      BY <2>1 DEF ReceiveRefused, InsertRefused, Fail
    <3> QED
      BY <3>1, RollbackLines
  <2>2. CASE Commit(p)
    BY <2>2, RestLines DEF Commit
  <2> QED
    BY <1>5, <2>1, <2>2, WriteSendLines, IncrementLines, InsertLines
<1> QED
  BY <1>1, <1>2, <1>3, <1>4, <1>5 DEF Next

LEMMA StartInv == Init => IInv
<1> SUFFICES ASSUME Init PROVE LinesInv
  BY InitInv DEF IInv
<1>1. \A p \in Procs : LinesOk(p)
  BY DEF Init, LinesOk
<1> QED
  BY <1>1 DEF LinesInv

----------------------------------------------------------------------------
(* The units a receipt moves.                                              *)

\* The lines of some rows, added up row by row.
LEMMA ByRow ==
  ASSUME NEW P, NEW R, NEW B \in SUBSET Lines, NEW g, Partition(P, R, B),
         \A r \in R : g[r] = Total(P[r])
  PROVE  SumFunctionOnSet(g, R) = Total(B)
<1>1. \A r \in R : g[r] = SumFunctionOnSet(Count, P[r])
  BY DEF Total
<1>2. \A l \in B : Count[l] \in Int
  OBVIOUS
<1>3. SumFunctionOnSet(g, R) = SumFunctionOnSet(Count, B)
  BY <1>1, <1>2, SumByParts
<1> QED
  BY <1>3 DEF Total

\* A completed receipt has taken its lines from their items, and put them where
\* it found or made the rows.
LEMMA CommitDelivers ==
  ASSUME IInv, NEW p \in Procs, Commit(p)
  PROVE  Delivered(job[p])
<1> PICK t : t = job[p]
  OBVIOUS
<1>0. TypeOK /\ RowsOk(p) /\ RequestOk(p) /\ LinesOk(p)
  BY LinesParts
<1>1. /\ pc[p] = "move" /\ t \in Transfers /\ status[t] = "SENT" /\ docLock[t] = p
      /\ status'[t] = "COMPLETED" /\ info' = info
      /\ \A l \in LinesOf(t) : target[p][l] # None
      /\ qty' = [r \in Rows |-> qty[r] - TakenOf(p, r) + gain[p][r]]
  BY <1>0 DEF Commit, RequestOk, TypeOK
<1>2. taken[p] = LinesOf(t)
  <2>1. taken[p] \subseteq LinesOf(t)
    BY <1>0, <1>1 DEF RequestOk
  <2>2. ASSUME NEW l \in LinesOf(t) PROVE taken[p] = LinesOf(t)
    BY <1>0, <1>1 DEF LinesOk, LinesOf
  <2> QED
    BY <2>1, <2>2
<1>3. \A l \in Lines : /\ target[p][l] \in Rows \cup {None}
                       /\ target[p][l] # None => l \in LinesOf(t)
                       /\ target[p][l] # None /\ l \notin slipped[p] => Fits(p, l, target[p][l])
  BY <1>0, <1>1 DEF LinesOk, TypeOK
<1>4. ASSUME NEW w \in Warehouses, NEW x \in Products
      PROVE  Units(w, x)' = Units(w, x) - Total({l \in LinesOf(t) : Stocked(Item[l], w, x)})
                                        + Total({l \in LinesOf(t) : Lands(p, l, w, x)})
  <2>1. PICK R, k : R = {r \in Rows : Stocked(r, w, x)} /\ k = [r \in Rows |-> TakenOf(p, r)]
    OBVIOUS
  <2>2. IsFiniteSet(R) /\ R \in SUBSET Rows
    BY <2>1, FS_Subset
  <2>3. PICK g, n, m : g = gain[p] /\ n = qty /\ m = qty'
    OBVIOUS
  <2>4. Units(w, x) = SumFunctionOnSet(n, R) /\ Units(w, x)' = SumFunctionOnSet(m, R)
    <3>1. {r \in Rows : Stocked(r, w, x)}' = R
      BY <1>1, <2>1 DEF Stocked
    <3> QED
      BY <2>1, <2>3, <3>1, Zenon DEF Units
  <2>5. \A r \in R : /\ n[r] \in Int /\ k[r] \in Int /\ g[r] \in Int
                     /\ m[r] = n[r] - k[r] + g[r]
    <3>1. \A r \in Rows : qty[r] \in Int /\ gain[p][r] \in Nat /\ TakenOf(p, r) \in Nat
      BY <1>0, TakenUnits DEF TypeOK
    <3>2. \A r \in Rows : qty'[r] = qty[r] - TakenOf(p, r) + gain[p][r] /\ k[r] = TakenOf(p, r)
      BY <1>1, <2>1
    <3> QED
      BY <2>2, <2>3, <3>1, <3>2
  <2>6. PICK d : d = [r \in R |-> g[r] - k[r]]
    OBVIOUS
  <2>7. \A r \in R : d[r] \in Int /\ m[r] = n[r] + d[r] /\ g[r] = d[r] + k[r]
    <3>1. \A r \in R : d[r] = g[r] - k[r]
      BY <2>6
    <3> QED
      BY <2>5, <3>1
  <2>8. SumFunctionOnSet(m, R) = SumFunctionOnSet(n, R) + SumFunctionOnSet(d, R)
    BY <2>2, <2>5, <2>7, SumPlus
  <2>9. SumFunctionOnSet(g, R) = SumFunctionOnSet(d, R) + SumFunctionOnSet(k, R)
    BY <2>2, <2>5, <2>7, SumPlus
  <2>10. SumFunctionOnSet(k, R) = Total({l \in LinesOf(t) : Stocked(Item[l], w, x)})
    <3>1. PICK S, P, B : /\ S = LinesOf(t) /\ P = [r \in R |-> {l \in S : Item[l] = r}]
                         /\ B = {l \in S : Item[l] \in R}
      OBVIOUS
    <3>2. S \in SUBSET Lines /\ B \in SUBSET Lines
      BY <3>1 DEF LinesOf
    <3>3. Partition(P, R, B)
      <4>1. ASSUME NEW r \in R PROVE IsFiniteSet(P[r])
        <5>1. P[r] \in SUBSET Lines
          BY <3>1, <3>2
        <5> QED
          BY <5>1, FS_Subset
      <4>2. \A r, s \in R : r # s => P[r] \cap P[s] = {}
        BY <3>1
      <4>3. \A l : l \in B <=> \E r \in R : l \in P[r]
        BY <3>1
      <4> QED
        BY <2>2, <4>1, <4>2, <4>3 DEF Partition
    <3>4. ASSUME NEW r \in R PROVE k[r] = Total(P[r])
      <4>1. P[r] = {l \in taken[p] : Item[l] = r}
        BY <1>2, <3>1
      <4>2. k[r] = TakenOf(p, r)
        BY <2>1, <2>2
      <4> QED
        BY <4>1, <4>2, Zenon DEF TakenOf
    <3>5. B = {l \in LinesOf(t) : Stocked(Item[l], w, x)}
      BY <2>1, <3>1 DEF LinesOf
    <3>6. SumFunctionOnSet(k, R) = Total(B)
      BY <3>2, <3>3, <3>4, ByRow
    <3> QED
      BY <3>5, <3>6, Zenon
  <2>11. SumFunctionOnSet(g, R) = Total({l \in LinesOf(t) : Lands(p, l, w, x)})
    <3>1. PICK h, P, B : /\ h = target[p] /\ P = [r \in R |-> {l \in Lines : h[l] = r}]
                         /\ B = {l \in Lines : h[l] \in R}
      OBVIOUS
    <3>2. Partition(P, R, B) /\ B \in SUBSET Lines
      <4>1. ASSUME NEW r \in R PROVE IsFiniteSet(P[r])
        <5>1. P[r] \in SUBSET Lines
          BY <3>1
        <5> QED
          BY <5>1, FS_Subset
      <4>2. \A r, s \in R : r # s => P[r] \cap P[s] = {}
        BY <3>1
      <4>3. \A l : l \in B <=> \E r \in R : l \in P[r]
        BY <3>1
      <4>4. B \in SUBSET Lines
        BY <3>1
      <4> QED
        BY <2>2, <4>1, <4>2, <4>3, <4>4 DEF Partition
    <3>3. ASSUME NEW r \in R PROVE g[r] = Total(P[r])
      <4>1. P[r] = {l \in Lines : target[p][l] = r}
        BY <3>1
      <4>2. gain[p][r] = Total({l \in Lines : target[p][l] = r})
        BY <1>0, <1>1, <2>2 DEF LinesOk
      <4> QED
        BY <2>3, <4>1, <4>2, Zenon
    <3>4. SumFunctionOnSet(g, R) = Total(B)
      BY <3>2, <3>3, ByRow
    <3>5. B = {l \in LinesOf(t) : Lands(p, l, w, x)}
      <4>1. ASSUME NEW l \in B PROVE l \in LinesOf(t) /\ Lands(p, l, w, x)
        <5>1. l \in Lines /\ target[p][l] # None /\ Stocked(target[p][l], w, x)
          BY <2>1, <3>1
        <5> QED
          BY <1>3, <5>1 DEF Lands, Fits, Stocked
      <4>2. ASSUME NEW l \in LinesOf(t), Lands(p, l, w, x) PROVE l \in B
        <5>1. l \in Lines /\ target[p][l] # None
          BY <1>1 DEF LinesOf
        <5>2. target[p][l] \in Rows /\ Stocked(target[p][l], w, x)
          BY <1>3, <4>2, <5>1 DEF Lands, Fits, Stocked
        <5> QED
          BY <2>1, <3>1, <5>1, <5>2
      <4> QED
        BY <4>1, <4>2
    <3> QED
      BY <3>4, <3>5, Zenon
  <2>12. /\ SumFunctionOnSet(n, R) \in Int /\ SumFunctionOnSet(d, R) \in Int
         /\ SumFunctionOnSet(k, R) \in Int /\ SumFunctionOnSet(g, R) \in Int
    BY <2>2, <2>5, <2>7, SumStep
  <2>13. PICK s, l, e : /\ s = SumFunctionOnSet(n, R) /\ s \in Int
                        /\ l = SumFunctionOnSet(k, R) /\ l \in Int
                        /\ e = SumFunctionOnSet(g, R) /\ e \in Int
                        /\ SumFunctionOnSet(m, R) = s + (e - l)
    BY <2>8, <2>9, <2>12
  <2>14. SumFunctionOnSet(m, R) = s - l + e
    BY <2>13
  <2> QED
    BY <2>4, <2>10, <2>11, <2>13, <2>14, Zenon
<1>5. Delivered(t)
  BY <1>1, <1>4 DEF Delivered
<1> QED
  BY <1>5

LEMMA OnlyReceiptsMove ==
  IInv /\ [Next]_vars => (qty' # qty => Corrected \/ \E t \in Transfers : Delivered(t))
<1> SUFFICES ASSUME IInv, [Next]_vars, qty' # qty
             PROVE  Corrected \/ \E t \in Transfers : Delivered(t)
  OBVIOUS
<1>1. (\E e \in Edits : EditItem(e)) \/ \E p \in Procs : Commit(p)
  <2> USE DEF stock
  <2>1. ASSUME NEW t \in Transfers, Create(t) \/ Approve(t) \/ Reject(t) \/ Cancel(t) PROVE FALSE
    BY <2>1 DEF Create, Approve, Reject, Cancel
  <2>2. ASSUME NEW r \in Rows, SetDeleted(r) PROVE FALSE
    BY <2>2 DEF SetDeleted
  <2>3. ASSUME NEW p \in Procs, NEW t \in Transfers, ReadSend(p, t) \/ LookUp(p, t) PROVE FALSE
    BY <2>3 DEF ReadSend, LookUp
  <2>4. ASSUME NEW p \in Procs, NEW l \in Lines, Take(p, l) \/ TakeShort(p, l) \/ Find(p, l)
        PROVE FALSE
    BY <2>4 DEF Take, TakeShort, Find, Rollback
  <2>5. ASSUME NEW p \in Procs,
               \/ WriteSend(p) \/ Receive(p) \/ ReceiveRefused(p)
               \/ Increment(p) \/ Insert(p) \/ InsertRefused(p) \/ Fail(p)
        PROVE FALSE
    BY <2>5 DEF WriteSend, Receive, ReceiveRefused, Increment, Insert, InsertRefused, Fail, Placed, Rollback
  <2>6. ~UNCHANGED vars
    BY DEF vars
  <2> QED
    BY <2>1, <2>2, <2>3, <2>4, <2>5, <2>6 DEF Next
<1>2. ASSUME NEW e \in Edits, EditItem(e) PROVE Corrected
  <2>1. PICK r, n : /\ r = e.row /\ r \in Rows /\ qty' = [qty EXCEPT ![r] = n]
                    /\ \A p \in Procs : r \notin Held(p)
    BY <1>2 DEF EditItem, Unheld
  <2>2. qty \in [Rows -> Int]
    BY LinesParts DEF TypeOK
  <2>3. qty' = [qty EXCEPT ![r] = qty'[r]]
    BY <2>1, <2>2
  <2> QED
    BY <2>1, <2>3 DEF Corrected
<1>3. ASSUME NEW p \in Procs, Commit(p) PROVE \E t \in Transfers : Delivered(t)
  <2>1. job[p] \in Transfers
    BY <1>3, LinesParts DEF Commit, RequestOk
  <2> QED
    BY <1>3, <2>1, CommitDelivers
<1> QED
  BY <1>1, <1>2, <1>3

\* At every statement of every receipt and send in flight the rows, the locks
\* and what the requests hold are consistent, whatever the inventory's edits
\* make of the items meanwhile (confirmReceipt, sendTransfer, update).
THEOREM Safety == Spec => []IInv
<1> QED
  BY StartInv, StepInv, PTL DEF Spec

\* However many receipts take from the same rows, none leaves a row short
\* (takeStock in applyInventoryTransfer).
THEOREM NeverShort == Spec => []NonNegativeStock
<1>1. IInv => NonNegativeStock
  BY DEF IInv, RowsInv
<1> QED
  BY <1>1, Safety, PTL

\* Nothing is shipped or received but on an approval nobody has refused, for
\* all that send writes its status without a lock.
THEOREM OnlyApproved == Spec => []ApprovedBeforeSent
<1>1. IInv => ApprovedBeforeSent
  BY DEF IInv, RowsInv
<1> QED
  BY <1>1, Safety, PTL

\* Units change hands only when a transfer is completed, or one item is
\* corrected; then every line leaves its item, in whatever warehouse an edit has
\* put it, and reaches the destination under the product the look-up read
\* (applyInventoryTransfer).
THEOREM DeliversWhole == Spec => MovesWhole
<1> QED
  BY Safety, OnlyReceiptsMove, PTL DEF Spec, MovesWhole
=============================================================================
