-------------------------- MODULE Documents_proofs --------------------------
(***************************************************************************)
(* Proofs about documents: how tables of them are listed, counted and kept *)
(* in the cache (Views), for every set of rows, scopes, warehouses and     *)
(* page size; and their numbers (Numbering), for every set of documents,   *)
(* ranges and requests.  The two share no state.                           *)
(***************************************************************************)
EXTENDS Numbering, Views, Sums

----------------------------------------------------------------------------
(* Views: what stays the same while the table does.                        *)

LEMMA SameKind ==
  ASSUME kind' = kind
  PROVE  /\ Statuses' = Statuses /\ Tables' = Tables /\ Parts' = Parts /\ Splits' = Splits
         /\ \A ps : Covered(ps)' = Covered(ps)
         /\ \A op : Answers(op)' = Answers(op)
         /\ \A t, S, f : Lists(t, S, f)' = Lists(t, S, f)
         /\ \A t, S, ss : Number(t, S, ss)' = Number(t, S, ss)
<1>1. Statuses' = Statuses
  BY DEF Statuses
<1>2. Parts' = Parts
  BY DEF Parts
<1>3. Tables' = Tables
  BY <1>1 DEF Tables
<1>4. Splits' = Splits
  BY DEF Splits
<1>5. ASSUME NEW ps PROVE Covered(ps)' = Covered(ps)
  BY <1>1 DEF Covered
<1>6. ASSUME NEW op PROVE Answers(op)' = Answers(op)
  BY <1>1, <1>2 DEF Answers
<1>7. ASSUME NEW t, NEW S, NEW f PROVE Lists(t, S, f)' = Lists(t, S, f)
  BY DEF Lists
<1>8. ASSUME NEW t, NEW S, NEW ss PROVE Number(t, S, ss)' = Number(t, S, ss)
  BY DEF Number, CountedFor
<1> QED
  BY <1>1, <1>2, <1>3, <1>4, <1>5, <1>6, <1>7, <1>8

LEMMA SameLists ==
  ASSUME kind' = kind
  PROVE  /\ \A t, r : Expected(t, r)' = Expected(t, r) /\ Overfull(t, r)' = Overfull(t, r)
         /\ \A t, r : Passed(t, r)' = Passed(t, r)
         /\ \A S, a : AddsUp(S, a)' = AddsUp(S, a)
         /\ \A r : CountOk(r)' = CountOk(r)
<1>1. ASSUME NEW t, NEW r
      PROVE  Expected(t, r)' = Expected(t, r) /\ Overfull(t, r)' = Overfull(t, r)
  BY SameKind DEF Expected, Overfull
<1>2. ASSUME NEW t, NEW r PROVE Passed(t, r)' = Passed(t, r)
  BY <1>1 DEF Passed
<1>3. ASSUME NEW S, NEW a PROVE AddsUp(S, a)' = AddsUp(S, a)
  BY SameKind DEF AddsUp
<1>4. ASSUME NEW r PROVE CountOk(r)' = CountOk(r)
  BY SameKind DEF CountOk
<1> QED
  BY <1>1, <1>2, <1>3, <1>4

LEMMA SameOwn ==
  ASSUME kind' = kind, row' = row
  PROVE  /\ \A x, S : Own(x, S)' = Own(x, S)
         /\ \A S, names : OwnNames(S, names)' = OwnNames(S, names)
         /\ \A r : OwnRows(r)' = OwnRows(r)
<1>1. ASSUME NEW x, NEW S PROVE Own(x, S)' = Own(x, S)
  BY DEF Own
<1>2. ASSUME NEW S, NEW names PROVE OwnNames(S, names)' = OwnNames(S, names)
  BY DEF OwnNames
<1>3. ASSUME NEW r PROVE OwnRows(r)' = OwnRows(r)
  BY <1>1 DEF OwnRows
<1> QED
  BY <1>1, <1>2, <1>3

\* Nothing that was a user's own ceases to have been so.
LEMMA OwnStays ==
  ASSUME kind' = kind, \A x \in Rows : row[x].been \subseteq row'[x].been
  PROVE  /\ \A x \in Rows : \A S : Own(x, S) => Own(x, S)'
         /\ \A S, names : OwnNames(S, names) => OwnNames(S, names)'
         /\ \A r : r.shown \subseteq Rows /\ OwnRows(r) => OwnRows(r)'
<1>1. ASSUME NEW x \in Rows, NEW S, Own(x, S) PROVE Own(x, S)'
  BY <1>1 DEF Own
<1>2. ASSUME NEW S, NEW names, OwnNames(S, names) PROVE OwnNames(S, names)'
  BY <1>2 DEF OwnNames
<1>3. ASSUME NEW r, r.shown \subseteq Rows, OwnRows(r) PROVE OwnRows(r)'
  BY <1>1, <1>3 DEF OwnRows
<1> QED
  BY <1>1, <1>2, <1>3

\* What holds of a request once it has been answered.
DoneOk(r) ==
    r.pc = "done" =>
        /\ r.user # All /\ r.op = "categories" /\ r.user # {} => OwnNames(r.user, r.answer)
        /\ r.op = "count" => AddsUp(r.user, r.answer)
        /\ r.op = "list" /\ ~r.shifted /\ ~r.mixed => r.there \subseteq r.shown

\* What the invariant says of one request, of the cache and of the table.
StateOk(r) == ReadingOk(r) /\ CountOk(r) /\ WalkOk(r) /\ OwnRows(r)
AskOk(r) == r \in Askings(r.op) /\ StateOk(r) /\ DoneOk(r)

CacheOk ==
    /\ cache = [k \in Keys |-> cache[k]]
    /\ \A k \in Keys : cache[k] # None => cache[k] \in Entries(k[1])
    /\ Kept /\ EditsShow

TableOk ==
    /\ kind \in ListKinds
    /\ row \in Tables /\ Dated(row)
    /\ \A r \in Rows : row[r].created <= writes /\ row[r].at \in row[r].been
    /\ writes \in 0..MaxWrites /\ owed \cup settled \subseteq 1..writes /\ owed \cap settled = {}

AsksOk == req = [q \in Procs |-> req[q]] /\ \A q \in Procs : AskOk(req[q])

LEMMA InvParts == ViewsInv <=> CacheOk /\ TableOk /\ AsksOk
<1> USE DEF ViewsInv, ViewsTypeOK, CacheOk, TableOk, AsksOk
<1>1. ASSUME ViewsInv, NEW q \in Procs PROVE AskOk(req[q])
  <2>1. ScopedAnswers /\ PartsAddUp /\ WalkShowsAll /\ req[q] \in Askings(req[q].op) /\ StateOk(req[q])
    BY <1>1 DEF StateOk
  <2>2. DoneOk(req[q])
    BY <2>1 DEF DoneOk, ScopedAnswers, PartsAddUp, WalkShowsAll
  <2> QED
    BY <2>1, <2>2 DEF AskOk
<1>2. ASSUME \A q \in Procs : AskOk(req[q]) PROVE ScopedAnswers /\ PartsAddUp /\ WalkShowsAll
  <2>1. \A q \in Procs : DoneOk(req[q]) /\ OwnRows(req[q])
    BY <1>2 DEF AskOk, StateOk
  <2> QED
    BY <2>1 DEF DoneOk, ScopedAnswers, PartsAddUp, WalkShowsAll
<1> QED
  BY <1>1, <1>2 DEF AskOk, StateOk

LEMMA InvPartsNext == ViewsInv' <=> CacheOk' /\ TableOk' /\ AsksOk'
BY InvParts, PTL

----------------------------------------------------------------------------
(* Steps that leave the table alone.                                       *)

LEMMA SameAsk ==
  ASSUME kind' = kind, row' = row, writes' = writes
  PROVE  /\ \A op : Askings(op)' = Askings(op) /\ Entries(op)' = Entries(op)
         /\ \A r : CountOk(r)' = CountOk(r) /\ WalkOk(r)' = WalkOk(r) /\ OwnRows(r)' = OwnRows(r)
         /\ \A r : DoneOk(r)' = DoneOk(r)
<1>1. ASSUME NEW op PROVE Askings(op)' = Askings(op) /\ Entries(op)' = Entries(op)
  BY SameKind DEF Askings, Entries
<1>2. ASSUME NEW r PROVE CountOk(r)' = CountOk(r) /\ OwnRows(r)' = OwnRows(r)
  BY SameLists, SameOwn
<1>3. ASSUME NEW r PROVE WalkOk(r)' = WalkOk(r)
  BY SameLists DEF WalkOk
<1>4. ASSUME NEW r PROVE DoneOk(r)' = DoneOk(r)
  BY SameLists, SameOwn DEF DoneOk
<1> QED
  BY <1>1, <1>2, <1>3, <1>4

LEMMA SameState ==
  ASSUME kind' = kind, row' = row, writes' = writes, settled' = settled
  PROVE  \A r : AskOk(r)' = AskOk(r)
<1>1. ASSUME NEW r PROVE ReadingOk(r)' = ReadingOk(r)
  BY DEF ReadingOk
<1>2. ASSUME NEW r PROVE StateOk(r)' = StateOk(r)
  BY <1>1, SameAsk DEF StateOk
<1>3. ASSUME NEW r PROVE AskOk(r)' = AskOk(r)
  BY <1>2, SameAsk DEF AskOk
<1> QED
  BY <1>3

LEMMA SameTable ==
  ASSUME TableOk, UNCHANGED <<kind, row, writes>>,
         (owed \cup settled)' \subseteq owed \cup settled, owed' \cap settled' = {}
  PROVE  TableOk'
BY SameKind DEF TableOk, Dated

LEMMA SameCache ==
  ASSUME CacheOk, UNCHANGED <<kind, row, writes, cache, settled>>
  PROVE  CacheOk'
BY SameAsk, SameLists, SameOwn DEF CacheOk, Kept, EditsShow

\* A request takes a step, and the cache with it.
LEMMA OneStep ==
  ASSUME ViewsInv, UNCHANGED Untouched, NEW q \in Procs, NEW x, AskOk(x),
         req' = [req EXCEPT ![q] = x], CacheOk'
  PROVE  ViewsInv'
<1>1. CacheOk /\ TableOk /\ req = [p \in Procs |-> req[p]] /\ \A p \in Procs : AskOk(req[p])
  BY InvParts DEF AsksOk
<1>2. TableOk'
  BY <1>1, SameTable DEF Untouched, TableOk
<1>3. ASSUME NEW p \in Procs PROVE req'[p] = IF p = q THEN x ELSE req[p]
  BY <1>1
<1>4. req' = [p \in Procs |-> req'[p]]
  BY <1>1
<1>5. ASSUME NEW p \in Procs PROVE AskOk(req[p])'
  <2>1. PICK y : y = req'[p]
    OBVIOUS
  <2>2. AskOk(y)
    BY <1>1, <1>3, <2>1
  <2>3. AskOk(y)'
    BY <2>2, SameState DEF Untouched
  <2> QED
    BY <2>1, <2>3
<1> QED
  BY <1>2, <1>4, <1>5, InvPartsNext DEF AsksOk

LEMMA BeginKeeps ==
  ASSUME ViewsInv, NEW q \in Procs, NEW x, AskOk(x), Begin(q, x)
  PROVE  ViewsInv'
<1>1. CacheOk
  BY InvParts
<1>2. CacheOk'
  BY <1>1, SameCache DEF Begin, Untouched
<1> QED
  BY <1>2, OneStep DEF Begin

LEMMA CrossedKeeps ==
  ASSUME NEW x, AskOk(x), x.pc = "read", NEW y, y = [x EXCEPT !.crossed = TRUE]
  PROVE  AskOk(y) /\ y.pc = "read" /\ y.crossed
<1>1. x \in Askings(x.op)
  BY DEF AskOk
<1>2. /\ y.op = x.op /\ y.pc = x.pc /\ y.user = x.user /\ y.scope = x.scope /\ y.filter = x.filter
      /\ y.sort = x.sort /\ y.dir = x.dir /\ y.seen = x.seen /\ y.since = x.since /\ y.page = x.page /\ y.there = x.there
      /\ y.shown = x.shown /\ y.shifted = x.shifted /\ y.mixed = x.mixed /\ y.answer = x.answer
      /\ y.crossed /\ y \in Askings(x.op)
  BY <1>1 DEF Askings
<1>3. CountOk(y) /\ OwnRows(y)
  BY <1>2 DEF CountOk, OwnRows, AskOk, StateOk
<1>4. WalkOk(y)
  <2> SUFFICES ASSUME y.op = "list", y.pc = "read", ~y.shifted
               PROVE  /\ ~Tied(row, Expected(row, y), y.sort)
                      /\ \A t \in y.seen :
                            /\ y.there \subseteq Expected(t, y) /\ Expected(t, y) \subseteq Expected(row, y)
                            /\ \A z \in Expected(t, y) : SortKey(t, z, y.sort) = SortKey(row, z, y.sort)
                            /\ ~Overfull(t, y)
                            /\ ~y.mixed => Passed(t, y)
    BY DEF WalkOk
  <2>1. \A u : Expected(u, y) = Expected(u, x)
    BY <1>2 DEF Expected
  <2>2. /\ ~Tied(row, Expected(row, x), x.sort)
        /\ \A t \in x.seen :
              /\ x.there \subseteq Expected(t, x) /\ Expected(t, x) \subseteq Expected(row, x)
              /\ \A z \in Expected(t, x) : SortKey(t, z, x.sort) = SortKey(row, z, x.sort)
              /\ ~Overfull(t, x)
              /\ ~x.mixed => Passed(t, x)
    BY <1>2 DEF WalkOk, AskOk, StateOk
  <2>3. \A t : Overfull(t, x) = Overfull(t, y)
    BY <1>2 DEF Overfull
  <2>4. \A t : Passed(t, x) => Passed(t, y)
    BY <1>2, <2>1 DEF Passed
  <2>5. ~Tied(row, Expected(row, y), y.sort)
    BY <1>2, <2>1, <2>2
  <2>6. ASSUME NEW t \in y.seen
        PROVE  /\ y.there \subseteq Expected(t, y) /\ Expected(t, y) \subseteq Expected(row, y)
               /\ ~Overfull(t, y)
               /\ ~y.mixed => Passed(t, y)
    BY <1>2, <2>1, <2>2, <2>3, <2>4
  <2>7. ASSUME NEW t \in y.seen, NEW z \in Expected(t, y)
        PROVE  SortKey(t, z, y.sort) = SortKey(row, z, y.sort)
    BY <1>2, <2>1, <2>2
  <2> QED
    BY <2>5, <2>6, <2>7
<1>5. ReadingOk(y)
  BY <1>2 DEF ReadingOk, AskOk, StateOk
<1> QED
  BY <1>2, <1>3, <1>4, <1>5 DEF AskOk, StateOk, DoneOk

LEMMA ClearKeeps ==
  ASSUME ViewsInv, NEW n \in owed, Clear(n)
  PROVE  ViewsInv'
<1> USE DEF Clear
<1>1. CacheOk /\ TableOk /\ AsksOk
  BY InvParts
<1>2. TableOk'
  <2>1. (owed \cup settled)' \subseteq owed \cup settled /\ owed' \cap settled' = {}
    BY <1>1 DEF TableOk
  <2> QED
    BY <1>1, <2>1, SameTable
<1>3. CacheOk'
  <2>1. cache' = [k \in Keys |-> None]
    BY <1>1 DEF CacheOk
  <2> QED
    BY <2>1 DEF CacheOk, Kept, EditsShow
<1>4. ASSUME NEW p \in Procs PROVE AskOk(req[p])'
  <2>1. PICK x, y : x = req[p] /\ y = req'[p]
    OBVIOUS
  <2>2. AskOk(x)
    BY <1>1, <2>1 DEF AsksOk
  <2>3. y = IF x.pc = "read" THEN [x EXCEPT !.crossed = TRUE] ELSE x
    BY <2>1
  <2>4. AskOk(y) /\ (y.pc = "read" => y.crossed)
    BY <2>2, <2>3, CrossedKeeps
  <2>5. y \in Askings(y.op)' /\ CountOk(y)' /\ WalkOk(y)' /\ OwnRows(y)' /\ DoneOk(y)'
    BY <2>4, SameAsk DEF AskOk, StateOk
  <2>6. ReadingOk(y)'
    BY <2>4 DEF ReadingOk, AskOk, StateOk
  <2>7. AskOk(y)'
    BY <2>5, <2>6 DEF AskOk, StateOk
  <2> QED
    BY <2>1, <2>7
<1>5. AsksOk'
  BY <1>4 DEF AsksOk
<1> QED
  BY <1>2, <1>3, <1>5, InvPartsNext

LEMMA ForgetKeeps ==
  ASSUME ViewsInv, NEW k \in Keys, Forget(k)
  PROVE  ViewsInv'
<1> USE DEF Forget
<1>1. CacheOk /\ TableOk /\ AsksOk
  BY InvParts
<1>2. TableOk'
  BY <1>1, SameTable DEF TableOk
<1>3. cache' = [j \in Keys |-> IF j = k THEN None ELSE cache[j]]
  BY <1>1 DEF CacheOk
<1>4. CacheOk'
  BY <1>1, <1>3, SameAsk, SameLists, SameOwn DEF CacheOk, Kept, EditsShow
<1>5. AsksOk'
  BY <1>1, SameState DEF AsksOk
<1> QED
  BY <1>2, <1>4, <1>5, InvPartsNext

LEMMA AuditKeeps ==
  ASSUME ViewsInv, NEW n \in owed, AuditFails(n)
  PROVE  ViewsInv'
<1> USE DEF AuditFails
<1>1. CacheOk /\ TableOk /\ AsksOk
  BY InvParts
<1>2. TableOk' /\ CacheOk'
  <2>1. (owed \cup settled)' \subseteq owed \cup settled /\ owed' \cap settled' = {}
    BY <1>1 DEF TableOk
  <2> QED
    BY <1>1, <2>1, SameTable, SameCache
<1>3. AsksOk'
  BY <1>1, SameState DEF AsksOk
<1> QED
  BY <1>2, <1>3, InvPartsNext

----------------------------------------------------------------------------
(* Counters: what the parts of an answer add up to.                        *)

\* Whether a row is counted, as a number.
One(t, S, r, ss) == IF Live(t, r) /\ CountedFor(t, r, S) /\ t[r].status \in ss THEN 1 ELSE 0

\* A cardinality is a sum of ones.
LEMMA CardIsSum ==
  ASSUME NEW U, IsFiniteSet(U), NEW f, \A x \in U : f[x] \in {0, 1}
  PROVE  Cardinality({x \in U : f[x] = 1}) = SumFunctionOnSet(f, U)
<1> DEFINE of(T) == {x \in T : f[x] = 1}
           A == {T \in SUBSET U : Cardinality(of(T)) = SumFunctionOnSet(f, T)}
<1>1. {} \in A
  <2>1. of({}) = {}
    OBVIOUS
  <2> QED
    BY <2>1, SumEmpty, FS_EmptySet
<1>2. ASSUME NEW T \in SUBSET U, NEW x \in U \ T, T \in A PROVE T \cup {x} \in A
  <2>1. IsFiniteSet(T) /\ IsFiniteSet(of(T))
    BY FS_Subset
  <2>2. SumFunctionOnSet(f, T \cup {x}) = f[x] + SumFunctionOnSet(f, T)
    BY <2>1, SumAdd
  <2>3. Cardinality(of(T)) = SumFunctionOnSet(f, T) /\ Cardinality(of(T)) \in Nat
    BY <1>2, <2>1, FS_CardinalityType
  <2>4. ASSUME f[x] = 1 PROVE Cardinality(of(T \cup {x})) = Cardinality(of(T)) + 1
    <3>1. of(T \cup {x}) = of(T) \cup {x} /\ x \notin of(T)
      BY <2>4
    <3> HIDE DEF of
    <3> QED
      BY <2>1, <3>1, FS_AddElement
  <2>5. ASSUME f[x] = 0 PROVE Cardinality(of(T \cup {x})) = Cardinality(of(T))
    <3>1. of(T \cup {x}) = of(T)
      BY <2>5
    <3> QED
      BY <3>1
  <2>6. Cardinality(of(T \cup {x})) = SumFunctionOnSet(f, T \cup {x})
    <3>1. f[x] = 0 \/ f[x] = 1
      OBVIOUS
    <3> HIDE DEF of
    <3> QED
      BY <2>2, <2>3, <2>4, <2>5, <3>1
  <2> QED
    BY <2>6
<1>3. U \in A
  <2> HIDE DEF A
  <2>1. SUBSET U \subseteq A
    BY <1>1, <1>2, SetInduction
  <2> QED
    BY <2>1
<1> QED
  BY <1>3

LEMMA NumberIsSum ==
  ASSUME NEW t, NEW S, NEW ss
  PROVE  /\ Number(t, S, ss) = SumFunctionOnSet([x \in Rows |-> One(t, S, x, ss)], Rows)
         /\ Number(t, S, ss) \in Nat
<1>1. PICK f : f = [x \in Rows |-> One(t, S, x, ss)]
  OBVIOUS
<1>2. IsFiniteSet(Rows)
  BY ViewsAssumption
<1>3. \A x \in Rows : f[x] \in {0, 1}
  BY <1>1 DEF One
<1>4. Cardinality({x \in Rows : f[x] = 1}) = SumFunctionOnSet(f, Rows)
  BY <1>2, <1>3, CardIsSum
<1>5. {x \in Rows : f[x] = 1} = {x \in Rows : Live(t, x) /\ CountedFor(t, x, S) /\ t[x].status \in ss}
  BY <1>1 DEF One
<1>6. Cardinality({x \in Rows : f[x] = 1}) \in Nat
  <2>1. IsFiniteSet({x \in Rows : f[x] = 1})
    BY <1>2, FS_Subset
  <2> QED
    BY <2>1, FS_CardinalityType
<1> QED
  BY <1>1, <1>4, <1>5, <1>6 DEF Number

\* Two tables that differ in one row.
OneRow(t, u, r) == \A x \in Rows \ {r} : u[x] = t[x]

LEMMA NumberMoves ==
  ASSUME NEW t, NEW u, NEW r \in Rows, OneRow(t, u, r), NEW S, NEW ss
  PROVE  Number(u, S, ss) = Number(t, S, ss) + (One(u, S, r, ss) - One(t, S, r, ss))
<1>1. PICK f, g : f = [x \in Rows |-> One(t, S, x, ss)] /\ g = [x \in Rows |-> One(u, S, x, ss)]
  OBVIOUS
<1>2. IsFiniteSet(Rows)
  BY ViewsAssumption
<1>3. \A x \in Rows : f[x] \in Int /\ g[x] \in Int
  BY <1>1 DEF One
<1>4. \A x \in Rows \ {r} : g[x] = f[x]
  BY <1>1 DEF OneRow, One, Live, CountedFor, Within, Between
<1>5. SumFunctionOnSet(g, Rows) = SumFunctionOnSet(f, Rows) + (g[r] - f[r])
  BY <1>2, <1>3, <1>4, SumChange
<1>6. Number(t, S, ss) = SumFunctionOnSet(f, Rows) /\ Number(u, S, ss) = SumFunctionOnSet(g, Rows)
  BY <1>1, NumberIsSum
<1> QED
  BY <1>1, <1>5, <1>6

\* Parts F[p], for p in P, that share no status and together are C.
Split(P, F, C) ==
    /\ IsFiniteSet(P)
    /\ \A p, o \in P : p # o => F[p] \cap F[o] = {}
    /\ \A s : s \in C <=> \E p \in P : s \in F[p]

\* A row is counted in the one part of its status, if any.
LEMMA OnesAddUp ==
  ASSUME NEW P, NEW F, NEW C, Split(P, F, C), NEW t, NEW S, NEW r
  PROVE  SumFunctionOnSet([p \in P |-> One(t, S, r, F[p])], P) = One(t, S, r, C)
<1>1. PICK f : f = [p \in P |-> One(t, S, r, F[p])]
  OBVIOUS
<1>2. IsFiniteSet(P) /\ \A p \in P : f[p] = One(t, S, r, F[p]) /\ f[p] \in {0, 1}
  BY <1>1 DEF Split, One
<1>3. CASE \E p \in P : f[p] = 1
  <2>1. PICK o \in P : f[o] = 1
    BY <1>3
  <2>2. t[r].status \in F[o] /\ Live(t, r) /\ CountedFor(t, r, S)
    BY <1>2, <2>1 DEF One
  <2>3. \A p \in P : p # o => f[p] = 0
    BY <1>2, <2>2 DEF One, Split
  <2>4. \A p \in P : f[p] \in Int /\ (p # o => f[p] = 0)
    BY <1>2, <2>3
  <2>5. SumFunctionOnSet(f, P) = f[o]
    BY <1>2, <2>4, SumSpike
  <2>6. One(t, S, r, C) = 1
    BY <2>2 DEF One, Split
  <2> QED
    BY <1>1, <2>1, <2>5, <2>6
<1>4. CASE \A p \in P : f[p] = 0
  <2>1. SumFunctionOnSet(f, P) = 0
    BY <1>2, <1>4, SumZero
  <2>2. One(t, S, r, C) = 0
    BY <1>2, <1>4 DEF One, Split
  <2> QED
    BY <1>1, <2>1, <2>2
<1> QED
  BY <1>2, <1>3, <1>4

\* Read from one table, the parts add up exactly.
LEMMA NumbersAddUp ==
  ASSUME NEW P, NEW F, NEW C, Split(P, F, C), NEW t, NEW S
  PROVE  SumFunctionOnSet([p \in P |-> Number(t, S, F[p])], P) = Number(t, S, C)
<1>1. PICK f : f = [p \in P |-> [x \in Rows |-> One(t, S, x, F[p])]]
  OBVIOUS
<1>2. IsFiniteSet(P) /\ IsFiniteSet(Rows)
  BY ViewsAssumption DEF Split
<1>3. \A p \in P, x \in Rows : f[p][x] \in Int
  BY <1>1 DEF One
<1>4. SumFunctionOnSet([p \in P |-> SumFunctionOnSet(f[p], Rows)], P)
        = SumFunctionOnSet([x \in Rows |-> SumFunctionOnSet([p \in P |-> f[p][x]], P)], Rows)
  BY <1>2, <1>3, SumSwap
<1>5. [p \in P |-> SumFunctionOnSet(f[p], Rows)] = [p \in P |-> Number(t, S, F[p])]
  <2>1. ASSUME NEW p \in P PROVE SumFunctionOnSet(f[p], Rows) = Number(t, S, F[p])
    BY <1>1, NumberIsSum
  <2> QED
    BY <2>1
<1>6. [x \in Rows |-> SumFunctionOnSet([p \in P |-> f[p][x]], P)] = [x \in Rows |-> One(t, S, x, C)]
  <2>1. ASSUME NEW x \in Rows PROVE SumFunctionOnSet([p \in P |-> f[p][x]], P) = One(t, S, x, C)
    <3>1. [p \in P |-> f[p][x]] = [p \in P |-> One(t, S, x, F[p])]
      BY <1>1
    <3> QED
      BY <3>1, OnesAddUp
  <2> QED
    BY <2>1
<1>7. SumFunctionOnSet([x \in Rows |-> One(t, S, x, C)], Rows) = Number(t, S, C)
  BY NumberIsSum
<1> QED
  BY <1>4, <1>5, <1>6, <1>7

\* Some of the parts hold at most what all of them do.
LEMMA SomeOnes ==
  ASSUME NEW P, NEW F, NEW C, Split(P, F, C), NEW Q, NEW t, NEW S, NEW r, NEW a,
         a = [p \in P |-> IF p \in Q THEN One(t, S, r, F[p]) ELSE 0]
  PROVE  SumFunctionOnSet(a, P) \in Nat /\ SumFunctionOnSet(a, P) <= One(t, S, r, C)
<1>1. PICK f : f = [p \in P |-> One(t, S, r, F[p])]
  OBVIOUS
<1>2. IsFiniteSet(P)
  BY DEF Split
<1>3. \A p \in P : a[p] \in Nat /\ a[p] \in Int /\ f[p] \in Int /\ a[p] <= f[p]
  BY <1>1 DEF One
<1>4. SumFunctionOnSet(a, P) <= SumFunctionOnSet(f, P)
  BY <1>2, <1>3, SumAtMost
<1>5. SumFunctionOnSet(a, P) \in Nat
  BY <1>2, <1>3, SumNat
<1> QED
  BY <1>1, <1>4, <1>5, OnesAddUp

\* The parts may each be read from any table of seen, and compared with any.
Agree(P, F, C, S, seen) ==
    \A see \in [P -> seen], t \in seen :
        Near(SumFunctionOnSet([p \in P |-> Number(see[p], S, F[p])], P),
             Number(t, S, C), Cardinality(seen))

\* One table agrees with itself.
LEMMA AgreeAtFirst ==
  ASSUME NEW P, NEW F, NEW C, Split(P, F, C), NEW S, NEW t
  PROVE  Agree(P, F, C, S, {t})
<1> SUFFICES ASSUME NEW see \in [P -> {t}]
             PROVE  Near(SumFunctionOnSet([p \in P |-> Number(see[p], S, F[p])], P),
                         Number(t, S, C), Cardinality({t}))
  BY DEF Agree
<1>1. [p \in P |-> Number(see[p], S, F[p])] = [p \in P |-> Number(t, S, F[p])]
  OBVIOUS
<1>2. Cardinality({t}) = 1
  BY FS_Singleton
<1>3. Number(t, S, C) \in Nat
  BY NumberIsSum
<1> QED
  BY <1>1, <1>2, <1>3, NumbersAddUp DEF Near

\* Reading some parts from u instead of t moves their sum as the one row does.
LEMMA SumMoves ==
  ASSUME NEW P, NEW F, NEW C, Split(P, F, C), NEW S,
         NEW t, NEW u, NEW r \in Rows, OneRow(t, u, r),
         NEW old, NEW new, \A p \in P : new[p] = old[p] \/ (new[p] = u /\ old[p] = t),
         NEW f, \A p \in P : f[p] = Number(old[p], S, F[p]),
         NEW g, \A p \in P : g[p] = Number(new[p], S, F[p])
  PROVE  \E a, b \in Nat :
            /\ a <= One(u, S, r, C) /\ b <= One(t, S, r, C)
            /\ SumFunctionOnSet(g, P) = SumFunctionOnSet(f, P) + (a - b)
<1>1. PICK Q, x, y, d :
         /\ Q = {p \in P : new[p] # old[p]}
         /\ x = [p \in P |-> IF p \in Q THEN One(u, S, r, F[p]) ELSE 0]
         /\ y = [p \in P |-> IF p \in Q THEN One(t, S, r, F[p]) ELSE 0]
         /\ d = [p \in P |-> x[p] - y[p]]
  OBVIOUS
<1>2. IsFiniteSet(P)
  BY DEF Split
<1>3. PICK a, b : a = SumFunctionOnSet(x, P) /\ b = SumFunctionOnSet(y, P)
  OBVIOUS
<1>4. a \in Nat /\ b \in Nat /\ a <= One(u, S, r, C) /\ b <= One(t, S, r, C)
  <2>1. /\ x = [p \in P |-> IF p \in Q THEN One(u, S, r, F[p]) ELSE 0]
        /\ y = [p \in P |-> IF p \in Q THEN One(t, S, r, F[p]) ELSE 0]
    BY <1>1
  <2>2. SumFunctionOnSet(x, P) \in Nat /\ SumFunctionOnSet(x, P) <= One(u, S, r, C)
    BY <2>1, SomeOnes
  <2>3. SumFunctionOnSet(y, P) \in Nat /\ SumFunctionOnSet(y, P) <= One(t, S, r, C)
    BY <2>1, SomeOnes
  <2> QED
    BY <1>3, <2>2, <2>3
<1>5. \A p \in P : f[p] \in Int /\ g[p] \in Int /\ x[p] \in Int /\ y[p] \in Int /\ d[p] \in Int
  <2> SUFFICES ASSUME NEW p \in P
               PROVE  f[p] \in Int /\ g[p] \in Int /\ x[p] \in Int /\ y[p] \in Int /\ d[p] \in Int
    OBVIOUS
  <2>1. f[p] \in Int /\ g[p] \in Int
    <3>1. Number(old[p], S, F[p]) \in Nat /\ Number(new[p], S, F[p]) \in Nat
      BY NumberIsSum
    <3> QED
      BY <1>1, <3>1
  <2>2. x[p] \in Int /\ y[p] \in Int
    BY <1>1 DEF One
  <2> QED
    BY <1>1, <2>1, <2>2
<1>6. \A p \in P : g[p] = f[p] + d[p]
  <2> SUFFICES ASSUME NEW p \in P PROVE g[p] = f[p] + d[p]
    OBVIOUS
  <2>1. CASE p \in Q
    <3>1. Number(u, S, F[p]) = Number(t, S, F[p]) + (One(u, S, r, F[p]) - One(t, S, r, F[p]))
      BY NumberMoves
    <3> QED
      BY <1>1, <2>1, <3>1
  <2>2. CASE p \notin Q
    BY <1>1, <1>5, <2>2
  <2> QED
    BY <2>1, <2>2
<1>7. SumFunctionOnSet(g, P) = SumFunctionOnSet(f, P) + SumFunctionOnSet(d, P)
  BY <1>2, <1>5, <1>6, SumPlus
<1>8. a = b + SumFunctionOnSet(d, P) /\ SumFunctionOnSet(d, P) \in Int
  <2>1. \A p \in P : y[p] \in Int /\ d[p] \in Int /\ x[p] = y[p] + d[p]
    BY <1>1, <1>5
  <2> QED
    BY <1>2, <1>3, <2>1, SumPlus, SumStep
<1> QED
  BY <1>1, <1>4, <1>7, <1>8

\* A write that changes one row moves what the parts add up to by one at most.
LEMMA AgreeStill ==
  ASSUME NEW P, NEW F, NEW C, Split(P, F, C), NEW S, NEW seen, IsFiniteSet(seen),
         Agree(P, F, C, S, seen), NEW t \in seen, NEW u, NEW r \in Rows, OneRow(t, u, r)
  PROVE  Agree(P, F, C, S, seen \cup {u})
<1>1. CASE u \in seen
  <2>1. seen \cup {u} = seen
    BY <1>1
  <2> QED
    BY <2>1
<1>2. CASE u \notin seen
  <2> SUFFICES ASSUME NEW see \in [P -> seen \cup {u}], NEW v \in seen \cup {u}
               PROVE  Near(SumFunctionOnSet([p \in P |-> Number(see[p], S, F[p])], P),
                           Number(v, S, C), Cardinality(seen \cup {u}))
    BY DEF Agree
  <2>1. Cardinality(seen \cup {u}) = Cardinality(seen) + 1 /\ Cardinality(seen) \in Nat
    BY <1>2, FS_AddElement, FS_CardinalityType
  <2>2. PICK Q, old : Q = {p \in P : see[p] = u} /\ old = [p \in P |-> IF p \in Q THEN t ELSE see[p]]
    OBVIOUS
  <2>3. old \in [P -> seen]
    BY <2>2
  <2>4. \A p \in P : see[p] = old[p] \/ (see[p] = u /\ old[p] = t)
    BY <2>2
  <2>0. PICK f, g : /\ f = [p \in P |-> Number(old[p], S, F[p])]
                    /\ g = [p \in P |-> Number(see[p], S, F[p])]
    OBVIOUS
  <2>5. PICK m, n : m = SumFunctionOnSet(f, P) /\ n = SumFunctionOnSet(g, P)
    OBVIOUS
  <2>6. PICK a \in Nat, b \in Nat : a <= One(u, S, r, C) /\ b <= One(t, S, r, C) /\ n = m + (a - b)
    <3>1. Split(P, F, C) /\ OneRow(t, u, r) /\ r \in Rows
      OBVIOUS
    <3>2. \A p \in P : f[p] = Number(old[p], S, F[p]) /\ g[p] = Number(see[p], S, F[p])
      BY <2>0
    <3>3. \E a, b \in Nat :
             /\ a <= One(u, S, r, C) /\ b <= One(t, S, r, C)
             /\ SumFunctionOnSet(g, P) = SumFunctionOnSet(f, P) + (a - b)
      BY ONLY <2>4, <3>1, <3>2, SumMoves
    <3> QED
      BY <2>5, <3>3
  <2>7. m \in Int
    <3>2. ASSUME NEW p \in P PROVE f[p] \in Int
      <4>1. Number(old[p], S, F[p]) \in Nat
        BY NumberIsSum
      <4> QED
        BY <2>0, <4>1
    <3>3. IsFiniteSet(P)
      BY DEF Split
    <3> QED
      BY <2>5, <3>2, <3>3, SumStep
  <2>8. One(u, S, r, C) \in {0, 1} /\ One(t, S, r, C) \in {0, 1}
    BY DEF One
  <2>9. CASE v = u
    <3>1. Number(u, S, C) = Number(t, S, C) + (One(u, S, r, C) - One(t, S, r, C))
      BY NumberMoves
    <3>2. Near(m, Number(t, S, C), Cardinality(seen)) /\ Number(t, S, C) \in Nat
      BY <2>0, <2>3, <2>5, NumberIsSum DEF Agree
    <3> QED
      BY <2>0, <2>1, <2>5, <2>6, <2>7, <2>8, <2>9, <3>1, <3>2 DEF Near
  <2>10. CASE v \in seen
    <3>1. Near(m, Number(v, S, C), Cardinality(seen)) /\ Number(v, S, C) \in Nat
      BY <2>0, <2>3, <2>5, <2>10, NumberIsSum DEF Agree
    <3> QED
      BY <2>0, <2>1, <2>5, <2>6, <2>7, <2>8, <3>1 DEF Near
  <2> QED
    BY <2>9, <2>10
<1> QED
  BY <1>1, <1>2

\* A handful of things is a finite set.
LEMMA AFew == ASSUME NEW a, NEW b, NEW c, NEW d, NEW e, NEW f, NEW g
              PROVE  IsFiniteSet({a, b, c, d, e, f, g})
<1>1. /\ IsFiniteSet({a}) /\ IsFiniteSet({b}) /\ IsFiniteSet({c}) /\ IsFiniteSet({d})
      /\ IsFiniteSet({e}) /\ IsFiniteSet({f}) /\ IsFiniteSet({g})
  BY FS_Singleton
<1>2. IsFiniteSet({a} \cup {b}) /\ IsFiniteSet({c} \cup {d}) /\ IsFiniteSet({e} \cup {f})
  BY <1>1, FS_Union
<1>3. IsFiniteSet(({a} \cup {b}) \cup ({c} \cup {d})) /\ IsFiniteSet(({e} \cup {f}) \cup {g})
  BY <1>1, <1>2, FS_Union
<1>4. IsFiniteSet((({a} \cup {b}) \cup ({c} \cup {d})) \cup (({e} \cup {f}) \cup {g}))
  BY <1>3, FS_Union
<1>5. (({a} \cup {b}) \cup ({c} \cup {d})) \cup (({e} \cup {f}) \cup {g}) = {a, b, c, d, e, f, g}
  OBVIOUS
<1> QED
  BY <1>4, <1>5

LEMMA StatusesAreFew == IsFiniteSet(Statuses)
<1>1. IsFiniteSet(SaleStatuses)
  <2>1. SaleStatuses = {"DRAFT", "ACTIVE", "CANCELLED", "DRAFT",
                     "DRAFT", "DRAFT", "DRAFT"}
    BY DEF SaleStatuses
  <2> QED
    BY <2>1, AFew
<1>2. IsFiniteSet(StockedStatuses)
  <2>1. StockedStatuses = {"ACTIVE", "CANCELLED", "ACTIVE", "ACTIVE",
                        "ACTIVE", "ACTIVE", "ACTIVE"}
    BY DEF StockedStatuses
  <2> QED
    BY <2>1, AFew
<1>3. IsFiniteSet(LoanStatuses)
  <2>1. LoanStatuses = {"PENDING", "SENT", "RECEIVED", "RETURN_PENDING",
                     "RETURNED", "OVERDUE", "CANCELLED"}
    BY DEF LoanStatuses
  <2> QED
    BY <2>1, AFew
<1>4. IsFiniteSet(TransferStatuses)
  <2>1. TransferStatuses = {"PENDING", "APPROVED", "SENT", "COMPLETED",
                         "REJECTED", "CANCELLED", "PENDING"}
    BY DEF TransferStatuses
  <2> QED
    BY <2>1, AFew
<1>5. IsFiniteSet(DischargeStatuses)
  <2>1. DischargeStatuses = {"PENDING", "COMPLETED", "REJECTED", "PENDING",
                          "PENDING", "PENDING", "PENDING"}
    BY DEF DischargeStatuses
  <2> QED
    BY <2>1, AFew
<1>6. IsFiniteSet(TakeStatuses)
  <2>1. TakeStatuses = {"IN_PROGRESS", "COMPLETED", "CANCELLED", "IN_PROGRESS",
                     "IN_PROGRESS", "IN_PROGRESS", "IN_PROGRESS"}
    BY DEF TakeStatuses
  <2> QED
    BY <2>1, AFew
<1>7. IsFiniteSet(ItemStatuses)
  <2>1. ItemStatuses = {"IN_STOCK", "LOW_STOCK", "OUT_OF_STOCK", "IN_USE",
                     "IN_STOCK", "IN_STOCK", "IN_STOCK"}
    BY DEF ItemStatuses
  <2> QED
    BY <2>1, AFew
<1>8. IsFiniteSet(AlertStatuses)
  <2>1. AlertStatuses = {"LOW_STOCK", "OUT_OF_STOCK", "EXPIRING_SOON", "LOW_STOCK, notified",
                      "OUT_OF_STOCK, notified", "EXPIRING_SOON, notified", "RESOLVED"}
    BY DEF AlertStatuses, Silent, Notified
  <2> QED
    BY <2>1, AFew
<1>9. IsFiniteSet({None})
  BY FS_Singleton
<1> QED
  BY <1>1, <1>2, <1>3, <1>4, <1>5, <1>6, <1>7, <1>8, <1>9 DEF Statuses

\* The parts compared with what they cover share no status.
LEMMA SplitsAre ==
  ASSUME kind \in Counted \cup {"item"}, NEW P \in Splits
  PROVE  Split(P, Parts, Covered(P)) /\ P \subseteq DOMAIN Parts /\ Covered(P) \subseteq Statuses
<1> DEFINE Good == /\ IsFiniteSet(P)
                   /\ \A p, o \in P : p # o => Parts[p] \cap Parts[o] = {}
                   /\ \A s : s \in Covered(P) <=> \E p \in P : s \in Parts[p]
                   /\ P \subseteq DOMAIN Parts /\ Covered(P) \subseteq Statuses
<1> SUFFICES Good
  BY DEF Split
<1>1. CASE kind = "item"
  <2>1. Parts = InventoryParts /\ Statuses = ItemStatuses
    BY <1>1 DEF Parts, Statuses
  <2>2. \E a, b, c, d, e, f, g : P \subseteq {a, b, c, d, e, f, g}
    BY <1>1 DEF Splits, InventoryParts
  <2>3. IsFiniteSet(P)
    <3>1. PICK a, b, c, d, e, f, g : P \subseteq {a, b, c, d, e, f, g}
      BY <2>2
    <3> QED
      BY <3>1, AFew, FS_Subset
  <2>4. P \subseteq DOMAIN Parts /\ Covered(P) \subseteq Statuses
    BY <1>1, <2>1 DEF Splits, Covered, InventoryParts, ItemStatuses
  <2>5. \A p, o \in P : p # o => Parts[p] \cap Parts[o] = {}
    BY <1>1, <2>1 DEF Splits, InventoryParts, ItemStatuses
  <2>6. \A s : s \in Covered(P) <=> \E p \in P : s \in Parts[p]
    BY <1>1, <2>1 DEF Splits, Covered, InventoryParts, ItemStatuses
  <2> QED
    BY <2>3, <2>4, <2>5, <2>6
<1>2. CASE kind = "sale"
  <2>1. Parts = SaleParts /\ Statuses = SaleStatuses
    BY <1>2 DEF Parts, Statuses
  <2>2. \E a, b, c, d, e, f, g : P \subseteq {a, b, c, d, e, f, g}
    BY <1>2 DEF Splits, SaleParts
  <2>3. IsFiniteSet(P)
    <3>1. PICK a, b, c, d, e, f, g : P \subseteq {a, b, c, d, e, f, g}
      BY <2>2
    <3> QED
      BY <3>1, AFew, FS_Subset
  <2>4. P \subseteq DOMAIN Parts /\ Covered(P) \subseteq Statuses
    BY <1>2, <2>1 DEF Splits, Covered, SaleParts, SaleStatuses
  <2>5. \A p, o \in P : p # o => Parts[p] \cap Parts[o] = {}
    BY <1>2, <2>1 DEF Splits, SaleParts, SaleStatuses
  <2>6. \A s : s \in Covered(P) <=> \E p \in P : s \in Parts[p]
    BY <1>2, <2>1 DEF Splits, Covered, SaleParts, SaleStatuses
  <2> QED
    BY <2>3, <2>4, <2>5, <2>6
<1>3. CASE kind = "outflow"
  <2>1. Parts = OutflowParts /\ Statuses = StockedStatuses
    BY <1>3 DEF Parts, Statuses
  <2>2. \E a, b, c, d, e, f, g : P \subseteq {a, b, c, d, e, f, g}
    BY <1>3 DEF Splits, OutflowParts
  <2>3. IsFiniteSet(P)
    <3>1. PICK a, b, c, d, e, f, g : P \subseteq {a, b, c, d, e, f, g}
      BY <2>2
    <3> QED
      BY <3>1, AFew, FS_Subset
  <2>4. P \subseteq DOMAIN Parts /\ Covered(P) \subseteq Statuses
    BY <1>3, <2>1 DEF Splits, Covered, OutflowParts, StockedStatuses
  <2>5. \A p, o \in P : p # o => Parts[p] \cap Parts[o] = {}
    BY <1>3, <2>1 DEF Splits, OutflowParts, StockedStatuses
  <2>6. \A s : s \in Covered(P) <=> \E p \in P : s \in Parts[p]
    BY <1>3, <2>1 DEF Splits, Covered, OutflowParts, StockedStatuses
  <2> QED
    BY <2>3, <2>4, <2>5, <2>6
<1>4. CASE kind = "purchase"
  <2>1. Parts = PurchaseParts /\ Statuses = StockedStatuses
    BY <1>4 DEF Parts, Statuses
  <2>2. \E a, b, c, d, e, f, g : P \subseteq {a, b, c, d, e, f, g}
    BY <1>4 DEF Splits, PurchaseParts
  <2>3. IsFiniteSet(P)
    <3>1. PICK a, b, c, d, e, f, g : P \subseteq {a, b, c, d, e, f, g}
      BY <2>2
    <3> QED
      BY <3>1, AFew, FS_Subset
  <2>4. P \subseteq DOMAIN Parts /\ Covered(P) \subseteq Statuses
    BY <1>4, <2>1 DEF Splits, Covered, PurchaseParts, StockedStatuses
  <2>5. \A p, o \in P : p # o => Parts[p] \cap Parts[o] = {}
    BY <1>4, <2>1 DEF Splits, PurchaseParts, StockedStatuses
  <2>6. \A s : s \in Covered(P) <=> \E p \in P : s \in Parts[p]
    BY <1>4, <2>1 DEF Splits, Covered, PurchaseParts, StockedStatuses
  <2> QED
    BY <2>3, <2>4, <2>5, <2>6
<1>5. CASE kind = "payment"
  <2>1. Parts = PaymentParts /\ Statuses = StockedStatuses
    BY <1>5 DEF Parts, Statuses
  <2>2. \E a, b, c, d, e, f, g : P \subseteq {a, b, c, d, e, f, g}
    BY <1>5 DEF Splits, PaymentParts
  <2>3. IsFiniteSet(P)
    <3>1. PICK a, b, c, d, e, f, g : P \subseteq {a, b, c, d, e, f, g}
      BY <2>2
    <3> QED
      BY <3>1, AFew, FS_Subset
  <2>4. P \subseteq DOMAIN Parts /\ Covered(P) \subseteq Statuses
    BY <1>5, <2>1 DEF Splits, Covered, PaymentParts, StockedStatuses
  <2>5. \A p, o \in P : p # o => Parts[p] \cap Parts[o] = {}
    BY <1>5, <2>1 DEF Splits, PaymentParts, StockedStatuses
  <2>6. \A s : s \in Covered(P) <=> \E p \in P : s \in Parts[p]
    BY <1>5, <2>1 DEF Splits, Covered, PaymentParts, StockedStatuses
  <2> QED
    BY <2>3, <2>4, <2>5, <2>6
<1>6. CASE kind = "loan"
  <2>1. Parts = LoanParts /\ Statuses = LoanStatuses
    BY <1>6 DEF Parts, Statuses
  <2>2. P \subseteq {"totalPending", "totalSent", "totalReceived", "totalReturnPending", "totalReturned", 
                       "totalOverdue", "totalOverdue"}
    BY <1>6 DEF Splits, LoanParts
  <2>3. IsFiniteSet(P)
    BY <2>2, AFew, FS_Subset
  <2>4. P \subseteq DOMAIN Parts /\ Covered(P) \subseteq Statuses
    BY <1>6, <2>1 DEF Splits, Covered, LoanParts, LoanStatuses
  <2>5. \A p, o \in P : p # o => Parts[p] \cap Parts[o] = {}
    BY <1>6, <2>1 DEF Splits, LoanParts, LoanStatuses
  <2>6. \A s : s \in Covered(P) <=> \E p \in P : s \in Parts[p]
    BY <1>6, <2>1 DEF Splits, Covered, LoanParts, LoanStatuses
  <2> QED
    BY <2>3, <2>4, <2>5, <2>6
<1>7. CASE kind = "transfer"
  <2>1. Parts = TransferParts /\ Statuses = TransferStatuses
    BY <1>7 DEF Parts, Statuses
  <2>2. P \subseteq {"total", "pending", "approved", "sent", "completed", "rejected", "cancelled"}
    BY <1>7 DEF Splits, TransferParts
  <2>3. IsFiniteSet(P)
    BY <2>2, AFew, FS_Subset
  <2>4. P \subseteq DOMAIN Parts /\ Covered(P) \subseteq Statuses
    BY <1>7, <2>1 DEF Splits, Covered, TransferParts, TransferStatuses
  <2>5. \A p, o \in P : p # o => Parts[p] \cap Parts[o] = {}
    BY <1>7, <2>1 DEF Splits, TransferParts, TransferStatuses
  <2>6. \A s : s \in Covered(P) <=> \E p \in P : s \in Parts[p]
    BY <1>7, <2>1 DEF Splits, Covered, TransferParts, TransferStatuses
  <2> QED
    BY <2>3, <2>4, <2>5, <2>6
<1>8. CASE kind = "discharge"
  <2>1. Parts = DischargeParts /\ Statuses = DischargeStatuses
    BY <1>8 DEF Parts, Statuses
  <2>2. \E a, b, c, d, e, f, g : P \subseteq {a, b, c, d, e, f, g}
    BY <1>8 DEF Splits, DischargeParts
  <2>3. IsFiniteSet(P)
    <3>1. PICK a, b, c, d, e, f, g : P \subseteq {a, b, c, d, e, f, g}
      BY <2>2
    <3> QED
      BY <3>1, AFew, FS_Subset
  <2>4. P \subseteq DOMAIN Parts /\ Covered(P) \subseteq Statuses
    BY <1>8, <2>1 DEF Splits, Covered, DischargeParts, DischargeStatuses
  <2>5. \A p, o \in P : p # o => Parts[p] \cap Parts[o] = {}
    BY <1>8, <2>1 DEF Splits, DischargeParts, DischargeStatuses
  <2>6. \A s : s \in Covered(P) <=> \E p \in P : s \in Parts[p]
    BY <1>8, <2>1 DEF Splits, Covered, DischargeParts, DischargeStatuses
  <2> QED
    BY <2>3, <2>4, <2>5, <2>6
<1>9. CASE kind = "take"
  <2>1. Parts = TakeParts /\ Statuses = TakeStatuses
    BY <1>9 DEF Parts, Statuses
  <2>2. \E a, b, c, d, e, f, g : P \subseteq {a, b, c, d, e, f, g}
    BY <1>9 DEF Splits, TakeParts
  <2>3. IsFiniteSet(P)
    <3>1. PICK a, b, c, d, e, f, g : P \subseteq {a, b, c, d, e, f, g}
      BY <2>2
    <3> QED
      BY <3>1, AFew, FS_Subset
  <2>4. P \subseteq DOMAIN Parts /\ Covered(P) \subseteq Statuses
    BY <1>9, <2>1 DEF Splits, Covered, TakeParts, TakeStatuses
  <2>5. \A p, o \in P : p # o => Parts[p] \cap Parts[o] = {}
    BY <1>9, <2>1 DEF Splits, TakeParts, TakeStatuses
  <2>6. \A s : s \in Covered(P) <=> \E p \in P : s \in Parts[p]
    BY <1>9, <2>1 DEF Splits, Covered, TakeParts, TakeStatuses
  <2> QED
    BY <2>3, <2>4, <2>5, <2>6
<1>10. CASE kind = "alert"
  <2>1. Parts = AlertParts /\ Statuses = AlertStatuses
    BY <1>10 DEF Parts, Statuses
  <2>2. \E a, b, c, d, e, f, g : P \subseteq {a, b, c, d, e, f, g}
    BY <1>10 DEF Splits, AlertParts
  <2>3. IsFiniteSet(P)
    <3>1. PICK a, b, c, d, e, f, g : P \subseteq {a, b, c, d, e, f, g}
      BY <2>2
    <3> QED
      BY <3>1, AFew, FS_Subset
  <2>4. P \subseteq DOMAIN Parts /\ Covered(P) \subseteq Statuses
    BY <1>10, <2>1 DEF Splits, Covered, AlertParts, AlertStatuses, Silent, Notified
  <2>5. \A p, o \in P : p # o => Parts[p] \cap Parts[o] = {}
    <3>1. /\ Parts["lowStock"] = {"LOW_STOCK", "LOW_STOCK, notified"}
          /\ Parts["outOfStock"] = {"OUT_OF_STOCK", "OUT_OF_STOCK, notified"}
          /\ Parts["expiringItems"] = {"EXPIRING_SOON", "EXPIRING_SOON, notified"}
      BY <2>1 DEF AlertParts
    <3>2. \A p, o \in {"lowStock", "outOfStock", "expiringItems"} : p # o => Parts[p] \cap Parts[o] = {}
      BY <3>1
    <3>3. P \in {{"total"}, {"active"}, {"lowStock", "outOfStock", "expiringItems"}}
      BY <1>10 DEF Splits
    <3> QED
      BY ONLY <3>2, <3>3
  <2>6. \A s : s \in Covered(P) <=> \E p \in P : s \in Parts[p]
    <3>1. P = {"total"} \/ P = {"active"} \/ P = {"lowStock", "outOfStock", "expiringItems"}
      BY <1>10 DEF Splits
    <3>2. CASE P = {"total"}
      <4>1. Covered(P) = AlertStatuses /\ Parts["total"] = AlertStatuses
        BY <1>10, <2>1, <3>2 DEF Covered, AlertParts
      <4> QED
        BY <3>2, <4>1
    <3>3. CASE P = {"active"}
      <4>1. Covered(P) = Silent \cup Notified /\ Parts["active"] = Silent \cup Notified
        BY <1>10, <2>1, <3>3 DEF Covered, AlertParts
      <4> QED
        BY <3>3, <4>1
    <3>4. CASE P = {"lowStock", "outOfStock", "expiringItems"}
      <4>1. P # {"total"}
        BY <3>4
      <4>2. Covered(P) = Silent \cup Notified
        BY <1>10, <4>1 DEF Covered
      <4>3. /\ Parts["lowStock"] = {"LOW_STOCK", "LOW_STOCK, notified"}
            /\ Parts["outOfStock"] = {"OUT_OF_STOCK", "OUT_OF_STOCK, notified"}
            /\ Parts["expiringItems"] = {"EXPIRING_SOON", "EXPIRING_SOON, notified"}
        BY <2>1 DEF AlertParts
      <4>4. \A s : s \in Silent \cup Notified <=>
                      \/ s \in Parts["lowStock"]
                      \/ s \in Parts["outOfStock"]
                      \/ s \in Parts["expiringItems"]
        BY <4>3 DEF Silent, Notified
      <4> QED
        BY <3>4, <4>2, <4>4
    <3> QED
      BY <3>1, <3>2, <3>3, <3>4
  <2> QED
    BY <2>3, <2>4, <2>5, <2>6
<1> QED
  BY <1>1, <1>2, <1>3, <1>4, <1>5, <1>6, <1>7, <1>8, <1>9, <1>10 DEF Counted

\* What the invariant says of a reading of counters.
LEMMA CountsAgree ==
  ASSUME NEW r
  PROVE  CountOk(r) <=> (r.op = "count" /\ r.pc = "read" =>
             \A P \in Splits : Agree(P, Parts, Covered(P), r.scope, r.seen))
BY DEF CountOk, Agree

\* An answer adds up when what its parts were read from agrees.
LEMMA CountAddsUp ==
  ASSUME kind \in Counted \cup {"item"}, NEW S, NEW seen, NEW t \in seen,
         NEW see \in [DOMAIN Parts -> seen],
         \A P \in Splits : Agree(P, Parts, Covered(P), S, seen),
         NEW a, a = [got |-> [p \in DOMAIN Parts |-> Number(see[p], Reach(S, p), Parts[p])],
                     moments |-> Cardinality(seen),
                     due |-> [s \in Statuses |-> Number(t, S, {s})]]
  PROVE  AddsUp(S, a)
<1> SUFFICES ASSUME NEW P \in Splits, ~(S = {} /\ P = {"totalValue"})
             PROVE  Near(SumFunctionOnSet(a.got, P), SumFunctionOnSet(a.due, Covered(P)), a.moments)
  BY DEF AddsUp
<1>1. PICK C : C = Covered(P)
  OBVIOUS
<1>2. Split(P, Parts, C) /\ P \subseteq DOMAIN Parts /\ C \subseteq Statuses
  BY <1>1, SplitsAre
<1>3. PICK f, g, d, e, part :
         /\ f = [p \in P |-> Number(see[p], S, Parts[p])] /\ g = a.got
         /\ d = [s \in C |-> Number(t, S, {s})] /\ e = a.due
         /\ part = [p \in P |-> see[p]]
  OBVIOUS
<1>4. IsFiniteSet(P) /\ IsFiniteSet(C)
  BY <1>2, StatusesAreFew, FS_Subset DEF Split
<1>5. ASSUME NEW p \in P PROVE f[p] \in Int /\ f[p] = g[p]
  <2>1. Reach(S, p) = S
    <3>1. p = "totalValue" => P = {"totalValue"}
      BY DEF Splits, LoanParts, TransferParts, DischargeParts, TakeParts, Counted
    <3> QED
      BY <3>1 DEF Reach
  <2>2. g[p] = Number(see[p], S, Parts[p])
    BY <1>2, <1>3, <2>1
  <2>3. Number(see[p], S, Parts[p]) \in Nat
    BY NumberIsSum
  <2> QED
    BY <1>3, <2>2, <2>3
<1>6. SumFunctionOnSet(f, P) = SumFunctionOnSet(g, P)
  BY <1>4, <1>5, SumSame
<1>7. ASSUME NEW s \in C PROVE d[s] \in Int /\ d[s] = e[s]
  <2>1. Number(t, S, {s}) \in Nat
    BY NumberIsSum
  <2> QED
    BY <1>2, <1>3, <2>1
<1>8. SumFunctionOnSet(d, C) = SumFunctionOnSet(e, C)
  BY <1>4, <1>7, SumSame
<1>9. SumFunctionOnSet(d, C) = Number(t, S, C)
  <2>1. PICK F : F = [s \in C |-> {s}]
    OBVIOUS
  <2>2. Split(C, F, C)
    BY <1>4, <2>1 DEF Split
  <2>3. SumFunctionOnSet([s \in C |-> Number(t, S, F[s])], C) = Number(t, S, C)
    BY <2>2, NumbersAddUp
  <2>4. [s \in C |-> Number(t, S, F[s])] = d
    BY <1>3, <2>1
  <2> QED
    BY <2>3, <2>4
<1>10. Near(SumFunctionOnSet(f, P), Number(t, S, C), Cardinality(seen))
  <2>1. Agree(P, Parts, C, S, seen)
    BY <1>1
  <2>2. part \in [P -> seen]
    BY <1>2, <1>3
  <2>3. f = [p \in P |-> Number(part[p], S, Parts[p])]
    BY <1>3
  <2>4. Near(SumFunctionOnSet([p \in P |-> Number(part[p], S, Parts[p])], P), Number(t, S, C), Cardinality(seen))
    BY <2>1, <2>2 DEF Agree
  <2> QED
    BY <2>3, <2>4
<1>11. a.moments = Cardinality(seen)
  OBVIOUS
<1> QED
  BY <1>1, <1>3, <1>6, <1>8, <1>9, <1>10, <1>11

----------------------------------------------------------------------------
(* Lists: what they are made of, and where a row stands in them.           *)

LEMMA ListedLive ==
  ASSUME kind \in ListKinds, NEW t, NEW S, NEW f
  PROVE  \A x \in Lists(t, S, f) : x \in Rows /\ Live(t, x)
BY DEF Lists, ListKinds, Counted, InventoryList, SalesList, OutflowsList, PurchasesList, PaymentsList,
       DischargesList, LoansList, TransfersList, TransactionsList, WarehousesList, TakesList,
       AlertsList, UsersList, RecordsList

LEMMA ListedOwn ==
  ASSUME NEW t, NEW S, S # All, NEW f, kind \in Narrowed["list"],
         \A x \in Rows : t[x].at \in row[x].been
  PROVE  \A x \in Lists(t, S, f) : Own(x, S)
<1>1. ASSUME NEW x \in Rows, Within(t, x, S) PROVE Own(x, S)
  BY <1>1 DEF Own, Within
<1>2. ASSUME NEW x \in Rows, Between(t, x, S), kind \in {"loan", "transfer", "transaction"} PROVE Own(x, S)
  BY <1>2 DEF Own, Between
<1> QED
  BY <1>1, <1>2 DEF Lists, Narrowed, SalesList, OutflowsList, PurchasesList, PaymentsList,
       DischargesList, LoansList, TransfersList, TransactionsList, WarehousesList

LEMMA OwnInside ==
  ASSUME NEW S, NEW V, V # All, S # All, S \subseteq V, NEW x, Own(x, S)
  PROVE  Own(x, V)
BY DEF Own

\* A list of documents that are owing holds those of the ACTIVE ones that are.
LEMMA OwingListed ==
  ASSUME kind \in {"sale", "purchase"}, NEW t \in Tables, NEW S
  PROVE  Lists(t, S, "owing") = {x \in Lists(t, S, "ACTIVE") : t[x].owing}
<1>1. \A x \in Rows : t[x].status \in Statuses
  BY DEF Tables
<1>2. \A x \in Rows : t[x].status # "owing"
  BY <1>1 DEF Statuses, SaleStatuses, StockedStatuses
<1>3. CASE kind = "sale"
  BY <1>2, <1>3, ViewsAssumption DEF Lists, SalesList, Owing, Fits
<1>4. CASE kind = "purchase"
  BY <1>2, <1>4, ViewsAssumption DEF Lists, PurchasesList, Owing, Fits
<1> QED
  BY <1>3, <1>4

LEMMA PlaceIn ==
  ASSUME NEW t, NEW E, E \subseteq Rows, NEW x \in E, NEW sort, NEW dir
  PROVE  Place(t, E, x, sort, dir) \in Nat \ {0} /\ Place(t, E, x, sort, dir) <= Cardinality(E)
<1>1. PICK T : T = {y \in E : y = x \/ Before(t, y, x, sort, dir)}
  OBVIOUS
<1>2. IsFiniteSet(E)
  BY ViewsAssumption, FS_Subset
<1>3. T \subseteq E /\ {x} \subseteq T
  BY <1>1
<1>4. IsFiniteSet(T) /\ Cardinality(T) \in Nat /\ Cardinality(T) <= Cardinality(E)
  BY <1>2, <1>3, FS_Subset, FS_CardinalityType
<1>5. Cardinality({x}) = 1 /\ Cardinality({x}) <= Cardinality(T)
  BY <1>3, <1>4, FS_Subset, FS_Singleton
<1> QED
  BY <1>1, <1>4, <1>5 DEF Place

\* Rows that come in push the others back.
LEMMA PlaceGrows ==
  ASSUME NEW t, NEW u, NEW E, NEW G, E \subseteq G, G \subseteq Rows, NEW sort,
         \A y \in E : SortKey(t, y, sort) = SortKey(u, y, sort), NEW x \in E, NEW dir
  PROVE  Place(t, E, x, sort, dir) <= Place(u, G, x, sort, dir)
<1>1. PICK T, V : /\ T = {y \in E : y = x \/ Before(t, y, x, sort, dir)}
                  /\ V = {y \in G : y = x \/ Before(u, y, x, sort, dir)}
  OBVIOUS
<1>2. T \subseteq V
  BY <1>1 DEF Before
<1>3. IsFiniteSet(V)
  <2>1. IsFiniteSet(Rows) /\ V \subseteq Rows
    BY <1>1, ViewsAssumption
  <2> QED
    BY <2>1, FS_Subset
<1> QED
  BY <1>1, <1>2, <1>3, FS_Subset DEF Place

\* Where no two rows share a place, none of the rows that were there before did.
LEMMA UntiedBelow ==
  ASSUME NEW t, NEW u, NEW E, NEW G, E \subseteq G, NEW sort,
         \A y \in E : SortKey(t, y, sort) = SortKey(u, y, sort), ~Tied(u, G, sort)
  PROVE  ~Tied(t, E, sort)
BY DEF Tied, Equals

\* What a reader's progress through a list is measured by: the list in table t, and
\* in the newest table u.
WalkAt(t, u, r) ==
    /\ r.there \subseteq Expected(t, r) /\ Expected(t, r) \subseteq Expected(u, r)
    /\ \A x \in Expected(t, r) : SortKey(t, x, r.sort) = SortKey(u, x, r.sort)
    /\ ~Overfull(t, r)
    /\ ~r.mixed => Passed(t, r)

LEMMA WalkIs ==
  ASSUME NEW r
  PROVE  WalkOk(r) <=> (r.op = "list" /\ r.pc = "read" /\ ~r.shifted =>
                          ~Tied(row, Expected(row, r), r.sort) /\ \A t \in r.seen : WalkAt(t, row, r))
BY DEF WalkOk, WalkAt

LEMMA WalkIsNext ==
  ASSUME kind' = kind, NEW u, u = row', NEW r
  PROVE  WalkOk(r)' <=> (r.op = "list" /\ r.pc = "read" /\ ~r.shifted =>
                          ~Tied(u, Expected(u, r), r.sort) /\ \A t \in r.seen : WalkAt(t, u, r))
<1>1. ASSUME NEW t PROVE /\ Expected(t, r)' = Expected(t, r) /\ Overfull(t, r)' = Overfull(t, r)
                         /\ Passed(t, r)' = Passed(t, r)
  BY SameLists
<1> QED
  BY <1>1 DEF WalkOk, WalkAt

\* A table that keeps the rows of the list is one more to measure by.
LEMMA WalkGrows ==
  ASSUME kind \in ListKinds, NEW t, NEW u, NEW r, r.page \in Nat, WalkAt(t, t, r), Expected(t, r) \subseteq Expected(u, r),
         \A x \in Expected(t, r) : SortKey(t, x, r.sort) = SortKey(u, x, r.sort), ~Overfull(u, r)
  PROVE  WalkAt(u, u, r)
<1>1. PICK E, G, sort : E = Expected(t, r) /\ G = Expected(u, r) /\ sort = r.sort
  OBVIOUS
<1>2. /\ E \subseteq G /\ G \subseteq Rows /\ r.there \subseteq E
      /\ \A x \in E : SortKey(t, x, sort) = SortKey(u, x, sort)
  BY <1>1, ListedLive DEF WalkAt, Expected
<1>3. ASSUME ~r.mixed PROVE Passed(u, r)
  <2> SUFFICES ASSUME NEW x \in r.there, Place(u, G, x, sort, r.dir) <= (r.page - 1) * Limit
               PROVE  x \in r.shown
    BY <1>1 DEF Passed
  <2>1. Passed(t, r) /\ x \in E
    BY <1>2, <1>3 DEF WalkAt
  <2>2. Place(t, E, x, sort, r.dir) <= Place(u, G, x, sort, r.dir)
    BY <1>2, <2>1, PlaceGrows
  <2>3. Place(t, E, x, sort, r.dir) \in Int /\ Place(u, G, x, sort, r.dir) \in Int
    BY <1>2, <2>1, PlaceIn
  <2>4. PICK n \in Int : n = (r.page - 1) * Limit
    BY ViewsAssumption
  <2>5. Place(t, E, x, sort, r.dir) <= n => x \in r.shown
    BY <1>1, <2>1, <2>4 DEF Passed
  <2> QED
    BY <2>2, <2>3, <2>4, <2>5
<1>4. ~Overfull(u, r) /\ r.there \subseteq Expected(u, r)
  BY <1>1, <1>2
<1> QED
  BY <1>3, <1>4 DEF WalkAt

----------------------------------------------------------------------------
(* Writes.                                                                 *)

\* A write of row r gives table u.
Rewrites(u, r) ==
    /\ u \in Tables /\ OneRow(row, u, r) /\ Dated(u)
    /\ \A x \in Rows : u[x].created <= writes + 1 /\ u[x].at \in u[x].been
    /\ \A x \in Rows : row[x].been \subseteq u[x].been

\* A reading that a write comes into.
LEMMA WatchKeeps ==
  ASSUME TableOk, kind' = kind, settled' = settled, writes' = writes + 1,
         NEW u, u = row', NEW r \in Rows, Rewrites(u, r),
         NEW x, AskOk(x), x.pc = "read",
         NEW sn, sn \subseteq x.since \cup {writes + 1},
         NEW sh \in BOOLEAN,
         ~sh => ~x.shifted /\ (x.op = "list" => ~Shifts(row, u, x)),
         NEW y, y = [x EXCEPT !.seen = @ \cup {u}, !.since = sn, !.shifted = sh]
  PROVE  AskOk(y)'
<1>1. x \in Askings(x.op) /\ ReadingOk(x) /\ CountOk(x) /\ WalkOk(x) /\ OwnRows(x)
  BY DEF AskOk, StateOk
<1>2. /\ y.op = x.op /\ y.pc = x.pc /\ y.user = x.user /\ y.scope = x.scope /\ y.filter = x.filter
      /\ y.sort = x.sort /\ y.dir = x.dir /\ y.seen = x.seen \cup {u} /\ y.since = sn /\ y.page = x.page /\ y.there = x.there
      /\ y.shown = x.shown /\ y.shifted = sh /\ y.mixed = x.mixed /\ y.answer = x.answer
      /\ y.crossed = x.crossed
  BY <1>1 DEF Askings
<1>3. kind \in ListKinds /\ writes \in Nat /\ settled \subseteq 1..writes /\ row \in Tables
  BY ViewsAssumption DEF TableOk
<1>4. row \in x.seen /\ IsFiniteSet(x.seen)
  BY <1>1 DEF ReadingOk
<1>5. y \in Askings(y.op)'
  <2>1. Tables' = Tables /\ Answers(x.op)' = Answers(x.op)
    BY SameKind
  <2>2. x.seen \cup {u} \subseteq Tables
    BY <1>1 DEF Askings, Rewrites
  <2>3. sn \subseteq 1..(writes + 1)
    <3>1. x.since \subseteq 1..writes
      BY <1>1 DEF Askings
    <3> QED
      BY <1>3, <3>1
  <2>4. Askings(x.op)' = [op : {x.op}, pc : {"new", "read", "done"}, user : Scopes \cup {None},
            scope : Scopes \cup {{w} : w \in Warehouses} \cup {None}, filter : Filters \cup {None},
            sort : {"created", "rank", None}, dir : {"asc", "desc", None}, seen : SUBSET Tables, since : SUBSET (1..(writes + 1)),
            crossed : BOOLEAN, page : Nat, there : SUBSET Rows, shown : SUBSET Rows,
            shifted : BOOLEAN, mixed : BOOLEAN, answer : {None} \cup Answers(x.op)]
    BY <2>1 DEF Askings
  <2>5. Askings(y.op)' = Askings(x.op)'
    BY <1>2
  <2>6. y \in Askings(x.op)'
    <3>1. /\ x.pc \in {"new", "read", "done"} /\ x.user \in Scopes \cup {None}
          /\ x.scope \in Scopes \cup {{w} : w \in Warehouses} \cup {None} /\ x.filter \in Filters \cup {None}
          /\ x.sort \in {"created", "rank", None} /\ x.dir \in {"asc", "desc", None} /\ x.crossed \in BOOLEAN /\ x.page \in Nat
          /\ x.there \in SUBSET Rows /\ x.shown \in SUBSET Rows /\ x.mixed \in BOOLEAN
          /\ x.answer \in {None} \cup Answers(x.op)
      BY <1>1 DEF Askings
    <3>2. y = [op |-> x.op, pc |-> x.pc, user |-> x.user, scope |-> x.scope, filter |-> x.filter,
               sort |-> x.sort, dir |-> x.dir, seen |-> x.seen \cup {u}, since |-> sn, crossed |-> x.crossed,
               page |-> x.page, there |-> x.there, shown |-> x.shown, shifted |-> sh,
               mixed |-> x.mixed, answer |-> x.answer]
      BY <1>1 DEF Askings
    <3> QED
      BY <2>2, <2>3, <2>4, <3>1, <3>2
  <2> QED
    BY <2>5, <2>6
<1>6. ReadingOk(y)'
  <2>1. IsFiniteSet(x.seen \cup {u})
    BY <1>4, FS_AddElement
  <2>2. ~x.crossed => sn \cap settled = {}
    <3>1. writes + 1 \notin settled
      BY <1>3
    <3> QED
      BY <1>1, <3>1 DEF ReadingOk
  <2>3. \A t \in x.seen \cup {u}, z \in Rows : t[z].at \in row'[z].been
    <3>1. \A t \in x.seen, z \in Rows : t[z].at \in row[z].been
      BY <1>1 DEF ReadingOk
    <3> QED
      BY <3>1 DEF Rewrites
  <2> QED
    BY <1>1, <1>2, <2>1, <2>2, <2>3 DEF ReadingOk
<1>7. CountOk(y)'
  <2> SUFFICES CountOk(y)
    BY SameLists
  <2> SUFFICES ASSUME y.op = "count", y.pc = "read", NEW P \in Splits
               PROVE  Agree(P, Parts, Covered(P), y.scope, y.seen)
    BY CountsAgree
  <2>1. kind \in Counted \cup {"item"}
    BY <1>1, <1>2 DEF ReadingOk
  <2>2. PICK C : C = Covered(P)
    OBVIOUS
  <2>3. Split(P, Parts, C)
    BY <2>1, <2>2, SplitsAre
  <2>4. Agree(P, Parts, C, x.scope, x.seen)
    BY <1>1, <1>2, <2>2, CountsAgree
  <2>5. OneRow(row, u, r)
    BY DEF Rewrites
  <2>6. Agree(P, Parts, C, x.scope, x.seen \cup {u})
    <3>1. PICK t, seen, S : t = row /\ seen = x.seen /\ S = x.scope
      OBVIOUS
    <3>2. Agree(P, Parts, C, S, seen) /\ t \in seen /\ IsFiniteSet(seen) /\ OneRow(t, u, r)
      BY <1>4, <2>4, <2>5, <3>1
    <3>3. Agree(P, Parts, C, S, seen \cup {u})
      BY <2>3, <3>2, AgreeStill
    <3> QED
      BY <3>1, <3>3
  <2> QED
    BY <1>2, <2>2, <2>6
<1>8. WalkOk(y)'
  <2> SUFFICES ASSUME y.op = "list", ~sh
               PROVE  ~Tied(u, Expected(u, y), y.sort) /\ \A t \in y.seen : WalkAt(t, u, y)
    BY <1>2, WalkIsNext
  <2>1. /\ Expected(row, x) \subseteq Expected(u, x) /\ ~Overfull(u, x) /\ ~Tied(u, Expected(u, x), x.sort)
        /\ \A z \in Expected(row, x) : SortKey(row, z, x.sort) = SortKey(u, z, x.sort)
    BY <1>2 DEF Shifts
  <2>2. \A s \in x.seen : WalkAt(s, row, x)
    BY <1>1, <1>2, WalkIs
  <2>3. \A s : Expected(s, y) = Expected(s, x) /\ Overfull(s, y) = Overfull(s, x)
    BY <1>2 DEF Expected, Overfull
  <2>4. \A s : Passed(s, x) <=> Passed(s, y)
    BY <1>2, <2>3 DEF Passed
  <2>5. \A s, v : WalkAt(s, v, x) <=> WalkAt(s, v, y)
    BY <1>2, <2>3, <2>4 DEF WalkAt
  <2>6. WalkAt(u, u, y)
    <3>1. WalkAt(row, row, x) /\ x.page \in Nat
      BY <1>1, <1>4, <2>2 DEF Askings
    <3>2. PICK s : s = row
      OBVIOUS
    <3>3. WalkAt(u, u, x)
      BY <1>3, <2>1, <3>1, <3>2, WalkGrows
    <3> QED
      BY <2>5, <3>3
  <2>7. ASSUME NEW t \in x.seen PROVE WalkAt(t, u, y)
    <3>1. WalkAt(t, row, x)
      BY <2>2
    <3>2. WalkAt(t, u, x)
      BY <2>1, <3>1 DEF WalkAt
    <3> QED
      BY <2>5, <3>2
  <2> QED
    BY <1>2, <2>1, <2>3, <2>6, <2>7
<1>9. OwnRows(y)' /\ DoneOk(y)'
  <2>1. OwnRows(y) /\ y.shown \subseteq Rows
    BY <1>1, <1>2 DEF OwnRows, Askings
  <2>2. OwnRows(y)'
    BY <2>1, OwnStays DEF Rewrites
  <2> QED
    BY <1>2, <2>2 DEF DoneOk
<1> QED
  BY <1>5, <1>6, <1>7, <1>8, <1>9 DEF AskOk, StateOk

\* A request that is not reading does not notice.
LEMMA OthersKeep ==
  ASSUME TableOk, kind' = kind, writes' = writes + 1, \A z \in Rows : row[z].been \subseteq row'[z].been,
         NEW x, AskOk(x), x.pc # "read"
  PROVE  AskOk(x)'
<1>1. x \in Askings(x.op)'
  <2>1. Tables' = Tables /\ Answers(x.op)' = Answers(x.op)
    BY SameKind
  <2>2. x \in Askings(x.op) /\ 1..writes \subseteq 1..(writes + 1)
    BY ViewsAssumption DEF AskOk, TableOk
  <2> QED
    BY <2>1, <2>2 DEF Askings
<1>2. ReadingOk(x)' /\ CountOk(x)' /\ WalkOk(x)'
  BY DEF ReadingOk, CountOk, WalkOk
<1>3. OwnRows(x)' /\ DoneOk(x)'
  <2>1. OwnRows(x) /\ DoneOk(x) /\ x.shown \subseteq Rows
    BY DEF AskOk, StateOk, Askings
  <2> QED
    BY <2>1, SameLists, OwnStays DEF DoneOk
<1> QED
  BY <1>1, <1>2, <1>3 DEF AskOk, StateOk

LEMMA WriteKeeps ==
  ASSUME ViewsInv, NEW u, NEW r \in Rows, Rewrites(u, r), Write(u)
  PROVE  ViewsInv'
<1>1. CacheOk /\ TableOk /\ AsksOk
  BY InvParts
<1>2. /\ kind' = kind /\ row' = u /\ writes' = writes + 1 /\ settled' = settled /\ writes < MaxWrites
      /\ owed' \subseteq owed \cup {writes + 1}
  BY DEF Write
<1>3. writes \in Nat /\ MaxWrites \in Nat /\ owed \cup settled \subseteq 1..writes
  BY <1>1, ViewsAssumption DEF TableOk
<1>0. \A z \in Rows : row[z].been \subseteq row'[z].been
  BY <1>2 DEF Rewrites
<1>4. TableOk'
  <2>1. Dated(row)' /\ Tables' = Tables
    BY <1>2, SameKind DEF Dated, Rewrites
  <2>2. writes' \in 0..MaxWrites
    BY <1>2, <1>3
  <2>3. owed' \cup settled' \subseteq 1..writes' /\ owed' \cap settled' = {}
    <3>1. writes + 1 \notin settled /\ owed \cap settled = {}
      BY <1>1, <1>3 DEF TableOk
    <3> QED
      BY <1>2, <1>3, <3>1
  <2> QED
    BY <1>1, <1>2, <2>1, <2>2, <2>3 DEF TableOk, Rewrites
<1>5. CacheOk'
  <2>1. cache' = [k \in Keys |-> cache'[k]] /\ \A k \in Keys : cache'[k] # None => cache[k] # None
    <3>1. DOMAIN cache = Keys
      BY <1>1 DEF CacheOk
    <3> QED
      BY <3>1 DEF Write
  <2>2. ASSUME NEW k \in Keys, cache'[k] # None
        PROVE  /\ cache'[k].answer = cache[k].answer /\ cache'[k].by = cache[k].by
               /\ cache'[k].crossed = cache[k].crossed
               /\ cache'[k].missed \subseteq cache[k].missed \cup {writes + 1}
               /\ cache'[k] \in Entries(k[1])'
    <3>1. cache[k] \in Entries(k[1]) /\ cache[k] # None
      BY <1>1, <2>1, <2>2 DEF CacheOk
    <3>2. cache'[k] = cache[k] \/ cache'[k] = [cache[k] EXCEPT !.missed = @ \cup {writes + 1}]
      BY <1>1, <1>2 DEF Write, CacheOk
    <3>3. Answers(k[1])' = Answers(k[1]) /\ 1..writes \cup {writes + 1} \subseteq 1..(writes + 1)
      BY <1>2, <1>3, SameKind
    <3> QED
      BY <1>2, <3>1, <3>2, <3>3 DEF Entries
  <2>3. Kept'
    <3>1. Kept
      BY <1>1 DEF CacheOk
    <3> QED
      BY <1>0, <1>2, <2>1, <2>2, <3>1, SameLists, OwnStays DEF Kept
  <2>4. EditsShow'
    <3>1. EditsShow /\ writes + 1 \notin settled
      BY <1>1, <1>3 DEF CacheOk
    <3> QED
      BY <1>2, <2>1, <2>2, <3>1 DEF EditsShow
  <2> QED
    BY <2>1, <2>2, <2>3, <2>4 DEF CacheOk
<1>6. ASSUME NEW p \in Procs PROVE AskOk(req[p])'
  <2>1. PICK x, y : x = req[p] /\ y = req'[p]
    OBVIOUS
  <2>2. AskOk(x)
    BY <1>1, <2>1 DEF AsksOk
  <2>3. y = Watched(x)
    BY <2>1 DEF Write
  <2>4. CASE x.pc # "read"
    <3>1. y = x
      BY <2>3, <2>4 DEF Watched
    <3>2. AskOk(x)'
      BY <1>0, <1>1, <1>2, <2>2, <2>4, OthersKeep
    <3> QED
      BY <2>1, <3>1, <3>2
  <2>5. CASE x.pc = "read"
    <3>1. PICK sn, sh :
             /\ sn = IF kind = "item" THEN x.since \cup {writes'} ELSE x.since
             /\ sh = (x.shifted \/ (x.op = "list" /\ Shifts(row, row', x)))
      OBVIOUS
    <3>2. x \in Askings(x.op)
      BY <2>2 DEF AskOk
    <3>3. y = [x EXCEPT !.seen = @ \cup {u}, !.since = sn, !.shifted = sh]
      BY <1>2, <2>3, <2>5, <3>1, <3>2 DEF Watched, Askings
    <3>4. sn \subseteq x.since \cup {writes + 1}
      BY <1>2, <3>1
    <3>5. sh \in BOOLEAN
      BY <3>1
    <3>6. ~sh => ~x.shifted /\ (x.op = "list" => ~Shifts(row, u, x))
      BY <1>2, <3>1
    <3>7. AskOk(y)'
      BY <1>1, <1>2, <2>2, <2>5, <3>3, <3>4, <3>5, <3>6, WatchKeeps
    <3> QED
      BY <2>1, <3>7
  <2> QED
    BY <2>4, <2>5
<1>7. AsksOk'
  <2>1. req' = [q \in Procs |-> req'[q]]
    BY DEF Write
  <2> QED
    BY <1>6, <2>1 DEF AsksOk
<1> QED
  BY <1>4, <1>5, <1>7, InvPartsNext

LEMMA BornFits == Born \subseteq Statuses
BY DEF Born, Statuses, SaleStatuses, StockedStatuses, LoanStatuses, TransferStatuses, DischargeStatuses,
       TakeStatuses, AlertStatuses

\* What a row is made of.
RowSet == [state : {"none", "live", "deleted", "gone"}, status : Statuses, owing : BOOLEAN,
           created : Int, rank : Int, at : Homes, been : SUBSET Homes]

\* A row takes another value: created once, and knowing where it has been.
Follows(new, old) ==
    /\ new \in RowSet /\ new.at \in new.been /\ old.been \subseteq new.been
    /\ \/ new.created = old.created /\ old.state # "none"
       \/ new.created = writes + 1 /\ old.state = "none"

LEMMA EditRewrites ==
  ASSUME TableOk, NEW r \in Rows, NEW new, Follows(new, row[r]),
         NEW u, u = [row EXCEPT ![r] = new]
  PROVE  Rewrites(u, r)
<1>1. row \in Tables /\ Dated(row) /\ (\A x \in Rows : row[x].created <= writes) /\ writes \in Int
  BY DEF TableOk
<1>2. \A x \in Rows : u[x] = IF x = r THEN new ELSE row[x]
  BY <1>1 DEF Tables
<1>3. u \in Tables
  BY <1>1 DEF Tables, Follows, RowSet
<1>4. OneRow(row, u, r)
  BY <1>2 DEF OneRow
<1>5. \A x \in Rows : row[x].created \in Int
  BY <1>1 DEF Tables
<1>6. Dated(u)
  <2> SUFFICES ASSUME NEW x \in Rows, NEW z \in Rows, u[x].state # "none", u[z].state # "none",
                      u[x].created = u[z].created
               PROVE  x = z
    BY DEF Dated
  <2>0. \/ new.created = row[r].created /\ row[r].state # "none"
        \/ new.created = writes + 1 /\ row[r].state = "none"
    BY DEF Follows
  <2>1. CASE x # r /\ z # r
    BY <1>1, <1>2, <2>1 DEF Dated
  <2>2. CASE (x = r /\ z # r) \/ (x # r /\ z = r)
    BY <1>1, <1>2, <1>5, <2>0, <2>2 DEF Dated
  <2> QED
    BY <2>1, <2>2
<1>7. ASSUME NEW x \in Rows PROVE u[x].created <= writes + 1
  <2>1. new.created = row[r].created \/ new.created = writes + 1
    BY DEF Follows
  <2> QED
    BY <1>1, <1>2, <1>5, <2>1
<1>8. ASSUME NEW x \in Rows PROVE u[x].at \in u[x].been /\ row[x].been \subseteq u[x].been
  <2>1. row[x].at \in row[x].been
    BY DEF TableOk
  <2>2. CASE x = r
    BY <1>2, <2>2 DEF Follows
  <2>3. CASE x # r
    BY <1>2, <2>1, <2>3
  <2> QED
    BY <2>2, <2>3
<1> QED
  BY <1>3, <1>4, <1>6, <1>7, <1>8 DEF Rewrites

LEMMA RowIs ==
  ASSUME TableOk, NEW r \in Rows
  PROVE  row[r] \in RowSet /\ row[r].at \in row[r].been /\ writes \in Int
BY DEF TableOk, Tables, RowSet

\* A write of one row keeps the invariant.
LEMMA EditKeeps ==
  ASSUME ViewsInv, NEW r \in Rows, NEW new, Follows(new, row[r]),
         NEW u, u = [row EXCEPT ![r] = new], Write(u)
  PROVE  ViewsInv'
<1>1. TableOk
  BY InvParts
<1>2. Rewrites(u, r)
  BY <1>1, EditRewrites
<1> QED
  BY <1>2, WriteKeeps

LEMMA InsertKeeps ==
  ASSUME ViewsInv, NEW r \in Rows, Insert(r)
  PROVE  ViewsInv'
<1>1. TableOk /\ row[r].state = "none"
  BY InvParts DEF Insert
<1>2. PICK s \in Born, k \in Ranks :
         Write([row EXCEPT ![r] = [row[r] EXCEPT !.state = "live", !.status = s, !.owing = s = "ACTIVE",
                                            !.created = writes + 1, !.rank = k]])
  BY DEF Insert
<1>3. PICK b : b = (s = "ACTIVE")
  OBVIOUS
<1>4. PICK new, u : /\ new = [row[r] EXCEPT !.state = "live", !.status = s, !.owing = b,
                                            !.created = writes + 1, !.rank = k]
                    /\ u = [row EXCEPT ![r] = new]
  OBVIOUS
<1>5. b \in BOOLEAN /\ s \in Statuses /\ k \in Int /\ row[r] \in RowSet /\ writes + 1 \in Int
  BY <1>1, <1>3, BornFits, RowIs, ViewsAssumption
<1>6. Follows(new, row[r])
  <2>1. new \in RowSet
    BY <1>4, <1>5 DEF RowSet
  <2>2. new.created = writes + 1 /\ new.at = row[r].at /\ new.been = row[r].been
    BY <1>4, <1>5 DEF RowSet
  <2> QED
    BY <1>1, <2>1, <2>2, RowIs DEF Follows
<1>7. Write(u)
  BY <1>2, <1>3, <1>4
<1> QED
  BY <1>4, <1>6, <1>7, EditKeeps

LEMMA ChangeKeeps ==
  ASSUME ViewsInv, NEW r \in Rows, Change(r)
  PROVE  ViewsInv'
<1>1. TableOk
  BY InvParts
<1>2. PICK s \in Statuses : Write([row EXCEPT ![r].status = s])
  BY DEF Change
<1>3. PICK new, u : new = [row[r] EXCEPT !.status = s] /\ u = [row EXCEPT ![r] = new]
  OBVIOUS
<1>4. Follows(new, row[r])
  BY <1>1, <1>3, RowIs DEF Change, Follows, RowSet
<1>5. Write(u)
  BY <1>2, <1>3
<1> QED
  BY <1>3, <1>4, <1>5, EditKeeps

LEMMA PayKeeps ==
  ASSUME ViewsInv, NEW r \in Rows, Pay(r)
  PROVE  ViewsInv'
<1>1. TableOk
  BY InvParts
<1>2. PICK b : b = ~row[r].owing
  OBVIOUS
<1>3. PICK new, u : new = [row[r] EXCEPT !.owing = b] /\ u = [row EXCEPT ![r] = new]
  OBVIOUS
<1>4. Follows(new, row[r])
  BY <1>1, <1>2, <1>3, RowIs DEF Pay, Follows, RowSet
<1>5. Write(u)
  BY <1>2, <1>3 DEF Pay
<1> QED
  BY <1>3, <1>4, <1>5, EditKeeps

LEMMA RenameKeeps ==
  ASSUME ViewsInv, NEW r \in Rows, NEW k \in Ranks, Rename(r, k)
  PROVE  ViewsInv'
<1>1. TableOk /\ k \in Int
  BY InvParts, ViewsAssumption
<1>2. PICK new, u : new = [row[r] EXCEPT !.rank = k] /\ u = [row EXCEPT ![r] = new]
  OBVIOUS
<1>3. Follows(new, row[r])
  BY <1>1, <1>2, RowIs DEF Rename, Follows, RowSet
<1>4. Write(u)
  BY <1>2 DEF Rename
<1> QED
  BY <1>2, <1>3, <1>4, EditKeeps

LEMMA RelocateKeeps ==
  ASSUME ViewsInv, NEW r \in Rows, NEW a \in Homes, Relocate(r, a)
  PROVE  ViewsInv'
<1>1. TableOk
  BY InvParts
<1>2. PICK B : B = row[r].been \cup {a}
  OBVIOUS
<1>3. PICK new, u : new = [row[r] EXCEPT !.at = a, !.been = B] /\ u = [row EXCEPT ![r] = new]
  OBVIOUS
<1>4. row[r] \in RowSet /\ B \in SUBSET Homes
  BY <1>1, <1>2, RowIs DEF RowSet
<1>5. Follows(new, row[r])
  BY <1>2, <1>3, <1>4 DEF Relocate, Follows, RowSet
<1>6. Write(u)
  BY <1>2, <1>3 DEF Relocate
<1> QED
  BY <1>3, <1>5, <1>6, EditKeeps

\* The life of a row goes from one state to another.
LEMMA MoveKeeps ==
  ASSUME ViewsInv, NEW r \in Rows, row[r].state # "none", NEW s \in {"live", "deleted", "gone"},
         Write([row EXCEPT ![r].state = s])
  PROVE  ViewsInv'
<1>1. TableOk
  BY InvParts
<1>2. PICK new, u : new = [row[r] EXCEPT !.state = s] /\ u = [row EXCEPT ![r] = new]
  OBVIOUS
<1>3. Follows(new, row[r])
  BY <1>1, <1>2, RowIs DEF Follows, RowSet
<1>4. Write(u)
  BY <1>2
<1> QED
  BY <1>2, <1>3, <1>4, EditKeeps

LEMMA WritesKeep ==
  ASSUME ViewsInv, NEW r \in Rows,
         \/ Insert(r) \/ Change(r) \/ Pay(r) \/ SoftDelete(r) \/ Restore(r) \/ Delete(r)
         \/ \E k \in Ranks : Rename(r, k)
         \/ \E a \in Homes : Relocate(r, a)
  PROVE  ViewsInv'
<1>1. CASE SoftDelete(r)
  BY <1>1, MoveKeeps DEF SoftDelete
<1>2. CASE Restore(r)
  BY <1>2, MoveKeeps DEF Restore
<1>3. CASE Delete(r)
  BY <1>3, MoveKeeps DEF Delete
<1> QED
  BY <1>1, <1>2, <1>3, InsertKeeps, ChangeKeeps, PayKeeps, RenameKeeps, RelocateKeeps

----------------------------------------------------------------------------
(* Counters and summaries: asking for them, and their answers.             *)

\* An answer is right for user S.
Right(op, S, a) ==
    /\ a \in {None} \cup Answers(op)
    /\ op = "count" => AddsUp(S, a)
    /\ op = "categories" /\ S # All /\ S # {} => OwnNames(S, a)

Summaries == {"count", "categories", "locations"}

LEMMA AnsweredOk ==
  ASSUME NEW op \in Summaries, NEW S \in Scopes, NEW a, Right(op, S, a)
  PROVE  AskOk(Answered(op, S, a))
<1>1. PICK x : x = Answered(op, S, a)
  OBVIOUS
<1>2. x = [op |-> op, pc |-> "done", user |-> S, scope |-> None, filter |-> None,
           sort |-> None, dir |-> None, seen |-> {}, since |-> {}, crossed |-> FALSE, page |-> 1,
           there |-> {}, shown |-> {}, shifted |-> FALSE, mixed |-> FALSE, answer |-> a]
  BY <1>1 DEF Answered, Idle
<1>3. x \in Askings(op)
  BY <1>2 DEF Askings, Right
<1>4. DoneOk(x)
  BY <1>2 DEF DoneOk, Right, Summaries
<1>5. ReadingOk(x) /\ CountOk(x) /\ WalkOk(x) /\ OwnRows(x)
  BY <1>2 DEF ReadingOk, CountOk, WalkOk, OwnRows, Summaries
<1>6. x.op = op
  BY <1>2
<1> QED
  BY <1>1, <1>3, <1>4, <1>5, <1>6 DEF AskOk, StateOk

LEMMA ReadingStarts ==
  ASSUME TableOk, NEW op \in Summaries, NEW S \in Scopes, op = "count" => kind \in Counted \cup {"item"}
  PROVE  AskOk(Reading(op, S))
<1>1. PICK x : x = Reading(op, S)
  OBVIOUS
<1>2. x = [op |-> op, pc |-> "read", user |-> S, scope |-> S, filter |-> None,
           sort |-> None, dir |-> None, seen |-> {row}, since |-> {}, crossed |-> FALSE, page |-> 1,
           there |-> {}, shown |-> {}, shifted |-> FALSE, mixed |-> FALSE, answer |-> None]
  BY <1>1 DEF Reading, Idle
<1>3. x \in Askings(op) /\ x.op = op
  <2>1. {row} \in SUBSET Tables
    BY DEF TableOk
  <2> QED
    BY <1>2, <2>1 DEF Askings
<1>4. ReadingOk(x)
  <2>1. IsFiniteSet({row}) /\ \A t \in {row}, z \in Rows : t[z].at \in row[z].been
    BY FS_Singleton DEF TableOk
  <2> QED
    BY <1>2, <2>1 DEF ReadingOk, Summaries
<1>5. CountOk(x)
  <2> SUFFICES ASSUME op = "count", NEW P \in Splits
               PROVE  Agree(P, Parts, Covered(P), S, {row})
    BY <1>2, CountsAgree
  <2>1. PICK C, t : C = Covered(P) /\ t = row
    OBVIOUS
  <2>2. Split(P, Parts, C)
    BY <2>1, SplitsAre
  <2>3. Agree(P, Parts, C, S, {t})
    BY <2>2, AgreeAtFirst
  <2> QED
    BY <2>1, <2>3
<1>6. WalkOk(x) /\ OwnRows(x) /\ DoneOk(x)
  BY <1>2 DEF WalkOk, OwnRows, DoneOk, Summaries
<1> QED
  BY <1>1, <1>3, <1>4, <1>5, <1>6 DEF AskOk, StateOk

LEMMA KeyIn ==
  ASSUME NEW op \in Summaries, NEW S \in Scopes
  PROVE  /\ KeyOf(op, S) \in Keys /\ KeyOf(op, S)[1] = op
         /\ KeyOf(op, S)[2] = (IF S = {} \/ op = "count" THEN All ELSE S)
BY DEF KeyOf, Keys, Summaries

LEMMA AskKeeps ==
  ASSUME ViewsInv, NEW q \in Procs, NEW op \in Summaries, NEW S \in Scopes,
         op = "count" => kind \in Counted \cup {"item"}, Ask(q, op, S)
  PROVE  ViewsInv'
<1>1. TableOk /\ CacheOk
  BY InvParts
<1>2. PICK k : k = KeyOf(op, S)
  OBVIOUS
<1>3. k \in Keys /\ k[1] = op /\ k[2] = (IF S = {} \/ op = "count" THEN All ELSE S)
  BY <1>2, KeyIn
<1>4. CASE Cacheable(op, S) /\ cache[k] # None
  <2>1. PICK e : e = cache[k]
    OBVIOUS
  <2>2. Kept /\ e \in Entries(op) /\ e # None
    BY <1>1, <1>3, <1>4, <2>1 DEF CacheOk
  <2>3. e.answer \in Answers(op)
    BY <2>2 DEF Entries
  <2>4. op = "count" => AddsUp(S, e.answer)
    <3>1. op = "count" => S = All
      BY <1>4 DEF Cacheable
    <3> QED
      BY <1>3, <1>4, <2>1, <2>2, <3>1 DEF Kept
  <2>5. op = "categories" /\ S # All /\ S # {} => OwnNames(S, e.answer)
    BY <1>3, <1>4, <2>1, <2>2 DEF Kept
  <2>6. AskOk(Answered(op, S, e.answer))
    BY <2>3, <2>4, <2>5, AnsweredOk DEF Right
  <2>7. Begin(q, Answered(op, S, e.answer))
    BY <1>2, <1>4, <2>1 DEF Ask
  <2> QED
    BY <2>6, <2>7, BeginKeeps
<1>5. CASE ~(Cacheable(op, S) /\ cache[k] # None)
  <2>1. Begin(q, Reading(op, S))
    BY <1>2, <1>5 DEF Ask
  <2>2. AskOk(Reading(op, S))
    BY <1>1, ReadingStarts
  <2> QED
    BY <2>1, <2>2, BeginKeeps
<1> QED
  BY <1>4, <1>5

LEMMA FinishKeeps ==
  ASSUME ViewsInv, NEW q \in Procs, req[q].pc = "read", req[q].op \in Summaries,
         NEW a \in Answers(req[q].op), Right(req[q].op, req[q].user, a), Finish(q, a)
  PROVE  ViewsInv'
<1>1. TableOk /\ CacheOk /\ AskOk(req[q])
  BY InvParts DEF AsksOk
<1>2. PICK x, op, S, k, e :
         /\ x = req[q] /\ op = x.op /\ S = x.user /\ k = KeyOf(op, S)
         /\ e = [answer |-> a, by |-> S, missed |-> x.since, crossed |-> x.crossed]
  OBVIOUS
<1>3. x \in Askings(op) /\ ReadingOk(x) /\ x.pc = "read" /\ op \in Summaries
  BY <1>1, <1>2 DEF AskOk, StateOk
<1>4. S \in Scopes /\ (~x.crossed => x.since \cap settled = {})
  BY <1>2, <1>3 DEF ReadingOk
<1>5. k \in Keys /\ k[1] = op /\ k[2] = (IF S = {} \/ op = "count" THEN All ELSE S)
  BY <1>2, <1>3, <1>4, KeyIn
<1>6. e \in Entries(op)
  BY <1>2, <1>3, <1>4 DEF Askings, Entries
<1>7. CacheOk'
  <2>1. UNCHANGED Untouched
    BY DEF Finish
  <2>2. CASE ~Cacheable(op, S)
    <3>1. cache' = cache
      BY <1>2, <2>2 DEF Finish
    <3> QED
      BY <1>1, <2>1, <3>1, SameCache DEF Untouched
  <2>3. CASE Cacheable(op, S)
    <3>1. cache' = [cache EXCEPT ![k] = e]
      BY <1>2, <2>3 DEF Finish, Entry
    <3>2. cache' = [j \in Keys |-> IF j = k THEN e ELSE cache[j]]
      BY <1>1, <1>5, <3>1 DEF CacheOk
    <3>3. ASSUME NEW j \in Keys, cache'[j] # None PROVE cache'[j] \in Entries(j[1])'
      <4>1. cache'[j] \in Entries(j[1])
        BY <1>1, <1>5, <1>6, <3>2, <3>3 DEF CacheOk
      <4> QED
        BY <2>1, <4>1, SameAsk DEF Untouched
    <3>4. /\ op = "count" => S = All /\ kind = "item" /\ AddsUp(All, a)
          /\ S = k[2] \/ (S = {} /\ k[2] = All)
          /\ op = "categories" /\ k[2] # All => OwnNames(k[2], a)
      BY <1>2, <1>5, <2>3 DEF Cacheable, Right
    <3>5. Kept'
      <4> SUFFICES ASSUME NEW j \in Keys, cache'[j] # None
                   PROVE  /\ j[1] = "count" => cache'[j].by = All /\ kind = "item" /\ AddsUp(All, cache'[j].answer)
                          /\ cache'[j].by = j[2] \/ (cache'[j].by = {} /\ j[2] = All)
                          /\ j[1] = "categories" /\ j[2] # All => OwnNames(j[2], cache'[j].answer)
        BY <2>1, SameLists, SameOwn DEF Kept, Untouched
      <4>1. CASE j = k
        <5>1. cache'[j] = e
          BY <3>2, <4>1
        <5> QED
          BY <1>2, <1>5, <3>4, <4>1, <5>1
      <4>2. CASE j # k
        <5>1. cache'[j] = cache[j]
          BY <3>2, <4>2
        <5> QED
          BY <1>1, <5>1 DEF CacheOk, Kept
      <4> QED
        BY <4>1, <4>2
    <3>6. EditsShow'
      <4> SUFFICES ASSUME NEW j \in Keys, cache'[j] # None, ~cache'[j].crossed
                   PROVE  cache'[j].missed \cap settled = {}
        BY <2>1 DEF EditsShow, Untouched
      <4>1. CASE j = k
        <5>1. cache'[j] = e
          BY <3>2, <4>1
        <5> QED
          BY <1>2, <1>4, <5>1
      <4>2. CASE j # k
        <5>1. cache'[j] = cache[j]
          BY <3>2, <4>2
        <5> QED
          BY <1>1, <5>1 DEF CacheOk, EditsShow
      <4> QED
        BY <4>1, <4>2
    <3>7. cache' = [j \in Keys |-> cache'[j]]
      BY <3>2
    <3> QED
      BY <3>3, <3>5, <3>6, <3>7 DEF CacheOk
  <2> QED
    BY <2>2, <2>3
<1>8. AskOk(Answered(op, S, a))
  BY <1>2, <1>3, <1>4, AnsweredOk
<1>9. UNCHANGED Untouched /\ req' = [req EXCEPT ![q] = Answered(op, S, a)]
  BY <1>2 DEF Finish
<1> QED
  BY <1>7, <1>8, <1>9, OneStep

LEMMA CountKeeps ==
  ASSUME ViewsInv, NEW q \in Procs, Count(q)
  PROVE  ViewsInv'
<1>1. TableOk /\ AskOk(req[q])
  BY InvParts DEF AsksOk
<1>2. req[q].op = "count" /\ req[q].pc = "read"
  BY DEF Count, At
<1>3. PICK seen, S, t : seen = req[q].seen /\ S = req[q].scope /\ t = row
  OBVIOUS
<1>4. PICK see \in [DOMAIN Parts -> seen] :
         Finish(q, [got |-> [p \in DOMAIN Parts |-> Number(see[p], Reach(S, p), Parts[p])],
                    moments |-> Cardinality(seen),
                    due |-> [s \in Statuses |-> Number(t, S, {s})]])
  BY <1>3 DEF Count
<1>5. PICK a : a = [got |-> [p \in DOMAIN Parts |-> Number(see[p], Reach(S, p), Parts[p])],
                    moments |-> Cardinality(seen),
                    due |-> [s \in Statuses |-> Number(t, S, {s})]]
  OBVIOUS
<1>6. Finish(q, a)
  BY <1>4, <1>5
<1>7. /\ kind \in Counted \cup {"item"} /\ t \in seen /\ IsFiniteSet(seen) /\ req[q].user = S
      /\ \A P \in Splits : Agree(P, Parts, Covered(P), S, seen)
  <2>1. ReadingOk(req[q]) /\ CountOk(req[q])
    BY <1>1 DEF AskOk, StateOk
  <2> QED
    BY <1>2, <1>3, <2>1, CountsAgree DEF ReadingOk
<1>8. AddsUp(S, a)
  BY <1>5, <1>7, CountAddsUp
<1>9. a \in Answers("count")
  <2>1. Cardinality(seen) \in Nat
    BY <1>7, FS_CardinalityType
  <2>2. \A u, V, ss : Number(u, V, ss) \in Nat
    BY NumberIsSum
  <2> QED
    BY <1>5, <2>1, <2>2 DEF Answers
<1>10. Right("count", S, a)
  BY <1>8, <1>9 DEF Right
<1> QED
  BY <1>2, <1>6, <1>7, <1>9, <1>10, FinishKeeps DEF Summaries

LEMMA CategoriesKeep ==
  ASSUME ViewsInv, NEW q \in Procs, Categories(q)
  PROVE  ViewsInv'
<1>1. AskOk(req[q])
  BY InvParts DEF AsksOk
<1>2. req[q].op = "categories" /\ req[q].pc = "read"
  BY DEF Categories, At
<1>3. /\ req[q].scope = req[q].user /\ req[q].seen \subseteq Tables
      /\ \A t \in req[q].seen, z \in Rows : t[z].at \in row[z].been
  BY <1>1, <1>2 DEF AskOk, StateOk, ReadingOk, Askings
<1>4. PICK S : S = req[q].user
  OBVIOUS
<1>5. PICK t \in req[q].seen : Finish(q, {t[r].at.cat : r \in {x \in Rows : Live(t, x) /\ Within(t, x, S)}})
  BY <1>3, <1>4 DEF Categories
<1>6. PICK a : a = {t[r].at.cat : r \in {x \in Rows : Live(t, x) /\ Within(t, x, S)}}
  OBVIOUS
<1>7. a \in Answers("categories")
  <2>1. \A z \in Rows : t[z].at \in Homes
    BY <1>3, <1>5 DEF Tables
  <2> QED
    BY <1>6, <2>1 DEF Answers
<1>8. S # All => OwnNames(S, a)
  BY <1>3, <1>5, <1>6 DEF OwnNames, Within
<1>9. Right("categories", S, a)
  BY <1>7, <1>8 DEF Right
<1> QED
  BY <1>2, <1>4, <1>5, <1>6, <1>7, <1>9, FinishKeeps DEF Summaries

LEMMA LocationsKeep ==
  ASSUME ViewsInv, NEW q \in Procs, Locations(q)
  PROVE  ViewsInv'
<1>1. AskOk(req[q]) /\ CacheOk
  BY InvParts DEF AsksOk
<1>2. req[q].op = "locations" /\ req[q].pc = "read"
  BY DEF Locations, At
<1>3. req[q].user \in Scopes
  BY <1>1, <1>2 DEF AskOk, StateOk, ReadingOk
<1>4. CASE req[q].scope \notin {All, {}}
  <2>1. req' = [req EXCEPT ![q] = Answered("locations", req[q].user, None)] /\ UNCHANGED <<Untouched, cache>>
    BY <1>4 DEF Locations
  <2>2. Right("locations", req[q].user, None)
    BY DEF Right
  <2>3. AskOk(Answered("locations", req[q].user, None))
    BY <1>3, <2>2, AnsweredOk DEF Summaries
  <2>4. CacheOk'
    BY <1>1, <2>1, SameCache DEF Untouched
  <2> QED
    BY <2>1, <2>3, <2>4, OneStep
<1>5. CASE req[q].scope \in {All, {}}
  <2>1. PICK t \in req[q].seen : Finish(q, {t[r].at.src : r \in {x \in Rows : Live(t, x)}})
    BY <1>5 DEF Locations
  <2>2. PICK a : a = {t[r].at.src : r \in {x \in Rows : Live(t, x)}}
    OBVIOUS
  <2>3. a \in Answers("locations")
    <3>1. req[q].seen \subseteq Tables
      BY <1>1 DEF AskOk, Askings
    <3>2. \A z \in Rows : t[z].at.src \in Warehouses
      BY <2>1, <3>1, ViewsAssumption DEF Tables
    <3> QED
      BY <2>2, <3>2 DEF Answers
  <2>4. Right("locations", req[q].user, a)
    BY <2>3 DEF Right
  <2> QED
    BY <1>2, <2>1, <2>2, <2>3, <2>4, FinishKeeps DEF Summaries
<1> QED
  BY <1>4, <1>5

----------------------------------------------------------------------------
(* Rows opened and short lists.                                            *)

LEMMA GlancedOk ==
  ASSUME NEW op \in {"open", "glance"}, NEW S \in Scopes, NEW X \in SUBSET Rows,
         kind \in Narrowed[op] /\ S # All => \A z \in X : Own(z, S)
  PROVE  AskOk([Answered(op, S, None) EXCEPT !.shown = X])
<1>1. PICK x : x = [Answered(op, S, None) EXCEPT !.shown = X]
  OBVIOUS
<1>2. x = [op |-> op, pc |-> "done", user |-> S, scope |-> None, filter |-> None,
           sort |-> None, dir |-> None, seen |-> {}, since |-> {}, crossed |-> FALSE, page |-> 1,
           there |-> {}, shown |-> X, shifted |-> FALSE, mixed |-> FALSE, answer |-> None]
  BY <1>1 DEF Answered, Idle
<1>3. x \in Askings(op)
  BY <1>2 DEF Askings
<1>4. OwnRows(x)
  BY <1>2 DEF OwnRows
<1>5. ReadingOk(x) /\ CountOk(x) /\ WalkOk(x) /\ DoneOk(x)
  BY <1>2 DEF ReadingOk, CountOk, WalkOk, DoneOk
<1>6. x.op = op
  BY <1>2
<1> QED
  BY <1>1, <1>3, <1>4, <1>5, <1>6 DEF AskOk, StateOk

LEMMA OpenKeeps ==
  ASSUME ViewsInv, NEW q \in Procs, NEW S \in Scopes, NEW r \in Rows, Open(q, S, r)
  PROVE  ViewsInv'
<1>1. PICK X : X = IF Shown(row, S, r) THEN {r} ELSE {}
  OBVIOUS
<1>2. kind \in Narrowed["open"] /\ S # All => \A z \in X : Own(z, S)
  <2>0. row[r].at \in row[r].been
    BY InvParts DEF TableOk
  <2>1. S # All /\ kind \in Narrowed["open"] /\ Shown(row, S, r) => Own(r, S)
    BY <2>0 DEF Narrowed, Own, Within, Between, Shown, SaleShown, PurchaseShown, OutflowShown, PaymentShown, WarehouseShown,
           LoanShown, TransferShown, TransactionShown
  <2> QED
    BY <1>1, <2>1
<1>3. X \in SUBSET Rows
  BY <1>1
<1>4. AskOk([Answered("open", S, None) EXCEPT !.shown = X])
  BY <1>2, <1>3, GlancedOk
<1>5. Begin(q, [Answered("open", S, None) EXCEPT !.shown = X])
  BY <1>1 DEF Open
<1> QED
  BY <1>4, <1>5, BeginKeeps

LEMMA GlanceKeeps ==
  ASSUME ViewsInv, NEW q \in Procs, NEW S \in Scopes, Glance(q, S)
  PROVE  ViewsInv'
<1>0. \A z \in Rows : row[z].at \in row[z].been
  BY InvParts DEF TableOk
<1>1. PICK X \in Brief(row, S) : Begin(q, [Answered("glance", S, None) EXCEPT !.shown = X])
  BY DEF Glance
<1>2. CASE kind = "item"
  <2>1. X = LowStockItems(row, S)
    BY <1>1, <1>2 DEF Brief
  <2>2. X \in SUBSET Rows /\ (S # All => \A z \in X : Own(z, S))
    BY <1>0, <2>1 DEF LowStockItems, Own, Within
  <2>3. AskOk([Answered("glance", S, None) EXCEPT !.shown = X])
    BY <2>2, GlancedOk
  <2> QED
    BY <1>1, <2>3, BeginKeeps
<1>3. CASE kind = "transaction"
  <2>1. X \subseteq TransactionsList(row, S)
    BY <1>1, <1>3 DEF Brief, RecentTransactions, Pages
  <2>2. X \in SUBSET Rows /\ (S # All => \A z \in X : Own(z, S))
    BY <1>0, <1>3, <2>1 DEF TransactionsList, Own, Between
  <2>3. AskOk([Answered("glance", S, None) EXCEPT !.shown = X])
    BY <2>2, GlancedOk
  <2> QED
    BY <1>1, <2>3, BeginKeeps
<1>4. CASE kind = "loan"
  <2>1. \/ X = LoansActive(row, S)
        \/ \E r \in Rows : X = LoansByItem(row, S, row[r].at.cat)
        \/ \E w \in Warehouses : X = LoansByWarehouse(row, S, w)
    BY <1>1, <1>4 DEF Brief
  <2>2. X \in SUBSET Rows /\ (S # All => \A z \in X : Own(z, S))
    BY <1>0, <1>4, <2>1 DEF LoansActive, LoansByItem, LoansByWarehouse, LoansList, Own, Between
  <2>3. AskOk([Answered("glance", S, None) EXCEPT !.shown = X])
    BY <2>2, GlancedOk
  <2> QED
    BY <1>1, <2>3, BeginKeeps
<1> QED
  BY <1>1, <1>2, <1>3, <1>4 DEF Brief

----------------------------------------------------------------------------
(* Paging through a list.                                                  *)

LEMMA NoStatusOwing == "owing" \notin Statuses
BY ViewsAssumption DEF Statuses, SaleStatuses, StockedStatuses, LoanStatuses, TransferStatuses,
       DischargeStatuses, TakeStatuses, ItemStatuses, AlertStatuses, Silent, Notified

LEMMA SelectedOk ==
  ASSUME NEW S \in Scopes, NEW w \in Warehouses \cup {None}, Selected(S, w) # None
  PROVE  /\ Selected(S, w) \in Scopes \cup {{v} : v \in Warehouses}
         /\ kind # "item" /\ S # All => Selected(S, w) # All /\ Selected(S, w) \subseteq S
<1>1. CASE w = None
  BY <1>1 DEF Selected, Pick
<1>2. CASE w # None /\ (kind = "item" \/ S = All \/ w \in S)
  <2>1. Selected(S, w) = {w} /\ w \in Warehouses
    BY <1>2 DEF Selected, Pick
  <2>2. {w} # All
    BY <2>1, ViewsAssumption
  <2> QED
    BY <1>2, <2>1, <2>2
<1> QED
  BY <1>1, <1>2 DEF Selected, Pick

LEMMA BeginListKeeps ==
  ASSUME ViewsInv, NEW q \in Procs, NEW S \in Scopes, NEW w \in Warehouses \cup {None},
         NEW f \in Filters, NEW sort \in {"created", "rank"}, NEW dir \in {"asc", "desc"},
         BeginList(q, S, w, f, sort, dir)
  PROVE  ViewsInv'
<1>1. TableOk
  BY InvParts
<1>2. PICK scope, now, late, x :
         /\ scope = Selected(S, w) /\ now = Lists(row, scope, f)
         /\ late = \/ Tied(row, now, sort)
                   \/ f = "owing" /\ Cardinality(Lists(row, scope, "ACTIVE")) > Cut
         /\ x = [op |-> "list", pc |-> "read", user |-> S, scope |-> scope, filter |-> f,
                 sort |-> sort, dir |-> dir, seen |-> {row}, since |-> {}, crossed |-> FALSE, page |-> 1,
                 there |-> now, shown |-> {}, shifted |-> late, mixed |-> FALSE, answer |-> None]
  OBVIOUS
<1>3. CASE scope = None
  <2>1. PICK y : y = Answered("list", S, None)
    OBVIOUS
  <2>2. y = [op |-> "list", pc |-> "done", user |-> S, scope |-> None, filter |-> None,
             sort |-> None, dir |-> None, seen |-> {}, since |-> {}, crossed |-> FALSE, page |-> 1,
             there |-> {}, shown |-> {}, shifted |-> FALSE, mixed |-> FALSE, answer |-> None]
    BY <2>1 DEF Answered, Idle
  <2>3. y \in Askings("list") /\ y.op = "list"
    BY <2>2 DEF Askings
  <2>4. ReadingOk(y) /\ CountOk(y) /\ WalkOk(y) /\ OwnRows(y) /\ DoneOk(y)
    BY <2>2 DEF ReadingOk, CountOk, WalkOk, OwnRows, DoneOk
  <2>5. AskOk(y)
    BY <2>3, <2>4 DEF AskOk, StateOk
  <2>6. Begin(q, y)
    BY <1>2, <1>3, <2>1 DEF BeginList
  <2> QED
    BY <2>5, <2>6, BeginKeeps
<1>4. CASE scope # None
  <2>1. Begin(q, x)
    <3>1. x = [[Reading("list", S) EXCEPT !.scope = scope, !.filter = f, !.sort = sort, !.dir = dir]
                  EXCEPT !.there = now, !.shifted = late]
      <4>1. PICK i, no : i = Reading("list", S) /\ no = FALSE
        OBVIOUS
      <4>2. i = [op |-> "list", pc |-> "read", user |-> S, scope |-> S, filter |-> None,
                 sort |-> None, dir |-> None, seen |-> {row}, since |-> {}, crossed |-> no, page |-> 1,
                 there |-> {}, shown |-> {}, shifted |-> no, mixed |-> no, answer |-> None]
        BY <4>1 DEF Reading, Idle
      <4>3. PICK m : m = [i EXCEPT !.scope = scope, !.filter = f, !.sort = sort, !.dir = dir]
        OBVIOUS
      <4>4. m = [op |-> "list", pc |-> "read", user |-> S, scope |-> scope, filter |-> f,
                 sort |-> sort, dir |-> dir, seen |-> {row}, since |-> {}, crossed |-> no, page |-> 1,
                 there |-> {}, shown |-> {}, shifted |-> no, mixed |-> no, answer |-> None]
        BY <4>2, <4>3
      <4>5. x = [op |-> "list", pc |-> "read", user |-> S, scope |-> scope, filter |-> f,
                 sort |-> sort, dir |-> dir, seen |-> {row}, since |-> {}, crossed |-> no, page |-> 1,
                 there |-> now, shown |-> {}, shifted |-> late, mixed |-> no, answer |-> None]
        BY <1>2, <4>1
      <4>6. PICK y : y = [m EXCEPT !.there = now, !.shifted = late]
        OBVIOUS
      <4>7. y = [op |-> "list", pc |-> "read", user |-> S, scope |-> scope, filter |-> f,
                 sort |-> sort, dir |-> dir, seen |-> {row}, since |-> {}, crossed |-> no, page |-> 1,
                 there |-> now, shown |-> {}, shifted |-> late, mixed |-> no, answer |-> None]
        BY <4>4, <4>6
      <4> QED
        BY <4>1, <4>3, <4>5, <4>6, <4>7
    <3>2. PICK ask : ask = [Reading("list", S) EXCEPT !.scope = scope, !.filter = f, !.sort = sort, !.dir = dir]
      OBVIOUS
    <3>3. x = [ask EXCEPT !.there = now, !.shifted = late]
      BY <3>1, <3>2
    <3>4. late = (Tied(row, now, sort) \/ Overfull(row, ask))
      <4>1. ask.filter = f /\ ask.scope = scope
        BY <3>2 DEF Reading, Idle
      <4> QED
        BY <1>2, <4>1 DEF Overfull
    <3>5. Begin(q, [ask EXCEPT !.there = now, !.shifted = Tied(row, now, sort) \/ Overfull(row, ask)])
      BY <1>2, <1>4, <3>2 DEF BeginList
    <3> QED
      BY <3>3, <3>4, <3>5
  <2>2. kind \in ListKinds /\ row \in Tables
    BY <1>1 DEF TableOk
  <2>3. now \subseteq Rows
    BY <1>2, <2>2, ListedLive
  <2>4. x \in Askings("list") /\ x.op = "list"
    <3>1. late \in BOOLEAN
      BY <1>2
    <3>2. scope \in Scopes \cup {{v} : v \in Warehouses}
      BY <1>2, <1>4, SelectedOk
    <3>3. {row} \in SUBSET Tables
      BY <2>2
    <3> QED
      BY <1>2, <2>3, <3>1, <3>2, <3>3 DEF Askings
  <2>5. ReadingOk(x)
    <3>1. kind # "item" /\ S # All => scope # All /\ scope \subseteq S
      BY <1>2, <1>4, SelectedOk
    <3>2. f = "owing" => kind \in {"sale", "purchase"}
      BY ViewsAssumption, NoStatusOwing DEF BeginList
    <3>3. IsFiniteSet({row}) /\ \A t \in {row}, z \in Rows : t[z].at \in row[z].been
      BY <1>1, FS_Singleton DEF TableOk
    <3> QED
      BY <1>2, <1>4, <3>1, <3>2, <3>3 DEF ReadingOk
  <2>6. WalkOk(x)
    <3>1. Expected(row, x) = now
      BY <1>2 DEF Expected
    <3> SUFFICES ASSUME ~late PROVE WalkAt(row, row, x)
      BY <1>2, <3>1, WalkIs
    <3>2. ~Overfull(row, x)
      BY <1>2 DEF Overfull
    <3>3. Passed(row, x)
      <4> SUFFICES ASSUME NEW z \in now, Place(row, now, z, sort, dir) <= (1 - 1) * Limit PROVE FALSE
        BY <1>2, <3>1 DEF Passed
      <4>1. Place(row, now, z, sort, dir) \in Nat \ {0}
        BY <2>3, PlaceIn
      <4>2. (1 - 1) * Limit = 0
        BY ViewsAssumption
      <4> QED
        BY <4>1, <4>2
    <3> QED
      BY <1>2, <3>1, <3>2, <3>3 DEF WalkAt
  <2>7. CountOk(x) /\ OwnRows(x) /\ DoneOk(x)
    BY <1>2 DEF CountOk, OwnRows, DoneOk
  <2>8. AskOk(x)
    BY <2>4, <2>5, <2>6, <2>7 DEF AskOk, StateOk
  <2> QED
    BY <2>1, <2>8, BeginKeeps
<1> QED
  BY <1>3, <1>4

\* A page of a list: rows of it, and where no two share a place, the ones in its places.
LEMMA PageHas ==
  ASSUME NEW t, NEW E, E \subseteq Rows, NEW n, NEW sort, NEW dir, NEW page \in Pages(t, E, n, sort, dir)
  PROVE  /\ page \subseteq E
         /\ ~Tied(t, E, sort) => \A x \in E : OnPage(n, Place(t, E, x, sort, dir)) => x \in page
<1>1. page \subseteq E
  BY DEF Pages
<1>2. ASSUME ~Tied(t, E, sort), NEW x \in E, OnPage(n, Place(t, E, x, sort, dir)), x \notin page PROVE FALSE
  <2>1. PICK alike, p : alike = Equals(t, E, x, sort) /\ p = Place(t, E, x, sort, dir)
    OBVIOUS
  <2>2. alike = {x} /\ p \in Nat /\ OnPage(n, p)
    BY <1>2, <2>1, PlaceIn DEF Tied
  <2>3. Cardinality(page \cap alike) = Cardinality({k \in p..(p + Cardinality(alike) - 1) : OnPage(n, k)})
    BY <2>1 DEF Pages
  <2>4. Cardinality({x}) = 1 /\ Cardinality({p}) = 1 /\ Cardinality({}) = 0
    BY FS_Singleton, FS_EmptySet
  <2>5. Cardinality(alike) = 1 /\ page \cap alike = {}
    BY <1>2, <2>2, <2>4
  <2>6. p..(p + Cardinality(alike) - 1) = {p}
    BY <2>2, <2>5
  <2>7. {k \in p..(p + Cardinality(alike) - 1) : OnPage(n, k)} = {p}
    BY <2>2, <2>6
  <2> QED
    BY <2>3, <2>4, <2>5, <2>7
<1> QED
  BY <1>1, <1>2

\* With the page read, the walk has passed everything up to its end.
LEMMA PagePasses ==
  ASSUME kind \in ListKinds, NEW t, NEW r, r.page \in Nat \ {0}, Passed(t, r),
         ~Tied(t, Expected(t, r), r.sort),
         r.there \subseteq Expected(t, r), NEW page \in Pages(t, Expected(t, r), r.page, r.sort, r.dir),
         NEW x \in r.there, Place(t, Expected(t, r), x, r.sort, r.dir) <= r.page * Limit
  PROVE  x \in r.shown \cup page
<1>1. PICK E, p, n, m : /\ E = Expected(t, r) /\ p = Place(t, E, x, r.sort, r.dir)
                        /\ n = r.page * Limit /\ m = (r.page - 1) * Limit
  OBVIOUS
<1>2. n \in Int /\ m \in Int
  BY <1>1, ViewsAssumption
<1>3. E \subseteq Rows
  BY <1>1, ListedLive DEF Expected
<1>4. p \in Nat
  BY <1>1, <1>3, PlaceIn
<1>5. CASE p <= m
  BY <1>1, <1>5 DEF Passed
<1>6. CASE m < p
  <2>1. OnPage(r.page, p)
    BY <1>1, <1>6 DEF OnPage
  <2> QED
    BY <1>1, <1>3, <2>1, PageHas
<1> QED
  BY <1>2, <1>4, <1>5, <1>6

LEMMA PageIsEnough ==
  ASSUME kind \in ListKinds, NEW r, AskOk(r), r.op = "list", r.pc = "read",
         ~r.shifted, ~r.mixed, NEW t \in r.seen,
         NEW page \in Pages(t, Expected(t, r), r.page, r.sort, r.dir)
  PROVE  /\ \A x \in r.there :
               Place(row, Expected(row, r), x, r.sort, r.dir) <= r.page * Limit => x \in r.shown \cup page
         /\ ~HasNext(Cardinality(Expected(t, r)), r.page) => r.there \subseteq r.shown \cup page
<1>1. /\ WalkAt(t, row, r) /\ WalkAt(row, row, r) /\ r.page \in Nat \ {0}
      /\ ~Tied(row, Expected(row, r), r.sort)
  BY WalkIs DEF AskOk, StateOk, ReadingOk
<1>2. PICK E, G, n, u, sort : /\ E = Expected(t, r) /\ G = Expected(row, r) /\ n = r.page * Limit
                              /\ u = row /\ sort = r.sort
  OBVIOUS
<1>3. /\ r.there \subseteq E /\ E \subseteq G /\ G \subseteq Rows /\ n \in Int
      /\ \A x \in E : SortKey(t, x, sort) = SortKey(u, x, sort)
  BY <1>1, <1>2, ListedLive, ViewsAssumption DEF WalkAt, Expected
<1>4. ASSUME NEW x \in r.there, Place(t, E, x, sort, r.dir) <= n PROVE x \in r.shown \cup page
  <2>1. Passed(t, r)
    BY <1>1 DEF WalkAt
  <2>2. ~Tied(t, E, sort)
    BY <1>1, <1>2, <1>3, UntiedBelow
  <2> QED
    BY <1>1, <1>2, <1>3, <1>4, <2>1, <2>2, PagePasses
<1>5. ASSUME NEW x \in r.there, Place(u, G, x, sort, r.dir) <= n PROVE x \in r.shown \cup page
  <2>1. Place(t, E, x, sort, r.dir) <= Place(u, G, x, sort, r.dir)
    BY <1>3, PlaceGrows
  <2>2. Place(t, E, x, sort, r.dir) \in Int /\ Place(u, G, x, sort, r.dir) \in Int
    BY <1>3, PlaceIn
  <2> QED
    BY <1>3, <1>4, <1>5, <2>1, <2>2
<1>6. ASSUME ~HasNext(Cardinality(E), r.page), NEW x \in r.there PROVE x \in r.shown \cup page
  <2>1. E \subseteq Rows
    BY <1>3
  <2>2. Place(t, E, x, sort, r.dir) \in Nat /\ Place(t, E, x, sort, r.dir) <= Cardinality(E)
    BY <1>3, <2>1, PlaceIn
  <2>3. Cardinality(E) \in Nat
    BY <2>1, ViewsAssumption, FS_Subset, FS_CardinalityType
  <2>4. Cardinality(E) <= n
    BY <1>2, <1>3, <1>6, <2>3 DEF HasNext
  <2> QED
    BY <1>3, <1>4, <2>2, <2>3, <2>4
<1> QED
  BY <1>2, <1>5, <1>6

\* Turning a page, when what was shown so far is enough.
LEMMA TurnKeeps ==
  ASSUME ViewsInv, NEW q \in Procs, NEW r, r = req[q], r.op = "list", r.pc = "read",
         NEW rows \in SUBSET Rows, NEW total, NEW mixed \in BOOLEAN,
         kind \in Narrowed["list"] /\ r.user # All => \A z \in rows : Own(z, r.user),
         ~r.shifted /\ ~r.mixed /\ ~mixed =>
             /\ \A x \in r.there :
                   Place(row, Expected(row, r), x, r.sort, r.dir) <= r.page * Limit => x \in r.shown \cup rows
             /\ ~HasNext(total, r.page) => r.there \subseteq r.shown \cup rows,
         Turn(q, rows, total, mixed)
  PROVE  ViewsInv'
<1>1. TableOk /\ CacheOk /\ AskOk(r)
  BY InvParts DEF AsksOk
<1>2. r \in Askings("list") /\ ReadingOk(r) /\ WalkOk(r) /\ OwnRows(r) /\ row \in Tables
  BY <1>1 DEF AskOk, StateOk, TableOk
<1>3. PICK b, mx, y, z :
         /\ b = (r.mixed \/ mixed) /\ mx = r.shown \cup rows
         /\ y = [r EXCEPT !.shown = mx, !.mixed = b, !.seen = {row}, !.page = r.page + 1]
         /\ z = [r EXCEPT !.shown = mx, !.mixed = b, !.pc = "done", !.seen = {}, !.page = 1,
                         !.sort = None, !.dir = None]
  OBVIOUS
<1>4. b \in BOOLEAN /\ mx \in SUBSET Rows /\ {row} \in SUBSET Tables /\ r.page + 1 \in Nat \ {0}
  BY <1>2, <1>3 DEF Askings
<1>5. CASE HasNext(total, r.page)
  <2>1. req' = [req EXCEPT ![q] = y] /\ UNCHANGED <<Untouched, cache>>
    BY <1>2, <1>3, <1>5 DEF Turn, Askings
  <2>2. /\ y.op = "list" /\ y.pc = "read" /\ y.user = r.user /\ y.scope = r.scope /\ y.filter = r.filter
        /\ y.sort = r.sort /\ y.dir = r.dir /\ y.seen = {row} /\ y.since = r.since /\ y.crossed = r.crossed
        /\ y.page = r.page + 1 /\ y.there = r.there /\ y.shown = mx /\ y.shifted = r.shifted
        /\ y.mixed = b /\ y.answer = r.answer
    BY <1>2, <1>3 DEF Askings
  <2>3. y \in Askings("list")
    <3>1. /\ r.op = "list" /\ r.user \in Scopes \cup {None} /\ r.since \in SUBSET (1..writes)
          /\ r.scope \in Scopes \cup {{w} : w \in Warehouses} \cup {None} /\ r.filter \in Filters \cup {None}
          /\ r.sort \in {"created", "rank", None} /\ r.dir \in {"asc", "desc", None} /\ r.crossed \in BOOLEAN /\ r.there \in SUBSET Rows
          /\ r.shifted \in BOOLEAN /\ r.answer \in {None} \cup Answers("list")
      BY <1>2 DEF Askings
    <3>2. y = [op |-> "list", pc |-> "read", user |-> r.user, scope |-> r.scope, filter |-> r.filter,
               sort |-> r.sort, dir |-> r.dir, seen |-> {row}, since |-> r.since, crossed |-> r.crossed,
               page |-> r.page + 1, there |-> r.there, shown |-> mx, shifted |-> r.shifted,
               mixed |-> b, answer |-> r.answer]
      BY <1>2, <1>3 DEF Askings
    <3> QED
      BY <1>4, <3>1, <3>2 DEF Askings
  <2>4. ReadingOk(y)
    <3>1. IsFiniteSet({row}) /\ \A t \in {row}, x \in Rows : t[x].at \in row[x].been
      BY <1>1, FS_Singleton DEF TableOk
    <3> QED
      BY <1>2, <1>4, <2>2, <3>1 DEF ReadingOk
  <2>5. WalkOk(y)
    <3>2. Expected(row, y) = Expected(row, r) /\ Overfull(row, y) = Overfull(row, r)
      BY <2>2 DEF Expected, Overfull
    <3> SUFFICES ASSUME ~r.shifted
                 PROVE  WalkAt(row, row, y) /\ ~Tied(row, Expected(row, r), r.sort)
      BY <2>2, <3>2, WalkIs
    <3>1. WalkAt(row, row, r) /\ ~Tied(row, Expected(row, r), r.sort)
      BY <1>2, WalkIs DEF ReadingOk
    <3>3. ASSUME ~y.mixed PROVE Passed(row, y)
      <4>1. ~r.mixed /\ ~mixed
        BY <1>3, <2>2, <3>3
      <4>2. (y.page - 1) * Limit = r.page * Limit
        BY <1>2, <2>2 DEF Askings
      <4> QED
        BY <1>3, <2>2, <3>2, <3>3, <4>1, <4>2 DEF Passed
    <3> QED
      BY <2>2, <3>1, <3>2, <3>3 DEF WalkAt
  <2>6. CountOk(y) /\ DoneOk(y)
    BY <2>2 DEF CountOk, DoneOk
  <2>7. OwnRows(y)
    BY <1>2, <1>3, <2>2 DEF OwnRows
  <2>8. AskOk(y)
    BY <2>2, <2>3, <2>4, <2>5, <2>6, <2>7 DEF AskOk, StateOk
  <2>9. CacheOk'
    BY <1>1, <2>1, SameCache DEF Untouched
  <2> QED
    BY <2>1, <2>8, <2>9, OneStep
<1>6. CASE ~HasNext(total, r.page)
  <2>1. req' = [req EXCEPT ![q] = z] /\ UNCHANGED <<Untouched, cache>>
    BY <1>2, <1>3, <1>6 DEF Turn, Askings
  <2>2. /\ z.op = "list" /\ z.pc = "done" /\ z.user = r.user /\ z.there = r.there /\ z.shown = mx
        /\ z.shifted = r.shifted /\ z.mixed = b
    BY <1>2, <1>3 DEF Askings
  <2>3. z \in Askings("list")
    <3>1. /\ r.op = "list" /\ r.user \in Scopes \cup {None} /\ r.since \in SUBSET (1..writes)
          /\ r.scope \in Scopes \cup {{w} : w \in Warehouses} \cup {None} /\ r.filter \in Filters \cup {None}
          /\ r.sort \in {"created", "rank", None} /\ r.dir \in {"asc", "desc", None} /\ r.crossed \in BOOLEAN /\ r.there \in SUBSET Rows
          /\ r.shifted \in BOOLEAN /\ r.answer \in {None} \cup Answers("list")
      BY <1>2 DEF Askings
    <3>2. z = [op |-> "list", pc |-> "done", user |-> r.user, scope |-> r.scope, filter |-> r.filter,
               sort |-> None, dir |-> None, seen |-> {}, since |-> r.since, crossed |-> r.crossed,
               page |-> 1, there |-> r.there, shown |-> mx, shifted |-> r.shifted,
               mixed |-> b, answer |-> r.answer]
      BY <1>2, <1>3 DEF Askings
    <3> QED
      BY <1>4, <3>1, <3>2 DEF Askings
  <2>4. ReadingOk(z) /\ WalkOk(z) /\ CountOk(z)
    BY <2>2 DEF ReadingOk, WalkOk, CountOk
  <2>5. DoneOk(z)
    BY <1>3, <1>6, <2>2 DEF DoneOk
  <2>6. OwnRows(z)
    BY <1>2, <1>3, <2>2 DEF OwnRows
  <2>7. AskOk(z)
    BY <2>2, <2>3, <2>4, <2>5, <2>6 DEF AskOk, StateOk
  <2>8. CacheOk'
    BY <1>1, <2>1, SameCache DEF Untouched
  <2> QED
    BY <2>1, <2>7, <2>8, OneStep
<1> QED
  BY <1>5, <1>6

\* The rows of a page are the user's own.
LEMMA PageIsOwn ==
  ASSUME NEW r, ReadingOk(r), r.op = "list", r.pc = "read", kind \in Narrowed["list"], r.user # All,
         NEW t \in r.seen, NEW f, NEW z \in Lists(t, r.scope, f)
  PROVE  Own(z, r.user)
<1>1. kind # "item"
  BY DEF Narrowed
<1>2. r.scope # All /\ r.scope \subseteq r.user
  BY <1>1 DEF ReadingOk
<1>3. Own(z, r.scope)
  <2>1. PICK S : S = r.scope
    OBVIOUS
  <2>2. \A x \in Rows : t[x].at \in row[x].been
    BY DEF ReadingOk
  <2>3. \A x \in Lists(t, S, f) : Own(x, S)
    BY <1>2, <2>1, <2>2, ListedOwn
  <2> QED
    BY <2>1, <2>3
<1> QED
  BY <1>2, <1>3, OwnInside

LEMMA ReadPageKeeps ==
  ASSUME ViewsInv, NEW q \in Procs, ReadPage(q)
  PROVE  ViewsInv'
<1>1. PICK r : r = req[q]
  OBVIOUS
<1>2. r.op = "list" /\ r.pc = "read"
  BY <1>1 DEF ReadPage, At
<1>3. PICK t1, t2, page :
         /\ t1 \in r.seen /\ t2 \in r.seen /\ page \in Pages(t1, Expected(t1, r), r.page, r.sort, r.dir)
         /\ Turn(q, page, Cardinality(Expected(t2, r)), t1 # t2)
  BY <1>1 DEF ReadPage
<1>4. PICK total, mixed : total = Cardinality(Expected(t2, r)) /\ mixed = (t1 # t2)
  OBVIOUS
<1>5. AskOk(r) /\ ReadingOk(r) /\ kind \in ListKinds
  BY <1>1, InvParts DEF AsksOk, AskOk, StateOk, TableOk
<1>6. page \subseteq Expected(t1, r) /\ page \in SUBSET Rows /\ mixed \in BOOLEAN
  <2>1. Expected(t1, r) \subseteq Rows
    BY <1>5, ListedLive DEF Expected
  <2>2. PICK E, n, sort, dir : E = Expected(t1, r) /\ n = r.page /\ sort = r.sort /\ dir = r.dir
    OBVIOUS
  <2>3. page \subseteq E
    <3>1. page \in Pages(t1, E, n, sort, dir) /\ E \subseteq Rows
      BY <1>3, <2>1, <2>2
    <3> QED
      BY <3>1, PageHas
  <2> QED
    BY <1>4, <2>1, <2>2, <2>3
<1>7. kind \in Narrowed["list"] /\ r.user # All => \A z \in page : Own(z, r.user)
  BY <1>2, <1>3, <1>5, <1>6, PageIsOwn DEF Expected
<1>8. ~r.shifted /\ ~r.mixed /\ ~mixed =>
         /\ \A x \in r.there :
               Place(row, Expected(row, r), x, r.sort, r.dir) <= r.page * Limit => x \in r.shown \cup page
         /\ ~HasNext(total, r.page) => r.there \subseteq r.shown \cup page
  BY <1>2, <1>3, <1>4, <1>5, PageIsEnough
<1>9. Turn(q, page, total, mixed)
  BY <1>3, <1>4
<1> QED
  BY <1>1, <1>2, <1>6, <1>7, <1>8, <1>9, TurnKeeps

\* While there are not too many, all the documents that are owing are candidates.
LEMMA AllConsidered ==
  ASSUME kind \in {"sale", "purchase"}, NEW t \in Tables, NEW r, r.filter = "owing", ~Overfull(t, r)
  PROVE  {x \in Candidates(t, r.scope, r.dir) : t[x].owing} = Expected(t, r)
<1>1. PICK A : A = Lists(t, r.scope, "ACTIVE")
  OBVIOUS
<1>2. A \subseteq Rows
  BY <1>1, ListedLive DEF ListKinds, Counted
<1>3. Cardinality(A) \in Nat /\ Cardinality(A) <= Cut
  <2>1. Cardinality(A) \in Nat
    BY <1>2, ViewsAssumption, FS_Subset, FS_CardinalityType
  <2> QED
    BY <1>1, <2>1, ViewsAssumption DEF Overfull
<1>4. ASSUME NEW x \in A PROVE Place(t, A, x, "created", r.dir) <= Cut
  <2>1. /\ Place(t, A, x, "created", r.dir) \in Nat
        /\ Place(t, A, x, "created", r.dir) <= Cardinality(A)
    BY <1>2, PlaceIn
  <2> QED
    BY <1>3, <2>1, ViewsAssumption
<1>5. Candidates(t, r.scope, r.dir) = A
  BY <1>1, <1>4 DEF Candidates
<1>6. Expected(t, r) = {x \in A : t[x].owing}
  BY <1>1, OwingListed DEF Expected
<1> QED
  BY <1>5, <1>6

LEMMA ReadOwingKeeps ==
  ASSUME ViewsInv, NEW q \in Procs, ReadOwing(q)
  PROVE  ViewsInv'
<1>1. PICK r : r = req[q]
  OBVIOUS
<1>2. r.op = "list" /\ r.pc = "read" /\ r.filter = "owing"
  BY <1>1 DEF ReadOwing, At
<1>3. PICK t1, t2, left :
         /\ t1 \in r.seen /\ t2 \in r.seen
         /\ left = {x \in Candidates(t1, r.scope, r.dir) : t2[x].owing}
         /\ \E page \in Pages(t1, left, r.page, r.sort, r.dir) : Turn(q, page, Cardinality(left), t1 # t2)
  BY <1>1 DEF ReadOwing
<1>4. PICK page \in Pages(t1, left, r.page, r.sort, r.dir) : Turn(q, page, Cardinality(left), t1 # t2)
  BY <1>3
<1>5. PICK total, mixed : total = Cardinality(left) /\ mixed = (t1 # t2)
  OBVIOUS
<1>6. AskOk(r) /\ ReadingOk(r) /\ kind \in ListKinds /\ r.seen \subseteq Tables /\ WalkOk(r)
  BY <1>1, InvParts DEF AsksOk, AskOk, StateOk, TableOk, Askings
<1>7. kind \in {"sale", "purchase"}
  BY <1>2, <1>6 DEF ReadingOk
<1>8. page \subseteq Lists(t1, r.scope, "ACTIVE")
  <2>1. left \subseteq Lists(t1, r.scope, "ACTIVE") /\ left \subseteq Rows
    BY <1>3, <1>6, ListedLive DEF Candidates
  <2>2. page \subseteq left
    BY <1>4, <2>1, PageHas
  <2> QED
    BY <2>1, <2>2
<1>9. page \in SUBSET Rows /\ mixed \in BOOLEAN
  BY <1>5, <1>6, <1>8, ListedLive
<1>10. kind \in Narrowed["list"] /\ r.user # All => \A z \in page : Own(z, r.user)
  BY <1>2, <1>3, <1>6, <1>8, PageIsOwn
<1>11. ~r.shifted /\ ~r.mixed /\ ~mixed =>
         /\ \A x \in r.there :
               Place(row, Expected(row, r), x, r.sort, r.dir) <= r.page * Limit => x \in r.shown \cup page
         /\ ~HasNext(total, r.page) => r.there \subseteq r.shown \cup page
  <2> SUFFICES ASSUME ~r.shifted, ~r.mixed, ~mixed
               PROVE  /\ \A x \in r.there :
                            Place(row, Expected(row, r), x, r.sort, r.dir) <= r.page * Limit => x \in r.shown \cup page
                      /\ ~HasNext(total, r.page) => r.there \subseteq r.shown \cup page
    OBVIOUS
  <2>1. t1 = t2 /\ t1 \in Tables
    BY <1>3, <1>5, <1>6
  <2>2. ~Overfull(t1, r)
    BY <1>2, <1>3, <1>6, WalkIs DEF WalkAt
  <2>3. left = Expected(t1, r)
    BY <1>2, <1>3, <1>7, <2>1, <2>2, AllConsidered
  <2> QED
    BY <1>2, <1>3, <1>4, <1>5, <1>6, <2>3, PageIsEnough
<1>12. Turn(q, page, total, mixed)
  BY <1>4, <1>5
<1> QED
  BY <1>1, <1>2, <1>9, <1>10, <1>11, <1>12, TurnKeeps

----------------------------------------------------------------------------
(* The theorems.                                                           *)

LEMMA UnaskedOk ==
  ASSUME NEW x \in {Idle, Absent}
  PROVE  AskOk(x)
<1>1. PICK at \in {"new", "done"} :
        x = [op |-> None, pc |-> at, user |-> None, scope |-> None, filter |-> None,
             sort |-> None, dir |-> None, seen |-> {}, since |-> {}, crossed |-> FALSE, page |-> 1,
             there |-> {}, shown |-> {}, shifted |-> FALSE, mixed |-> FALSE, answer |-> None]
  BY DEF Idle, Absent
<1>2. x \in Askings(x.op)
  BY <1>1 DEF Askings
<1>3. ReadingOk(x) /\ CountOk(x) /\ WalkOk(x) /\ OwnRows(x)
  BY <1>1 DEF ReadingOk, CountOk, WalkOk, OwnRows
<1>4. DoneOk(x)
  BY <1>1, ViewsAssumption DEF DoneOk
<1> QED
  BY <1>2, <1>3, <1>4 DEF AskOk, StateOk

LEMMA ViewsStarts == ViewsInit => ViewsInv
<1> SUFFICES ASSUME ViewsInit PROVE ViewsInv
  OBVIOUS
<1>1. CacheOk
  BY DEF ViewsInit, CacheOk, Kept, EditsShow
<1>2. TableOk
  <2>1. PICK scene \in Scenes : kind = scene.kind /\ writes = MaxWrites - scene.left
    BY DEF ViewsInit
  <2>2. kind \in ListKinds /\ writes \in 0..MaxWrites
    BY <2>1, ViewsAssumption
  <2>3. PICK s \in Born :
          row = [r \in Rows |->
                   LET there == r \in DOMAIN Present
                       n == IF there THEN Present[r] ELSE 0
                   IN [state |-> IF there THEN "live" ELSE "none", status |-> s,
                       owing |-> there /\ s = "ACTIVE", created |-> n, rank |-> n,
                       at |-> First[r], been |-> {First[r]}]]
    BY DEF ViewsInit
  <2>4. ASSUME NEW r \in Rows
        PROVE  /\ row[r] \in RowSet /\ row[r].at \in row[r].been
               /\ row[r].created <= writes
               /\ row[r].state # "none" => r \in DOMAIN Present /\ row[r].created = Present[r]
    <3>1. PICK there, n, home, owing :
             /\ there = (r \in DOMAIN Present) /\ home = First[r] /\ owing = (there /\ s = "ACTIVE")
             /\ n = IF there THEN Present[r] ELSE 0
      OBVIOUS
    <3>2. n \in Int /\ n <= 0 /\ home \in Homes /\ s \in Statuses /\ owing \in BOOLEAN
      <4>1. home \in Homes /\ s \in Statuses /\ owing \in BOOLEAN
        BY <3>1, BornFits, ViewsAssumption
      <4>2. CASE r \in DOMAIN Present
        <5>1. n = Present[r]
          BY <3>1, <4>2
        <5>2. \A x \in DOMAIN Present : Present[x] \in Int /\ Present[x] <= 0
          BY ViewsAssumption
        <5>3. n \in Int /\ n <= 0
          BY <4>2, <5>1, <5>2
        <5> QED
          BY <4>1, <5>3
      <4>3. CASE r \notin DOMAIN Present
        <5>1. n = 0
          BY <3>1, <4>3
        <5> QED
          BY <4>1, <5>1
      <4> QED
        BY <4>2, <4>3
    <3>3. PICK st \in {"live", "none"} :
             /\ st = IF there THEN "live" ELSE "none"
             /\ row[r] = [state |-> st, status |-> s, owing |-> owing, created |-> n, rank |-> n,
                          at |-> home, been |-> {home}]
      BY <2>3, <3>1
    <3>4. row[r] \in RowSet /\ row[r].at \in row[r].been
      BY <3>2, <3>3 DEF RowSet
    <3>5. row[r].created <= writes
      BY <2>2, <3>2, <3>3, ViewsAssumption
    <3>6. row[r].state # "none" => r \in DOMAIN Present /\ row[r].created = Present[r]
      <4>1. row[r].state = st /\ row[r].created = n
        BY <3>3
      <4>2. CASE ~there
        BY <3>3, <4>1, <4>2
      <4>3. CASE there
        BY <3>1, <4>1, <4>3
      <4> QED
        BY <4>2, <4>3
    <3> QED
      BY <3>4, <3>5, <3>6
  <2>5. row \in Tables
    BY <2>3, <2>4 DEF Tables, RowSet
  <2>6. Dated(row)
    BY <2>4, ViewsAssumption DEF Dated
  <2> QED
    BY <2>2, <2>4, <2>5, <2>6 DEF TableOk, ViewsInit
<1>3. AsksOk
  <2>1. \A q \in Procs : req[q] \in {Idle, Absent}
    BY DEF ViewsInit
  <2>2. req = [q \in Procs |-> req[q]]
    BY DEF ViewsInit
  <2> QED
    BY <2>1, <2>2, UnaskedOk DEF AsksOk
<1> QED
  BY <1>1, <1>2, <1>3, InvParts

LEMMA ViewsStutters == ViewsInv /\ UNCHANGED viewsVars => ViewsInv'
<1> SUFFICES ASSUME ViewsInv, UNCHANGED viewsVars PROVE ViewsInv'
  OBVIOUS
<1> USE DEF viewsVars
<1>1. CacheOk /\ TableOk /\ AsksOk
  BY InvParts
<1>2. CacheOk'
  BY <1>1, SameCache
<1>3. TableOk'
  BY <1>1, SameTable DEF TableOk
<1>4. AsksOk'
  BY <1>1, SameState DEF AsksOk
<1> QED
  BY <1>2, <1>3, <1>4, InvPartsNext

LEMMA ViewsSteps == ViewsInv /\ ViewsNext => ViewsInv'
<1> SUFFICES ASSUME ViewsInv, ViewsNext PROVE ViewsInv'
  OBVIOUS
<1>0. Viewers \subseteq Procs /\ Readers \subseteq Procs
  BY ViewsAssumption DEF Readers
<1>1. CASE \E r \in Rows : Insert(r) \/ Change(r) \/ Pay(r) \/ SoftDelete(r) \/ Restore(r) \/ Delete(r)
  BY <1>1, WritesKeep
<1>9. CASE \E r \in Rows : (\E k \in Ranks : Rename(r, k)) \/ \E a \in Homes : Relocate(r, a)
  BY <1>9, WritesKeep
<1>2. CASE \E n \in owed : Clear(n) \/ AuditFails(n)
  BY <1>2, ClearKeeps, AuditKeeps
<1>3. CASE \E k \in Keys : Forget(k)
  BY <1>3, ForgetKeeps
<1>4. CASE \E q \in Viewers, S \in Scopes : AskCount(q, S) \/ AskCategories(q, S) \/ AskLocations(q, S)
  <2>1. PICK q \in Viewers, S \in Scopes : AskCount(q, S) \/ AskCategories(q, S) \/ AskLocations(q, S)
    BY <1>4
  <2> QED
    BY <1>0, <2>1, AskKeeps DEF AskCount, AskCategories, AskLocations, Summaries
<1>5. CASE \E q \in Viewers : Count(q) \/ Categories(q) \/ Locations(q)
  BY <1>0, <1>5, CountKeeps, CategoriesKeep, LocationsKeep
<1>6. CASE \E q \in Readers, S \in Scopes, w \in Warehouses \cup {None}, f \in Filters :
              \E sort \in {"created", "rank"}, dir \in {"asc", "desc"} : BeginList(q, S, w, f, sort, dir)
  BY <1>0, <1>6, BeginListKeeps
<1>7. CASE \E q \in Readers, S \in Scopes : Glance(q, S) \/ \E r \in Rows : Open(q, S, r)
  BY <1>0, <1>7, GlanceKeeps, OpenKeeps
<1>8. CASE \E q \in Readers : ReadPage(q) \/ ReadOwing(q)
  BY <1>0, <1>8, ReadPageKeeps, ReadOwingKeeps
<1> QED
  BY <1>1, <1>2, <1>3, <1>4, <1>5, <1>6, <1>7, <1>8, <1>9 DEF ViewsNext

\* What lists, counters and the cache hold at every moment: the types, what each
\* request has read and shown so far, and what is kept for whom.
THEOREM ViewsSafe == ViewsSpec => []ViewsInv
<1>1. ViewsInv /\ [ViewsNext]_viewsVars => ViewsInv'
  BY ViewsSteps, ViewsStutters
<1> QED
  BY <1>1, ViewsStarts, PTL DEF ViewsSpec

\* The documents a user is shown by their list or by id, the rows of the short lists
\* and the categories, out of the cache too, are or were of the user's warehouses,
\* through every edit of where a row is.  The inventory's list, items and discharges by
\* id, stock takes and alerts are not narrowed to them in the code: they are left out.
THEOREM OwnAnswers == ViewsSpec => []ScopedAnswers
<1>1. ViewsInv => ScopedAnswers
  BY DEF ViewsInv
<1> QED
  BY <1>1, ViewsSafe, PTL

\* What is kept shows every item write that has wiped the cache, unless a wipe came
\* while it was being read.
THEOREM EditsSeen == ViewsSpec => []EditsShow
<1>1. ViewsInv => EditsShow
  BY DEF ViewsInv
<1> QED
  BY <1>1, ViewsSafe, PTL

\* The counters of an answer add up to the documents there are, within one for each
\* write that came between the queries they were read by.
THEOREM CountersAddUp == ViewsSpec => []PartsAddUp
<1>1. ViewsInv => PartsAddUp
  BY DEF ViewsInv
<1> QED
  BY <1>1, ViewsSafe, PTL

\* A user who pages to the end has seen every row the list held at the start,
\* whatever came in meanwhile, unless a row left it, or was given another place in it,
\* or shared one, or a page and its total were read on either side of a write.
THEOREM WalksComplete == ViewsSpec => []WalkShowsAll
<1>1. ViewsInv => WalkShowsAll
  BY DEF ViewsInv
<1> QED
  BY <1>1, ViewsSafe, PTL

-----------------------------------------------------------------------------
(* Numbering: the sequences have no gaps and no races, and a range gives     *)
(* numbers only while it is in force.                                        *)

USE NumberingAssumption

\* The invariant in parts, as the steps below keep them.
LEMMA PartsAt ==
  ASSUME IInv, NEW p \in Procs
  PROVE  DocOk(p) /\ RangeOk(p) /\ TakenOk(p)
BY DEF IInv, RequestInv

LEMMA InitInv == Init => IInv
<1> SUFFICES ASSUME Init PROVE IInv
  OBVIOUS
<1>1. TypeOK
  BY DEF Init, TypeOK, Row, NoRow, Labels
<1>2. RequestInv
  BY DEF Init, RequestInv, DocOk, RangeOk, TakenOk
<1>3. ASSUME NEW k \in Kinds PROVE Places(k) = 1 .. (counter[k] - 1)
  <2>1. Places(k) = {}
    BY DEF Init, Places
  <2>2. counter[k] = 1
    BY DEF Init
  <2> QED
    BY <2>1, <2>2
<1> QED
  BY <1>1, <1>2, <1>3 DEF IInv, Gapless

\* Nobody but p is touched by the end of its transaction.
LEMMA EndFrame ==
  ASSUME TypeOK, NEW p \in Procs, End(p)
  PROVE  /\ pc'[p] = "idle" /\ doc'[p] = None /\ got'[p] = None
         /\ \A q \in Procs \ {p} :
               /\ pc'[q] = pc[q] /\ doc'[q] = doc[q] /\ got'[q] = got[q]
               /\ taken'[q] = taken[q] /\ edited'[q] = edited[q] /\ change'[q] = change[q]
               /\ configLock' = q <=> configLock = q
               /\ \A r \in Ranges : rangeLock'[r] = q <=> rangeLock[r] = q
         /\ configLock' # p
         /\ \A r \in Ranges : rangeLock'[r] # p
BY DEF End, Goto, TypeOK

LEMMA EndTypes ==
  ASSUME TypeOK, NEW p \in Procs, End(p)
  PROVE  /\ rangeLock' \in [Ranges -> Procs \cup {None}]
         /\ configLock' \in Procs \cup {None}
         /\ pc' \in [Procs -> Labels]
         /\ doc' \in [Procs -> Docs \cup {None}]
         /\ cand' \in [Procs -> SUBSET Ranges]
         /\ got' \in [Procs -> Ranges \cup {None}]
         /\ taken' \in [Procs -> Numbers \cup {None}]
         /\ edited' \in [Procs -> Ranges \cup {None}]
         /\ change' \in [Procs -> Changes \cup {NoRow}]
BY DEF End, Goto, TypeOK, Labels

LEMMA RollbackInv ==
  ASSUME IInv, NEW p \in Procs, Rollback(p)
  PROVE  IInv'
<1>1. TypeOK /\ End(p) /\ UNCHANGED <<range, counter, number>>
  BY DEF IInv, Rollback
<1>2. TypeOK'
  BY <1>1, EndTypes DEF TypeOK
<1>3. ASSUME NEW q \in Procs PROVE DocOk(q)' /\ RangeOk(q)' /\ TakenOk(q)'
  <2>1. CASE q = p
    BY <1>1, <2>1, EndFrame DEF DocOk, RangeOk, TakenOk
  <2>2. CASE q # p
    <3>1. DocOk(q) /\ RangeOk(q) /\ TakenOk(q)
      BY PartsAt
    <3>2. DocOk(q)'
      BY <1>1, <2>2, <3>1, EndFrame DEF DocOk, TypeOK
    <3>3. RangeOk(q)'
      BY <1>1, <2>2, <3>1, EndFrame DEF RangeOk, TypeOK
    <3>4. TakenOk(q)'
      BY <1>1, <2>2, <3>1, EndFrame DEF TakenOk, Sequence
    <3> QED
      BY <3>2, <3>3, <3>4
  <2> QED
    BY <2>1, <2>2
<1>4. Gapless'
  BY <1>1 DEF IInv, Gapless, Places
<1> QED
  BY <1>2, <1>3, <1>4 DEF IInv, RequestInv

\* A step of p that only takes it further in its own transaction: what it says
\* of itself must be shown, the others and the sequences are as they were.
LEMMA StepFrame ==
  ASSUME IInv, NEW p \in Procs, TypeOK',
         UNCHANGED <<range, counter, number>>,
         \A q \in Procs \ {p} :
            /\ pc'[q] = pc[q] /\ doc'[q] = doc[q] /\ got'[q] = got[q]
            /\ taken'[q] = taken[q] /\ edited'[q] = edited[q] /\ change'[q] = change[q]
            /\ configLock' = q <=> configLock = q
            /\ \A r \in Ranges : rangeLock'[r] = q <=> rangeLock[r] = q
            /\ doc[q] # None => doc'[p] # doc[q],
         DocOk(p)', RangeOk(p)', TakenOk(p)'
  PROVE  IInv'
<1>1. ASSUME NEW q \in Procs \ {p} PROVE DocOk(q)' /\ RangeOk(q)' /\ TakenOk(q)'
  <2>1. DocOk(q) /\ RangeOk(q) /\ TakenOk(q)
    BY PartsAt
  <2>2. DocOk(q)'
    BY <2>1 DEF DocOk
  <2>3. RangeOk(q)'
    BY <2>1 DEF RangeOk, IInv, TypeOK
  <2>4. TakenOk(q)'
    BY <2>1 DEF TakenOk, Sequence
  <2> QED
    BY <2>2, <2>3, <2>4
<1>2. Gapless'
  BY DEF IInv, Gapless, Places
<1> QED
  BY <1>1, <1>2 DEF IInv, RequestInv

\* The statements of a document's transaction up to its number.
LEMMA NumberingInv ==
  ASSUME IInv, NEW p \in Procs,
         \/ \E d \in Docs : Start(p, d)
         \/ \E r \in Ranges : LockRange(p, r) \/ SkipRange(p, r)
         \/ Scan(p) \/ TakeFromRange(p) \/ FallBack(p) \/ LockConfig(p)
  PROVE  IInv'
<1>0. TypeOK /\ DocOk(p) /\ RangeOk(p) /\ TakenOk(p)
  BY PartsAt DEF IInv
<1> USE DEF Goto
<1>1. ASSUME NEW d \in Docs, Start(p, d) PROVE IInv'
  <2>1. TypeOK'
    BY <1>0, <1>1 DEF Start, TypeOK, ranges, edit, Labels
  <2>2. DocOk(p)'
    BY <1>0, <1>1 DEF Start, TypeOK, DocOk, RangeOk, ranges
  <2>3. RangeOk(p)'
    BY <1>0, <1>1 DEF Start, TypeOK, RangeOk, ranges, edit
  <2>4. TakenOk(p)'
    BY <1>0, <1>1 DEF Start, TypeOK, TakenOk
  <2> QED
    BY <1>0, <1>1, <2>1, <2>2, <2>3, <2>4, StepFrame DEF Start, TypeOK, ranges, edit
<1>2. ASSUME NEW r \in Ranges, LockRange(p, r) PROVE IInv'
  <2>1. TypeOK'
    BY <1>0, <1>2 DEF LockRange, TypeOK, edit
  <2>2. DocOk(p)'
    BY <1>0, <1>2 DEF LockRange, TypeOK, DocOk
  <2>3. RangeOk(p)'
    BY <1>0, <1>2 DEF LockRange, Qualifies, TypeOK, RangeOk, edit
  <2>4. TakenOk(p)'
    BY <1>0, <1>2 DEF LockRange, TypeOK, TakenOk
  <2>5. \A q \in Procs \ {p} : doc[q] # None => doc'[p] # doc[q]
    BY <1>0, <1>2 DEF LockRange, DocOk
  <2> QED
    BY <1>0, <1>2, <2>1, <2>2, <2>3, <2>4, <2>5, StepFrame DEF LockRange, TypeOK, edit
<1>3. ASSUME NEW r \in Ranges, SkipRange(p, r) PROVE IInv'
  <2>1. TypeOK'
    BY <1>0, <1>3 DEF SkipRange, TypeOK, edit
  <2>2. DocOk(p)' /\ RangeOk(p)' /\ TakenOk(p)'
    BY <1>0, <1>3 DEF SkipRange, DocOk, RangeOk, TakenOk, Sequence, edit
  <2>3. \A q \in Procs \ {p} : doc[q] # None => doc'[p] # doc[q]
    BY <1>0, <1>3 DEF SkipRange, DocOk
  <2> QED
    BY <1>0, <1>3, <2>1, <2>2, <2>3, StepFrame DEF SkipRange, edit
<1>4. CASE Scan(p)
  <2>1. TypeOK'
    BY <1>0, <1>4 DEF Scan, Active, TypeOK, edit, Labels
  <2>2. DocOk(p)' /\ RangeOk(p)' /\ TakenOk(p)'
    BY <1>0, <1>4 DEF Scan, TypeOK, DocOk, RangeOk, TakenOk, edit
  <2>3. \A q \in Procs \ {p} : doc[q] # None => doc'[p] # doc[q]
    BY <1>0, <1>4 DEF Scan, DocOk
  <2> QED
    BY <1>0, <1>4, <2>1, <2>2, <2>3, StepFrame DEF Scan, TypeOK, edit
<1>5. CASE TakeFromRange(p)
  <2>1. TypeOK'
    BY <1>0, <1>5 DEF TakeFromRange, TypeOK, Numbers, Row, ranges, edit, Labels
  <2>2. DocOk(p)'
    BY <1>0, <1>5 DEF TakeFromRange, TypeOK, DocOk, ranges
  <2>3. RangeOk(p)'
    BY <1>0, <1>5 DEF TakeFromRange, TypeOK, RangeOk, ranges, edit
  <2>4. TakenOk(p)'
    BY <1>0, <1>5 DEF TakeFromRange, Usable, TypeOK, TakenOk, ranges
  <2>5. \A q \in Procs \ {p} : doc[q] # None => doc'[p] # doc[q]
    BY <1>0, <1>5 DEF TakeFromRange, DocOk
  <2> QED
    BY <1>0, <1>5, <2>1, <2>2, <2>3, <2>4, <2>5, StepFrame DEF TakeFromRange, TypeOK, ranges, edit
<1>6. CASE FallBack(p)
  <2>1. TypeOK'
    BY <1>0, <1>6 DEF FallBack, TypeOK, ranges, edit, Labels
  <2>2. DocOk(p)' /\ RangeOk(p)' /\ TakenOk(p)'
    BY <1>0, <1>6 DEF FallBack, TypeOK, DocOk, RangeOk, TakenOk, ranges, edit
  <2>3. \A q \in Procs \ {p} : doc[q] # None => doc'[p] # doc[q]
    BY <1>0, <1>6 DEF FallBack, DocOk
  <2> QED
    BY <1>0, <1>6, <2>1, <2>2, <2>3, StepFrame DEF FallBack, TypeOK, ranges, edit
<1>7. CASE LockConfig(p)
  <2>0. doc[p] \in Docs /\ Sequence(p) \in Kinds /\ got[p] = None
    BY <1>0, <1>7 DEF LockConfig, DocOk, RangeOk, Sequence
  <2>1. TypeOK'
    BY <1>0, <1>7, <2>0 DEF LockConfig, TypeOK, Numbers, ranges, edit, Labels
  <2>2. DocOk(p)'
    BY <1>0, <1>7, <2>0 DEF LockConfig, TypeOK, DocOk, ranges
  <2>3. RangeOk(p)'
    BY <1>0, <1>7, <2>0 DEF LockConfig, TypeOK, RangeOk, ranges, edit
  <2>4. TakenOk(p)'
    BY <1>0, <1>7, <2>0 DEF LockConfig, TypeOK, TakenOk, Sequence, ranges
  <2>5. \A q \in Procs \ {p} : doc[q] # None => doc'[p] # doc[q]
    BY <1>0, <1>7 DEF LockConfig, DocOk
  <2> QED
    BY <1>0, <1>7, <2>1, <2>2, <2>3, <2>4, <2>5, StepFrame DEF LockConfig, TypeOK, ranges, edit
<1> QED
  BY <1>1, <1>2, <1>3, <1>4, <1>5, <1>6, <1>7

\* What a request that saves its document holds.
LEMMA SaveFacts ==
  ASSUME IInv, NEW p \in Procs, Save(p)
  PROVE  /\ doc[p] \in Docs /\ number[doc[p]] = None
         /\ taken[p] \in Numbers /\ taken[p] # None
         /\ got[p] = None \/ got[p] \in Ranges
         /\ IF got[p] = None
            THEN /\ configLock = p /\ Sequence(p) \in Kinds
                 /\ taken[p] = <<Sequence(p), counter[Sequence(p)]>>
            ELSE /\ rangeLock[got[p]] = p /\ range[got[p]].active
                 /\ taken[p] = <<Series[got[p]], range[got[p]].next>>
                 /\ range[got[p]].next <= range[got[p]].end
<1>1. DocOk(p) /\ RangeOk(p) /\ TakenOk(p) /\ pc[p] = "save"
  BY PartsAt DEF Save
<1>2. doc[p] \in Docs /\ number[doc[p]] = None
  BY <1>1 DEF DocOk
<1>3. got[p] = None \/ got[p] \in Ranges
  BY DEF IInv, TypeOK
<1>4. Sequence(p) \in Kinds
  BY <1>2 DEF Sequence
<1>5. taken[p] \in Numbers
  <2>1. CASE got[p] = None
    <3>1. taken[p] = <<Sequence(p), counter[Sequence(p)]>>
      BY <1>1, <2>1 DEF TakenOk
    <3>2. counter[Sequence(p)] \in Nat
      BY <1>4 DEF IInv, TypeOK
    <3> QED
      BY <1>4, <3>1, <3>2 DEF Numbers
  <2>2. CASE got[p] \in Ranges
    <3>1. taken[p] = <<Series[got[p]], range[got[p]].next>>
      BY <1>1, <2>2 DEF TakenOk
    <3>2. range[got[p]].next \in Nat
      BY <2>2 DEF IInv, TypeOK, Row
    <3> QED
      BY <2>2, <3>1, <3>2 DEF Numbers
  <2> QED
    BY <1>3, <2>1, <2>2
<1>6. taken[p] # None
  BY <1>5
<1> QED
  BY <1>1, <1>2, <1>3, <1>4, <1>5, <1>6 DEF TakenOk, RangeOk

\* Saving a document uses up one number and no other.
LEMMA SaveGapless ==
  ASSUME IInv, NEW p \in Procs, Save(p)
  PROVE  Gapless'
<1>1. /\ doc[p] \in Docs /\ number[doc[p]] = None
      /\ taken[p] # None
      /\ number' = [number EXCEPT ![doc[p]] = taken[p]]
      /\ number \in [Docs -> Numbers \cup {None}]
  BY SaveFacts DEF Save, IInv, TypeOK
<1>2. \A e \in Docs \ {doc[p]} : number'[e] = number[e]
  BY <1>1
<1>3. number'[doc[p]] = taken[p]
  BY <1>1
<1>4. ASSUME NEW k \in Kinds, taken[p][1] # k PROVE Places(k)' = Places(k)
  <2>1. {e \in Docs : number'[e] # None /\ number'[e][1] = k}
        = {e \in Docs : number[e] # None /\ number[e][1] = k}
    BY <1>1, <1>2, <1>3, <1>4
  <2>2. \A e \in Docs : number[e] # None => number'[e] = number[e]
    BY <1>1, <1>2
  <2> QED
    BY <2>1, <2>2 DEF Places
<1>5. ASSUME NEW k \in Kinds, taken[p][1] = k
      PROVE  Places(k)' = Places(k) \cup {taken[p][2]}
  <2>1. {e \in Docs : number'[e] # None /\ number'[e][1] = k}
        = {e \in Docs : number[e] # None /\ number[e][1] = k} \cup {doc[p]}
    BY <1>1, <1>2, <1>3, <1>5
  <2>2. \A e \in Docs : number[e] # None => number'[e] = number[e]
    BY <1>1, <1>2
  <2> QED
    BY <1>3, <2>1, <2>2 DEF Places
<1>6. CASE got[p] # None
  <2>1. \A k \in Kinds : taken[p][1] # k
    BY <1>6, SaveFacts
  <2>2. \A k \in Kinds : counter'[k] = counter[k]
    BY <1>6 DEF Save
  <2> QED
    BY <1>4, <2>1, <2>2 DEF IInv, Gapless
<1>7. CASE got[p] = None
  <2> PICK s \in Kinds : s = Sequence(p)
    BY <1>7, SaveFacts
  <2>1. taken[p] = <<s, counter[s]>> /\ counter[s] \in Nat \ {0}
    BY <1>7, SaveFacts DEF IInv, TypeOK
  <2>2. counter'[s] = counter[s] + 1 /\ \A k \in Kinds \ {s} : counter'[k] = counter[k]
    BY <1>7 DEF Save
  <2>3. \A k \in Kinds \ {s} : Places(k)' = 1 .. (counter'[k] - 1)
    BY <1>4, <2>1, <2>2 DEF IInv, Gapless
  <2>4. Places(s)' = (1 .. (counter[s] - 1)) \cup {counter[s]}
    BY <1>5, <2>1 DEF IInv, Gapless
  <2>5. Places(s)' = 1 .. (counter'[s] - 1)
    BY <2>1, <2>2, <2>4
  <2> QED
    BY <2>3, <2>5 DEF Gapless
<1> QED
  BY <1>6, <1>7

\* The others' rows are locked against it: their numbers stay the next ones.
LEMMA SaveInv ==
  ASSUME IInv, NEW p \in Procs, Save(p)
  PROVE  IInv'
<1>1. TypeOK /\ End(p)
  BY DEF IInv, Save
<1>2. TypeOK'
  <2>1. range' \in [Ranges -> Row]
    BY <1>1 DEF Save, TypeOK, Row
  <2>2. counter' \in [Kinds -> Nat \ {0}]
    BY <1>1 DEF Save, TypeOK
  <2>3. number' \in [Docs -> Numbers \cup {None}]
    BY <1>1, SaveFacts DEF Save, TypeOK
  <2> QED
    BY <1>1, <2>1, <2>2, <2>3, EndTypes DEF TypeOK
<1>3. ASSUME NEW q \in Procs PROVE DocOk(q)' /\ RangeOk(q)' /\ TakenOk(q)'
  <2>1. CASE q = p
    BY <1>1, <2>1, EndFrame DEF DocOk, RangeOk, TakenOk
  <2>2. CASE q # p
    <3>1. DocOk(q) /\ RangeOk(q) /\ TakenOk(q) /\ DocOk(p)
      BY PartsAt
    <3>2. DocOk(q)'
      <4>1. doc[q] \in Docs => doc[q] # doc[p] /\ number'[doc[q]] = number[doc[q]]
        BY <2>2, <3>1, SaveFacts DEF DocOk, Save, IInv, TypeOK
      <4> QED
        BY <1>1, <2>2, <3>1, <4>1, EndFrame DEF DocOk
    <3>3. RangeOk(q)'
      <4>1. \A r \in Ranges : range'[r].active = range[r].active
        BY <1>1 DEF Save, TypeOK, Row
      <4> QED
        BY <1>1, <2>2, <3>1, <4>1, EndFrame DEF RangeOk, TypeOK
    <3>4. TakenOk(q)'
      <4>1. CASE pc[q] = "save" /\ got[q] = None
        <5>1. configLock = q /\ got[p] # None
          BY <2>2, <3>1, <4>1, SaveFacts DEF TakenOk
        <5>2. counter' = counter
          BY <1>1, <5>1 DEF Save, TypeOK
        <5> QED
          BY <1>1, <2>2, <3>1, <4>1, <5>2, EndFrame DEF TakenOk, Sequence
      <4>2. CASE pc[q] = "save" /\ got[q] # None
        <5>1. got[q] \in Ranges /\ rangeLock[got[q]] = q
          BY <1>1, <3>1, <4>2 DEF RangeOk, TypeOK
        <5>2. got[q] # got[p]
          BY <2>2, <5>1, SaveFacts
        <5>3. range'[got[q]] = range[got[q]]
          BY <5>1, <5>2 DEF Save
        <5> QED
          BY <1>1, <2>2, <3>1, <4>2, <5>3, EndFrame DEF TakenOk
      <4>3. CASE pc[q] # "save"
        BY <1>1, <2>2, <3>1, <4>3, EndFrame DEF TakenOk
      <4> QED
        BY <4>1, <4>2, <4>3
    <3> QED
      BY <3>2, <3>3, <3>4
  <2> QED
    BY <2>1, <2>2
<1> QED
  BY <1>2, <1>3, SaveGapless DEF IInv, RequestInv

\* An edit begins: it holds nothing, and nothing is written yet.
LEMMA BeginEditInv ==
  ASSUME IInv, NEW p \in Procs, NEW r \in Ranges, NEW c \in Changes,
         pc[p] = "idle", BeginEdit(p, r, c)
  PROVE  IInv'
<1>0. TypeOK /\ DocOk(p) /\ RangeOk(p) /\ TakenOk(p)
  BY PartsAt DEF IInv
<1>1. TypeOK'
  BY <1>0 DEF BeginEdit, Goto, TypeOK, ranges, Labels
<1>2. DocOk(p)'
  BY <1>0 DEF BeginEdit, Goto, TypeOK, DocOk, ranges
<1>3. RangeOk(p)'
  BY <1>0 DEF BeginEdit, Goto, TypeOK, RangeOk, ranges
<1>4. TakenOk(p)'
  BY <1>0 DEF BeginEdit, Goto, TypeOK, TakenOk, ranges
<1> QED
  BY <1>0, <1>1, <1>2, <1>3, <1>4, StepFrame DEF BeginEdit, Goto, TypeOK, DocOk, ranges

LEMMA EditInv ==
  ASSUME IInv, NEW p \in Procs, NEW r \in Ranges,
         \/ \E c \in Creates : CreateRange(p, r, c)
         \/ \E c \in Edits : UpdateRange(p, r, c)
  PROVE  IInv'
<1>0. range[r] \in Row
  BY DEF IInv, TypeOK
<1>1. ASSUME NEW c \in Creates, CreateRange(p, r, c) PROVE IInv'
  <2> DEFINE n == [at |-> "stored", start |-> c.start, end |-> c.end,
                   next |-> c.start, active |-> c.active, expired |-> c.expired]
  <2>1. n \in Changes
    BY DEF Changes
  <2>2. pc[p] = "idle" /\ BeginEdit(p, r, n)
    BY <1>1 DEF CreateRange
  <2> HIDE DEF n
  <2> QED
    BY <2>1, <2>2, BeginEditInv
<1>2. ASSUME NEW c \in Edits, UpdateRange(p, r, c) PROVE IInv'
  <2> DEFINE n == [at |-> None, start |-> c.start, end |-> c.end,
                   next |-> IF Issued(r) THEN None ELSE c.start,
                   active |-> c.active, expired |-> c.expired]
  <2>1. n \in Changes
    BY DEF Changes
  <2>2. pc[p] = "idle" /\ BeginEdit(p, r, n)
    BY <1>2 DEF UpdateRange
  <2> HIDE DEF n
  <2> QED
    BY <2>1, <2>2, BeginEditInv
<1> QED
  BY <1>1, <1>2

\* A step that edits the ranges outside a sale's locks: the rows that are locked,
\* and whoever holds them, are as they were.
LEMMA RangesFrame ==
  ASSUME IInv, NEW p \in Procs, TypeOK', UNCHANGED <<counter, number>>,
         \A r \in Ranges : rangeLock[r] # None =>
            /\ range'[r].active = range[r].active /\ range'[r].next = range[r].next
            /\ range'[r].end = range[r].end,
         \A q \in Procs \ {p} :
            /\ pc'[q] = pc[q] /\ doc'[q] = doc[q] /\ got'[q] = got[q]
            /\ taken'[q] = taken[q] /\ edited'[q] = edited[q] /\ change'[q] = change[q]
            /\ configLock' = q <=> configLock = q
            /\ \A r \in Ranges : rangeLock'[r] = q <=> rangeLock[r] = q
            /\ doc[q] # None => doc'[p] # doc[q],
         DocOk(p)', RangeOk(p)', TakenOk(p)'
  PROVE  IInv'
<1>1. ASSUME NEW q \in Procs \ {p} PROVE DocOk(q)' /\ RangeOk(q)' /\ TakenOk(q)'
  <2>1. DocOk(q) /\ RangeOk(q) /\ TakenOk(q)
    BY PartsAt
  <2>2. got[q] # None => got[q] \in Ranges /\ rangeLock[got[q]] = q
    BY <2>1 DEF RangeOk, IInv, TypeOK
  <2>3. DocOk(q)'
    BY <2>1 DEF DocOk
  <2>4. RangeOk(q)'
    BY <2>1, <2>2 DEF RangeOk
  <2>5. TakenOk(q)'
    BY <2>1, <2>2 DEF TakenOk, Sequence
  <2> QED
    BY <2>3, <2>4, <2>5
<1>2. Gapless'
  BY DEF IInv, Gapless, Places
<1> QED
  BY <1>1, <1>2 DEF IInv, RequestInv

LEMMA OthersInv ==
  ASSUME IInv, NEW p \in Procs, DeactivateOthers(p)
  PROVE  IInv'
<1>0. TypeOK /\ DocOk(p) /\ RangeOk(p) /\ TakenOk(p)
  BY PartsAt DEF IInv
<1>1. TypeOK'
  <2>1. ASSUME NEW r \in Ranges PROVE [range[r] EXCEPT !.active = FALSE] \in Row
    <3>1. range[r] \in Row
      BY <1>0 DEF TypeOK
    <3> QED
      BY <3>1 DEF Row
  <2>2. range' \in [Ranges -> Row]
    BY <1>0, <2>1 DEF DeactivateOthers, TypeOK
  <2> QED
    BY <1>0, <2>2 DEF DeactivateOthers, Goto, TypeOK, Labels, ranges, edit
<1>2. ASSUME NEW r \in Ranges, rangeLock[r] # None PROVE range'[r] = range[r]
  <2>1. range[r].active
    BY <1>2, PartsAt DEF RangeOk, IInv, TypeOK
  <2> QED
    BY <1>2, <2>1 DEF DeactivateOthers, Active
<1>3. DocOk(p)'
  BY <1>0 DEF DeactivateOthers, Goto, TypeOK, DocOk, ranges
<1>4. RangeOk(p)'
  BY <1>0, <1>2 DEF DeactivateOthers, Goto, TypeOK, RangeOk, ranges, edit
<1>5. TakenOk(p)'
  BY <1>0 DEF DeactivateOthers, Goto, TypeOK, TakenOk
<1>6. \A q \in Procs \ {p} : doc[q] # None => doc'[p] # doc[q]
  BY <1>0 DEF DeactivateOthers, DocOk
<1> QED
  BY <1>0, <1>1, <1>2, <1>3, <1>4, <1>5, <1>6, RangesFrame
  DEF DeactivateOthers, Goto, TypeOK, ranges, edit

LEMMA WriteInv ==
  ASSUME IInv, NEW p \in Procs, WriteRange(p)
  PROVE  IInv'
<1>0. /\ TypeOK /\ End(p)
      /\ edited[p] \in Ranges /\ change[p] \in Changes
      /\ rangeLock[edited[p]] = None
      /\ range' = [range EXCEPT ![edited[p]] = Written(change[p], range[edited[p]])]
  BY PartsAt DEF IInv, WriteRange, RangeOk
<1>1. Written(change[p], range[edited[p]]) \in Row
  <2>1. range[edited[p]] \in Row
    BY <1>0 DEF TypeOK
  <2> QED
    BY <1>0, <2>1 DEF Written, Given, Changes, Row
<1>2. TypeOK'
  BY <1>0, <1>1, EndTypes DEF WriteRange, TypeOK
<1>3. DocOk(p)' /\ RangeOk(p)' /\ TakenOk(p)'
  BY <1>0, EndFrame DEF DocOk, RangeOk, TakenOk
<1>4. \A r \in Ranges : rangeLock[r] # None => range'[r] = range[r]
  BY <1>0 DEF TypeOK
<1>5. \A q \in Procs \ {p} : doc[q] # None => doc'[p] # doc[q]
  BY <1>0, EndFrame
<1> QED
  BY <1>0, <1>2, <1>3, <1>4, <1>5, EndFrame, RangesFrame DEF WriteRange

\* The rows are removed, or expire, under no request of the model: any stands for it.
LEMMA RowInv ==
  ASSUME IInv, NEW r \in Ranges, RemoveRange(r) \/ Expire(r)
  PROVE  IInv'
<1>0. TypeOK /\ range[r] \in Row
  BY DEF IInv, TypeOK
<1>1. /\ UNCHANGED <<counter, number, configLock, pc, doc, taken>>
      /\ UNCHANGED <<rangeLock, cand, got, edited, change>>
  BY DEF RemoveRange, Expire, ranges, edit
<1>2. \A s \in Ranges : rangeLock[s] # None =>
         /\ range'[s].active = range[s].active /\ range'[s].next = range[s].next
         /\ range'[s].end = range[s].end
  <2>1. CASE RemoveRange(r)
    BY <1>0, <2>1 DEF RemoveRange, TypeOK
  <2>2. CASE Expire(r)
    BY <1>0, <2>2 DEF Expire, TypeOK, Row
  <2> QED
    BY <2>1, <2>2
<1>3. range' \in [Ranges -> Row]
  <2>1. CASE RemoveRange(r)
    <3>1. [range[r] EXCEPT !.at = "removed", !.active = FALSE] \in Row
      BY <1>0 DEF Row
    <3> QED
      BY <1>0, <2>1, <3>1 DEF RemoveRange, TypeOK
  <2>2. CASE Expire(r)
    <3>1. [range[r] EXCEPT !.expired = TRUE] \in Row
      BY <1>0 DEF Row
    <3> QED
      BY <1>0, <2>2, <3>1 DEF Expire, TypeOK
  <2> QED
    BY <2>1, <2>2
<1>4. TypeOK'
  BY <1>0, <1>1, <1>3 DEF TypeOK
<1>5. ASSUME NEW p \in Procs PROVE IInv'
  <2>1. DocOk(p) /\ RangeOk(p) /\ TakenOk(p)
    BY PartsAt
  <2>2. \A s \in Ranges : rangeLock[s] = p =>
           /\ range'[s].active = range[s].active /\ range'[s].next = range[s].next
           /\ range'[s].end = range[s].end
    BY <1>2
  <2>3. DocOk(p)'
    BY <1>1, <2>1 DEF DocOk
  <2>4. RangeOk(p)'
    BY <1>1, <2>1, <2>2 DEF RangeOk
  <2>5. got[p] # None => got[p] \in Ranges /\ rangeLock[got[p]] = p
    BY <1>0, <2>1 DEF RangeOk, TypeOK
  <2>6. TakenOk(p)'
    BY <1>1, <2>1, <2>2, <2>5 DEF TakenOk, Sequence
  <2>7. \A q \in Procs \ {p} : doc[q] # None => doc'[p] # doc[q]
    BY <1>1, <2>1 DEF DocOk
  <2> QED
    BY <1>1, <1>2, <1>4, <2>3, <2>4, <2>6, <2>7, RangesFrame
<1>6. CASE Procs = {}
  BY <1>1, <1>4, <1>6 DEF IInv, RequestInv, Gapless, Places
<1> QED
  BY <1>5, <1>6

\* Every step keeps the invariant.
LEMMA StepInv == IInv /\ [Next]_vars => IInv'
<1> SUFFICES ASSUME IInv, [Next]_vars PROVE IInv'
  OBVIOUS
<1>1. ASSUME NEW p \in Procs,
             \/ \E d \in Docs : Start(p, d)
             \/ \E r \in Ranges : LockRange(p, r) \/ SkipRange(p, r)
             \/ Scan(p) \/ TakeFromRange(p) \/ FallBack(p) \/ LockConfig(p)
      PROVE  IInv'
  BY <1>1, NumberingInv
<1>2. ASSUME NEW p \in Procs, RefuseRange(p) \/ SaveRefused(p) \/ Fail(p) PROVE IInv'
  BY <1>2, RollbackInv DEF RefuseRange, SaveRefused, Fail
<1>3. ASSUME NEW p \in Procs, Save(p) PROVE IInv'
  BY <1>3, SaveInv
<1>4. ASSUME NEW p \in Procs, NEW r \in Ranges,
             \/ \E c \in Creates : CreateRange(p, r, c)
             \/ \E c \in Edits : UpdateRange(p, r, c)
      PROVE  IInv'
  BY <1>4, EditInv
<1>5. ASSUME NEW p \in Procs, DeactivateOthers(p) PROVE IInv'
  BY <1>5, OthersInv
<1>6. ASSUME NEW p \in Procs, WriteRange(p) PROVE IInv'
  BY <1>6, WriteInv
<1>7. ASSUME NEW r \in Ranges, RemoveRange(r) \/ Expire(r) PROVE IInv'
  BY <1>7, RowInv
<1>8. CASE UNCHANGED vars
  BY <1>8 DEF vars, ranges, edit, IInv, TypeOK, RequestInv, DocOk, RangeOk, TakenOk,
     Sequence, Gapless, Places
<1> QED
  BY <1>1, <1>2, <1>3, <1>4, <1>5, <1>6, <1>7, <1>8 DEF Next

\* What each request has locked and taken holds until it commits, for any
\* documents, ranges and requests: document-numbering.service.ts and
\* sale-numbering.service.ts read the next number under the row's lock.
THEOREM Coherent == Spec => []IInv
<1> QED
  BY InitInv, StepInv, PTL DEF Spec

\* The sequences never skip a number, whatever fails and in whatever order
\* ("the number is only consumed if the document is saved").
THEOREM NoGaps == Spec => []Gapless
<1>1. IInv => Gapless
  BY DEF IInv
<1> QED
  BY <1>1, Coherent, PTL

\* The number a request has taken from a sequence is free when it saves its
\* document, so the unique index refuses nothing.
THEOREM NeverClash == Spec => []SequencesNeverClash
<1>1. ASSUME IInv PROVE SequencesNeverClash
  <2>1. SUFFICES ASSUME NEW p \in Procs, pc[p] = "save", got[p] = None,
                        NEW d \in Docs, number[d] = taken[p]
                 PROVE  FALSE
    BY DEF SequencesNeverClash, Used
  <2>2. DocOk(p) /\ TakenOk(p)
    BY <1>1, PartsAt
  <2> PICK k \in Kinds : k = Sequence(p)
    BY <2>1, <2>2 DEF DocOk, Sequence
  <2>3. taken[p] = <<k, counter[k]>> /\ counter[k] \in Nat
    BY <1>1, <2>1, <2>2 DEF TakenOk, IInv, TypeOK
  <2>4. number[d] # None
    BY <2>1, <2>3 DEF Numbers
  <2>5. number[d][1] = k /\ number[d][2] = counter[k]
    BY <2>1, <2>3
  <2>6. counter[k] \in Places(k)
    BY <2>4, <2>5 DEF Places
  <2> QED
    BY <1>1, <2>3, <2>6 DEF IInv, Gapless
<1> QED
  BY <1>1, Coherent, PTL

\* A number of a range is used only while the range is active and below its end
\* (SaleNumberingService: CAI_RANGE_EXHAUSTED; one that was deactivated while
\* the sale waited for it is passed over).
THEOREM InForce == Spec => IssuedInForce
<1>1. ASSUME IInv, Next, NEW r \in Ranges,
             range'[r].next = range[r].next + 1, number' # number
      PROVE  range[r].active /\ range[r].next <= range[r].end
  <2>1. PICK p \in Procs : Save(p)
    <3>1. ASSUME NEW p \in Procs, NEW d \in Docs, Start(p, d) PROVE FALSE
      BY <1>1, <3>1 DEF Start
    <3>2. ASSUME NEW p \in Procs, NEW s \in Ranges, LockRange(p, s) \/ SkipRange(p, s)
          PROVE  FALSE
      BY <1>1, <3>2 DEF LockRange, SkipRange
    <3>3. ASSUME NEW p \in Procs, NEW s \in Ranges,
                 \/ \E c \in Creates : CreateRange(p, s, c)
                 \/ \E c \in Edits : UpdateRange(p, s, c)
          PROVE  FALSE
      BY <1>1, <3>3 DEF CreateRange, UpdateRange, BeginEdit
    <3>4. ASSUME NEW p \in Procs, Scan(p) \/ TakeFromRange(p) \/ FallBack(p) \/ LockConfig(p)
          PROVE  FALSE
      BY <1>1, <3>4 DEF Scan, TakeFromRange, FallBack, LockConfig
    <3>5. ASSUME NEW p \in Procs, RefuseRange(p) \/ SaveRefused(p) \/ Fail(p) PROVE FALSE
      BY <1>1, <3>5 DEF RefuseRange, SaveRefused, Fail, Rollback
    <3>6. ASSUME NEW p \in Procs, DeactivateOthers(p) \/ WriteRange(p) PROVE FALSE
      BY <1>1, <3>6 DEF DeactivateOthers, WriteRange
    <3>7. ASSUME NEW s \in Ranges, RemoveRange(s) \/ Expire(s) PROVE FALSE
      BY <1>1, <3>7 DEF RemoveRange, Expire
    <3> QED
      BY <1>1, <3>1, <3>2, <3>3, <3>4, <3>5, <3>6, <3>7 DEF Next
  <2>2. range[r] \in Row
    BY <1>1 DEF IInv, TypeOK
  <2>3. r = got[p]
    BY <1>1, <2>1, <2>2 DEF Save, Row
  <2> QED
    BY <1>1, <2>1, <2>3, SaveFacts
<1>2. IInv /\ [Next]_vars =>
        [\A r \in Ranges :
            range'[r].next = range[r].next + 1 /\ number' # number
            => range[r].active /\ range[r].next <= range[r].end]_vars
  BY <1>1
<1> QED
  BY <1>2, Coherent, PTL DEF Spec, IssuedInForce
=============================================================================
