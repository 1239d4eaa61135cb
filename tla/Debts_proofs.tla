---------------------------- MODULE Debts_proofs ----------------------------
(***************************************************************************)
(* Proofs about what others owe: the money of sales and purchase invoices  *)
(* (Receivables) and the equipment on loan (Loans), for every set of       *)
(* documents, clients, payments, loans and requests.  Nobody pays more     *)
(* than is owed, no money is left on a cancelled document, no sale takes   *)
(* its client over the limit, what is signed of a loan is signed once and  *)
(* a closed loan stays closed.                                             *)
(***************************************************************************)
EXTENDS Receivables, Loans, Sums

USE ReceivablesAssumption

PayTable == [Payments -> [doc : Docs \cup {None}, amount : Amounts \cup {0},
                          status : {"none", "ACTIVE", "CANCELLED"}]]

\* Settled, of any table of payments.
SettledIn(w, S, P) ==
    SumFunctionOnSet([y \in Payments |-> w[y].amount], {y \in P : w[y].doc \in S})

LEMMA AmountsAreNat ==
  ASSUME NEW w \in PayTable, NEW S, NEW P \in SUBSET Payments
  PROVE  /\ \A y \in Payments : [z \in Payments |-> w[z].amount][y] \in Nat
         /\ IsFiniteSet(P) /\ IsFiniteSet({y \in P : w[y].doc \in S})
<1>1. \A y \in Payments : w[y].amount \in Nat
  <2>1. Amounts \cup {0} \subseteq Nat
    OBVIOUS
  <2>2. \A y \in Payments : w[y].amount \in Amounts \cup {0}
    BY DEF PayTable
  <2> QED
    BY <2>1, <2>2
<1>2. IsFiniteSet(P) /\ {y \in P : w[y].doc \in S} \in SUBSET Payments
  BY FS_Subset
<1>3. IsFiniteSet({y \in P : w[y].doc \in S})
  BY <1>2, FS_Subset
<1> QED
  BY <1>1, <1>2, <1>3

LEMMA SettledNat ==
  ASSUME NEW w \in PayTable, NEW S, NEW P \in SUBSET Payments
  PROVE  /\ SettledIn(w, S, P) \in Nat
         /\ \A y \in P : w[y].doc \in S => w[y].amount <= SettledIn(w, S, P)
<1> DEFINE f == [z \in Payments |-> w[z].amount]
           D == {y \in P : w[y].doc \in S}
<1>1. IsFiniteSet(D) /\ \A y \in D : f[y] \in Nat
  BY AmountsAreNat
<1>2. SumFunctionOnSet(f, D) \in Nat /\ \A y \in D : f[y] <= SumFunctionOnSet(f, D)
  <2> HIDE DEF f, D
  <2> QED
    BY <1>1, SumNat
<1>3. \A y \in D : f[y] = w[y].amount
  OBVIOUS
<1> QED
  BY <1>2, <1>3 DEF SettledIn

\* Rows that keep their amount and document settle as much; those added, more.
LEMMA SettledMore ==
  ASSUME NEW v \in PayTable, NEW w \in PayTable, NEW S,
         NEW P \in SUBSET Payments, NEW Q \in SUBSET Payments, P \subseteq Q,
         \A y \in P : v[y].amount = w[y].amount /\ v[y].doc = w[y].doc
  PROVE  SettledIn(v, S, P) <= SettledIn(w, S, Q)
<1> DEFINE f == [z \in Payments |-> v[z].amount]
           g == [z \in Payments |-> w[z].amount]
           D == {y \in P : v[y].doc \in S}
           E == {y \in Q \ P : w[y].doc \in S}
<1>1. {y \in Q : w[y].doc \in S} = D \cup E /\ D \cap E = {}
  OBVIOUS
<1>2. /\ IsFiniteSet(D) /\ IsFiniteSet(E)
      /\ \A y \in Payments : f[y] \in Nat /\ g[y] \in Nat
      /\ \A y \in D : f[y] = g[y]
  <2>1. Q \ P \in SUBSET Payments
    OBVIOUS
  <2> QED
    BY <2>1, AmountsAreNat
<1>3. D \subseteq Payments /\ E \subseteq Payments
  OBVIOUS
<1>4. SumFunctionOnSet(f, D) <= SumFunctionOnSet(g, D \cup E)
  <2> HIDE DEF f, g, D, E
  <2>1. SumFunctionOnSet(g, D \cup E) = SumFunctionOnSet(g, D) + SumFunctionOnSet(g, E)
    BY <1>1, <1>2, <1>3, SumUnion
  <2>2. SumFunctionOnSet(f, D) = SumFunctionOnSet(g, D)
    BY <1>2, <1>3, SumSame
  <2>3. SumFunctionOnSet(g, E) \in Nat /\ SumFunctionOnSet(g, D) \in Nat
    BY <1>2, <1>3, SumNat
  <2> QED
    BY <2>1, <2>2, <2>3
<1> QED
  BY <1>1, <1>4 DEF SettledIn

\* One payment more.
LEMMA SettledPlus ==
  ASSUME NEW v \in PayTable, NEW w \in PayTable, NEW S,
         NEW P \in SUBSET Payments, NEW y \in Payments \ P, w[y].doc \in S,
         \A z \in P : v[z].amount = w[z].amount /\ v[z].doc = w[z].doc
  PROVE  SettledIn(w, S, P \cup {y}) = SettledIn(v, S, P) + w[y].amount
<1> DEFINE f == [z \in Payments |-> v[z].amount]
           g == [z \in Payments |-> w[z].amount]
           D == {z \in P : v[z].doc \in S}
<1>1. {z \in P \cup {y} : w[z].doc \in S} = D \cup {y} /\ y \notin D
  OBVIOUS
<1>2. IsFiniteSet(D) /\ \A z \in Payments : f[z] \in Nat /\ g[z] \in Nat
  BY AmountsAreNat
<1>3. D \subseteq Payments /\ g[y] = w[y].amount /\ \A z \in D : f[z] = g[z]
  OBVIOUS
<1>4. SumFunctionOnSet(g, D \cup {y}) = g[y] + SumFunctionOnSet(f, D)
  <2> HIDE DEF f, g, D
  <2>1. SumFunctionOnSet(g, D \cup {y}) = g[y] + SumFunctionOnSet(g, D)
    BY <1>1, <1>2, <1>3, SumAdd
  <2>2. SumFunctionOnSet(f, D) = SumFunctionOnSet(g, D)
    BY <1>2, <1>3, SumSame
  <2> QED
    BY <2>1, <2>2
<1>5. SumFunctionOnSet(f, D) \in Nat
  <2> HIDE DEF f, D
  <2> QED
    BY <1>2, <1>3, SumNat
<1>6. SettledIn(w, S, P \cup {y}) = SumFunctionOnSet(g, D \cup {y})
  BY <1>1 DEF SettledIn
<1>7. SettledIn(v, S, P) = SumFunctionOnSet(f, D)
  BY DEF SettledIn
<1> HIDE DEF f, g, D
<1>8. PICK m \in Nat, n \in Nat : m = SumFunctionOnSet(f, D) /\ n = g[y]
  BY <1>2, <1>5
<1>9. n = w[y].amount
  BY <1>3, <1>8
<1> QED
  BY <1>4, <1>6, <1>7, <1>8, <1>9

\* Documents are settled each by its own payments.
LEMMA SettledByDoc ==
  ASSUME NEW w \in PayTable, NEW P \in SUBSET Payments, NEW O, IsFiniteSet(O)
  PROVE  SettledIn(w, O, P) = SumFunctionOnSet([d \in O |-> SettledIn(w, {d}, P)], O)
<1> DEFINE f == [z \in Payments |-> w[z].amount]
           h == [d \in O |-> SettledIn(w, {d}, P)]
           D(T) == {z \in P : w[z].doc \in T}
           A == {T \in SUBSET O : SumFunctionOnSet(f, D(T)) = SumFunctionOnSet(h, T)}
<1>1. {} \in A
  <2>1. D({}) = {}
    OBVIOUS
  <2> HIDE DEF f, h
  <2> QED
    BY <2>1, SumEmpty
<1>2. ASSUME NEW T \in SUBSET O, NEW x \in O \ T, T \in A PROVE T \cup {x} \in A
  <2>1. D(T \cup {x}) = D(T) \cup D({x}) /\ D(T) \cap D({x}) = {}
    OBVIOUS
  <2>2. /\ IsFiniteSet(D(T)) /\ IsFiniteSet(D({x})) /\ D(T) \subseteq Payments /\ D({x}) \subseteq Payments
        /\ \A z \in Payments : f[z] \in Nat
    BY AmountsAreNat
  <2>3. h[x] = SumFunctionOnSet(f, D({x}))
    BY DEF SettledIn
  <2>4. \A d \in O : h[d] \in Int
    BY SettledNat
  <2>5. IsFiniteSet(T)
    BY FS_Subset
  <2> HIDE DEF f, h, D
  <2>6. SumFunctionOnSet(f, D(T \cup {x})) = SumFunctionOnSet(f, D(T)) + SumFunctionOnSet(f, D({x}))
    <3> DEFINE B == D(T)
               C == D({x})
    <3>1. /\ IsFiniteSet(B) /\ IsFiniteSet(C) /\ B \cap C = {}
          /\ \A z \in B \cup C : f[z] \in Int
      BY <2>1, <2>2
    <3>2. D(T \cup {x}) = B \cup C
      BY <2>1
    <3> HIDE DEF B, C
    <3>3. SumFunctionOnSet(f, B \cup C) = SumFunctionOnSet(f, B) + SumFunctionOnSet(f, C)
      BY <3>1, SumUnion
    <3> QED
      BY <3>2, <3>3 DEF B, C
  <2>7. SumFunctionOnSet(h, T \cup {x}) = h[x] + SumFunctionOnSet(h, T)
    BY <2>4, <2>5, SumAdd
  <2>8. SumFunctionOnSet(h, T) \in Int
    BY <2>4, <2>5, SumStep
  <2>9. SumFunctionOnSet(f, D(T)) = SumFunctionOnSet(h, T)
    BY <1>2
  <2>10. PICK m \in Int, n \in Int : m = SumFunctionOnSet(h, T) /\ n = h[x]
    BY <2>4, <2>8
  <2>11. SumFunctionOnSet(f, D(T \cup {x})) = m + n
    BY <2>3, <2>6, <2>9, <2>10
  <2>12. SumFunctionOnSet(h, T \cup {x}) = m + n
    BY <2>7, <2>10
  <2>13. SumFunctionOnSet(f, D(T \cup {x})) = SumFunctionOnSet(h, T \cup {x})
    BY <2>11, <2>12
  <2> QED
    BY <2>13
<1>3. SUBSET O \subseteq A
  <2> HIDE DEF A
  <2> QED
    BY <1>1, <1>2, SetInduction
<1> QED
  BY <1>3 DEF SettledIn
-----------------------------------------------------------------------------
(* What is left open: of any table of amounts and payments.                *)

AmountTable == [Docs -> Amounts \cup {0}]

ActiveIn(w) == {y \in Payments : w[y].status = "ACTIVE"}
MadeIn(w) == {y \in Payments : w[y].status # "none"}

UnpaidIn(a, w, d) == Max({0, a[d] - SettledIn(w, {d}, MadeIn(w))})

UncollectedIn(a, w, S) == SumFunctionOnSet([d \in Sales |-> UnpaidIn(a, w, d)], S)

LEMMA MaxIs ==
  ASSUME NEW x \in Int
  PROVE  /\ Max({0, x}) \in Nat /\ Max({0, x}) >= x
         /\ \A m \in Nat : m >= x => Max({0, x}) <= m
<1>1. CASE x <= 0
  <2>1. \A m \in {0, x} : (\A n \in {0, x} : n <= m) => m = 0
    BY <1>1
  <2>2. 0 \in {0, x} /\ \A n \in {0, x} : n <= 0
    BY <1>1
  <2>3. Max({0, x}) = 0
    BY <2>1, <2>2 DEF Max
  <2> QED
    BY <1>1, <2>3
<1>2. CASE x > 0
  <2>1. \A m \in {0, x} : (\A n \in {0, x} : n <= m) => m = x
    BY <1>2
  <2>2. x \in {0, x} /\ \A n \in {0, x} : n <= x
    BY <1>2
  <2>3. Max({0, x}) = x
    BY <2>1, <2>2 DEF Max
  <2> QED
    BY <1>2, <2>3
<1> QED
  BY <1>1, <1>2

LEMMA AmountNat ==
  ASSUME NEW a \in AmountTable, NEW d \in Docs
  PROVE  a[d] \in Nat
<1>1. Amounts \cup {0} \subseteq Nat /\ a[d] \in Amounts \cup {0}
  BY DEF AmountTable
<1> QED
  BY <1>1

LEMMA UnpaidNat ==
  ASSUME NEW a \in AmountTable, NEW w \in PayTable, NEW d \in Docs
  PROVE  /\ UnpaidIn(a, w, d) \in Nat
         /\ UnpaidIn(a, w, d) >= a[d] - SettledIn(w, {d}, MadeIn(w))
         /\ \A m \in Nat : m >= a[d] - SettledIn(w, {d}, MadeIn(w)) => UnpaidIn(a, w, d) <= m
<1>1. MadeIn(w) \in SUBSET Payments
  BY DEF MadeIn
<1>2. SettledIn(w, {d}, MadeIn(w)) \in Nat
  BY <1>1, SettledNat
<1>3. a[d] - SettledIn(w, {d}, MadeIn(w)) \in Int
  BY <1>2, AmountNat
<1> DEFINE x == a[d] - SettledIn(w, {d}, MadeIn(w))
<1>4. x \in Int /\ UnpaidIn(a, w, d) = Max({0, x})
  BY <1>3 DEF UnpaidIn
<1> HIDE DEF x
<1>5. /\ UnpaidIn(a, w, d) \in Nat /\ UnpaidIn(a, w, d) >= x
      /\ \A m \in Nat : m >= x => UnpaidIn(a, w, d) <= m
  BY <1>4, MaxIs
<1> QED
  BY <1>5 DEF x

\* A payment more, or one cancelled, opens nothing.
LEMMA UnpaidShrinks ==
  ASSUME NEW a \in AmountTable, NEW b \in AmountTable, NEW v \in PayTable, NEW w \in PayTable,
         NEW d \in Docs, b[d] = a[d],
         \A y \in MadeIn(v) : y \in MadeIn(w) /\ v[y].amount = w[y].amount /\ v[y].doc = w[y].doc
  PROVE  UnpaidIn(b, w, d) <= UnpaidIn(a, v, d)
<1>1. MadeIn(v) \in SUBSET Payments /\ MadeIn(w) \in SUBSET Payments /\ MadeIn(v) \subseteq MadeIn(w)
  BY DEF MadeIn
<1>2. SettledIn(v, {d}, MadeIn(v)) <= SettledIn(w, {d}, MadeIn(w))
  BY <1>1, SettledMore
<1>3. PICK m \in Nat, n \in Nat : m = SettledIn(v, {d}, MadeIn(v)) /\ n = SettledIn(w, {d}, MadeIn(w))
  BY <1>1, SettledNat
<1>4. PICK k \in Nat : k = a[d]
  BY AmountNat
<1>5. PICK u \in Nat : u = UnpaidIn(a, v, d) /\ u >= k - m
  BY <1>3, <1>4, UnpaidNat
<1>6. u >= b[d] - SettledIn(w, {d}, MadeIn(w))
  BY <1>2, <1>3, <1>4, <1>5
<1> QED
  BY <1>5, <1>6, UnpaidNat

LEMMA UncollectedNat ==
  ASSUME NEW a \in AmountTable, NEW w \in PayTable, NEW S \in SUBSET Sales
  PROVE  /\ UncollectedIn(a, w, S) \in Nat /\ IsFiniteSet(S)
         /\ \A d \in S : [e \in Sales |-> UnpaidIn(a, w, e)][d] \in Nat
<1> DEFINE f == [e \in Sales |-> UnpaidIn(a, w, e)]
<1>1. IsFiniteSet(S)
  BY FS_Subset
<1>2. \A d \in S : f[d] \in Nat
  BY UnpaidNat DEF Docs
<1>3. SumFunctionOnSet(f, S) \in Nat
  <2> HIDE DEF f
  <2> QED
    BY <1>1, <1>2, SumNat
<1> QED
  BY <1>1, <1>2, <1>3 DEF UncollectedIn

LEMMA UncollectedShrinks ==
  ASSUME NEW a \in AmountTable, NEW b \in AmountTable, NEW v \in PayTable, NEW w \in PayTable,
         NEW S \in SUBSET Sales, NEW T \in SUBSET Sales, S \subseteq T,
         \A d \in S : UnpaidIn(b, w, d) <= UnpaidIn(a, v, d)
  PROVE  UncollectedIn(b, w, S) <= UncollectedIn(a, v, T)
<1> DEFINE f == [e \in Sales |-> UnpaidIn(a, v, e)]
           g == [e \in Sales |-> UnpaidIn(b, w, e)]
           R == T \ S
<1>1. /\ IsFiniteSet(S) /\ IsFiniteSet(R) /\ T = S \cup R /\ S \cap R = {}
      /\ \A d \in T : f[d] \in Nat
      /\ \A d \in S : g[d] \in Nat
  BY UncollectedNat
<1>2. \A d \in S : g[d] <= f[d]
  OBVIOUS
<1>3. SumFunctionOnSet(g, S) <= SumFunctionOnSet(f, T)
  <2> HIDE DEF f, g, R
  <2>1. SumFunctionOnSet(g, S) <= SumFunctionOnSet(f, S)
    BY <1>1, <1>2, SumAtMost
  <2>2. SumFunctionOnSet(f, T) = SumFunctionOnSet(f, S) + SumFunctionOnSet(f, R)
    BY <1>1, SumUnion
  <2>3. SumFunctionOnSet(f, R) \in Nat /\ SumFunctionOnSet(f, S) \in Nat /\ SumFunctionOnSet(g, S) \in Nat
    BY <1>1, SumNat
  <2> QED
    BY <2>1, <2>2, <2>3
<1> QED
  BY <1>3 DEF UncollectedIn

\* A sale more adds at most its amount.
LEMMA UncollectedPlus ==
  ASSUME NEW a \in AmountTable, NEW b \in AmountTable, NEW w \in PayTable,
         NEW S \in SUBSET Sales, NEW d \in Sales \ S, \A e \in S : b[e] = a[e]
  PROVE  UncollectedIn(b, w, S \cup {d}) <= b[d] + UncollectedIn(a, w, S)
<1> DEFINE f == [e \in Sales |-> UnpaidIn(a, w, e)]
           g == [e \in Sales |-> UnpaidIn(b, w, e)]
<1>1. /\ IsFiniteSet(S) /\ \A e \in S : f[e] \in Nat
      /\ \A e \in S \cup {d} : g[e] \in Nat
  <2>1. S \cup {d} \in SUBSET Sales
    OBVIOUS
  <2> QED
    BY <2>1, UncollectedNat
<1>2. \A e \in S : f[e] = g[e]
  BY DEF UnpaidIn
<1>3. d \in Docs
  BY DEF Docs
<1>4. b[d] \in Nat
  BY <1>3, AmountNat
<1>5. SettledIn(w, {d}, MadeIn(w)) \in Nat
  BY SettledNat DEF MadeIn
<1>6. g[d] <= b[d]
  <2>1. PICK m \in Nat, n \in Nat : m = b[d] /\ n = SettledIn(w, {d}, MadeIn(w))
    BY <1>4, <1>5
  <2>2. m >= b[d] - SettledIn(w, {d}, MadeIn(w))
    BY <2>1
  <2>3. UnpaidIn(b, w, d) <= m
    BY <1>3, <2>2, UnpaidNat
  <2> QED
    BY <2>1, <2>3
<1>7. SumFunctionOnSet(g, S \cup {d}) <= b[d] + SumFunctionOnSet(f, S)
  <2> HIDE DEF f, g
  <2>1. SumFunctionOnSet(g, S \cup {d}) = g[d] + SumFunctionOnSet(g, S)
    BY <1>1, SumAdd
  <2>2. SumFunctionOnSet(f, S) = SumFunctionOnSet(g, S)
    BY <1>1, <1>2, SumSame
  <2>3. SumFunctionOnSet(f, S) \in Nat /\ g[d] \in Nat
    BY <1>1, SumNat
  <2> QED
    BY <1>4, <1>6, <2>1, <2>2, <2>3
<1> QED
  BY <1>7 DEF UncollectedIn

\* What enforceCreditLimit adds up, amounts less active payments, is no less
\* than what is left open.
LEMMA CheckIsEnough ==
  ASSUME NEW a \in AmountTable, NEW w \in PayTable, NEW O \in SUBSET Sales,
         NEW S \in SUBSET O, \A d \in O : SettledIn(w, {d}, ActiveIn(w)) <= a[d]
  PROVE  /\ SumFunctionOnSet(a, O) \in Nat /\ SettledIn(w, O, ActiveIn(w)) \in Nat
         /\ UncollectedIn(a, w, S) <= SumFunctionOnSet(a, O) - SettledIn(w, O, ActiveIn(w))
<1> DEFINE f == [d \in Sales |-> UnpaidIn(a, w, d)]
           h == [d \in O |-> SettledIn(w, {d}, ActiveIn(w))]
           g == [d \in O |-> a[d] - h[d]]
<1>1. ActiveIn(w) \in SUBSET Payments /\ MadeIn(w) \in SUBSET Payments /\ ActiveIn(w) \subseteq MadeIn(w)
  BY DEF ActiveIn, MadeIn
<1>2. O \subseteq Docs /\ S \subseteq Sales /\ IsFiniteSet(O)
  BY FS_Subset DEF Docs
<1>3. \A d \in O : a[d] \in Nat /\ h[d] \in Nat
  BY <1>1, <1>2, AmountNat, SettledNat
<1>4. \A d \in O : g[d] \in Nat /\ a[d] = g[d] + h[d]
  <2> SUFFICES ASSUME NEW d \in O PROVE g[d] \in Nat /\ a[d] = g[d] + h[d]
    OBVIOUS
  <2>1. PICK m \in Nat, n \in Nat : m = a[d] /\ n = h[d]
    BY <1>3
  <2>2. n <= m /\ g[d] = m - n
    BY <2>1
  <2> QED
    BY <2>1, <2>2
<1>5. \A d \in O : f[d] \in Nat /\ f[d] <= g[d]
  <2> SUFFICES ASSUME NEW d \in O PROVE f[d] \in Nat /\ f[d] <= g[d]
    OBVIOUS
  <2>1. SettledIn(w, {d}, ActiveIn(w)) <= SettledIn(w, {d}, MadeIn(w))
    BY <1>1, SettledMore
  <2>2. PICK k \in Nat, m \in Nat, n \in Nat :
          k = a[d] /\ m = SettledIn(w, {d}, ActiveIn(w)) /\ n = SettledIn(w, {d}, MadeIn(w))
    BY <1>1, <1>3, SettledNat
  <2>3. g[d] = k - m /\ k - m \in Nat
    BY <1>4, <2>2
  <2>4. k - m >= a[d] - SettledIn(w, {d}, MadeIn(w))
    BY <2>1, <2>2
  <2>5. d \in Docs /\ f[d] = UnpaidIn(a, w, d)
    BY <1>2
  <2> HIDE DEF f, g
  <2> QED
    BY <2>3, <2>4, <2>5, UnpaidNat
<1>6. SettledIn(w, O, ActiveIn(w)) = SumFunctionOnSet(h, O)
  BY <1>1, <1>2, SettledByDoc
<1>7. UncollectedIn(a, w, S) <= UncollectedIn(a, w, O)
  <2>1. \A d \in S : UnpaidIn(a, w, d) <= UnpaidIn(a, w, d)
    <3>1. \A d \in S : UnpaidIn(a, w, d) \in Nat
      BY <1>2, UnpaidNat
    <3> QED
      BY <3>1
  <2> QED
    BY <1>2, <2>1, UncollectedShrinks
<1>8. UncollectedIn(a, w, O) = SumFunctionOnSet(f, O)
  BY DEF UncollectedIn
<1>9. UncollectedIn(a, w, S) \in Nat
  BY <1>2, UncollectedNat
<1> HIDE DEF f, g, h
<1>10. SumFunctionOnSet(f, O) <= SumFunctionOnSet(g, O)
  BY <1>2, <1>4, <1>5, SumAtMost
<1>11. SumFunctionOnSet(a, O) = SumFunctionOnSet(g, O) + SumFunctionOnSet(h, O)
  BY <1>2, <1>3, <1>4, SumPlus
<1>12. /\ SumFunctionOnSet(a, O) \in Nat /\ SumFunctionOnSet(h, O) \in Nat
       /\ SumFunctionOnSet(f, O) \in Nat /\ SumFunctionOnSet(g, O) \in Nat
  BY <1>2, <1>3, <1>4, <1>5, SumNat
<1> QED
  BY <1>6, <1>7, <1>8, <1>9, <1>10, <1>11, <1>12

-----------------------------------------------------------------------------
(* What another request's step leaves alone.                               *)

ReceivableTypes ==
    /\ amount \in AmountTable /\ amount' \in AmountTable
    /\ pay \in PayTable /\ pay' \in PayTable

\* Its variables, its locks and what only it works on.
Keeps(q) ==
    /\ pc'[q] = pc[q] /\ job'[q] = job[q] /\ open'[q] = open[q] /\ room'[q] = room[q]
    /\ \A d \in Docs : docLock[d] = q => docLock'[d] = q
    /\ \A c \in Clients : clientLock[c] = q => clientLock'[c] = q
    /\ \A r \in Procs \ {q} :
          /\ job[q].doc \in Sales /\ status[job[q].doc] = "none" /\ job[r].doc # job[q].doc
             => job'[r].doc # job[q].doc
          /\ job[q].pay \in Payments /\ pay[job[q].pay] = NoPay /\ job[r].pay # job[q].pay
             => job'[r].pay # job[q].pay

\* The rows it has locked, read or is to write.
Spares(q) ==
    /\ \A d \in Docs : d = job[q].doc =>
          /\ docLock[d] = q =>
                /\ status'[d] = status[d] /\ amount'[d] = amount[d] /\ client'[d] = client[d]
                /\ SettledIn(pay', {d}, ActiveIn(pay')) <= SettledIn(pay, {d}, ActiveIn(pay))
          /\ d \in Sales /\ status[d] = "none" /\ (\A r \in Procs \ {q} : job[r].doc # d)
             => status'[d] = "none"
    /\ \A c \in Clients : clientLock[c] = q =>
          /\ limit'[c] = limit[c] /\ InForce(c)' \subseteq InForce(c)
          /\ Uncollected(c)' <= Uncollected(c)
    /\ \A s \in Sales : status[s] \in {"ACTIVE", "CANCELLED"} =>
          status'[s] \in {"ACTIVE", "CANCELLED"} /\ amount'[s] = amount[s]
    /\ \A y \in Payments : y = job[q].pay =>
          /\ pc[q] = "pay" /\ pay[y] = NoPay => pay'[y] = NoPay
          /\ pay[y].status # "none" => pay'[y].status # "none"

LEMMA TypesOfTables ==
  ASSUME TypeOK, TypeOK'
  PROVE  ReceivableTypes
BY DEF TypeOK, ReceivableTypes, AmountTable, PayTable

LEMMA ActiveSettled ==
  ASSUME ReceivableTypes, NEW d \in Docs
  PROVE  /\ SettledIn(pay, {d}, ActiveIn(pay)) \in Nat
         /\ SettledIn(pay', {d}, ActiveIn(pay')) \in Nat
         /\ Settled({d}, ActivePays) = SettledIn(pay, {d}, ActiveIn(pay))
         /\ Settled({d}, ActivePays)' = SettledIn(pay', {d}, ActiveIn(pay'))
         /\ Balance(d) = amount[d] - SettledIn(pay, {d}, ActiveIn(pay))
         /\ Balance(d)' = amount'[d] - SettledIn(pay', {d}, ActiveIn(pay'))
         /\ amount[d] \in Nat /\ amount'[d] \in Nat
<1>1. ActiveIn(pay) \in SUBSET Payments /\ ActiveIn(pay') \in SUBSET Payments
  BY DEF ActiveIn
<1>2. pay \in PayTable /\ pay' \in PayTable /\ amount \in AmountTable /\ amount' \in AmountTable
  BY DEF ReceivableTypes
<1>3. SettledIn(pay, {d}, ActiveIn(pay)) \in Nat /\ SettledIn(pay', {d}, ActiveIn(pay')) \in Nat
  BY <1>1, <1>2, SettledNat
<1>4. amount[d] \in Nat /\ amount'[d] \in Nat
  BY <1>2, AmountNat
<1> QED
  BY <1>3, <1>4 DEF Balance, Settled, SettledIn, ActivePays, ActiveIn

LEMMA UncollectedReads ==
  ASSUME NEW c \in Clients
  PROVE  /\ Uncollected(c) = UncollectedIn(amount, pay, InForce(c))
         /\ Uncollected(c)' = UncollectedIn(amount', pay', InForce(c)')
         /\ InForce(c) \in SUBSET Sales /\ InForce(c)' \in SUBSET Sales
BY DEF Uncollected, UncollectedIn, InForce, Unpaid, UnpaidIn, Settled, SettledIn, MadePays, MadeIn

\* The amounts read of sales in force or called off are still theirs.
LEMMA TotalKept ==
  ASSUME ReceivableTypes, NEW O \in SUBSET Sales, \A s \in O : amount'[s] = amount[s]
  PROVE  /\ SumFunctionOnSet(amount', O) = SumFunctionOnSet(amount, O)
         /\ SumFunctionOnSet(amount, O) \in Nat
<1>1. O \subseteq Docs /\ IsFiniteSet(O)
  BY FS_Subset DEF Docs
<1>2. \A s \in O : amount[s] \in Nat /\ amount'[s] \in Nat
  BY <1>1, AmountNat DEF ReceivableTypes
<1> QED
  BY <1>1, <1>2, SumSame, SumNat

LEMMA SaleKept ==
  ASSUME NEW q \in Procs, Keeps(q), Spares(q), SaleOk(q)
  PROVE  SaleOk(q)'
<1> DEFINE d == job[q].doc
<1>1. d \in Sales /\ d \in Docs /\ job'[q] = job[q]
  BY DEF SaleOk, Keeps, Docs
<1>2. CASE status[d] = "DRAFT"
  <2>1. docLock[d] = q /\ amount[d] = job[q].amount /\ client[d] = job[q].client
    BY <1>2 DEF SaleOk
  <2>2. docLock'[d] = q
    BY <1>1, <2>1 DEF Keeps
  <2>3. status'[d] = status[d] /\ amount'[d] = amount[d] /\ client'[d] = client[d]
    BY <1>1, <2>1 DEF Spares
  <2> QED
    BY <1>1, <1>2, <2>1, <2>2, <2>3 DEF SaleOk
<1>3. CASE status[d] = "none"
  <2>1. \A r \in Procs \ {q} : job[r].doc # d
    BY <1>3 DEF SaleOk
  <2>2. status'[d] = "none"
    BY <1>1, <1>3, <2>1 DEF Spares
  <2>3. \A r \in Procs \ {q} : job'[r].doc # d
    BY <1>1, <1>3, <2>1 DEF Keeps
  <2> QED
    BY <1>1, <2>2, <2>3 DEF SaleOk
<1> QED
  BY <1>2, <1>3 DEF SaleOk

LEMMA RequestKept ==
  ASSUME TypeOK, TypeOK', NEW q \in Procs, RequestOk(q), Keeps(q), Spares(q)
  PROVE  RequestOk(q)'
<1>0. PICK d, c, y : d = job[q].doc /\ c = job[q].client /\ y = job[q].pay
  OBVIOUS
<1>1. ReceivableTypes
  BY TypesOfTables
<1>2. pc'[q] = pc[q] /\ job'[q] = job[q]
  BY DEF Keeps
<1>3. c \in Clients \cup {None} /\ d \in Docs \cup {None} /\ y \in Payments \cup {None}
      /\ job[q].amount \in Amounts \cup {0}
  BY <1>0 DEF TypeOK
<1>4. pc[q] = "idle" => job'[q] = NoJob
  BY <1>2 DEF RequestOk
<1>5. pc[q] \in {"client", "open", "paid", "post"} => SaleOk(q)'
  BY SaleKept DEF RequestOk
<1>6. pc[q] \in {"open", "paid", "post"} /\ c # None => clientLock'[c] = q
  BY <1>0, <1>3 DEF RequestOk, Keeps
<1>7. pc[q] \in {"open", "paid"} => limit'[c] # None
  BY <1>0, <1>3 DEF RequestOk, Spares
<1>8. pc[q] \in {"client", "open", "paid"} => c # None
  BY <1>0 DEF RequestOk
<1>9. ASSUME pc[q] = "pay"
      PROVE  /\ d \in Docs /\ docLock'[d] = q /\ status'[d] = "ACTIVE"
             /\ job[q].amount <= Balance(d)'
             /\ job[q].amount # 0 /\ y \in Payments /\ pay'[y] = NoPay
             /\ \A r \in Procs \ {q} : job'[r].pay # y
  <2>1. /\ d \in Docs /\ docLock[d] = q /\ status[d] = "ACTIVE" /\ job[q].amount <= Balance(d)
        /\ job[q].amount # 0 /\ y \in Payments /\ pay[y] = NoPay
        /\ \A r \in Procs \ {q} : job[r].pay # y
    BY <1>0, <1>9 DEF RequestOk
  <2>2. docLock'[d] = q /\ status'[d] = "ACTIVE" /\ pay'[y] = NoPay /\ amount'[d] = amount[d]
        /\ SettledIn(pay', {d}, ActiveIn(pay')) <= SettledIn(pay, {d}, ActiveIn(pay))
    BY <1>0, <1>9, <2>1 DEF Keeps, Spares
  <2>3. \A r \in Procs \ {q} : job'[r].pay # y
    BY <1>0, <2>1 DEF Keeps
  <2>4. job[q].amount <= Balance(d)'
      <3>1. PICK m \in Nat, n \in Nat, k \in Nat, i \in Nat :
            /\ m = SettledIn(pay, {d}, ActiveIn(pay)) /\ n = SettledIn(pay', {d}, ActiveIn(pay'))
            /\ k = amount[d] /\ i = job[q].amount
      <4>1. job[q].amount \in Nat
        <5>1. Amounts \cup {0} \subseteq Nat
          OBVIOUS
        <5> QED
          BY <1>3, <5>1
      <4> QED
        BY <1>1, <2>1, <4>1, ActiveSettled
    <3>2. Balance(d) = k - m /\ Balance(d)' = k - n
      BY <1>1, <2>1, <2>2, <3>1, ActiveSettled
    <3> QED
      BY <2>1, <2>2, <3>1, <3>2
  <2> QED
    BY <2>1, <2>2, <2>3, <2>4
<1>10. ASSUME pc[q] = "cancel"
       PROVE  d \in Docs /\ docLock'[d] = q /\ Cancellable(d)'
  <2>1. d \in Docs /\ docLock[d] = q /\ Cancellable(d)
    BY <1>0, <1>10 DEF RequestOk
  <2>2. docLock'[d] = q /\ status'[d] = status[d]
        /\ SettledIn(pay', {d}, ActiveIn(pay')) <= SettledIn(pay, {d}, ActiveIn(pay))
    BY <1>0, <2>1 DEF Keeps, Spares
  <2>3. Settled({d}, ActivePays) = 0 => Settled({d}, ActivePays)' = 0
      <3>1. PICK m \in Nat, n \in Nat :
            /\ m = SettledIn(pay, {d}, ActiveIn(pay)) /\ n = SettledIn(pay', {d}, ActiveIn(pay'))
      BY <1>1, <2>1, ActiveSettled
    <3>2. Settled({d}, ActivePays) = m /\ Settled({d}, ActivePays)' = n
      BY <1>1, <2>1, <3>1, ActiveSettled
    <3> QED
      BY <2>2, <3>1, <3>2
  <2> QED
    BY <2>1, <2>2, <2>3 DEF Cancellable
<1>11. pc[q] = "unpay" => y \in Payments /\ pay'[y].status # "none"
  BY <1>0, <1>3 DEF RequestOk, Spares
<1> QED
  BY <1>0, <1>2, <1>4, <1>5, <1>6, <1>7, <1>8, <1>9, <1>10, <1>11 DEF RequestOk

LEMMA CreditKept ==
  ASSUME TypeOK, TypeOK', NEW q \in Procs, RequestOk(q), CreditOk(q), Keeps(q), Spares(q)
  PROVE  CreditOk(q)'
<1>0. PICK c : c = job[q].client
  OBVIOUS
<1>1. ReceivableTypes /\ amount \in AmountTable /\ amount' \in AmountTable
      /\ pay \in PayTable /\ pay' \in PayTable
  BY TypesOfTables DEF ReceivableTypes
<1>2. /\ pc'[q] = pc[q] /\ job'[q] = job[q] /\ open'[q] = open[q] /\ room'[q] = room[q]
      /\ c \in Clients \cup {None} /\ open[q] \in SUBSET Sales
      /\ job[q].amount \in Amounts \cup {0}
  BY <1>0 DEF Keeps, TypeOK
<1>3. ASSUME pc[q] \in {"open", "paid", "post"}, c # None
      PROVE  /\ c \in Clients /\ limit'[c] = limit[c] /\ InForce(c)' \subseteq InForce(c)
             /\ Uncollected(c)' <= Uncollected(c)
  <2>1. c \in Clients /\ clientLock[c] = q
    BY <1>0, <1>2, <1>3 DEF RequestOk
  <2> QED
    BY <2>1 DEF Spares
<1>4. pc[q] \in {"open", "paid"} => c # None
  BY <1>0 DEF RequestOk
<1>5. pc[q] = "open" => room'[q] = limit'[c]
  BY <1>0, <1>2, <1>3, <1>4 DEF CreditOk
<1>6. ASSUME pc[q] = "paid"
      PROVE  /\ InForce(c)' \subseteq open[q]
             /\ \A s \in open[q] : status'[s] \in {"ACTIVE", "CANCELLED"}
             /\ room'[q] = limit'[c] - Total(open[q])'
  <2>1. /\ InForce(c) \subseteq open[q]
        /\ \A s \in open[q] : status[s] \in {"ACTIVE", "CANCELLED"}
        /\ room[q] = limit[c] - Total(open[q])
    BY <1>0, <1>6 DEF CreditOk
  <2>2. \A s \in open[q] : status'[s] \in {"ACTIVE", "CANCELLED"} /\ amount'[s] = amount[s]
    BY <1>2, <2>1 DEF Spares
  <2>3. Total(open[q])' = Total(open[q])
    <3>1. SumFunctionOnSet(amount', open[q]) = SumFunctionOnSet(amount, open[q])
      BY <1>1, <1>2, <2>2, TotalKept
    <3> QED
      BY <1>2, <3>1 DEF Total
  <2> QED
    BY <1>2, <1>3, <1>4, <1>6, <2>1, <2>2, <2>3
<1>7. ASSUME pc[q] = "post", c # None, limit'[c] # None
      PROVE  job[q].amount + Uncollected(c)' <= limit'[c]
  <2>1. /\ c \in Clients /\ limit[c] = limit'[c] /\ limit[c] # None /\ limit[c] \in Limits \cup {None}
        /\ Uncollected(c)' <= Uncollected(c)
        /\ job[q].amount + Uncollected(c) <= limit[c]
    <3>1. c \in Clients /\ limit'[c] = limit[c] /\ Uncollected(c)' <= Uncollected(c)
      BY <1>3, <1>7
    <3>2. job[q].amount + Uncollected(c) <= limit[c]
      BY <1>0, <1>7, <3>1 DEF CreditOk
    <3> QED
      BY <1>7, <3>1, <3>2 DEF TypeOK
  <2>2. Uncollected(c) \in Nat /\ Uncollected(c)' \in Nat
    BY <1>1, <2>1, UncollectedReads, UncollectedNat
  <2>3. job[q].amount \in Nat /\ limit[c] \in Nat
    <3>1. Amounts \cup {0} \subseteq Nat
      OBVIOUS
    <3> QED
      BY <1>2, <2>1, <3>1
  <2>4. PICK i \in Nat, j \in Nat, k \in Nat, n \in Nat :
          i = job[q].amount /\ j = Uncollected(c) /\ k = Uncollected(c)' /\ n = limit[c]
    BY <2>2, <2>3
  <2> QED
    BY <2>1, <2>4
<1> QED
  BY <1>0, <1>2, <1>5, <1>6, <1>7 DEF CreditOk

LEMMA RequestsKept ==
  ASSUME TypeOK, TypeOK', RequestInv,
         \A q \in Procs : \/ Keeps(q) /\ Spares(q)
                          \/ RequestOk(q)' /\ CreditOk(q)'
  PROVE  RequestInv'
<1> SUFFICES ASSUME NEW q \in Procs PROVE RequestOk(q)' /\ CreditOk(q)'
  BY DEF RequestInv
<1>1. RequestOk(q) /\ CreditOk(q)
  BY DEF RequestInv
<1>2. CASE Keeps(q) /\ Spares(q)
  BY <1>1, <1>2, RequestKept, CreditKept
<1> QED
  BY <1>2

\* A request that ends lets go of everything.
LEMMA KeepsByEnd ==
  ASSUME TypeOK, NEW p \in Procs, NEW q \in Procs, p # q, End(p)
  PROVE  Keeps(q)
BY DEF TypeOK, End, Goto, Keeps, NoJob, Docs

LEMMA OkAfterEnd ==
  ASSUME TypeOK, NEW p \in Procs, End(p)
  PROVE  RequestOk(p)' /\ CreditOk(p)'
<1>1. pc'[p] = "idle" /\ job'[p] = NoJob
  BY DEF TypeOK, End, Goto
<1> QED
  BY <1>1 DEF RequestOk, CreditOk

LEMMA TypeAfterEnd ==
  ASSUME TypeOK, NEW p \in Procs, End(p)
  PROVE  /\ docLock' \in [Docs -> Procs \cup {None}]
         /\ clientLock' \in [Clients -> Procs \cup {None}]
         /\ pc' \in [Procs -> {"idle", "client", "open", "paid", "post",
                              "pay", "cancel", "unpay"}]
         /\ job' \in [Procs -> [doc : Docs \cup {None}, amount : Amounts \cup {0},
                               client : Clients \cup {None}, pay : Payments \cup {None}]]
         /\ open' \in [Procs -> SUBSET Sales]
         /\ room' \in [Procs -> Int]
<1>1. NoJob \in [doc : Docs \cup {None}, amount : Amounts \cup {0},
                 client : Clients \cup {None}, pay : Payments \cup {None}]
  BY DEF NoJob
<1> QED
  BY <1>1 DEF TypeOK, End, Goto

LEMMA SomeJob ==
  ASSUME NEW d \in Docs \cup {None}, NEW n \in Amounts \cup {0}, NEW c \in Clients \cup {None},
         NEW y \in Payments \cup {None}
  PROVE  /\ {SaleJob(d, n, c), PayJob(d, n, y), [NoJob EXCEPT !.pay = y], [NoJob EXCEPT !.doc = d]}
              \subseteq [doc : Docs \cup {None}, amount : Amounts \cup {0},
                         client : Clients \cup {None}, pay : Payments \cup {None}]
         /\ [NoJob EXCEPT !.pay = y] = PayJob(None, 0, y)
         /\ [NoJob EXCEPT !.doc = d] = SaleJob(d, 0, None)
<1>1. SaleJob(d, n, c) \in [doc : Docs \cup {None}, amount : Amounts \cup {0},
                           client : Clients \cup {None}, pay : Payments \cup {None}]
  BY DEF SaleJob
<1>2. PayJob(d, n, y) \in [doc : Docs \cup {None}, amount : Amounts \cup {0},
                          client : Clients \cup {None}, pay : Payments \cup {None}]
  BY DEF PayJob
<1>3. [NoJob EXCEPT !.pay = y] = PayJob(None, 0, y)
  BY DEF NoJob, PayJob
<1>4. [NoJob EXCEPT !.doc = d] = SaleJob(d, 0, None)
  BY DEF NoJob, SaleJob
<1>5. PayJob(None, 0, y) \in [doc : Docs \cup {None}, amount : Amounts \cup {0},
                             client : Clients \cup {None}, pay : Payments \cup {None}]
  BY DEF PayJob
<1>6. SaleJob(d, 0, None) \in [doc : Docs \cup {None}, amount : Amounts \cup {0},
                              client : Clients \cup {None}, pay : Payments \cup {None}]
  BY DEF SaleJob
<1> QED
  BY <1>1, <1>2, <1>3, <1>4, <1>5, <1>6

-----------------------------------------------------------------------------
(* Steps that change no row.                                               *)

LEMMA SameRows ==
  ASSUME TypeOK, TypeOK', UNCHANGED rows
  PROVE  /\ \A q \in Procs : Spares(q)
         /\ QuotesAreSales => QuotesAreSales'
         /\ (\A y \in Payments : PayOk(y)) => (\A y \in Payments : PayOk(y))'
         /\ MoneyOnlyInForce => MoneyOnlyInForce'
         /\ NeverOverpaid => NeverOverpaid'
         /\ \A d \in Docs : Balance(d)' = Balance(d) /\ (Cancellable(d) => Cancellable(d)')
<1>1. status' = status /\ amount' = amount /\ client' = client /\ pay' = pay /\ limit' = limit
  BY DEF rows
<1>2. ReceivableTypes
  BY TypesOfTables
<1>3. \A c \in Clients : Uncollected(c)' = Uncollected(c) /\ Uncollected(c) \in Nat /\ InForce(c)' = InForce(c)
  <2> SUFFICES ASSUME NEW c \in Clients
               PROVE  Uncollected(c)' = Uncollected(c) /\ Uncollected(c) \in Nat
                      /\ InForce(c)' = InForce(c)
    OBVIOUS
  <2>1. InForce(c)' = InForce(c)
    BY <1>1 DEF InForce
  <2>2. Uncollected(c)' = Uncollected(c)
    BY <1>1, <2>1, UncollectedReads
  <2>3. Uncollected(c) \in Nat
    BY <1>2, UncollectedReads, UncollectedNat DEF ReceivableTypes
  <2> QED
    BY <2>1, <2>2, <2>3
<1>4. ASSUME NEW q \in Procs PROVE Spares(q)
  <2>1. ASSUME NEW d \in Docs
        PROVE  SettledIn(pay', {d}, ActiveIn(pay')) <= SettledIn(pay, {d}, ActiveIn(pay))
    <3>1. SettledIn(pay, {d}, ActiveIn(pay)) \in Nat
      BY <1>2, ActiveSettled
    <3> QED
      BY <1>1, <3>1
  <2>2. \A c \in Clients : Uncollected(c)' <= Uncollected(c) /\ InForce(c)' \subseteq InForce(c)
    BY <1>3
  <2> QED
    BY <1>1, <2>1, <2>2 DEF Spares
<1>5. \A d \in Docs : Balance(d)' = Balance(d)
  BY <1>1, <1>2, ActiveSettled
<1>6. \A d \in Docs : Cancellable(d) => Cancellable(d)'
  <2>1. \A d \in Docs : Settled({d}, ActivePays)' = Settled({d}, ActivePays)
    BY <1>1, <1>2, ActiveSettled
  <2> QED
    BY <1>1, <2>1 DEF Cancellable
<1> QED
  BY <1>1, <1>4, <1>5, <1>6 DEF QuotesAreSales, PayOk, MoneyOnlyInForce, ActivePays, NeverOverpaid

LEMMA SameRowsStep ==
  ASSUME IInv, TypeOK', UNCHANGED rows,
         \A q \in Procs : Keeps(q) \/ (RequestOk(q)' /\ CreditOk(q)')
  PROVE  IInv'
<1>1. RequestInv'
  BY SameRows, RequestsKept DEF IInv
<1> QED
  BY <1>1, SameRows DEF IInv

LEMMA SellStep ==
  ASSUME IInv, NEW p \in Procs, NEW d \in Docs, NEW n \in Amounts, NEW c \in Clients \cup {None},
         Sell(p, d, n, c)
  PROVE  IInv'
<1> DEFINE j == SaleJob(d, n, c)
<1>1. /\ TypeOK /\ d \in Sales /\ status[d] = "none" /\ \A q \in Procs : job[q].doc # d
      /\ UNCHANGED <<rows, docLock, clientLock, open, room>> /\ UNCHANGED rows /\ status' = status
      /\ job' = [job EXCEPT ![p] = j] /\ pc' = [pc EXCEPT ![p] = FirstStep(c)]
  BY DEF IInv, Sell, Fresh, Begin, rows
<1>2. /\ j.doc = d /\ j.client = c /\ j.pay = None /\ FirstStep(c) \in {"post", "client"}
      /\ c = None <=> FirstStep(c) = "post"
  BY DEF FirstStep, SaleJob
<1>3. TypeOK'
  <2>1. j \in [doc : Docs \cup {None}, amount : Amounts \cup {0},
               client : Clients \cup {None}, pay : Payments \cup {None}]
    BY SomeJob
  <2> HIDE DEF j
  <2> QED
    BY <1>1, <1>2, <2>1 DEF TypeOK, rows
<1>4. pc'[p] = FirstStep(c) /\ job'[p].doc = d /\ job'[p].client = c /\ job'[p].pay = None
      /\ \A q \in Procs \ {p} : job'[q] = job[q] /\ pc'[q] = pc[q]
  BY <1>1, <1>2 DEF TypeOK
<1> HIDE DEF j
<1>5. SaleOk(p)'
  BY <1>1, <1>4 DEF SaleOk
<1>6. RequestOk(p)' /\ CreditOk(p)'
  BY <1>2, <1>4, <1>5 DEF RequestOk, CreditOk
<1>7. \A q \in Procs \ {p} : Keeps(q)
  BY <1>1, <1>4 DEF Keeps
<1> QED
  BY <1>1, <1>3, <1>6, <1>7, SameRowsStep

LEMMA ConfirmStep ==
  ASSUME IInv, NEW p \in Procs, NEW d \in Docs, Confirm(p, d)
  PROVE  IInv'
<1>0. PICK n, c : n = amount[d] /\ c = client[d]
  OBVIOUS
<1> DEFINE j == SaleJob(d, n, c)
<1>1. /\ TypeOK /\ n \in Amounts \cup {0} /\ c \in Clients \cup {None} /\ d \in Sales
      /\ status[d] = "DRAFT" /\ docLock[d] = None /\ docLock' = [docLock EXCEPT ![d] = p]
      /\ UNCHANGED <<rows, clientLock, open, room>> /\ UNCHANGED rows
      /\ status' = status /\ amount' = amount /\ client' = client
      /\ pc' = [pc EXCEPT ![p] = FirstStep(c)]
  BY <1>0 DEF IInv, QuotesAreSales, TypeOK, Confirm, Begin, LockDoc, rows
<1>2. job' = [job EXCEPT ![p] = j]
  BY <1>0 DEF Confirm, Begin
<1>3. /\ j.doc = d /\ j.client = c /\ j.pay = None /\ j.amount = n
      /\ FirstStep(c) \in {"post", "client"}
      /\ c = None <=> FirstStep(c) = "post"
  BY DEF FirstStep, SaleJob
<1>4. TypeOK'
  <2>1. j \in [doc : Docs \cup {None}, amount : Amounts \cup {0},
               client : Clients \cup {None}, pay : Payments \cup {None}]
    BY <1>1, SomeJob
  <2> HIDE DEF j
  <2>2. job' \in [Procs -> [doc : Docs \cup {None}, amount : Amounts \cup {0},
                          client : Clients \cup {None}, pay : Payments \cup {None}]]
    BY <1>1, <1>2, <2>1 DEF TypeOK
  <2>3. pc' \in [Procs -> {"idle", "client", "open", "paid", "post", "pay", "cancel", "unpay"}]
    BY <1>1, <1>3 DEF TypeOK
  <2>4. docLock' \in [Docs -> Procs \cup {None}]
    BY <1>1 DEF TypeOK
  <2> QED
    BY <1>1, <2>2, <2>3, <2>4 DEF TypeOK, rows
<1>5. /\ pc'[p] = FirstStep(c) /\ job'[p].doc = d /\ job'[p].client = c /\ job'[p].pay = None
      /\ job'[p].amount = n /\ docLock'[d] = p
      /\ \A q \in Procs \ {p} : job'[q] = job[q] /\ pc'[q] = pc[q]
  BY <1>1, <1>2, <1>3 DEF TypeOK
<1> HIDE DEF j
<1>6. SaleOk(p)'
  BY <1>0, <1>1, <1>5 DEF SaleOk
<1>7. RequestOk(p)' /\ CreditOk(p)'
  BY <1>3, <1>5, <1>6 DEF RequestOk, CreditOk
<1>8. \A q \in Procs \ {p} : Keeps(q)
  <2> SUFFICES ASSUME NEW q \in Procs \ {p} PROVE Keeps(q)
    OBVIOUS
  <2>1. \A e \in Docs : docLock[e] = q => docLock'[e] = q
    BY <1>1 DEF TypeOK
  <2> QED
    BY <1>1, <1>5, <2>1 DEF Keeps
<1> QED
  BY <1>1, <1>4, <1>7, <1>8, SameRowsStep

LEMMA LockClientStep ==
  ASSUME IInv, NEW p \in Procs, LockClient(p)
  PROVE  IInv'
<1>1. PICK c : c = job[p].client
  OBVIOUS
<1>2. /\ TypeOK /\ RequestOk(p) /\ pc[p] = "client" /\ c # None /\ c \in Clients
      /\ clientLock[c] = None /\ clientLock' = [clientLock EXCEPT ![c] = p]
      /\ UNCHANGED <<rows, docLock, job, open>> /\ UNCHANGED rows
      /\ status' = status /\ amount' = amount /\ client' = client /\ limit' = limit
  <2>1. TypeOK /\ RequestOk(p) /\ pc[p] = "client"
    BY DEF IInv, RequestInv, LockClient
  <2>2. c # None /\ c \in Clients
    BY <1>1, <2>1 DEF RequestOk, TypeOK
  <2> QED
    BY <1>1, <2>1, <2>2 DEF LockClient, rows
<1>3. /\ room' = [room EXCEPT ![p] = IF limit[c] = None THEN 0 ELSE limit[c]]
      /\ pc' = [pc EXCEPT ![p] = IF limit[c] = None THEN "post" ELSE "open"]
  BY <1>1 DEF LockClient, Goto, Unlimited
<1>4. (IF limit[c] = None THEN 0 ELSE limit[c]) \in Int
  <2>1. limit[c] \in Limits \cup {None}
    BY <1>2 DEF TypeOK
  <2>2. CASE limit[c] # None
    <3>1. limit[c] \in Nat
      BY <2>1, <2>2
    <3> QED
      BY <2>2, <3>1
  <2> QED
    BY <2>2
<1>5. TypeOK'
  BY <1>2, <1>3, <1>4 DEF TypeOK, rows
<1>6. /\ pc'[p] \in {"post", "open"} /\ clientLock'[c] = p /\ job'[p] = job[p]
      /\ limit[c] # None => pc'[p] = "open"
      /\ pc'[p] = "open" => limit[c] # None /\ room'[p] = limit[c]
      /\ \A q \in Procs \ {p} : room'[q] = room[q] /\ pc'[q] = pc[q]
  BY <1>2, <1>3 DEF TypeOK
<1>7. SaleOk(p)'
  <2>1. SaleOk(p)
    BY <1>2 DEF RequestOk
  <2> QED
    BY <1>2, <2>1 DEF SaleOk
<1>8. RequestOk(p)' /\ CreditOk(p)'
  BY <1>1, <1>2, <1>6, <1>7 DEF RequestOk, CreditOk
<1>9. \A q \in Procs \ {p} : Keeps(q)
  <2> SUFFICES ASSUME NEW q \in Procs \ {p} PROVE Keeps(q)
    OBVIOUS
  <2>1. \A e \in Clients : clientLock[e] = q => clientLock'[e] = q
    BY <1>2 DEF TypeOK
  <2> QED
    BY <1>2, <1>6, <2>1 DEF Keeps
<1> QED
  BY <1>2, <1>5, <1>8, <1>9, SameRowsStep

\* What the two steps of the credit check and a refusal do to the others.
LEMMA KeepsByGoto ==
  ASSUME TypeOK, NEW p \in Procs, NEW q \in Procs, p # q, pc'[q] = pc[q],
         UNCHANGED <<docLock, clientLock, job>>,
         open'[q] = open[q], room'[q] = room[q]
  PROVE  Keeps(q)
BY DEF Keeps

LEMMA ReadOpenStep ==
  ASSUME IInv, NEW p \in Procs, ReadOpen(p)
  PROVE  IInv'
<1>1. PICK c, d, S : /\ c = job[p].client /\ d = job[p].doc
                     /\ S = {s \in Sales \ {d} : status[s] = "ACTIVE" /\ client[s] = c}
  OBVIOUS
<1>2. /\ TypeOK /\ RequestOk(p) /\ CreditOk(p) /\ pc[p] = "open"
      /\ open' = [open EXCEPT ![p] = S] /\ room' = [room EXCEPT ![p] = @ - Total(S)]
      /\ pc' = [pc EXCEPT ![p] = "paid"]
      /\ UNCHANGED <<rows, docLock, clientLock, job>> /\ UNCHANGED rows
      /\ status' = status /\ amount' = amount /\ client' = client /\ limit' = limit
  BY <1>1 DEF IInv, RequestInv, ReadOpen, Goto, rows
<1>3. S \in SUBSET Sales /\ Total(S) \in Nat
  <2>1. S \in SUBSET Sales
    BY <1>1
  <2>2. \A s \in S : amount[s] \in Nat
    <3>1. amount \in AmountTable /\ S \subseteq Docs
      BY <1>2, <2>1 DEF TypeOK, AmountTable, Docs
    <3> QED
      BY <3>1, AmountNat
  <2>3. IsFiniteSet(S)
    BY <2>1, FS_Subset
  <2> QED
    BY <2>1, <2>2, <2>3, SumNat DEF Total
<1>4. TypeOK'
  <2>1. room[p] - Total(S) \in Int
    BY <1>2, <1>3 DEF TypeOK
  <2> QED
    BY <1>2, <1>3, <2>1 DEF TypeOK, rows
<1>5. /\ pc'[p] = "paid" /\ job'[p] = job[p] /\ open'[p] = S /\ room'[p] = room[p] - Total(S)
      /\ \A q \in Procs \ {p} : room'[q] = room[q] /\ pc'[q] = pc[q] /\ open'[q] = open[q]
  <2> QED
    BY <1>2 DEF TypeOK
<1>6. SaleOk(p) /\ SaleOk(p)'
  BY <1>2 DEF RequestOk, SaleOk
<1>7. RequestOk(p)'
  BY <1>2, <1>5, <1>6 DEF RequestOk
<1>8. CreditOk(p)'
  <2>1. status[d] # "ACTIVE"
    BY <1>1, <1>6 DEF SaleOk
  <2>2. InForce(c)' \subseteq S /\ \A s \in S : status'[s] = "ACTIVE"
    BY <1>1, <1>2, <2>1 DEF InForce
  <2>3. room[p] = limit'[c]
    BY <1>1, <1>2 DEF CreditOk
  <2>4. room'[p] = limit'[c] - SumFunctionOnSet(amount', S)
    BY <1>2, <1>5, <2>3 DEF Total
  <2> QED
    BY <1>1, <1>2, <1>5, <2>2, <2>4 DEF CreditOk, InForce, Total
<1>9. \A q \in Procs \ {p} : Keeps(q)
  <2> QED
    BY <1>2, <1>5, KeepsByGoto
<1> QED
  BY <1>2, <1>4, <1>7, <1>8, <1>9, SameRowsStep

LEMMA ReadPaidStep ==
  ASSUME IInv, NEW p \in Procs, ReadPaid(p)
  PROVE  IInv'
<1>1. PICK c, n, O : c = job[p].client /\ n = job[p].amount /\ O = open[p]
  OBVIOUS
<1>2. /\ TypeOK /\ RequestOk(p) /\ CreditOk(p) /\ NeverOverpaid /\ pc[p] = "paid"
      /\ n <= room[p] + Settled(O, ActivePays)
      /\ pc' = [pc EXCEPT ![p] = "post"]
      /\ UNCHANGED <<rows, docLock, clientLock, job, open, room>> /\ UNCHANGED rows
      /\ status' = status /\ amount' = amount /\ client' = client /\ limit' = limit /\ pay' = pay
  BY <1>1 DEF IInv, RequestInv, ReadPaid, Goto, rows
<1>3. TypeOK'
  BY <1>2 DEF TypeOK, rows
<1>4. /\ pc'[p] = "post" /\ job'[p] = job[p]
      /\ \A q \in Procs \ {p} : pc'[q] = pc[q]
  BY <1>2 DEF TypeOK
<1>5. SaleOk(p) /\ SaleOk(p)'
  BY <1>2 DEF RequestOk, SaleOk
<1>6. RequestOk(p)'
  BY <1>2, <1>4, <1>5 DEF RequestOk
<1>7. c \in Clients /\ limit[c] # None /\ limit[c] \in Nat /\ n \in Nat
  <2>1. c # None /\ limit[c] # None /\ c \in Clients \cup {None} /\ n \in Amounts \cup {0}
    BY <1>1, <1>2 DEF RequestOk, TypeOK
  <2>2. limit[c] \in Limits \cup {None}
    BY <2>1, <1>2 DEF TypeOK
  <2>3. Amounts \cup {0} \subseteq Nat
    OBVIOUS
  <2> QED
    BY <2>1, <2>2, <2>3
<1>8. n + Uncollected(c) <= limit[c]
  <2>1. /\ InForce(c) \in SUBSET O /\ O \in SUBSET Sales
        /\ room[p] = limit[c] - Total(O)
    BY <1>1, <1>2 DEF CreditOk, TypeOK
  <2>2. ReceivableTypes /\ amount \in AmountTable /\ pay \in PayTable
    BY <1>2, <1>3, TypesOfTables DEF ReceivableTypes
  <2>3. \A d \in O : SettledIn(pay, {d}, ActiveIn(pay)) <= amount[d]
    <3> SUFFICES ASSUME NEW d \in O PROVE SettledIn(pay, {d}, ActiveIn(pay)) <= amount[d]
      OBVIOUS
    <3>1. d \in Docs
      BY <2>1 DEF Docs
    <3>2. Balance(d) >= 0
      BY <1>2, <3>1 DEF NeverOverpaid
    <3>3. PICK m \in Nat, k \in Nat : m = SettledIn(pay, {d}, ActiveIn(pay)) /\ k = amount[d]
      BY <2>2, <3>1, ActiveSettled
    <3>4. Balance(d) = k - m
      BY <2>2, <3>1, <3>3, ActiveSettled
    <3> QED
      BY <3>2, <3>3, <3>4
  <2>4. /\ SumFunctionOnSet(amount, O) \in Nat /\ SettledIn(pay, O, ActiveIn(pay)) \in Nat
        /\ UncollectedIn(amount, pay, InForce(c))
             <= SumFunctionOnSet(amount, O) - SettledIn(pay, O, ActiveIn(pay))
    BY <2>1, <2>2, <2>3, CheckIsEnough
  <2>5. UncollectedIn(amount, pay, InForce(c)) \in Nat
    BY <2>1, <2>2, UncollectedNat
  <2>6. Settled(O, ActivePays) = SettledIn(pay, O, ActiveIn(pay)) /\ Total(O) = SumFunctionOnSet(amount, O)
        /\ Uncollected(c) = UncollectedIn(amount, pay, InForce(c))
    BY <1>7, UncollectedReads DEF Settled, SettledIn, ActivePays, ActiveIn, Total
  <2>7. PICK t \in Nat, s \in Nat, u \in Nat, l \in Nat, m \in Nat :
          /\ t = SumFunctionOnSet(amount, O) /\ s = SettledIn(pay, O, ActiveIn(pay))
          /\ u = UncollectedIn(amount, pay, InForce(c)) /\ l = limit[c] /\ m = n
    BY <1>7, <2>4, <2>5
  <2>8. u <= t - s /\ m <= l - t + s
    BY <1>2, <2>1, <2>4, <2>6, <2>7
  <2> QED
    BY <2>6, <2>7, <2>8
<1>9. Uncollected(c)' = Uncollected(c)
  <2>1. InForce(c)' = InForce(c)
    BY <1>2 DEF InForce
  <2> QED
    BY <1>2, <1>7, <2>1, UncollectedReads
<1>10. CreditOk(p)'
  BY <1>1, <1>2, <1>4, <1>8, <1>9 DEF CreditOk
<1>11. \A q \in Procs \ {p} : Keeps(q)
  BY <1>2, <1>4, KeepsByGoto
<1> QED
  BY <1>2, <1>3, <1>6, <1>10, <1>11, SameRowsStep

LEMMA RefuseStep ==
  ASSUME IInv, NEW p \in Procs, Refuse(p)
  PROVE  IInv'
<1>1. TypeOK /\ End(p) /\ UNCHANGED rows
  BY DEF IInv, Refuse, Rollback
<1>2. TypeOK'
  BY <1>1, TypeAfterEnd DEF TypeOK, rows
<1> QED
  BY <1>1, <1>2, OkAfterEnd, KeepsByEnd, SameRowsStep

LEMMA BeginPayStep ==
  ASSUME IInv, NEW p \in Procs, NEW d \in Docs, NEW y \in Payments, NEW n \in Amounts,
         BeginPay(p, d, y, n)
  PROVE  IInv'
<1> DEFINE j == PayJob(d, n, y)
<1>1. /\ TypeOK /\ status[d] = "ACTIVE" /\ docLock[d] = None /\ docLock' = [docLock EXCEPT ![d] = p]
      /\ pay[y] = NoPay /\ (\A q \in Procs : job[q].pay # y) /\ n <= Balance(d)
      /\ job' = [job EXCEPT ![p] = j] /\ pc' = [pc EXCEPT ![p] = "pay"]
      /\ UNCHANGED <<rows, clientLock, open, room>> /\ UNCHANGED rows
      /\ status' = status /\ pay' = pay
  BY DEF IInv, BeginPay, Begin, LockDoc, rows
<1>2. j.doc = d /\ j.amount = n /\ j.pay = y /\ n # 0
  BY DEF PayJob
<1>3. j \in [doc : Docs \cup {None}, amount : Amounts \cup {0},
             client : Clients \cup {None}, pay : Payments \cup {None}]
  BY SomeJob
<1> HIDE DEF j
<1>4. TypeOK'
  BY <1>1, <1>3 DEF TypeOK, rows
<1>5. /\ pc'[p] = "pay" /\ job'[p] = j /\ docLock'[d] = p
      /\ \A q \in Procs \ {p} : job'[q] = job[q] /\ pc'[q] = pc[q]
  BY <1>1 DEF TypeOK
<1>6. n <= Balance(d)'
  BY <1>1, <1>4, SameRows
<1>7. RequestOk(p)' /\ CreditOk(p)'
  BY <1>1, <1>2, <1>5, <1>6 DEF RequestOk, CreditOk
<1>8. \A q \in Procs \ {p} : Keeps(q)
  <2> SUFFICES ASSUME NEW q \in Procs \ {p} PROVE Keeps(q)
    OBVIOUS
  <2>1. \A e \in Docs : docLock[e] = q => docLock'[e] = q
    BY <1>1 DEF TypeOK
  <2> QED
    BY <1>1, <1>2, <1>5, <2>1 DEF Keeps
<1> QED
  BY <1>1, <1>4, <1>7, <1>8, SameRowsStep

LEMMA BeginCancelPaymentStep ==
  ASSUME IInv, NEW p \in Procs, NEW y \in Payments, BeginCancelPayment(p, y)
  PROVE  IInv'
<1> DEFINE j == PayJob(None, 0, y)
<1>1. /\ TypeOK /\ pay[y].status = "ACTIVE"
      /\ pc' = [pc EXCEPT ![p] = "unpay"]
      /\ UNCHANGED <<rows, docLock, clientLock, open, room>> /\ UNCHANGED rows
      /\ status' = status /\ pay' = pay
  BY DEF IInv, BeginCancelPayment, Begin, rows
<1>2. /\ job' = [job EXCEPT ![p] = j]
      /\ j \in [doc : Docs \cup {None}, amount : Amounts \cup {0},
                client : Clients \cup {None}, pay : Payments \cup {None}]
  <2>1. /\ [NoJob EXCEPT !.pay = y] = j
        /\ [NoJob EXCEPT !.pay = y]
             \in [doc : Docs \cup {None}, amount : Amounts \cup {0},
                  client : Clients \cup {None}, pay : Payments \cup {None}]
    BY SomeJob
  <2>2. job' = [job EXCEPT ![p] = [NoJob EXCEPT !.pay = y]]
    BY DEF BeginCancelPayment, Begin
  <2> QED
    BY <2>1, <2>2
<1>3. j.doc = None /\ j.pay = y
  BY DEF PayJob
<1> HIDE DEF j
<1>4. TypeOK'
  BY <1>1, <1>2 DEF TypeOK, rows
<1>5. /\ pc'[p] = "unpay" /\ job'[p] = j
      /\ \A q \in Procs \ {p} : job'[q] = job[q] /\ pc'[q] = pc[q]
  BY <1>1, <1>2 DEF TypeOK
<1>6. RequestOk(p)' /\ CreditOk(p)'
  BY <1>1, <1>3, <1>5 DEF RequestOk, CreditOk
<1>7. \A q \in Procs \ {p} : Keeps(q)
  BY <1>1, <1>3, <1>5 DEF Keeps, NoPay, Docs
<1> QED
  BY <1>1, <1>4, <1>6, <1>7, SameRowsStep

LEMMA BeginCancelStep ==
  ASSUME IInv, NEW p \in Procs, NEW d \in Docs, BeginCancel(p, d)
  PROVE  IInv'
<1> DEFINE j == SaleJob(d, 0, None)
<1>1. /\ TypeOK /\ Cancellable(d) /\ docLock[d] = None /\ docLock' = [docLock EXCEPT ![d] = p]
      /\ pc' = [pc EXCEPT ![p] = "cancel"]
      /\ UNCHANGED <<rows, clientLock, open, room>> /\ UNCHANGED rows /\ status' = status
  BY DEF IInv, BeginCancel, Begin, LockDoc, rows
<1>2. /\ job' = [job EXCEPT ![p] = j]
      /\ j \in [doc : Docs \cup {None}, amount : Amounts \cup {0},
                client : Clients \cup {None}, pay : Payments \cup {None}]
  <2>1. /\ [NoJob EXCEPT !.doc = d] = j
        /\ [NoJob EXCEPT !.doc = d]
             \in [doc : Docs \cup {None}, amount : Amounts \cup {0},
                  client : Clients \cup {None}, pay : Payments \cup {None}]
    BY SomeJob
  <2>2. job' = [job EXCEPT ![p] = [NoJob EXCEPT !.doc = d]]
    BY DEF BeginCancel, Begin
  <2> QED
    BY <2>1, <2>2
<1>3. j.doc = d /\ j.pay = None
  BY DEF SaleJob
<1> HIDE DEF j
<1>4. TypeOK'
  BY <1>1, <1>2 DEF TypeOK, rows
<1>5. /\ pc'[p] = "cancel" /\ job'[p] = j /\ docLock'[d] = p
      /\ \A q \in Procs \ {p} : job'[q] = job[q] /\ pc'[q] = pc[q]
  BY <1>1, <1>2 DEF TypeOK
<1>6. Cancellable(d)'
  BY <1>1, <1>4, SameRows
<1>7. RequestOk(p)' /\ CreditOk(p)'
  BY <1>3, <1>5, <1>6 DEF RequestOk, CreditOk
<1>8. \A q \in Procs \ {p} : Keeps(q)
  <2> SUFFICES ASSUME NEW q \in Procs \ {p} PROVE Keeps(q)
    OBVIOUS
  <2>1. \A e \in Docs : docLock[e] = q => docLock'[e] = q
    BY <1>1 DEF TypeOK
  <2>2. status[d] # "none"
    BY <1>1 DEF Cancellable
  <2> QED
    BY <1>1, <1>3, <1>5, <2>1, <2>2 DEF Keeps
<1> QED
  BY <1>1, <1>4, <1>7, <1>8, SameRowsStep

-----------------------------------------------------------------------------
(* Steps that change a document.                                           *)

NoMoneyOn(d) == \A y \in ActivePays : pay[y].doc # d

LEMMA NothingSettled ==
  ASSUME NEW d, NoMoneyOn(d)
  PROVE  SettledIn(pay, {d}, ActiveIn(pay)) = 0
<1>1. {y \in ActiveIn(pay) : pay[y].doc \in {d}} = {}
  BY DEF NoMoneyOn, ActivePays, ActiveIn
<1> QED
  BY <1>1, SumEmpty DEF SettledIn

LEMMA NoMoneyBefore ==
  ASSUME IInv, NEW d \in Docs, status[d] # "ACTIVE" \/ Cancellable(d)
  PROVE  NoMoneyOn(d)
<1> SUFFICES ASSUME NEW y \in ActivePays, pay[y].doc = d PROVE FALSE
  BY DEF NoMoneyOn
<1>1. /\ status[d] = "ACTIVE" /\ y \in Payments /\ y \in ActiveIn(pay) /\ pay[y].status = "ACTIVE"
      /\ pay \in PayTable
  BY DEF IInv, MoneyOnlyInForce, ActivePays, ActiveIn, TypeOK, PayTable
<1>2. Settled({d}, ActivePays) = 0
  BY <1>1 DEF Cancellable
<1>3. SettledIn(pay, {d}, ActiveIn(pay)) = 0
  BY <1>2 DEF Settled, SettledIn, ActivePays, ActiveIn
<1>4. ActiveIn(pay) \in SUBSET Payments
  BY DEF ActiveIn
<1>5. pay[y].amount <= 0
  BY <1>1, <1>3, <1>4, SettledNat
<1>6. pay[y].amount # 0
  BY <1>1 DEF IInv, PayOk
<1>7. pay[y].amount \in Nat
  <2>1. Amounts \cup {0} \subseteq Nat
    OBVIOUS
  <2>2. pay[y].amount \in Amounts \cup {0}
    BY <1>1 DEF PayTable
  <2> QED
    BY <2>1, <2>2
<1> QED
  BY <1>5, <1>6, <1>7

\* A document that no money is on changes, and nothing else does.
DocStep(d) ==
    /\ UNCHANGED <<pay, limit>>
    /\ NoMoneyOn(d)
    /\ \A e \in Docs \ {d} : status'[e] = status[e] /\ amount'[e] = amount[e] /\ client'[e] = client[e]
    /\ status[d] # "CANCELLED"
    /\ status[d] = "ACTIVE" => status'[d] = "CANCELLED" /\ amount'[d] = amount[d]
    /\ status'[d] = "DRAFT" => d \in Sales

LEMMA MadeUnchanged ==
  ASSUME TypeOK, TypeOK', NEW c \in Clients,
         InForce(c)' \subseteq InForce(c),
         \A s \in InForce(c)' : amount'[s] = amount[s],
         \A y \in MadeIn(pay) : /\ y \in MadeIn(pay')
                                /\ pay[y].amount = pay'[y].amount /\ pay[y].doc = pay'[y].doc
  PROVE  Uncollected(c)' <= Uncollected(c)
<1>1. pay \in PayTable /\ pay' \in PayTable /\ amount \in AmountTable /\ amount' \in AmountTable
  BY TypesOfTables DEF ReceivableTypes
<1>2. PICK S, T : S = InForce(c)' /\ T = InForce(c)
  OBVIOUS
<1>3. S \in SUBSET Sales /\ T \in SUBSET Sales /\ S \subseteq T /\ S \subseteq Docs
  BY <1>2 DEF InForce, Docs
<1>4. \A s \in S : UnpaidIn(amount', pay', s) <= UnpaidIn(amount, pay, s)
  BY <1>1, <1>2, <1>3, UnpaidShrinks
<1>5. UncollectedIn(amount', pay', S) <= UncollectedIn(amount, pay, T)
  BY <1>1, <1>3, <1>4, UncollectedShrinks
<1> QED
  BY <1>2, <1>5, UncollectedReads

LEMMA DocStepSpares ==
  ASSUME TypeOK, TypeOK', NEW d \in Docs, DocStep(d), NEW q \in Procs,
         job[q].doc = d => docLock[d] # q /\ (d \in Sales => status[d] # "none"),
         \A c \in Clients : clientLock[c] = q =>
            ~(d \in Sales /\ status'[d] = "ACTIVE" /\ client'[d] = c)
  PROVE  Spares(q)
<1>1. pay' = pay /\ limit' = limit /\ ReceivableTypes
  BY TypesOfTables DEF DocStep
<1>2. ASSUME NEW e \in Docs, e = job[q].doc
      PROVE  /\ docLock[e] = q =>
                  /\ status'[e] = status[e] /\ amount'[e] = amount[e] /\ client'[e] = client[e]
                  /\ SettledIn(pay', {e}, ActiveIn(pay')) <= SettledIn(pay, {e}, ActiveIn(pay))
             /\ e \in Sales /\ status[e] = "none" => status'[e] = "none"
  <2>1. SettledIn(pay, {e}, ActiveIn(pay)) \in Nat
    BY <1>1, ActiveSettled
  <2>2. SettledIn(pay', {e}, ActiveIn(pay')) <= SettledIn(pay, {e}, ActiveIn(pay))
    BY <1>1, <2>1
  <2> QED
    BY <1>2, <2>2 DEF DocStep
<1>3. ASSUME NEW c \in Clients, clientLock[c] = q
      PROVE  limit'[c] = limit[c] /\ InForce(c)' \subseteq InForce(c) /\ Uncollected(c)' <= Uncollected(c)
  <2>1. ASSUME NEW s \in InForce(c)' PROVE s \in InForce(c) /\ amount'[s] = amount[s]
    <3>1. s \in Sales /\ s \in Docs /\ status'[s] = "ACTIVE" /\ client'[s] = c
      BY <2>1 DEF InForce, Docs
    <3>2. s # d
      BY <1>3, <3>1
    <3> QED
      BY <3>1, <3>2 DEF DocStep, InForce
  <2>2. \A y \in MadeIn(pay) : /\ y \in MadeIn(pay')
                               /\ pay[y].amount = pay'[y].amount /\ pay[y].doc = pay'[y].doc
    BY <1>1
  <2>3. InForce(c)' \subseteq InForce(c) /\ \A s \in InForce(c)' : amount'[s] = amount[s]
    BY <2>1
  <2> QED
    BY <1>1, <2>2, <2>3, MadeUnchanged
<1>4. \A s \in Sales : status[s] \in {"ACTIVE", "CANCELLED"} =>
          status'[s] \in {"ACTIVE", "CANCELLED"} /\ amount'[s] = amount[s]
  BY DEF DocStep, Docs
<1> QED
  BY <1>1, <1>2, <1>3, <1>4 DEF Spares

LEMMA DocStepInv ==
  ASSUME IInv, TypeOK', NEW d \in Docs, DocStep(d), RequestInv'
  PROVE  IInv'
<1>1. pay' = pay /\ ReceivableTypes /\ TypeOK
  BY TypesOfTables DEF DocStep, IInv
<1>2. QuotesAreSales'
  BY DEF QuotesAreSales, DocStep, IInv
<1>3. (\A y \in Payments : PayOk(y))'
  BY <1>1 DEF IInv, PayOk
<1>4. MoneyOnlyInForce'
  <2> SUFFICES ASSUME NEW y \in ActivePays' PROVE status'[pay'[y].doc] = "ACTIVE"
    BY DEF MoneyOnlyInForce
  <2>1. y \in ActivePays /\ y \in Payments /\ pay[y].doc # d /\ pay[y].status = "ACTIVE"
    BY <1>1 DEF ActivePays, DocStep, NoMoneyOn
  <2>2. pay[y].doc \in Docs /\ status[pay[y].doc] = "ACTIVE"
    BY <2>1 DEF IInv, PayOk, MoneyOnlyInForce
  <2> QED
    BY <1>1, <2>1, <2>2 DEF DocStep
<1>5. NeverOverpaid'
  <2> SUFFICES ASSUME NEW e \in Docs PROVE Balance(e)' >= 0
    BY DEF NeverOverpaid
  <2>1. CASE e = d
    <3>1. SettledIn(pay', {e}, ActiveIn(pay')) = 0
      BY <1>1, <2>1, NothingSettled DEF DocStep
    <3>2. PICK k \in Nat : k = amount'[e]
      BY <1>1, ActiveSettled
    <3>3. Balance(e)' = k
      BY <1>1, <3>1, <3>2, ActiveSettled
    <3> QED
      BY <3>2, <3>3
  <2>2. CASE e # d
    <3>1. Balance(e)' = Balance(e)
      <4>1. amount'[e] = amount[e]
        BY <2>2 DEF DocStep
      <4> QED
        BY <1>1, <4>1, ActiveSettled
    <3> QED
      BY <3>1 DEF IInv, NeverOverpaid
  <2> QED
    BY <2>1, <2>2
<1> QED
  BY <1>2, <1>3, <1>4, <1>5 DEF IInv

LEMMA KeepsStill ==
  ASSUME UNCHANGED <<docLock, clientLock, request>>, NEW q \in Procs
  PROVE  Keeps(q)
BY DEF Keeps, request

LEMMA QuoteStep ==
  ASSUME IInv, NEW d \in Docs, NEW n \in Amounts, NEW c \in Clients \cup {None}, Quote(d, n, c)
  PROVE  IInv'
<1>1. /\ TypeOK /\ RequestInv /\ d \in Sales /\ status[d] = "none" /\ \A q \in Procs : job[q].doc # d
      /\ status' = [status EXCEPT ![d] = "DRAFT"] /\ amount' = [amount EXCEPT ![d] = n]
      /\ client' = [client EXCEPT ![d] = c]
      /\ UNCHANGED <<pay, limit, docLock, clientLock, request>>
  BY DEF IInv, Quote, Fresh
<1>2. TypeOK'
  BY <1>1 DEF TypeOK, request
<1>3. DocStep(d) /\ status'[d] = "DRAFT"
  BY <1>1, NoMoneyBefore DEF DocStep, TypeOK
<1>4. \A q \in Procs : Keeps(q) /\ Spares(q)
  BY <1>1, <1>2, <1>3, KeepsStill, DocStepSpares
<1>5. RequestInv'
  BY <1>1, <1>2, <1>4, RequestsKept
<1> QED
  BY <1>2, <1>3, <1>5, DocStepInv

LEMMA EditStep ==
  ASSUME IInv, NEW d \in Docs, NEW n \in Amounts, NEW c \in Clients \cup {None}, Edit(d, n, c)
  PROVE  IInv'
<1>1. /\ TypeOK /\ RequestInv /\ d \in Sales /\ status[d] = "DRAFT" /\ docLock[d] = None
      /\ amount' = [amount EXCEPT ![d] = n] /\ client' = [client EXCEPT ![d] = c]
      /\ UNCHANGED <<status, pay, limit, docLock, clientLock, request>>
  BY DEF IInv, Edit, QuotesAreSales
<1>2. TypeOK'
  BY <1>1 DEF TypeOK, request
<1>3. DocStep(d) /\ status'[d] = "DRAFT"
  BY <1>1, NoMoneyBefore DEF DocStep, TypeOK
<1>4. \A q \in Procs : Keeps(q) /\ Spares(q)
  BY <1>1, <1>2, <1>3, KeepsStill, DocStepSpares
<1>5. RequestInv'
  BY <1>1, <1>2, <1>4, RequestsKept
<1> QED
  BY <1>2, <1>3, <1>5, DocStepInv

LEMMA PurchaseStep ==
  ASSUME IInv, NEW d \in Docs, NEW n \in Amounts, Purchase(d, n)
  PROVE  IInv'
<1>1. /\ TypeOK /\ RequestInv /\ d \in Purchases /\ d \notin Sales /\ d # None /\ status[d] = "none"
      /\ status' = [status EXCEPT ![d] = "ACTIVE"] /\ amount' = [amount EXCEPT ![d] = n]
      /\ UNCHANGED <<client, pay, limit, docLock, clientLock, request>>
  BY DEF IInv, Purchase
<1>2. TypeOK'
  BY <1>1 DEF TypeOK, request
<1>3. DocStep(d)
  BY <1>1, NoMoneyBefore DEF DocStep, TypeOK
<1>4. \A q \in Procs : job[q].doc # d
  <2> SUFFICES ASSUME NEW q \in Procs PROVE job[q].doc # d
    OBVIOUS
  <2>1. RequestOk(q) /\ pc[q] \in {"idle", "client", "open", "paid", "post", "pay", "cancel", "unpay"}
    BY <1>1 DEF RequestInv, TypeOK
  <2>2. pc[q] = "idle" => job[q].doc = None
    BY <2>1 DEF RequestOk, NoJob
  <2>3. pc[q] \in {"client", "open", "paid", "post"} => job[q].doc \in Sales
    BY <2>1 DEF RequestOk, SaleOk
  <2>4. pc[q] = "pay" => status[job[q].doc] = "ACTIVE"
    BY <2>1 DEF RequestOk
  <2>5. pc[q] = "cancel" => status[job[q].doc] # "none"
    BY <2>1 DEF RequestOk, Cancellable
  <2>6. pc[q] = "unpay" => job[q].doc = None
    BY <2>1 DEF RequestOk
  <2> QED
    BY <1>1, <2>1, <2>2, <2>3, <2>4, <2>5, <2>6
<1>5. \A q \in Procs : Keeps(q) /\ Spares(q)
  BY <1>1, <1>2, <1>3, <1>4, KeepsStill, DocStepSpares
<1>6. RequestInv'
  BY <1>1, <1>2, <1>5, RequestsKept
<1> QED
  BY <1>2, <1>3, <1>6, DocStepInv

LEMMA PostStep ==
  ASSUME IInv, NEW p \in Procs, Post(p)
  PROVE  /\ IInv'
         /\ \A d \in Sales, c \in Clients :
               /\ status[d] # "ACTIVE" /\ status'[d] = "ACTIVE"
               /\ client'[d] = c /\ limit[c] # None
               => Uncollected(c)' <= limit[c]
<1>1. PICK d, n, k : d = job[p].doc /\ n = job[p].amount /\ k = job[p].client
  OBVIOUS
<1>2. /\ TypeOK /\ RequestInv /\ RequestOk(p) /\ CreditOk(p) /\ SaleOk(p) /\ pc[p] = "post"
      /\ n \in Amounts \cup {0} /\ k \in Clients \cup {None}
      /\ status' = [status EXCEPT ![d] = "ACTIVE"] /\ amount' = [amount EXCEPT ![d] = n]
      /\ client' = [client EXCEPT ![d] = k]
      /\ UNCHANGED <<pay, limit>> /\ End(p)
  <2>1. TypeOK /\ RequestInv /\ RequestOk(p) /\ CreditOk(p) /\ pc[p] = "post"
    BY DEF IInv, RequestInv, Post
  <2>2. SaleOk(p)
    BY <2>1 DEF RequestOk
  <2> QED
    BY <1>1, <2>1, <2>2 DEF Post, TypeOK
<1>3. /\ d \in Sales /\ d \in Docs /\ status[d] \in {"DRAFT", "none"}
      /\ status[d] = "DRAFT" => docLock[d] = p
      /\ status[d] = "none" => \A q \in Procs \ {p} : job[q].doc # d
  BY <1>1, <1>2 DEF SaleOk, Docs
<1>4. TypeOK'
  BY <1>2, <1>3, TypeAfterEnd DEF TypeOK
<1>5. /\ status'[d] = "ACTIVE" /\ amount'[d] = n /\ client'[d] = k
      /\ \A e \in Docs \ {d} : status'[e] = status[e] /\ amount'[e] = amount[e] /\ client'[e] = client[e]
  BY <1>2, <1>3 DEF TypeOK
<1>6. DocStep(d)
  BY <1>2, <1>3, <1>5, NoMoneyBefore DEF DocStep
<1>7. ASSUME NEW q \in Procs \ {p} PROVE Keeps(q) /\ Spares(q)
  <2>1. Keeps(q)
    BY <1>2, KeepsByEnd
  <2>2. job[q].doc = d => docLock[d] # q /\ status[d] # "none"
    BY <1>3
  <2>3. \A c \in Clients : clientLock[c] = q => client'[d] # c
    BY <1>1, <1>2, <1>5 DEF RequestOk
  <2>4. Spares(q)
    BY <1>2, <1>3, <1>4, <1>6, <2>2, <2>3, DocStepSpares
  <2> QED
    BY <2>1, <2>4
<1>8. RequestInv'
  BY <1>2, <1>4, <1>7, OkAfterEnd, RequestsKept
<1>9. IInv'
  BY <1>3, <1>4, <1>6, <1>8, DocStepInv
<1>10. ASSUME NEW e \in Sales, NEW c \in Clients, status[e] # "ACTIVE", status'[e] = "ACTIVE",
              client'[e] = c, limit[c] # None
       PROVE  Uncollected(c)' <= limit[c]
  <2>1. e = d /\ c = k /\ k # None
    BY <1>3, <1>5, <1>10 DEF Docs
  <2>2. n + Uncollected(c) <= limit[c]
    BY <1>1, <1>2, <1>10, <2>1 DEF CreditOk
  <2>3. PICK S, T : S = InForce(c) /\ T = InForce(c)'
    OBVIOUS
  <2>4. S \in SUBSET Sales /\ d \in Sales \ S /\ T = S \cup {d} /\ \A s \in S : amount'[s] = amount[s]
    <3>1. d \notin S /\ S \in SUBSET Sales
      BY <1>3, <2>3 DEF InForce
    <3>2. \A s \in Sales \ {d} : s \in T <=> s \in S
      BY <1>5, <2>3 DEF InForce, Docs
    <3>3. d \in T /\ T \subseteq Sales
      BY <1>3, <1>5, <2>1, <2>3 DEF InForce
    <3>4. \A s \in S : amount'[s] = amount[s]
      BY <1>5, <3>1 DEF Docs
    <3> QED
      BY <1>3, <3>1, <3>2, <3>3, <3>4
  <2>5. pay' = pay /\ pay \in PayTable /\ amount \in AmountTable /\ amount' \in AmountTable
    BY <1>2, <1>4, TypesOfTables DEF ReceivableTypes
  <2>6. UncollectedIn(amount', pay, T) <= amount'[d] + UncollectedIn(amount, pay, S)
    BY <2>4, <2>5, UncollectedPlus
  <2>7. Uncollected(c)' <= n + Uncollected(c)
    BY <1>5, <2>3, <2>5, <2>6, UncollectedReads
  <2>8. limit[c] \in Nat /\ n \in Nat /\ Uncollected(c) \in Nat /\ Uncollected(c)' \in Nat
    <3>1. limit[c] \in Limits \cup {None} /\ Amounts \cup {0} \subseteq Nat
      BY <1>2 DEF TypeOK
    <3>2. Uncollected(c) \in Nat /\ Uncollected(c)' \in Nat
      BY <2>5, UncollectedReads, UncollectedNat
    <3> QED
      BY <1>2, <1>10, <3>1, <3>2
  <2>9. PICK i \in Nat, j \in Nat, l \in Nat, m \in Nat :
          i = Uncollected(c) /\ j = Uncollected(c)' /\ l = limit[c] /\ m = n
    BY <2>8
  <2> QED
    BY <2>2, <2>7, <2>9
<1> QED
  BY <1>9, <1>10

LEMMA CancelStep ==
  ASSUME IInv, NEW p \in Procs, Cancel(p)
  PROVE  IInv'
<1>1. PICK d : d = job[p].doc
  OBVIOUS
<1>2. /\ TypeOK /\ RequestInv /\ RequestOk(p) /\ pc[p] = "cancel"
      /\ d \in Docs /\ docLock[d] = p /\ Cancellable(d)
      /\ status' = [status EXCEPT ![d] = "CANCELLED"]
      /\ UNCHANGED <<amount, client, pay, limit>> /\ End(p)
  BY <1>1 DEF IInv, RequestInv, Cancel, RequestOk
<1>3. status[d] \in {"DRAFT", "ACTIVE"}
  BY <1>2 DEF Cancellable
<1>4. TypeOK'
  BY <1>2, TypeAfterEnd DEF TypeOK
<1>5. status'[d] = "CANCELLED" /\ \A e \in Docs \ {d} : status'[e] = status[e]
  BY <1>2 DEF TypeOK
<1>6. DocStep(d)
  BY <1>2, <1>3, <1>5, NoMoneyBefore DEF DocStep
<1>7. ASSUME NEW q \in Procs \ {p} PROVE Keeps(q) /\ Spares(q)
  BY <1>2, <1>3, <1>4, <1>5, <1>6, KeepsByEnd, DocStepSpares
<1>8. RequestInv'
  BY <1>2, <1>4, <1>7, OkAfterEnd, RequestsKept
<1> QED
  BY <1>2, <1>4, <1>6, <1>8, DocStepInv

-----------------------------------------------------------------------------
(* Steps that change a payment or a limit.                                 *)

LEMMA PaymentSpares ==
  ASSUME TypeOK, TypeOK', UNCHANGED <<status, amount, client>>, NEW q \in Procs,
         \A y \in MadeIn(pay) : /\ y \in MadeIn(pay')
                                /\ pay[y].amount = pay'[y].amount /\ pay[y].doc = pay'[y].doc,
         \A d \in Docs : d = job[q].doc /\ docLock[d] = q =>
            SettledIn(pay', {d}, ActiveIn(pay')) <= SettledIn(pay, {d}, ActiveIn(pay)),
         \A c \in Clients : clientLock[c] = q => limit'[c] = limit[c],
         \A y \in Payments : y = job[q].pay /\ pc[q] = "pay" /\ pay[y] = NoPay => pay'[y] = NoPay
  PROVE  Spares(q)
<1>1. \A c \in Clients : InForce(c)' = InForce(c)
  BY DEF InForce
<1>2. \A c \in Clients : Uncollected(c)' <= Uncollected(c)
  <2> SUFFICES ASSUME NEW c \in Clients PROVE Uncollected(c)' <= Uncollected(c)
    OBVIOUS
  <2>1. InForce(c)' \subseteq InForce(c) /\ \A s \in InForce(c)' : amount'[s] = amount[s]
    BY <1>1
  <2> QED
    BY <2>1, MadeUnchanged
<1>3. \A y \in Payments : pay[y].status # "none" => pay'[y].status # "none"
  BY DEF MadeIn
<1> QED
  BY <1>1, <1>2, <1>3 DEF Spares

LEMMA SetLimitStep ==
  ASSUME IInv, NEW c \in Clients, NEW n \in Limits, SetLimit(c, n)
  PROVE  IInv'
<1>1. /\ TypeOK /\ RequestInv /\ clientLock[c] = None
      /\ limit' = [limit EXCEPT ![c] = n]
      /\ UNCHANGED <<status, amount, client, pay, docLock, clientLock, request>>
  BY DEF IInv, SetLimit
<1>2. TypeOK'
  BY <1>1 DEF TypeOK, request
<1>3. ReceivableTypes
  BY <1>1, <1>2, TypesOfTables
<1>4. ASSUME NEW q \in Procs PROVE Keeps(q) /\ Spares(q)
  <2>1. \A e \in Clients : clientLock[e] = q => limit'[e] = limit[e]
    BY <1>1 DEF TypeOK
  <2>2. \A d \in Docs : SettledIn(pay', {d}, ActiveIn(pay')) <= SettledIn(pay, {d}, ActiveIn(pay))
    <3> SUFFICES ASSUME NEW d \in Docs
                 PROVE  SettledIn(pay', {d}, ActiveIn(pay')) <= SettledIn(pay, {d}, ActiveIn(pay))
      OBVIOUS
    <3>1. SettledIn(pay, {d}, ActiveIn(pay)) \in Nat
      BY <1>3, ActiveSettled
    <3> QED
      BY <1>1, <3>1
  <2>3. \A y \in MadeIn(pay) : /\ y \in MadeIn(pay')
                               /\ pay[y].amount = pay'[y].amount /\ pay[y].doc = pay'[y].doc
    BY <1>1
  <2> QED
    BY <1>1, <1>2, <2>1, <2>2, <2>3, KeepsStill, PaymentSpares
<1>5. RequestInv'
  BY <1>1, <1>2, <1>4, RequestsKept
<1>6. NeverOverpaid'
  <2>1. \A d \in Docs : Balance(d)' = Balance(d)
    BY <1>1, <1>3, ActiveSettled
  <2> QED
    BY <2>1 DEF IInv, NeverOverpaid
<1> QED
  BY <1>1, <1>2, <1>5, <1>6 DEF IInv, QuotesAreSales, PayOk, MoneyOnlyInForce, ActivePays

LEMMA PayStep ==
  ASSUME IInv, NEW p \in Procs, Pay(p)
  PROVE  IInv'
<1>1. PICK d, n, y : d = job[p].doc /\ n = job[p].amount /\ y = job[p].pay
  OBVIOUS
<1> DEFINE r == [doc |-> d, amount |-> n, status |-> "ACTIVE"]
<1>2. /\ TypeOK /\ RequestInv /\ RequestOk(p) /\ pc[p] = "pay" /\ NeverOverpaid /\ MoneyOnlyInForce
      /\ d \in Docs /\ docLock[d] = p /\ status[d] = "ACTIVE" /\ n <= Balance(d) /\ n # 0
      /\ n \in Amounts \cup {0}
      /\ y \in Payments /\ pay[y] = NoPay /\ \A q \in Procs \ {p} : job[q].pay # y
      /\ pay' = [pay EXCEPT ![y] = r]
      /\ UNCHANGED <<status, amount, client, limit>> /\ End(p)
  BY <1>1 DEF IInv, RequestInv, Pay, RequestOk, TypeOK
<1>3. TypeOK'
  BY <1>2, TypeAfterEnd DEF TypeOK
<1>4. /\ pay'[y] = r /\ \A z \in Payments \ {y} : pay'[z] = pay[z]
      /\ r.doc = d /\ r.amount = n /\ r.status = "ACTIVE"
  BY <1>2 DEF TypeOK
<1> HIDE DEF r
<1>5. ReceivableTypes /\ pay \in PayTable /\ pay' \in PayTable
  BY <1>2, <1>3, TypesOfTables DEF ReceivableTypes
<1>6. ActiveIn(pay') = ActiveIn(pay) \cup {y} /\ y \notin ActiveIn(pay) /\ y \notin MadeIn(pay)
      /\ ActiveIn(pay) \in SUBSET Payments
  BY <1>2, <1>4 DEF ActiveIn, MadeIn, NoPay
<1>7. \A z \in ActiveIn(pay) \cup MadeIn(pay) : z \in MadeIn(pay') /\ pay[z] = pay'[z]
  BY <1>4, <1>6 DEF ActiveIn, MadeIn
<1>8. \A z \in ActiveIn(pay) : pay[z].amount = pay'[z].amount /\ pay[z].doc = pay'[z].doc
  BY <1>7
<1>9. SettledIn(pay', {d}, ActiveIn(pay')) = SettledIn(pay, {d}, ActiveIn(pay)) + n
  <2>1. y \in Payments \ ActiveIn(pay) /\ pay'[y].doc \in {d} /\ pay'[y].amount = n
    BY <1>2, <1>4, <1>6
  <2>2. SettledIn(pay', {d}, ActiveIn(pay) \cup {y}) = SettledIn(pay, {d}, ActiveIn(pay)) + pay'[y].amount
    BY <1>5, <1>6, <1>8, <2>1, SettledPlus
  <2> QED
    BY <1>6, <2>1, <2>2
<1>10. ASSUME NEW e \in Docs, e # d
       PROVE  SettledIn(pay', {e}, ActiveIn(pay')) = SettledIn(pay, {e}, ActiveIn(pay))
  <2> DEFINE D == {z \in ActiveIn(pay) : pay[z].doc \in {e}}
             f == [z \in Payments |-> pay[z].amount]
             g == [z \in Payments |-> pay'[z].amount]
  <2>1. {z \in ActiveIn(pay') : pay'[z].doc \in {e}} = D
    BY <1>4, <1>6, <1>8, <1>10
  <2>2. IsFiniteSet(D) /\ \A z \in D : f[z] \in Int /\ f[z] = g[z]
    <3>1. IsFiniteSet(D) /\ \A z \in Payments : f[z] \in Nat
      BY <1>5, <1>6, AmountsAreNat
    <3>2. \A z \in D : z \in Payments /\ pay[z].amount = pay'[z].amount
      BY <1>6, <1>8
    <3> QED
      BY <3>1, <3>2
  <2>3. SumFunctionOnSet(f, D) = SumFunctionOnSet(g, D)
    <3> HIDE DEF f, g, D
    <3> QED
      BY <2>2, SumSame
  <2> QED
    BY <2>1, <2>3 DEF SettledIn
<1>11. ASSUME NEW q \in Procs \ {p} PROVE Keeps(q) /\ Spares(q)
  <2>1. \A e \in Docs : e = job[q].doc /\ docLock[e] = q =>
            SettledIn(pay', {e}, ActiveIn(pay')) <= SettledIn(pay, {e}, ActiveIn(pay))
    <3> SUFFICES ASSUME NEW e \in Docs, docLock[e] = q
                 PROVE  SettledIn(pay', {e}, ActiveIn(pay')) <= SettledIn(pay, {e}, ActiveIn(pay))
      OBVIOUS
    <3>1. e # d
      BY <1>2
    <3>2. SettledIn(pay, {e}, ActiveIn(pay)) \in Nat
      BY <1>5, ActiveSettled
    <3>3. SettledIn(pay', {e}, ActiveIn(pay')) = SettledIn(pay, {e}, ActiveIn(pay))
      BY <1>10, <3>1
    <3> QED
      BY <3>2, <3>3
  <2>2. \A z \in Payments : z = job[q].pay /\ pc[q] = "pay" /\ pay[z] = NoPay => pay'[z] = NoPay
    BY <1>2, <1>4
  <2>3. \A z \in MadeIn(pay) : /\ z \in MadeIn(pay')
                               /\ pay[z].amount = pay'[z].amount /\ pay[z].doc = pay'[z].doc
    BY <1>7
  <2>4. Spares(q)
    BY <1>2, <1>3, <2>1, <2>2, <2>3, PaymentSpares
  <2> QED
    BY <1>2, <2>4, KeepsByEnd
<1>12. RequestInv'
  BY <1>2, <1>3, <1>11, OkAfterEnd, RequestsKept
<1>13. (\A z \in Payments : PayOk(z))'
  <2> SUFFICES ASSUME NEW z \in Payments PROVE PayOk(z)'
    OBVIOUS
  <2>1. CASE z = y
    BY <1>2, <1>4, <2>1 DEF PayOk
  <2>2. CASE z # y
    <3>1. pay'[z] = pay[z] /\ PayOk(z)
      BY <1>4, <2>2 DEF IInv
    <3> QED
      BY <3>1 DEF PayOk
  <2> QED
    BY <2>1, <2>2
<1>14. MoneyOnlyInForce'
  <2> SUFFICES ASSUME NEW z \in ActivePays' PROVE status'[pay'[z].doc] = "ACTIVE"
    BY DEF MoneyOnlyInForce
  <2>1. CASE z = y
    BY <1>2, <1>4, <2>1
  <2>2. CASE z # y
    BY <1>2, <1>4, <2>2 DEF MoneyOnlyInForce, ActivePays
  <2> QED
    BY <2>1, <2>2
<1>15. NeverOverpaid'
  <2> SUFFICES ASSUME NEW e \in Docs PROVE Balance(e)' >= 0
    BY DEF NeverOverpaid
  <2>1. CASE e = d
    <3>1. PICK k \in Nat, m \in Nat, i \in Nat :
            k = amount[d] /\ m = SettledIn(pay, {d}, ActiveIn(pay)) /\ i = n
      <4>1. Amounts \cup {0} \subseteq Nat
        OBVIOUS
      <4> QED
        BY <1>2, <1>5, <4>1, ActiveSettled
    <3>2. Balance(d) = k - m /\ Balance(d)' = k - (m + i)
      BY <1>2, <1>5, <1>9, <3>1, ActiveSettled
    <3> QED
      BY <1>2, <2>1, <3>1, <3>2
  <2>2. CASE e # d
    <3>1. Balance(e)' = Balance(e)
      BY <1>2, <1>5, <1>10, <2>2, ActiveSettled
    <3> QED
      BY <1>2, <3>1 DEF NeverOverpaid
  <2> QED
    BY <2>1, <2>2
<1>16. QuotesAreSales'
  BY <1>2 DEF IInv, QuotesAreSales
<1> QED
  BY <1>3, <1>12, <1>13, <1>14, <1>15, <1>16 DEF IInv

LEMMA CancelPaymentStep ==
  ASSUME IInv, NEW p \in Procs, CancelPayment(p)
  PROVE  IInv'
<1>1. PICK y : y = job[p].pay
  OBVIOUS
<1>2. /\ TypeOK /\ RequestInv /\ RequestOk(p) /\ pc[p] = "unpay" /\ NeverOverpaid /\ MoneyOnlyInForce
      /\ y \in Payments /\ pay[y].status # "none"
      /\ pay' = [pay EXCEPT ![y].status = "CANCELLED"]
      /\ UNCHANGED <<status, amount, client, limit>> /\ End(p)
  BY <1>1 DEF IInv, RequestInv, CancelPayment, RequestOk
<1>3. TypeOK'
  <2> DEFINE R == [doc : Docs \cup {None}, amount : Amounts \cup {0},
                   status : {"none", "ACTIVE", "CANCELLED"}]
  <2>1. pay[y] \in R /\ pay \in [Payments -> R]
    BY <1>2 DEF TypeOK
  <2>2. [pay[y] EXCEPT !.status = "CANCELLED"] \in R
    BY <2>1
  <2>3. pay' \in [Payments -> R]
    <3> HIDE DEF R
    <3> QED
      BY <1>2, <2>1, <2>2
  <2> QED
    BY <1>2, <2>3, TypeAfterEnd DEF TypeOK
<1>4. /\ pay'[y].status = "CANCELLED" /\ pay'[y].doc = pay[y].doc /\ pay'[y].amount = pay[y].amount
      /\ \A z \in Payments \ {y} : pay'[z] = pay[z]
  BY <1>2 DEF TypeOK
<1>5. ReceivableTypes /\ pay \in PayTable /\ pay' \in PayTable
  BY <1>2, <1>3, TypesOfTables DEF ReceivableTypes
<1>6. /\ ActiveIn(pay') \subseteq ActiveIn(pay) /\ ActiveIn(pay) \in SUBSET Payments
      /\ ActiveIn(pay') \in SUBSET Payments
      /\ \A z \in Payments : pay'[z].amount = pay[z].amount /\ pay'[z].doc = pay[z].doc
  BY <1>2, <1>4 DEF ActiveIn
<1>7. \A z \in MadeIn(pay) : /\ z \in MadeIn(pay')
                             /\ pay[z].amount = pay'[z].amount /\ pay[z].doc = pay'[z].doc
  BY <1>2, <1>4, <1>6 DEF MadeIn
<1>8. \A e \in Docs : SettledIn(pay', {e}, ActiveIn(pay')) <= SettledIn(pay, {e}, ActiveIn(pay))
  BY <1>5, <1>6, SettledMore
<1>9. ASSUME NEW q \in Procs \ {p} PROVE Keeps(q) /\ Spares(q)
  <2>1. \A z \in Payments : pay[z] = NoPay => pay'[z] = NoPay
    BY <1>2, <1>4 DEF NoPay
  <2> QED
    BY <1>2, <1>3, <1>7, <1>8, <2>1, PaymentSpares, KeepsByEnd
<1>10. RequestInv'
  BY <1>2, <1>3, <1>9, OkAfterEnd, RequestsKept
<1>11. (\A z \in Payments : PayOk(z))'
  <2> SUFFICES ASSUME NEW z \in Payments PROVE PayOk(z)'
    OBVIOUS
  <2>0. PayOk(z)
    BY DEF IInv
  <2>1. CASE z = y
    BY <1>2, <1>4, <2>0, <2>1 DEF PayOk
  <2>2. CASE z # y
    BY <1>4, <2>0, <2>2 DEF PayOk
  <2> QED
    BY <2>1, <2>2
<1>12. MoneyOnlyInForce'
  BY <1>2, <1>6 DEF MoneyOnlyInForce, ActivePays, ActiveIn
<1>13. NeverOverpaid'
  <2> SUFFICES ASSUME NEW e \in Docs PROVE Balance(e)' >= 0
    BY DEF NeverOverpaid
  <2>1. PICK k \in Nat, m \in Nat, i \in Nat :
          /\ k = amount[e] /\ m = SettledIn(pay, {e}, ActiveIn(pay))
          /\ i = SettledIn(pay', {e}, ActiveIn(pay'))
    BY <1>5, ActiveSettled
  <2>2. Balance(e) = k - m /\ Balance(e)' = k - i /\ i <= m
    BY <1>2, <1>5, <1>8, <2>1, ActiveSettled
  <2>3. Balance(e) >= 0
    BY <1>2 DEF NeverOverpaid
  <2> QED
    BY <2>1, <2>2, <2>3
<1>14. QuotesAreSales'
  BY <1>2 DEF IInv, QuotesAreSales
<1> QED
  BY <1>3, <1>10, <1>11, <1>12, <1>13, <1>14 DEF IInv

-----------------------------------------------------------------------------
(* Every step.                                                             *)

LEMMA InitInv == Init => IInv
<1> SUFFICES ASSUME Init PROVE IInv
  OBVIOUS
<1>1. TypeOK
  BY DEF Init, TypeOK, NoPay, NoJob
<1>2. RequestInv
  BY DEF Init, RequestInv, RequestOk, CreditOk
<1>3. QuotesAreSales /\ (\A y \in Payments : PayOk(y)) /\ MoneyOnlyInForce
  BY DEF Init, QuotesAreSales, PayOk, MoneyOnlyInForce, ActivePays, NoPay
<1>4. NeverOverpaid
  <2> SUFFICES ASSUME NEW d \in Docs PROVE Balance(d) >= 0
    BY DEF NeverOverpaid
  <2>1. NoMoneyOn(d)
    BY DEF Init, NoMoneyOn, ActivePays, NoPay
  <2>2. Settled({d}, ActivePays) = 0 /\ amount[d] = 0
    BY <2>1, NothingSettled DEF Init, Settled, SettledIn, ActivePays, ActiveIn
  <2> QED
    BY <2>2 DEF Balance
<1> QED
  BY <1>1, <1>2, <1>3, <1>4 DEF IInv

LEMMA NextInv == IInv /\ [Next]_vars => IInv'
<1> SUFFICES ASSUME IInv, [Next]_vars PROVE IInv'
  OBVIOUS
<1>1. CASE UNCHANGED vars
  <2>1. TypeOK' /\ UNCHANGED rows /\ UNCHANGED <<docLock, clientLock, request>>
    BY <1>1 DEF vars, rows, request, IInv, TypeOK
  <2> QED
    BY <2>1, KeepsStill, SameRowsStep
<1>2. CASE Next
  BY <1>2, QuoteStep, EditStep, SellStep, BeginPayStep, PurchaseStep, SetLimitStep,
     ConfirmStep, BeginCancelStep, BeginCancelPaymentStep, LockClientStep, ReadOpenStep,
     ReadPaidStep, PostStep, PayStep, CancelPaymentStep, CancelStep, RefuseStep DEF Next
<1> QED
  BY <1>1, <1>2

\* Only the posting of a sale puts one in force, and its credit check covers it.
LEMMA NextLimit ==
  ASSUME IInv, [Next]_vars, NEW d \in Sales, NEW c \in Clients,
         status[d] # "ACTIVE", status'[d] = "ACTIVE", client'[d] = c, limit[c] # None
  PROVE  Uncollected(c)' <= limit[c]
<1>1. status \in [Docs -> {"none", "DRAFT", "ACTIVE", "CANCELLED"}] /\ d \in Docs
      /\ status' # status
  BY DEF IInv, TypeOK, Docs
<1>2. ASSUME NEW p \in Procs, Post(p) PROVE Uncollected(c)' <= limit[c]
  BY <1>2, PostStep
<1>3. ASSUME NEW p \in Procs, Cancel(p) PROVE FALSE
  BY <1>1, <1>3 DEF Cancel
<1>4. ASSUME NEW e \in Docs, NEW n \in Amounts, NEW k, Quote(e, n, k) PROVE FALSE
  BY <1>1, <1>4 DEF Quote
<1>5. ASSUME NEW e \in Docs, NEW n \in Amounts, Purchase(e, n) PROVE FALSE
  BY <1>1, <1>5 DEF Purchase
<1> QED
  BY <1>1, <1>2, <1>3, <1>4, <1>5 DEF Next, vars, rows, Edit, Sell, BeginPay, SetLimit, Confirm,
     BeginCancel, BeginCancelPayment, LockClient, ReadOpen, ReadPaid, Pay, CancelPayment,
     Refuse, Rollback

\* SalesService.cancel, enforceCreditLimit, PaymentsService.create: what a
\* request has read still holds when it writes, and what is owed and paid adds up.
THEOREM Safety == Spec => []IInv
<1> QED
  BY InitInv, NextInv, PTL DEF Spec

\* Nobody pays more than is owed (PaymentsService.create).
THEOREM NobodyOverpays == Spec => []NeverOverpaid
<1>1. IInv => NeverOverpaid
  BY DEF IInv
<1> QED
  BY <1>1, Safety, PTL

\* No money is on a cancelled document (SalesService.cancel).
THEOREM MoneyStays == Spec => []MoneyOnlyInForce
<1>1. IInv => MoneyOnlyInForce
  BY DEF IInv
<1> QED
  BY <1>1, Safety, PTL

\* No sale takes its client over the limit (SalesService.enforceCreditLimit).
THEOREM CreditLimit == Spec => LimitHolds
<1>1. IInv /\ [Next]_vars =>
        [\A d \in Sales, c \in Clients :
            /\ status[d] # "ACTIVE" /\ status'[d] = "ACTIVE"
            /\ client'[d] = c /\ limit[c] # None
            => Uncollected(c)' <= limit[c]]_vars
  BY NextLimit
<1> QED
  BY <1>1, Safety, PTL DEF Spec, LimitHolds

-----------------------------------------------------------------------------
(* Loans.                                                                  *)

HIDE ReceivablesAssumption
USE LoanAssumption DEF OnLoan, NoLoanJob

\* Nothing is lent and nobody asks.
LEMMA LoansInitInv == LoansInit => LoansInv
<1> SUFFICES ASSUME LoansInit PROVE LoansInv
  OBVIOUS
<1>1. LoanTypeOK
  BY DEF LoansInit, LoanTypeOK, Statuses
<1>2. TrailInv
  BY DEF LoansInit, TrailInv, TrailOk, Ops
<1> QED
  BY <1>1, <1>2 DEF LoansInv, LoansInit, OutBeforeBack

\* What a handler knows when it goes on: its loan, and the status it found.
LEMMA WriteFacts ==
  ASSUME LoansInv, NEW p \in Procs, NEW ops \in SUBSET Ops, NEW new, Write(p, ops, new)
  PROVE  /\ loanJob[p].loan \in Loans
         /\ loanJob[p].op \in ops
         /\ loanStatus[loanJob[p].loan] \in Expects(loanJob[p].op)
         /\ loanStatus[loanJob[p].loan] \notin {"none", "removed"}
         /\ OverdueOk(p)
         /\ loanStatus' = [loanStatus EXCEPT ![loanJob[p].loan] = new]
         /\ loanJob' = [loanJob EXCEPT ![p] = NoLoanJob]
         /\ late' = late
<1>1. loanJob[p] # NoLoanJob
  BY DEF Write
<1>2. loanJob[p] \in [op : Ops \cup {"create"}, loan : Loans, seen : Statuses]
  BY <1>1 DEF LoansInv, LoanTypeOK
<1> QED
  BY <1>2 DEF Write, Goes, Current, Answered, LoansInv, TrailInv

\* Types and requests survive a handler's write, whatever it signs.
LEMMA WriteFrame ==
  ASSUME LoansInv, NEW p \in Procs, NEW ops \in SUBSET Ops,
         NEW new \in Statuses \ {"none"}, Write(p, ops, new),
         \A l \in Loans : TrailOk(l)',
         sendCode' \in [Loans -> Procs \cup {None}],
         returnCode' \in [Loans -> Procs \cup {None}],
         receivedBy' \in [Loans -> Procs \cup {None}],
         returnedBy' \in [Loans -> Procs \cup {None}],
         new = "RETURNED" => sendCode'[loanJob[p].loan] # None,
         \A l \in Loans \ {loanJob[p].loan} : sendCode'[l] = sendCode[l]
  PROVE  LoansInv'
<1> DEFINE d == loanJob[p].loan
<1>0. /\ d \in Loans /\ loanStatus' = [loanStatus EXCEPT ![d] = new]
      /\ loanJob' = [loanJob EXCEPT ![p] = NoLoanJob] /\ late' = late
  BY WriteFacts
<1>1. LoanTypeOK'
  BY <1>0 DEF LoansInv, LoanTypeOK
<1>3. \A q \in Procs : loanJob'[q].op \in Ops => loanStatus'[loanJob'[q].loan] # "none"
  BY <1>0 DEF LoansInv, LoanTypeOK, TrailInv, Ops
<1>4. ASSUME NEW q \in Procs, loanJob'[q].op = "create"
      PROVE  /\ loanStatus'[loanJob'[q].loan] = "none"
             /\ \A r \in Procs \ {q} : loanJob'[r].loan # loanJob'[q].loan
  <2>1. q # p /\ loanJob'[q] = loanJob[q]
    BY <1>0, <1>4 DEF LoansInv, LoanTypeOK
  <2>2. loanJob[q].loan # d
    BY <2>1, <1>4 DEF LoansInv, TrailInv
  <2>3. loanJob[q] # NoLoanJob /\ loanJob[q].loan \in Loans
    BY <2>1, <1>4 DEF LoansInv, LoanTypeOK
  <2> QED
    BY <1>0, <1>4, <2>1, <2>2, <2>3 DEF LoansInv, LoanTypeOK, TrailInv
<1>5. OutBeforeBack'
  BY <1>0 DEF LoansInv, LoanTypeOK, OutBeforeBack
<1> QED
  BY <1>1, <1>3, <1>4, <1>5 DEF LoansInv, TrailInv

\* Every handler of a stored loan keeps the invariant.
LEMMA HandlerInv ==
  ASSUME LoansInv, NEW p \in Procs,
         SendLoan(p) \/ ConfirmReceipt(p) \/ InitiateReturn(p)
         \/ ConfirmReturn(p) \/ ReturnLoan(p) \/ CancelLoan(p)
  PROVE  LoansInv'
<1> DEFINE d == loanJob[p].loan
<1> USE DEF Statuses
<1>0. \A l \in Loans : TrailOk(l)
  BY DEF LoansInv, TrailInv
<1>1. CASE SendLoan(p)
  <2>1. Write(p, {"send"}, "SENT") /\ {"send"} \in SUBSET Ops
    BY <1>1 DEF SendLoan, Ops
  <2>2. /\ d \in Loans /\ loanJob[p].op \in {"send"}
        /\ loanStatus[d] \in Expects(loanJob[p].op)
        /\ loanStatus' = [loanStatus EXCEPT ![d] = "SENT"]
    BY <2>1, WriteFacts
  <2>3. loanStatus[d] \in {"PENDING"}
    BY <2>2 DEF Expects
  <2>4. \A l \in Loans : TrailOk(l)'
    BY <1>0, <1>1, <2>2, <2>3 DEF SendLoan, Sign, TrailOk, LoansInv, LoanTypeOK
  <2> QED
    BY <1>1, <2>1, <2>2, <2>4, WriteFrame DEF SendLoan, Sign, LoansInv, LoanTypeOK
<1>2. CASE ConfirmReceipt(p)
  <2>1. Write(p, {"confirmReceipt", "manualConfirmReceipt"}, "RECEIVED") /\ {"confirmReceipt", "manualConfirmReceipt"} \in SUBSET Ops
    BY <1>2 DEF ConfirmReceipt, Ops
  <2>2. /\ d \in Loans /\ loanJob[p].op \in {"confirmReceipt", "manualConfirmReceipt"}
        /\ loanStatus[d] \in Expects(loanJob[p].op)
        /\ loanStatus' = [loanStatus EXCEPT ![d] = "RECEIVED"]
    BY <2>1, WriteFacts
  <2>3. loanStatus[d] \in {"SENT", "OVERDUE"}
    BY <2>2 DEF Expects
  <2>4. \A l \in Loans : TrailOk(l)'
    BY <1>0, <1>2, <2>2, <2>3 DEF ConfirmReceipt, Sign, TrailOk, LoansInv, LoanTypeOK
  <2> QED
    BY <1>2, <2>1, <2>2, <2>4, WriteFrame DEF ConfirmReceipt, Sign, LoansInv, LoanTypeOK
<1>3. CASE InitiateReturn(p)
  <2>1. Write(p, {"initiateReturn"}, "RETURN_PENDING") /\ {"initiateReturn"} \in SUBSET Ops
    BY <1>3 DEF InitiateReturn, Ops
  <2>2. /\ d \in Loans /\ loanJob[p].op \in {"initiateReturn"}
        /\ loanStatus[d] \in Expects(loanJob[p].op)
        /\ loanStatus' = [loanStatus EXCEPT ![d] = "RETURN_PENDING"]
    BY <2>1, WriteFacts
  <2>3. loanStatus[d] \in {"RECEIVED", "OVERDUE"}
    BY <2>2 DEF Expects
  <2>4. \A l \in Loans : TrailOk(l)'
    BY <1>0, <1>3, <2>2, <2>3 DEF InitiateReturn, Sign, TrailOk, LoansInv, LoanTypeOK
  <2> QED
    BY <1>3, <2>1, <2>2, <2>4, WriteFrame DEF InitiateReturn, Sign, LoansInv, LoanTypeOK
<1>4. CASE ConfirmReturn(p)
  <2>1. Write(p, {"confirmReturn", "manualConfirmReturn"}, "RETURNED") /\ {"confirmReturn", "manualConfirmReturn"} \in SUBSET Ops
    BY <1>4 DEF ConfirmReturn, Ops
  <2>2. /\ d \in Loans /\ loanJob[p].op \in {"confirmReturn", "manualConfirmReturn"}
        /\ loanStatus[d] \in Expects(loanJob[p].op)
        /\ loanStatus' = [loanStatus EXCEPT ![d] = "RETURNED"]
    BY <2>1, WriteFacts
  <2>3. loanStatus[d] \in {"RETURN_PENDING", "OVERDUE"}
    BY <2>2 DEF Expects
  <2>4. \A l \in Loans : TrailOk(l)'
    BY <1>0, <1>4, <2>2, <2>3 DEF ConfirmReturn, Sign, TrailOk, LoansInv, LoanTypeOK
  <2>5. sendCode[d] # None
    BY <1>0, <2>2, <2>3 DEF TrailOk
  <2> QED
    BY <1>4, <2>1, <2>2, <2>4, <2>5, WriteFrame DEF ConfirmReturn, Sign, LoansInv, LoanTypeOK
<1>5. CASE ReturnLoan(p)
  <2>1. Write(p, {"returnLoan"}, "RETURNED") /\ {"returnLoan"} \in SUBSET Ops
    BY <1>5 DEF ReturnLoan, Ops
  <2>2. /\ d \in Loans /\ loanJob[p].op \in {"returnLoan"}
        /\ loanStatus[d] \in Expects(loanJob[p].op)
        /\ loanStatus' = [loanStatus EXCEPT ![d] = "RETURNED"]
    BY <2>1, WriteFacts
  <2>3. loanStatus[d] \in {"RECEIVED", "OVERDUE", "RETURN_PENDING"}
    BY <2>2 DEF Expects
  <2>4. \A l \in Loans : TrailOk(l)'
    BY <1>0, <1>5, <2>2, <2>3 DEF ReturnLoan, trail, TrailOk, LoansInv, LoanTypeOK
  <2>5. sendCode[d] # None
    BY <1>0, <2>2, <2>3 DEF TrailOk
  <2> QED
    BY <1>5, <2>1, <2>2, <2>4, <2>5, WriteFrame DEF ReturnLoan, trail, LoansInv, LoanTypeOK
<1>6. CASE CancelLoan(p)
  <2>1. Write(p, {"cancel"}, "CANCELLED") /\ {"cancel"} \in SUBSET Ops
    BY <1>6 DEF CancelLoan, Ops
  <2>2. /\ d \in Loans /\ loanJob[p].op \in {"cancel"}
        /\ loanStatus[d] \in Expects(loanJob[p].op)
        /\ loanStatus' = [loanStatus EXCEPT ![d] = "CANCELLED"]
    BY <2>1, WriteFacts
  <2>3. loanStatus[d] \in OnLoan
    BY <2>2 DEF Expects
  <2>4. \A l \in Loans : TrailOk(l)'
    BY <1>0, <1>6, <2>2, <2>3 DEF CancelLoan, trail, TrailOk, LoansInv, LoanTypeOK
  <2> QED
    BY <1>6, <2>1, <2>2, <2>4, WriteFrame DEF CancelLoan, trail, LoansInv, LoanTypeOK
<1> QED
  BY <1>1, <1>2, <1>3, <1>4, <1>5, <1>6

\* Creation: the loan is nobody else's until it is inserted.
LEMMA CreateInv ==
  ASSUME LoansInv, NEW p \in Procs, (\E l \in Loans : CheckItems(p, l)) \/ CreateLoan(p)
  PROVE  LoansInv'
<1>0. \A m \in Loans : TrailOk(m)
  BY DEF LoansInv, TrailInv
<1>1. ASSUME NEW l \in Loans, CheckItems(p, l) PROVE LoansInv'
  <2> USE <1>1 DEF CheckItems, Asked
  <2>1. LoanTypeOK'
    BY DEF LoansInv, LoanTypeOK, trail
  <2>2. TrailInv'
    BY <1>0 DEF LoansInv, LoanTypeOK, TrailInv, TrailOk, trail, Ops
  <2> QED
    BY <2>1, <2>2 DEF LoansInv, OutBeforeBack, trail
<1>2. CASE CreateLoan(p)
  <2> DEFINE d == loanJob[p].loan
  <2>0. d \in Loans /\ loanStatus[d] = "none"
    BY <1>2 DEF CreateLoan, LoansInv, LoanTypeOK, TrailInv
  <2> USE <1>2, <2>0 DEF CreateLoan, Answered
  <2>1. LoanTypeOK'
    BY DEF LoansInv, LoanTypeOK, trail, Statuses
  <2>2. \A m \in Loans : TrailOk(m)'
    BY <1>0 DEF LoansInv, LoanTypeOK, TrailOk, trail
  <2>3. \A q \in Procs : loanJob'[q].op \in Ops => loanStatus'[loanJob'[q].loan] # "none"
    BY DEF LoansInv, LoanTypeOK, TrailInv
  <2>4. ASSUME NEW q \in Procs, loanJob'[q].op = "create"
        PROVE  /\ loanStatus'[loanJob'[q].loan] = "none"
               /\ \A r \in Procs \ {q} : loanJob'[r].loan # loanJob'[q].loan
    <3>1. q # p /\ loanJob'[q] = loanJob[q] /\ loanJob[q].loan \in Loans
      BY <2>4 DEF LoansInv, LoanTypeOK
    <3>2. loanJob[q].loan # d /\ loanStatus[loanJob[q].loan] = "none"
      BY <3>1, <2>4 DEF LoansInv, TrailInv
    <3> QED
      BY <3>1, <3>2, <2>4 DEF LoansInv, LoanTypeOK, TrailInv
  <2> QED
    BY <2>1, <2>2, <2>3, <2>4 DEF LoansInv, TrailInv, LoanTypeOK, OutBeforeBack, trail
<1> QED
  BY <1>1, <1>2

\* Looking up and refusing change the request only.
LEMMA AskInv ==
  ASSUME LoansInv, NEW p \in Procs,
         (\E op \in Ops, l \in Loans : LookUp(p, op, l)) \/ RefuseLoan(p)
  PROVE  LoansInv'
<1>1. LoanTypeOK'
  BY DEF LoansInv, LoanTypeOK, LookUp, RefuseLoan, Asked, Answered, trail
<1>2. \A m \in Loans : TrailOk(m)'
  BY DEF LoansInv, TrailInv, TrailOk, LookUp, RefuseLoan, trail
<1>3. OutBeforeBack'
  BY DEF LoansInv, OutBeforeBack, LookUp, RefuseLoan, trail
<1>4. ASSUME NEW op \in Ops, NEW l \in Loans, LookUp(p, op, l) PROVE LoansInv'
  <2> USE <1>4 DEF LookUp, Asked
  <2>1. "create" \notin Ops
    BY DEF Ops
  <2>2. \A q \in Procs : loanJob[q].op = "create" => loanJob[q].loan # l
    BY DEF LoansInv, TrailInv
  <2>3. \A q \in Procs : q # p => loanJob'[q] = loanJob[q]
    BY DEF LoansInv, LoanTypeOK
  <2>4. loanJob'[p].op = op /\ loanJob'[p].loan = l
    BY DEF LoansInv, LoanTypeOK
  <2> QED
    BY <1>1, <1>2, <1>3, <2>1, <2>2, <2>3, <2>4 DEF LoansInv, TrailInv
<1>5. CASE RefuseLoan(p)
  <2> USE <1>5 DEF RefuseLoan, Answered
  <2>1. \A q \in Procs : loanJob'[q].op = "create" => loanJob[q].loan \in Loans
    BY DEF LoansInv, LoanTypeOK
  <2> QED
    BY <1>1, <1>2, <1>3, <2>1 DEF LoansInv, TrailInv, LoanTypeOK
<1> QED
  BY <1>4, <1>5

\* Statements on loans that read no request.
LEMMA LoanInv ==
  ASSUME LoansInv,
         (\E l \in Loans : Remove(l) \/ PassDueDate(l)) \/ CheckOverdueLoans
  PROVE  LoansInv'
<1>0. \A m \in Loans : TrailOk(m)
  BY DEF LoansInv, TrailInv
<1> USE DEF Remove, PassDueDate, CheckOverdueLoans, Overdue, trail
<1>7. loanStatus' \in [Loans -> Statuses]
  BY DEF LoansInv, LoanTypeOK, Statuses
<1>8. late' \in [Loans -> BOOLEAN]
  BY DEF LoansInv, LoanTypeOK
<1>1. LoanTypeOK'
  BY <1>7, <1>8 DEF LoansInv, LoanTypeOK
<1>2. \A m \in Loans : TrailOk(m)'
  BY <1>0 DEF LoansInv, LoanTypeOK, TrailOk
<1>3. \A m \in Loans : loanStatus'[m] = "none" <=> loanStatus[m] = "none"
  BY DEF LoansInv, LoanTypeOK
<1>4. \A q \in Procs : loanJob[q].op \in Ops \cup {"create"} => loanJob[q].loan \in Loans
  BY DEF LoansInv, LoanTypeOK
<1>5. OutBeforeBack'
  BY DEF LoansInv, LoanTypeOK, OutBeforeBack
<1>6. loanJob' = loanJob
  OBVIOUS
<1> QED
  BY <1>1, <1>2, <1>3, <1>4, <1>5, <1>6 DEF LoansInv, TrailInv

\* Every step keeps the invariant.
LEMMA LoansStepInv == LoansInv /\ [LoansNext]_loanVars => LoansInv'
<1> SUFFICES ASSUME LoansInv, [LoansNext]_loanVars PROVE LoansInv'
  OBVIOUS
<1>1. CASE UNCHANGED loanVars
  <2> USE <1>1 DEF loanVars, trail
  <2>1. LoanTypeOK'
    BY DEF LoansInv, LoanTypeOK
  <2>2. TrailInv'
    BY DEF LoansInv, TrailInv, TrailOk
  <2> QED
    BY <2>1, <2>2 DEF LoansInv, OutBeforeBack
<1>2. CASE LoansNext
  BY <1>2, HandlerInv, CreateInv, AskInv, LoanInv DEF LoansNext
<1> QED
  BY <1>1, <1>2

\* A loan's status and its codes and signatures always tell one story.
THEOREM LoansCoherent == LoansSpec => []LoansInv
<1> QED
  BY LoansInitInv, LoansStepInv, PTL DEF LoansSpec

\* Whatever way a loan was returned, it had gone out.
THEOREM ReturnedWasOut == LoansSpec => []OutBeforeBack
<1>1. LoansInv => OutBeforeBack
  BY DEF LoansInv
<1> QED
  BY LoansCoherent, <1>1, PTL

\* A code or a signature is never given twice: a handler signs only what its
\* status says is unsigned.
LEMMA StepKeeps ==
  ASSUME LoansInv, LoansNext
  PROVE  /\ Kept(sendCode, sendCode') /\ Kept(returnCode, returnCode')
         /\ Kept(receivedBy, receivedBy') /\ Kept(returnedBy, returnedBy')
<1>0. \A l \in Loans : TrailOk(l)
  BY DEF LoansInv, TrailInv
<1>1. CASE UNCHANGED trail
  BY <1>1 DEF trail, Kept
<1>2. ASSUME NEW p \in Procs, SendLoan(p)
      PROVE  Kept(sendCode, sendCode')
  <2>1. Write(p, {"send"}, "SENT") /\ {"send"} \in SUBSET Ops
    BY <1>2 DEF SendLoan, Ops
  <2>2. loanJob[p].loan \in Loans /\ loanJob[p].op = "send" /\ loanStatus[loanJob[p].loan] \in Expects(loanJob[p].op)
    BY <2>1, WriteFacts
  <2>3. sendCode[loanJob[p].loan] = None
    BY <1>0, <2>2 DEF Expects, TrailOk
  <2> QED
    BY <1>2, <2>3 DEF SendLoan, Sign, Kept, LoansInv, LoanTypeOK
<1>3. ASSUME NEW p \in Procs, ConfirmReceipt(p)
      PROVE  Kept(receivedBy, receivedBy')
  <2> DEFINE ops == {"confirmReceipt", "manualConfirmReceipt"}
  <2>1. Write(p, ops, "RECEIVED") /\ ops \in SUBSET Ops
    BY <1>3 DEF ConfirmReceipt, Ops
  <2>2. /\ loanJob[p].loan \in Loans /\ loanJob[p].op \in ops /\ OverdueOk(p)
        /\ loanStatus[loanJob[p].loan] \in Expects(loanJob[p].op)
    BY <2>1, WriteFacts
  <2>3. receivedBy[loanJob[p].loan] = None
    BY <1>0, <2>2 DEF Expects, TrailOk, OverdueOk, Current, Received
  <2> QED
    BY <1>3, <2>3 DEF ConfirmReceipt, Sign, Kept, LoansInv, LoanTypeOK
<1>4. ASSUME NEW p \in Procs, InitiateReturn(p)
      PROVE  Kept(returnCode, returnCode')
  <2>1. Write(p, {"initiateReturn"}, "RETURN_PENDING") /\ {"initiateReturn"} \in SUBSET Ops
    BY <1>4 DEF InitiateReturn, Ops
  <2>2. /\ loanJob[p].loan \in Loans /\ loanJob[p].op = "initiateReturn"
        /\ loanStatus[loanJob[p].loan] \in Expects(loanJob[p].op)
    BY <2>1, WriteFacts
  <2>3. returnCode[loanJob[p].loan] = None
    BY <1>0, <2>2 DEF Expects, TrailOk
  <2> QED
    BY <1>4, <2>3 DEF InitiateReturn, Sign, Kept, LoansInv, LoanTypeOK
<1>5. ASSUME NEW p \in Procs, ConfirmReturn(p)
      PROVE  Kept(returnedBy, returnedBy')
  <2> DEFINE ops == {"confirmReturn", "manualConfirmReturn"}
  <2>1. Write(p, ops, "RETURNED") /\ ops \in SUBSET Ops
    BY <1>5 DEF ConfirmReturn, Ops
  <2>2. /\ loanJob[p].loan \in Loans /\ loanJob[p].op \in ops
        /\ loanStatus[loanJob[p].loan] \in Expects(loanJob[p].op)
    BY <2>1, WriteFacts
  <2>3. returnedBy[loanJob[p].loan] = None
    BY <1>0, <2>2 DEF Expects, TrailOk
  <2> QED
    BY <1>5, <2>3 DEF ConfirmReturn, Sign, Kept, LoansInv, LoanTypeOK
<1>6. \/ UNCHANGED trail
      \/ \E p \in Procs : SendLoan(p) \/ ConfirmReceipt(p) \/ InitiateReturn(p)
                          \/ ConfirmReturn(p)
  BY DEF LoansNext, CheckItems, LookUp, CreateLoan, ReturnLoan, CancelLoan, RefuseLoan, Remove,
         PassDueDate, CheckOverdueLoans, trail
<1>7. ASSUME NEW f PROVE Kept(f, f)
  BY DEF Kept
<1> QED
  BY <1>1, <1>2, <1>3, <1>4, <1>5, <1>6, <1>7
     DEF SendLoan, ConfirmReceipt, InitiateReturn, ConfirmReturn

\* However many clicks and scans arrive together, the code handed out stays the
\* valid one and the first confirmation stays on record.
THEOREM SignedOnce == LoansSpec => WrittenOnce
<1>1. LoansInv /\ [LoansNext]_loanVars =>
        [/\ Kept(sendCode, sendCode') /\ Kept(returnCode, returnCode')
         /\ Kept(receivedBy, receivedBy') /\ Kept(returnedBy, returnedBy')]_loanVars
  BY StepKeeps
<1> QED
  BY LoansCoherent, <1>1, PTL DEF LoansSpec, WrittenOnce

\* A closed loan is not reopened by a handler, the overdue check or a creation.
THEOREM StaysClosed == LoansSpec => ClosedStaysClosed
<1> DEFINE Shut == \A l \in Loans :
                      loanStatus[l] \in {"RETURNED", "CANCELLED", "removed"} =>
                          loanStatus'[l] \in {loanStatus[l], "removed"}
<1>1. ASSUME LoansInv, LoansNext PROVE Shut
  <2>1. ASSUME NEW p \in Procs, NEW ops \in SUBSET Ops, NEW new, Write(p, ops, new) PROVE Shut
    <3>1. /\ loanJob[p].op \in Ops /\ loanStatus[loanJob[p].loan] \in Expects(loanJob[p].op)
          /\ loanStatus' = [loanStatus EXCEPT ![loanJob[p].loan] = new]
          /\ loanStatus[loanJob[p].loan] # "removed" /\ loanJob[p].loan \in Loans
      BY <1>1, <2>1, WriteFacts
    <3>2. loanStatus[loanJob[p].loan] \notin {"RETURNED", "CANCELLED"}
      BY <3>1 DEF Expects, Ops
    <3> QED
      BY <1>1, <3>1, <3>2 DEF LoansInv, LoanTypeOK
  <2>2. ASSUME NEW p \in Procs, CreateLoan(p) PROVE Shut
    BY <1>1, <2>2 DEF CreateLoan, LoansInv, LoanTypeOK, TrailInv
  <2>3. CASE loanStatus' = loanStatus
    BY <2>3
  <2>4. ASSUME NEW l \in Loans, Remove(l) PROVE Shut
    BY <1>1, <2>4 DEF Remove, LoansInv, LoanTypeOK
  <2>5. CASE CheckOverdueLoans
    BY <1>1, <2>5 DEF CheckOverdueLoans, Overdue, LoansInv, LoanTypeOK
  <2>6. \/ loanStatus' = loanStatus
        \/ \E p \in Procs : CreateLoan(p)
        \/ \E l \in Loans : Remove(l)
        \/ CheckOverdueLoans
        \/ \E p \in Procs : \E ops \in SUBSET Ops : \E new \in Statuses : Write(p, ops, new)
    <3>1. \A p \in Procs :
             SendLoan(p) \/ ConfirmReceipt(p) \/ InitiateReturn(p)
             \/ ConfirmReturn(p) \/ ReturnLoan(p) \/ CancelLoan(p)
             => \E ops \in SUBSET Ops : \E new \in Statuses : Write(p, ops, new)
      BY DEF SendLoan, ConfirmReceipt, InitiateReturn, ConfirmReturn, ReturnLoan,
             CancelLoan, Ops, Statuses
    <3> QED
      BY <1>1, <3>1 DEF LoansNext, CheckItems, LookUp, RefuseLoan, PassDueDate
  <2> QED
    BY <2>1, <2>2, <2>3, <2>4, <2>5, <2>6
<1>2. LoansInv /\ [LoansNext]_loanVars => [Shut]_loanVars
  BY <1>1
<1> QED
  BY LoansCoherent, <1>2, PTL DEF LoansSpec, ClosedStaysClosed
=============================================================================
