-------------------------------- MODULE Sums --------------------------------
(***************************************************************************)
(* Sums of a function over a finite set: what balances, units of an item   *)
(* and the rows of a report add up to.  Induction is stated with the set   *)
(* of the subsets that have the property, which every prover can handle.   *)
(***************************************************************************)
EXTENDS Integers, FiniteSets, Functions, FiniteSetTheorems, TLAPS

\* Every subset of a finite set is in A if it is whenever the smaller ones are.
LEMMA SubsetInduction ==
  ASSUME NEW U, IsFiniteSet(U), NEW A,
         \A T \in SUBSET U : (\A V \in SUBSET T : V # T => V \in A) => T \in A
  PROVE  SUBSET U \subseteq A
<1> DEFINE R == StrictSubsetOrdering(U)
           B == (SUBSET U) \ A
<1>1. IsWellFoundedOn(R, SUBSET U)
  <2>1. IsWellFoundedOn(R, FiniteSubsetsOf(U)) /\ FiniteSubsetsOf(U) = SUBSET U
    BY FS_StrictSubsetOrderingWellFounded, FS_FiniteSubsetsOfFinite
  <2> QED
    BY <2>1
<1>2. SUFFICES ASSUME B # {} PROVE FALSE
  OBVIOUS
<1>3. PICK T \in B : \A V \in B : <<V, T>> \notin R
  <2> HIDE DEF R, B
  <2>1. B \subseteq SUBSET U
    BY DEF B
  <2> QED
    BY <1>1, <1>2, <2>1, WFMin
<1>4. \A V \in SUBSET T : V # T => V \in A
  <2> SUFFICES ASSUME NEW V \in SUBSET T, V # T, V \notin A PROVE FALSE
    OBVIOUS
  <2>1. V \in B /\ <<V, T>> \in R
    BY DEF StrictSubsetOrdering
  <2> QED
    BY <1>3, <2>1
<1> QED
  BY <1>3, <1>4

----------------------------------------------------------------------------
(* The recursion behind a sum has one solution.                            *)

Chosen(s) == CHOOSE x \in s : TRUE

Solves(g, f, S) ==
    g = [s \in SUBSET S |-> IF s = {} THEN 0 ELSE f[Chosen(s)] + g[s \ {Chosen(s)}]]

Solution(f, S) == CHOOSE g : Solves(g, f, S)

LEMMA SumIsSolution ==
  ASSUME NEW f, NEW S
  PROVE  SumFunctionOnSet(f, S) = Solution(f, S)[S]
BY DEF SumFunctionOnSet, FoldFunctionOnSet, MapThenFoldSet, Solution, Solves, Chosen

LEMMA ChosenIn == ASSUME NEW s, s # {} PROVE Chosen(s) \in s
BY DEF Chosen

LEMMA OneSolution ==
  ASSUME NEW f, NEW T, NEW S \in SUBSET T, IsFiniteSet(T), NEW g, NEW h,
         Solves(g, f, S), Solves(h, f, T)
  PROVE  \A s \in SUBSET S : g[s] = h[s]
<1> DEFINE A == {s \in SUBSET S : g[s] = h[s]}
<1>1. IsFiniteSet(S)
  BY FS_Subset
<1>2. ASSUME NEW s \in SUBSET S, \A v \in SUBSET s : v # s => v \in A
      PROVE  s \in A
  <2>1. CASE s = {}
    BY <2>1 DEF Solves
  <2>2. CASE s # {}
    <3>1. Chosen(s) \in s
      BY <2>2, ChosenIn
    <3>2. g[s \ {Chosen(s)}] = h[s \ {Chosen(s)}]
      BY <1>2, <3>1
    <3>3. /\ g[s] = f[Chosen(s)] + g[s \ {Chosen(s)}]
          /\ h[s] = f[Chosen(s)] + h[s \ {Chosen(s)}]
      <4> HIDE DEF A
      <4>1. s \in SUBSET T
        OBVIOUS
      <4> QED
        BY <2>2, <4>1 DEF Solves
    <3> QED
      BY <3>2, <3>3
  <2> QED
    BY <2>1, <2>2
<1>3. SUBSET S \subseteq A
  <2> HIDE DEF A
  <2> QED
    BY <1>1, <1>2, SubsetInduction
<1> QED
  BY <1>3

LEMMA HasSolution ==
  ASSUME NEW f, NEW U, IsFiniteSet(U)
  PROVE  Solves(Solution(f, U), f, U)
<1> DEFINE A == {T \in SUBSET U : \E g : Solves(g, f, T)}
<1>1. ASSUME NEW T \in SUBSET U, \A V \in SUBSET T : V # T => V \in A
      PROVE  T \in A
  <2> DEFINE h == [s \in SUBSET T |->
                     IF s = {} THEN 0
                     ELSE f[Chosen(s)] + Solution(f, s \ {Chosen(s)})[s \ {Chosen(s)}]]
  <2>1. ASSUME NEW V \in SUBSET T, V # T PROVE Solves(Solution(f, V), f, V)
    BY <1>1, <2>1 DEF Solution
  <2>2. ASSUME NEW s \in SUBSET T, s # {}
        PROVE  h[s \ {Chosen(s)}] = Solution(f, s \ {Chosen(s)})[s \ {Chosen(s)}]
    <3> DEFINE r == s \ {Chosen(s)}
               q == r \ {Chosen(r)}
    <3>1. r \in SUBSET T /\ r # T
      BY <2>2, ChosenIn
    <3>2. Solves(Solution(f, r), f, r)
      BY <2>1, <3>1
    <3>3. CASE r = {}
      <4>1. Solution(f, r)[r] = 0
        BY <3>2, <3>3 DEF Solves
      <4> QED
        BY <3>1, <3>3, <4>1
    <3>4. CASE r # {}
      <4>1. q \in SUBSET r /\ q \in SUBSET T /\ q # T
        BY <3>1
      <4>2. Solves(Solution(f, q), f, q)
        BY <2>1, <4>1
      <4>3. IsFiniteSet(r)
        <5>1. r \in SUBSET U
          BY <3>1
        <5> QED
          BY <5>1, FS_Subset
      <4>4. Solution(f, q)[q] = Solution(f, r)[q]
        <5> HIDE DEF q, r
        <5> QED
          BY <3>2, <4>1, <4>2, <4>3, OneSolution
      <4>5. Solution(f, r)[r] = f[Chosen(r)] + Solution(f, r)[q]
        <5> DEFINE w == Solution(f, r)
        <5>1. w = [v \in SUBSET r |-> IF v = {} THEN 0 ELSE f[Chosen(v)] + w[v \ {Chosen(v)}]]
          BY <3>2 DEF Solves
        <5>2. r \in SUBSET r
          OBVIOUS
        <5> HIDE DEF w, r
        <5> QED
          BY <3>4, <5>1, <5>2 DEF w
      <4>6. h[r] = f[Chosen(r)] + Solution(f, q)[q]
        BY <3>1, <3>4
      <4> QED
        BY <4>4, <4>5, <4>6
    <3> QED
      BY <3>3, <3>4
  <2>3. Solves(h, f, T)
    BY <2>2 DEF Solves
  <2> QED
    BY <2>3
<1>2. SUBSET U \subseteq A
  <2> HIDE DEF A
  <2> QED
    BY <1>1, SubsetInduction
<1>3. \E g : Solves(g, f, U)
  BY <1>2
<1> QED
  BY <1>3 DEF Solution

----------------------------------------------------------------------------
(* Sums of integers.                                                       *)

LEMMA SumEmpty == ASSUME NEW f PROVE SumFunctionOnSet(f, {}) = 0
<1>1. IsFiniteSet({}) /\ {} \in SUBSET {}
  BY FS_EmptySet
<1>2. Solves(Solution(f, {}), f, {})
  BY <1>1, HasSolution
<1> QED
  BY <1>1, <1>2, SumIsSolution DEF Solves

\* Take out the element the recursion takes first.
LEMMA SumOfChosen ==
  ASSUME NEW f, NEW S, IsFiniteSet(S), S # {}
  PROVE  SumFunctionOnSet(f, S) = f[Chosen(S)] + SumFunctionOnSet(f, S \ {Chosen(S)})
<1> DEFINE r == S \ {Chosen(S)}
           w == Solution(f, S)
<1>1. Solves(w, f, S) /\ r \in SUBSET S /\ IsFiniteSet(r)
  BY HasSolution, FS_Subset
<1>2. Solution(f, r)[r] = w[r]
  <2>1. Solves(Solution(f, r), f, r)
    BY <1>1, HasSolution
  <2> HIDE DEF r, w
  <2> QED
    BY <1>1, <2>1, OneSolution
<1>3. w[S] = f[Chosen(S)] + w[r]
  <2>1. w = [v \in SUBSET S |-> IF v = {} THEN 0 ELSE f[Chosen(v)] + w[v \ {Chosen(v)}]]
    BY <1>1 DEF Solves
  <2>2. S \in SUBSET S
    OBVIOUS
  <2> HIDE DEF w
  <2> QED
    BY <2>1, <2>2
<1> QED
  BY <1>2, <1>3, SumIsSolution

\* Take out any element.
LEMMA SumStep ==
  ASSUME NEW f, NEW S, IsFiniteSet(S), \A x \in S : f[x] \in Int
  PROVE  /\ SumFunctionOnSet(f, S) \in Int
         /\ \A x \in S : SumFunctionOnSet(f, S) = f[x] + SumFunctionOnSet(f, S \ {x})
<1> DEFINE s(T) == SumFunctionOnSet(f, T)
           A == {T \in SUBSET S : s(T) \in Int /\ \A x \in T : s(T) = f[x] + s(T \ {x})}
<1> HIDE DEF s
<1>1. ASSUME NEW T \in SUBSET S, \A V \in SUBSET T : V # T => V \in A
      PROVE  T \in A
  <2>1. CASE T = {}
    <3>1. s(T) = 0
      BY <2>1, SumEmpty DEF s
    <3> QED
      BY <2>1, <3>1
  <2>2. CASE T # {}
    <3>1. PICK c : c = Chosen(T) /\ c \in T
      BY <2>2, ChosenIn
    <3>2. s(T) = f[c] + s(T \ {c})
      BY <2>2, <3>1, SumOfChosen, FS_Subset DEF s
    <3>3. s(T \ {c}) \in Int
      BY <1>1, <3>1
    <3>4. ASSUME NEW x \in T, x # c PROVE s(T) = f[x] + s(T \ {x})
      <4>1. s(T \ {c}) = f[x] + s((T \ {c}) \ {x})
        BY <1>1, <3>1, <3>4
      <4>2. s(T \ {x}) = f[c] + s((T \ {x}) \ {c}) /\ s((T \ {x}) \ {c}) \in Int
        <5>1. T \ {x} \in A /\ (T \ {x}) \ {c} \in A
          BY <1>1, <3>1, <3>4
        <5> QED
          BY <3>1, <3>4, <5>1
      <4>3. (T \ {c}) \ {x} = (T \ {x}) \ {c}
        OBVIOUS
      <4>4. f[x] \in Int /\ f[c] \in Int
        BY <3>1
      <4>5. PICK a, b, q : /\ a = s(T \ {c}) /\ b = s(T \ {x}) /\ q = s((T \ {x}) \ {c})
        OBVIOUS
      <4>6. s(T) = f[c] + a /\ a = f[x] + q /\ b = f[c] + q /\ q \in Int
        BY <3>2, <4>1, <4>2, <4>3, <4>5
      <4>7. s(T) = f[x] + b
        BY <4>4, <4>6
      <4> QED
        BY <4>5, <4>7
    <3>5. f[c] \in Int /\ s(T) \in Int
      BY <3>1, <3>2, <3>3
    <3>6. \A x \in T : s(T) = f[x] + s(T \ {x})
      BY <3>1, <3>2, <3>4
    <3> QED
      BY <3>5, <3>6
  <2> QED
    BY <2>1, <2>2
<1>2. SUBSET S \subseteq A
  <2> HIDE DEF A
  <2> QED
    BY <1>1, SubsetInduction
<1> QED
  BY <1>2 DEF s

\* A new element adds its value.
LEMMA SumAdd ==
  ASSUME NEW f, NEW S, IsFiniteSet(S), NEW x, x \notin S, \A y \in S \cup {x} : f[y] \in Int
  PROVE  /\ SumFunctionOnSet(f, S \cup {x}) = f[x] + SumFunctionOnSet(f, S)
         /\ IsFiniteSet(S \cup {x})
<1>1. IsFiniteSet(S \cup {x})
  BY FS_AddElement
<1>2. (S \cup {x}) \ {x} = S
  OBVIOUS
<1> QED
  BY <1>1, <1>2, SumStep

\* Induction from a set to one with one element more.
LEMMA SetInduction ==
  ASSUME NEW U, IsFiniteSet(U), NEW A, {} \in A,
         \A T \in SUBSET U : \A x \in U \ T : T \in A => T \cup {x} \in A
  PROVE  SUBSET U \subseteq A
<1>1. ASSUME NEW T \in SUBSET U, \A V \in SUBSET T : V # T => V \in A
      PROVE  T \in A
  <2>1. CASE T # {}
    <3>1. PICK x \in T : TRUE
      BY <2>1
    <3>2. T \ {x} \in A /\ T \ {x} \in SUBSET U /\ x \in U \ (T \ {x})
      BY <1>1
    <3>3. (T \ {x}) \cup {x} = T
      OBVIOUS
    <3> QED
      BY <3>2, <3>3
  <2> QED
    BY <2>1
<1> QED
  BY <1>1, SubsetInduction

\* The sum of the sums: of two functions element by element.
LEMMA SumPlus ==
  ASSUME NEW f, NEW g, NEW h, NEW S, IsFiniteSet(S),
         \A x \in S : g[x] \in Int /\ h[x] \in Int /\ f[x] = g[x] + h[x]
  PROVE  SumFunctionOnSet(f, S) = SumFunctionOnSet(g, S) + SumFunctionOnSet(h, S)
<1> DEFINE s(k, T) == SumFunctionOnSet(k, T)
           A == {T \in SUBSET S : s(f, T) = s(g, T) + s(h, T)}
<1> HIDE DEF s
<1>1. {} \in A
  BY SumEmpty DEF s
<1>2. ASSUME NEW T \in SUBSET S, NEW x \in S \ T, T \in A PROVE T \cup {x} \in A
  <2>1. IsFiniteSet(T)
    BY FS_Subset
  <2>2. s(g, T \cup {x}) = g[x] + s(g, T) /\ s(h, T \cup {x}) = h[x] + s(h, T)
    BY <2>1, SumAdd DEF s
  <2>4. s(f, T \cup {x}) = f[x] + s(f, T)
    <3>1. \A y \in T \cup {x} : f[y] \in Int
      OBVIOUS
    <3> QED
      BY <2>1, <3>1, SumAdd DEF s
  <2>5. g[x] \in Int /\ h[x] \in Int /\ f[x] = g[x] + h[x] /\ s(f, T) = s(g, T) + s(h, T)
    BY <1>2
  <2>3. s(g, T) \in Int /\ s(h, T) \in Int
    BY <2>1, SumStep DEF s
  <2> QED
    BY <2>2, <2>3, <2>4, <2>5
<1>3. SUBSET S \subseteq A
  <2> HIDE DEF A
  <2> QED
    BY <1>1, <1>2, SetInduction
<1> QED
  BY <1>3 DEF s

LEMMA SumAtMost ==
  ASSUME NEW f, NEW g, NEW S, IsFiniteSet(S),
         \A x \in S : f[x] \in Int /\ g[x] \in Int /\ f[x] <= g[x]
  PROVE  SumFunctionOnSet(f, S) <= SumFunctionOnSet(g, S)
<1> DEFINE s(k, T) == SumFunctionOnSet(k, T)
           A == {T \in SUBSET S : s(f, T) <= s(g, T)}
<1> HIDE DEF s
<1>1. {} \in A
  BY SumEmpty DEF s
<1>2. ASSUME NEW T \in SUBSET S, NEW x \in S \ T, T \in A PROVE T \cup {x} \in A
  <2>1. IsFiniteSet(T)
    BY FS_Subset
  <2>2. s(f, T \cup {x}) = f[x] + s(f, T) /\ s(g, T \cup {x}) = g[x] + s(g, T)
    BY <2>1, SumAdd DEF s
  <2>3. s(f, T) \in Int /\ s(g, T) \in Int
    BY <2>1, SumStep DEF s
  <2>4. s(f, T) <= s(g, T) /\ f[x] <= g[x] /\ f[x] \in Int /\ g[x] \in Int
    BY <1>2
  <2> QED
    BY <2>2, <2>3, <2>4
<1>3. SUBSET S \subseteq A
  <2> HIDE DEF A
  <2> QED
    BY <1>1, <1>2, SetInduction
<1> QED
  BY <1>3 DEF s

LEMMA SumSame ==
  ASSUME NEW f, NEW g, NEW S, IsFiniteSet(S), \A x \in S : f[x] \in Int /\ f[x] = g[x]
  PROVE  SumFunctionOnSet(f, S) = SumFunctionOnSet(g, S)
<1>1. SumFunctionOnSet(f, S) \in Int /\ SumFunctionOnSet(g, S) \in Int
  BY SumStep
<1>2. SumFunctionOnSet(f, S) <= SumFunctionOnSet(g, S) /\ SumFunctionOnSet(g, S) <= SumFunctionOnSet(f, S)
  BY SumAtMost
<1> QED
  BY <1>1, <1>2

LEMMA SumZero ==
  ASSUME NEW f, NEW S, IsFiniteSet(S), \A x \in S : f[x] = 0
  PROVE  SumFunctionOnSet(f, S) = 0
<1> DEFINE s(T) == SumFunctionOnSet(f, T)
           A == {T \in SUBSET S : s(T) = 0}
<1> HIDE DEF s
<1>1. {} \in A
  BY SumEmpty DEF s
<1>2. ASSUME NEW T \in SUBSET S, NEW x \in S \ T, T \in A PROVE T \cup {x} \in A
  <2>1. IsFiniteSet(T)
    BY FS_Subset
  <2>2. s(T \cup {x}) = f[x] + s(T)
    BY <2>1, SumAdd DEF s
  <2> QED
    BY <1>2, <2>2
<1>3. SUBSET S \subseteq A
  <2> HIDE DEF A
  <2> QED
    BY <1>1, <1>2, SetInduction
<1> QED
  BY <1>3 DEF s

LEMMA SumNat ==
  ASSUME NEW f, NEW S, IsFiniteSet(S), \A x \in S : f[x] \in Nat
  PROVE  /\ SumFunctionOnSet(f, S) \in Nat
         /\ \A x \in S : f[x] <= SumFunctionOnSet(f, S)
<1> DEFINE z == [x \in S |-> 0]
<1>1. SumFunctionOnSet(f, S) \in Int
  BY SumStep
<1>2. ASSUME NEW T \in SUBSET S PROVE SumFunctionOnSet(f, T) \in Nat
  <2>1. IsFiniteSet(T)
    BY FS_Subset
  <2>2. SumFunctionOnSet(z, T) = 0
    BY <2>1, SumZero
  <2>3. SumFunctionOnSet(z, T) <= SumFunctionOnSet(f, T)
    <3> HIDE DEF z
    <3>1. \A x \in T : z[x] \in Int /\ f[x] \in Int /\ z[x] <= f[x]
      BY DEF z
    <3> QED
      BY <2>1, <3>1, SumAtMost
  <2>4. SumFunctionOnSet(f, T) \in Int
    BY <2>1, SumStep
  <2> QED
    BY <2>2, <2>3, <2>4
<1>3. ASSUME NEW x \in S PROVE f[x] <= SumFunctionOnSet(f, S)
  <2>1. SumFunctionOnSet(f, S) = f[x] + SumFunctionOnSet(f, S \ {x})
    BY SumStep
  <2>2. SumFunctionOnSet(f, S \ {x}) \in Nat
    BY <1>2
  <2> QED
    BY <2>1, <2>2
<1> QED
  BY <1>2, <1>3

LEMMA SumUnion ==
  ASSUME NEW f, NEW S, NEW T, IsFiniteSet(S), IsFiniteSet(T), S \cap T = {},
         \A x \in S \cup T : f[x] \in Int
  PROVE  SumFunctionOnSet(f, S \cup T) = SumFunctionOnSet(f, S) + SumFunctionOnSet(f, T)
<1> DEFINE s(V) == SumFunctionOnSet(f, V)
           A == {V \in SUBSET T : IsFiniteSet(S \cup V) /\ s(S \cup V) = s(S) + s(V)}
<1> HIDE DEF s
<1>0. s(S) \in Int
  BY SumStep DEF s
<1>1. {} \in A
  <2>1. S \cup {} = S /\ s({}) = 0
    BY SumEmpty DEF s
  <2> QED
    BY <1>0, <2>1
<1>2. ASSUME NEW V \in SUBSET T, NEW x \in T \ V, V \in A PROVE V \cup {x} \in A
  <2>1. IsFiniteSet(V) /\ IsFiniteSet(S \cup V) /\ x \notin S \cup V
    BY <1>2, FS_Subset
  <2>2. S \cup (V \cup {x}) = (S \cup V) \cup {x}
    OBVIOUS
  <2>3. /\ s((S \cup V) \cup {x}) = f[x] + s(S \cup V) /\ IsFiniteSet((S \cup V) \cup {x})
        /\ s(V \cup {x}) = f[x] + s(V)
    BY <2>1, SumAdd DEF s
  <2>4. s(V) \in Int
    BY <2>1, SumStep DEF s
  <2>5. s(S \cup V) = s(S) + s(V) /\ f[x] \in Int
    BY <1>2
  <2>6. s(S \cup (V \cup {x})) = s(S) + s(V \cup {x})
    <3>1. s(S \cup (V \cup {x})) = f[x] + s(S \cup V)
      <4> HIDE DEF A
      <4> QED
        BY <2>2, <2>3
    <3>2. PICK a, b : a = s(S) /\ b = s(V)
      OBVIOUS
    <3>3. f[x] + (a + b) = a + (f[x] + b)
      BY <1>0, <2>4, <2>5, <3>2
    <3> QED
      BY <2>3, <2>5, <3>1, <3>2, <3>3
  <2> QED
    BY <2>2, <2>3, <2>6
<1>3. SUBSET T \subseteq A
  <2> HIDE DEF A
  <2> QED
    BY <1>1, <1>2, SetInduction
<1> QED
  BY <1>3 DEF s

\* Points where the function is zero do not count.
LEMMA SumSupport ==
  ASSUME NEW f, NEW S, IsFiniteSet(S), NEW T \in SUBSET S,
         \A x \in S : f[x] \in Int, \A x \in S \ T : f[x] = 0
  PROVE  SumFunctionOnSet(f, S) = SumFunctionOnSet(f, T)
<1>1. IsFiniteSet(T) /\ IsFiniteSet(S \ T) /\ T \cup (S \ T) = S
  BY FS_Subset
<1>2. SumFunctionOnSet(f, S \ T) = 0
  BY <1>1, SumZero
<1>3. SumFunctionOnSet(f, T \cup (S \ T)) = SumFunctionOnSet(f, T) + SumFunctionOnSet(f, S \ T)
  BY <1>1, SumUnion
<1>4. SumFunctionOnSet(f, T) \in Int
  BY <1>1, SumStep
<1>5. SumFunctionOnSet(f, S) = SumFunctionOnSet(f, T) + SumFunctionOnSet(f, S \ T)
  <2> PICK u : u = S \ T
    OBVIOUS
  <2> QED
    BY <1>1, <1>3, Zenon
<1> QED
  BY <1>2, <1>4, <1>5

\* The P[r] are finite, apart from one another, and make up B.
Partition(P, R, B) ==
    /\ IsFiniteSet(R) /\ \A r \in R : IsFiniteSet(P[r])
    /\ \A r, s \in R : r # s => P[r] \cap P[s] = {}
    /\ \A x : x \in B <=> \E r \in R : x \in P[r]

\* Summing part by part gives the sum over the whole.
LEMMA SumByParts ==
  ASSUME NEW f, NEW g, NEW P, NEW R, NEW B, Partition(P, R, B), \A x \in B : f[x] \in Int,
         \A r \in R : g[r] = SumFunctionOnSet(f, P[r])
  PROVE  SumFunctionOnSet(g, R) = SumFunctionOnSet(f, B)
<1> USE DEF Partition
<1> DEFINE over(T) == UNION {P[r] : r \in T}
           A == {T \in SUBSET R : /\ IsFiniteSet(over(T))
                                 /\ SumFunctionOnSet(g, T) = SumFunctionOnSet(f, over(T))}
<1>1. {} \in A
  <2>1. over({}) = {}
    OBVIOUS
  <2> QED
    BY <2>1, SumEmpty, FS_EmptySet
<1>2. ASSUME NEW T \in SUBSET R, NEW r \in R \ T, T \in A PROVE T \cup {r} \in A
  <2>1. PICK u, v : u = over(T) /\ v = P[r]
    OBVIOUS
  <2>2. /\ IsFiniteSet(u) /\ IsFiniteSet(v) /\ SumFunctionOnSet(g, T) = SumFunctionOnSet(f, u)
        /\ g[r] = SumFunctionOnSet(f, v)
    BY <1>2, <2>1
  <2>3. u \cap v = {} /\ over(T \cup {r}) = u \cup v /\ IsFiniteSet(T)
    BY <2>1, FS_Subset
  <2>4. \A x \in u \cup v : f[x] \in Int
    BY <2>1
  <2>5. SumFunctionOnSet(f, u \cup v) = SumFunctionOnSet(f, u) + SumFunctionOnSet(f, v)
    BY <2>2, <2>3, <2>4, SumUnion
  <2>6. \A y \in R : g[y] \in Int
    BY SumStep
  <2>7. SumFunctionOnSet(g, T \cup {r}) = g[r] + SumFunctionOnSet(g, T)
    BY <2>3, <2>6, SumAdd
  <2>8. g[r] \in Int /\ SumFunctionOnSet(g, T) \in Int
    BY <2>3, <2>6, SumStep
  <2>9. SumFunctionOnSet(g, T \cup {r}) = SumFunctionOnSet(f, u \cup v)
    BY <2>2, <2>5, <2>7, <2>8
  <2>10. IsFiniteSet(u \cup v)
    BY <2>2, FS_Union
  <2> QED
    BY <2>3, <2>9, <2>10
<1>3. SUBSET R \subseteq A
  <2> HIDE DEF A
  <2> QED
    BY <1>1, <1>2, SetInduction
<1>4. R \in A /\ B = over(R)
  BY <1>3
<1> QED
  BY <1>4

\* A change at one point changes the sum by as much.
LEMMA SumChange ==
  ASSUME NEW f, NEW g, NEW S, IsFiniteSet(S), NEW x \in S,
         \A y \in S : f[y] \in Int /\ g[y] \in Int, \A y \in S \ {x} : g[y] = f[y]
  PROVE  SumFunctionOnSet(g, S) = SumFunctionOnSet(f, S) + (g[x] - f[x])
<1> DEFINE R == S \ {x}
<1>1. IsFiniteSet(R)
  BY FS_Subset
<1>2. SumFunctionOnSet(f, R) = SumFunctionOnSet(g, R) /\ SumFunctionOnSet(f, R) \in Int
  <2> \A y \in R : f[y] \in Int /\ f[y] = g[y]
    OBVIOUS
  <2> HIDE DEF R
  <2> QED
    BY <1>1, SumSame, SumStep
<1>3. /\ SumFunctionOnSet(f, S) = f[x] + SumFunctionOnSet(f, R)
      /\ SumFunctionOnSet(g, S) = g[x] + SumFunctionOnSet(g, R)
  BY SumStep
<1> QED
  BY <1>2, <1>3

\* A sum over the two elements a set may have.
LEMMA SumPair ==
  ASSUME NEW f, NEW S, NEW a, NEW b, a # b, S \subseteq {a, b}, \A y \in S : f[y] \in Int
  PROVE  /\ IsFiniteSet(S)
         /\ SumFunctionOnSet(f, S)
              = (IF a \in S THEN f[a] ELSE 0) + (IF b \in S THEN f[b] ELSE 0)
<1> DEFINE R == S \ {a}
<1>1. IsFiniteSet({}) /\ IsFiniteSet({a}) /\ IsFiniteSet({b}) /\ IsFiniteSet({a, b})
  BY FS_EmptySet, FS_AddElement, FS_Singleton
<1>2. IsFiniteSet(S) /\ IsFiniteSet(R)
  BY <1>1, FS_Subset
<1>3. SumFunctionOnSet(f, R) = IF b \in S THEN f[b] ELSE 0
  <2>1. CASE b \in S
    <3>1. R = {b} /\ R \ {b} = {}
      BY <2>1
    <3>2. SumFunctionOnSet(f, R) = f[b] + SumFunctionOnSet(f, R \ {b})
      BY <1>2, <3>1, SumStep
    <3> QED
      BY <2>1, <3>1, <3>2, SumEmpty
  <2>2. CASE b \notin S
    <3>1. R = {}
      BY <2>2
    <3> QED
      BY <2>2, <3>1, SumEmpty
  <2> QED
    BY <2>1, <2>2
<1>4. CASE a \in S
  <2>1. SumFunctionOnSet(f, S) = f[a] + SumFunctionOnSet(f, R)
    BY <1>2, <1>4, SumStep
  <2> QED
    BY <1>2, <1>3, <1>4, <2>1
<1>5. CASE a \notin S
  <2>1. R = S
    BY <1>5
  <2>2. PICK v : v = (IF b \in S THEN f[b] ELSE 0) /\ v \in Int
    OBVIOUS
  <2>3. SumFunctionOnSet(f, S) = v
    <3> HIDE DEF R
    <3> QED
      BY <1>3, <2>1, <2>2
  <2> QED
    BY <1>2, <1>5, <2>2, <2>3
<1> QED
  BY <1>2, <1>4, <1>5

\* A function that is zero but at one point.
LEMMA SumSpike ==
  ASSUME NEW f, NEW S, IsFiniteSet(S), NEW x,
         \A y \in S : f[y] \in Int /\ (y # x => f[y] = 0)
  PROVE  SumFunctionOnSet(f, S) = IF x \in S THEN f[x] ELSE 0
<1>1. CASE x \in S
  <2> DEFINE R == S \ {x}
  <2>1. IsFiniteSet(R) /\ \A y \in R : f[y] = 0
    BY FS_Subset
  <2>2. SumFunctionOnSet(f, R) = 0
    <3> HIDE DEF R
    <3> QED
      BY <2>1, SumZero
  <2>3. SumFunctionOnSet(f, S) = f[x] + SumFunctionOnSet(f, R)
    BY <1>1, SumStep
  <2> QED
    BY <1>1, <2>2, <2>3
<1>2. CASE x \notin S
  BY <1>2, SumZero
<1> QED
  BY <1>1, <1>2

\* Rows first or columns first.
LEMMA SumSwap ==
  ASSUME NEW A, NEW B, IsFiniteSet(A), IsFiniteSet(B), NEW f,
         \A a \in A, b \in B : f[a][b] \in Int
  PROVE  SumFunctionOnSet([a \in A |-> SumFunctionOnSet(f[a], B)], A)
           = SumFunctionOnSet([b \in B |-> SumFunctionOnSet([a \in A |-> f[a][b]], A)], B)
<1> DEFINE rows == [a \in A |-> SumFunctionOnSet(f[a], B)]
           col(b) == [a \in A |-> f[a][b]]
           cols(T) == [b \in B |-> SumFunctionOnSet(col(b), T)]
           G == {T \in SUBSET A : SumFunctionOnSet(rows, T) = SumFunctionOnSet(cols(T), B)}
<1>1. {} \in G
  <2>1. \A b \in B : cols({})[b] = 0
    BY SumEmpty
  <2>2. SumFunctionOnSet(cols({}), B) = 0
    <3> HIDE DEF cols
    <3> QED
      BY <2>1, SumZero
  <2> QED
    BY <2>2, SumEmpty
<1>2. ASSUME NEW T \in SUBSET A, NEW x \in A \ T, T \in G PROVE T \cup {x} \in G
  <2>1. IsFiniteSet(T) /\ T \cup {x} \in SUBSET A
    BY FS_Subset
  <2>2. \A a \in A : rows[a] \in Int
    BY SumStep
  <2>3. SumFunctionOnSet(rows, T \cup {x}) = rows[x] + SumFunctionOnSet(rows, T)
    <3> HIDE DEF rows
    <3> QED
      BY <2>1, <2>2, SumAdd
  <2>4. ASSUME NEW b \in B
        PROVE  /\ cols(T)[b] \in Int
               /\ cols(T \cup {x})[b] = f[x][b] + cols(T)[b]
    <3>1. \A a \in A : col(b)[a] \in Int
      OBVIOUS
    <3>2. col(b)[x] = f[x][b]
      OBVIOUS
    <3> HIDE DEF col
    <3>3. /\ SumFunctionOnSet(col(b), T \cup {x}) = col(b)[x] + SumFunctionOnSet(col(b), T)
          /\ SumFunctionOnSet(col(b), T) \in Int
      BY <2>1, <3>1, SumAdd, SumStep
    <3> QED
      BY <3>2, <3>3
  <2>5. SumFunctionOnSet(cols(T \cup {x}), B) = SumFunctionOnSet(f[x], B) + SumFunctionOnSet(cols(T), B)
    <3>1. PICK u, v, w : u = cols(T \cup {x}) /\ v = f[x] /\ w = cols(T)
      OBVIOUS
    <3>2. \A b \in B : v[b] \in Int /\ w[b] \in Int /\ u[b] = v[b] + w[b]
      BY <2>4, <3>1
    <3>3. SumFunctionOnSet(u, B) = SumFunctionOnSet(v, B) + SumFunctionOnSet(w, B)
      BY <3>2, SumPlus
    <3> QED
      BY <3>1, <3>3
  <2>6. rows[x] = SumFunctionOnSet(f[x], B)
    OBVIOUS
  <2> HIDE DEF rows, cols
  <2> QED
    BY <1>2, <2>1, <2>3, <2>5, <2>6
<1>3. SUBSET A \subseteq G
  <2> HIDE DEF G
  <2> QED
    BY <1>1, <1>2, SetInduction
<1> QED
  BY <1>3
=============================================================================
