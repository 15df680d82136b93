------------------------------ MODULE SetLemmas -------------------------------
(***************************************************************************)
(* Facts about finite sets that the proofs of several components cite.     *)
(*                                                                         *)
(* What MapThenSumSet computes over a finite set, whatever the order in    *)
(* which it takes the elements: the sums of module HlsAhead and of module  *)
(* ProviderHealth.  Each fact is proved by a smallest subset that would    *)
(* refute it.                                                              *)
(*                                                                         *)
(* What module Sorting makes of a finite set: a member's place is the      *)
(* number of members before it, no two share one, and a sequence that      *)
(* lists the members in their order is the sorted one.                     *)
(***************************************************************************)
EXTENDS Sorting, Functions, FiniteSetsExt, FunctionTheorems, FiniteSetTheorems, WellFoundedInduction, TLAPS

(***************************************************************************)
(* Sums                                                                    *)
(***************************************************************************)

Taken(s) == CHOOSE x \in s : TRUE
SumsTo(g, w, S) == g = [s \in SUBSET S |-> IF s = {} THEN 0 ELSE w[Taken(s)] + g[s \ {Taken(s)}]]
Total(w, S) == (CHOOSE g : SumsTo(g, w, S))[S]

Minimal(T, Bad) == T \in Bad /\ \A U \in Bad : U \subseteq T => U = T

\* Among the subsets of a finite set that break a law there is a smallest one.
LEMMA Smallest ==
  ASSUME NEW S, IsFiniteSet(S), NEW Bad \in SUBSET (SUBSET S), Bad # {}
  PROVE  \E T : Minimal(T, Bad)
<1>1. IsWellFoundedOn(StrictSubsetOrdering(S), SUBSET S)
  BY FS_StrictSubsetOrderingWellFounded, FS_FiniteSubsetsOfFinite
<1>2. PICK T \in Bad : \A U \in Bad : <<U, T>> \notin StrictSubsetOrdering(S)
  BY <1>1, WFMin
<1>3. ASSUME NEW U \in Bad, U \subseteq T, U # T
      PROVE  FALSE
  <2>1. <<U, T>> \in StrictSubsetOrdering(S)
    BY <1>3 DEF StrictSubsetOrdering
  <2> QED
    BY <1>2, <2>1
<1>4. Minimal(T, Bad)
  BY Zenon, <1>3 DEF Minimal
<1> QED
  BY Zenon, <1>4

\* The element a sum takes out first is one of the set.
LEMMA TakenIn ==
  ASSUME NEW s, s # {}
  PROVE  Taken(s) \in s
  BY DEF Taken

\* What a sum is at one subset.
LEMMA SumAt ==
  ASSUME NEW S, NEW w, NEW g, SumsTo(g, w, S), NEW T \in SUBSET S
  PROVE  /\ T = {} => g[T] = 0
         /\ T # {} => g[T] = w[Taken(T)] + g[T \ {Taken(T)}]
  BY DEF SumsTo

\* Two ways to sum agree where both do.
LEMMA SumUnique ==
  ASSUME NEW A, NEW B, NEW w, NEW g, NEW h, SumsTo(g, w, A), SumsTo(h, w, B),
         NEW T, T \subseteq A, T \subseteq B, IsFiniteSet(T)
  PROVE  g[T] = h[T]
<1> DEFINE Bad == {U \in SUBSET T : g[U] # h[U]}
<1>1. SUFFICES ASSUME Bad # {} PROVE FALSE
  BY DEF Bad
<1>2. PICK U : Minimal(U, Bad)
  <2>1. Bad \in SUBSET (SUBSET T)
    OBVIOUS
  <2> HIDE DEF Bad
  <2> QED
    BY Zenon, <1>1, <2>1, Smallest
<1>3. U \in SUBSET A /\ U \in SUBSET B /\ U \in SUBSET T /\ g[U] # h[U]
  BY <1>2 DEF Minimal
<1>4. U # {}
  BY <1>3, SumAt
<1>5. g[U \ {Taken(U)}] = h[U \ {Taken(U)}]
  BY <1>2, <1>3, <1>4, TakenIn DEF Minimal
<1>6. g[U] = w[Taken(U)] + g[U \ {Taken(U)}]
  BY <1>3, <1>4, SumAt
<1>7. h[U] = w[Taken(U)] + h[U \ {Taken(U)}]
  BY <1>3, <1>4, SumAt
<1> QED
  BY Zenon, <1>3, <1>5, <1>6, <1>7

\* Every finite set of numbers can be summed.
LEMMA SumExists ==
  ASSUME NEW S, IsFiniteSet(S), NEW w, \A x \in S : w[x] \in Int
  PROVE  \E g \in [SUBSET S -> Int] : SumsTo(g, w, S)
<1> DEFINE Summable(U) == \E g \in [SUBSET U -> Int] : SumsTo(g, w, U)
           Bad == {U \in SUBSET S : ~Summable(U)}
<1>1. SUFFICES ASSUME Bad # {} PROVE FALSE
  BY DEF Bad
<1>2. PICK T : Minimal(T, Bad)
  <2>1. Bad \in SUBSET (SUBSET S)
    OBVIOUS
  <2> HIDE DEF Bad
  <2> QED
    BY Zenon, <1>1, <2>1, Smallest
<1> DEFINE by(U) == CHOOSE g \in [SUBSET U -> Int] : SumsTo(g, w, U)
           val(U) == by(U)[U]
           h == [s \in SUBSET T |-> IF s = {} THEN 0 ELSE w[Taken(s)] + val(s \ {Taken(s)})]
<1>3. \A U \in SUBSET T : U # T => by(U) \in [SUBSET U -> Int] /\ SumsTo(by(U), w, U)
  <2> SUFFICES ASSUME NEW U \in SUBSET T, U # T
               PROVE  by(U) \in [SUBSET U -> Int] /\ SumsTo(by(U), w, U)
    OBVIOUS
  <2>1. Summable(U)
    BY <1>2 DEF Minimal
  <2> QED
    BY <2>1
<1>4. \A U \in SUBSET T : IsFiniteSet(U)
  BY <1>2, FS_Subset DEF Minimal
<1> HIDE DEF by
<1>5. \A U \in SUBSET T : U # T => val(U) \in Int
  BY <1>3
<1>6. \A s \in SUBSET T : s # {} => Taken(s) \in s /\ s \ {Taken(s)} \in SUBSET T /\ s \ {Taken(s)} # T
  BY TakenIn
<1>7. h \in [SUBSET T -> Int]
  <2>1. \A s \in SUBSET T : s # {} => w[Taken(s)] \in Int /\ val(s \ {Taken(s)}) \in Int
    BY <1>2, <1>5, <1>6 DEF Minimal
  <2> HIDE DEF val
  <2> QED
    BY <2>1
<1>8. \A r \in SUBSET T : r # T => h[r] = val(r)
  <2> SUFFICES ASSUME NEW r \in SUBSET T, r # T
               PROVE  h[r] = val(r)
    OBVIOUS
  <2>1. SumsTo(by(r), w, r)
    BY <1>3
  <2>2. CASE r = {}
    <3>1. h[r] = 0
      BY <2>2
    <3>2. by(r)[r] = 0
      BY <2>1, <2>2, SumAt
    <3> QED
      BY <3>1, <3>2
  <2>3. CASE r # {}
    <3> DEFINE q == r \ {Taken(r)}
    <3>1. q \in SUBSET T /\ q # T /\ q \in SUBSET r /\ SumsTo(by(q), w, q) /\ IsFiniteSet(q)
      BY <1>3, <1>4, <1>6, <2>3
    <3>2. val(r) = w[Taken(r)] + by(r)[q]
      <4>1. PICK f : f = by(r) /\ SumsTo(f, w, r)
        BY <2>1
      <4>2. f[r] = w[Taken(r)] + f[q]
        BY <2>3, <4>1 DEF SumsTo
      <4> QED
        BY <4>1, <4>2
    <3> HIDE DEF q
    <3>3. by(r)[q] = by(q)[q]
      BY <2>1, <3>1, SumUnique
    <3>4. h[r] = w[Taken(r)] + val(q)
      BY <2>3 DEF q
    <3> QED
      BY <3>2, <3>3, <3>4
  <2> QED
    BY <2>2, <2>3
<1>9. SumsTo(h, w, T)
  <2> HIDE DEF val
  <2>1. \A s \in SUBSET T : s # {} => val(s \ {Taken(s)}) = h[s \ {Taken(s)}]
    BY <1>6, <1>8
  <2> QED
    BY <2>1 DEF SumsTo
<1> HIDE DEF h
<1> QED
  BY <1>2, <1>7, <1>9 DEF Minimal

\* The total is what any way of summing gives.
LEMMA TotalIs ==
  ASSUME NEW S, IsFiniteSet(S), NEW w, \A x \in S : w[x] \in Int, NEW g, SumsTo(g, w, S)
  PROVE  Total(w, S) = g[S]
<1> DEFINE c == CHOOSE h : SumsTo(h, w, S)
<1>1. SumsTo(c, w, S)
  OBVIOUS
<1> HIDE DEF c
<1>2. c[S] = g[S]
  BY <1>1, SumUnique
<1> QED
  BY <1>2 DEF Total, c

\* A total is an integer, 0 for the empty set.
LEMMA TotalType ==
  ASSUME NEW S, IsFiniteSet(S), NEW w, \A x \in S : w[x] \in Int
  PROVE  Total(w, S) \in Int /\ (S = {} => Total(w, S) = 0)
<1>1. PICK g \in [SUBSET S -> Int] : SumsTo(g, w, S)
  BY SumExists
<1>2. g[S] \in Int /\ (S = {} => g[S] = 0)
  BY <1>1, SumAt
<1> QED
  BY <1>1, <1>2, TotalIs

\* A total takes one element out, and sums the rest.
LEMMA TotalStep ==
  ASSUME NEW S, IsFiniteSet(S), NEW w, \A x \in S : w[x] \in Int, S # {}
  PROVE  Total(w, S) = w[Taken(S)] + Total(w, S \ {Taken(S)})
<1> DEFINE r == S \ {Taken(S)}
<1>1. PICK g \in [SUBSET S -> Int] : SumsTo(g, w, S)
  BY SumExists
<1>2. IsFiniteSet(r) /\ r \in SUBSET S /\ \A x \in r : w[x] \in Int
  BY FS_Subset
<1>3. PICK h \in [SUBSET r -> Int] : SumsTo(h, w, r)
  BY <1>2, SumExists
<1> HIDE DEF r
<1>4. g[r] = h[r]
  BY <1>1, <1>2, <1>3, SumUnique
<1>5. Total(w, r) = h[r] /\ Total(w, S) = g[S]
  BY <1>1, <1>2, <1>3, TotalIs
<1>6. g[S] = w[Taken(S)] + g[r]
  BY <1>1, SumAt DEF r
<1> QED
  BY <1>4, <1>5, <1>6 DEF r

\* Any element may be taken first.
LEMMA TotalRemove ==
  ASSUME NEW S, IsFiniteSet(S), NEW w, \A x \in S : w[x] \in Int, NEW x \in S
  PROVE  Total(w, S) = w[x] + Total(w, S \ {x})
<1> DEFINE Bad == {U \in SUBSET S : \E u \in U : Total(w, U) # w[u] + Total(w, U \ {u})}
<1>1. SUFFICES ASSUME Bad # {} PROVE FALSE
  BY DEF Bad
<1>2. PICK T : Minimal(T, Bad)
  <2>1. Bad \in SUBSET (SUBSET S)
    OBVIOUS
  <2> HIDE DEF Bad
  <2> QED
    BY Zenon, <1>1, <2>1, Smallest
<1>3. PICK u \in T : Total(w, T) # w[u] + Total(w, T \ {u})
  BY <1>2 DEF Minimal
<1> DEFINE y == Taken(T)
           r == T \ {y}
           q == T \ {u}
           b == (T \ {y}) \ {u}
<1>4. y \in T /\ IsFiniteSet(T) /\ (\A z \in T : w[z] \in Int) /\ T # {}
  BY <1>2, <1>3, TakenIn, FS_Subset DEF Minimal
<1>5. Total(w, T) = w[y] + Total(w, r)
  BY <1>4, TotalStep
<1>6. u # y
  BY <1>3, <1>5
<1>7. IsFiniteSet(b) /\ b = q \ {y} /\ \A z \in b : w[z] \in Int
  BY <1>4, FS_Subset
<1>8. /\ r \in SUBSET S /\ r # T /\ r \subseteq T /\ u \in r
      /\ q \in SUBSET S /\ q # T /\ q \subseteq T /\ y \in q
  BY <1>2, <1>3, <1>4, <1>6 DEF Minimal
<1> HIDE DEF y, r, q, b
<1>9. Total(w, r) = w[u] + Total(w, r \ {u}) /\ Total(w, q) = w[y] + Total(w, q \ {y})
  BY <1>2, <1>8 DEF Minimal
<1>10. Total(w, b) \in Int /\ w[u] \in Int /\ w[y] \in Int
  BY <1>3, <1>4, <1>7, TotalType
<1>11. r \ {u} = b /\ q \ {y} = b
  BY <1>7 DEF r, b
<1>12. Total(w, T) = w[u] + Total(w, q)
  <2>1. Total(w, r) = w[u] + Total(w, b) /\ Total(w, q) = w[y] + Total(w, b)
    BY Zenon, <1>9, <1>11
  <2> QED
    BY <1>5, <1>10, <2>1
<1> QED
  BY <1>3, <1>12 DEF q

\* Larger numbers have a larger total.
LEMMA TotalMonotone ==
  ASSUME NEW S, IsFiniteSet(S), NEW w, NEW v,
         \A x \in S : w[x] \in Int /\ v[x] \in Int /\ w[x] <= v[x]
  PROVE  Total(w, S) <= Total(v, S)
<1> DEFINE Bad == {U \in SUBSET S : ~(Total(w, U) <= Total(v, U))}
<1>1. SUFFICES ASSUME Bad # {} PROVE FALSE
  BY DEF Bad
<1>2. PICK T : Minimal(T, Bad)
  <2>1. Bad \in SUBSET (SUBSET S)
    OBVIOUS
  <2> HIDE DEF Bad
  <2> QED
    BY Zenon, <1>1, <2>1, Smallest
<1>3. T \in SUBSET S /\ IsFiniteSet(T) /\ ~(Total(w, T) <= Total(v, T))
  BY <1>2, FS_Subset DEF Minimal
<1>4. T # {}
  BY <1>3, TotalType
<1>5. PICK x \in T : w[x] \in Int /\ v[x] \in Int /\ w[x] <= v[x]
  BY <1>3, <1>4
<1> DEFINE r == T \ {x}
<1>6. r \in SUBSET S /\ IsFiniteSet(r) /\ r \notin Bad
  BY <1>2, <1>3, <1>5, FS_Subset DEF Minimal
<1>7. Total(w, r) <= Total(v, r) /\ Total(w, r) \in Int /\ Total(v, r) \in Int
  BY <1>6, TotalType
<1>8. Total(w, T) = w[x] + Total(w, r) /\ Total(v, T) = v[x] + Total(v, r)
  BY <1>3, <1>5, TotalRemove
<1> HIDE DEF r
<1> QED
  BY <1>3, <1>5, <1>7, <1>8

\* Equal terms have equal totals.
LEMMA TotalSame ==
  ASSUME NEW S, IsFiniteSet(S), NEW w, NEW v, \A x \in S : w[x] \in Int /\ v[x] = w[x]
  PROVE  Total(w, S) = Total(v, S)
<1>1. \A x \in S : w[x] \in Int /\ v[x] \in Int /\ w[x] <= v[x] /\ v[x] <= w[x]
  OBVIOUS
<1>2. Total(w, S) <= Total(v, S) /\ Total(v, S) <= Total(w, S)
  BY <1>1, TotalMonotone
<1>3. Total(w, S) \in Int /\ Total(v, S) \in Int
  BY <1>1, TotalType
<1> QED
  BY <1>2, <1>3

\* A total of natural numbers is one.
LEMMA TotalNat ==
  ASSUME NEW S, IsFiniteSet(S), NEW w, \A x \in S : w[x] \in Nat
  PROVE  Total(w, S) \in Nat
<1> DEFINE Bad == {U \in SUBSET S : Total(w, U) \notin Nat}
<1>1. SUFFICES ASSUME Bad # {} PROVE FALSE
  BY DEF Bad
<1>2. PICK T : Minimal(T, Bad)
  <2>1. Bad \in SUBSET (SUBSET S)
    OBVIOUS
  <2> HIDE DEF Bad
  <2> QED
    BY Zenon, <1>1, <2>1, Smallest
<1>3. T \in SUBSET S /\ IsFiniteSet(T) /\ Total(w, T) \notin Nat /\ \A x \in T : w[x] \in Int
  BY <1>2, FS_Subset DEF Minimal
<1>4. T # {}
  BY <1>3, TotalType
<1>5. PICK x \in T : w[x] \in Nat
  BY <1>3, <1>4
<1>6. Total(w, T) = w[x] + Total(w, T \ {x})
  BY <1>3, <1>5, TotalRemove
<1>7. Total(w, T \ {x}) \in Nat
  BY <1>2, <1>3, <1>5 DEF Minimal
<1> QED
  BY <1>3, <1>5, <1>6, <1>7

\* The totals of two sets apart add up.
LEMMA TotalUnion ==
  ASSUME NEW A, NEW B, IsFiniteSet(A), IsFiniteSet(B), A \cap B = {}, NEW w,
         \A x \in A \cup B : w[x] \in Int
  PROVE  Total(w, A \cup B) = Total(w, A) + Total(w, B)
<1> DEFINE Bad == {U \in SUBSET A : Total(w, U \cup B) # Total(w, U) + Total(w, B)}
<1>1. SUFFICES ASSUME Bad # {} PROVE FALSE
  BY DEF Bad
<1>2. PICK T : Minimal(T, Bad)
  <2>1. Bad \in SUBSET (SUBSET A)
    OBVIOUS
  <2> HIDE DEF Bad
  <2> QED
    BY Zenon, <1>1, <2>1, Smallest
<1>3. /\ T \in SUBSET A /\ IsFiniteSet(T) /\ IsFiniteSet(T \cup B)
      /\ Total(w, T \cup B) # Total(w, T) + Total(w, B)
      /\ \A x \in T \cup B : w[x] \in Int
  BY <1>2, FS_Subset, FS_Union DEF Minimal
<1>4. T # {}
  <2>1. Total(w, B) \in Int /\ Total(w, {}) = 0
    BY FS_EmptySet, TotalType
  <2>2. {} \cup B = B
    OBVIOUS
  <2>3. CASE T = {}
    <3>1. Total(w, T \cup B) = Total(w, B) /\ Total(w, T) = 0
      BY Zenon, <2>1, <2>2, <2>3
    <3> QED
      BY <1>3, <2>1, <3>1
  <2> QED
    BY <2>3
<1>5. PICK x \in T : TRUE
  BY <1>4
<1> DEFINE r == T \ {x}
<1>6. r \in SUBSET A /\ r \notin Bad /\ IsFiniteSet(r) /\ \A z \in r : w[z] \in Int
  BY <1>2, <1>3, FS_Subset DEF Minimal
<1>7. (T \cup B) \ {x} = r \cup B
  BY <1>3
<1>8. Total(w, T) = w[x] + Total(w, r) /\ Total(w, T \cup B) = w[x] + Total(w, r \cup B)
  <2>1. x \in T \cup B
    OBVIOUS
  <2>2. Total(w, T \cup B) = w[x] + Total(w, (T \cup B) \ {x})
    BY <1>3, <2>1, TotalRemove
  <2>3. Total(w, T) = w[x] + Total(w, r)
    BY <1>3, TotalRemove
  <2> QED
    BY <1>7, <2>2, <2>3
<1>9. Total(w, r) \in Int /\ Total(w, B) \in Int /\ w[x] \in Int
  BY <1>3, <1>6, TotalType
<1>10. Total(w, r \cup B) = Total(w, r) + Total(w, B)
  BY <1>6
<1> HIDE DEF r
<1> QED
  BY <1>3, <1>8, <1>9, <1>10

-----------------------------------------------------------------------------
(* The elements of a sequence from the one after the m-th to the n-th.      *)
Stretch(h, m, n) == {h[i] : i \in (m + 1)..n}

\* The elements of a stretch of a sequence are finitely many.
LEMMA StretchFinite ==
  ASSUME NEW h, NEW m \in Nat, NEW n \in Nat
  PROVE  /\ IsFiniteSet(Stretch(h, m, n))
         /\ m <= n => Cardinality(Stretch(h, m, n)) <= n - m
<1> DEFINE f == [i \in (m + 1)..n |-> h[i]]
<1>1. IsFiniteSet((m + 1)..n) /\ (m <= n => Cardinality((m + 1)..n) = n - m)
  <2>1. /\ IsFiniteSet((m + 1)..n)
        /\ Cardinality((m + 1)..n) = IF m + 1 > n THEN 0 ELSE n - (m + 1) + 1
    BY FS_Interval
  <2>2. m <= n => (IF m + 1 > n THEN 0 ELSE n - (m + 1) + 1) = n - m
    OBVIOUS
  <2> QED
    BY <2>1, <2>2
<1>2. f \in Surjection((m + 1)..n, Stretch(h, m, n))
  BY DEF Surjection, Stretch
<1>3. /\ IsFiniteSet(Stretch(h, m, n))
      /\ Cardinality(Stretch(h, m, n)) <= Cardinality((m + 1)..n)
  BY <1>1, <1>2, FS_Surjection
<1> QED
  BY <1>1, <1>3

(***************************************************************************)
(* Orders                                                                  *)
(***************************************************************************)

\* Every member of an ordered finite set has the place that the number of
\* members before it gives it.
LEMMA PlacesOf ==
  ASSUME NEW S, IsFiniteSet(S), NEW below, IsOrder(S, below)
  PROVE  /\ \A a \in S : IsFiniteSet(below[a]) /\ Cardinality(below[a]) \in 0..(Cardinality(S) - 1)
         /\ \A a, b \in S : a \in below[b] <=> Cardinality(below[a]) < Cardinality(below[b])
         /\ \A a, b \in S : Cardinality(below[a]) = Cardinality(below[b]) => a = b
         /\ \A n \in 0..(Cardinality(S) - 1) : \E a \in S : Cardinality(below[a]) = n
<1> DEFINE N == Cardinality(S)
           place == [a \in S |-> Cardinality(below[a])]
<1>1. N \in Nat
  BY FS_CardinalityType
<1>2. ASSUME NEW a \in S
      PROVE  IsFiniteSet(below[a]) /\ Cardinality(below[a]) \in 0..(N - 1)
  <2>1. below[a] \in SUBSET S /\ below[a] # S
    BY DEF IsOrder
  <2>2. IsFiniteSet(below[a]) /\ Cardinality(below[a]) <= N /\ Cardinality(below[a]) # N
    BY <2>1, FS_Subset
  <2>3. Cardinality(below[a]) \in Nat
    BY <2>2, FS_CardinalityType
  <2> QED
    BY <1>1, <2>2, <2>3
<1>3. ASSUME NEW a \in S, NEW b \in S, a \in below[b]
      PROVE  Cardinality(below[a]) < Cardinality(below[b])
  <2>1. below[a] \in SUBSET below[b] /\ below[a] # below[b] /\ IsFiniteSet(below[b])
    BY <1>2, <1>3 DEF IsOrder
  <2>2. Cardinality(below[a]) <= Cardinality(below[b]) /\ Cardinality(below[a]) # Cardinality(below[b])
    BY <2>1, FS_Subset
  <2> QED
    BY <1>2, <2>2
<1>4. \A a, b \in S : a # b => a \in below[b] \/ b \in below[a]
  BY DEF IsOrder
<1>5. \A a, b \in S : Cardinality(below[a]) = Cardinality(below[b]) => a = b
  BY <1>2, <1>3, <1>4
<1>6. \A a, b \in S : a \in below[b] <=> Cardinality(below[a]) < Cardinality(below[b])
  BY <1>2, <1>3, <1>4
<1>7. \A n \in 0..(N - 1) : \E a \in S : Cardinality(below[a]) = n
  <2>1. place \in Injection(S, 0..(N - 1))
    BY <1>2, <1>5 DEF Injection, IsInjective
  <2>2. IsFiniteSet(0..(N - 1)) /\ Cardinality(0..(N - 1)) = N
    BY <1>1, FS_Interval
  <2>3. place \in Surjection(S, 0..(N - 1))
    BY <2>1, <2>2, FS_Injection
  <2> QED
    BY <2>3 DEF Surjection
<1> QED
  BY <1>2, <1>5, <1>6, <1>7

\* InOrder gives every member of S one place, and the places are in order.
LEMMA InOrderIs ==
  ASSUME NEW S, IsFiniteSet(S), NEW below, IsOrder(S, below)
  PROVE  /\ Cardinality(S) \in Nat
         /\ InOrder(S, below) \in [1..Cardinality(S) -> S]
         /\ \A n \in 1..Cardinality(S) : Cardinality(below[InOrder(S, below)[n]]) = n - 1
         /\ \A a \in S : /\ Cardinality(below[a]) + 1 \in 1..Cardinality(S)
                         /\ InOrder(S, below)[Cardinality(below[a]) + 1] = a
         /\ \A m, n \in 1..Cardinality(S) :
              m < n <=> InOrder(S, below)[m] \in below[InOrder(S, below)[n]]
<1> DEFINE N == Cardinality(S)
           f == InOrder(S, below)
<1>1. N \in Nat
  BY FS_CardinalityType
<1>2. ASSUME NEW n \in 1..N
      PROVE  f[n] \in S /\ Cardinality(below[f[n]]) = n - 1
  <2>1. \E a \in S : Cardinality(below[a]) = n - 1
    <3>1. n - 1 \in 0..(N - 1)
      BY <1>1
    <3> QED
      BY <3>1, PlacesOf
  <2>2. f[n] = CHOOSE a \in S : Cardinality(below[a]) = n - 1
    BY DEF InOrder
  <2> HIDE DEF f
  <2> QED
    BY <2>1, <2>2
<1>3. f \in [1..N -> S]
  BY <1>2 DEF InOrder
<1>4. ASSUME NEW a \in S
      PROVE  Cardinality(below[a]) + 1 \in 1..N /\ f[Cardinality(below[a]) + 1] = a
  <2> DEFINE n == Cardinality(below[a]) + 1
  <2>1. n \in 1..N /\ Cardinality(below[a]) = n - 1
    BY <1>1, PlacesOf
  <2>2. f[n] \in S /\ Cardinality(below[f[n]]) = n - 1
    BY <1>2, <2>1
  <2> HIDE DEF f
  <2> QED
    BY <2>1, <2>2, PlacesOf
<1> HIDE DEF f
<1>5. \A m, n \in 1..N : m < n <=> f[m] \in below[f[n]]
  BY <1>1, <1>2, PlacesOf
<1> QED
  BY <1>1, <1>2, <1>3, <1>4, <1>5 DEF f

\* f lists the N members of S in their order.
Lists(f, N, S, below) ==
  /\ N \in Nat /\ f \in [1..N -> S]
  /\ \A a \in S : \E n \in 1..N : f[n] = a
  /\ \A m, n \in 1..N : m < n => f[m] \in below[f[n]]

\* A sequence that lists the members of S in their order is InOrder.
LEMMA InOrderOnly ==
  ASSUME NEW S, IsFiniteSet(S), NEW below, IsOrder(S, below), NEW N, NEW f, Lists(f, N, S, below)
  PROVE  N = Cardinality(S) /\ f = InOrder(S, below)
<1> USE DEF Lists
<1>1. \A a \in S : a \notin below[a] /\ \A b \in S : b \in below[a] => a \notin below[b]
  BY DEF IsOrder
<1>2. \A m, n \in 1..N : m < n <=> f[m] \in below[f[n]]
  <2>1. \A m, n \in 1..N : m < n \/ m = n \/ n < m
    OBVIOUS
  <2> QED
    BY <1>1, <2>1
<1>3. f \in Bijection(1..N, S)
  <2>1. \A m, n \in 1..N : f[m] = f[n] => m = n
    <3>1. \A m, n \in 1..N : m # n => m < n \/ n < m
      OBVIOUS
    <3> QED
      BY <1>1, <1>2, <3>1
  <2>2. f \in Injection(1..N, S)
    BY <2>1 DEF Injection, IsInjective
  <2> QED
    BY <2>2 DEF Bijection, Surjection
<1>4. Cardinality(S) = N
  BY <1>3, FS_CountingElements DEF ExistsBijection
<1>5. ASSUME NEW n \in 1..N
      PROVE  Cardinality(below[f[n]]) = n - 1
  <2> DEFINE g == [m \in 1..(n - 1) |-> f[m]]
  <2>1. below[f[n]] \subseteq S
    BY DEF IsOrder
  <2>2. \A a \in below[f[n]] : \E m \in 1..(n - 1) : f[m] = a
    <3> SUFFICES ASSUME NEW a \in below[f[n]] PROVE \E m \in 1..(n - 1) : f[m] = a
      OBVIOUS
    <3>1. PICK m \in 1..N : f[m] = a
      BY <2>1
    <3>2. m < n
      BY <1>2, <3>1
    <3> QED
      BY <3>1, <3>2
  <2>3. g \in Bijection(1..(n - 1), below[f[n]])
    <3>1. \A m \in 1..(n - 1) : m \in 1..N /\ f[m] \in below[f[n]]
      BY <1>2
    <3>2. g \in [1..(n - 1) -> below[f[n]]]
      BY <3>1
    <3>3. \A m, k \in 1..(n - 1) : g[m] = g[k] => m = k
      BY <1>3, <3>1 DEF Bijection, Injection, IsInjective
    <3>4. \A a \in below[f[n]] : \E m \in 1..(n - 1) : g[m] = a
      BY <2>2
    <3> HIDE DEF g
    <3> QED
      BY <3>2, <3>3, <3>4 DEF Bijection, Injection, Surjection, IsInjective
  <2> QED
    BY <2>3, FS_CountingElements DEF ExistsBijection
<1>6. \A n \in 1..N : f[n] = InOrder(S, below)[n]
  <2> SUFFICES ASSUME NEW n \in 1..N PROVE f[n] = InOrder(S, below)[n]
    OBVIOUS
  <2>1. InOrder(S, below)[Cardinality(below[f[n]]) + 1] = f[n]
    BY InOrderIs
  <2> QED
    BY <1>5, <2>1
<1>7. InOrder(S, below) \in [1..N -> S]
  BY <1>4, InOrderIs
<1> QED
  BY <1>4, <1>6, <1>7

\* Less orders numbers by <.
LEMMA LessIsOrder ==
  ASSUME NEW S \in SUBSET Int
  PROVE  IsOrder(S, Less(S)) /\ \A a, b \in S : a \in Less(S)[b] <=> a < b
<1> DEFINE below == Less(S)
<1>1. \A a, b \in S : a \in below[b] <=> a < b
  BY DEF Less
<1>2. \A a \in S : below[a] \subseteq S
  BY DEF Less
<1> HIDE DEF below
<1>3. \A a, b \in S : a \in Int /\ b \in Int
  OBVIOUS
<1>4. \A a \in S : a \notin below[a]
  BY <1>1, <1>3
<1>5. \A a, b \in S : a # b => a \in below[b] \/ b \in below[a]
  BY <1>1, <1>3
<1>6. ASSUME NEW a \in S, NEW b \in S, a \in below[b]
      PROVE  below[a] \subseteq below[b]
  <2> SUFFICES ASSUME NEW c \in below[a] PROVE c \in below[b]
    OBVIOUS
  <2>1. c \in S /\ c < a /\ a < b
    BY <1>1, <1>2, <1>6
  <2> QED
    BY <1>1, <1>3, <2>1
<1>7. IsOrder(S, below)
  BY <1>2, <1>4, <1>5, <1>6 DEF IsOrder
<1> QED
  BY <1>1, <1>7 DEF below

\* A key that is looked at first leaves an order one.
LEMMA KeyedIsOrder ==
  ASSUME NEW S, NEW key, \A a \in S : key[a] \in Int, NEW below, IsOrder(S, below)
  PROVE  /\ IsOrder(S, Keyed(S, key, below))
         /\ \A a, b \in S : b \in Keyed(S, key, below)[a]
                             <=> key[b] < key[a] \/ (key[b] = key[a] /\ b \in below[a])
<1> DEFINE B == Keyed(S, key, below)
<1>1. \A a, b \in S : b \in B[a] <=> key[b] < key[a] \/ (key[b] = key[a] /\ b \in below[a])
  BY DEF Keyed
<1>2. \A a \in S : B[a] \subseteq S
  BY DEF Keyed
<1> HIDE DEF B
<1>3. \A a \in S : a \notin B[a]
  BY <1>1 DEF IsOrder
<1>4. \A a, b \in S : a # b => a \in B[b] \/ b \in B[a]
  BY <1>1 DEF IsOrder
<1>5. ASSUME NEW a \in S, NEW b \in S, a \in B[b]
      PROVE  B[a] \subseteq B[b]
  <2> SUFFICES ASSUME NEW c \in B[a] PROVE c \in B[b]
    OBVIOUS
  <2>1. /\ c \in S
        /\ key[c] < key[a] \/ (key[c] = key[a] /\ c \in below[a])
        /\ key[a] < key[b] \/ (key[a] = key[b] /\ a \in below[b])
    BY <1>1, <1>2, <1>5
  <2>2. a \in below[b] /\ c \in below[a] => c \in below[b]
    BY DEF IsOrder
  <2>3. key[a] \in Int /\ key[b] \in Int /\ key[c] \in Int
    BY <2>1
  <2>4. key[c] < key[b] \/ (key[c] = key[b] /\ c \in below[b])
    BY <2>1, <2>2, <2>3
  <2> QED
    BY <1>1, <2>1, <2>4
<1>6. IsOrder(S, B)
  BY <1>2, <1>3, <1>4, <1>5 DEF IsOrder
<1> QED
  BY <1>1, <1>6 DEF B

\* Upwards lists a set of numbers from the smallest on, ...
LEMMA UpwardsIs ==
  ASSUME NEW S \in SUBSET Int, IsFiniteSet(S)
  PROVE  /\ Cardinality(S) \in Nat
         /\ Upwards(S) \in [1..Cardinality(S) -> S]
         /\ \A i \in S : \E n \in 1..Cardinality(S) : Upwards(S)[n] = i
         /\ \A m, n \in 1..Cardinality(S) : m < n <=> Upwards(S)[m] < Upwards(S)[n]
<1> DEFINE below == Less(S)
           N == Cardinality(S)
<1>1. IsOrder(S, below) /\ \A i, j \in S : i \in below[j] <=> i < j
  BY LessIsOrder
<1> HIDE DEF below
<1>2. /\ N \in Nat
      /\ InOrder(S, below) \in [1..N -> S]
      /\ \A a \in S : /\ Cardinality(below[a]) + 1 \in 1..N
                      /\ InOrder(S, below)[Cardinality(below[a]) + 1] = a
      /\ \A m, n \in 1..N : m < n <=> InOrder(S, below)[m] \in below[InOrder(S, below)[n]]
  BY <1>1, InOrderIs
<1> HIDE DEF N
<1>3. \A i \in S : \E n \in 1..N : InOrder(S, below)[n] = i
  BY <1>2
<1>4. \A m, n \in 1..N : m < n <=> InOrder(S, below)[m] < InOrder(S, below)[n]
  BY <1>1, <1>2
<1> QED
  BY <1>2, <1>3, <1>4 DEF N, Upwards, below

\* A finite set of numbers has a least and a greatest member.
LEMMA LeastOf ==
  ASSUME NEW S \in SUBSET Int, IsFiniteSet(S), S # {}
  PROVE  /\ Min(S) \in S /\ \A i \in S : Min(S) <= i
         /\ Max(S) \in S /\ \A i \in S : Max(S) >= i
<1> DEFINE N == Cardinality(S)
           u == Upwards(S)
<1>1. /\ N \in Nat /\ u \in [1..N -> S]
      /\ \A i \in S : \E n \in 1..N : u[n] = i
      /\ \A m, n \in 1..N : m < n <=> u[m] < u[n]
  BY UpwardsIs
<1> HIDE DEF N, u
<1>2. N # 0
  <2>1. PICK i \in S : TRUE
    OBVIOUS
  <2>2. PICK n \in 1..N : u[n] = i
    BY <1>1
  <2> QED
    BY <1>1, <2>2
<1>3. 1 \in 1..N /\ N \in 1..N
  BY <1>1, <1>2
<1>4. \A n \in 1..N : u[n] \in S /\ u[n] \in Int
  BY <1>1
<1>5. \A i \in S : u[1] <= i /\ u[N] >= i
  <2> SUFFICES ASSUME NEW i \in S PROVE u[1] <= i /\ u[N] >= i
    OBVIOUS
  <2>1. PICK n \in 1..N : u[n] = i
    BY <1>1
  <2>2. ~(n < 1) /\ ~(N < n)
    BY <1>1
  <2>3. ~(u[n] < u[1]) /\ ~(u[N] < u[n])
    BY <1>1, <1>3, <2>2
  <2> QED
    BY <1>3, <1>4, <2>1, <2>3
<1>6. u[1] \in S /\ u[N] \in S
  BY <1>3, <1>4
<1> QED
  BY <1>5, <1>6 DEF Min, Max

\* ... and is the only sequence that does.
LEMMA UpwardsOnly ==
  ASSUME NEW S \in SUBSET Int, IsFiniteSet(S), NEW N \in Nat, NEW f \in [1..N -> S],
         \A a \in S : \E n \in 1..N : f[n] = a,
         \A m, n \in 1..N : m < n => f[m] < f[n]
  PROVE  N = Cardinality(S) /\ f = Upwards(S)
<1>1. IsOrder(S, Less(S)) /\ \A i, j \in S : i \in Less(S)[j] <=> i < j
  BY LessIsOrder
<1>2. \A m, n \in 1..N : m < n => f[m] \in Less(S)[f[n]]
  <2>1. \A n \in 1..N : f[n] \in S
    OBVIOUS
  <2> QED
    BY <1>1, <2>1
<1>3. Lists(f, N, S, Less(S))
  BY <1>2 DEF Lists
<1>4. N = Cardinality(S) /\ f = InOrder(S, Less(S))
  BY <1>1, <1>3, InOrderOnly
<1> QED
  BY <1>4 DEF Upwards

\* A sequence has finitely many elements, no more than it has places.
LEMMA RangeFinite ==
  ASSUME NEW T, NEW s \in Seq(T)
  PROVE  /\ IsFiniteSet(Range(s)) /\ Range(s) \subseteq T
         /\ Cardinality(Range(s)) \in Nat /\ Cardinality(Range(s)) <= Len(s)
<1> DEFINE D == 1..Len(s)
           f == [i \in D |-> s[i]]
<1>1. Len(s) \in Nat /\ DOMAIN s = D
  OBVIOUS
<1>2. IsFiniteSet(D) /\ Cardinality(D) = Len(s)
  BY <1>1, FS_Interval
<1>3. f \in Surjection(D, Range(s))
  BY <1>1 DEF Range, Surjection
<1>4. IsFiniteSet(Range(s)) /\ Cardinality(Range(s)) <= Len(s)
  BY <1>2, <1>3, FS_Surjection
<1>5. \A i \in D : s[i] \in T
  OBVIOUS
<1>6. Range(s) \subseteq T
  BY <1>1, <1>5 DEF Range
<1> QED
  BY <1>4, <1>6, FS_CardinalityType

\* Picking takes the kept elements of a sequence in their order.
LEMMA PickedIs ==
  ASSUME NEW T, NEW s \in Seq(T), NEW keep \in SUBSET (1..Len(s))
  PROVE  /\ IsFiniteSet(keep) /\ Cardinality(keep) \in Nat /\ Cardinality(keep) <= Len(s)
         /\ Picked(s, keep) \in Seq(T) /\ Len(Picked(s, keep)) = Cardinality(keep)
         /\ Upwards(keep) \in [1..Cardinality(keep) -> keep]
         /\ \A n \in 1..Cardinality(keep) : Picked(s, keep)[n] = s[Upwards(keep)[n]]
         /\ \A i \in keep : \E n \in 1..Cardinality(keep) : Upwards(keep)[n] = i
         /\ \A m, n \in 1..Cardinality(keep) : m < n <=> Upwards(keep)[m] < Upwards(keep)[n]
<1>1. IsFiniteSet(1..Len(s)) /\ Cardinality(1..Len(s)) = Len(s)
  <2>1. Len(s) \in Nat
    OBVIOUS
  <2> QED
    BY <2>1, FS_Interval
<1>2. IsFiniteSet(keep) /\ Cardinality(keep) <= Len(s)
  BY <1>1, FS_Subset
<1>3. keep \in SUBSET Int
  OBVIOUS
<1> DEFINE K == Cardinality(keep)
           u == Upwards(keep)
<1>4. /\ K \in Nat /\ u \in [1..K -> keep]
      /\ \A i \in keep : \E n \in 1..K : u[n] = i
      /\ \A m, n \in 1..K : m < n <=> u[m] < u[n]
  BY <1>2, <1>3, UpwardsIs
<1>5. Picked(s, keep) = [n \in 1..K |-> s[u[n]]]
  BY DEF Picked
<1> HIDE DEF K, u
<1>6. \A n \in 1..K : s[u[n]] \in T
  <2>1. \A i \in 1..Len(s) : s[i] \in T
    OBVIOUS
  <2> QED
    BY <1>4, <2>1
<1>7. [n \in 1..K |-> s[u[n]]] \in [1..K -> T]
  BY <1>6
<1>8. Picked(s, keep) \in Seq(T) /\ Len(Picked(s, keep)) = K
  BY <1>4, <1>5, <1>7
<1>9. \A n \in 1..K : Picked(s, keep)[n] = s[u[n]]
  BY <1>5
<1> QED
  BY <1>2, <1>4, <1>8, <1>9 DEF K, u

(* A bounded set of numbers that is not empty has a minimum: were there      *)
(* none, counting down would map the numbers above its members, one to one,  *)
(* into themselves without the last.                                         *)
LEMMA BoundedMin ==
  ASSUME NEW n \in Nat, NEW S \in SUBSET (0..n), S # {}
  PROVE  Min(S) \in S
<1> DEFINE Up == {k \in 0..n : \E j \in S : j <= k}
           down == [k \in Up |-> k - 1]
<1>1. SUFFICES ASSUME \A x \in S : \E y \in S : ~(x <= y) PROVE FALSE
  BY DEF Min
<1>2. n \in Up
  <2>1. PICK j \in S : TRUE
    OBVIOUS
  <2>2. j \in 0..n /\ j <= n /\ n \in 0..n
    OBVIOUS
  <2> QED
    BY <2>1, <2>2
<1>3. \A k \in Up : k - 1 \in Up \ {n} /\ k \in Int
  <2> SUFFICES ASSUME NEW k \in Up PROVE k - 1 \in Up \ {n} /\ k \in Int
    OBVIOUS
  <2>1. PICK j \in S : j <= k
    OBVIOUS
  <2>2. PICK i \in S : ~(j <= i)
    BY <1>1
  <2>3. i \in 0..n /\ j \in 0..n /\ k \in 0..n
    OBVIOUS
  <2> QED
    BY <2>1, <2>2, <2>3
<1>4. Up \in SUBSET (0..n)
  OBVIOUS
<1> HIDE DEF Up
<1>5. down \in [Up -> Up \ {n}]
  BY <1>3
<1>6. IsFiniteSet(Up)
  <2>1. IsFiniteSet(0..n)
    BY FS_Interval
  <2> QED
    BY <1>4, <2>1, FS_Subset
<1>7. /\ IsFiniteSet(Up \ {n}) /\ Cardinality(Up) \in Nat
      /\ Cardinality(Up \ {n}) = Cardinality(Up) - 1
  BY <1>2, <1>6, FS_RemoveElement, FS_CardinalityType
<1>8. Cardinality(Up \ {n}) < Cardinality(Up)
  BY <1>7
<1> HIDE DEF down
<1>9. PICK x, y \in Up : x # y /\ down[x] = down[y]
  BY <1>5, <1>6, <1>7, <1>8, FS_PigeonHole
<1> QED
  BY <1>3, <1>9 DEF down

\* The largest of some of the first numbers exists.
LEMMA BoundedMax ==
  ASSUME NEW n \in Nat, NEW S \in SUBSET (0..n), S # {}
  PROVE  Max(S) \in S /\ \A y \in S : Max(S) >= y
<1> DEFINE From(k) == {j \in S : j >= k}
           Tails == {From(k) : k \in S}
<1>1. IsFiniteSet(S)
  <2>1. IsFiniteSet(0..n)
    BY FS_Interval
  <2> QED
    BY <2>1, FS_Subset
<1>2. Tails \in SUBSET (SUBSET S) /\ Tails # {}
  OBVIOUS
<1>3. PICK T : Minimal(T, Tails)
  BY <1>1, <1>2, Smallest
<1>4. PICK k \in S : T = From(k)
  BY <1>3 DEF Minimal
<1>5. \A y \in S : k >= y
  <2> SUFFICES ASSUME NEW y \in S, ~(k >= y) PROVE FALSE
    OBVIOUS
  <2>1. k \in Nat /\ y \in Nat /\ k < y /\ \A j \in S : j \in Nat
    OBVIOUS
  <2>2. From(y) \in Tails /\ k \in From(k)
    BY <2>1
  <2>3. k \notin From(y) /\ \A j \in From(y) : j \in From(k)
    BY <2>1
  <2> QED
    BY <1>3, <1>4, <2>2, <2>3 DEF Minimal
<1> QED
  BY <1>5 DEF Max

\* The smaller and the larger of two numbers.
LEMMA MinOfTwo ==
  ASSUME NEW a \in Int, NEW b \in Int
  PROVE  /\ Min({a, b}) = IF a <= b THEN a ELSE b
         /\ Max({a, b}) = IF a <= b THEN b ELSE a
<1>1. PICK x \in {a, b} : \A y \in {a, b} : x <= y
  OBVIOUS
<1>2. Min({a, b}) \in {a, b} /\ \A y \in {a, b} : Min({a, b}) <= y
  BY <1>1 DEF Min
<1>3. PICK z \in {a, b} : \A y \in {a, b} : z >= y
  OBVIOUS
<1>4. Max({a, b}) \in {a, b} /\ \A y \in {a, b} : Max({a, b}) >= y
  BY <1>3 DEF Max
<1> HIDE DEF Min, Max
<1> QED
  BY <1>2, <1>4

\* The greatest of numbers, once it is known.
LEMMA MaxOf ==
  ASSUME NEW S \in SUBSET Int, NEW m \in S, \A y \in S : m >= y
  PROVE  Max(S) = m
<1>1. Max(S) \in S /\ \A y \in S : Max(S) >= y
  BY DEF Max
<1> DEFINE M == Max(S)
<1>2. M \in Int /\ m \in Int /\ M >= m /\ m >= M
  <2>1. M \in S /\ \A y \in S : M >= y
    BY <1>1
  <2> HIDE DEF M
  <2> QED
    BY <2>1
<1> HIDE DEF M
<1>3. M = m
  BY <1>2
<1> QED
  BY <1>3 DEF M

\* The least of numbers, once it is known.
LEMMA MinOf ==
  ASSUME NEW S \in SUBSET Int, NEW m \in S, \A y \in S : m <= y
  PROVE  Min(S) = m
<1>1. Min(S) \in S /\ \A y \in S : Min(S) <= y
  BY DEF Min
<1> DEFINE M == Min(S)
<1>2. M \in Int /\ m \in Int /\ M <= m /\ m <= M
  <2>1. M \in S /\ \A y \in S : M <= y
    BY <1>1
  <2> HIDE DEF M
  <2> QED
    BY <2>1
<1> HIDE DEF M
<1>3. M = m
  BY <1>2
<1> QED
  BY <1>3 DEF M

\* Pairs of numbers are ordered by the first and then by the second.
LEMMA LexicalIs ==
  ASSUME NEW P \in SUBSET (Int \X Int)
  PROVE  /\ IsOrder(P, Lexical(P))
         /\ \A x, y \in P : y \in Lexical(P)[x] <=> y[1] < x[1] \/ (y[1] = x[1] /\ y[2] < x[2])
<1> DEFINE below == Lexical(P)
<1>1. \A x, y \in P : y \in below[x] <=> y[1] < x[1] \/ (y[1] = x[1] /\ y[2] < x[2])
  BY DEF Lexical
<1>2. \A x \in P : below[x] \subseteq P
  BY DEF Lexical
<1> HIDE DEF below
<1>3. \A x \in P : x[1] \in Int /\ x[2] \in Int /\ x = <<x[1], x[2]>>
  OBVIOUS
<1>4. \A x \in P : x \notin below[x]
  BY <1>1, <1>3
<1>5. \A x, y \in P : x # y => x \in below[y] \/ y \in below[x]
  BY <1>1, <1>3
<1>6. ASSUME NEW x \in P, NEW y \in P, x \in below[y]
      PROVE  below[x] \subseteq below[y]
  <2> SUFFICES ASSUME NEW z \in P, z \in below[x] PROVE z \in below[y]
    BY <1>2
  <2>1. /\ z[1] < x[1] \/ (z[1] = x[1] /\ z[2] < x[2])
        /\ x[1] < y[1] \/ (x[1] = y[1] /\ x[2] < y[2])
    BY <1>1, <1>6
  <2>2. z[1] < y[1] \/ (z[1] = y[1] /\ z[2] < y[2])
    BY <1>3, <2>1
  <2> QED
    BY <1>1, <2>2
<1>7. IsOrder(P, below)
  BY <1>2, <1>4, <1>5, <1>6 DEF IsOrder
<1> QED
  BY <1>1, <1>7 DEF below

\* The places of sequences are pairs of numbers, and finitely many.
LEMMA CellsIs ==
  ASSUME NEW T, NEW seqs \in Seq(Seq(T))
  PROVE  /\ IsFiniteSet(Cells(seqs)) /\ Cells(seqs) \in SUBSET (Int \X Int)
         /\ \A x \in Cells(seqs) : x[1] \in 1..Len(seqs) /\ x[2] \in 1..Len(seqs[x[1]])
         /\ \A b \in 1..Len(seqs) : \A i \in 1..Len(seqs[b]) : <<b, i>> \in Cells(seqs)
<1>1. /\ DOMAIN seqs = 1..Len(seqs) /\ Len(seqs) \in Nat
      /\ \A b \in 1..Len(seqs) : DOMAIN seqs[b] = 1..Len(seqs[b]) /\ Len(seqs[b]) \in Nat
  OBVIOUS
<1> DEFINE row == [b \in 1..Len(seqs) |-> {b} \X (1..Len(seqs[b]))]
           Rows == {row[b] : b \in 1..Len(seqs)}
<1>2. Cells(seqs) = UNION Rows
  BY <1>1 DEF Cells
<1>3. \A b \in 1..Len(seqs) : IsFiniteSet(row[b])
  <2> SUFFICES ASSUME NEW b \in 1..Len(seqs) PROVE IsFiniteSet(row[b])
    OBVIOUS
  <2>0. 1 \in Int /\ Len(seqs[b]) \in Int
    BY <1>1
  <2>1. IsFiniteSet({b}) /\ IsFiniteSet(1..Len(seqs[b]))
    <3>1. IsFiniteSet({b})
      BY FS_Singleton, Zenon
    <3> QED
      BY <2>0, <3>1, FS_Interval
  <2>2. IsFiniteSet({b} \X (1..Len(seqs[b])))
    BY <2>1, FS_Product
  <2> QED
    BY <2>2
<1>4. IsFiniteSet(Rows)
  <2>1. IsFiniteSet(1..Len(seqs))
    BY <1>1, FS_Interval
  <2>2. row \in Surjection(1..Len(seqs), Rows)
    <3> HIDE DEF row
    <3>1. DOMAIN row = 1..Len(seqs) /\ row = [b \in 1..Len(seqs) |-> row[b]]
      BY DEF row
    <3> QED
      BY <3>1 DEF Surjection
  <2> QED
    BY <2>1, <2>2, FS_Surjection
<1>5. \A r \in Rows : IsFiniteSet(r)
  BY <1>3
<1>6. IsFiniteSet(Cells(seqs))
  <2> HIDE DEF Rows
  <2> QED
    BY <1>2, <1>4, <1>5, FS_UNION
<1>7. \A b \in 1..Len(seqs) : \A i \in 1..Len(seqs[b]) : <<b, i>> \in Cells(seqs)
  BY <1>2
<1>8. \A x \in Cells(seqs) : \E b \in 1..Len(seqs) : \E i \in 1..Len(seqs[b]) : x = <<b, i>>
  BY <1>2
<1>9. \A x \in Cells(seqs) : x[1] \in 1..Len(seqs) /\ x[2] \in 1..Len(seqs[x[1]]) /\ x \in Int \X Int
  <2> SUFFICES ASSUME NEW x \in Cells(seqs)
               PROVE  x[1] \in 1..Len(seqs) /\ x[2] \in 1..Len(seqs[x[1]]) /\ x \in Int \X Int
    OBVIOUS
  <2> PICK b \in 1..Len(seqs) : \E i \in 1..Len(seqs[b]) : x = <<b, i>>
    BY <1>8
  <2> PICK i \in 1..Len(seqs[b]) : x = <<b, i>>
    OBVIOUS
  <2>1. x[1] = b /\ x[2] = i
    OBVIOUS
  <2> QED
    BY <2>1
<1> QED
  BY <1>6, <1>7, <1>9

\* The order of the places, and the place of one.
CellOrder(seqs) == InOrder(Cells(seqs), Lexical(Cells(seqs)))

\* Sequences end to end hold each element where its place comes.
LEMMA EndToEndIs ==
  ASSUME NEW T, NEW seqs \in Seq(Seq(T))
  PROVE  LET N == Cardinality(Cells(seqs))
             f == CellOrder(seqs)
         IN  /\ N \in Nat /\ f \in [1..N -> Cells(seqs)]
             /\ EndToEnd(seqs) \in Seq(T) /\ Len(EndToEnd(seqs)) = N
             /\ \A n \in 1..N : EndToEnd(seqs)[n] = seqs[f[n][1]][f[n][2]]
             /\ \A x \in Cells(seqs) : \E n \in 1..N : f[n] = x
             /\ \A m, n \in 1..N : m < n <=> f[m][1] < f[n][1] \/ (f[m][1] = f[n][1] /\ f[m][2] < f[n][2])
<1> DEFINE P == Cells(seqs)
           below == Lexical(P)
           N == Cardinality(P)
           f == CellOrder(seqs)
           whole == EndToEnd(seqs)
<1>1. /\ IsFiniteSet(P) /\ P \in SUBSET (Int \X Int)
      /\ \A x \in P : x[1] \in 1..Len(seqs) /\ x[2] \in 1..Len(seqs[x[1]])
  BY CellsIs
<1>2. f = InOrder(P, below)
  BY DEF CellOrder
<1>3. whole = [n \in DOMAIN f |-> seqs[f[n][1]][f[n][2]]]
  BY DEF EndToEnd, CellOrder
<1> HIDE DEF P, f, whole
<1>4. /\ IsOrder(P, below)
      /\ \A x, y \in P : y \in below[x] <=> y[1] < x[1] \/ (y[1] = x[1] /\ y[2] < x[2])
  BY <1>1, LexicalIs
<1> HIDE DEF below
<1>5. /\ N \in Nat /\ InOrder(P, below) \in [1..N -> P]
      /\ \A x \in P : Cardinality(below[x]) + 1 \in 1..N /\ InOrder(P, below)[Cardinality(below[x]) + 1] = x
      /\ \A m, n \in 1..N : m < n <=> InOrder(P, below)[m] \in below[InOrder(P, below)[n]]
  BY <1>1, <1>4, InOrderIs
<1> HIDE DEF N
<1>6. f \in [1..N -> P] /\ \A x \in P : \E n \in 1..N : f[n] = x
  BY <1>2, <1>5
<1>7. \A m, n \in 1..N : m < n <=> f[m][1] < f[n][1] \/ (f[m][1] = f[n][1] /\ f[m][2] < f[n][2])
  BY <1>2, <1>4, <1>5, <1>6
<1>8. \A n \in 1..N : seqs[f[n][1]][f[n][2]] \in T
  <2>1. \A b \in 1..Len(seqs) : \A i \in 1..Len(seqs[b]) : seqs[b][i] \in T
    OBVIOUS
  <2> QED
    BY <1>1, <1>6, <2>1
<1>9. DOMAIN f = 1..N
  BY <1>6
<1>10. whole \in Seq(T) /\ Len(whole) = N /\ \A n \in 1..N : whole[n] = seqs[f[n][1]][f[n][2]]
  <2>1. whole \in [1..N -> T]
    BY <1>3, <1>8, <1>9
  <2>2. \A n \in 1..N : whole[n] = seqs[f[n][1]][f[n][2]]
    BY <1>3, <1>9
  <2> QED
    BY <1>5, <2>1, <2>2
<1> QED
  BY <1>5, <1>6, <1>7, <1>10 DEF N, P, f, whole

\* What is picked from what was picked.
LEMMA PickPick ==
  ASSUME NEW T, NEW s \in Seq(T), NEW K \in SUBSET (1..Len(s)), NEW J \in SUBSET (1..Cardinality(K))
  PROVE  /\ Picked(Picked(s, K), J) = Picked(s, {Upwards(K)[j] : j \in J})
         /\ {Upwards(K)[j] : j \in J} \in SUBSET (1..Len(s))
<1> DEFINE u == Upwards(K)
           C == Cardinality(K)
           v == Upwards(J)
           D == Cardinality(J)
           Q == {u[j] : j \in J}
           t == Picked(s, K)
           g == [n \in 1..D |-> u[v[n]]]
<1>1. /\ IsFiniteSet(K) /\ C \in Nat /\ t \in Seq(T) /\ Len(t) = C /\ u \in [1..C -> K]
      /\ \A n \in 1..C : t[n] = s[u[n]]
      /\ \A m, n \in 1..C : m < n <=> u[m] < u[n]
  BY PickedIs
<1> HIDE DEF u, C, t
<1>2. /\ D \in Nat /\ v \in [1..D -> J]
      /\ Picked(t, J) \in Seq(T) /\ Len(Picked(t, J)) = D
      /\ \A n \in 1..D : Picked(t, J)[n] = t[v[n]]
      /\ \A i \in J : \E n \in 1..D : v[n] = i
      /\ \A m, n \in 1..D : m < n <=> v[m] < v[n]
  <2>1. J \in SUBSET (1..Len(t))
    BY <1>1 DEF C
  <2> QED
    BY <1>1, <2>1, PickedIs
<1> HIDE DEF v, D
<1>3. J \in SUBSET (1..C)
  BY DEF C
<1>4. Q \in SUBSET K /\ K \in SUBSET Int
  BY <1>1, <1>3
<1>5. g \in [1..D -> Q]
  BY <1>2
<1>6. \A a \in Q : \E n \in 1..D : g[n] = a
  BY <1>2
<1>7. \A m, n \in 1..D : m < n => g[m] < g[n]
  <2>1. \A n \in 1..D : v[n] \in 1..C
    BY <1>2, <1>3
  <2> QED
    BY <1>1, <1>2, <2>1
<1>8. \A n \in 1..D : Picked(t, J)[n] = s[g[n]]
  BY <1>1, <1>2, <1>3
<1> HIDE DEF g, Q
<1>9. IsFiniteSet(Q) /\ Q \in SUBSET Int
  BY <1>1, <1>4, FS_Subset
<1>10. D = Cardinality(Q) /\ g = Upwards(Q)
  BY <1>2, <1>5, <1>6, <1>7, <1>9, UpwardsOnly
<1>11. Picked(s, Q) = [n \in 1..D |-> s[g[n]]]
  BY <1>10 DEF Picked
<1>12. Picked(t, J) = [n \in 1..D |-> s[g[n]]]
  BY <1>2, <1>8
<1> QED
  BY <1>4, <1>11, <1>12 DEF Q, t, u

\* Some of the sequences end to end are what is picked at their places.
LEMMA EndToEndPicked ==
  ASSUME NEW T, NEW seqs \in Seq(Seq(T)), NEW B \in SUBSET (1..Len(seqs))
  PROVE  EndToEnd(Picked(seqs, B))
           = Picked(EndToEnd(seqs), {n \in 1..Cardinality(Cells(seqs)) : CellOrder(seqs)[n][1] \in B})
<1> DEFINE P == Cells(seqs)
           N == Cardinality(P)
           f == CellOrder(seqs)
           whole == EndToEnd(seqs)
           some == Picked(seqs, B)
           u == Upwards(B)
           C == Cardinality(B)
           P2 == Cells(some)
           N2 == Cardinality(P2)
           f2 == CellOrder(some)
           part == EndToEnd(some)
           J == {n \in 1..N : f[n][1] \in B}
           place(x) == CHOOSE n \in 1..N : f[n] = x
           g == [n \in 1..N2 |-> place(<<u[f2[n][1]], f2[n][2]>>)]
<1>1. /\ N \in Nat /\ f \in [1..N -> P]
      /\ whole \in Seq(T) /\ Len(whole) = N
      /\ \A n \in 1..N : whole[n] = seqs[f[n][1]][f[n][2]]
      /\ \A x \in P : \E n \in 1..N : f[n] = x
      /\ \A m, n \in 1..N : m < n <=> f[m][1] < f[n][1] \/ (f[m][1] = f[n][1] /\ f[m][2] < f[n][2])
  BY EndToEndIs
<1>2. /\ IsFiniteSet(B) /\ C \in Nat /\ some \in Seq(Seq(T)) /\ Len(some) = C
      /\ u \in [1..C -> B]
      /\ \A n \in 1..C : some[n] = seqs[u[n]]
      /\ \A i \in B : \E n \in 1..C : u[n] = i
      /\ \A m, n \in 1..C : m < n <=> u[m] < u[n]
  BY PickedIs
<1>3. /\ N2 \in Nat /\ f2 \in [1..N2 -> P2]
      /\ part \in Seq(T) /\ Len(part) = N2
      /\ \A n \in 1..N2 : part[n] = some[f2[n][1]][f2[n][2]]
      /\ \A x \in P2 : \E n \in 1..N2 : f2[n] = x
      /\ \A m, n \in 1..N2 : m < n <=> f2[m][1] < f2[n][1] \/ (f2[m][1] = f2[n][1] /\ f2[m][2] < f2[n][2])
  <2> HIDE DEF some
  <2> QED
    BY <1>2, EndToEndIs
<1>4. /\ \A x \in P : x[1] \in 1..Len(seqs) /\ x[2] \in 1..Len(seqs[x[1]]) /\ x = <<x[1], x[2]>>
      /\ \A b \in 1..Len(seqs) : \A i \in 1..Len(seqs[b]) : <<b, i>> \in P
  <2>1. P \in SUBSET (Int \X Int)
    BY CellsIs
  <2>2. \A x \in P : x = <<x[1], x[2]>>
    BY <2>1
  <2> HIDE DEF P
  <2> QED
    BY <2>2, CellsIs DEF P
<1>5. /\ \A x \in P2 : x[1] \in 1..Len(some) /\ x[2] \in 1..Len(some[x[1]]) /\ x = <<x[1], x[2]>>
      /\ \A b \in 1..Len(some) : \A i \in 1..Len(some[b]) : <<b, i>> \in P2
  <2> HIDE DEF some
  <2>1. P2 \in SUBSET (Int \X Int)
    BY <1>2, CellsIs
  <2>2. \A x \in P2 : x = <<x[1], x[2]>>
    BY <2>1
  <2>3. /\ \A x \in P2 : x[1] \in 1..Len(some) /\ x[2] \in 1..Len(some[x[1]])
        /\ \A b \in 1..Len(some) : \A i \in 1..Len(some[b]) : <<b, i>> \in P2
    BY <1>2, CellsIs
  <2> HIDE DEF P2
  <2> QED
    BY <2>2, <2>3
<1> HIDE DEF P, N, f, whole, some, u, C, P2, N2, f2, part
<1>6. \A m, n \in 1..C : u[m] = u[n] => m = n
  <2>1. \A n \in 1..C : u[n] \in 1..Len(seqs)
    BY <1>2
  <2>2. \A n \in 1..C : u[n] \in Int
    BY <2>1
  <2>3. \A m, n \in 1..C : m < n \/ m = n \/ n < m
    BY <1>2
  <2> HIDE DEF J, g
  <2>4. \A m, n \in 1..C : m < n => u[m] # u[n]
    BY <1>2, <2>2
  <2> QED
    BY <2>3, <2>4
<1>7. ASSUME NEW x \in P
      PROVE  place(x) \in 1..N /\ f[place(x)] = x
  BY <1>1
<1>8. ASSUME NEW n \in 1..N2
      PROVE  /\ f2[n][1] \in 1..C /\ u[f2[n][1]] \in B
             /\ g[n] \in J /\ f[g[n]] = <<u[f2[n][1]], f2[n][2]>>
             /\ part[n] = whole[g[n]]
  <2> DEFINE x == <<u[f2[n][1]], f2[n][2]>>
  <2>1. f2[n] \in P2
    BY <1>3
  <2>2. f2[n][1] \in 1..C /\ f2[n][2] \in 1..Len(some[f2[n][1]])
    BY <1>2, <1>5, <2>1
  <2>3. u[f2[n][1]] \in B /\ some[f2[n][1]] = seqs[u[f2[n][1]]]
    BY <1>2, <2>2
  <2>4. x \in P
    BY <1>4, <2>2, <2>3
  <2>5. x[1] = u[f2[n][1]] /\ x[2] = f2[n][2] /\ g[n] = place(x)
    OBVIOUS
  <2> HIDE DEF x, g
  <2>6. g[n] \in 1..N /\ f[g[n]] = x
    BY <1>7, <2>4, <2>5
  <2>7. g[n] \in J
    BY <2>3, <2>5, <2>6
  <2>8. part[n] = whole[g[n]]
    <3>1. part[n] = some[f2[n][1]][f2[n][2]]
      BY <1>3
    <3>2. whole[g[n]] = seqs[f[g[n]][1]][f[g[n]][2]]
      BY <1>1, <2>6
    <3> QED
      BY <2>3, <2>5, <2>6, <3>1, <3>2
  <2> QED
    BY <2>2, <2>3, <2>6, <2>7, <2>8 DEF x
<1>9. g \in [1..N2 -> J]
  BY <1>8
<1> HIDE DEF g
<1>10. \A a \in J : \E n \in 1..N2 : g[n] = a
  <2> SUFFICES ASSUME NEW a \in J PROVE \E n \in 1..N2 : g[n] = a
    OBVIOUS
  <2>1. a \in 1..N /\ f[a] \in P /\ f[a][1] \in B
    BY <1>1
  <2>2. PICK b \in 1..C : u[b] = f[a][1]
    BY <1>2, <2>1
  <2>3. f[a][2] \in 1..Len(some[b]) /\ f[a] = <<f[a][1], f[a][2]>>
    BY <1>2, <1>4, <2>1, <2>2
  <2>4. <<b, f[a][2]>> \in P2
    BY <1>2, <1>5, <2>3
  <2>5. PICK n \in 1..N2 : f2[n] = <<b, f[a][2]>>
    BY <1>3, <2>4
  <2>6. f2[n][1] = b /\ f2[n][2] = f[a][2]
    BY <2>5
  <2>7. f[g[n]] = f[a] /\ g[n] \in 1..N
    BY <1>8, <2>2, <2>3, <2>6
  <2>8. ~(g[n] < a) /\ ~(a < g[n])
    <3>1. f[a][1] \in Int /\ f[a][2] \in Int
      BY <1>4, <2>1, <2>3
    <3> QED
      BY <1>1, <2>1, <2>7, <3>1
  <2> QED
    BY <1>1, <2>1, <2>7, <2>8
<1>11. \A m, n \in 1..N2 : m < n => g[m] < g[n]
  <2> SUFFICES ASSUME NEW m \in 1..N2, NEW n \in 1..N2, m < n PROVE g[m] < g[n]
    OBVIOUS
  <2>1. f2[m][1] < f2[n][1] \/ (f2[m][1] = f2[n][1] /\ f2[m][2] < f2[n][2])
    BY <1>3
  <2>2. /\ f2[m][1] \in 1..C /\ f2[n][1] \in 1..C
        /\ f[g[m]] = <<u[f2[m][1]], f2[m][2]>> /\ f[g[n]] = <<u[f2[n][1]], f2[n][2]>>
        /\ g[m] \in 1..N /\ g[n] \in 1..N
    BY <1>8
  <2>3. u[f2[m][1]] < u[f2[n][1]] \/ (u[f2[m][1]] = u[f2[n][1]] /\ f2[m][2] < f2[n][2])
    BY <1>2, <2>1, <2>2
  <2>4. /\ f[g[m]][1] = u[f2[m][1]] /\ f[g[m]][2] = f2[m][2]
        /\ f[g[n]][1] = u[f2[n][1]] /\ f[g[n]][2] = f2[n][2]
    BY <2>2
  <2> QED
    BY <1>1, <2>2, <2>3, <2>4
<1>12. J \in SUBSET (1..N) /\ IsFiniteSet(J) /\ J \in SUBSET Int
  <2>1. J \in SUBSET (1..N)
    OBVIOUS
  <2> HIDE DEF J
  <2>2. 1 \in Int /\ N \in Int
    BY <1>1
  <2>3. IsFiniteSet(1..N)
    BY <2>2, FS_Interval
  <2>4. IsFiniteSet(J)
    BY <2>1, <2>3, FS_Subset
  <2> QED
    BY <2>1, <2>4
<1>13. \A n \in 1..N2 : part[n] = whole[g[n]]
  BY <1>8
<1> HIDE DEF J
<1>14. N2 = Cardinality(J) /\ g = Upwards(J)
  BY <1>3, <1>9, <1>10, <1>11, <1>12, UpwardsOnly
<1>15. Picked(whole, J) = [n \in 1..N2 |-> whole[g[n]]]
  BY <1>14 DEF Picked
<1>16. part = [n \in 1..N2 |-> whole[g[n]]]
  BY <1>3, <1>13
<1> QED
  BY <1>15, <1>16 DEF part, some, whole, J, N, P, f

\* Picking everything changes nothing.
LEMMA PickAll ==
  ASSUME NEW T, NEW s \in Seq(T)
  PROVE  Picked(s, 1..Len(s)) = s
<1> DEFINE N == Len(s)
           K == 1..N
           f == [n \in 1..N |-> n]
<1>1. N \in Nat /\ DOMAIN s = 1..N /\ s = [n \in 1..N |-> s[n]]
  OBVIOUS
<1> HIDE DEF N
<1>2. K \in SUBSET Int /\ 1 \in Int /\ N \in Int
  BY <1>1
<1>3. IsFiniteSet(K)
  BY <1>2, FS_Interval
<1>4. /\ f \in [1..N -> K]
      /\ \A a \in K : \E n \in 1..N : f[n] = a
      /\ \A m, n \in 1..N : m < n => f[m] < f[n]
  OBVIOUS
<1> HIDE DEF K, f
<1>5. N = Cardinality(K) /\ f = Upwards(K)
  BY <1>1, <1>2, <1>3, <1>4, UpwardsOnly
<1>6. Picked(s, K) = [n \in 1..N |-> s[f[n]]]
  BY <1>5 DEF Picked
<1>7. Picked(s, K) = [n \in 1..N |-> s[n]]
  BY <1>6 DEF f
<1> QED
  BY <1>1, <1>7 DEF K, N

\* The places in K where s has a member of G.
Where(s, K, G) == {i \in K : s[i] \in G}

\* Picking the elements of a kind from what was picked.
LEMMA PickWhere ==
  ASSUME NEW T, NEW s \in Seq(T), NEW K \in SUBSET (1..Len(s)), NEW G
  PROVE  /\ Picked(Picked(s, K), Where(Picked(s, K), 1..Cardinality(K), G)) = Picked(s, Where(s, K, G))
         /\ Len(Picked(s, K)) = Cardinality(K) /\ DOMAIN Picked(s, K) = 1..Cardinality(K)
<1> DEFINE t == Picked(s, K)
           C == Cardinality(K)
           u == Upwards(K)
           J == {j \in 1..C : t[j] \in G}
           Q == {u[j] : j \in J}
           W == {i \in K : s[i] \in G}
<1>1. /\ t \in Seq(T) /\ Len(t) = C /\ C \in Nat /\ u \in [1..C -> K]
      /\ \A n \in 1..C : t[n] = s[u[n]]
      /\ \A i \in K : \E n \in 1..C : u[n] = i
  BY PickedIs
<1>2. Picked(t, J) = Picked(s, Q)
  <2>1. J \in SUBSET (1..C)
    OBVIOUS
  <2> HIDE DEF J
  <2> QED
    BY <2>1, PickPick
<1> HIDE DEF t, C, u
<1>3. Q \subseteq W
  BY <1>1
<1>4. W \subseteq Q
  BY <1>1
<1>5. Q = W
  BY <1>3, <1>4
<1>6. DOMAIN t = 1..C
  BY <1>1
<1> QED
  BY <1>1, <1>2, <1>5, <1>6 DEF t, C, u, Where
===============================================================================
