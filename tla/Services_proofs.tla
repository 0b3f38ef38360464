---------------------------- MODULE Services_proofs ----------------------------
(***************************************************************************)
(* Lemmas about the operators the models of the bank's services share:     *)
(* sums over a finite set, the instalment of a loan, the row an UPDATE     *)
(* leaves, and what each call plans to write.  The modules that prove      *)
(* invariants of a component built from Services cite them.                *)
(***************************************************************************)
EXTENDS Services, TLAPS, FiniteSetTheorems, WellFoundedInduction

-------------------------------------------------------------------------------
(* Least elements: induction is the argument about a least counterexample. *)

\* Some relation on the naturals is well founded and contains <.
LEMMA NatOrder == \E R : /\ IsWellFoundedOn(R, Nat)
                         /\ \A x, y \in Nat : x < y => <<x, y>> \in R
<1>1. \A x, y \in Nat : x < y => <<x, y>> \in OpToRel(<, Nat)
  BY DEF OpToRel
<1>2. QED
  BY <1>1, NatLessThanWellFounded, Zenon

\* A set of naturals that is not empty has a least element.
LEMMA LeastNat ==
  ASSUME NEW T, T \subseteq Nat, T # {}
  PROVE  \E n \in T : \A m \in T : n <= m
<1>1. PICK R : /\ IsWellFoundedOn(R, Nat)
               /\ \A x, y \in Nat : x < y => <<x, y>> \in R
  BY NatOrder, Zenon
<1>2. IsWellFoundedOn(R, Nat)
  BY <1>1
<1>3. PICK x \in T : \A y \in T : ~ (<<y, x>> \in R)
  BY <1>2, WFMin
<1>4. ASSUME NEW y \in T PROVE x <= y
  <2>1. x \in Nat /\ y \in Nat /\ ~(y < x)
    BY <1>1, <1>3
  <2>2. QED
    BY <2>1
<1>5. QED
  BY <1>4

\* Of some finite sets one has the fewest elements.
LEMMA LeastSet ==
  ASSUME NEW B, B # {}, \A T \in B : IsFiniteSet(T)
  PROVE  \E T \in B : \A U \in B : Cardinality(T) <= Cardinality(U)
<1> DEFINE N == {Cardinality(T) : T \in B}
<1>1. N \subseteq Nat /\ N # {}
  BY FS_CardinalityType
<1>2. PICK n \in N : \A m \in N : n <= m
  BY <1>1, LeastNat
<1>3. PICK T \in B : n = Cardinality(T)
  OBVIOUS
<1>4. QED
  BY <1>2, <1>3

-------------------------------------------------------------------------------
(* Sums over a finite set *)

Choice(S) == CHOOSE x \in S : TRUE
IsSum(g, f, S) ==
    g = [s \in SUBSET S |-> IF s = {} THEN 0 ELSE f[Choice(s)] + g[s \ {Choice(s)}]]

\* The fold that SumOver is takes its values from such a function, if there is one.
LEMMA SumIsSome ==
  ASSUME NEW f, NEW S, NEW g, IsSum(g, f, S)
  PROVE  \E h : IsSum(h, f, S) /\ SumOver(f, S) = h[S]
BY Zenon DEF SumOver, IsSum, MapThenSumSet, MapThenFoldSet, Choice

LEMMA SumStep ==
  ASSUME NEW f, NEW S, NEW g, IsSum(g, f, S), NEW s \in SUBSET S
  PROVE  g[s] = IF s = {} THEN 0 ELSE f[Choice(s)] + g[s \ {Choice(s)}]
<1> DEFINE F == [r \in SUBSET S |-> IF r = {} THEN 0 ELSE f[Choice(r)] + g[r \ {Choice(r)}]]
<1>1. g = F
  BY Zenon DEF IsSum
<1>2. F[s] = IF s = {} THEN 0 ELSE f[Choice(s)] + g[s \ {Choice(s)}]
  OBVIOUS
<1> HIDE DEF F
<1>3. QED
  BY <1>1, <1>2

\* There is one, on the subsets of at most n elements for every n.
LEMMA SumExists ==
  ASSUME NEW f, NEW S, IsFiniteSet(S)
  PROVE  \E g : IsSum(g, f, S)
<1> DEFINE Term(g, s) == IF s = {} THEN 0 ELSE f[Choice(s)] + g[s \ {Choice(s)}]
           Upto(g, n) == \A s \in SUBSET S : Cardinality(s) <= n => g[s] = Term(g, s)
           B == {n \in Nat : ~ \E g : Upto(g, n)}
<1>1. \A s \in SUBSET S : /\ IsFiniteSet(s) /\ Cardinality(s) \in Nat
                          /\ Cardinality(s) <= Cardinality(S)
                          /\ Cardinality(s) = 0 <=> s = {}
  BY FS_Subset, FS_CardinalityType, FS_EmptySet
<1>2. \A s \in SUBSET S : s # {} =>
        /\ Choice(s) \in s /\ s \ {Choice(s)} \in SUBSET S
        /\ Cardinality(s \ {Choice(s)}) = Cardinality(s) - 1
  BY <1>1, FS_RemoveElement DEF Choice
<1>3. B = {}
  <2>1. SUFFICES ASSUME B # {} PROVE FALSE
    OBVIOUS
  <2>2. PICK n \in B : \A m \in B : n <= m
    BY <2>1, LeastNat
  <2>3. CASE n = 0
    <3> DEFINE z == [s \in SUBSET S |-> 0]
    <3>1. Upto(z, 0)
      BY <1>1
    <3>2. QED
      BY <2>3, <3>1
  <2>4. CASE n # 0
    <3>1. n - 1 \in Nat /\ n - 1 \notin B
      <4>1. n \in Nat
        OBVIOUS
      <4> HIDE DEF B
      <4>2. QED
        BY <2>2, <2>4, <4>1
    <3>2. PICK g : Upto(g, n - 1)
      BY <3>1
    <3> DEFINE h == [s \in SUBSET S |-> Term(g, s)]
    <3>3. ASSUME NEW s \in SUBSET S, Cardinality(s) <= n PROVE h[s] = Term(h, s)
      <4>1. CASE s = {}
        BY <4>1
      <4>2. CASE s # {}
        <5> DEFINE r == s \ {Choice(s)}
        <5>1. r \in SUBSET S /\ Cardinality(r) <= n - 1
          BY <1>1, <1>2, <3>3, <4>2
        <5>2. g[r] = Term(g, r)
          BY <5>1, <3>2
        <5>3. h[r] = g[r]
          BY <5>1, <5>2
        <5>4. h[s] = f[Choice(s)] + g[r]
          BY <4>2
        <5>5. QED
          BY <4>2, <5>3, <5>4
      <4>3. QED
        BY <4>1, <4>2
    <3>4. Upto(h, n)
      BY <3>3
    <3>5. QED
      BY <3>4
  <2>5. QED
    BY <2>3, <2>4
<1>4. PICK g : Upto(g, Cardinality(S))
  BY <1>1, <1>3
<1> DEFINE h == [s \in SUBSET S |-> g[s]]
<1>5. ASSUME NEW s \in SUBSET S PROVE g[s] = Term(h, s)
  BY <1>1, <1>2, <1>4
<1>6. h = [s \in SUBSET S |-> Term(h, s)]
  BY <1>5
<1>7. IsSum(h, f, S)
  BY <1>6 DEF IsSum
<1>8. QED
  BY <1>7

\* Two of them agree on the subsets they share.
LEMMA SumUnique ==
  ASSUME NEW f, NEW S, IsFiniteSet(S), NEW T \in SUBSET S,
         NEW g, IsSum(g, f, S), NEW h, IsSum(h, f, T), NEW U \in SUBSET T
  PROVE  g[U] = h[U]
<1> DEFINE B == {s \in SUBSET T : g[s] # h[s]}
<1>1. SUFFICES ASSUME B # {} PROVE FALSE
  OBVIOUS
<1>2. \A s \in B : IsFiniteSet(s)
  BY FS_Subset
<1>3. PICK s \in B : \A r \in B : Cardinality(s) <= Cardinality(r)
  BY <1>1, <1>2, LeastSet
<1>4. /\ g[s] = IF s = {} THEN 0 ELSE f[Choice(s)] + g[s \ {Choice(s)}]
      /\ h[s] = IF s = {} THEN 0 ELSE f[Choice(s)] + h[s \ {Choice(s)}]
  BY SumStep
<1>5. s # {}
  BY <1>4
<1>6. Choice(s) \in s
  BY <1>5 DEF Choice
<1>7. /\ s \ {Choice(s)} \in SUBSET T
      /\ Cardinality(s \ {Choice(s)}) = Cardinality(s) - 1 /\ Cardinality(s) \in Nat
  BY <1>2, <1>6, FS_RemoveElement, FS_CardinalityType
<1>8. s \ {Choice(s)} \notin B
  BY <1>3, <1>7, FS_CardinalityType
<1>9. QED
  BY <1>4, <1>5, <1>7, <1>8

\* What the definition of a sum says: nothing for the empty set, else one term more.
LEMMA SumUnfold ==
  ASSUME NEW f, NEW S, IsFiniteSet(S)
  PROVE  SumOver(f, S) = IF S = {} THEN 0
                         ELSE f[Choice(S)] + SumOver(f, S \ {Choice(S)})
<1>1. PICK g : IsSum(g, f, S) /\ SumOver(f, S) = g[S]
  BY SumExists, SumIsSome
<1>2. g[S] = IF S = {} THEN 0 ELSE f[Choice(S)] + g[S \ {Choice(S)}]
  BY <1>1, SumStep
<1> DEFINE T == S \ {Choice(S)}
<1>3. T \in SUBSET S /\ IsFiniteSet(T)
  BY FS_Subset
<1>4. PICK h : IsSum(h, f, T) /\ SumOver(f, T) = h[T]
  BY <1>3, SumExists, SumIsSome
<1>5. g[T] = h[T]
  BY <1>1, <1>3, <1>4, SumUnique
<1>6. QED
  BY <1>1, <1>2, <1>4, <1>5

\* A sum of integers is an integer.
LEMMA SumInt ==
  ASSUME NEW f, NEW S, IsFiniteSet(S), \A x \in S : f[x] \in Int
  PROVE  SumOver(f, S) \in Int
<1> DEFINE B == {s \in SUBSET S : SumOver(f, s) \notin Int}
<1>1. SUFFICES ASSUME B # {} PROVE FALSE
  OBVIOUS
<1>2. \A s \in B : IsFiniteSet(s)
  BY FS_Subset
<1>3. PICK s \in B : \A r \in B : Cardinality(s) <= Cardinality(r)
  BY <1>1, <1>2, LeastSet
<1>4. SumOver(f, s) = IF s = {} THEN 0 ELSE f[Choice(s)] + SumOver(f, s \ {Choice(s)})
  BY <1>2, SumUnfold
<1>5. s # {}
  BY <1>4
<1>6. Choice(s) \in s
  BY <1>5 DEF Choice
<1>7. /\ s \ {Choice(s)} \in SUBSET S
      /\ Cardinality(s \ {Choice(s)}) = Cardinality(s) - 1 /\ Cardinality(s) \in Nat
  BY <1>2, <1>6, FS_RemoveElement, FS_CardinalityType
<1>8. s \ {Choice(s)} \notin B
  BY <1>3, <1>7, FS_CardinalityType
<1>9. QED
  BY <1>4, <1>5, <1>6, <1>7, <1>8

\* Any element can be taken out first.
LEMMA SumRemove ==
  ASSUME NEW f, NEW S, IsFiniteSet(S), \A x \in S : f[x] \in Int, NEW a \in S
  PROVE  SumOver(f, S) = f[a] + SumOver(f, S \ {a})
<1> DEFINE Bad(s) == \E x \in s : SumOver(f, s) # f[x] + SumOver(f, s \ {x})
           B == {s \in SUBSET S : Bad(s)}
<1>1. SUFFICES ASSUME B # {} PROVE FALSE
  OBVIOUS
<1>2. \A s \in SUBSET S : IsFiniteSet(s) /\ Cardinality(s) \in Nat /\ SumOver(f, s) \in Int
  BY FS_Subset, FS_CardinalityType, SumInt
<1>3. PICK s \in B : \A r \in B : Cardinality(s) <= Cardinality(r)
  BY <1>1, <1>2, LeastSet
<1>4. PICK x \in s : SumOver(f, s) # f[x] + SumOver(f, s \ {x})
  OBVIOUS
<1> DEFINE c == Choice(s)
<1>5. c \in s /\ SumOver(f, s) = f[c] + SumOver(f, s \ {c})
  BY <1>2, <1>4, SumUnfold DEF Choice
<1>6. x # c
  BY <1>4, <1>5
<1>7. \A y \in s : /\ s \ {y} \in SUBSET S
                   /\ Cardinality(s \ {y}) = Cardinality(s) - 1
  BY <1>2, FS_RemoveElement
<1>8. \A y \in s : ~Bad(s \ {y})
  BY <1>2, <1>3, <1>7
<1>9. SumOver(f, s \ {c}) = f[x] + SumOver(f, (s \ {c}) \ {x})
  BY <1>5, <1>6, <1>8
<1>10. SumOver(f, s \ {x}) = f[c] + SumOver(f, (s \ {x}) \ {c})
  BY <1>5, <1>6, <1>8
<1> DEFINE rest == SumOver(f, (s \ {x}) \ {c})
<1>11. SumOver(f, (s \ {c}) \ {x}) = rest
  <2>1. (s \ {x}) \ {c} = (s \ {c}) \ {x}
    OBVIOUS
  <2>2. QED
    BY <2>1, Zenon
<1>12. /\ f[x] \in Int /\ f[c] \in Int /\ SumOver(f, s) \in Int
       /\ rest \in Int
  BY <1>2, <1>5
<1>13. SumOver(f, s \ {c}) = f[x] + rest /\ SumOver(f, s \ {x}) = f[c] + rest
  BY <1>9, <1>10, <1>11
<1> HIDE DEF B, Bad, c, rest
<1>14. QED
  BY <1>4, <1>5, <1>12, <1>13

\* A sum depends on the terms of its set only.
LEMMA SumSame ==
  ASSUME NEW f, NEW h, NEW S, IsFiniteSet(S), \A x \in S : f[x] = h[x]
  PROVE  SumOver(f, S) = SumOver(h, S)
<1> DEFINE B == {s \in SUBSET S : SumOver(f, s) # SumOver(h, s)}
<1>1. SUFFICES ASSUME B # {} PROVE FALSE
  OBVIOUS
<1>2. \A s \in SUBSET S : IsFiniteSet(s) /\ Cardinality(s) \in Nat
  BY FS_Subset, FS_CardinalityType
<1>3. PICK s \in B : \A r \in B : Cardinality(s) <= Cardinality(r)
  BY <1>1, <1>2, LeastSet
<1>4. /\ SumOver(f, s) = IF s = {} THEN 0 ELSE f[Choice(s)] + SumOver(f, s \ {Choice(s)})
      /\ SumOver(h, s) = IF s = {} THEN 0 ELSE h[Choice(s)] + SumOver(h, s \ {Choice(s)})
  BY <1>2, SumUnfold
<1>5. s # {}
  BY <1>4
<1>6. Choice(s) \in s
  BY <1>5 DEF Choice
<1>7. s \ {Choice(s)} \in SUBSET S /\ Cardinality(s \ {Choice(s)}) = Cardinality(s) - 1
  BY <1>2, <1>6, FS_RemoveElement
<1>8. s \ {Choice(s)} \notin B
  BY <1>2, <1>3, <1>7
<1>9. QED
  BY <1>4, <1>5, <1>6, <1>7, <1>8

\* One term that changes changes the sum by the difference.
LEMMA SumChange ==
  ASSUME NEW f, NEW h, NEW S, IsFiniteSet(S), NEW a \in S,
         \A x \in S : f[x] \in Int /\ h[x] \in Int,
         \A x \in S \ {a} : h[x] = f[x]
  PROVE  /\ SumOver(f, S) \in Int /\ SumOver(h, S) \in Int
         /\ SumOver(h, S) = SumOver(f, S) + h[a] - f[a]
<1>1. /\ SumOver(f, S) = f[a] + SumOver(f, S \ {a})
      /\ SumOver(h, S) = h[a] + SumOver(h, S \ {a})
  BY SumRemove
<1>2. IsFiniteSet(S \ {a})
  BY FS_RemoveElement
<1>3. SumOver(f, S \ {a}) = SumOver(h, S \ {a})
  BY <1>2, SumSame
<1>4. SumOver(f, S \ {a}) \in Int
  BY <1>2, SumInt
<1>5. QED
  BY <1>1, <1>3, <1>4

\* A sequence with one element more has one term more.
LEMMA SumAppend ==
  ASSUME NEW n \in Nat, NEW f, NEW h,
         \A i \in 1 .. n : f[i] \in Int /\ h[i] = f[i], h[n + 1] \in Int
  PROVE  /\ SumOver(f, 1 .. n) \in Int
         /\ SumOver(h, 1 .. (n + 1)) = SumOver(f, 1 .. n) + h[n + 1]
<1>1. IsFiniteSet(1 .. n) /\ IsFiniteSet(1 .. (n + 1))
  BY FS_Interval
<1>2. (1 .. (n + 1)) \ {n + 1} = 1 .. n /\ n + 1 \in 1 .. (n + 1)
  OBVIOUS
<1>3. \A i \in 1 .. (n + 1) : h[i] \in Int
  OBVIOUS
<1>4. SumOver(h, 1 .. (n + 1)) = h[n + 1] + SumOver(h, 1 .. n)
  BY <1>1, <1>2, <1>3, SumRemove
<1>5. SumOver(h, 1 .. n) = SumOver(f, 1 .. n)
  BY <1>1, SumSame
<1>6. SumOver(f, 1 .. n) \in Int
  BY <1>1, SumInt
<1>7. QED
  BY <1>4, <1>5, <1>6

-------------------------------------------------------------------------------
(* The instalment of a loan *)

IsPower(p, k, n) == p = [i \in 0 .. n |-> IF i = 0 THEN 1 ELSE k * p[i - 1]]

LEMMA PowerIsSome ==
  ASSUME NEW k, NEW n, NEW g, IsPower(g, k, n)
  PROVE  \E p : IsPower(p, k, n) /\ Power(k, n) = p[n]
BY Zenon DEF IsPower, Power

LEMMA PowerStep ==
  ASSUME NEW k, NEW n, NEW p, IsPower(p, k, n), NEW i \in 0 .. n
  PROVE  p[i] = IF i = 0 THEN 1 ELSE k * p[i - 1]
<1> DEFINE F == [j \in 0 .. n |-> IF j = 0 THEN 1 ELSE k * p[j - 1]]
<1>1. p = F
  BY Zenon DEF IsPower
<1>2. F[i] = IF i = 0 THEN 1 ELSE k * p[i - 1]
  OBVIOUS
<1> HIDE DEF F
<1>3. QED
  BY <1>1, <1>2

LEMMA PowerExists ==
  ASSUME NEW k
  PROVE  \A n \in Nat : \E p : IsPower(p, k, n)
<1> DEFINE B == {n \in Nat : ~ \E p : IsPower(p, k, n)}
<1>1. SUFFICES ASSUME B # {} PROVE FALSE
  OBVIOUS
<1>2. PICK n \in B : \A m \in B : n <= m
  BY <1>1, LeastNat
<1>3. n \in Nat /\ ~ \E p : IsPower(p, k, n)
  OBVIOUS
<1>4. CASE n = 0
  <2> DEFINE p == [i \in 0 .. 0 |-> 1]
  <2>1. p = [i \in 0 .. 0 |-> IF i = 0 THEN 1 ELSE k * p[i - 1]]
    OBVIOUS
  <2>2. QED
    BY <1>3, <1>4, <2>1 DEF IsPower
<1>5. CASE n # 0
  <2>1. n - 1 \in Nat /\ n - 1 \notin B
    <3> HIDE DEF B
    <3>1. QED
      BY <1>2, <1>3, <1>5
  <2>2. PICK g : IsPower(g, k, n - 1)
    BY <2>1
  <2> DEFINE p == [i \in 0 .. n |-> IF i = 0 THEN 1 ELSE k * g[i - 1]]
  <2>3. ASSUME NEW i \in 0 .. n PROVE p[i] = IF i = 0 THEN 1 ELSE k * p[i - 1]
    <3>1. CASE i = 0
      BY <3>1
    <3>2. CASE i # 0
      <4>1. i - 1 \in 0 .. (n - 1) /\ i - 1 \in 0 .. n
        BY <1>3, <3>2
      <4>2. g[i - 1] = IF i - 1 = 0 THEN 1 ELSE k * g[(i - 1) - 1]
        BY <2>2, <4>1, PowerStep
      <4>3. p[i - 1] = g[i - 1]
        BY <4>1, <4>2
      <4>4. QED
        BY <3>2, <4>3
    <3>3. QED
      BY <3>1, <3>2
  <2>4. p = [i \in 0 .. n |-> IF i = 0 THEN 1 ELSE k * p[i - 1]]
    BY <2>3
  <2>5. QED
    BY <1>3, <2>4 DEF IsPower
<1>6. QED
  BY <1>4, <1>5

LEMMA PowerUnique ==
  ASSUME NEW k, NEW n \in Nat, NEW m \in Nat, NEW p, IsPower(p, k, n), NEW q, IsPower(q, k, m)
  PROVE  \A i \in Nat : i <= n /\ i <= m => p[i] = q[i]
<1> DEFINE B == {i \in Nat : i <= n /\ i <= m /\ p[i] # q[i]}
<1>1. SUFFICES ASSUME B # {} PROVE FALSE
  OBVIOUS
<1>2. PICK i \in B : \A j \in B : i <= j
  BY <1>1, LeastNat
<1>3. i \in 0 .. n /\ i \in 0 .. m /\ i \in Nat /\ p[i] # q[i]
  OBVIOUS
<1>4. /\ p[i] = IF i = 0 THEN 1 ELSE k * p[i - 1]
      /\ q[i] = IF i = 0 THEN 1 ELSE k * q[i - 1]
  BY <1>3, PowerStep
<1>5. i # 0
  BY <1>3, <1>4
<1>6. i - 1 \in Nat /\ i - 1 <= n /\ i - 1 <= m
  BY <1>3, <1>5
<1>7. i - 1 \notin B
  <2> HIDE DEF B
  <2>1. QED
    BY <1>2, <1>3, <1>5
<1>8. QED
  BY <1>3, <1>4, <1>5, <1>6, <1>7

LEMMA PowerUnfold ==
  ASSUME NEW k
  PROVE  /\ Power(k, 0) = 1
         /\ \A n \in Nat : Power(k, n + 1) = k * Power(k, n)
<1>1. ASSUME NEW n \in Nat PROVE \E p : IsPower(p, k, n) /\ Power(k, n) = p[n]
  BY PowerExists, PowerIsSome
<1>2. Power(k, 0) = 1
  <2>1. PICK p : IsPower(p, k, 0) /\ Power(k, 0) = p[0]
    BY <1>1
  <2>2. QED
    BY <2>1, PowerStep
<1>3. ASSUME NEW n \in Nat PROVE Power(k, n + 1) = k * Power(k, n)
  <2>1. PICK p : IsPower(p, k, n) /\ Power(k, n) = p[n]
    BY <1>1
  <2>2. PICK q : IsPower(q, k, n + 1) /\ Power(k, n + 1) = q[n + 1]
    BY <1>1
  <2>3. q[n + 1] = k * q[(n + 1) - 1] /\ (n + 1) - 1 = n
    BY <2>2, PowerStep
  <2>4. q[n] = p[n]
    BY <2>1, <2>2, PowerUnique
  <2>5. QED
    BY <2>1, <2>2, <2>3, <2>4
<1>4. QED
  BY <1>2, <1>3

LEMMA ProductGrows ==
  ASSUME NEW k \in Nat, NEW m \in Nat, m > k, NEW a \in Nat, NEW b \in Nat, a >= b, a > 0
  PROVE  k * b \in Nat /\ m * a \in Nat /\ m * a > k * b
<1>1. k * b \in Nat /\ k * a \in Nat /\ m * a \in Nat
  OBVIOUS
<1>2. k * b <= k * a
  OBVIOUS
<1>3. m * a = k * a + (m - k) * a
  OBVIOUS
<1>4. (m - k) * a > 0
  <2>1. m - k \in Nat /\ m - k > 0
    OBVIOUS
  <2>2. QED
    BY <2>1
<1>5. (m - k) * a \in Int
  OBVIOUS
<1>6. QED
  BY <1>1, <1>2, <1>3, <1>4, <1>5

\* A larger base grows faster, so the denominator of an instalment is positive.
LEMMA PowerGrows ==
  ASSUME NEW k \in Nat, NEW m \in Nat, m > k
  PROVE  \A n \in Nat : /\ Power(k, n) \in Nat /\ Power(m, n) \in Nat
                        /\ Power(m, n) >= Power(k, n) /\ Power(m, n) > 0
                        /\ n > 0 => Power(m, n) > Power(k, n)
<1> DEFINE Grows(n) == /\ Power(k, n) \in Nat /\ Power(m, n) \in Nat
                       /\ Power(m, n) >= Power(k, n) /\ Power(m, n) > 0
                       /\ n > 0 => Power(m, n) > Power(k, n)
           B == {n \in Nat : ~Grows(n)}
<1>1. SUFFICES ASSUME B # {} PROVE FALSE
  OBVIOUS
<1>2. PICK n \in B : \A i \in B : n <= i
  BY <1>1, LeastNat
<1>3. n \in Nat /\ ~Grows(n)
  OBVIOUS
<1>4. CASE n = 0
  BY <1>3, <1>4, PowerUnfold
<1>5. CASE n # 0
  <2>1. n - 1 \in Nat /\ (n - 1) + 1 = n
    BY <1>3, <1>5
  <2>2. n - 1 \notin B
    <3> HIDE DEF B
    <3>1. QED
      BY <1>2, <1>3, <1>5
  <2>3. Grows(n - 1)
    BY <2>1, <2>2
  <2>4. /\ Power(k, (n - 1) + 1) = k * Power(k, n - 1)
        /\ Power(m, (n - 1) + 1) = m * Power(m, n - 1)
    BY <2>1, PowerUnfold
  <2>5. /\ k * Power(k, n - 1) \in Nat /\ m * Power(m, n - 1) \in Nat
        /\ m * Power(m, n - 1) > k * Power(k, n - 1)
    BY <2>3, ProductGrows
  <2>6. QED
    BY <1>3, <2>1, <2>4, <2>5
<1>6. QED
  BY <1>4, <1>5

\* A set of numbers up to a bound has a greatest one.
LEMMA GreatestOf ==
  ASSUME NEW n \in Nat, NEW S \in SUBSET (1 .. n), S # {}
  PROVE  Max(S) \in S
<1> DEFINE B == {m \in Nat : \A x \in S : x <= m}
<1>1. n \in B
  OBVIOUS
<1>2. PICK g \in B : \A m \in B : g <= m
  BY <1>1, LeastNat
<1>3. g \in Nat /\ \A x \in S : x <= g
  OBVIOUS
<1>4. g \in S
  <2>1. SUFFICES ASSUME g \notin S PROVE FALSE
    OBVIOUS
  <2>2. \A x \in S : x \in Nat /\ x > 0 /\ x <= g - 1
    BY <1>3, <2>1
  <2>3. g - 1 \in Nat
    <3>1. PICK x \in S : TRUE
      OBVIOUS
    <3>2. QED
      BY <1>3, <2>2, <3>1
  <2>4. g - 1 \in B
    BY <2>2, <2>3
  <2>5. QED
    <3> HIDE DEF B
    <3>1. QED
      BY <1>2, <1>3, <2>4
<1>5. \E x \in S : \A y \in S : x >= y
  BY <1>3, <1>4
<1>6. QED
  BY <1>5, Zenon DEF Max

\* The fraction is the rate: nothing is rounded away, whatever the rate.
IsMonthlyRate(rate, p, q) == MonthlyRate(rate) = <<p, q>> /\ p * 12000 = rate * q
LEMMA MonthlyRateIsExact ==
  ASSUME NEW rate \in Nat, 0 < rate
  PROVE  \E p, q \in Nat \ {0} : IsMonthlyRate(rate, p, q)
<1> DEFINE S == CommonDivisors(rate, 12000)
           common == Max(S)
<1>1. 1 \in S /\ S \in SUBSET (1 .. rate)
  BY DEF CommonDivisors
<1>2. common \in S
  <2> HIDE DEF S
  <2>1. QED
    BY <1>1, GreatestOf
<1>3. PICK d : d = common
  OBVIOUS
<1>4. d \in 1 .. rate /\ rate % d = 0 /\ 12000 % d = 0
  BY <1>2, <1>3 DEF CommonDivisors
<1>5. PICK p, q : p = rate \div d /\ q = 12000 \div d
  OBVIOUS
<1>6. p \in Nat /\ q \in Nat /\ rate = d * p /\ 12000 = d * q
  BY <1>4, <1>5
<1>7. p # 0 /\ q # 0
  BY <1>4, <1>6
<1>8. p * 12000 = rate * q
  BY <1>4, <1>6
<1>9. MonthlyRate(rate) = <<p, q>>
  <2> HIDE DEF S
  <2>1. MonthlyRate(rate) = <<rate \div common, 12000 \div common>>
    BY DEF MonthlyRate, S
  <2>2. QED
    BY <1>3, <1>5, <2>1
<1>10. p \in Nat \ {0} /\ q \in Nat \ {0} /\ IsMonthlyRate(rate, p, q)
  BY <1>6, <1>7, <1>8, <1>9 DEF IsMonthlyRate
<1>11. QED
  BY <1>10, Zenon

\* Division to the nearest whole number answers at least c / d less a half when the
\* fraction is c / d or more.
LEMMA RoundedIsNear ==
  ASSUME NEW a \in Nat, NEW b \in Nat \ {0}
  PROVE  Rounded(a, b) \in Nat /\ b * (2 * Rounded(a, b) + 1) > 2 * a
<1>1. PICK r : r = Rounded(a, b)
  OBVIOUS
<1>2. r = (2 * a + b) \div (2 * b)
  BY <1>1 DEF Rounded
<1>3. 2 * a + b \in Nat /\ 2 * b \in Nat /\ 2 * b > 0
  OBVIOUS
<1>4. r \in Nat /\ 2 * a + b < (2 * b) * (r + 1)
  BY <1>2, <1>3
<1>5. (2 * b) * (r + 1) = b * (2 * r + 1) + b
  BY <1>4
<1>6. b * (2 * r + 1) \in Int
  BY <1>4
<1>7. QED
  BY <1>1, <1>4, <1>5, <1>6

LEMMA TermsInRange ==
  ASSUME NEW terms \in Terms, OfferedTerms(terms)
  PROVE  /\ terms.principal \in Nat /\ terms.principal > 0
         /\ terms.rate \in Nat /\ 0 < terms.rate /\ terms.rate <= 200
         /\ terms.tenure \in Nat /\ terms.tenure > 0
<1>1. \A type \in DOMAIN LoanProducts :
        /\ LoanProducts[type].max_tenure \in Int
        /\ LoanProducts[type].min_rate \in Nat /\ LoanProducts[type].max_rate \in Nat
        /\ LoanProducts[type].min_rate > 0 /\ LoanProducts[type].max_rate <= 200
  BY DEF LoanProducts
<1>2. QED
  BY <1>1 DEF OfferedTerms, Terms

\* calculate_emi, at any rate and over any tenure, never divides by zero, never answers a
\* negative instalment, and asks, to the half paisa, for no less than the interest of the
\* first month.
THEOREM InstalmentCoversInterest ==
  ASSUME NEW principal \in Nat, NEW rate \in Nat, 0 < rate,
         NEW tenure \in Nat, tenure > 0
  PROVE  /\ Emi(principal, rate, tenure) \in Nat
         /\ 12000 * (2 * Emi(principal, rate, tenure) + 1) > 2 * principal * rate
<1>1. CASE principal = 0
  <2>1. Emi(principal, rate, tenure) = 0
    BY <1>1 DEF Emi
  <2>2. QED
    BY <1>1, <2>1
<1>2. CASE principal > 0
  <2>1. PICK p, q \in Nat \ {0} : MonthlyRate(rate) = <<p, q>> /\ p * 12000 = rate * q
    <3>1. \E p, q \in Nat \ {0} : IsMonthlyRate(rate, p, q)
      BY MonthlyRateIsExact, Zenon
    <3>2. QED
      BY <3>1 DEF IsMonthlyRate
  <2>2. PICK grown, small : grown = Power(q + p, tenure) /\ small = Power(q, tenure)
    OBVIOUS
  <2>3. /\ grown \in Nat /\ small \in Nat /\ grown - small \in Nat \ {0}
    <3>1. q \in Nat /\ q + p \in Nat /\ q + p > q
      BY <2>1
    <3>2. /\ Power(q, tenure) \in Nat /\ Power(q + p, tenure) \in Nat
          /\ Power(q + p, tenure) > Power(q, tenure)
      BY <3>1, PowerGrows
    <3>3. QED
      BY <2>2, <3>2
  <2>4. PICK w : w = grown - small
    OBVIOUS
  <2>5. Emi(principal, rate, tenure) = Rounded(principal * p * grown, q * w)
    BY <1>2, <2>1, <2>2, <2>4 DEF Emi
  <2>6. principal * p \in Nat /\ principal * p * grown \in Nat /\ q * w \in Nat \ {0}
    BY <2>1, <2>3, <2>4
  <2>7. PICK E : E = Emi(principal, rate, tenure)
    OBVIOUS
  <2>8. E \in Nat /\ (q * w) * (2 * E + 1) > 2 * (principal * p * grown)
    BY <2>5, <2>6, <2>7, RoundedIsNear
  <2>9. PICK x, y : x = q * (2 * E + 1) /\ y = 2 * (principal * p)
    OBVIOUS
  <2>10. x \in Nat /\ y \in Nat
    BY <2>1, <2>6, <2>8, <2>9
  <2>11. x > y
    <3>1. w \in Nat /\ w > 0 /\ grown \in Nat /\ grown >= w
      BY <2>3, <2>4
    <3>2. (q * w) * (2 * E + 1) = w * x
      BY <2>1, <2>8, <2>9, <3>1
    <3>3. 2 * (principal * p * grown) = grown * y
      BY <2>6, <2>9, <3>1
    <3>4. w * x > grown * y
      BY <2>8, <3>2, <3>3
    <3>5. SUFFICES ASSUME x <= y PROVE FALSE
      BY <2>10
    <3>6. w * x <= w * y /\ w * y <= grown * y
      BY <2>10, <3>1, <3>5
    <3>7. w * x \in Nat /\ w * y \in Nat /\ grown * y \in Nat
      BY <2>10, <3>1
    <3>8. QED
      BY <3>4, <3>6, <3>7
  <2>12. 12000 * x > 12000 * y
    BY <2>10, <2>11
  <2>13. 12000 * x = q * (12000 * (2 * E + 1))
    BY <2>1, <2>8, <2>9
  <2>14. 12000 * y = q * (2 * principal * rate)
    <3>1. 12000 * y = (2 * principal) * (p * 12000)
      BY <2>1, <2>9
    <3>2. (2 * principal) * (rate * q) = q * (2 * principal * rate)
      BY <2>1
    <3>3. QED
      BY <2>1, <3>1, <3>2
  <2>15. PICK u, v : u = 12000 * (2 * E + 1) /\ v = 2 * principal * rate
    OBVIOUS
  <2>16. u \in Nat /\ v \in Nat /\ q * u > q * v
    BY <2>8, <2>12, <2>13, <2>14, <2>15
  <2>17. u > v
    BY <2>1, <2>16
  <2>18. QED
    BY <2>7, <2>8, <2>15, <2>17
<1>3. QED
  BY <1>1, <1>2

LEMMA TermsHaveInstalment ==
  ASSUME NEW terms \in Terms, OfferedTerms(terms)
  PROVE  /\ terms.principal \in Nat /\ terms.principal > 0
         /\ Emi(terms.principal, terms.rate, terms.tenure) \in Nat
<1>1. PICK principal, rate, tenure : /\ principal = terms.principal /\ rate = terms.rate
                                     /\ tenure = terms.tenure
  OBVIOUS
<1>2. /\ principal \in Nat /\ principal > 0 /\ rate \in Nat /\ 0 < rate
      /\ tenure \in Nat /\ tenure > 0
  BY <1>1, TermsInRange
<1>3. Emi(principal, rate, tenure) \in Nat
  BY <1>2, InstalmentCoversInterest
<1>4. QED
  BY <1>1, <1>2, <1>3

-------------------------------------------------------------------------------
(* Rows: what the repositories assign, and the row an UPDATE leaves *)

AllColumns == [balance : Int, active : BOOLEAN, frozen : BOOLEAN, profile : Nat, password : Nat]
\* <<>> assigns nothing; the others are update(), set_frozen, set_active and delete.
AccountWrites == {<<>>} \cup AllColumns \cup [frozen : BOOLEAN, active : BOOLEAN]
                 \cup [frozen : BOOLEAN] \cup [deleted : BOOLEAN, active : BOOLEAN]
RepaidColumns == [status : LoanStatus, principal : Nat, emi : Nat, paid : Int,
                  remaining : Int, due : Nat]
LoanWrites == {<<>>} \cup LoanRow \cup RepaidColumns
GoalWrites == {<<>>} \cup GoalRow \cup [target : Int, current : Int, completed : BOOLEAN]
              \cup [current : Int, completed : BOOLEAN]

Assigned(cols, seen, stored, c) ==
    IF c \in DOMAIN cols /\ cols[c] # seen[c] THEN cols[c] ELSE stored[c]

LEMMA AccountColumnsOf ==
  ASSUME NEW r \in AccountRow
  PROVE  /\ AccountColumns(r) = [balance |-> r.balance, active |-> r.active,
                frozen |-> r.frozen, profile |-> r.profile, password |-> r.password]
         /\ AccountColumns(r) \in AllColumns
<1>1. AccountColumns(r) = [balance |-> r.balance, active |-> r.active,
                frozen |-> r.frozen, profile |-> r.profile, password |-> r.password]
  BY DEF AccountRow, AccountColumns, Restrict
<1>2. QED
  BY <1>1 DEF AccountRow, AllColumns

LEMMA LoanColumnsOf ==
  ASSUME NEW r \in LoanRow
  PROVE  /\ LoanColumns(r) = [status |-> r.status, principal |-> r.principal, emi |-> r.emi,
                paid |-> r.paid, remaining |-> r.remaining, due |-> r.due]
         /\ LoanColumns(r) \in RepaidColumns
<1>1. LoanColumns(r) = [status |-> r.status, principal |-> r.principal, emi |-> r.emi,
                paid |-> r.paid, remaining |-> r.remaining, due |-> r.due]
  BY DEF LoanRow, LoanColumns, Restrict
<1>2. QED
  BY <1>1 DEF LoanRow, RepaidColumns

\* An UPDATE keeps the columns of the row and decides each on its own.
LEMMA UpdatedAccount ==
  ASSUME NEW r \in AccountRow, NEW cols, NEW seen
  PROVE  UpdateRow(cols, seen, r) =
           [balance |-> Assigned(cols, seen, r, "balance"),
            active |-> Assigned(cols, seen, r, "active"),
            frozen |-> Assigned(cols, seen, r, "frozen"),
            deleted |-> Assigned(cols, seen, r, "deleted"),
            profile |-> Assigned(cols, seen, r, "profile"),
            password |-> Assigned(cols, seen, r, "password")]
BY DEF AccountRow, UpdateRow, Assigned

LEMMA UpdatedLoan ==
  ASSUME NEW r \in LoanRow, NEW cols, NEW seen
  PROVE  UpdateRow(cols, seen, r) =
           [owner |-> Assigned(cols, seen, r, "owner"),
            status |-> Assigned(cols, seen, r, "status"),
            principal |-> Assigned(cols, seen, r, "principal"),
            emi |-> Assigned(cols, seen, r, "emi"),
            paid |-> Assigned(cols, seen, r, "paid"),
            remaining |-> Assigned(cols, seen, r, "remaining"),
            due |-> Assigned(cols, seen, r, "due")]
BY DEF LoanRow, UpdateRow, Assigned

LEMMA UpdatedGoal ==
  ASSUME NEW r \in GoalRow, NEW cols, NEW seen
  PROVE  UpdateRow(cols, seen, r) =
           [exists |-> Assigned(cols, seen, r, "exists"),
            owner |-> Assigned(cols, seen, r, "owner"),
            target |-> Assigned(cols, seen, r, "target"),
            current |-> Assigned(cols, seen, r, "current"),
            completed |-> Assigned(cols, seen, r, "completed")]
BY DEF GoalRow, UpdateRow, Assigned

\* An UPDATE of no column, and a row of the right type after any UPDATE.
LEMMA NothingUpdated ==
  ASSUME NEW r, r = [c \in DOMAIN r |-> r[c]], NEW seen
  PROVE  UpdateRow(<<>>, seen, r) = r
BY DEF UpdateRow

LEMMA AccountRowKept ==
  ASSUME NEW r \in AccountRow, NEW cols \in AccountWrites, NEW seen
  PROVE  /\ UpdateRow(cols, seen, r) \in AccountRow
         /\ UpdateRow(cols, seen, r).balance \in
              {r.balance} \cup (IF "balance" \in DOMAIN cols THEN {cols.balance} ELSE {})
         /\ r.deleted /\ ("deleted" \in DOMAIN cols => cols.deleted)
              => UpdateRow(cols, seen, r).deleted
<1>1. CASE cols = <<>>
  BY <1>1, UpdatedAccount DEF AccountRow, Assigned
<1>2. CASE cols \in AllColumns
  BY <1>2, UpdatedAccount DEF AccountRow, Assigned, AllColumns
<1>3. CASE cols \in [frozen : BOOLEAN, active : BOOLEAN]
  BY <1>3, UpdatedAccount DEF AccountRow, Assigned
<1>4. CASE cols \in [frozen : BOOLEAN]
  BY <1>4, UpdatedAccount DEF AccountRow, Assigned
<1>5. CASE cols \in [deleted : BOOLEAN, active : BOOLEAN]
  BY <1>5, UpdatedAccount DEF AccountRow, Assigned
<1>6. QED
  BY <1>1, <1>2, <1>3, <1>4, <1>5 DEF AccountWrites

LEMMA LoanRowKept ==
  ASSUME NEW r \in LoanRow, NEW cols \in LoanWrites, NEW seen
  PROVE  UpdateRow(cols, seen, r) \in LoanRow
<1>1. CASE cols = <<>>
  BY <1>1, UpdatedLoan DEF LoanRow, Assigned
<1>2. CASE cols \in LoanRow
  BY <1>2, UpdatedLoan DEF LoanRow, Assigned
<1>3. CASE cols \in RepaidColumns
  BY <1>3, UpdatedLoan DEF LoanRow, Assigned, RepaidColumns
<1>4. QED
  BY <1>1, <1>2, <1>3 DEF LoanWrites

LEMMA GoalRowKept ==
  ASSUME NEW r \in GoalRow, NEW cols \in GoalWrites, NEW seen
  PROVE  UpdateRow(cols, seen, r) \in GoalRow
<1>1. CASE cols = <<>>
  BY <1>1, UpdatedGoal DEF GoalRow, Assigned
<1>2. CASE cols \in GoalRow
  BY <1>2, UpdatedGoal DEF GoalRow, Assigned
<1>3. CASE cols \in [target : Int, current : Int, completed : BOOLEAN]
  BY <1>3, UpdatedGoal DEF GoalRow, Assigned
<1>4. CASE cols \in [current : Int, completed : BOOLEAN]
  BY <1>4, UpdatedGoal DEF GoalRow, Assigned
<1>5. QED
  BY <1>1, <1>2, <1>3, <1>4 DEF GoalWrites

-------------------------------------------------------------------------------
(* What the calls plan to write *)

GoodCall(c) ==
    /\ c.op \in Ops /\ c.acc \in Nat /\ c.acc # 0 /\ c.value \in Int /\ c.terms \in Terms
    /\ c.op \in {"profile", "password", "updateGoal"} => c.value >= 0
GoodRows(rows) ==
    /\ rows.account \in AccountRow /\ rows.loan \in LoanRow /\ rows.goal \in GoalRow
    /\ rows.account.balance >= 0 /\ SoundLoan(rows.loan) /\ SoundGoal(rows.goal)

Usable(r) == ~r.deleted /\ CanTransact(r)
MovesBalance(w, r, type, amount) ==
    LET b == EntryFor(r, type, amount).balance IN
    /\ w.account = AccountColumns([r EXCEPT !.balance = b])
    /\ w.entries = <<[type |-> type, amount |-> amount, balance |-> b]>>
Assigns(w, cols) == w.account = cols /\ w.entries = <<>>
GoalIdle(w) == w.goal = <<>> /\ w.adds = 0 /\ w.drops = FALSE

\* What an accepted call writes, one conjunct per operation, with what it checked.
PlanIs(c, rows, w) ==
    /\ w.bumps \in BOOLEAN
    /\ c.op = "deposit" =>
         /\ MovesBalance(w, rows.account, "DEPOSIT", c.value)
         /\ w.loan = <<>>
         /\ GoalIdle(w) /\ w.audit = "none"
         /\ c.value > 0 /\ Usable(rows.account)
    /\ c.op = "withdraw" =>
         /\ MovesBalance(w, rows.account, "WITHDRAW", c.value)
         /\ w.loan = <<>>
         /\ GoalIdle(w) /\ w.audit = "none"
         /\ c.value > 0 /\ c.value <= rows.account.balance /\ Usable(rows.account)
    /\ c.op = "interest" =>
         /\ MovesBalance(w, rows.account, "INTEREST", MonthlyInterest(rows.account.balance))
         /\ w.loan = <<>>
         /\ GoalIdle(w) /\ w.audit = "none"
         /\ MonthlyInterest(rows.account.balance) > 0 /\ Usable(rows.account)
    /\ c.op = "profile" =>
         /\ Assigns(w, AccountColumns([rows.account EXCEPT !.profile = c.value]))
         /\ w.loan = <<>>
         /\ GoalIdle(w) /\ w.audit = "none"
         /\ ~rows.account.deleted
    /\ c.op = "password" =>
         /\ Assigns(w, AccountColumns([rows.account EXCEPT !.password = c.value]))
         /\ w.loan = <<>>
         /\ GoalIdle(w) /\ w.audit = "none"
         /\ ~rows.account.deleted
    /\ c.op = "close" =>
         /\ Assigns(w, AccountColumns([rows.account EXCEPT !.active = FALSE]))
         /\ w.loan = <<>>
         /\ GoalIdle(w) /\ w.audit = "none"
         /\ ~rows.account.deleted
    /\ c.op = "freeze" =>
         /\ Assigns(w, [frozen |-> TRUE, active |-> FALSE])
         /\ w.loan = <<>>
         /\ GoalIdle(w) /\ w.audit = "freeze"
         /\ ~rows.account.deleted
    /\ c.op = "unfreeze" =>
         /\ Assigns(w, [frozen |-> FALSE])
         /\ w.loan = <<>>
         /\ GoalIdle(w) /\ w.audit = "unfreeze"
         /\ ~rows.account.deleted
    /\ c.op = "delete" =>
         /\ Assigns(w, [deleted |-> TRUE, active |-> FALSE])
         /\ w.loan = <<>>
         /\ GoalIdle(w) /\ w.audit = "delete"
         /\ ~rows.account.deleted
    /\ c.op = "apply" =>
         /\ Assigns(w, <<>>)
         /\ w.loan = [owner |-> c.acc, status |-> "PENDING", principal |-> c.terms.principal,
                       emi |-> Emi(c.terms.principal, c.terms.rate, c.terms.tenure),
                       paid |-> 0, remaining |-> c.terms.principal, due |-> 0]
         /\ GoalIdle(w) /\ w.audit = "loan_apply"
         /\ OfferedTerms(c.terms) /\ Usable(rows.account)
    /\ c.op = "approve" =>
         /\ MovesBalance(w, rows.account, "LOAN_DISBURSEMENT", rows.loan.principal)
         /\ w.loan = LoanColumns([rows.loan EXCEPT !.status = "ACTIVE", !.due = 1])
         /\ GoalIdle(w) /\ w.audit = "loan_approve"
         /\ rows.loan.status = "PENDING" /\ Usable(rows.account)
    /\ c.op = "reject" =>
         /\ Assigns(w, <<>>)
         /\ w.loan = LoanColumns([rows.loan EXCEPT !.status = "REJECTED"])
         /\ GoalIdle(w) /\ w.audit = "loan_reject"
         /\ rows.loan.status = "PENDING"
    /\ c.op = "payEmi" =>
         /\ \E payment \in Int :
               /\ payment > 0 /\ payment <= rows.account.balance
               /\ MovesBalance(w, rows.account, "LOAN_REPAYMENT", Min({payment, rows.loan.remaining}))
               /\ w.loan = LoanColumns(RepaidLoan(rows.loan, payment))
         /\ GoalIdle(w) /\ w.audit = "none"
         /\ Repayable(rows.loan) /\ rows.loan.owner = c.acc /\ Usable(rows.account)
    /\ c.op = "createGoal" =>
         /\ Assigns(w, <<>>)
         /\ w.loan = <<>>
         /\ w.goal = [exists |-> TRUE, owner |-> c.acc, target |-> c.value,
                       current |-> 0, completed |-> FALSE] /\ w.adds = 0 /\ w.drops = FALSE /\ w.audit = "none"
         /\ c.value > 0
    /\ c.op = "contribute" =>
         /\ MovesBalance(w, rows.account, "TRANSFER_OUT", c.value)
         /\ w.loan = <<>>
         /\ w.goal = <<>> /\ w.adds = c.value /\ w.drops = FALSE /\ w.audit = "none"
         /\ c.value > 0 /\ c.value <= rows.account.balance /\ ~rows.account.deleted /\ rows.goal.exists
    /\ c.op = "deleteGoal" =>
         /\ IF rows.goal.current > 0 /\ ~rows.account.deleted
            THEN Assigns(w, AccountColumns([rows.account EXCEPT !.balance = @ + rows.goal.current]))
            ELSE Assigns(w, <<>>)
         /\ w.loan = <<>>
         /\ w.goal = <<>> /\ w.adds = 0 /\ w.drops = TRUE /\ w.audit = "none"
         /\ rows.goal.exists
    /\ c.op = "updateGoal" =>
         /\ Assigns(w, <<>>)
         /\ w.loan = <<>>
         /\ w.goal = [target |-> c.value, current |-> rows.goal.current,
                       completed |-> rows.goal.current >= c.value] /\ w.adds = 0 /\ w.drops = FALSE /\ w.audit = "none"
         /\ rows.goal.exists

\* What MoveMoney plans, and that it plans nothing else.
JustMoves(w, r, type, amount) ==
    /\ MovesBalance(w, r, type, amount) /\ GoalIdle(w) /\ w.loan = <<>>
    /\ w.bumps = FALSE /\ w.audit = "none"
    /\ w = [account |-> w.account, whole |-> w.whole, loan |-> w.loan, goal |-> w.goal,
            adds |-> w.adds, drops |-> w.drops, entries |-> w.entries,
            bumps |-> w.bumps, audit |-> w.audit]

LEMMA MoveMoneyMoves ==
  ASSUME NEW r, NEW type, NEW amount
  PROVE  JustMoves(MoveMoney(r, type, amount), r, type, amount)
<1> DEFINE w == MoveMoney(r, type, amount)
<1> DEFINE e == EntryFor(r, type, amount)
           b == e.balance
           row == [r EXCEPT !.balance = b]
<1>1. w = [NoWrites EXCEPT !.account = AccountColumns(row), !.whole = TRUE, !.entries = <<e>>]
  BY Zenon DEF MoveMoney
<1>2. e = [type |-> type, amount |-> amount, balance |-> b]
  BY DEF EntryFor
<1> HIDE DEF e, row, b, w
<1>3. /\ w.account = AccountColumns(row) /\ w.entries = <<e>> /\ w.loan = <<>> /\ w.goal = <<>>
      /\ w.adds = 0 /\ w.drops = FALSE /\ w.bumps = FALSE /\ w.audit = "none"
      /\ w = [account |-> w.account, whole |-> w.whole, loan |-> w.loan, goal |-> w.goal,
              adds |-> w.adds, drops |-> w.drops, entries |-> w.entries,
              bumps |-> w.bumps, audit |-> w.audit]
  BY <1>1 DEF NoWrites
<1>4. w.entries = <<[type |-> type, amount |-> amount, balance |-> b]>>
  BY <1>2, <1>3, Zenon
<1>5. MovesBalance(w, r, type, amount)
  BY <1>3, <1>4, Zenon DEF MovesBalance, e, b, row
<1>6. QED
  BY <1>3, <1>5 DEF GoalIdle, JustMoves, w

LEMMA AcceptedPlan ==
  ASSUME NEW c, GoodCall(c), NEW rows, GoodRows(rows), Decision(c, rows).ok
  PROVE  PlanIs(c, rows, Decision(c, rows).writes)
<1>0. /\ c.value \in Int /\ rows.account.balance \in Int /\ rows.loan.emi \in Int
      /\ MonthlyInterest(rows.account.balance) \in Int
  BY DEF GoodCall, GoodRows, AccountRow, LoanRow, MonthlyInterest
<1> DEFINE w == Decision(c, rows).writes
<1>1. CASE c.op = "deposit"
  <2>1. /\ w = MoveMoney(rows.account, "DEPOSIT", c.value)
        /\ c.value > 0 /\ ~rows.account.deleted /\ CanTransact(rows.account)
    BY <1>0, <1>1 DEF Decision, Movement, Refused, Done
  <2> HIDE DEF w
  <2>2. Usable(rows.account)
    BY <2>1 DEF Usable
  <2>3. JustMoves(w, rows.account, "DEPOSIT", c.value)
    BY <2>1, MoveMoneyMoves, Zenon
  <2>4. /\ MovesBalance(w, rows.account, "DEPOSIT", c.value)
        /\ w.loan = <<>>
        /\ GoalIdle(w) /\ w.audit = "none" /\ w.bumps = FALSE
    BY <2>3, Zenon DEF JustMoves
  <2>5. QED
    BY <1>1, <2>1, <2>2, <2>4 DEF PlanIs, w
<1>2. CASE c.op = "withdraw"
  <2>1. /\ w = MoveMoney(rows.account, "WITHDRAW", c.value)
        /\ c.value > 0 /\ c.value <= rows.account.balance /\ ~rows.account.deleted /\ CanTransact(rows.account)
    BY <1>0, <1>2 DEF Decision, Movement, Refused, Done
  <2> HIDE DEF w
  <2>2. Usable(rows.account)
    BY <2>1 DEF Usable
  <2>3. JustMoves(w, rows.account, "WITHDRAW", c.value)
    BY <2>1, MoveMoneyMoves, Zenon
  <2>4. /\ MovesBalance(w, rows.account, "WITHDRAW", c.value)
        /\ w.loan = <<>>
        /\ GoalIdle(w) /\ w.audit = "none" /\ w.bumps = FALSE
    BY <2>3, Zenon DEF JustMoves
  <2>5. QED
    BY <1>2, <2>1, <2>2, <2>4 DEF PlanIs, w
<1>3. CASE c.op = "interest"
  <2>1. /\ w = MoveMoney(rows.account, "INTEREST", MonthlyInterest(rows.account.balance))
        /\ MonthlyInterest(rows.account.balance) > 0 /\ ~rows.account.deleted /\ CanTransact(rows.account)
    BY <1>0, <1>3 DEF Decision, ApplyInterest, Refused, Done
  <2> HIDE DEF w
  <2>2. Usable(rows.account)
    BY <2>1 DEF Usable
  <2>3. JustMoves(w, rows.account, "INTEREST", MonthlyInterest(rows.account.balance))
    BY <2>1, MoveMoneyMoves, Zenon
  <2>4. /\ MovesBalance(w, rows.account, "INTEREST", MonthlyInterest(rows.account.balance))
        /\ w.loan = <<>>
        /\ GoalIdle(w) /\ w.audit = "none" /\ w.bumps = FALSE
    BY <2>3, Zenon DEF JustMoves
  <2>5. QED
    BY <1>3, <2>1, <2>2, <2>4 DEF PlanIs, w
<1>4. CASE c.op = "profile"
  <2>1. /\ w = UpdateAccount([rows.account EXCEPT !.profile = c.value])
        /\ ~rows.account.deleted
    BY <1>0, <1>4 DEF Decision, UpdateProfile, Refused, Done
  <2> HIDE DEF w
  <2>4. /\ Assigns(w, AccountColumns([rows.account EXCEPT !.profile = c.value]))
        /\ w.loan = <<>>
        /\ GoalIdle(w) /\ w.audit = "none"
        /\ w.bumps \in BOOLEAN
    BY <2>1 DEF Assigns, GoalIdle, NoWrites, UpdateAccount
  <2>5. QED
    BY <1>4, <2>1, <2>4 DEF PlanIs, w
<1>5. CASE c.op = "password"
  <2>1. /\ w = [UpdateAccount([rows.account EXCEPT !.password = c.value]) EXCEPT !.bumps = TRUE]
        /\ ~rows.account.deleted
    BY <1>0, <1>5 DEF Decision, ChangePassword, Refused, Done
  <2> HIDE DEF w
  <2>4. /\ Assigns(w, AccountColumns([rows.account EXCEPT !.password = c.value]))
        /\ w.loan = <<>>
        /\ GoalIdle(w) /\ w.audit = "none"
        /\ w.bumps \in BOOLEAN
    BY <2>1 DEF Assigns, GoalIdle, NoWrites, UpdateAccount
  <2>5. QED
    BY <1>5, <2>1, <2>4 DEF PlanIs, w
<1>6. CASE c.op = "close"
  <2>1. /\ w = UpdateAccount([rows.account EXCEPT !.active = FALSE])
        /\ ~rows.account.deleted
    BY <1>0, <1>6 DEF Decision, CloseAccount, Refused, Done
  <2> HIDE DEF w
  <2>4. /\ Assigns(w, AccountColumns([rows.account EXCEPT !.active = FALSE]))
        /\ w.loan = <<>>
        /\ GoalIdle(w) /\ w.audit = "none"
        /\ w.bumps \in BOOLEAN
    BY <2>1 DEF Assigns, GoalIdle, NoWrites, UpdateAccount
  <2>5. QED
    BY <1>6, <2>1, <2>4 DEF PlanIs, w
<1>7. CASE c.op = "freeze"
  <2>1. /\ w = [NoWrites EXCEPT !.account = [frozen |-> TRUE, active |-> FALSE], !.audit = "freeze"]
        /\ ~rows.account.deleted
    BY <1>0, <1>7 DEF Decision, FreezeAccount, SetColumns, Refused, Done
  <2> HIDE DEF w
  <2>4. /\ Assigns(w, [frozen |-> TRUE, active |-> FALSE])
        /\ w.loan = <<>>
        /\ GoalIdle(w) /\ w.audit = "freeze"
        /\ w.bumps \in BOOLEAN
    BY <2>1 DEF Assigns, GoalIdle, NoWrites, UpdateAccount
  <2>5. QED
    BY <1>7, <2>1, <2>4 DEF PlanIs, w
<1>8. CASE c.op = "unfreeze"
  <2>1. /\ w = [NoWrites EXCEPT !.account = [frozen |-> FALSE], !.audit = "unfreeze"]
        /\ ~rows.account.deleted
    BY <1>0, <1>8 DEF Decision, UnfreezeAccount, SetColumns, Refused, Done
  <2> HIDE DEF w
  <2>4. /\ Assigns(w, [frozen |-> FALSE])
        /\ w.loan = <<>>
        /\ GoalIdle(w) /\ w.audit = "unfreeze"
        /\ w.bumps \in BOOLEAN
    BY <2>1 DEF Assigns, GoalIdle, NoWrites, UpdateAccount
  <2>5. QED
    BY <1>8, <2>1, <2>4 DEF PlanIs, w
<1>9. CASE c.op = "delete"
  <2>1. /\ w = [NoWrites EXCEPT !.account = [deleted |-> TRUE, active |-> FALSE], !.audit = "delete"]
        /\ ~rows.account.deleted
    BY <1>0, <1>9 DEF Decision, DeleteAccount, SetColumns, Refused, Done
  <2> HIDE DEF w
  <2>4. /\ Assigns(w, [deleted |-> TRUE, active |-> FALSE])
        /\ w.loan = <<>>
        /\ GoalIdle(w) /\ w.audit = "delete"
        /\ w.bumps \in BOOLEAN
    BY <2>1 DEF Assigns, GoalIdle, NoWrites, UpdateAccount
  <2>5. QED
    BY <1>9, <2>1, <2>4 DEF PlanIs, w
<1>10. CASE c.op = "apply"
  <2>1. /\ w = [NoWrites EXCEPT
             !.loan = [owner |-> c.acc, status |-> "PENDING", principal |-> c.terms.principal,
                       emi |-> Emi(c.terms.principal, c.terms.rate, c.terms.tenure),
                       paid |-> 0, remaining |-> c.terms.principal, due |-> 0],
             !.audit = "loan_apply"]
        /\ OfferedTerms(c.terms) /\ ~rows.account.deleted /\ CanTransact(rows.account)
    BY <1>0, <1>10 DEF Decision, ApplyLoan, Refused, Done
  <2> HIDE DEF w
  <2>2. Usable(rows.account)
    BY <2>1 DEF Usable
  <2>4. /\ Assigns(w, <<>>)
        /\ w.loan = [owner |-> c.acc, status |-> "PENDING", principal |-> c.terms.principal,
                       emi |-> Emi(c.terms.principal, c.terms.rate, c.terms.tenure),
                       paid |-> 0, remaining |-> c.terms.principal, due |-> 0]
        /\ GoalIdle(w) /\ w.audit = "loan_apply"
        /\ w.bumps \in BOOLEAN
    BY <2>1 DEF Assigns, GoalIdle, NoWrites, UpdateAccount
  <2>5. QED
    BY <1>10, <2>1, <2>2, <2>4 DEF PlanIs, w
<1>11. CASE c.op = "approve"
  <2>1. /\ w = [MoveMoney(rows.account, "LOAN_DISBURSEMENT", rows.loan.principal) EXCEPT
             !.loan = LoanColumns([rows.loan EXCEPT !.status = "ACTIVE", !.due = 1]),
             !.audit = "loan_approve"]
        /\ rows.loan.status = "PENDING" /\ ~rows.account.deleted /\ CanTransact(rows.account)
    BY <1>0, <1>11 DEF Decision, ApproveLoan, Refused, Done
  <2> HIDE DEF w
  <2>2. Usable(rows.account)
    BY <2>1 DEF Usable
  <2> DEFINE moved == MoveMoney(rows.account, "LOAN_DISBURSEMENT", rows.loan.principal)
  <2>3. JustMoves(moved, rows.account, "LOAN_DISBURSEMENT", rows.loan.principal)
    BY MoveMoneyMoves
  <2> HIDE DEF moved
  <2>4. /\ MovesBalance(w, rows.account, "LOAN_DISBURSEMENT", rows.loan.principal)
        /\ w.loan = LoanColumns([rows.loan EXCEPT !.status = "ACTIVE", !.due = 1])
        /\ GoalIdle(w) /\ w.audit = "loan_approve" /\ w.bumps = FALSE
    BY <2>1, <2>3 DEF MovesBalance, GoalIdle, JustMoves, moved
  <2>5. QED
    BY <1>11, <2>1, <2>2, <2>4 DEF PlanIs, w
<1>12. CASE c.op = "reject"
  <2>1. /\ w = [NoWrites EXCEPT !.loan = LoanColumns([rows.loan EXCEPT !.status = "REJECTED"]),
                           !.audit = "loan_reject"]
        /\ rows.loan.status = "PENDING"
    BY <1>0, <1>12 DEF Decision, RejectLoan, Refused, Done
  <2> HIDE DEF w
  <2>4. /\ Assigns(w, <<>>)
        /\ w.loan = LoanColumns([rows.loan EXCEPT !.status = "REJECTED"])
        /\ GoalIdle(w) /\ w.audit = "loan_reject"
        /\ w.bumps \in BOOLEAN
    BY <2>1 DEF Assigns, GoalIdle, NoWrites, UpdateAccount
  <2>5. QED
    BY <1>12, <2>1, <2>4 DEF PlanIs, w
<1>13. CASE c.op = "payEmi"
  <2>1. Decision(c, rows) = PayEmi(rows.loan, rows.account, c.acc, c.value)
    BY <1>13 DEF Decision
  <2> DEFINE paid == IF c.value = 0 THEN rows.loan.emi ELSE c.value
             moved == MoveMoney(rows.account, "LOAN_REPAYMENT", Min({paid, rows.loan.remaining}))
             plan == [moved EXCEPT !.loan = LoanColumns(RepaidLoan(rows.loan, paid))]
  <2>2. Decision(c, rows) =
          IF rows.loan.status = "NONE" THEN Refused("not found")
          ELSE IF ~Repayable(rows.loan) THEN Refused("not active")
          ELSE IF rows.loan.owner # c.acc THEN Refused("not the owner")
          ELSE IF rows.account.deleted THEN Refused("not found")
          ELSE IF ~CanTransact(rows.account) THEN Refused("frozen or closed")
          ELSE IF paid <= 0 THEN Refused("amount")
          ELSE IF paid > rows.account.balance THEN Refused("insufficient")
          ELSE Done(plan)
    BY <2>1, Zenon DEF PayEmi
  <2>3. paid \in Int
    BY <1>0
  <2> HIDE DEF paid, plan
  <2>4. \A why : ~Refused(why).ok
    BY DEF Refused
  <2>5. /\ Repayable(rows.loan) /\ rows.loan.owner = c.acc
        /\ ~rows.account.deleted /\ CanTransact(rows.account)
        /\ ~(paid <= 0) /\ ~(paid > rows.account.balance)
        /\ Decision(c, rows) = Done(plan)
    BY <2>2, <2>4, Zenon
  <2>6. paid > 0 /\ paid <= rows.account.balance
    BY <1>0, <2>3, <2>5
  <2>7. w = plan
    BY <2>5 DEF Done
  <2> HIDE DEF w, moved
  <2>8. JustMoves(moved, rows.account, "LOAN_REPAYMENT", Min({paid, rows.loan.remaining}))
    BY MoveMoneyMoves DEF moved
  <2>9. /\ MovesBalance(w, rows.account, "LOAN_REPAYMENT", Min({paid, rows.loan.remaining}))
        /\ w.loan = LoanColumns(RepaidLoan(rows.loan, paid))
        /\ GoalIdle(w) /\ w.audit = "none" /\ w.bumps = FALSE
    BY <2>7, <2>8 DEF plan, MovesBalance, GoalIdle, JustMoves
  <2>10. Usable(rows.account)
    BY <2>5 DEF Usable
  <2>11. QED
    BY <1>13, <2>3, <2>5, <2>6, <2>9, <2>10 DEF PlanIs, w
<1>14. CASE c.op = "createGoal"
  <2>1. /\ w = [NoWrites EXCEPT !.goal = [exists |-> TRUE, owner |-> c.acc, target |-> c.value,
                                         current |-> 0, completed |-> FALSE]]
        /\ c.value > 0
    BY <1>0, <1>14 DEF Decision, CreateGoal, Refused, Done
  <2> HIDE DEF w
  <2>4. /\ Assigns(w, <<>>)
        /\ w.loan = <<>>
        /\ w.goal = [exists |-> TRUE, owner |-> c.acc, target |-> c.value,
                       current |-> 0, completed |-> FALSE] /\ w.adds = 0 /\ w.drops = FALSE /\ w.audit = "none"
        /\ w.bumps \in BOOLEAN
    BY <2>1 DEF Assigns, GoalIdle, NoWrites, UpdateAccount
  <2>5. QED
    BY <1>14, <2>1, <2>4 DEF PlanIs, w
<1>15. CASE c.op = "contribute"
  <2>1. /\ w = [MoveMoney(rows.account, "TRANSFER_OUT", c.value) EXCEPT !.adds = c.value]
        /\ c.value > 0 /\ c.value <= rows.account.balance /\ ~rows.account.deleted /\ rows.goal.exists
    BY <1>0, <1>15 DEF Decision, Contribute, Refused, Done
  <2> HIDE DEF w
  <2> DEFINE moved == MoveMoney(rows.account, "TRANSFER_OUT", c.value)
  <2>3. JustMoves(moved, rows.account, "TRANSFER_OUT", c.value)
    BY MoveMoneyMoves
  <2> HIDE DEF moved
  <2>4. /\ MovesBalance(w, rows.account, "TRANSFER_OUT", c.value)
        /\ w.loan = <<>>
        /\ w.goal = <<>> /\ w.adds = c.value /\ w.drops = FALSE /\ w.audit = "none" /\ w.bumps = FALSE
    BY <2>1, <2>3 DEF MovesBalance, GoalIdle, JustMoves, moved
  <2>5. QED
    BY <1>15, <2>1, <2>4 DEF PlanIs, w
<1>16. CASE c.op = "deleteGoal"
  <2>1. /\ w = IF rows.goal.current > 0 /\ ~rows.account.deleted
             THEN [UpdateAccount([rows.account EXCEPT !.balance = @ + rows.goal.current]) EXCEPT !.drops = TRUE]
             ELSE [NoWrites EXCEPT !.drops = TRUE]
        /\ rows.goal.exists
    BY <1>0, <1>16 DEF Decision, DeleteGoal, Refused, Done
  <2> HIDE DEF w
  <2>4. /\ IF rows.goal.current > 0 /\ ~rows.account.deleted
            THEN Assigns(w, AccountColumns([rows.account EXCEPT !.balance = @ + rows.goal.current]))
            ELSE Assigns(w, <<>>)
        /\ w.loan = <<>>
        /\ w.goal = <<>> /\ w.adds = 0 /\ w.drops = TRUE /\ w.audit = "none"
        /\ w.bumps \in BOOLEAN
    BY <2>1 DEF Assigns, GoalIdle, NoWrites, UpdateAccount
  <2>5. QED
    BY <1>16, <2>1, <2>4 DEF PlanIs, w
<1>17. CASE c.op = "updateGoal"
  <2>1. /\ w = [NoWrites EXCEPT !.goal = [target |-> c.value, current |-> rows.goal.current,
                                         completed |-> rows.goal.current >= c.value]]
        /\ rows.goal.exists
    BY <1>0, <1>17 DEF Decision, UpdateGoal, Refused, Done
  <2> HIDE DEF w
  <2>4. /\ Assigns(w, <<>>)
        /\ w.loan = <<>>
        /\ w.goal = [target |-> c.value, current |-> rows.goal.current,
                       completed |-> rows.goal.current >= c.value] /\ w.adds = 0 /\ w.drops = FALSE /\ w.audit = "none"
        /\ w.bumps \in BOOLEAN
    BY <2>1 DEF Assigns, GoalIdle, NoWrites, UpdateAccount
  <2>5. QED
    BY <1>17, <2>1, <2>4 DEF PlanIs, w
<1>18. QED
  BY <1>1, <1>2, <1>3, <1>4, <1>5, <1>6, <1>7, <1>8, <1>9, <1>10, <1>11, <1>12, <1>13, <1>14, <1>15, <1>16, <1>17 DEF GoodCall, Ops

LEMMA MinOfTwo ==
  ASSUME NEW a \in Int, NEW b \in Int
  PROVE  Min({a, b}) = IF a <= b THEN a ELSE b
BY DEF Min

\* A payment is capped at the debt, and clears it exactly when it closes the loan.
LEMMA RepaidRow ==
  ASSUME NEW r \in LoanRow, NEW payment \in Int
  PROVE  LET m == Min({payment, r.remaining})
             new == RepaidLoan(r, payment)
         IN  /\ m \in Int /\ m <= payment /\ m <= r.remaining
             /\ new \in LoanRow
             /\ new.owner = r.owner /\ new.principal = r.principal /\ new.emi = r.emi
             /\ new.paid = r.paid + m /\ new.remaining = r.remaining - m
             /\ new.status = IF new.remaining = 0 THEN "CLOSED" ELSE r.status
<1> DEFINE m == Min({payment, r.remaining})
<1>1. m \in Int /\ m <= payment /\ m <= r.remaining
  BY MinOfTwo DEF LoanRow
<1>2. RepaidLoan(r, payment) =
        [r EXCEPT !.paid = r.paid + m,
                  !.remaining = IF r.remaining - m <= 0 THEN 0 ELSE r.remaining - m,
                  !.status = IF r.remaining - m <= 0 THEN "CLOSED" ELSE r.status,
                  !.due = IF r.remaining - m <= 0 THEN 0 ELSE r.due + 1]
  BY DEF RepaidLoan
<1> HIDE DEF m
<1>3. RepaidLoan(r, payment) \in LoanRow
  <2>1. /\ (IF r.remaining - m <= 0 THEN 0 ELSE r.remaining - m) \in Int
        /\ (IF r.remaining - m <= 0 THEN "CLOSED" ELSE r.status) \in LoanStatus
        /\ (IF r.remaining - m <= 0 THEN 0 ELSE r.due + 1) \in Nat
        /\ r.paid + m \in Int
    BY <1>1 DEF LoanRow, LoanStatus
  <2>2. QED
    BY <1>2, <2>1, Zenon DEF LoanRow
<1>4. /\ RepaidLoan(r, payment).owner = r.owner
      /\ RepaidLoan(r, payment).principal = r.principal
      /\ RepaidLoan(r, payment).emi = r.emi
      /\ RepaidLoan(r, payment).paid = r.paid + m
      /\ RepaidLoan(r, payment).remaining = r.remaining - m
      /\ RepaidLoan(r, payment).status = IF r.remaining - m = 0 THEN "CLOSED" ELSE r.status
  BY <1>1, <1>2 DEF LoanRow
<1>5. QED
  BY <1>1, <1>3, <1>4 DEF m

AtMostOne(s) == s = <<>> \/ \E e \in Transaction : s = <<e>>

LEMMA MovesWrites ==
  ASSUME NEW r \in AccountRow, NEW type \in TransactionType, NEW amount \in Int,
         NEW w, MovesBalance(w, r, type, amount)
  PROVE  LET b == IF type \in {"DEPOSIT", "TRANSFER_IN", "INTEREST", "LOAN_DISBURSEMENT"}
                  THEN r.balance + amount ELSE r.balance - amount IN
         /\ b \in Int
         /\ w.account = [balance |-> b, active |-> r.active, frozen |-> r.frozen,
                         profile |-> r.profile, password |-> r.password]
         /\ w.account \in AllColumns
         /\ w.entries = <<[type |-> type, amount |-> amount, balance |-> b]>>
         /\ [type |-> type, amount |-> amount, balance |-> b] \in Transaction
         /\ AtMostOne(w.entries)
<1> DEFINE b == IF type \in {"DEPOSIT", "TRANSFER_IN", "INTEREST", "LOAN_DISBURSEMENT"}
                THEN r.balance + amount ELSE r.balance - amount
           s == [r EXCEPT !.balance = b]
<1>1. b \in Int
  BY DEF AccountRow
<1>2. EntryFor(r, type, amount).balance = b
  BY DEF EntryFor, AccountRow
<1>3. w.account = AccountColumns(s) /\ w.entries = <<[type |-> type, amount |-> amount, balance |-> b]>>
  BY <1>2, Zenon DEF MovesBalance
<1> HIDE DEF b
<1>4. /\ s \in AccountRow /\ s.balance = b /\ s.active = r.active /\ s.frozen = r.frozen
      /\ s.profile = r.profile /\ s.password = r.password
  BY <1>1 DEF AccountRow
<1> HIDE DEF s
<1>5. /\ w.account = [balance |-> s.balance, active |-> s.active, frozen |-> s.frozen,
                      profile |-> s.profile, password |-> s.password]
      /\ w.account \in AllColumns
  BY <1>3, <1>4, AccountColumnsOf
<1>6. w.account = [balance |-> b, active |-> r.active, frozen |-> r.frozen,
                   profile |-> r.profile, password |-> r.password]
  BY <1>4, <1>5
<1>7. [type |-> type, amount |-> amount, balance |-> b] \in Transaction
  BY <1>1 DEF Transaction
<1>8. AtMostOne(w.entries)
  BY <1>3, <1>7, Zenon DEF AtMostOne
<1>9. QED
  BY <1>1, <1>3, <1>5, <1>6, <1>7, <1>8 DEF b

\* The types of an accepted plan, and which tables it may write.
TypedPlan(w) ==
    /\ w.account \in AccountWrites /\ w.loan \in LoanWrites /\ w.goal \in GoalWrites
    /\ w.adds \in Nat /\ w.drops \in BOOLEAN /\ w.bumps \in BOOLEAN
    /\ AtMostOne(w.entries)
ScopedPlan(c, w) ==
    /\ c.op \notin LoanCalls => w.loan = <<>>
    /\ c.op \notin GoalCalls => GoalIdle(w)
    /\ w.audit # "none" <=> c.op \in Audited

\* What holds of the rows every case of the lemmas below uses.
LEMMA RowsTyped ==
  ASSUME NEW c, GoodCall(c), NEW rows, GoodRows(rows)
  PROVE  /\ c.value \in Int /\ c.acc \in Nat /\ c.acc # 0
         /\ rows.account \in AccountRow /\ rows.loan \in LoanRow /\ rows.goal \in GoalRow
         /\ rows.account.balance \in Nat /\ rows.goal.current \in Nat
         /\ rows.goal.exists \in BOOLEAN /\ rows.goal.target \in Int
         /\ rows.loan.principal \in Nat /\ rows.loan.paid \in Int /\ rows.loan.remaining \in Int
         /\ rows.loan.paid + rows.loan.remaining = rows.loan.principal
         /\ MonthlyInterest(rows.account.balance) \in Int
BY DEF GoodCall, GoodRows, AccountRow, LoanRow, GoalRow, SoundLoan, SoundGoal, MonthlyInterest

LEMMA PlanTyped ==
  ASSUME NEW c, GoodCall(c), NEW rows, GoodRows(rows), NEW w, PlanIs(c, rows, w)
  PROVE  TypedPlan(w)
<1>0. /\ c.value \in Int /\ c.acc \in Nat /\ c.acc # 0
      /\ rows.account \in AccountRow /\ rows.loan \in LoanRow /\ rows.goal \in GoalRow
      /\ rows.account.balance \in Nat /\ rows.goal.current \in Nat
      /\ rows.goal.exists \in BOOLEAN /\ rows.goal.target \in Int
      /\ rows.loan.principal \in Int
      /\ MonthlyInterest(rows.account.balance) \in Int
      /\ w.bumps \in BOOLEAN
  BY RowsTyped DEF PlanIs
<1>a. /\ \A x \in AllColumns : x \in AccountWrites
      /\ \A x \in [frozen : BOOLEAN, active : BOOLEAN] : x \in AccountWrites
      /\ \A x \in [frozen : BOOLEAN] : x \in AccountWrites
      /\ \A x \in [deleted : BOOLEAN, active : BOOLEAN] : x \in AccountWrites
      /\ <<>> \in AccountWrites /\ <<>> \in LoanWrites /\ <<>> \in GoalWrites
      /\ \A x \in LoanRow : x \in LoanWrites
      /\ \A x \in RepaidColumns : x \in LoanWrites
      /\ \A x \in GoalRow : x \in GoalWrites
      /\ \A x \in [target : Int, current : Int, completed : BOOLEAN] : x \in GoalWrites
  BY Zenon DEF AccountWrites, LoanWrites, GoalWrites
<1>b. \A s : s = <<>> => AtMostOne(s)
  BY DEF AtMostOne
<1>c. {"DEPOSIT", "WITHDRAW", "INTEREST", "LOAN_DISBURSEMENT", "LOAN_REPAYMENT",
       "TRANSFER_OUT"} \subseteq TransactionType
  BY DEF TransactionType
<1>1. CASE c.op = "deposit"
  <2>1. MovesBalance(w, rows.account, "DEPOSIT", c.value) /\ GoalIdle(w) /\ w.loan = <<>>
    BY <1>1 DEF PlanIs
  <2>4. w.account \in AllColumns /\ AtMostOne(w.entries)
    BY <1>0, <2>1, <1>c, MovesWrites
  <2>5. QED
    <3>1. w.account \in AccountWrites /\ AtMostOne(w.entries)
      BY <1>a, <1>b, <2>1, <2>4, Zenon DEF GoalIdle
    <3>2. w.loan \in LoanWrites /\ w.goal \in GoalWrites
      BY <1>a, <2>1, <2>4, Zenon DEF GoalIdle
    <3>3. w.adds \in Nat
      BY <1>0, <2>1, <2>4 DEF GoalIdle
    <3>4. w.drops \in BOOLEAN
      BY <2>1, <2>4, Zenon DEF GoalIdle
    <3>5. QED
      BY <1>0, <3>1, <3>2, <3>3, <3>4, Zenon DEF TypedPlan
<1>2. CASE c.op = "withdraw"
  <2>1. MovesBalance(w, rows.account, "WITHDRAW", c.value) /\ GoalIdle(w) /\ w.loan = <<>>
    BY <1>2 DEF PlanIs
  <2>4. w.account \in AllColumns /\ AtMostOne(w.entries)
    BY <1>0, <2>1, <1>c, MovesWrites
  <2>5. QED
    <3>1. w.account \in AccountWrites /\ AtMostOne(w.entries)
      BY <1>a, <1>b, <2>1, <2>4, Zenon DEF GoalIdle
    <3>2. w.loan \in LoanWrites /\ w.goal \in GoalWrites
      BY <1>a, <2>1, <2>4, Zenon DEF GoalIdle
    <3>3. w.adds \in Nat
      BY <1>0, <2>1, <2>4 DEF GoalIdle
    <3>4. w.drops \in BOOLEAN
      BY <2>1, <2>4, Zenon DEF GoalIdle
    <3>5. QED
      BY <1>0, <3>1, <3>2, <3>3, <3>4, Zenon DEF TypedPlan
<1>3. CASE c.op = "interest"
  <2>1. MovesBalance(w, rows.account, "INTEREST", MonthlyInterest(rows.account.balance)) /\ GoalIdle(w) /\ w.loan = <<>>
    BY <1>3 DEF PlanIs
  <2>4. w.account \in AllColumns /\ AtMostOne(w.entries)
    BY <1>0, <2>1, <1>c, MovesWrites
  <2>5. QED
    <3>1. w.account \in AccountWrites /\ AtMostOne(w.entries)
      BY <1>a, <1>b, <2>1, <2>4, Zenon DEF GoalIdle
    <3>2. w.loan \in LoanWrites /\ w.goal \in GoalWrites
      BY <1>a, <2>1, <2>4, Zenon DEF GoalIdle
    <3>3. w.adds \in Nat
      BY <1>0, <2>1, <2>4 DEF GoalIdle
    <3>4. w.drops \in BOOLEAN
      BY <2>1, <2>4, Zenon DEF GoalIdle
    <3>5. QED
      BY <1>0, <3>1, <3>2, <3>3, <3>4, Zenon DEF TypedPlan
<1>4. CASE c.op = "profile"
  <2> DEFINE new == [rows.account EXCEPT !.profile = c.value]
  <2>1. Assigns(w, AccountColumns(new)) /\ GoalIdle(w) /\ w.loan = <<>>
    BY <1>4 DEF PlanIs
  <2>2. new \in AccountRow
    BY <1>0, <1>4 DEF AccountRow, GoodCall
  <2>3. w.account \in AllColumns
    BY <2>1, <2>2, AccountColumnsOf DEF Assigns
  <2>4. QED
    <3>1. w.account \in AccountWrites /\ AtMostOne(w.entries)
      BY <1>a, <1>b, <2>1, <2>3, Zenon DEF Assigns, GoalIdle
    <3>2. w.loan \in LoanWrites /\ w.goal \in GoalWrites
      BY <1>a, <2>1, <2>3, Zenon DEF Assigns, GoalIdle
    <3>3. w.adds \in Nat
      BY <1>0, <2>1, <2>3 DEF Assigns, GoalIdle
    <3>4. w.drops \in BOOLEAN
      BY <2>1, <2>3, Zenon DEF Assigns, GoalIdle
    <3>5. QED
      BY <1>0, <3>1, <3>2, <3>3, <3>4, Zenon DEF TypedPlan
<1>5. CASE c.op = "password"
  <2> DEFINE new == [rows.account EXCEPT !.password = c.value]
  <2>1. Assigns(w, AccountColumns(new)) /\ GoalIdle(w) /\ w.loan = <<>>
    BY <1>5 DEF PlanIs
  <2>2. new \in AccountRow
    BY <1>0, <1>5 DEF AccountRow, GoodCall
  <2>3. w.account \in AllColumns
    BY <2>1, <2>2, AccountColumnsOf DEF Assigns
  <2>4. QED
    <3>1. w.account \in AccountWrites /\ AtMostOne(w.entries)
      BY <1>a, <1>b, <2>1, <2>3, Zenon DEF Assigns, GoalIdle
    <3>2. w.loan \in LoanWrites /\ w.goal \in GoalWrites
      BY <1>a, <2>1, <2>3, Zenon DEF Assigns, GoalIdle
    <3>3. w.adds \in Nat
      BY <1>0, <2>1, <2>3 DEF Assigns, GoalIdle
    <3>4. w.drops \in BOOLEAN
      BY <2>1, <2>3, Zenon DEF Assigns, GoalIdle
    <3>5. QED
      BY <1>0, <3>1, <3>2, <3>3, <3>4, Zenon DEF TypedPlan
<1>6. CASE c.op = "close"
  <2> DEFINE new == [rows.account EXCEPT !.active = FALSE]
  <2>1. Assigns(w, AccountColumns(new)) /\ GoalIdle(w) /\ w.loan = <<>>
    BY <1>6 DEF PlanIs
  <2>2. new \in AccountRow
    BY <1>0, <1>6 DEF AccountRow, GoodCall
  <2>3. w.account \in AllColumns
    BY <2>1, <2>2, AccountColumnsOf DEF Assigns
  <2>4. QED
    <3>1. w.account \in AccountWrites /\ AtMostOne(w.entries)
      BY <1>a, <1>b, <2>1, <2>3, Zenon DEF Assigns, GoalIdle
    <3>2. w.loan \in LoanWrites /\ w.goal \in GoalWrites
      BY <1>a, <2>1, <2>3, Zenon DEF Assigns, GoalIdle
    <3>3. w.adds \in Nat
      BY <1>0, <2>1, <2>3 DEF Assigns, GoalIdle
    <3>4. w.drops \in BOOLEAN
      BY <2>1, <2>3, Zenon DEF Assigns, GoalIdle
    <3>5. QED
      BY <1>0, <3>1, <3>2, <3>3, <3>4, Zenon DEF TypedPlan
<1>7. CASE c.op = "freeze"
  <2>1. Assigns(w, [frozen |-> TRUE, active |-> FALSE]) /\ GoalIdle(w) /\ w.loan = <<>>
    BY <1>7 DEF PlanIs
  <2>2. QED
    <3>1. w.account \in AccountWrites /\ AtMostOne(w.entries)
      BY <1>a, <1>b, <2>1, Zenon DEF Assigns, GoalIdle
    <3>2. w.loan \in LoanWrites /\ w.goal \in GoalWrites
      BY <1>a, <2>1, Zenon DEF Assigns, GoalIdle
    <3>3. w.adds \in Nat
      BY <1>0, <2>1 DEF Assigns, GoalIdle
    <3>4. w.drops \in BOOLEAN
      BY <2>1, Zenon DEF Assigns, GoalIdle
    <3>5. QED
      BY <1>0, <3>1, <3>2, <3>3, <3>4, Zenon DEF TypedPlan
<1>8. CASE c.op = "unfreeze"
  <2>1. Assigns(w, [frozen |-> FALSE]) /\ GoalIdle(w) /\ w.loan = <<>>
    BY <1>8 DEF PlanIs
  <2>2. QED
    <3>1. w.account \in AccountWrites /\ AtMostOne(w.entries)
      BY <1>a, <1>b, <2>1, Zenon DEF Assigns, GoalIdle
    <3>2. w.loan \in LoanWrites /\ w.goal \in GoalWrites
      BY <1>a, <2>1, Zenon DEF Assigns, GoalIdle
    <3>3. w.adds \in Nat
      BY <1>0, <2>1 DEF Assigns, GoalIdle
    <3>4. w.drops \in BOOLEAN
      BY <2>1, Zenon DEF Assigns, GoalIdle
    <3>5. QED
      BY <1>0, <3>1, <3>2, <3>3, <3>4, Zenon DEF TypedPlan
<1>9. CASE c.op = "delete"
  <2>1. Assigns(w, [deleted |-> TRUE, active |-> FALSE]) /\ GoalIdle(w) /\ w.loan = <<>>
    BY <1>9 DEF PlanIs
  <2>2. QED
    <3>1. w.account \in AccountWrites /\ AtMostOne(w.entries)
      BY <1>a, <1>b, <2>1, Zenon DEF Assigns, GoalIdle
    <3>2. w.loan \in LoanWrites /\ w.goal \in GoalWrites
      BY <1>a, <2>1, Zenon DEF Assigns, GoalIdle
    <3>3. w.adds \in Nat
      BY <1>0, <2>1 DEF Assigns, GoalIdle
    <3>4. w.drops \in BOOLEAN
      BY <2>1, Zenon DEF Assigns, GoalIdle
    <3>5. QED
      BY <1>0, <3>1, <3>2, <3>3, <3>4, Zenon DEF TypedPlan
<1>10. CASE c.op = "apply"
  <2>1. /\ c.terms.principal \in Nat
        /\ Emi(c.terms.principal, c.terms.rate, c.terms.tenure) \in Nat
    <3>1. c.terms \in Terms /\ OfferedTerms(c.terms)
      BY <1>10 DEF PlanIs, GoodCall
    <3>2. QED
      BY <3>1, TermsHaveInstalment
  <2>2. w.loan \in LoanRow
    BY <1>0, <1>10, <2>1 DEF PlanIs, LoanRow, LoanStatus
  <2>3. Assigns(w, <<>>) /\ GoalIdle(w)
    BY <1>10 DEF PlanIs
  <2>4. QED
    <3>1. w.account \in AccountWrites /\ AtMostOne(w.entries)
      BY <1>a, <1>b, <2>2, <2>3, Zenon DEF Assigns, GoalIdle
    <3>2. w.loan \in LoanWrites /\ w.goal \in GoalWrites
      BY <1>a, <2>2, <2>3, Zenon DEF Assigns, GoalIdle
    <3>3. w.adds \in Nat
      BY <1>0, <2>2, <2>3 DEF Assigns, GoalIdle
    <3>4. w.drops \in BOOLEAN
      BY <2>2, <2>3, Zenon DEF Assigns, GoalIdle
    <3>5. QED
      BY <1>0, <3>1, <3>2, <3>3, <3>4, Zenon DEF TypedPlan
<1>11. CASE c.op = "approve"
  <2> DEFINE new == [rows.loan EXCEPT !.status = "ACTIVE", !.due = 1]
  <2>1. MovesBalance(w, rows.account, "LOAN_DISBURSEMENT", rows.loan.principal) /\ GoalIdle(w) /\ w.loan = LoanColumns(new)
    BY <1>11 DEF PlanIs
  <2>2. new \in LoanRow
    BY <1>0 DEF LoanRow, LoanStatus
  <2>3. w.loan \in RepaidColumns
    BY <2>1, <2>2, LoanColumnsOf
  <2>4. w.account \in AllColumns /\ AtMostOne(w.entries)
    BY <1>0, <2>1, <1>c, MovesWrites
  <2>5. QED
    <3>1. w.account \in AccountWrites /\ AtMostOne(w.entries)
      BY <1>a, <1>b, <2>1, <2>3, <2>4, Zenon DEF GoalIdle
    <3>2. w.loan \in LoanWrites /\ w.goal \in GoalWrites
      BY <1>a, <2>1, <2>3, <2>4, Zenon DEF GoalIdle
    <3>3. w.adds \in Nat
      BY <1>0, <2>1, <2>3, <2>4 DEF GoalIdle
    <3>4. w.drops \in BOOLEAN
      BY <2>1, <2>3, <2>4, Zenon DEF GoalIdle
    <3>5. QED
      BY <1>0, <3>1, <3>2, <3>3, <3>4, Zenon DEF TypedPlan
<1>12. CASE c.op = "reject"
  <2> DEFINE new == [rows.loan EXCEPT !.status = "REJECTED"]
  <2>1. Assigns(w, <<>>) /\ GoalIdle(w) /\ w.loan = LoanColumns(new)
    BY <1>12 DEF PlanIs
  <2>2. new \in LoanRow
    BY <1>0 DEF LoanRow, LoanStatus
  <2>3. w.loan \in RepaidColumns
    BY <2>1, <2>2, LoanColumnsOf
  <2>4. QED
    <3>1. w.account \in AccountWrites /\ AtMostOne(w.entries)
      BY <1>a, <1>b, <2>1, <2>3, Zenon DEF Assigns, GoalIdle
    <3>2. w.loan \in LoanWrites /\ w.goal \in GoalWrites
      BY <1>a, <2>1, <2>3, Zenon DEF Assigns, GoalIdle
    <3>3. w.adds \in Nat
      BY <1>0, <2>1, <2>3 DEF Assigns, GoalIdle
    <3>4. w.drops \in BOOLEAN
      BY <2>1, <2>3, Zenon DEF Assigns, GoalIdle
    <3>5. QED
      BY <1>0, <3>1, <3>2, <3>3, <3>4, Zenon DEF TypedPlan
<1>13. CASE c.op = "payEmi"
  <2>1. PICK payment \in Int :
          /\ MovesBalance(w, rows.account, "LOAN_REPAYMENT", Min({payment, rows.loan.remaining})) /\ GoalIdle(w)
          /\ w.loan = LoanColumns(RepaidLoan(rows.loan, payment))
    BY <1>13, Zenon DEF PlanIs
  <2>2. Min({payment, rows.loan.remaining}) \in Int /\ RepaidLoan(rows.loan, payment) \in LoanRow
    BY <1>0, RepaidRow
  <2>3. w.loan \in RepaidColumns
    BY <2>1, <2>2, LoanColumnsOf
  <2>a. rows.account \in AccountRow /\ "LOAN_REPAYMENT" \in TransactionType
    BY <1>0, <1>c
  <2>b. PICK m \in Int : MovesBalance(w, rows.account, "LOAN_REPAYMENT", m)
    BY <2>1, <2>2, Zenon
  <2>4. w.account \in AllColumns /\ AtMostOne(w.entries)
    BY <2>a, <2>b, MovesWrites
  <2>5. QED
    <3>1. w.account \in AccountWrites /\ AtMostOne(w.entries)
      BY <1>a, <1>b, <2>1, <2>3, <2>4, Zenon DEF GoalIdle
    <3>2. w.loan \in LoanWrites /\ w.goal \in GoalWrites
      BY <1>a, <2>1, <2>3, <2>4, Zenon DEF GoalIdle
    <3>3. w.adds \in Nat
      BY <1>0, <2>1, <2>3, <2>4 DEF GoalIdle
    <3>4. w.drops \in BOOLEAN
      BY <2>1, <2>3, <2>4, Zenon DEF GoalIdle
    <3>5. QED
      BY <1>0, <3>1, <3>2, <3>3, <3>4, Zenon DEF TypedPlan
<1>14. CASE c.op = "createGoal"
  <2>1. w.goal \in GoalRow
    <3>1. w.goal = [exists |-> TRUE, owner |-> c.acc, target |-> c.value,
                    current |-> 0, completed |-> FALSE] /\ c.value \in Nat
      BY <1>0, <1>14 DEF PlanIs
    <3>2. QED
      BY <1>0, <3>1 DEF GoalRow
  <2>2. Assigns(w, <<>>) /\ w.adds = 0 /\ w.drops = FALSE /\ w.loan = <<>>
    BY <1>14 DEF PlanIs
  <2>3. QED
    <3>1. w.account \in AccountWrites /\ AtMostOne(w.entries)
      BY <1>a, <1>b, <2>1, <2>2, Zenon DEF Assigns
    <3>2. w.loan \in LoanWrites /\ w.goal \in GoalWrites
      BY <1>a, <2>1, <2>2, Zenon DEF Assigns
    <3>3. w.adds \in Nat
      BY <1>0, <2>1, <2>2 DEF Assigns
    <3>4. w.drops \in BOOLEAN
      BY <2>1, <2>2, Zenon DEF Assigns
    <3>5. QED
      BY <1>0, <3>1, <3>2, <3>3, <3>4, Zenon DEF TypedPlan
<1>15. CASE c.op = "contribute"
  <2>1. MovesBalance(w, rows.account, "TRANSFER_OUT", c.value) /\ w.goal = <<>> /\ w.adds = c.value /\ w.drops = FALSE /\ c.value > 0 /\ w.loan = <<>>
    BY <1>15 DEF PlanIs
  <2>4. w.account \in AllColumns /\ AtMostOne(w.entries)
    BY <1>0, <2>1, <1>c, MovesWrites
  <2>5. QED
    <3>1. w.account \in AccountWrites /\ AtMostOne(w.entries)
      BY <1>a, <1>b, <2>1, <2>4, Zenon DEF GoalIdle
    <3>2. w.loan \in LoanWrites /\ w.goal \in GoalWrites
      BY <1>a, <2>1, <2>4, Zenon DEF GoalIdle
    <3>3. w.adds \in Nat
      BY <1>0, <2>1, <2>4 DEF GoalIdle
    <3>4. w.drops \in BOOLEAN
      BY <2>1, <2>4, Zenon DEF GoalIdle
    <3>5. QED
      BY <1>0, <3>1, <3>2, <3>3, <3>4, Zenon DEF TypedPlan
<1>16. CASE c.op = "deleteGoal"
  <2> DEFINE new == [rows.account EXCEPT !.balance = @ + rows.goal.current]
  <2>1. /\ Assigns(w, AccountColumns(new)) \/ Assigns(w, <<>>)
        /\ w.goal = <<>> /\ w.adds = 0 /\ w.drops = TRUE /\ w.loan = <<>>
    BY <1>16 DEF PlanIs
  <2>2. new \in AccountRow
    BY <1>0 DEF AccountRow
  <2>3. w.account \in AllColumns \cup {<<>>}
    BY <2>1, <2>2, AccountColumnsOf DEF Assigns
  <2>4. QED
    <3>1. w.account \in AccountWrites /\ AtMostOne(w.entries)
      BY <1>a, <1>b, <2>1, <2>3, Zenon DEF Assigns
    <3>2. w.loan \in LoanWrites /\ w.goal \in GoalWrites
      BY <1>a, <2>1, <2>3, Zenon DEF Assigns
    <3>3. w.adds \in Nat
      BY <1>0, <2>1, <2>3 DEF Assigns
    <3>4. w.drops \in BOOLEAN
      BY <2>1, <2>3, Zenon DEF Assigns
    <3>5. QED
      BY <1>0, <3>1, <3>2, <3>3, <3>4, Zenon DEF TypedPlan
<1>17. CASE c.op = "updateGoal"
  <2>1. w.goal \in [target : Int, current : Int, completed : BOOLEAN]
    <3>1. w.goal = [target |-> c.value, current |-> rows.goal.current,
                    completed |-> rows.goal.current >= c.value] /\ c.value \in Nat
      BY <1>0, <1>17 DEF PlanIs, GoodCall
    <3>2. (rows.goal.current >= c.value) \in BOOLEAN
      OBVIOUS
    <3>3. QED
      BY <1>0, <3>1, <3>2
  <2>2. Assigns(w, <<>>) /\ w.adds = 0 /\ w.drops = FALSE /\ w.loan = <<>>
    BY <1>17 DEF PlanIs
  <2>3. QED
    <3>1. w.account \in AccountWrites /\ AtMostOne(w.entries)
      BY <1>a, <1>b, <2>1, <2>2, Zenon DEF Assigns
    <3>2. w.loan \in LoanWrites /\ w.goal \in GoalWrites
      BY <1>a, <2>1, <2>2, Zenon DEF Assigns
    <3>3. w.adds \in Nat
      BY <1>0, <2>1, <2>2 DEF Assigns
    <3>4. w.drops \in BOOLEAN
      BY <2>1, <2>2, Zenon DEF Assigns
    <3>5. QED
      BY <1>0, <3>1, <3>2, <3>3, <3>4, Zenon DEF TypedPlan
<1>18. QED
  BY <1>1, <1>2, <1>3, <1>4, <1>5, <1>6, <1>7, <1>8, <1>9, <1>10, <1>11, <1>12, <1>13, <1>14, <1>15, <1>16, <1>17 DEF GoodCall, Ops

LEMMA PlanScoped ==
  ASSUME NEW c, GoodCall(c), NEW rows, NEW w, PlanIs(c, rows, w)
  PROVE  ScopedPlan(c, w)
<1>1. CASE c.op = "deposit"
  BY <1>1 DEF PlanIs, ScopedPlan, LoanCalls, GoalCalls, Audited
<1>2. CASE c.op = "withdraw"
  BY <1>2 DEF PlanIs, ScopedPlan, LoanCalls, GoalCalls, Audited
<1>3. CASE c.op = "interest"
  BY <1>3 DEF PlanIs, ScopedPlan, LoanCalls, GoalCalls, Audited
<1>4. CASE c.op = "profile"
  BY <1>4 DEF PlanIs, ScopedPlan, LoanCalls, GoalCalls, Audited
<1>5. CASE c.op = "password"
  BY <1>5 DEF PlanIs, ScopedPlan, LoanCalls, GoalCalls, Audited
<1>6. CASE c.op = "close"
  BY <1>6 DEF PlanIs, ScopedPlan, LoanCalls, GoalCalls, Audited
<1>7. CASE c.op = "freeze"
  BY <1>7 DEF PlanIs, ScopedPlan, LoanCalls, GoalCalls, Audited
<1>8. CASE c.op = "unfreeze"
  BY <1>8 DEF PlanIs, ScopedPlan, LoanCalls, GoalCalls, Audited
<1>9. CASE c.op = "delete"
  BY <1>9 DEF PlanIs, ScopedPlan, LoanCalls, GoalCalls, Audited
<1>10. CASE c.op = "apply"
  BY <1>10 DEF PlanIs, ScopedPlan, LoanCalls, GoalCalls, Audited
<1>11. CASE c.op = "approve"
  BY <1>11 DEF PlanIs, ScopedPlan, LoanCalls, GoalCalls, Audited
<1>12. CASE c.op = "reject"
  BY <1>12 DEF PlanIs, ScopedPlan, LoanCalls, GoalCalls, Audited
<1>13. CASE c.op = "payEmi"
  BY <1>13 DEF PlanIs, ScopedPlan, LoanCalls, GoalCalls, Audited
<1>14. CASE c.op = "createGoal"
  BY <1>14 DEF PlanIs, ScopedPlan, LoanCalls, GoalCalls, Audited
<1>15. CASE c.op = "contribute"
  BY <1>15 DEF PlanIs, ScopedPlan, LoanCalls, GoalCalls, Audited
<1>16. CASE c.op = "deleteGoal"
  BY <1>16 DEF PlanIs, ScopedPlan, LoanCalls, GoalCalls, Audited
<1>17. CASE c.op = "updateGoal"
  BY <1>17 DEF PlanIs, ScopedPlan, LoanCalls, GoalCalls, Audited
<1>18. QED
  BY <1>1, <1>2, <1>3, <1>4, <1>5, <1>6, <1>7, <1>8, <1>9, <1>10, <1>11, <1>12, <1>13, <1>14, <1>15, <1>16, <1>17 DEF GoodCall, Ops

\* A plan reads the account, the loan only in a loan's call, the goal only in a goal's.
LEMMA PlanLocal ==
  ASSUME NEW c, GoodCall(c), NEW rows, NEW w, PlanIs(c, rows, w),
         NEW now, now.account = rows.account,
         c.op \in LoanCalls \ {"apply"} => now.loan = rows.loan,
         c.op \in GoalCalls \ {"createGoal"} => now.goal = rows.goal
  PROVE  PlanIs(c, now, w)
<1>1. CASE c.op = "deposit"
  BY <1>1, Zenon DEF PlanIs, LoanCalls, GoalCalls
<1>2. CASE c.op = "withdraw"
  BY <1>2, Zenon DEF PlanIs, LoanCalls, GoalCalls
<1>3. CASE c.op = "interest"
  BY <1>3, Zenon DEF PlanIs, LoanCalls, GoalCalls
<1>4. CASE c.op = "profile"
  BY <1>4, Zenon DEF PlanIs, LoanCalls, GoalCalls
<1>5. CASE c.op = "password"
  BY <1>5, Zenon DEF PlanIs, LoanCalls, GoalCalls
<1>6. CASE c.op = "close"
  BY <1>6, Zenon DEF PlanIs, LoanCalls, GoalCalls
<1>7. CASE c.op = "freeze"
  BY <1>7, Zenon DEF PlanIs, LoanCalls, GoalCalls
<1>8. CASE c.op = "unfreeze"
  BY <1>8, Zenon DEF PlanIs, LoanCalls, GoalCalls
<1>9. CASE c.op = "delete"
  BY <1>9, Zenon DEF PlanIs, LoanCalls, GoalCalls
<1>10. CASE c.op = "apply"
  BY <1>10, Zenon DEF PlanIs, LoanCalls, GoalCalls
<1>11. CASE c.op = "approve"
  BY <1>11, Zenon DEF PlanIs, LoanCalls, GoalCalls
<1>12. CASE c.op = "reject"
  BY <1>12, Zenon DEF PlanIs, LoanCalls, GoalCalls
<1>13. CASE c.op = "payEmi"
  BY <1>13, Zenon DEF PlanIs, LoanCalls, GoalCalls
<1>14. CASE c.op = "createGoal"
  BY <1>14, Zenon DEF PlanIs, LoanCalls, GoalCalls
<1>15. CASE c.op = "contribute"
  BY <1>15, Zenon DEF PlanIs, LoanCalls, GoalCalls
<1>16. CASE c.op = "deleteGoal"
  BY <1>16, Zenon DEF PlanIs, LoanCalls, GoalCalls
<1>17. CASE c.op = "updateGoal"
  BY <1>17, Zenon DEF PlanIs, LoanCalls, GoalCalls
<1>18. QED
  BY <1>1, <1>2, <1>3, <1>4, <1>5, <1>6, <1>7, <1>8, <1>9, <1>10, <1>11, <1>12, <1>13, <1>14, <1>15, <1>16, <1>17 DEF GoodCall, Ops


\* The money of a plan: the balance it writes is the balance it read, what its entry
\* brings in, and what it moves out of or into the goal.
Balance(cols, row) == IF "balance" \in DOMAIN cols THEN cols.balance ELSE row.balance
CreditOf(entries) == IF entries = <<>> THEN 0 ELSE Credit(entries[1])
FromGoal(c, rows) == CASE c.op = "contribute" -> -c.value
                       [] c.op = "deleteGoal" /\ ~rows.account.deleted -> rows.goal.current
                       [] OTHER -> 0
MoneyPlan(c, rows, w) ==
    LET b == Balance(w.account, rows.account) IN
    /\ b \in Int /\ b >= 0
    /\ b = rows.account.balance + CreditOf(w.entries) + FromGoal(c, rows)
    /\ "deleted" \in DOMAIN w.account => w.account.deleted

LEMMA PlanMoney ==
  ASSUME NEW c, GoodCall(c), NEW rows, GoodRows(rows), NEW w, PlanIs(c, rows, w)
  PROVE  MoneyPlan(c, rows, w)
<1> DEFINE r == rows.account
           Row(b) == [balance |-> b, active |-> r.active, frozen |-> r.frozen,
                      profile |-> r.profile, password |-> r.password]
<1>0. /\ c.value \in Int /\ r \in AccountRow /\ rows.goal \in GoalRow
      /\ r.balance \in Nat /\ r.balance \in Int /\ rows.goal.current \in Nat
      /\ rows.loan.principal \in Nat /\ rows.loan.principal \in Int
      /\ rows.loan.remaining \in Int
      /\ MonthlyInterest(r.balance) \in Int
  BY RowsTyped
<1>a. \A b : /\ "balance" \in DOMAIN Row(b) /\ Row(b).balance = b
             /\ "deleted" \notin DOMAIN Row(b)
  OBVIOUS
<1>c. {"DEPOSIT", "WITHDRAW", "INTEREST", "LOAN_DISBURSEMENT", "LOAN_REPAYMENT",
       "TRANSFER_OUT"} \subseteq TransactionType
  BY DEF TransactionType
<1>d. ASSUME NEW type \in TransactionType, NEW amount \in Int, MovesBalance(w, r, type, amount)
      PROVE  LET b == IF type \in {"DEPOSIT", "TRANSFER_IN", "INTEREST", "LOAN_DISBURSEMENT"}
                      THEN r.balance + amount ELSE r.balance - amount
             IN  /\ b \in Int
                 /\ Balance(w.account, r) = b /\ "deleted" \notin DOMAIN w.account
                 /\ CreditOf(w.entries) = Credit([type |-> type, amount |-> amount, balance |-> b])
  <2> DEFINE b == IF type \in {"DEPOSIT", "TRANSFER_IN", "INTEREST", "LOAN_DISBURSEMENT"}
                  THEN r.balance + amount ELSE r.balance - amount
             e == [type |-> type, amount |-> amount, balance |-> b]
  <2>1. b \in Int /\ w.account = Row(b) /\ w.entries = <<e>>
    BY <1>0, <1>d, MovesWrites
  <2> HIDE DEF b, e
  <2>2. CreditOf(w.entries) = Credit(e)
    BY <2>1 DEF CreditOf
  <2>3. Balance(w.account, r) = b /\ "deleted" \notin DOMAIN w.account
    BY <1>a, <2>1 DEF Balance
  <2>4. QED
    BY <2>1, <2>2, <2>3 DEF b, e
<1>e. ASSUME NEW new \in AccountRow, Assigns(w, AccountColumns(new))
      PROVE  /\ Balance(w.account, r) = new.balance /\ "deleted" \notin DOMAIN w.account
             /\ CreditOf(w.entries) = 0
  <2>1. w.account = [balance |-> new.balance, active |-> new.active, frozen |-> new.frozen,
                     profile |-> new.profile, password |-> new.password] /\ w.entries = <<>>
    BY <1>e, AccountColumnsOf DEF Assigns
  <2>2. QED
    BY <2>1 DEF Balance, CreditOf
<1>f. /\ Assigns(w, <<>>) => Balance(w.account, r) = r.balance /\ "deleted" \notin DOMAIN w.account
      /\ Assigns(w, [frozen |-> TRUE, active |-> FALSE]) =>
             Balance(w.account, r) = r.balance /\ "deleted" \notin DOMAIN w.account
      /\ Assigns(w, [frozen |-> FALSE]) =>
             Balance(w.account, r) = r.balance /\ "deleted" \notin DOMAIN w.account
      /\ Assigns(w, [deleted |-> TRUE, active |-> FALSE]) =>
             Balance(w.account, r) = r.balance /\ w.account.deleted
      /\ \A cols : Assigns(w, cols) => CreditOf(w.entries) = 0
  BY DEF Assigns, Balance, CreditOf
<1> HIDE DEF r
<1>1. CASE c.op = "deposit"
  <2> DEFINE amount == c.value
  <2>1. MovesBalance(w, rows.account, "DEPOSIT", amount)
    BY <1>1, Zenon DEF PlanIs
  <2>2. amount \in Int /\ amount >= 0
    BY <1>0, <1>1 DEF PlanIs, r
  <2> HIDE DEF amount
  <2>3. /\ Balance(w.account, rows.account) = rows.account.balance + amount
        /\ CreditOf(w.entries) = amount /\ "deleted" \notin DOMAIN w.account
    BY <1>c, <1>d, <2>1, <2>2 DEF r, Credit
  <2>4. FromGoal(c, rows) = 0
    BY <1>1 DEF FromGoal
  <2>5. QED
    BY <1>0, <2>2, <2>3, <2>4 DEF MoneyPlan, r
<1>2. CASE c.op = "withdraw"
  <2> DEFINE amount == c.value
  <2>1. MovesBalance(w, rows.account, "WITHDRAW", amount)
    BY <1>2, Zenon DEF PlanIs
  <2>2. amount \in Int /\ amount <= rows.account.balance
    BY <1>0, <1>2 DEF PlanIs, r
  <2> HIDE DEF amount
  <2>3. /\ Balance(w.account, rows.account) = rows.account.balance - amount
        /\ CreditOf(w.entries) = -amount /\ "deleted" \notin DOMAIN w.account
    BY <1>c, <1>d, <2>1, <2>2 DEF r, Credit
  <2>4. FromGoal(c, rows) = 0
    BY <1>2 DEF FromGoal
  <2>5. QED
    BY <1>0, <2>2, <2>3, <2>4 DEF MoneyPlan, r
<1>3. CASE c.op = "interest"
  <2> DEFINE amount == MonthlyInterest(rows.account.balance)
  <2>1. MovesBalance(w, rows.account, "INTEREST", amount)
    BY <1>3, Zenon DEF PlanIs
  <2>2. amount \in Int /\ amount >= 0
    BY <1>0, <1>3 DEF PlanIs, r
  <2> HIDE DEF amount
  <2>3. /\ Balance(w.account, rows.account) = rows.account.balance + amount
        /\ CreditOf(w.entries) = amount /\ "deleted" \notin DOMAIN w.account
    BY <1>c, <1>d, <2>1, <2>2 DEF r, Credit
  <2>4. FromGoal(c, rows) = 0
    BY <1>3 DEF FromGoal
  <2>5. QED
    BY <1>0, <2>2, <2>3, <2>4 DEF MoneyPlan, r
<1>4. CASE c.op = "profile"
  <2> DEFINE new == [rows.account EXCEPT !.profile = c.value]
  <2>1. Assigns(w, AccountColumns(new))
    BY <1>4, Zenon DEF PlanIs
  <2>2. new \in AccountRow /\ new.balance = rows.account.balance
    BY <1>0, <1>4 DEF AccountRow, GoodCall, r
  <2> HIDE DEF new
  <2>3. FromGoal(c, rows) = 0
    BY <1>4 DEF FromGoal
  <2>4. QED
    BY <1>0, <1>e, <2>1, <2>2, <2>3 DEF MoneyPlan, r
<1>5. CASE c.op = "password"
  <2> DEFINE new == [rows.account EXCEPT !.password = c.value]
  <2>1. Assigns(w, AccountColumns(new))
    BY <1>5, Zenon DEF PlanIs
  <2>2. new \in AccountRow /\ new.balance = rows.account.balance
    BY <1>0, <1>5 DEF AccountRow, GoodCall, r
  <2> HIDE DEF new
  <2>3. FromGoal(c, rows) = 0
    BY <1>5 DEF FromGoal
  <2>4. QED
    BY <1>0, <1>e, <2>1, <2>2, <2>3 DEF MoneyPlan, r
<1>6. CASE c.op = "close"
  <2> DEFINE new == [rows.account EXCEPT !.active = FALSE]
  <2>1. Assigns(w, AccountColumns(new))
    BY <1>6, Zenon DEF PlanIs
  <2>2. new \in AccountRow /\ new.balance = rows.account.balance
    BY <1>0, <1>6 DEF AccountRow, GoodCall, r
  <2> HIDE DEF new
  <2>3. FromGoal(c, rows) = 0
    BY <1>6 DEF FromGoal
  <2>4. QED
    BY <1>0, <1>e, <2>1, <2>2, <2>3 DEF MoneyPlan, r
<1>7. CASE c.op = "freeze"
  <2>1. Assigns(w, [frozen |-> TRUE, active |-> FALSE])
    BY <1>7, Zenon DEF PlanIs
  <2>2. FromGoal(c, rows) = 0
    BY <1>7 DEF FromGoal
  <2>3. QED
    BY <1>0, <1>f, <2>1, <2>2 DEF MoneyPlan, r
<1>8. CASE c.op = "unfreeze"
  <2>1. Assigns(w, [frozen |-> FALSE])
    BY <1>8, Zenon DEF PlanIs
  <2>2. FromGoal(c, rows) = 0
    BY <1>8 DEF FromGoal
  <2>3. QED
    BY <1>0, <1>f, <2>1, <2>2 DEF MoneyPlan, r
<1>9. CASE c.op = "delete"
  <2>1. Assigns(w, [deleted |-> TRUE, active |-> FALSE])
    BY <1>9, Zenon DEF PlanIs
  <2>2. FromGoal(c, rows) = 0
    BY <1>9 DEF FromGoal
  <2>3. QED
    BY <1>0, <1>f, <2>1, <2>2 DEF MoneyPlan, r
<1>10. CASE c.op = "apply"
  <2>1. Assigns(w, <<>>)
    BY <1>10, Zenon DEF PlanIs
  <2>2. FromGoal(c, rows) = 0
    BY <1>10 DEF FromGoal
  <2>3. QED
    BY <1>0, <1>f, <2>1, <2>2 DEF MoneyPlan, r
<1>11. CASE c.op = "approve"
  <2> DEFINE amount == rows.loan.principal
  <2>1. MovesBalance(w, rows.account, "LOAN_DISBURSEMENT", amount)
    BY <1>11, Zenon DEF PlanIs
  <2>2. amount \in Int /\ amount >= 0
    BY <1>0, <1>11 DEF PlanIs, r
  <2> HIDE DEF amount
  <2>3. /\ Balance(w.account, rows.account) = rows.account.balance + amount
        /\ CreditOf(w.entries) = amount /\ "deleted" \notin DOMAIN w.account
    BY <1>c, <1>d, <2>1, <2>2 DEF r, Credit
  <2>4. FromGoal(c, rows) = 0
    BY <1>11 DEF FromGoal
  <2>5. QED
    BY <1>0, <2>2, <2>3, <2>4 DEF MoneyPlan, r
<1>12. CASE c.op = "reject"
  <2>1. Assigns(w, <<>>)
    BY <1>12, Zenon DEF PlanIs
  <2>2. FromGoal(c, rows) = 0
    BY <1>12 DEF FromGoal
  <2>3. QED
    BY <1>0, <1>f, <2>1, <2>2 DEF MoneyPlan, r
<1>13. CASE c.op = "payEmi"
  <2>1. PICK payment \in Int : /\ payment > 0 /\ payment <= rows.account.balance
                                 /\ MovesBalance(w, rows.account, "LOAN_REPAYMENT",
                                          Min({payment, rows.loan.remaining}))
    BY <1>13, Zenon DEF PlanIs
  <2> DEFINE amount == Min({payment, rows.loan.remaining})
  <2>2. /\ amount \in Int /\ amount <= rows.account.balance
        /\ MovesBalance(w, rows.account, "LOAN_REPAYMENT", amount)
    <3>1. amount = IF payment <= rows.loan.remaining THEN payment ELSE rows.loan.remaining
      BY <1>0, MinOfTwo
    <3>2. QED
      BY <1>0, <2>1, <3>1 DEF r
  <2> HIDE DEF amount
  <2>3. /\ Balance(w.account, rows.account) = rows.account.balance - amount
        /\ CreditOf(w.entries) = -amount /\ "deleted" \notin DOMAIN w.account
    BY <1>c, <1>d, <2>1, <2>2 DEF r, Credit
  <2>4. FromGoal(c, rows) = 0
    BY <1>13 DEF FromGoal
  <2>5. QED
    BY <1>0, <2>2, <2>3, <2>4 DEF MoneyPlan, r
<1>14. CASE c.op = "createGoal"
  <2>1. Assigns(w, <<>>)
    BY <1>14, Zenon DEF PlanIs
  <2>2. FromGoal(c, rows) = 0
    BY <1>14 DEF FromGoal
  <2>3. QED
    BY <1>0, <1>f, <2>1, <2>2 DEF MoneyPlan, r
<1>15. CASE c.op = "contribute"
  <2> DEFINE amount == c.value
  <2>1. MovesBalance(w, rows.account, "TRANSFER_OUT", amount)
    BY <1>15, Zenon DEF PlanIs
  <2>2. amount \in Int /\ amount <= rows.account.balance
    BY <1>0, <1>15 DEF PlanIs, r
  <2> HIDE DEF amount
  <2>3. /\ Balance(w.account, rows.account) = rows.account.balance - amount
        /\ CreditOf(w.entries) = 0 /\ "deleted" \notin DOMAIN w.account
    BY <1>c, <1>d, <2>1, <2>2 DEF r, Credit
  <2>4. FromGoal(c, rows) = -amount
    BY <1>15 DEF FromGoal, amount
  <2>5. QED
    BY <1>0, <2>2, <2>3, <2>4 DEF MoneyPlan, r
<1>16. CASE c.op = "deleteGoal"
  <2> DEFINE new == [rows.account EXCEPT !.balance = @ + rows.goal.current]
  <2>1. CASE rows.goal.current > 0 /\ ~rows.account.deleted
    <3>1. Assigns(w, AccountColumns(new))
      BY <1>16, <2>1 DEF PlanIs
    <3>2. new \in AccountRow /\ new.balance = rows.account.balance + rows.goal.current
      BY <1>0 DEF AccountRow, r
    <3> HIDE DEF new
    <3>3. FromGoal(c, rows) = rows.goal.current
      BY <1>16, <2>1 DEF FromGoal
    <3>4. QED
      BY <1>0, <1>e, <3>1, <3>2, <3>3 DEF MoneyPlan, r
  <2>2. CASE ~(rows.goal.current > 0 /\ ~rows.account.deleted)
    <3>1. Assigns(w, <<>>)
      BY <1>16, <2>2 DEF PlanIs
    <3>2. FromGoal(c, rows) = 0
      BY <1>0, <1>16, <2>2 DEF FromGoal
    <3>3. QED
      BY <1>0, <1>f, <3>1, <3>2 DEF MoneyPlan, r
  <2>3. QED
    BY <2>1, <2>2
<1>17. CASE c.op = "updateGoal"
  <2>1. Assigns(w, <<>>)
    BY <1>17, Zenon DEF PlanIs
  <2>2. FromGoal(c, rows) = 0
    BY <1>17 DEF FromGoal
  <2>3. QED
    BY <1>0, <1>f, <2>1, <2>2 DEF MoneyPlan, r
<1>18. QED
  BY <1>1, <1>2, <1>3, <1>4, <1>5, <1>6, <1>7, <1>8, <1>9, <1>10, <1>11, <1>12, <1>13, <1>14, <1>15, <1>16, <1>17 DEF GoodCall, Ops


\* A plan for a loan: an application writes the whole row, the other calls keep the
\* principal, and what they write as paid and remaining adds up to it.
LoanPlan(c, rows, w) ==
    /\ c.op = "apply" =>
         /\ w.loan \in LoanRow /\ w.loan.owner = c.acc /\ w.loan.status = "PENDING"
         /\ w.loan.paid = 0 /\ w.loan.remaining = w.loan.principal /\ w.loan.principal > 0
    /\ c.op \in LoanCalls \ {"apply"} =>
         /\ w.loan \in RepaidColumns /\ w.loan.principal = rows.loan.principal
         /\ w.loan.paid + w.loan.remaining = rows.loan.principal
         /\ w.loan.status # "NONE" /\ rows.loan.owner # 0
    /\ c.op = "approve" => /\ rows.loan.status = "PENDING" /\ w.loan.status = "ACTIVE"
                           /\ w.loan.paid = rows.loan.paid
    /\ c.op = "reject" => rows.loan.status = "PENDING" /\ w.loan.status = "REJECTED"
    /\ c.op = "payEmi" =>
         /\ rows.loan.owner = c.acc /\ rows.loan.status \in {"APPROVED", "ACTIVE"}
         /\ w.loan.status = IF w.loan.remaining = 0 THEN "CLOSED" ELSE rows.loan.status

LEMMA PlanLoan ==
  ASSUME NEW c, GoodCall(c), NEW rows, GoodRows(rows), NEW w, PlanIs(c, rows, w)
  PROVE  LoanPlan(c, rows, w)
<1> DEFINE l == rows.loan
<1>0. /\ l \in LoanRow /\ l.principal \in Nat /\ l.paid \in Int /\ l.remaining \in Int
      /\ l.paid + l.remaining = l.principal /\ c.acc \in Nat
      /\ l.status # "NONE" => l.owner # 0
  BY RowsTyped DEF GoodRows, SoundLoan, NoLoan
<1>a. ASSUME NEW new \in LoanRow, w.loan = LoanColumns(new)
      PROVE  /\ w.loan \in RepaidColumns /\ w.loan.principal = new.principal
             /\ w.loan.paid = new.paid /\ w.loan.remaining = new.remaining
             /\ w.loan.status = new.status
  <2>1. w.loan = [status |-> new.status, principal |-> new.principal, emi |-> new.emi,
                  paid |-> new.paid, remaining |-> new.remaining, due |-> new.due]
        /\ w.loan \in RepaidColumns
    BY <1>a, LoanColumnsOf
  <2>2. QED
    BY <2>1
<1>1. CASE c.op = "apply"
  <2>1. c.terms \in Terms /\ OfferedTerms(c.terms)
    BY <1>1 DEF PlanIs, GoodCall
  <2>2. /\ c.terms.principal \in Nat /\ c.terms.principal > 0
        /\ Emi(c.terms.principal, c.terms.rate, c.terms.tenure) \in Nat
    BY <2>1, TermsHaveInstalment
  <2>3. w.loan = [owner |-> c.acc, status |-> "PENDING", principal |-> c.terms.principal,
                  emi |-> Emi(c.terms.principal, c.terms.rate, c.terms.tenure),
                  paid |-> 0, remaining |-> c.terms.principal, due |-> 0]
    BY <1>1, Zenon DEF PlanIs
  <2>4. w.loan \in LoanRow
    BY <1>0, <2>2, <2>3 DEF LoanRow, LoanStatus
  <2>5. QED
    BY <1>1, <2>2, <2>3, <2>4 DEF LoanPlan
<1>2. CASE c.op = "approve"
  <2> DEFINE new == [l EXCEPT !.status = "ACTIVE", !.due = 1]
  <2>1. w.loan = LoanColumns(new) /\ l.status = "PENDING"
    BY <1>2, Zenon DEF PlanIs
  <2>2. /\ new \in LoanRow /\ new.principal = l.principal /\ new.paid = l.paid
        /\ new.remaining = l.remaining /\ new.status = "ACTIVE"
    BY <1>0 DEF LoanRow, LoanStatus
  <2> HIDE DEF new
  <2>3. QED
    BY <1>0, <1>2, <1>a, <2>1, <2>2 DEF LoanPlan
<1>3. CASE c.op = "reject"
  <2> DEFINE new == [l EXCEPT !.status = "REJECTED"]
  <2>1. w.loan = LoanColumns(new) /\ l.status = "PENDING"
    BY <1>3, Zenon DEF PlanIs
  <2>2. /\ new \in LoanRow /\ new.principal = l.principal /\ new.paid = l.paid
        /\ new.remaining = l.remaining /\ new.status = "REJECTED"
    BY <1>0 DEF LoanRow, LoanStatus
  <2> HIDE DEF new
  <2>3. QED
    BY <1>0, <1>3, <1>a, <2>1, <2>2 DEF LoanPlan
<1>4. CASE c.op = "payEmi"
  <2>1. PICK payment \in Int : w.loan = LoanColumns(RepaidLoan(l, payment))
    BY <1>4, Zenon DEF PlanIs
  <2> DEFINE new == RepaidLoan(l, payment)
  <2>2. Repayable(l) /\ l.owner = c.acc
    BY <1>4, Zenon DEF PlanIs
  <2>3. /\ new \in LoanRow /\ new.principal = l.principal
        /\ new.paid + new.remaining = l.principal
        /\ new.status = IF new.remaining = 0 THEN "CLOSED" ELSE l.status
    <3> DEFINE m == Min({payment, l.remaining})
    <3>1. /\ m \in Int /\ new \in LoanRow /\ new.principal = l.principal
          /\ new.paid = l.paid + m /\ new.remaining = l.remaining - m
          /\ new.status = IF new.remaining = 0 THEN "CLOSED" ELSE l.status
      BY <1>0, RepaidRow
    <3> HIDE DEF m, new
    <3>2. QED
      BY <1>0, <3>1
  <2> HIDE DEF new
  <2>4. l.status \in {"APPROVED", "ACTIVE"}
    BY <2>2 DEF Repayable
  <2>5. w.loan = LoanColumns(new)
    BY <2>1 DEF new
  <2>6. QED
    BY <1>0, <1>4, <1>a, <2>2, <2>3, <2>4, <2>5 DEF LoanPlan
<1>5. QED
  BY <1>1, <1>2, <1>3, <1>4 DEF LoanPlan, LoanCalls

\* A plan's entry: only an approval's is a disbursement, only a payment's a repayment, of
\* what the loan's columns tell; an account that cannot transact only pays into goals.
EntryPlan(c, rows, w) ==
    /\ \A type \in {"LOAN_DISBURSEMENT", "LOAN_REPAYMENT"} :
         (IF w.entries = <<>> THEN 0 ELSE Part(w.entries[1], type)) =
         CASE type = "LOAN_DISBURSEMENT" /\ c.op = "approve" -> rows.loan.principal
           [] type = "LOAN_REPAYMENT" /\ c.op = "payEmi" -> w.loan.paid - rows.loan.paid
           [] OTHER -> 0
    /\ ~Usable(rows.account) => w.entries = <<>> \/ w.entries[1].type = "TRANSFER_OUT"

LEMMA PlanEntry ==
  ASSUME NEW c, GoodCall(c), NEW rows, GoodRows(rows), NEW w, PlanIs(c, rows, w)
  PROVE  EntryPlan(c, rows, w)
<1>0. /\ c.value \in Int /\ rows.account \in AccountRow /\ rows.loan \in LoanRow
      /\ rows.loan.principal \in Int /\ rows.loan.remaining \in Int /\ rows.loan.paid \in Int
      /\ MonthlyInterest(rows.account.balance) \in Int
  BY RowsTyped
<1>a. ASSUME NEW type, NEW amount, MovesBalance(w, rows.account, type, amount)
      PROVE  w.entries # <<>> /\ w.entries[1].type = type /\ w.entries[1].amount = amount
  <2> DEFINE b == EntryFor(rows.account, type, amount).balance
  <2> HIDE DEF b
  <2>1. w.entries = <<[type |-> type, amount |-> amount, balance |-> b]>>
    BY <1>a, Zenon DEF MovesBalance, b
  <2>2. QED
    BY <2>1
<1>1. CASE c.op = "deposit"
  <2>1. MovesBalance(w, rows.account, "DEPOSIT", c.value) /\ Usable(rows.account)
    BY <1>1, Zenon DEF PlanIs
  <2>2. w.entries # <<>> /\ w.entries[1].type = "DEPOSIT" /\ w.entries[1].amount = c.value
    BY <1>a, <2>1
  <2>3. QED
    BY <1>1, <2>1, <2>2 DEF EntryPlan, Part
<1>2. CASE c.op = "withdraw"
  <2>1. MovesBalance(w, rows.account, "WITHDRAW", c.value) /\ Usable(rows.account)
    BY <1>2, Zenon DEF PlanIs
  <2>2. w.entries # <<>> /\ w.entries[1].type = "WITHDRAW" /\ w.entries[1].amount = c.value
    BY <1>a, <2>1
  <2>3. QED
    BY <1>2, <2>1, <2>2 DEF EntryPlan, Part
<1>3. CASE c.op = "interest"
  <2>1. MovesBalance(w, rows.account, "INTEREST", MonthlyInterest(rows.account.balance)) /\ Usable(rows.account)
    BY <1>3, Zenon DEF PlanIs
  <2>2. w.entries # <<>> /\ w.entries[1].type = "INTEREST" /\ w.entries[1].amount = MonthlyInterest(rows.account.balance)
    BY <1>a, <2>1
  <2>3. QED
    BY <1>3, <2>1, <2>2 DEF EntryPlan, Part
<1>4. CASE c.op = "profile"
  <2>1. w.entries = <<>>
    BY <1>4 DEF PlanIs, Assigns
  <2>2. QED
    BY <1>4, <2>1 DEF EntryPlan
<1>5. CASE c.op = "password"
  <2>1. w.entries = <<>>
    BY <1>5 DEF PlanIs, Assigns
  <2>2. QED
    BY <1>5, <2>1 DEF EntryPlan
<1>6. CASE c.op = "close"
  <2>1. w.entries = <<>>
    BY <1>6 DEF PlanIs, Assigns
  <2>2. QED
    BY <1>6, <2>1 DEF EntryPlan
<1>7. CASE c.op = "freeze"
  <2>1. w.entries = <<>>
    BY <1>7 DEF PlanIs, Assigns
  <2>2. QED
    BY <1>7, <2>1 DEF EntryPlan
<1>8. CASE c.op = "unfreeze"
  <2>1. w.entries = <<>>
    BY <1>8 DEF PlanIs, Assigns
  <2>2. QED
    BY <1>8, <2>1 DEF EntryPlan
<1>9. CASE c.op = "delete"
  <2>1. w.entries = <<>>
    BY <1>9 DEF PlanIs, Assigns
  <2>2. QED
    BY <1>9, <2>1 DEF EntryPlan
<1>10. CASE c.op = "apply"
  <2>1. w.entries = <<>>
    BY <1>10 DEF PlanIs, Assigns
  <2>2. QED
    BY <1>10, <2>1 DEF EntryPlan
<1>11. CASE c.op = "approve"
  <2>1. MovesBalance(w, rows.account, "LOAN_DISBURSEMENT", rows.loan.principal) /\ Usable(rows.account)
    BY <1>11, Zenon DEF PlanIs
  <2>2. w.entries # <<>> /\ w.entries[1].type = "LOAN_DISBURSEMENT" /\ w.entries[1].amount = rows.loan.principal
    BY <1>a, <2>1
  <2>3. QED
    BY <1>11, <2>1, <2>2 DEF EntryPlan, Part
<1>12. CASE c.op = "reject"
  <2>1. w.entries = <<>>
    BY <1>12 DEF PlanIs, Assigns
  <2>2. QED
    BY <1>12, <2>1 DEF EntryPlan
<1>13. CASE c.op = "payEmi"
  <2>1. PICK payment \in Int : /\ w.loan = LoanColumns(RepaidLoan(rows.loan, payment))
                                 /\ MovesBalance(w, rows.account, "LOAN_REPAYMENT",
                                          Min({payment, rows.loan.remaining}))
    BY <1>13, Zenon DEF PlanIs
  <2> DEFINE new == RepaidLoan(rows.loan, payment)
             m == Min({payment, rows.loan.remaining})
  <2>2. Usable(rows.account)
    BY <1>13, Zenon DEF PlanIs
  <2>3. m \in Int /\ new \in LoanRow /\ new.paid = rows.loan.paid + m
    BY <1>0, RepaidRow
  <2>4. w.loan.paid = new.paid
    <3>1. w.loan = [status |-> new.status, principal |-> new.principal, emi |-> new.emi,
                    paid |-> new.paid, remaining |-> new.remaining, due |-> new.due]
      BY <2>1, <2>3, LoanColumnsOf
    <3> HIDE DEF new
    <3>2. QED
      BY <3>1
  <2>5. w.entries # <<>> /\ w.entries[1].type = "LOAN_REPAYMENT" /\ w.entries[1].amount = m
    BY <1>a, <2>1
  <2> HIDE DEF new, m
  <2>6. QED
    BY <1>0, <1>13, <2>2, <2>3, <2>4, <2>5 DEF EntryPlan, Part
<1>14. CASE c.op = "createGoal"
  <2>1. w.entries = <<>>
    BY <1>14 DEF PlanIs, Assigns
  <2>2. QED
    BY <1>14, <2>1 DEF EntryPlan
<1>15. CASE c.op = "contribute"
  <2>1. MovesBalance(w, rows.account, "TRANSFER_OUT", c.value) /\ TRUE
    BY <1>15, Zenon DEF PlanIs
  <2>2. w.entries # <<>> /\ w.entries[1].type = "TRANSFER_OUT" /\ w.entries[1].amount = c.value
    BY <1>a, <2>1
  <2>3. QED
    BY <1>15, <2>1, <2>2 DEF EntryPlan, Part
<1>16. CASE c.op = "deleteGoal"
  <2>1. w.entries = <<>>
    BY <1>16 DEF PlanIs, Assigns
  <2>2. QED
    BY <1>16, <2>1 DEF EntryPlan
<1>17. CASE c.op = "updateGoal"
  <2>1. w.entries = <<>>
    BY <1>17 DEF PlanIs, Assigns
  <2>2. QED
    BY <1>17, <2>1 DEF EntryPlan
<1>18. QED
  BY <1>1, <1>2, <1>3, <1>4, <1>5, <1>6, <1>7, <1>8, <1>9, <1>10, <1>11, <1>12, <1>13, <1>14, <1>15, <1>16, <1>17 DEF GoodCall, Ops

\* A plan for a goal.
GoalPlan(c, rows, w) ==
    /\ w.adds >= 0
    /\ c.op = "createGoal" =>
         /\ w.goal = [exists |-> TRUE, owner |-> c.acc, target |-> c.value, current |-> 0,
                      completed |-> FALSE]
         /\ w.adds = 0 /\ w.drops = FALSE /\ c.value > 0
    /\ c.op = "contribute" =>
         w.goal = <<>> /\ w.adds = c.value /\ w.drops = FALSE /\ c.value > 0
    /\ c.op = "deleteGoal" => w.goal = <<>> /\ w.adds = 0 /\ w.drops = TRUE
    /\ c.op = "updateGoal" =>
         /\ w.goal = [target |-> c.value, current |-> rows.goal.current,
                      completed |-> rows.goal.current >= c.value]
         /\ w.adds = 0 /\ w.drops = FALSE /\ c.value >= 0
    /\ c.op \in GoalCalls \ {"createGoal"} => rows.goal.exists

LEMMA PlanGoal ==
  ASSUME NEW c, GoodCall(c), NEW rows, GoodRows(rows), NEW w, PlanIs(c, rows, w)
  PROVE  GoalPlan(c, rows, w)
<1>1. c.value \in Int /\ (c.op = "updateGoal" => c.value >= 0)
  BY DEF GoodCall
<1>2. CASE c.op = "deposit"
  BY <1>1, <1>2 DEF PlanIs, GoalPlan, GoalCalls, GoalIdle
<1>3. CASE c.op = "withdraw"
  BY <1>1, <1>3 DEF PlanIs, GoalPlan, GoalCalls, GoalIdle
<1>4. CASE c.op = "interest"
  BY <1>1, <1>4 DEF PlanIs, GoalPlan, GoalCalls, GoalIdle
<1>5. CASE c.op = "profile"
  BY <1>1, <1>5 DEF PlanIs, GoalPlan, GoalCalls, GoalIdle
<1>6. CASE c.op = "password"
  BY <1>1, <1>6 DEF PlanIs, GoalPlan, GoalCalls, GoalIdle
<1>7. CASE c.op = "close"
  BY <1>1, <1>7 DEF PlanIs, GoalPlan, GoalCalls, GoalIdle
<1>8. CASE c.op = "freeze"
  BY <1>1, <1>8 DEF PlanIs, GoalPlan, GoalCalls, GoalIdle
<1>9. CASE c.op = "unfreeze"
  BY <1>1, <1>9 DEF PlanIs, GoalPlan, GoalCalls, GoalIdle
<1>10. CASE c.op = "delete"
  BY <1>1, <1>10 DEF PlanIs, GoalPlan, GoalCalls, GoalIdle
<1>11. CASE c.op = "apply"
  BY <1>1, <1>11 DEF PlanIs, GoalPlan, GoalCalls, GoalIdle
<1>12. CASE c.op = "approve"
  BY <1>1, <1>12 DEF PlanIs, GoalPlan, GoalCalls, GoalIdle
<1>13. CASE c.op = "reject"
  BY <1>1, <1>13 DEF PlanIs, GoalPlan, GoalCalls, GoalIdle
<1>14. CASE c.op = "payEmi"
  BY <1>1, <1>14 DEF PlanIs, GoalPlan, GoalCalls, GoalIdle
<1>15. CASE c.op = "createGoal"
  BY <1>1, <1>15 DEF PlanIs, GoalPlan, GoalCalls, GoalIdle
<1>16. CASE c.op = "contribute"
  BY <1>1, <1>16 DEF PlanIs, GoalPlan, GoalCalls, GoalIdle
<1>17. CASE c.op = "deleteGoal"
  BY <1>1, <1>17 DEF PlanIs, GoalPlan, GoalCalls, GoalIdle
<1>18. CASE c.op = "updateGoal"
  BY <1>1, <1>18 DEF PlanIs, GoalPlan, GoalCalls, GoalIdle
<1>19. QED
  BY <1>2, <1>3, <1>4, <1>5, <1>6, <1>7, <1>8, <1>9, <1>10, <1>11, <1>12, <1>13, <1>14, <1>15, <1>16, <1>17, <1>18 DEF GoodCall, Ops

-------------------------------------------------------------------------------
(* The rows a commit leaves, whatever was stored since they were read *)

\* The owner and the principal of a loan never change.
SameLoan(s, b) == s.owner # 0 => b.owner = s.owner /\ b.principal = s.principal

\* The loan a commit leaves, whatever was stored since the rows were read.
LoanLeft(c, r, new) ==
    /\ new \in LoanRow /\ SoundLoan(new)
    /\ new.owner = IF c.op = "apply" THEN c.acc ELSE r.owner
    /\ r.owner # 0 => new.owner = r.owner /\ new.principal = r.principal
    /\ c.op \notin LoanCalls => new = r
LoanReady(c, rows, w, b, r) ==
    /\ GoodCall(c) /\ GoodRows(rows) /\ PlanIs(c, rows, w)
    /\ b \in LoanRow /\ SoundLoan(b) /\ r \in LoanRow /\ SoundLoan(r)
    /\ rows.loan.owner # 0 => r.owner = rows.loan.owner /\ r.principal = rows.loan.principal
    /\ b.owner # 0 => r.owner = b.owner /\ r.principal = b.principal
    /\ SameLoan(rows.loan, b)
    /\ c.op = "apply" => r.owner = 0

LEMMA LoanCommitted ==
  ASSUME NEW c, NEW rows, NEW w, NEW b, NEW r, LoanReady(c, rows, w, b, r)
  PROVE  LoanLeft(c, r, UpdateRow(w.loan, b, r))
<1> DEFINE new == UpdateRow(w.loan, b, r)
<1> USE DEF LoanReady
<1>1. /\ TypedPlan(w) /\ ScopedPlan(c, w) /\ LoanPlan(c, rows, w)
      /\ c.acc \in Nat /\ c.acc # 0
  BY PlanTyped, PlanScoped, PlanLoan DEF GoodCall
<1>2. new \in LoanRow
  BY <1>1, LoanRowKept DEF TypedPlan
<1>3. CASE c.op \notin LoanCalls
  <2>1. w.loan = <<>>
    BY <1>1, <1>3 DEF ScopedPlan
  <2>2. new = r
    BY <2>1, UpdatedLoan DEF Assigned, LoanRow
  <2>3. QED
    BY <1>2, <1>3, <2>2 DEF LoanCalls, LoanLeft
<1>4. CASE c.op = "apply"
  <2>1. r = NoLoan /\ b = NoLoan
    BY <1>4 DEF SoundLoan
  <2>2. /\ w.loan \in LoanRow /\ w.loan.owner = c.acc /\ w.loan.status = "PENDING"
        /\ w.loan.paid = 0 /\ w.loan.remaining = w.loan.principal /\ w.loan.principal > 0
    BY <1>1, <1>4 DEF LoanPlan
  <2>3. new = w.loan
    <3>1. \A col \in {"owner", "status", "principal", "emi", "paid", "remaining", "due"} :
             Assigned(w.loan, b, r, col) = w.loan[col]
      BY <2>1, <2>2 DEF Assigned, LoanRow
    <3>2. new = [owner |-> w.loan.owner, status |-> w.loan.status,
                 principal |-> w.loan.principal, emi |-> w.loan.emi, paid |-> w.loan.paid,
                 remaining |-> w.loan.remaining, due |-> w.loan.due]
      BY <3>1, UpdatedLoan
    <3>3. QED
      BY <2>2, <3>2 DEF LoanRow
  <2> HIDE DEF new
  <2>4. SoundLoan(new) /\ new.owner = c.acc
    BY <1>1, <2>2, <2>3 DEF SoundLoan, LoanRow
  <2>5. QED
    BY <1>2, <1>4, <2>1, <2>4 DEF NoLoan, LoanCalls, LoanLeft, new
<1>5. CASE c.op \in LoanCalls \ {"apply"}
  <2>1. /\ w.loan \in RepaidColumns /\ w.loan.principal = rows.loan.principal
        /\ w.loan.paid + w.loan.remaining = rows.loan.principal
        /\ w.loan.status # "NONE" /\ rows.loan.owner # 0
    BY <1>1, <1>5 DEF LoanPlan
  <2>2. /\ r.owner # 0 /\ b.owner = r.owner /\ r.principal = rows.loan.principal
        /\ b.principal = r.principal
        /\ b.paid + b.remaining = r.principal /\ r.paid + r.remaining = r.principal
        /\ r.status # "NONE" /\ r.principal > 0
    BY <2>1 DEF SoundLoan, SameLoan
  <2>3. /\ new.owner = r.owner
        /\ new.principal = Assigned(w.loan, b, r, "principal")
        /\ new.paid = Assigned(w.loan, b, r, "paid")
        /\ new.remaining = Assigned(w.loan, b, r, "remaining")
        /\ new.status = Assigned(w.loan, b, r, "status")
    BY <2>1, UpdatedLoan DEF Assigned, RepaidColumns
  <2>4. /\ \A col \in {"principal", "paid", "remaining", "status"} :
             Assigned(w.loan, b, r, col) = IF w.loan[col] # b[col] THEN w.loan[col] ELSE r[col]
    BY <2>1 DEF Assigned, RepaidColumns
  <2> HIDE DEF new
  <2>5. /\ new.principal = r.principal /\ new.status # "NONE"
    BY <2>1, <2>2, <2>3, <2>4
  <2>6. new.paid + new.remaining = r.principal
    <3>1. /\ w.loan.paid \in Int /\ w.loan.remaining \in Int /\ b.paid \in Int
          /\ b.remaining \in Int /\ r.paid \in Int /\ r.remaining \in Int /\ r.principal \in Int
      BY <2>1 DEF RepaidColumns, LoanRow
    <3>2. w.loan.paid = b.paid <=> w.loan.remaining = b.remaining
      BY <2>1, <2>2, <3>1
    <3>3. QED
      BY <2>1, <2>2, <2>3, <2>4, <3>1, <3>2
  <2>7. QED
    BY <1>2, <1>5, <2>2, <2>3, <2>5, <2>6 DEF SoundLoan, LoanLeft, new
<1>6. QED
  BY <1>3, <1>4, <1>5

\* The goal a commit leaves, as CommitGoal has it.
GoalAfter(c, w, b, r) ==
    IF ~b.exists /\ c.op # "createGoal" THEN r
    ELSE IF w.drops THEN [r EXCEPT !.exists = FALSE]
    ELSE IF w.adds # 0 THEN UpdateRow(Contribution(b, w.adds), b, r)
    ELSE UpdateRow(w.goal, b, r)

GoalLeft(c, r, new) ==
    /\ new \in GoalRow /\ SoundGoal(new)
    /\ new.owner = IF c.op = "createGoal" THEN c.acc ELSE r.owner
    /\ r.owner # 0 => new.owner = r.owner
    /\ c.op \notin GoalCalls => new = r

GoalReady(c, rows, w, b, r) ==
    /\ GoodCall(c) /\ GoodRows(rows) /\ PlanIs(c, rows, w)
    /\ b \in GoalRow /\ SoundGoal(b) /\ r \in GoalRow /\ SoundGoal(r)
    /\ b.owner # 0 => r.owner = b.owner
    /\ c.op = "createGoal" => r.owner = 0

LEMMA GoalCommitted ==
  ASSUME NEW c, NEW rows, NEW w, NEW b, NEW r, GoalReady(c, rows, w, b, r)
  PROVE  GoalLeft(c, r, GoalAfter(c, w, b, r))
<1> DEFINE new == GoalAfter(c, w, b, r)
<1> USE DEF GoalReady
<1>1. /\ TypedPlan(w) /\ ScopedPlan(c, w) /\ GoalPlan(c, rows, w)
      /\ c.acc \in Nat /\ c.acc # 0 /\ c.value \in Int /\ rows.goal.current \in Nat
      /\ b.current \in Nat /\ r.current \in Nat
  BY PlanTyped, PlanScoped, PlanGoal, RowsTyped DEF GoodCall, SoundGoal, GoalRow
<1>2. CASE c.op \notin GoalCalls
  <2>1. w.goal = <<>> /\ w.adds = 0 /\ w.drops = FALSE
    BY <1>1, <1>2 DEF ScopedPlan, GoalIdle
  <2>2. UpdateRow(<<>>, b, r) = r
    BY UpdatedGoal DEF Assigned, GoalRow
  <2>3. new = r
    BY <2>1, <2>2 DEF GoalAfter
  <2>4. QED
    BY <1>2, <2>3 DEF GoalCalls, GoalLeft
<1>3. CASE c.op = "createGoal"
  <2>1. r = NoGoal /\ b = NoGoal
    BY <1>3 DEF SoundGoal
  <2>2. /\ w.goal = [exists |-> TRUE, owner |-> c.acc, target |-> c.value, current |-> 0,
                     completed |-> FALSE]
        /\ w.adds = 0 /\ w.drops = FALSE /\ c.value \in Nat /\ c.value # 0
    BY <1>1, <1>3 DEF GoalPlan
  <2>3. new = UpdateRow(w.goal, b, r)
    BY <1>3, <2>2 DEF GoalAfter
  <2>4. new = [exists |-> TRUE, owner |-> c.acc, target |-> c.value, current |-> 0,
               completed |-> FALSE]
    <3>1. /\ Assigned(w.goal, b, r, "exists") = TRUE
          /\ Assigned(w.goal, b, r, "owner") = c.acc
          /\ Assigned(w.goal, b, r, "target") = c.value
          /\ Assigned(w.goal, b, r, "current") = 0
          /\ Assigned(w.goal, b, r, "completed") = FALSE
      BY <1>1, <2>1, <2>2 DEF Assigned, NoGoal
    <3>2. QED
      BY <2>3, <3>1, UpdatedGoal
  <2> HIDE DEF new
  <2>5. new \in GoalRow /\ SoundGoal(new) /\ new.owner = c.acc
    BY <1>1, <2>2, <2>4 DEF GoalRow, SoundGoal
  <2>6. QED
    BY <1>3, <2>1, <2>5 DEF GoalCalls, NoGoal, GoalLeft, new
<1>4. CASE c.op \in GoalCalls \ {"createGoal"}
  <2>1. CASE ~b.exists
    BY <1>4, <2>1 DEF GoalAfter, GoalLeft
  <2>2. CASE b.exists
    <3>1. b.owner # 0 /\ r.owner # 0
      BY <2>2 DEF SoundGoal, NoGoal
    <3>2. CASE w.drops
      <4>1. new = [r EXCEPT !.exists = FALSE]
        BY <2>2, <3>2 DEF GoalAfter
      <4> HIDE DEF new
      <4>2. /\ new \in GoalRow /\ new.owner = r.owner /\ new.current = r.current
        BY <4>1 DEF GoalRow
      <4>3. QED
        BY <1>1, <1>4, <3>1, <4>2 DEF SoundGoal, GoalLeft, new
    <3>3. CASE ~w.drops /\ w.adds # 0
      <4> DEFINE cols == Contribution(b, w.adds)
      <4>1. new = UpdateRow(cols, b, r)
        BY <2>2, <3>3 DEF GoalAfter
      <4>2. /\ w.adds \in Nat /\ cols = [current |-> cols.current, completed |-> cols.completed]
            /\ cols.current = b.current + w.adds
            /\ cols.completed = (b.completed \/ cols.current >= b.target)
        BY <1>1 DEF Contribution, TypedPlan
      <4>3. cols.current \in Nat /\ cols.completed \in BOOLEAN
        BY <1>1, <4>2 DEF GoalRow
      <4> HIDE DEF cols
      <4>4. cols \in GoalWrites
        <5>1. \A x \in Int, y \in BOOLEAN :
                 [current |-> x, completed |-> y] \in [current : Int, completed : BOOLEAN]
          OBVIOUS
        <5>2. cols.current \in Int /\ cols.completed \in BOOLEAN
          BY <4>3
        <5>3. cols \in [current : Int, completed : BOOLEAN]
          BY <4>2, <5>1, <5>2, Zenon
        <5>4. QED
          BY <5>3, Zenon DEF GoalWrites
      <4>5. new \in GoalRow
        BY <4>1, <4>4, GoalRowKept
      <4>6. new.owner = r.owner /\ new.current = Assigned(cols, b, r, "current")
        BY <4>1, <4>2, UpdatedGoal DEF Assigned
      <4>7. new.current \in Nat
        BY <1>1, <4>2, <4>3, <4>6 DEF Assigned
      <4> HIDE DEF new
      <4>8. QED
        BY <1>4, <3>1, <4>5, <4>6, <4>7 DEF SoundGoal, GoalLeft, new
    <3>4. CASE ~w.drops /\ w.adds = 0
      <4>1. new = UpdateRow(w.goal, b, r)
        BY <2>2, <3>4 DEF GoalAfter
      <4>2. c.op = "updateGoal"
        BY <1>1, <1>4, <3>4 DEF GoalPlan, GoalCalls
      <4>3. w.goal = [target |-> c.value, current |-> rows.goal.current,
                      completed |-> rows.goal.current >= c.value]
        BY <1>1, <4>2 DEF GoalPlan
      <4>4. new \in GoalRow
        BY <1>1, <4>1, GoalRowKept DEF TypedPlan
      <4>5. new.owner = r.owner /\ new.current = Assigned(w.goal, b, r, "current")
        BY <4>1, <4>3, UpdatedGoal DEF Assigned
      <4>6. new.current \in Nat
        BY <1>1, <4>3, <4>5 DEF Assigned
      <4> HIDE DEF new
      <4>7. QED
        BY <1>4, <3>1, <4>4, <4>5, <4>6 DEF SoundGoal, GoalLeft, new
    <3>5. QED
      BY <1>1, <3>2, <3>3, <3>4 DEF TypedPlan
  <2>3. QED
    BY <2>1, <2>2
<1>5. QED
  BY <1>2, <1>3, <1>4

\* The account a commit leaves when its row is the one the service read.
AccountReady(c, rows, w) == GoodCall(c) /\ GoodRows(rows) /\ PlanIs(c, rows, w)
AccountLeft(c, rows, w, new) ==
    /\ new \in AccountRow
    /\ rows.account.deleted => new.deleted
    /\ new.balance = rows.account.balance + CreditOf(w.entries) + FromGoal(c, rows)
    /\ CreditOf(w.entries) + FromGoal(c, rows) \in Int
    /\ new.balance >= 0

LEMMA AccountMoves ==
  ASSUME NEW c, NEW rows, NEW w, AccountReady(c, rows, w)
  PROVE  AccountLeft(c, rows, w, UpdateRow(w.account, rows.account, rows.account))
<1> DEFINE r == rows.account
           new == UpdateRow(w.account, r, r)
<1>1. /\ GoodCall(c) /\ GoodRows(rows) /\ PlanIs(c, rows, w) /\ r \in AccountRow
      /\ w.account \in AccountWrites /\ AtMostOne(w.entries)
  BY PlanTyped DEF AccountReady, GoodRows, TypedPlan
<1>2. /\ Balance(w.account, r) = r.balance + CreditOf(w.entries) + FromGoal(c, rows)
      /\ Balance(w.account, r) >= 0
      /\ "deleted" \in DOMAIN w.account => w.account.deleted
  BY <1>1, PlanMoney DEF MoneyPlan
<1>3. new \in AccountRow /\ (r.deleted => new.deleted)
  BY <1>1, <1>2, AccountRowKept
<1>4. new.balance = Balance(w.account, r)
  BY <1>1, UpdatedAccount DEF Assigned, Balance
<1>5. CreditOf(w.entries) \in Int
  BY <1>1 DEF AtMostOne, CreditOf, Credit, Transaction
<1>6. FromGoal(c, rows) \in Int
  BY <1>1, RowsTyped DEF FromGoal
<1>7. QED
  BY <1>2, <1>3, <1>4, <1>5, <1>6 DEF AccountLeft


-------------------------------------------------------------------------------
(* The rows after a call that nothing has interfered with *)

\* Only a deletion assigns the column of deleted accounts.
LEMMA OnlyDeleteDeletes ==
  ASSUME NEW c, GoodCall(c), NEW rows, NEW w, PlanIs(c, rows, w), c.op # "delete"
  PROVE  "deleted" \notin DOMAIN w.account
<1>1. \A row : "deleted" \notin DOMAIN AccountColumns(row)
  BY DEF AccountColumns, Restrict
<1>2. CASE c.op \in {"deposit", "withdraw", "interest", "approve", "payEmi", "contribute"}
  <2>1. \E row : w.account = AccountColumns(row)
    BY <1>2, Zenon DEF PlanIs, MovesBalance
  <2>2. QED
    BY <1>1, <2>1
<1>3. CASE c.op \in {"profile", "password", "close"}
  <2>1. \E row : w.account = AccountColumns(row)
    BY <1>3, Zenon DEF PlanIs, Assigns
  <2>2. QED
    BY <1>1, <2>1
<1>4. CASE c.op = "deleteGoal"
  <2>1. w.account = <<>> \/ \E row : w.account = AccountColumns(row)
    BY <1>4, Zenon DEF PlanIs, Assigns
  <2>2. QED
    BY <1>1, <2>1
<1>5. CASE c.op \in {"apply", "reject", "createGoal", "updateGoal"}
  BY <1>5 DEF PlanIs, Assigns
<1>6. CASE c.op \in {"freeze", "unfreeze"}
  BY <1>6 DEF PlanIs, Assigns
<1>7. QED
  BY <1>2, <1>3, <1>4, <1>5, <1>6 DEF GoodCall, Ops

\* What a goal holds for its owner, and what a call takes out of it.
Worth(g) == IF g.exists THEN g.current ELSE 0
TakenFrom(c, g) == CASE c.op = "contribute" -> -c.value
                     [] c.op = "deleteGoal" -> g.current
                     [] OTHER -> 0

LEMMA GoalWorth ==
  ASSUME NEW c, NEW rows, NEW w, GoalReady(c, rows, w, rows.goal, rows.goal)
  PROVE  LET new == GoalAfter(c, w, rows.goal, rows.goal) IN
         /\ Worth(rows.goal) \in Int /\ TakenFrom(c, rows.goal) \in Int
         /\ Worth(new) = Worth(rows.goal) - TakenFrom(c, rows.goal)
<1> DEFINE r == rows.goal
           new == GoalAfter(c, w, r, r)
<1>1. /\ GoodCall(c) /\ GoodRows(rows) /\ PlanIs(c, rows, w) /\ r \in GoalRow
      /\ c.op = "createGoal" => r = NoGoal
      /\ c.value \in Int /\ c.acc \in Nat /\ r.current \in Nat /\ r.exists \in BOOLEAN
  BY RowsTyped DEF GoalReady, SoundGoal
<1>2. GoalPlan(c, rows, w) /\ ScopedPlan(c, w)
  BY <1>1, PlanGoal, PlanScoped
<1> HIDE DEF r
<1>3. CASE c.op \notin GoalCalls
  <2>1. w.goal = <<>> /\ w.adds = 0 /\ w.drops = FALSE
    BY <1>2, <1>3 DEF ScopedPlan, GoalIdle
  <2>2. UpdateRow(<<>>, r, r) = r
    BY <1>1, UpdatedGoal DEF Assigned, GoalRow
  <2>3. new = r
    BY <2>1, <2>2 DEF GoalAfter
  <2>4. QED
    BY <1>1, <1>3, <2>3 DEF GoalCalls, Worth, TakenFrom, r
<1>4. CASE c.op = "createGoal"
  <2>1. r = NoGoal
    BY <1>1, <1>4
  <2>2. /\ w.goal = [exists |-> TRUE, owner |-> c.acc, target |-> c.value, current |-> 0,
                     completed |-> FALSE]
        /\ w.adds = 0 /\ w.drops = FALSE
    BY <1>2, <1>4 DEF GoalPlan
  <2>3. new = UpdateRow(w.goal, r, r)
    BY <1>4, <2>2 DEF GoalAfter
  <2>4. new.current = 0
    BY <1>1, <2>1, <2>2, <2>3, UpdatedGoal DEF Assigned, NoGoal
  <2>5. QED
    BY <1>4, <2>1, <2>4 DEF Worth, TakenFrom, NoGoal, r
<1>5. CASE c.op = "contribute"
  <2>1. r.exists /\ w.adds = c.value /\ w.drops = FALSE /\ c.value > 0
    BY <1>2, <1>5 DEF GoalPlan, GoalCalls, r
  <2>2. new = UpdateRow(Contribution(r, w.adds), r, r)
    BY <1>5, <2>1 DEF GoalAfter
  <2> DEFINE cols == Contribution(r, w.adds)
  <2>3. /\ cols = [current |-> cols.current, completed |-> cols.completed]
        /\ cols.current = r.current + c.value
    BY <2>1 DEF Contribution
  <2> HIDE DEF cols
  <2>4. /\ new.current = Assigned(cols, r, r, "current")
        /\ new.exists = Assigned(cols, r, r, "exists")
    BY <1>1, <2>2, UpdatedGoal DEF cols
  <2>5. new.current = r.current + c.value /\ new.exists
    BY <1>1, <2>1, <2>3, <2>4 DEF Assigned
  <2>6. QED
    BY <1>1, <1>5, <2>1, <2>5 DEF Worth, TakenFrom, r
<1>6. CASE c.op = "deleteGoal"
  <2>1. r.exists /\ w.drops = TRUE
    BY <1>2, <1>6 DEF GoalPlan, GoalCalls, r
  <2>2. new = [r EXCEPT !.exists = FALSE]
    BY <2>1 DEF GoalAfter
  <2>3. new.exists = FALSE
    BY <1>1, <2>2 DEF GoalRow
  <2>4. QED
    BY <1>1, <1>6, <2>1, <2>3 DEF Worth, TakenFrom, r
<1>7. CASE c.op = "updateGoal"
  <2>1. /\ w.goal = [target |-> c.value, current |-> r.current,
                     completed |-> r.current >= c.value]
        /\ w.adds = 0 /\ w.drops = FALSE /\ r.exists
    BY <1>2, <1>7 DEF GoalPlan, GoalCalls, r
  <2>2. new = UpdateRow(w.goal, r, r)
    BY <2>1 DEF GoalAfter
  <2>3. new.current = r.current /\ new.exists
    BY <1>1, <2>1, <2>2, UpdatedGoal DEF Assigned
  <2>4. QED
    BY <1>1, <1>7, <2>1, <2>3 DEF Worth, TakenFrom, r
<1>8. QED
  BY <1>3, <1>4, <1>5, <1>6, <1>7 DEF GoalCalls

\* A call whose new ids are free keeps the rows sound, keeps the money of its account and
\* its goal together, and leaves alone what is not its own.
Served(c, rows, w, after) ==
    /\ GoodRows(after) /\ AtMostOne(w.entries) /\ CreditOf(w.entries) \in Int
    /\ LoanLeft(c, rows.loan, after.loan) /\ GoalLeft(c, rows.goal, after.goal)
    /\ rows.account.deleted => after.account.deleted
    /\ after.account.deleted => rows.account.deleted \/ c.op = "delete"
    /\ after.account.balance = rows.account.balance + CreditOf(w.entries) + FromGoal(c, rows)
    /\ ~rows.account.deleted =>
           after.account.balance + Worth(after.goal)
               = rows.account.balance + Worth(rows.goal) + CreditOf(w.entries)

LEMMA CallServed ==
  ASSUME NEW c, GoodCall(c), NEW rows, GoodRows(rows), Decision(c, rows).ok,
         c.op = "apply" => rows.loan.owner = 0, c.op = "createGoal" => rows.goal.owner = 0
  PROVE  Served(c, rows, Decision(c, rows).writes,
                RowsAfter(c.op, rows, Decision(c, rows).writes))
<1> DEFINE w == Decision(c, rows).writes
           after == RowsAfter(c.op, rows, w)
<1>1. PlanIs(c, rows, w)
  BY AcceptedPlan
<1> HIDE DEF w
<1>2. TypedPlan(w) /\ GoalPlan(c, rows, w) /\ ScopedPlan(c, w)
  BY <1>1, PlanTyped, PlanGoal, PlanScoped
<1>3. /\ rows.account \in AccountRow /\ rows.loan \in LoanRow /\ rows.goal \in GoalRow
      /\ SoundLoan(rows.loan) /\ SoundGoal(rows.goal) /\ rows.account.balance \in Int
      /\ rows.goal.exists \in BOOLEAN
  BY RowsTyped DEF GoodRows
<1>4. /\ after.account = UpdateRow(w.account, rows.account, rows.account)
      /\ after.loan = UpdateRow(w.loan, rows.loan, rows.loan)
  BY DEF RowsAfter
<1>5. after.goal = GoalAfter(c, w, rows.goal, rows.goal)
  <2>1. w.drops => rows.goal.exists
    <3>1. CASE c.op \in GoalCalls
      BY <1>2, <3>1 DEF GoalPlan, GoalCalls
    <3>2. CASE c.op \notin GoalCalls
      BY <1>2, <3>2 DEF ScopedPlan, GoalIdle
    <3>3. QED
      BY <3>1, <3>2
  <2>2. w.adds # 0 => rows.goal.exists
    <3>1. CASE c.op \in GoalCalls
      BY <1>2, <3>1 DEF GoalPlan, GoalCalls
    <3>2. CASE c.op \notin GoalCalls
      BY <1>2, <3>2 DEF ScopedPlan, GoalIdle
    <3>3. QED
      BY <3>1, <3>2
  <2>3. QED
    BY <2>1, <2>2 DEF RowsAfter, GoalAfter
<1> HIDE DEF after
<1>6. AccountLeft(c, rows, w, after.account)
  <2>1. AccountReady(c, rows, w)
    BY <1>1, Zenon DEF AccountReady
  <2>2. QED
    BY <1>4, <2>1, AccountMoves, Zenon
<1>7. LoanLeft(c, rows.loan, after.loan)
  <2>1. LoanReady(c, rows, w, rows.loan, rows.loan)
    BY <1>1, <1>3, Zenon DEF LoanReady, SameLoan
  <2>2. QED
    BY <1>4, <2>1, LoanCommitted, Zenon
<1>8. GoalReady(c, rows, w, rows.goal, rows.goal)
  BY <1>1, <1>3, Zenon DEF GoalReady
<1>9. GoalLeft(c, rows.goal, after.goal)
  BY <1>5, <1>8, GoalCommitted, Zenon
<1>10. /\ Worth(rows.goal) \in Int /\ TakenFrom(c, rows.goal) \in Int
       /\ Worth(after.goal) = Worth(rows.goal) - TakenFrom(c, rows.goal)
  BY <1>5, <1>8, GoalWorth
<1>11. AtMostOne(w.entries) /\ CreditOf(w.entries) \in Int
  <2>1. AtMostOne(w.entries)
    BY <1>2 DEF TypedPlan
  <2>2. QED
    BY <2>1 DEF AtMostOne, CreditOf, Credit, Transaction
<1>12. after.account.deleted => rows.account.deleted \/ c.op = "delete"
  <2>1. ASSUME c.op # "delete" PROVE after.account.deleted = rows.account.deleted
    BY <1>1, <1>3, <1>4, <2>1, OnlyDeleteDeletes, UpdatedAccount DEF Assigned
  <2>2. QED
    BY <2>1
<1>13. GoodRows(after)
  BY <1>6, <1>7, <1>9 DEF GoodRows, AccountLeft, LoanLeft, GoalLeft
<1>14. ASSUME ~rows.account.deleted
       PROVE  after.account.balance + Worth(after.goal)
                  = rows.account.balance + Worth(rows.goal) + CreditOf(w.entries)
  <2>1. FromGoal(c, rows) = TakenFrom(c, rows.goal)
    BY <1>14 DEF FromGoal, TakenFrom
  <2>2. after.account.balance = rows.account.balance + CreditOf(w.entries) + FromGoal(c, rows)
    BY <1>6 DEF AccountLeft
  <2>3. QED
    BY <1>3, <1>10, <1>11, <2>1, <2>2
<1>15. QED
  BY <1>6, <1>7, <1>9, <1>11, <1>12, <1>13, <1>14 DEF Served, AccountLeft, w, after

\* What a granted transfer has checked, and the entries of its two legs.
LEMMA TransferGranted ==
  ASSUME NEW s \in AccountRow, NEW r \in AccountRow, NEW same \in BOOLEAN, NEW v \in Int,
         TransferDecision(s, r, same, v).ok
  PROVE  /\ v > 0 /\ ~same /\ ~s.deleted /\ ~r.deleted /\ v <= s.balance
         /\ TransferDecision(s, r, same, v).writes.entries = <<EntryFor(s, "TRANSFER_OUT", v)>>
<1>0. \A why : ~Refused(why).ok
  BY DEF Refused
<1>1. /\ v > 0 /\ ~same /\ ~s.deleted /\ ~r.deleted /\ v <= s.balance
      /\ TransferDecision(s, r, same, v) = Done(MoveMoney(s, "TRANSFER_OUT", v))
  <2>1. /\ ~(v <= 0) /\ ~same /\ ~(s.deleted \/ r.deleted) /\ ~(v > s.balance)
        /\ TransferDecision(s, r, same, v) = Done(MoveMoney(s, "TRANSFER_OUT", v))
    BY <1>0, Zenon DEF TransferDecision
  <2>2. QED
    BY <2>1 DEF AccountRow
<1>2. MoveMoney(s, "TRANSFER_OUT", v).entries = <<EntryFor(s, "TRANSFER_OUT", v)>>
  BY DEF MoveMoney, NoWrites
<1>3. QED
  BY <1>1, <1>2 DEF Done

LEMMA TransferLegs ==
  ASSUME NEW s \in AccountRow, NEW v \in Int
  PROVE  /\ EntryFor(s, "TRANSFER_OUT", v) \in Transaction
         /\ EntryFor(s, "TRANSFER_OUT", v).balance = s.balance - v
         /\ EntryFor(s, "TRANSFER_IN", v) \in Transaction
         /\ EntryFor(s, "TRANSFER_IN", v).balance = s.balance + v
         /\ Credit(EntryFor(s, "TRANSFER_OUT", v)) = 0 /\ Credit(EntryFor(s, "TRANSFER_IN", v)) = 0
BY DEF AccountRow, EntryFor, Transaction, TransactionType, Credit

\* One more entry, or none, in a statement.
LEMMA StatementGrows ==
  ASSUME NEW s \in Seq(Transaction), NEW e, AtMostOne(e)
  PROVE  s \o e \in Seq(Transaction)
<1>1. CASE e = <<>>
  BY <1>1
<1>2. ASSUME NEW x \in Transaction, e = <<x>> PROVE s \o e \in Seq(Transaction)
  <2>1. <<x>> \in Seq(Transaction)
    OBVIOUS
  <2> HIDE DEF Transaction
  <2>2. QED
    BY <1>2, <2>1
<1>3. QED
  BY <1>1, <1>2 DEF AtMostOne
===============================================================================
