-------------------------- MODULE CapitalProofs --------------------------
(***************************************************************************)
(* Proofs about money: what capital-service reserves and how far it can    *)
(* overshoot its ceiling, the relay that gives back what was reserved, the *)
(* portfolio ledger and the gate on the cost of a trade, for any rows,     *)
(* requests, amounts, drains and batch size.                               *)
(***************************************************************************)
EXTENDS Capital, Settlement, Pricing, Ledger,
        FiniteSetTheorems, WellFoundedInduction, TLAPS

-----------------------------------------------------------------------------
(***************************************************************************)
(* Sums over finite sets.  A nonempty set of subsets of a finite set has a  *)
(* smallest element: the induction the sums below need.                    *)
(***************************************************************************)
LEMMA SmallestNumber ==
  ASSUME NEW T \in SUBSET Nat, T # {}
  PROVE  \E n \in T : \A k \in T : n <= k
<1>1. PICK n \in T : \A y \in T : ~ (<<y, n>> \in OpToRel(<, Nat))
  BY NatLessThanWellFounded, WFMin
<1>2. \A k \in T : ~ (k < n)
  BY <1>1 DEF OpToRel
<1>3. QED
  BY <1>2

LEMMA SmallestSubset ==
  ASSUME NEW F, IsFiniteSet(F), NEW T \in SUBSET (SUBSET F), T # {}
  PROVE  \E m \in T : \A t \in SUBSET m : t # m => t \notin T
<1>1. \A t \in SUBSET F : IsFiniteSet(t) /\ Cardinality(t) \in Nat
  BY FS_Subset, FS_CardinalityType
<1>2. {Cardinality(t) : t \in T} \in SUBSET Nat /\ {Cardinality(t) : t \in T} # {}
  BY <1>1
<1>3. PICK n \in {Cardinality(t) : t \in T} : \A k \in {Cardinality(t) : t \in T} : n <= k
  BY <1>2, SmallestNumber
<1>4. PICK m \in T : n = Cardinality(m)
  BY <1>3
<1>5. ASSUME NEW t \in SUBSET m, t # m, t \in T PROVE FALSE
  <2>1. Cardinality(m) <= Cardinality(t) /\ Cardinality(t) <= Cardinality(m)
    BY <1>1, <1>3, <1>4, <1>5, FS_Subset
  <2>2. Cardinality(m) = Cardinality(t)
    BY <1>1, <1>4, <1>5, <2>1
  <2>3. QED
    BY <1>1, <1>4, <1>5, <2>2, FS_Subset
<1>6. QED
  BY <1>4, <1>5

Some(s) == CHOOSE x \in s : TRUE
SumStep(g, v, s) == IF s = {} THEN 0 ELSE v[Some(s)] + g[s \ {Some(s)}]
IsSum(g, v, F) == g = [s \in SUBSET F |-> SumStep(g, v, s)]
UpTo(F, n) == {s \in SUBSET F : Cardinality(s) <= n}
IsSumUpTo(g, v, F, n) == g = [s \in UpTo(F, n) |-> SumStep(g, v, s)]

\* The recursion of the sum has a solution.
LEMMA SumExists ==
  ASSUME NEW F, IsFiniteSet(F), NEW v
  PROVE  \E g : IsSum(g, v, F)
<1>1. \A s \in SUBSET F : IsFiniteSet(s) /\ Cardinality(s) \in Nat
  BY FS_Subset, FS_CardinalityType
<1>2. \E g : IsSumUpTo(g, v, F, 0)
  <2>1. \A s \in UpTo(F, 0) : s = {}
    BY <1>1, FS_EmptySet DEF UpTo
  <2>2. IsSumUpTo([s \in UpTo(F, 0) |-> 0], v, F, 0)
    BY <2>1 DEF IsSumUpTo, SumStep
  <2>3. QED
    BY <2>2
<1>3. ASSUME NEW n \in Nat, NEW g, IsSumUpTo(g, v, F, n)
      PROVE  \E h : IsSumUpTo(h, v, F, n + 1)
  <2>1. PICK h : h = [s \in UpTo(F, n + 1) |-> SumStep(g, v, s)]
    OBVIOUS
  <2>2. ASSUME NEW s \in UpTo(F, n) PROVE s \in UpTo(F, n + 1) /\ h[s] = g[s]
    <3>1. s \in UpTo(F, n + 1)
      BY <1>1, <2>2 DEF UpTo
    <3>2. QED
      BY <1>3, <2>1, <3>1 DEF IsSumUpTo
  <2>3. ASSUME NEW s \in UpTo(F, n + 1), s # {} PROVE h[s \ {Some(s)}] = g[s \ {Some(s)}]
    <3>1. Some(s) \in s
      BY <2>3 DEF Some
    <3>2. s \ {Some(s)} \in UpTo(F, n)
      BY <1>1, <2>3, <3>1, FS_RemoveElement DEF UpTo
    <3>3. QED
      BY <2>2, <3>2
  <2>4. \A s \in UpTo(F, n + 1) : SumStep(g, v, s) = SumStep(h, v, s)
    BY <2>3 DEF SumStep
  <2>5. IsSumUpTo(h, v, F, n + 1)
    BY <2>1, <2>4 DEF IsSumUpTo
  <2>6. QED
    BY <2>5
<1>4. \A n \in Nat : \E g : IsSumUpTo(g, v, F, n)
  <2>1. PICK T : T = {n \in Nat : ~ \E g : IsSumUpTo(g, v, F, n)}
    OBVIOUS
  <2>2. SUFFICES ASSUME T # {} PROVE FALSE
    BY <2>1
  <2>3. PICK n \in T : \A k \in T : n <= k
    BY <2>1, <2>2, SmallestNumber
  <2>4. n \in Nat /\ n # 0
    BY <1>2, <2>1, <2>3
  <2>5. n - 1 \in Nat /\ n - 1 \notin T
    BY <2>1, <2>3, <2>4
  <2>6. PICK g : IsSumUpTo(g, v, F, n - 1)
    BY <2>1, <2>5
  <2>7. \E h : IsSumUpTo(h, v, F, (n - 1) + 1)
    BY <1>3, <2>5, <2>6
  <2>8. QED
    BY <2>1, <2>3, <2>4, <2>7
<1>5. UpTo(F, Cardinality(F)) = SUBSET F
  BY FS_Subset DEF UpTo
<1>6. PICK g : IsSumUpTo(g, v, F, Cardinality(F))
  BY <1>1, <1>4
<1>7. IsSum(g, v, F)
  BY <1>5, <1>6 DEF IsSum, IsSumUpTo
<1>8. QED
  BY <1>7

LEMMA SumEquation ==
  ASSUME NEW F, NEW v, NEW g, IsSum(g, v, F), NEW s \in SUBSET F
  PROVE  /\ s = {} => g[s] = 0
         /\ s # {} => Some(s) \in s /\ g[s] = v[Some(s)] + g[s \ {Some(s)}]
BY DEF IsSum, SumStep, Some

LEMMA SumIsNatural ==
  ASSUME NEW F, IsFiniteSet(F), NEW v, \A x \in F : v[x] \in Nat, NEW g, IsSum(g, v, F)
  PROVE  \A s \in SUBSET F : g[s] \in Nat
<1>1. PICK T : T = {s \in SUBSET F : g[s] \notin Nat}
  OBVIOUS
<1>2. SUFFICES ASSUME T # {} PROVE FALSE
  BY <1>1
<1>3. PICK m \in T : \A t \in SUBSET m : t # m => t \notin T
  BY <1>1, <1>2, SmallestSubset
<1>4. m # {} /\ Some(m) \in m /\ g[m] = v[Some(m)] + g[m \ {Some(m)}]
  BY <1>1, <1>3, SumEquation
<1>5. g[m \ {Some(m)}] \in Nat
  BY <1>1, <1>3, <1>4
<1>6. QED
  BY <1>1, <1>3, <1>4, <1>5

\* The sums over two sets agree where both are defined.
LEMMA SumIsOne ==
  ASSUME NEW F, IsFiniteSet(F), NEW S \in SUBSET F, NEW v,
         NEW g, IsSum(g, v, S), NEW h, IsSum(h, v, F)
  PROVE  \A s \in SUBSET S : g[s] = h[s]
<1>1. PICK T : T = {s \in SUBSET S : g[s] # h[s]}
  OBVIOUS
<1>2. SUFFICES ASSUME T # {} PROVE FALSE
  BY <1>1
<1>3. IsFiniteSet(S)
  BY FS_Subset
<1>4. PICK m \in T : \A t \in SUBSET m : t # m => t \notin T
  BY <1>1, <1>2, <1>3, SmallestSubset
<1>5. m \in SUBSET S /\ m \in SUBSET F /\ g[m] # h[m]
  BY <1>1
<1>6. m = {} => g[m] = 0 /\ h[m] = 0
  BY <1>5, SumEquation
<1>7. m # {} /\ Some(m) \in m /\ g[m] = v[Some(m)] + g[m \ {Some(m)}]
  BY <1>5, <1>6, SumEquation
<1>8. h[m] = v[Some(m)] + h[m \ {Some(m)}]
  BY <1>5, <1>7, SumEquation
<1>9. g[m \ {Some(m)}] = h[m \ {Some(m)}]
  BY <1>1, <1>4, <1>5, <1>7
<1>10. QED
  BY <1>5, <1>7, <1>8, <1>9

\* The order of the summands does not matter.
LEMMA SumAnyOrder ==
  ASSUME NEW F, IsFiniteSet(F), NEW v, \A x \in F : v[x] \in Nat, NEW g, IsSum(g, v, F)
  PROVE  \A s \in SUBSET F : \A y \in s : g[s] = v[y] + g[s \ {y}]
<1>1. PICK T : T = {s \in SUBSET F : \E y \in s : g[s] # v[y] + g[s \ {y}]}
  OBVIOUS
<1>2. SUFFICES ASSUME T # {} PROVE FALSE
  BY <1>1
<1>3. T \in SUBSET (SUBSET F)
  BY <1>1
<1>4. PICK m \in T : \A t \in SUBSET m : t # m => t \notin T
  BY <1>2, <1>3, SmallestSubset
<1>5. PICK y \in m : g[m] # v[y] + g[m \ {y}]
  BY <1>1
<1>6. PICK x : x = Some(m)
  OBVIOUS
<1>7. m \in SUBSET F /\ m # {}
  BY <1>1, <1>5
<1>8. x \in m /\ g[m] = v[x] + g[m \ {x}]
  BY <1>6, <1>7, SumEquation
<1>9. x # y
  BY <1>5, <1>8
<1>10. m \ {x} \notin T /\ m \ {y} \notin T /\ m \ {x} \in SUBSET F /\ m \ {y} \in SUBSET F
  BY <1>1, <1>4, <1>5, <1>8
<1>11. g[m \ {x}] = v[y] + g[(m \ {x}) \ {y}] /\ g[m \ {y}] = v[x] + g[(m \ {y}) \ {x}]
  BY <1>1, <1>5, <1>8, <1>9, <1>10
<1>12. (m \ {x}) \ {y} = (m \ {y}) \ {x} /\ (m \ {x}) \ {y} \in SUBSET F
  BY <1>10
<1>13. PICK rest, a, b : rest = g[(m \ {x}) \ {y}] /\ a = v[x] /\ b = v[y]
  OBVIOUS
<1>14. rest \in Nat /\ a \in Nat /\ b \in Nat
  <2>1. x \in F /\ y \in F
    BY <1>1, <1>5, <1>8
  <2>2. QED
    BY <1>12, <1>13, <2>1, SumIsNatural
<1>15. g[m] = a + (b + rest) /\ v[y] + g[m \ {y}] = b + (a + rest)
  BY <1>8, <1>11, <1>12, <1>13
<1>16. a + (b + rest) = b + (a + rest)
  BY <1>14
<1>17. QED
  BY <1>5, <1>15, <1>16

Total(v, S) == MapThenSumSet(LAMBDA x : v[x], S)

LEMMA TotalIsSum ==
  ASSUME NEW S, IsFiniteSet(S), NEW v
  PROVE  \E g : IsSum(g, v, S) /\ Total(v, S) = g[S]
<1>1. PICK g : g = CHOOSE h : IsSum(h, v, S)
  OBVIOUS
<1>2. IsSum(g, v, S)
  BY <1>1, SumExists
<1>3. Total(v, S) = g[S]
  BY <1>1 DEF Total, MapThenSumSet, MapThenFoldSet, IsSum, SumStep, Some
<1>4. QED
  BY <1>2, <1>3

\* A sum over a finite set of natural numbers is one, and grows by what is added.
LEMMA TotalGrows ==
  ASSUME NEW S, IsFiniteSet(S), NEW x, x \notin S, NEW v, \A y \in S \cup {x} : v[y] \in Nat
  PROVE  Total(v, S) \in Nat /\ Total(v, S \cup {x}) = Total(v, S) + v[x]
<1>1. PICK F : F = S \cup {x}
  OBVIOUS
<1>2. IsFiniteSet(F) /\ S \in SUBSET F
  BY <1>1, FS_AddElement
<1>3. PICK g : IsSum(g, v, S) /\ Total(v, S) = g[S]
  BY TotalIsSum
<1>4. PICK h : IsSum(h, v, F) /\ Total(v, F) = h[F]
  BY <1>2, TotalIsSum
<1>5. g[S] = h[S] /\ g[S] \in Nat
  BY <1>2, <1>3, <1>4, SumIsOne, SumIsNatural
<1>6. x \in F /\ F \ {x} = S
  BY <1>1
<1>7. h[F] = v[x] + h[F \ {x}]
  BY <1>1, <1>2, <1>4, <1>6, SumAnyOrder
<1>8. v[x] \in Nat
  OBVIOUS
<1>9. PICK a, b : a = g[S] /\ b = v[x]
  OBVIOUS
<1>10. Total(v, S) = a /\ Total(v, S \cup {x}) = b + a /\ a \in Nat /\ b \in Nat
  BY <1>1, <1>3, <1>4, <1>5, <1>6, <1>7, <1>8, <1>9
<1>11. QED
  BY <1>9, <1>10

LEMMA TotalIsNatural ==
  ASSUME NEW S, IsFiniteSet(S), NEW v, \A y \in S : v[y] \in Nat
  PROVE  Total(v, S) \in Nat
<1>1. PICK g : IsSum(g, v, S) /\ Total(v, S) = g[S]
  BY TotalIsSum
<1>2. QED
  BY <1>1, SumIsNatural

LEMMA NothingIsZero == ASSUME NEW v PROVE Total(v, {}) = 0
<1>1. PICK g : IsSum(g, v, {}) /\ Total(v, {}) = g[{}]
  BY TotalIsSum, FS_EmptySet
<1>2. {} \in SUBSET {}
  OBVIOUS
<1>3. QED
  BY <1>1, <1>2, SumEquation


\* A finite set of integers that is not empty has a greatest element.
LEMMA MaxIsReached ==
  ASSUME NEW S \in SUBSET Int, IsFiniteSet(S), S # {}
  PROVE  Max(S) \in S /\ \A y \in S : y <= Max(S)
<1>1. PICK T : T = {s \in SUBSET S : s # {} /\ ~ \E x \in s : \A y \in s : x >= y}
  OBVIOUS
<1>2. T = {}
  <2>1. SUFFICES ASSUME T # {} PROVE FALSE
    OBVIOUS
  <2>2. PICK m \in T : \A t \in SUBSET m : t # m => t \notin T
    <3>1. T \in SUBSET (SUBSET S)
      BY <1>1
    <3>2. QED
      BY <2>1, <3>1, SmallestSubset
  <2>3. PICK x \in m : TRUE
    BY <1>1, <2>2
  <2>4. PICK rest : rest = m \ {x}
    OBVIOUS
  <2>5. rest \in SUBSET m /\ rest # m /\ rest \in SUBSET S
    BY <1>1, <2>2, <2>3, <2>4
  <2>6. rest = {} \/ \E z \in rest : \A y \in rest : z >= y
    BY <1>1, <2>2, <2>5
  <2>7. m \in SUBSET Int /\ \A y \in m : y = x \/ y \in rest
    BY <1>1, <2>4
  <2>8. CASE rest = {}
    BY <1>1, <2>2, <2>3, <2>7, <2>8
  <2>9. CASE rest # {}
    <3>1. PICK z \in rest : \A y \in rest : z >= y
      BY <2>6, <2>9
    <3>2. z \in m /\ x \in Int /\ z \in Int
      BY <2>3, <2>5, <2>7, <3>1
    <3>3. (\A y \in m : x >= y) \/ (\A y \in m : z >= y)
      BY <2>5, <2>7, <3>1, <3>2
    <3>4. QED
      BY <1>1, <2>2, <2>3, <3>2, <3>3
  <2>10. QED
    BY <2>8, <2>9
<1>3. \E x \in S : \A y \in S : x >= y
  BY <1>1, <1>2
<1>4. Max(S) \in S /\ \A y \in S : Max(S) >= y
  BY <1>3 DEF Max
<1>5. QED
  BY <1>4

\* Disjoint parts add up.
LEMMA TotalSplits ==
  ASSUME NEW A, NEW B, IsFiniteSet(A), IsFiniteSet(B), A \cap B = {},
         NEW v, \A x \in A \cup B : v[x] \in Nat
  PROVE  Total(v, A \cup B) = Total(v, A) + Total(v, B)
<1>1. PICK T : T = {s \in SUBSET B : Total(v, A \cup s) # Total(v, A) + Total(v, s)}
  OBVIOUS
<1>2. SUFFICES ASSUME T # {} PROVE FALSE
  BY <1>1
<1>3. PICK m \in T : \A t \in SUBSET m : t # m => t \notin T
  <2>1. T \in SUBSET (SUBSET B)
    BY <1>1
  <2>2. QED
    BY <1>2, <2>1, SmallestSubset
<1>4. Total(v, A) \in Nat
  BY TotalIsNatural
<1>5. m # {}
  <2>1. Total(v, A \cup {}) = Total(v, A) + Total(v, {})
    BY <1>4, NothingIsZero
  <2>2. QED
    BY <1>1, <1>3, <2>1
<1>6. PICK x \in m : TRUE
  BY <1>5
<1>7. PICK rest : rest = m \ {x}
  OBVIOUS
<1>8. /\ rest \in SUBSET m /\ rest \in SUBSET B /\ rest # m /\ x \notin rest /\ m = rest \cup {x}
      /\ x \in B /\ x \notin A
  BY <1>1, <1>3, <1>6, <1>7
<1>9. Total(v, A \cup rest) = Total(v, A) + Total(v, rest)
  BY <1>1, <1>3, <1>8
<1>10. IsFiniteSet(rest) /\ IsFiniteSet(A \cup rest)
  BY <1>8, FS_Subset, FS_Union
<1>11. Total(v, rest) \in Nat /\ Total(v, m) = Total(v, rest) + v[x]
  BY <1>8, <1>10, TotalGrows
<1>12. x \notin A \cup rest /\ \A y \in (A \cup rest) \cup {x} : v[y] \in Nat
  BY <1>8
<1>13. Total(v, (A \cup rest) \cup {x}) = Total(v, A \cup rest) + v[x]
  BY <1>10, <1>12, TotalGrows
<1>14. (A \cup rest) \cup {x} = A \cup m /\ v[x] \in Nat
  BY <1>8
<1>15. Total(v, A \cup m) = (Total(v, A) + Total(v, rest)) + v[x]
  BY <1>9, <1>13, <1>14
<1>16. Total(v, A \cup m) = Total(v, A) + Total(v, m)
  BY <1>4, <1>11, <1>14, <1>15
<1>17. QED
  BY <1>1, <1>3, <1>16

LEMMA TotalOfPart ==
  ASSUME NEW F, IsFiniteSet(F), NEW S \in SUBSET F, NEW v, \A x \in F : v[x] \in Nat
  PROVE  Total(v, S) <= Total(v, F)
<1>1. IsFiniteSet(S) /\ IsFiniteSet(F \ S) /\ S \cup (F \ S) = F /\ S \cap (F \ S) = {}
  BY FS_Subset
<1>2. Total(v, F) = Total(v, S) + Total(v, F \ S)
  BY <1>1, TotalSplits
<1>3. Total(v, S) \in Nat /\ Total(v, F \ S) \in Nat
  BY <1>1, TotalIsNatural
<1>4. QED
  BY <1>2, <1>3

\* A sum depends on the summands only.
LEMMA TotalIsLocal ==
  ASSUME NEW S, IsFiniteSet(S), NEW v, NEW w,
         \A x \in S : v[x] \in Nat /\ w[x] = v[x]
  PROVE  Total(w, S) = Total(v, S)
<1>1. PICK T : T = {s \in SUBSET S : Total(w, s) # Total(v, s)}
  OBVIOUS
<1>2. SUFFICES ASSUME T # {} PROVE FALSE
  BY <1>1
<1>3. PICK m \in T : \A t \in SUBSET m : t # m => t \notin T
  BY <1>1, <1>2, SmallestSubset
<1>4. m # {}
  BY <1>1, <1>3, NothingIsZero
<1>5. PICK x \in m : TRUE
  BY <1>4
<1>6. PICK rest : rest = m \ {x}
  OBVIOUS
<1>7. rest \in SUBSET m /\ rest \in SUBSET S /\ rest # m /\ x \notin rest /\ m = rest \cup {x} /\ x \in S
  BY <1>1, <1>3, <1>5, <1>6
<1>8. Total(w, rest) = Total(v, rest)
  BY <1>1, <1>3, <1>7
<1>9. IsFiniteSet(rest)
  BY <1>7, FS_Subset
<1>10. /\ \A y \in rest \cup {x} : v[y] \in Nat
       /\ \A y \in rest \cup {x} : w[y] \in Nat
  BY <1>7
<1>11. Total(v, m) = Total(v, rest) + v[x]
  BY <1>7, <1>9, <1>10, TotalGrows
<1>12. Total(w, m) = Total(w, rest) + w[x]
  BY <1>7, <1>9, <1>10, TotalGrows
<1>13. w[x] = v[x]
  BY <1>7
<1>14. QED
  BY <1>1, <1>3, <1>8, <1>11, <1>12, <1>13

\* Each summand adds at most the greatest.
LEMMA TotalIsBounded ==
  ASSUME NEW S, IsFiniteSet(S), NEW M \in Nat, NEW v, \A x \in S : v[x] \in 0..M
  PROVE  Total(v, S) <= Cardinality(S) * M
<1>1. PICK T : T = {s \in SUBSET S : ~ (Total(v, s) <= Cardinality(s) * M)}
  OBVIOUS
<1>2. SUFFICES ASSUME T # {} PROVE FALSE
  BY <1>1
<1>3. PICK m \in T : \A t \in SUBSET m : t # m => t \notin T
  BY <1>1, <1>2, SmallestSubset
<1>4. m # {}
  <2>1. Total(v, {}) = 0 /\ Cardinality({}) = 0
    BY NothingIsZero, FS_EmptySet
  <2>2. Total(v, {}) <= Cardinality({}) * M
    BY <2>1
  <2>3. QED
    BY <1>1, <1>3, <2>2
<1>5. PICK x \in m : TRUE
  BY <1>4
<1>6. PICK rest : rest = m \ {x}
  OBVIOUS
<1>7. rest \in SUBSET m /\ rest \in SUBSET S /\ rest # m /\ x \notin rest /\ m = rest \cup {x} /\ x \in S
  BY <1>1, <1>3, <1>5, <1>6
<1>8. Total(v, rest) <= Cardinality(rest) * M
  BY <1>1, <1>3, <1>7
<1>9. IsFiniteSet(rest) /\ \A y \in rest \cup {x} : v[y] \in Nat
  BY <1>7, FS_Subset
<1>10. Total(v, rest) \in Nat /\ Total(v, m) = Total(v, rest) + v[x]
  BY <1>7, <1>9, TotalGrows
<1>11. Cardinality(rest) \in Nat /\ Cardinality(m) = Cardinality(rest) + 1
  BY <1>7, <1>9, FS_AddElement, FS_CardinalityType
<1>12. PICK t, n, a, p : t = Total(v, rest) /\ n = Cardinality(rest) /\ a = v[x] /\ p = n * M
  OBVIOUS
<1>13. t \in Nat /\ n \in Nat /\ a \in Nat /\ a <= M /\ p \in Nat /\ t <= p
  BY <1>7, <1>8, <1>10, <1>11, <1>12
<1>14. (n + 1) * M = p + M
  BY <1>12, <1>13
<1>15. Total(v, m) = t + a /\ Cardinality(m) * M = p + M
  BY <1>10, <1>11, <1>12, <1>14
<1>16. QED
  BY <1>1, <1>3, <1>13, <1>15
-----------------------------------------------------------------------------
\* What capital-service keeps: types, one active reservation per correlation
\* id, and locks that protect the rows a request was admitted on.
CapitalSafe == CapitalTypeOK /\ OneActivePerCorrelation /\ AdmissionStaysTrue

\* One step of the service keeps all three.
LEMMA CapitalStep == CapitalSafe /\ [CapitalNext]_capitalVars => CapitalSafe'
<1> USE CeilingAssumption, NoneAssumption
<1> SUFFICES ASSUME CapitalSafe, [CapitalNext]_capitalVars PROVE CapitalSafe'
  OBVIOUS
<1> USE DEF CapitalSafe, CapitalTypeOK, OneActivePerCorrelation,
            AdmissionStaysTrue, Active, ActiveFor, RowStates,
            Requests, NoRequest, Answer, table, request
<1>1. ASSUME NEW c \in Callers, NEW k \in Correlations, NEW a \in Amounts,
             Reserve(c, k, a)
      PROVE CapitalSafe'
  BY <1>1 DEF Reserve
<1>2. ASSUME NEW c \in Callers, LockRows(c) PROVE CapitalSafe'
  <2> DEFINE held == seen[c] \cap Active
  <2>1. /\ pc[c] = "select"
        /\ UNCHANGED <<state, corr, amount, lapsed, openPositions>>
        /\ \A d \in Callers \ {c} : seen[c] \cap locks[d] = {}
    BY <1>2 DEF LockRows
  <2>2. CASE WithinCeiling(held, req[c].amount)
    <3>1. /\ pc' = [pc EXCEPT ![c] = "insert"]
          /\ locks' = [locks EXCEPT ![c] = held]
          /\ UNCHANGED <<req, seen, retrying>>
      BY <1>2, <2>2 DEF LockRows
    <3>2. QED
      BY <2>1, <3>1
  <2>3. CASE ~WithinCeiling(held, req[c].amount)
    <3>1. Answer(c)
      BY <1>2, <2>3 DEF LockRows
    <3>2. QED
      BY <2>1, <3>1
  <2>4. QED
    BY <2>2, <2>3
<1>3. ASSUME NEW c \in Callers, Insert(c) PROVE CapitalSafe'
  <2>1. CASE UniqueActive(req[c].corr)
    <3>1. PICK i \in FreshIds :
            /\ state' = [state EXCEPT ![i] = "active"]
            /\ corr' = [corr EXCEPT ![i] = req[c].corr]
            /\ amount' = [amount EXCEPT ![i] = req[c].amount]
            /\ Answer(c)
            /\ UNCHANGED lapsed
      BY <1>3, <2>1 DEF Insert
    <3>2. i \in Ids /\ state[i] = "none" /\ UNCHANGED openPositions
      BY <3>1, <1>3 DEF FreshIds, Insert
    <3>3. CapitalTypeOK'
      BY <3>1, <3>2
    <3>4. OneActivePerCorrelation'
      BY <3>1, <3>2, <2>1 DEF UniqueActive
    <3>5. AdmissionStaysTrue'
      BY <3>1, <3>2
    <3>6. QED
      BY <3>3, <3>4, <3>5
  <2>2. CASE ~UniqueActive(req[c].corr)
    <3>1. UNCHANGED <<state, corr, amount, lapsed, openPositions>>
      BY <1>3, <2>2 DEF Insert
    <3>2. \/ Answer(c)
          \/ /\ pc' = [pc EXCEPT ![c] = "lookup"]
             /\ locks' = [locks EXCEPT ![c] = {}]
             /\ UNCHANGED <<req, seen, retrying>>
      BY <1>3, <2>2 DEF Insert
    <3>3. CASE Answer(c)
      BY <3>1, <3>3
    <3>4. CASE /\ pc' = [pc EXCEPT ![c] = "lookup"]
               /\ locks' = [locks EXCEPT ![c] = {}]
               /\ UNCHANGED <<req, seen, retrying>>
      BY <3>1, <3>4
    <3>5. QED
      BY <3>2, <3>3, <3>4
  <2>3. QED
    BY <2>1, <2>2
<1>4. ASSUME NEW c \in Callers, LookupExisting(c) PROVE CapitalSafe'
  <2>1. UNCHANGED <<state, corr, amount, lapsed, openPositions>>
    BY <1>4 DEF LookupExisting
  <2>2. ASSUME Answer(c) PROVE CapitalSafe'
    BY <2>1, <2>2
  <2>3. ASSUME pc[c] = "lookup",
               pc' = [pc EXCEPT ![c] = "select"],
               seen' = [seen EXCEPT ![c] = Active],
               retrying' = [retrying EXCEPT ![c] = TRUE],
               UNCHANGED <<req, locks>>
        PROVE CapitalSafe'
    BY <2>1, <2>3
  <2>4. QED
    BY <1>4, <2>2, <2>3 DEF LookupExisting
<1>5. ASSUME NEW i \in Ids, Release(i) PROVE CapitalSafe'
  BY <1>5 DEF Release, Releasable, Unlocked
<1>6. ASSUME NEW i \in Ids, GetById(i) PROVE CapitalSafe'
  BY <1>6 DEF GetById, Unlocked
<1>7. ASSUME NEW i \in Ids, Lapse(i) PROVE CapitalSafe'
  BY <1>7 DEF Lapse
<1>8. CASE Sweep
  BY <1>8 DEF Sweep, SweepTargets, SweptState, Unlocked
<1>9. CASE PositionsChange
  BY <1>9 DEF PositionsChange
<1>10. CASE UNCHANGED capitalVars
  BY <1>10 DEF capitalVars
<1>11. QED
  BY <1>1, <1>2, <1>3, <1>4, <1>5, <1>6, <1>7, <1>8, <1>9, <1>10
     DEF CapitalNext, ReserveStep

\* In every reachable state, for any number of concurrent requests: no
\* correlation id has two active reservations, and the rows a request was
\* admitted on stay active and its own until it commits.
THEOREM CapitalCorrect == CapitalSpec => []CapitalSafe
<1>1. CapitalInit => CapitalSafe
  BY CeilingAssumption, NoneAssumption
     DEF CapitalInit, CapitalSafe, CapitalTypeOK, OneActivePerCorrelation,
         AdmissionStaysTrue, Active, RowStates, Requests, NoRequest
<1>2. QED
  BY <1>1, CapitalStep, PTL DEF CapitalSpec

\* A retried or concurrent reserve never leaves two active reservations for
\* one correlation id.
THEOREM NoDoubleReservation == CapitalSpec => []OneActivePerCorrelation
<1>1. CapitalSafe => OneActivePerCorrelation
  BY DEF CapitalSafe
<1>2. QED
  BY <1>1, CapitalCorrect, PTL

\* Released and expired reservations never change again, whoever releases,
\* reads or sweeps.
THEOREM ReservationsFinal == CapitalSpec => TerminalIsFinal
<1>1. CapitalSafe /\ [CapitalNext]_capitalVars =>
        [\A i \in Ids : state[i] \in {"released", "expired"}
           => state'[i] = state[i]]_capitalVars
  <2> SUFFICES ASSUME CapitalSafe, CapitalNext, NEW j \in Ids,
                      state[j] \in {"released", "expired"}
               PROVE state'[j] = state[j]
    OBVIOUS
  <2> USE DEF CapitalSafe, CapitalTypeOK, Active, table, request
  <2>1. ASSUME NEW c \in Callers, NEW k \in Correlations, NEW a \in Amounts,
               Reserve(c, k, a)
        PROVE state'[j] = state[j]
    BY <2>1 DEF Reserve
  <2>2. ASSUME NEW c \in Callers, LockRows(c) PROVE state'[j] = state[j]
    BY <2>2 DEF LockRows
  <2>3. ASSUME NEW c \in Callers, Insert(c) PROVE state'[j] = state[j]
    BY <2>3 DEF Insert, FreshIds
  <2>4. ASSUME NEW c \in Callers, LookupExisting(c) PROVE state'[j] = state[j]
    BY <2>4 DEF LookupExisting
  <2>5. ASSUME NEW i \in Ids, Release(i)
        PROVE state'[j] = state[j]
    BY <2>5 DEF Release, Releasable
  <2>6. ASSUME NEW i \in Ids, GetById(i) PROVE state'[j] = state[j]
    BY <2>6 DEF GetById
  <2>7. ASSUME NEW i \in Ids, Lapse(i) PROVE state'[j] = state[j]
    BY <2>7 DEF Lapse
  <2>8. CASE Sweep
    BY <2>8 DEF Sweep, SweepTargets, SweptState
  <2>9. CASE PositionsChange
    BY <2>9 DEF PositionsChange
  <2>10. QED
    BY <2>1, <2>2, <2>3, <2>4, <2>5, <2>6, <2>7, <2>8, <2>9
       DEF CapitalNext, ReserveStep
<1>2. QED
  BY <1>1, CapitalCorrect, PTL DEF CapitalSpec, TerminalIsFinal


-----------------------------------------------------------------------------
(***************************************************************************)
(* How far the ceiling is overshot.  A request counts the active rows it   *)
(* finds at one moment and nothing that is inserted later.  Of those that  *)
(* were granted, take the one whose SELECT came last (its turn n): the     *)
(* rows S it found, with its own, were within the ceiling, and every row   *)
(* it did not find was written by a request that had started before it and *)
(* was not answered: one for each other caller at most.  Bounded counts    *)
(* these rows and the requests that are still to write theirs.  The same   *)
(* is so of every request that started later and may be granted next.      *)
(* Here A are the active rows, W the requests that wait, v the amounts and *)
(* found what each request found.                                          *)
(***************************************************************************)
Earlier(W, turn, n) == {c \in W : turn[c] < n}
Bounded(A, W, turn, n, S) ==
  Cardinality(A \ S) + Cardinality(Earlier(W, turn, n)) <= Cardinality(Callers) - 1
Ranked(A, W, found, v, turn, n, S, top) ==
  /\ turn \in [Callers -> Nat] /\ n \in Nat /\ top \in Nat /\ n <= top
  /\ Total(v, A \cap S) <= Ceiling
  /\ Bounded(A, W, turn, n, S)
  /\ \A c \in W : turn[c] <= top /\ turn[c] # n
  /\ \A c \in W : turn[c] > n => Bounded(A, W, turn, turn[c], found[c])
  /\ \A c, d \in W : turn[c] = turn[d] => c = d
SomeRanking(A, W, found, v) == \E turn, n, S, top : Ranked(A, W, found, v, turn, n, S, top)

LEMMA RowsAreFinite ==
  ASSUME NEW A \in SUBSET Ids, NEW S, NEW v, \A i \in Ids : v[i] \in Nat
  PROVE  /\ IsFiniteSet(A) /\ IsFiniteSet(A \ S) /\ IsFiniteSet(A \cap S)
         /\ Cardinality(A \ S) \in Nat /\ Total(v, A \cap S) \in Nat
<1>1. IsFiniteSet(A) /\ A \ S \in SUBSET A /\ A \cap S \in SUBSET A
  BY RequestsAssumption, FS_Subset
<1>2. IsFiniteSet(A \ S) /\ IsFiniteSet(A \cap S)
  BY <1>1, FS_Subset
<1>3. \A i \in A \cap S : v[i] \in Nat
  OBVIOUS
<1>4. Cardinality(A \ S) \in Nat /\ Total(v, A \cap S) \in Nat
  BY <1>2, <1>3, FS_CardinalityType, TotalIsNatural
<1>5. QED
  BY <1>1, <1>2, <1>4

LEMMA FewerRows ==
  ASSUME NEW A \in SUBSET Ids, NEW B \in SUBSET A, NEW S, NEW v, \A i \in Ids : v[i] \in Nat
  PROVE  /\ Total(v, B \cap S) <= Total(v, A \cap S)
         /\ Cardinality(B \ S) <= Cardinality(A \ S)
<1>1. IsFiniteSet(A \ S) /\ IsFiniteSet(A \cap S) /\ \A i \in A \cap S : v[i] \in Nat
  BY RowsAreFinite
<1>2. B \cap S \in SUBSET (A \cap S) /\ B \ S \in SUBSET (A \ S)
  OBVIOUS
<1>3. Total(v, B \cap S) <= Total(v, A \cap S)
  BY <1>1, <1>2, TotalOfPart
<1>4. Cardinality(B \ S) <= Cardinality(A \ S)
  BY <1>1, <1>2, FS_Subset
<1>5. QED
  BY <1>3, <1>4

LEMMA FewerCallers ==
  ASSUME NEW W \in SUBSET Callers, NEW X \in SUBSET W
  PROVE  /\ IsFiniteSet(W) /\ Cardinality(W) \in Nat /\ Cardinality(X) \in Nat
         /\ Cardinality(X) <= Cardinality(W)
<1>1. IsFiniteSet(W)
  BY RequestsAssumption, FS_Subset
<1>2. Cardinality(X) <= Cardinality(W) /\ IsFiniteSet(X)
  BY <1>1, FS_Subset
<1>3. QED
  BY <1>1, <1>2, FS_CardinalityType

\* Rows that are no longer active and requests that wait no more change
\* nothing in the bound.
LEMMA FewerStayRanked ==
  ASSUME NEW A \in SUBSET Ids, NEW B \in SUBSET A, NEW W \in SUBSET Callers,
         NEW X \in SUBSET W, NEW v, \A i \in Ids : v[i] \in Nat,
         NEW found, NEW next, \A c \in X : next[c] = found[c],
         SomeRanking(A, W, found, v)
  PROVE  SomeRanking(B, X, next, v)
<1>1. PICK turn, n, S, top : Ranked(A, W, found, v, turn, n, S, top)
  BY DEF SomeRanking
<1>2. /\ turn \in [Callers -> Nat] /\ n \in Nat /\ top \in Nat /\ n <= top
      /\ Total(v, A \cap S) <= Ceiling
      /\ Bounded(A, W, turn, n, S)
      /\ \A c \in W : turn[c] <= top /\ turn[c] # n
      /\ \A c \in W : turn[c] > n => Bounded(A, W, turn, turn[c], found[c])
      /\ \A c, d \in W : turn[c] = turn[d] => c = d
  BY <1>1 DEF Ranked
<1>3. ASSUME NEW m, NEW R, Bounded(A, W, turn, m, R) PROVE Bounded(B, X, turn, m, R)
  <2>1. Earlier(W, turn, m) \in SUBSET Callers /\ Earlier(X, turn, m) \in SUBSET Earlier(W, turn, m)
    BY DEF Earlier
  <2>2. PICK x, y : x = Cardinality(Earlier(X, turn, m)) /\ y = Cardinality(Earlier(W, turn, m))
    OBVIOUS
  <2>3. x \in Nat /\ y \in Nat /\ x <= y
    BY <2>1, <2>2, FewerCallers
  <2>4. PICK a, b : a = Cardinality(A \ R) /\ b = Cardinality(B \ R)
    OBVIOUS
  <2>5. b <= a /\ a \in Nat /\ b \in Nat
    BY <2>4, FewerRows, RowsAreFinite
  <2>6. Cardinality(Callers) \in Nat
    BY FewerCallers
  <2>7. a + y <= Cardinality(Callers) - 1
    BY <1>3, <2>2, <2>4 DEF Bounded
  <2>8. b + x <= Cardinality(Callers) - 1
    BY <2>3, <2>5, <2>6, <2>7
  <2>9. QED
    BY <2>2, <2>4, <2>8 DEF Bounded
<1>4. Total(v, B \cap S) <= Ceiling
  <2>1. /\ Total(v, B \cap S) <= Total(v, A \cap S)
        /\ Total(v, B \cap S) \in Nat /\ Total(v, A \cap S) \in Nat
    BY FewerRows, RowsAreFinite
  <2>2. QED
    BY <1>2, <2>1, CeilingAssumption
<1>5. Ranked(B, X, next, v, turn, n, S, top)
  BY <1>2, <1>3, <1>4 DEF Ranked
<1>6. QED
  BY <1>5 DEF SomeRanking

\* A request that starts has its turn after all others and finds every row.
LEMMA StartKeepsRanking ==
  ASSUME NEW A \in SUBSET Ids, NEW W \in SUBSET Callers, NEW c \in Callers, c \notin W,
         NEW v, NEW found, NEW next, next[c] = A, \A d \in W : next[d] = found[d],
         SomeRanking(A, W, found, v)
  PROVE  SomeRanking(A, W \cup {c}, next, v)
<1>1. PICK turn, n, S, top : Ranked(A, W, found, v, turn, n, S, top)
  BY DEF SomeRanking
<1>2. /\ turn \in [Callers -> Nat] /\ n \in Nat /\ top \in Nat /\ n <= top
      /\ Total(v, A \cap S) <= Ceiling
      /\ Bounded(A, W, turn, n, S)
      /\ \A d \in W : turn[d] <= top /\ turn[d] # n
      /\ \A d \in W : turn[d] > n => Bounded(A, W, turn, turn[d], found[d])
      /\ \A d, e \in W : turn[d] = turn[e] => d = e
  BY <1>1 DEF Ranked
<1>3. PICK then : then = [turn EXCEPT ![c] = top + 1]
  OBVIOUS
<1>4. /\ then \in [Callers -> Nat] /\ then[c] = top + 1
      /\ \A d \in W : then[d] = turn[d]
  BY <1>2, <1>3
<1>5. ASSUME NEW m, m \in 0..top, NEW R, Bounded(A, W, turn, m, R)
      PROVE  Bounded(A, W \cup {c}, then, m, R)
  <2>1. Earlier(W \cup {c}, then, m) = Earlier(W, turn, m)
    BY <1>2, <1>4, <1>5 DEF Earlier
  <2>2. QED
    BY <1>5, <2>1 DEF Bounded
<1>6. Bounded(A, W \cup {c}, then, top + 1, A)
  <2>1. Earlier(W \cup {c}, then, top + 1) \in SUBSET (Callers \ {c})
    BY <1>2, <1>4 DEF Earlier
  <2>2. Cardinality(Callers \ {c}) = Cardinality(Callers) - 1 /\ Callers \ {c} \in SUBSET Callers
    BY RequestsAssumption, FS_RemoveElement
  <2>3. /\ Cardinality(Earlier(W \cup {c}, then, top + 1)) <= Cardinality(Callers \ {c})
        /\ Cardinality(Earlier(W \cup {c}, then, top + 1)) \in Nat
    BY <2>1, <2>2, FewerCallers
  <2>4. A \ A = {} /\ Cardinality({}) = 0 /\ Cardinality(Callers) \in Nat
    BY FS_EmptySet, FewerCallers
  <2>5. QED
    BY <2>2, <2>3, <2>4 DEF Bounded
<1>7. Bounded(A, W \cup {c}, then, n, S)
  BY <1>2, <1>5
<1>8. ASSUME NEW d \in W \cup {c}
      PROVE  /\ then[d] <= top + 1 /\ then[d] # n
             /\ then[d] > n => Bounded(A, W \cup {c}, then, then[d], next[d])
  <2>1. CASE d = c
    BY <1>2, <1>4, <1>6, <2>1
  <2>2. CASE d \in W
    <3>1. then[d] = turn[d] /\ turn[d] \in 0..top
      BY <1>2, <1>4, <2>2
    <3>2. QED
      BY <1>2, <1>5, <2>2, <3>1
  <2>3. QED
    BY <2>1, <2>2
<1>9. \A d, e \in W \cup {c} : then[d] = then[e] => d = e
  BY <1>2, <1>4
<1>10. Ranked(A, W \cup {c}, next, v, then, n, S, top + 1)
  BY <1>2, <1>4, <1>7, <1>8, <1>9 DEF Ranked
<1>11. QED
  BY <1>10 DEF SomeRanking

\* A request that writes its row becomes the last one granted, unless its turn
\* was before that; to those after its turn its row is one they did not find.
LEMMA WriteKeepsRanking ==
  ASSUME NEW A \in SUBSET Ids, NEW W \in SUBSET Callers, NEW c \in W, NEW i \in Ids, i \notin A,
         NEW v, \A j \in Ids : v[j] \in Nat, NEW w, \A j \in Ids : w[j] \in Nat,
         \A j \in A : w[j] = v[j],
         NEW found, NEW next, \A d \in W \ {c} : next[d] = found[d],
         Total(v, A \cap found[c]) + w[i] <= Ceiling,
         SomeRanking(A, W, found, v)
  PROVE  SomeRanking(A \cup {i}, W \ {c}, next, w)
<1>1. PICK turn, n, S, top : Ranked(A, W, found, v, turn, n, S, top)
  BY DEF SomeRanking
<1>2. /\ turn \in [Callers -> Nat] /\ n \in Nat /\ top \in Nat /\ n <= top
      /\ Total(v, A \cap S) <= Ceiling
      /\ Bounded(A, W, turn, n, S)
      /\ \A d \in W : turn[d] <= top /\ turn[d] # n
      /\ \A d \in W : turn[d] > n => Bounded(A, W, turn, turn[d], found[d])
      /\ \A d, e \in W : turn[d] = turn[e] => d = e
  BY <1>1 DEF Ranked
<1>3. PICK B, X : B = A \cup {i} /\ X = W \ {c}
  OBVIOUS
<1>4. B \in SUBSET Ids /\ X \in SUBSET W /\ X \in SUBSET Callers /\ c \in Callers
  BY <1>3
\* The bound of a later turn: one row more, one request less.
<1>5. ASSUME NEW m \in Nat, turn[c] < m, NEW R, Bounded(A, W, turn, m, R)
      PROVE  Bounded(B, X, turn, m, R)
  <2>1. PICK E, F : E = Earlier(W, turn, m) /\ F = Earlier(X, turn, m)
    OBVIOUS
  <2>2. E \in SUBSET Callers /\ c \in E /\ F = E \ {c}
    BY <1>3, <1>5, <2>1 DEF Earlier
  <2>3. IsFiniteSet(E) /\ Cardinality(E) \in Nat
    BY <2>2, FewerCallers
  <2>4. Cardinality(F) = Cardinality(E) - 1
    BY <2>2, <2>3, FS_RemoveElement
  <2>5. IsFiniteSet(A \ R) /\ Cardinality(A \ R) \in Nat
    BY RowsAreFinite
  <2>6. B \ R \in SUBSET ((A \ R) \cup {i})
    BY <1>3
  <2>7. IsFiniteSet((A \ R) \cup {i}) /\ Cardinality((A \ R) \cup {i}) <= Cardinality(A \ R) + 1
    BY <2>5, FS_AddElement
  <2>8. Cardinality(B \ R) <= Cardinality((A \ R) \cup {i}) /\ IsFiniteSet(B \ R)
    BY <2>6, <2>7, FS_Subset
  <2>9. Cardinality(B \ R) \in Nat /\ Cardinality((A \ R) \cup {i}) \in Nat /\ Cardinality(Callers) \in Nat
    BY <2>7, <2>8, FS_CardinalityType, FewerCallers
  <2>10. Cardinality(A \ R) + Cardinality(E) <= Cardinality(Callers) - 1
    BY <1>5, <2>1 DEF Bounded
  <2>11. Cardinality(B \ R) + Cardinality(F) <= Cardinality(Callers) - 1
    BY <2>3, <2>4, <2>5, <2>7, <2>8, <2>9, <2>10
  <2>12. QED
    BY <2>1, <2>11 DEF Bounded
<1>6. \A j \in Ids : w[j] \in Nat /\ (j \in A => w[j] = v[j] /\ v[j] \in Nat)
  OBVIOUS
<1>7. ASSUME NEW R PROVE Total(w, A \cap R) = Total(v, A \cap R) /\ IsFiniteSet(A \cap R)
                         /\ Total(v, A \cap R) \in Nat
  <2>1. IsFiniteSet(A \cap R) /\ Total(v, A \cap R) \in Nat
    BY RowsAreFinite
  <2>2. \A j \in A \cap R : v[j] \in Nat /\ w[j] = v[j]
    BY <1>6
  <2>3. QED
    BY <2>1, <2>2, TotalIsLocal
<1>8. \A d, e \in X : turn[d] = turn[e] => d = e
  BY <1>2, <1>4
<1>9. CASE turn[c] < n
  <2>1. PICK R : R = S \ {i}
    OBVIOUS
  <2>2. B \cap R = A \cap S
    BY <1>3, <2>1
  <2>3. Total(w, B \cap R) <= Ceiling
    BY <1>2, <1>7, <2>2
  <2>4. Bounded(A, W, turn, n, R)
    <3>1. A \ R = A \ S
      BY <2>1
    <3>2. QED
      BY <1>2, <3>1 DEF Bounded
  <2>5. Bounded(B, X, turn, n, R)
    BY <1>2, <1>5, <1>9, <2>4
  <2>6. ASSUME NEW d \in X, turn[d] > n PROVE Bounded(B, X, turn, turn[d], next[d])
    <3>1. turn[d] \in Nat /\ turn[c] \in Nat /\ turn[c] < turn[d] /\ next[d] = found[d]
      BY <1>2, <1>3, <1>4, <1>9, <2>6
    <3>2. Bounded(A, W, turn, turn[d], found[d])
      BY <1>2, <1>4, <2>6
    <3>3. QED
      BY <1>5, <3>1, <3>2
  <2>7. Ranked(B, X, next, w, turn, n, R, top)
    BY <1>2, <1>4, <1>8, <2>3, <2>5, <2>6 DEF Ranked
  <2>8. QED
    BY <1>3, <2>7 DEF SomeRanking
<1>10. CASE turn[c] > n
  <2>1. PICK m, R : m = turn[c] /\ R = found[c] \cup {i}
    OBVIOUS
  <2>2. m \in Nat /\ m <= top /\ m > n /\ Bounded(A, W, turn, m, found[c])
    BY <1>2, <1>4, <1>10, <2>1
  <2>3. Total(w, B \cap R) <= Ceiling
    <3>1. PICK Q : Q = A \cap found[c]
      OBVIOUS
    <3>2. B \cap R = Q \cup {i} /\ i \notin Q /\ IsFiniteSet(Q) /\ Total(w, Q) = Total(v, Q)
      BY <1>3, <1>7, <2>1, <3>1
    <3>3. \A j \in Q \cup {i} : w[j] \in Nat
      BY <3>1
    <3>4. Total(w, Q \cup {i}) = Total(w, Q) + w[i]
      BY <3>2, <3>3, TotalGrows
    <3>5. QED
      BY <3>1, <3>2, <3>4
  <2>4. Bounded(B, X, turn, m, R)
    <3>1. Earlier(X, turn, m) \in SUBSET Earlier(W, turn, m) /\ Earlier(W, turn, m) \in SUBSET Callers
      BY <1>4 DEF Earlier
    <3>2. PICK x, y : x = Cardinality(Earlier(X, turn, m)) /\ y = Cardinality(Earlier(W, turn, m))
      OBVIOUS
    <3>3. x \in Nat /\ y \in Nat /\ x <= y
      BY <3>1, <3>2, FewerCallers
    <3>4. B \ R \in SUBSET (A \ found[c])
      BY <1>3, <2>1
    <3>5. IsFiniteSet(A \ found[c])
      BY RowsAreFinite
    <3>6. PICK a, b : a = Cardinality(A \ found[c]) /\ b = Cardinality(B \ R)
      OBVIOUS
    <3>7. b <= a /\ a \in Nat /\ b \in Nat
      BY <3>4, <3>5, <3>6, FS_Subset, FS_CardinalityType
    <3>8. a + y <= Cardinality(Callers) - 1 /\ Cardinality(Callers) \in Nat
      BY <2>2, <3>2, <3>6, FewerCallers DEF Bounded
    <3>9. b + x <= Cardinality(Callers) - 1
      BY <3>3, <3>7, <3>8
    <3>10. QED
      BY <3>2, <3>6, <3>9 DEF Bounded
  <2>5. ASSUME NEW d \in X, turn[d] > m PROVE Bounded(B, X, turn, turn[d], next[d])
    <3>1. turn[d] \in Nat /\ turn[d] > n /\ turn[c] < turn[d] /\ next[d] = found[d]
      BY <1>2, <1>3, <1>4, <2>1, <2>2, <2>5
    <3>2. Bounded(A, W, turn, turn[d], found[d])
      BY <1>2, <1>4, <3>1
    <3>3. QED
      BY <1>5, <3>1, <3>2
  <2>6. \A d \in X : turn[d] <= top /\ turn[d] # m
    BY <1>2, <1>3, <1>4, <2>1
  <2>7. Ranked(B, X, next, w, turn, m, R, top)
    BY <1>2, <1>8, <2>2, <2>3, <2>4, <2>5, <2>6 DEF Ranked
  <2>8. QED
    BY <1>3, <2>7 DEF SomeRanking
<1>11. turn[c] \in Nat /\ turn[c] # n
  BY <1>2, <1>4
<1>12. QED
  BY <1>2, <1>9, <1>10, <1>11

\* What the bound comes to.
LEMMA RankingIsBound ==
  ASSUME NEW A \in SUBSET Ids, NEW W \in SUBSET Callers, NEW M \in Nat,
         NEW v, \A i \in Ids : v[i] \in 0..M, NEW found, SomeRanking(A, W, found, v)
  PROVE  Total(v, A) <= Ceiling + (Cardinality(Callers) - 1) * M
<1>1. PICK turn, n, S, top : Ranked(A, W, found, v, turn, n, S, top)
  BY DEF SomeRanking
<1>2. Total(v, A \cap S) <= Ceiling /\ Bounded(A, W, turn, n, S)
  BY <1>1 DEF Ranked
<1>3. /\ IsFiniteSet(A \ S) /\ IsFiniteSet(A \cap S)
      /\ Cardinality(A \ S) \in Nat /\ Total(v, A \cap S) \in Nat
  <2>1. \A i \in Ids : v[i] \in Nat
    OBVIOUS
  <2>2. QED
    BY <2>1, RowsAreFinite
<1>4. (A \cap S) \cap (A \ S) = {} /\ (A \cap S) \cup (A \ S) = A
  OBVIOUS
<1>5. \A i \in (A \cap S) \cup (A \ S) : v[i] \in Nat
  OBVIOUS
<1>6. Total(v, (A \cap S) \cup (A \ S)) = Total(v, A \cap S) + Total(v, A \ S)
  BY <1>3, <1>4, <1>5, TotalSplits
<1>7. Total(v, A \ S) \in Nat /\ Total(v, A \ S) <= Cardinality(A \ S) * M
  <2>1. \A i \in A \ S : v[i] \in 0..M /\ v[i] \in Nat
    OBVIOUS
  <2>2. QED
    BY <1>3, <2>1, TotalIsNatural, TotalIsBounded
<1>8. PICK k, N : k = Cardinality(A \ S) /\ N = Cardinality(Callers) - 1
  OBVIOUS
<1>9. k \in Nat /\ N \in Int /\ k <= N
  <2>1. Earlier(W, turn, n) \in SUBSET Callers
    BY DEF Earlier
  <2>2. Cardinality(Earlier(W, turn, n)) \in Nat /\ Cardinality(Callers) \in Nat
    BY <2>1, FewerCallers
  <2>3. QED
    BY <1>2, <1>3, <1>8, <2>2 DEF Bounded
<1>10. k * M <= N * M
  <2>1. PICK e : e = N - k
    OBVIOUS
  <2>2. e \in Nat /\ N = k + e
    BY <1>9, <2>1
  <2>3. N * M = k * M + e * M /\ e * M \in Nat /\ k * M \in Nat
    BY <1>9, <2>2
  <2>4. QED
    BY <2>3
<1>11. Total(v, A) = Total(v, A \cap S) + Total(v, A \ S)
  BY <1>4, <1>6
<1>12. k * M \in Int /\ N * M \in Int
  BY <1>9
<1>13. PICK p, q, r, s : p = k * M /\ q = N * M /\ r = Total(v, A \cap S) /\ s = Total(v, A \ S)
  OBVIOUS
<1>14. r + s <= Ceiling + q
  BY <1>2, <1>3, <1>7, <1>8, <1>10, <1>12, <1>13, CeilingAssumption
<1>15. QED
  BY <1>8, <1>11, <1>13, <1>14

Waiting == {c \in Callers : pc[c] \in {"select", "insert"}}
\* What a request about to write was granted on; what it found had been written.
Granted ==
  /\ \A c \in Callers : pc[c] = "insert" =>
       Total(amount, Active \cap seen[c]) + req[c].amount <= Ceiling
  /\ \A c \in Callers : \A i \in seen[c] : state[i] # "none"
OvershootInv == CapitalSafe /\ Granted /\ SomeRanking(Active, Waiting, seen, amount)

LEMMA TablesHaveTypes ==
  ASSUME CapitalTypeOK
  PROVE  /\ Active \in SUBSET Ids /\ Waiting \in SUBSET Callers
         /\ \A i \in Ids : amount[i] \in Nat
         /\ \A c \in Callers : req[c].amount \in Nat
<1>1. Active \in SUBSET Ids /\ Waiting \in SUBSET Callers
  BY DEF Active, Waiting
<1>2. amount \in [Ids -> Amounts \cup {0}] /\ req \in [Callers -> Requests]
  BY DEF CapitalTypeOK
<1>3. Amounts \cup {0} \subseteq Nat
  BY AmountsAssumption
<1>4. \A c \in Callers : req[c].amount \in Amounts \cup {0}
  BY <1>2 DEF Requests
<1>5. QED
  BY <1>1, <1>2, <1>3, <1>4

LEMMA FewerKeepOvershoot ==
  ASSUME OvershootInv, Active' \in SUBSET Active, amount' = amount,
         \A i \in Ids : state[i] # "none" => state'[i] # "none",
         Waiting' \in SUBSET Waiting, \A c \in Waiting' : seen'[c] = seen[c],
         \A c \in Callers : seen'[c] \in {seen[c], {}},
         \A c \in Callers : pc'[c] = "insert" =>
           pc[c] = "insert" /\ seen'[c] = seen[c] /\ req'[c] = req[c]
  PROVE  Granted' /\ SomeRanking(Active', Waiting', seen', amount')
<1>1. /\ Active \in SUBSET Ids /\ Waiting \in SUBSET Callers /\ CapitalTypeOK
      /\ \A i \in Ids : amount[i] \in Nat
      /\ \A c \in Callers : req[c].amount \in Nat
  BY TablesHaveTypes DEF OvershootInv, CapitalSafe
<1>2. SomeRanking(Active', Waiting', seen', amount')
  BY <1>1, FewerStayRanked DEF OvershootInv
<1>3. ASSUME NEW c \in Callers, pc'[c] = "insert"
      PROVE  Total(amount', Active' \cap seen'[c]) + req'[c].amount <= Ceiling
  <2>1. PICK R, a : R = seen[c] /\ a = req[c].amount
    OBVIOUS
  <2>2. Total(amount, Active \cap R) + a <= Ceiling
    BY <1>3, <2>1 DEF OvershootInv, Granted
  <2>3. /\ Total(amount, Active' \cap R) <= Total(amount, Active \cap R)
        /\ Total(amount, Active' \cap R) \in Nat /\ Total(amount, Active \cap R) \in Nat
    <3>1. Active' \in SUBSET Ids
      BY <1>1
    <3>2. QED
      BY <1>1, <3>1, FewerRows, RowsAreFinite
  <2>4. a \in Nat
    BY <1>1, <2>1
  <2>5. Total(amount, Active' \cap R) + a <= Ceiling
    BY <2>2, <2>3, <2>4, CeilingAssumption
  <2>6. R = seen'[c] /\ a = req'[c].amount
    BY <1>3, <2>1
  <2>7. QED
    BY <2>5, <2>6
<1>4. \A c \in Callers : \A i \in seen'[c] : state'[i] # "none"
  BY <1>1 DEF OvershootInv, Granted, CapitalTypeOK
<1>5. QED
  BY <1>2, <1>3, <1>4 DEF Granted

\* A request starts, anew or after another one took its correlation id.
LEMMA StartKeepsOvershoot ==
  ASSUME OvershootInv, NEW c \in Callers, pc[c] \in {"idle", "lookup"},
         UNCHANGED <<state, amount>>, pc' = [pc EXCEPT ![c] = "select"],
         seen' = [seen EXCEPT ![c] = Active], \A d \in Callers : d # c => req'[d] = req[d]
  PROVE  Granted' /\ SomeRanking(Active', Waiting', seen', amount')
<1>1. Active \in SUBSET Ids /\ Waiting \in SUBSET Callers /\ CapitalTypeOK
  BY TablesHaveTypes DEF OvershootInv, CapitalSafe
<1>2. /\ Waiting' = Waiting \cup {c} /\ c \notin Waiting /\ Active' = Active
      /\ seen'[c] = Active /\ \A d \in Waiting : seen'[d] = seen[d]
  BY <1>1 DEF Waiting, Active, CapitalTypeOK
<1>3. SomeRanking(Active', Waiting', seen', amount')
  BY <1>1, <1>2, StartKeepsRanking DEF OvershootInv
<1>4. \A d \in Callers : pc'[d] = "insert" =>
        d # c /\ pc[d] = "insert" /\ seen'[d] = seen[d] /\ req'[d] = req[d]
  BY <1>1 DEF CapitalTypeOK
<1>5. \A d \in Callers : pc'[d] = "insert" =>
        Total(amount', Active' \cap seen'[d]) + req'[d].amount <= Ceiling
  BY <1>2, <1>4 DEF OvershootInv, Granted
<1>6. \A d \in Callers : \A i \in seen'[d] : state'[i] # "none"
  BY <1>1 DEF OvershootInv, Granted, CapitalTypeOK, Active
<1>7. QED
  BY <1>3, <1>5, <1>6 DEF Granted

LEMMA WriteKeepsOvershoot ==
  ASSUME OvershootInv, NEW c \in Callers, pc[c] = "insert", NEW i \in FreshIds,
         state' = [state EXCEPT ![i] = "active"], amount' = [amount EXCEPT ![i] = req[c].amount],
         Answer(c), CapitalTypeOK'
  PROVE  Granted' /\ SomeRanking(Active', Waiting', seen', amount')
<1>1. /\ Active \in SUBSET Ids /\ Waiting \in SUBSET Callers /\ CapitalTypeOK
      /\ \A j \in Ids : amount[j] \in Nat
      /\ \A d \in Callers : req[d].amount \in Nat
  BY TablesHaveTypes DEF OvershootInv, CapitalSafe
<1>2. i \in Ids /\ i \notin Active /\ Active' = Active \cup {i}
  BY <1>1 DEF FreshIds, Active, CapitalTypeOK
<1>3. /\ c \in Waiting /\ Waiting' = Waiting \ {c}
      /\ \A d \in Callers : d # c => seen'[d] = seen[d] /\ req'[d] = req[d] /\ pc'[d] = pc[d]
      /\ pc'[c] = "idle" /\ seen'[c] = {}
  BY <1>1 DEF Answer, Waiting, CapitalTypeOK
<1>4. /\ amount'[i] = req[c].amount
      /\ \A j \in Ids : amount'[j] \in Nat
      /\ \A j \in Active : amount'[j] = amount[j]
  BY <1>1, <1>2 DEF CapitalTypeOK
<1>5. \A d \in Callers : i \notin seen[d]
  BY DEF OvershootInv, Granted, FreshIds
<1>6. Total(amount, Active \cap seen[c]) + amount'[i] <= Ceiling
  BY <1>4 DEF OvershootInv, Granted
<1>7. SomeRanking(Active', Waiting', seen', amount')
  <2>1. \A d \in Waiting \ {c} : seen'[d] = seen[d]
    BY <1>1, <1>3
  <2>2. SomeRanking(Active \cup {i}, Waiting \ {c}, seen', amount')
    BY <1>1, <1>2, <1>3, <1>4, <1>6, <2>1, WriteKeepsRanking DEF OvershootInv
  <2>3. QED
    BY <1>2, <1>3, <2>2
<1>8. ASSUME NEW d \in Callers, pc'[d] = "insert"
      PROVE  Total(amount', Active' \cap seen'[d]) + req'[d].amount <= Ceiling
  <2>1. d # c /\ pc[d] = "insert" /\ seen'[d] = seen[d] /\ req'[d] = req[d]
    BY <1>3, <1>8
  <2>2. PICK Q : Q = Active \cap seen[d]
    OBVIOUS
  <2>3. Active' \cap seen'[d] = Q
    BY <1>2, <1>5, <2>1, <2>2
  <2>4. IsFiniteSet(Q) /\ \A j \in Q : amount[j] \in Nat /\ amount'[j] = amount[j]
    BY <1>1, <1>4, <2>2, RowsAreFinite
  <2>5. Total(amount', Q) = Total(amount, Q)
    BY <2>4, TotalIsLocal
  <2>6. Total(amount, Q) + req[d].amount <= Ceiling
    BY <2>1, <2>2 DEF OvershootInv, Granted
  <2>7. QED
    BY <2>1, <2>3, <2>5, <2>6
<1>9. \A d \in Callers : \A j \in seen'[d] : state'[j] # "none"
  BY <1>1, <1>2, <1>3 DEF OvershootInv, Granted, CapitalTypeOK
<1>10. QED
  BY <1>7, <1>8, <1>9 DEF Granted

\* The SELECT has its locks: it is granted, or answered.
LEMMA LockKeepsOvershoot ==
  ASSUME OvershootInv, NEW c \in Callers, LockRows(c)
  PROVE  Granted' /\ SomeRanking(Active', Waiting', seen', amount')
<1>1. /\ Active \in SUBSET Ids /\ Waiting \in SUBSET Callers /\ CapitalTypeOK
      /\ \A j \in Ids : amount[j] \in Nat
      /\ \A d \in Callers : req[d].amount \in Nat
  BY TablesHaveTypes DEF OvershootInv, CapitalSafe
<1>2. pc[c] = "select" /\ UNCHANGED <<state, amount>> /\ Active' = Active
  BY DEF LockRows, table, Active
<1>3. CASE WithinCeiling(seen[c] \cap Active, req[c].amount)
  <2>1. pc' = [pc EXCEPT ![c] = "insert"] /\ UNCHANGED <<req, seen>>
    BY <1>3 DEF LockRows
  <2>2. Waiting' = Waiting
    BY <1>1, <1>2, <2>1 DEF Waiting, CapitalTypeOK
  <2>3. Total(amount, Active \cap seen[c]) + req[c].amount <= Ceiling
    <3>1. SumAmount(seen[c] \cap Active) = Total(amount, seen[c] \cap Active)
      BY DEF SumAmount, Total
    <3>2. seen[c] \cap Active = Active \cap seen[c]
      OBVIOUS
    <3>3. PICK t, p, a : t = Total(amount, Active \cap seen[c]) /\ p = openPositions /\ a = req[c].amount
      OBVIOUS
    <3>4. t \in Nat /\ p \in Nat /\ a \in Nat
      <4>1. Total(amount, Active \cap seen[c]) \in Nat
        BY <1>1, RowsAreFinite
      <4>2. openPositions \in Nat
        BY <1>1, CeilingAssumption DEF CapitalTypeOK
      <4>3. QED
        BY <1>1, <3>3, <4>1, <4>2
    <3>5. (t + p) + a <= Ceiling
      BY <1>3, <3>1, <3>2, <3>3 DEF WithinCeiling
    <3>6. t + a <= Ceiling
      BY <3>4, <3>5, CeilingAssumption
    <3>7. QED
      BY <3>3, <3>6
  <2>4. \A d \in Callers : pc'[d] = "insert" => d = c \/ pc[d] = "insert"
    BY <1>1, <2>1 DEF CapitalTypeOK
  <2>5. QED
    BY <1>2, <2>1, <2>2, <2>3, <2>4 DEF OvershootInv, Granted
<1>4. CASE ~WithinCeiling(seen[c] \cap Active, req[c].amount)
  <2>1. Answer(c)
    BY <1>4 DEF LockRows
  <2>2. /\ Waiting' \in SUBSET Waiting /\ \A d \in Waiting' : seen'[d] = seen[d]
        /\ \A d \in Callers : seen'[d] \in {seen[d], {}}
        /\ \A d \in Callers : pc'[d] = "insert" =>
             pc[d] = "insert" /\ seen'[d] = seen[d] /\ req'[d] = req[d]
    BY <1>1, <1>2, <2>1 DEF Answer, Waiting, CapitalTypeOK
  <2>3. QED
    BY <1>2, <2>2, FewerKeepOvershoot
<1>5. QED
  BY <1>3, <1>4

LEMMA OvershootStep == OvershootInv /\ [CapitalNext]_capitalVars => OvershootInv'
<1> SUFFICES ASSUME OvershootInv, [CapitalNext]_capitalVars
             PROVE  Granted' /\ SomeRanking(Active', Waiting', seen', amount')
  BY CapitalStep DEF OvershootInv
<1>1. CapitalTypeOK /\ CapitalTypeOK'
  BY CapitalStep DEF OvershootInv, CapitalSafe
\* The table only loses active rows, the requests stay.
<1>2. ASSUME UNCHANGED <<amount, request>>, Active' \in SUBSET Active,
             \A i \in Ids : state[i] # "none" => state'[i] # "none"
      PROVE  Granted' /\ SomeRanking(Active', Waiting', seen', amount')
  BY <1>2, FewerKeepOvershoot DEF request, Waiting
\* A request is answered, or waits no more.
<1>3. ASSUME NEW c \in Callers, UNCHANGED <<state, amount>>,
             Answer(c) \/ (pc' = [pc EXCEPT ![c] = "lookup"] /\ UNCHANGED <<req, seen>>)
      PROVE  Granted' /\ SomeRanking(Active', Waiting', seen', amount')
  <2>1. /\ Active' = Active /\ Waiting' \in SUBSET Waiting
        /\ \A d \in Waiting' : seen'[d] = seen[d]
        /\ \A d \in Callers : seen'[d] \in {seen[d], {}}
        /\ \A d \in Callers : pc'[d] = "insert" =>
             pc[d] = "insert" /\ seen'[d] = seen[d] /\ req'[d] = req[d]
    BY <1>1, <1>3 DEF Answer, Waiting, Active, CapitalTypeOK
  <2>2. QED
    BY <1>3, <2>1, FewerKeepOvershoot
<1>4. ASSUME NEW c \in Callers, NEW k \in Correlations, NEW a \in Amounts, Reserve(c, k, a)
      PROVE  Granted' /\ SomeRanking(Active', Waiting', seen', amount')
  <2>1. /\ pc[c] = "idle" /\ UNCHANGED <<state, amount>> /\ pc' = [pc EXCEPT ![c] = "select"]
        /\ seen' = [seen EXCEPT ![c] = Active] /\ \A d \in Callers : d # c => req'[d] = req[d]
    BY <1>1, <1>4 DEF Reserve, table, CapitalTypeOK
  <2>2. QED
    BY <2>1, StartKeepsOvershoot
<1>5. ASSUME NEW c \in Callers, LockRows(c)
      PROVE  Granted' /\ SomeRanking(Active', Waiting', seen', amount')
  BY <1>5, LockKeepsOvershoot
<1>6. ASSUME NEW c \in Callers, Insert(c)
      PROVE  Granted' /\ SomeRanking(Active', Waiting', seen', amount')
  <2>1. CASE UniqueActive(req[c].corr)
    <3>1. PICK i \in FreshIds :
            /\ state' = [state EXCEPT ![i] = "active"]
            /\ amount' = [amount EXCEPT ![i] = req[c].amount] /\ Answer(c)
      BY <1>6, <2>1 DEF Insert
    <3>2. pc[c] = "insert"
      BY <1>6 DEF Insert
    <3>3. QED
      BY <1>1, <3>1, <3>2, WriteKeepsOvershoot
  <2>2. CASE ~UniqueActive(req[c].corr)
    <3>1. /\ UNCHANGED <<state, amount>>
          /\ Answer(c) \/ (pc' = [pc EXCEPT ![c] = "lookup"] /\ UNCHANGED <<req, seen>>)
      BY <1>6, <2>2 DEF Insert, table
    <3>2. QED
      BY <1>3, <3>1
  <2>3. QED
    BY <2>1, <2>2
<1>7. ASSUME NEW c \in Callers, LookupExisting(c)
      PROVE  Granted' /\ SomeRanking(Active', Waiting', seen', amount')
  <2>1. pc[c] = "lookup" /\ UNCHANGED <<state, amount>>
    BY <1>7 DEF LookupExisting, table
  <2>2. CASE Answer(c)
    BY <1>3, <2>1, <2>2
  <2>3. CASE pc' = [pc EXCEPT ![c] = "select"] /\ seen' = [seen EXCEPT ![c] = Active] /\ UNCHANGED req
    BY <2>1, <2>3, StartKeepsOvershoot
  <2>4. QED
    BY <1>7, <2>2, <2>3 DEF LookupExisting
<1>8. ASSUME NEW i \in Ids, Release(i) \/ GetById(i)
      PROVE  Granted' /\ SomeRanking(Active', Waiting', seen', amount')
  <2>1. /\ UNCHANGED <<amount, request>> /\ Active' \in SUBSET Active
        /\ \A j \in Ids : state[j] # "none" => state'[j] # "none"
    BY <1>1, <1>8 DEF Release, GetById, Active, CapitalTypeOK
  <2>2. QED
    BY <1>2, <2>1
<1>9. CASE Sweep
  <2>1. /\ UNCHANGED <<amount, request>> /\ Active' \in SUBSET Active
        /\ \A j \in Ids : state[j] # "none" => state'[j] # "none"
    BY <1>1, <1>9 DEF Sweep, SweptState, SweepTargets, Active, CapitalTypeOK
  <2>2. QED
    BY <1>2, <2>1
<1>10. ASSUME NEW i \in Ids, Lapse(i)
       PROVE  Granted' /\ SomeRanking(Active', Waiting', seen', amount')
  BY <1>2, <1>10 DEF Lapse, Active
<1>11. CASE PositionsChange \/ UNCHANGED capitalVars
  BY <1>2, <1>11 DEF PositionsChange, capitalVars, table, Active
<1>12. QED
  BY <1>4, <1>5, <1>6, <1>7, <1>8, <1>9, <1>10, <1>11 DEF CapitalNext, ReserveStep

LEMMA OvershootStart == CapitalInit => OvershootInv
<1> SUFFICES ASSUME CapitalInit PROVE OvershootInv
  OBVIOUS
<1>1. CapitalSafe
  BY CeilingAssumption, NoneAssumption
     DEF CapitalInit, CapitalSafe, CapitalTypeOK, OneActivePerCorrelation,
         AdmissionStaysTrue, Active, RowStates, Requests, NoRequest
<1>2. Active = {} /\ Waiting = {} /\ Granted
  BY DEF CapitalInit, Active, Waiting, Granted
<1>3. PICK turn : turn = [c \in Callers |-> 0]
  OBVIOUS
<1>4. Total(amount, {}) = 0 /\ Cardinality({}) = 0
  BY NothingIsZero, FS_EmptySet
<1>5. Cardinality(Callers) \in Nat /\ Cardinality(Callers) # 0
  BY RequestsAssumption, FS_EmptySet, FS_CardinalityType
<1>6. Bounded({}, {}, turn, 0, {})
  <2>1. {} \ {} = {} /\ Earlier({}, turn, 0) = {}
    BY DEF Earlier
  <2>2. QED
    BY <1>4, <1>5, <2>1 DEF Bounded
<1>7. Ranked({}, {}, seen, amount, turn, 0, {}, 0)
  <2>1. {} \cap {} = {}
    OBVIOUS
  <2>2. QED
    BY <1>3, <1>4, <1>6, <2>1, CeilingAssumption DEF Ranked
<1>8. SomeRanking(Active, Waiting, seen, amount)
  BY <1>2, <1>7 DEF SomeRanking
<1>9. QED
  BY <1>1, <1>2, <1>8 DEF OvershootInv

\* For any number of concurrent requests, rows, amounts and positions: the
\* active reservations pass the ceiling by no more than the largest amount for
\* each request beyond the first, however SELECTs, locks, inserts, releases,
\* sweeps and retries interleave (capital.service.ts attemptReserve, READ
\* COMMITTED with FOR UPDATE).
THEOREM CeilingOvershootBounded == CapitalSpec => []OvershootBounded
<1>1. OvershootInv => OvershootBounded
  <2> SUFFICES ASSUME OvershootInv PROVE OvershootBounded
    OBVIOUS
  <2>1. Active \in SUBSET Ids /\ Waiting \in SUBSET Callers /\ CapitalTypeOK
    BY TablesHaveTypes DEF OvershootInv, CapitalSafe
  <2>2. Max(Amounts) \in Amounts /\ \A a \in Amounts : a <= Max(Amounts)
    <3>1. Amounts \in SUBSET Int
      BY AmountsAssumption
    <3>2. QED
      BY <3>1, MaxIsReached, RequestsAssumption
  <2>3. PICK M : M = Max(Amounts)
    OBVIOUS
  <2>4. M \in Nat /\ \A i \in Ids : amount[i] \in 0..M
    <3>1. amount \in [Ids -> Amounts \cup {0}]
      BY <2>1 DEF CapitalTypeOK
    <3>2. M \in Nat /\ \A a \in Amounts : a \in Nat /\ a <= M
      BY <2>2, <2>3, AmountsAssumption
    <3>3. QED
      BY <3>1, <3>2
  <2>5. Total(amount, Active) <= Ceiling + (Cardinality(Callers) - 1) * M
    BY <2>1, <2>4, RankingIsBound DEF OvershootInv
  <2>6. SumAmount(Active) = Total(amount, Active)
    BY DEF SumAmount, Total
  <2>7. QED
    BY <2>3, <2>5, <2>6 DEF OvershootBounded
<1>2. QED
  BY <1>1, OvershootStart, OvershootStep, PTL DEF CapitalSpec

-----------------------------------------------------------------------------
(***************************************************************************)
(* The settlement relay.                                                   *)
(***************************************************************************)

(***************************************************************************)
(* A row may be marked, and a slot freed, only by a drain past the release *)
(* of that row: that knowledge of the drains (DrainKnowsReleased) is what  *)
(* makes the two promises inductive.                                       *)
(***************************************************************************)
SettlementSafe ==
  /\ SettlementTypeOK
  /\ DrainKnowsReleased
  /\ RelayedMeansReleased
  /\ SlotFreedAfterCapital

\* One step of a drain, the outbox, the bridge or the TTL keeps them.
LEMMA SettlementStep ==
  SettlementSafe /\ [SettlementNext]_settlementVars => SettlementSafe'
<1> USE NumRowsAssumption, FaultsAssumption
<1> SUFFICES ASSUME SettlementSafe, [SettlementNext]_settlementVars
             PROVE SettlementSafe'
  OBVIOUS
<1> USE DEF SettlementSafe, SettlementTypeOK, DrainKnowsReleased,
            RelayedMeansReleased, SlotFreedAfterCapital, IsCurrent, Rows,
            Goto, Advance, Fault, FirstCall, relay
<1>1. CASE WriteRow
  BY <1>1 DEF WriteRow
<1>2. ASSUME NEW d \in Drains, StartDrain(d) PROVE SettlementSafe'
  <2>1. FirstRows(Unprocessed) \subseteq Rows
    BY DEF FirstRows, Unprocessed
  <2>2. QED
    BY <1>2, <2>1 DEF StartDrain
<1>3. ASSUME NEW d \in Drains, EndDrain(d) PROVE SettlementSafe'
  BY <1>3 DEF EndDrain
<1>4. ASSUME NEW d \in Drains, NEW r \in Rows, RejectFill(d, r)
      PROVE SettlementSafe'
  BY <1>4 DEF RejectFill
<1>5. ASSUME NEW d \in Drains, NEW r \in Rows, ReleaseCapital(d, r)
      PROVE SettlementSafe'
  BY <1>5 DEF ReleaseCapital, Released
<1>6. ASSUME NEW d \in Drains, NEW r \in Rows, NotifyOpportunity(d, r)
      PROVE SettlementSafe'
  BY <1>6 DEF NotifyOpportunity
<1>7. ASSUME NEW d \in Drains, NEW r \in Rows, MarkProcessed(d, r)
      PROVE SettlementSafe'
  BY <1>7 DEF MarkProcessed
<1>8. ASSUME NEW d \in Drains, MarkFails(d) PROVE SettlementSafe'
  BY <1>8 DEF MarkFails
<1>9. ASSUME NEW d \in Drains, NEW r \in Rows, ReleaseFails(d, r)
      PROVE SettlementSafe'
  BY <1>9 DEF ReleaseFails, Released, AfterFailure
<1>10. ASSUME NEW r \in Rows, Expire(r) PROVE SettlementSafe'
  BY <1>10 DEF Expire
<1>11. ASSUME NEW r \in Rows, KafkaPublish(r) PROVE SettlementSafe'
  BY <1>11 DEF KafkaPublish
<1>12. CASE RelayCrash
  BY <1>12 DEF RelayCrash
<1>13. CASE UNCHANGED settlementVars
  BY <1>13 DEF settlementVars
<1>14. QED
  BY <1>1, <1>2, <1>3, <1>4, <1>5, <1>6, <1>7, <1>8, <1>9, <1>10, <1>11,
     <1>12, <1>13 DEF SettlementNext, DrainStep

\* All of it holds in every reachable state.
THEOREM SettlementCorrect == SettlementSpec => []SettlementSafe
<1>1. SettlementInit => SettlementSafe
  BY NumRowsAssumption, FaultsAssumption
     DEF SettlementInit, SettlementSafe, SettlementTypeOK, DrainKnowsReleased,
         RelayedMeansReleased, SlotFreedAfterCapital, IsCurrent, Rows
<1>2. QED
  BY <1>1, SettlementStep, PTL DEF SettlementSpec

\* For any number of rows, overlapping drains, crashes and failed calls, a
\* row the relay marked processed has had its capital released or expired.
THEOREM NoSettlementLost == SettlementSpec => []RelayedMeansReleased
<1>1. SettlementSafe => RelayedMeansReleased
  BY DEF SettlementSafe
<1>2. QED
  BY <1>1, SettlementCorrect, PTL

\* ... and an opportunity's slot is never freed while the capital is held.
THEOREM SlotAfterCapital == SettlementSpec => []SlotFreedAfterCapital
<1>1. SettlementSafe => SlotFreedAfterCapital
  BY DEF SettlementSafe
<1>2. QED
  BY <1>1, SettlementCorrect, PTL

-----------------------------------------------------------------------------
(***************************************************************************)
(* The portfolio ledger.  The idempotency row and the position are written *)
(* in one transaction: the notional is the sum of the fills that have one. *)
(***************************************************************************)
PositionIsTotal ==
  /\ position \in [quantity : Nat, notional : Nat, version : Nat]
  /\ position.notional = Total(FillQuantity, confirmed) /\ position.quantity <= position.notional
ClosesAreCounted ==
  /\ DOMAIN closed = CloseKeys
  /\ \A k \in CloseKeys \ {NoKey} : closed[k] = IF k \in closeRows THEN 1 ELSE 0
  /\ DOMAIN closing = Closes
  /\ \A x \in Closes : closing[x] # NoClose => closing[x].key \in CloseKeys
LedgerInv ==
  /\ confirmed \subseteq Fills /\ IsFiniteSet(confirmed)
  /\ DOMAIN confirming = Confirms
  /\ \A d \in Confirms : confirming[d] # "none" => confirming[d] \in Fills
  /\ PositionIsTotal /\ ClosesAreCounted

LEMMA LedgerStart == LedgerInit => LedgerInv
BY NothingIsZero, FS_EmptySet DEF LedgerInit, LedgerInv, PositionIsTotal, ClosesAreCounted

LEMMA FillKeeps == ASSUME LedgerInv, NEW d \in Confirms, ConfirmFill(d) PROVE LedgerInv'
<1>1. PICK f : f = confirming[d] /\ f # "none" /\ f \in Fills
  BY DEF ConfirmFill, LedgerInv
<1>2. /\ DOMAIN confirming' = Confirms
      /\ \A c \in Confirms : confirming'[c] # "none" => confirming'[c] \in Fills
      /\ UNCHANGED <<closeRows, closing, closed>>
  BY DEF ConfirmFill, LedgerInv
<1>3. CASE UNCHANGED <<position, confirmed>>
  BY <1>2, <1>3 DEF LedgerInv, PositionIsTotal, ClosesAreCounted
<1>4. CASE f \notin confirmed /\ position' = Filled(f) /\ confirmed' = confirmed \cup {f}
  <2>1. \A y \in confirmed \cup {f} : FillQuantity[y] \in Nat
    BY <1>1, LedgerBounds DEF LedgerInv
  <2>2. Total(FillQuantity, confirmed') = Total(FillQuantity, confirmed) + FillQuantity[f]
    BY <1>4, <2>1, TotalGrows DEF LedgerInv
  <2>3. IsFiniteSet(confirmed')
    BY <1>4, FS_AddElement DEF LedgerInv
  <2>4. PICK q \in Nat : q = FillQuantity[f]
    BY <2>1
  <2>5. position' = [quantity |-> position.quantity + q, notional |-> position.notional + q,
                     version |-> IF position.version = 0 THEN 2 ELSE position.version + 1]
    BY <1>4, <2>4 DEF Filled
  <2>6. PositionIsTotal'
    BY <2>2, <2>4, <2>5 DEF LedgerInv, PositionIsTotal
  <2>7. QED
    BY <1>1, <1>2, <1>4, <2>3, <2>6 DEF LedgerInv, ClosesAreCounted
<1>5. QED
  BY <1>1, <1>3, <1>4 DEF ConfirmFill, Confirmable

LEMMA CloseKeeps == ASSUME LedgerInv, NEW x \in Closes, Close(x) PROVE LedgerInv'
<1>1. PICK q : q = closing[x] /\ q # NoClose /\ q.key \in CloseKeys
  BY DEF Close, LedgerInv, ClosesAreCounted
<1>2. /\ DOMAIN closing' = Closes
      /\ \A c \in Closes : closing'[c] # NoClose => closing'[c].key \in CloseKeys
      /\ UNCHANGED <<confirmed, confirming>>
  BY DEF Close, LedgerInv, ClosesAreCounted
<1>3. CASE UNCHANGED <<position, closeRows, closed>>
  BY <1>2, <1>3 DEF LedgerInv, PositionIsTotal, ClosesAreCounted
<1>4. CASE /\ q.key \notin closeRows
           /\ position' = [quantity |-> 0, notional |-> position.notional,
                           version |-> position.version + 1]
           /\ closeRows' = IF q.key = NoKey THEN closeRows ELSE closeRows \cup {q.key}
           /\ closed' = [closed EXCEPT ![q.key] = @ + 1]
  <2>1. PositionIsTotal'
    BY <1>2, <1>4 DEF LedgerInv, PositionIsTotal
  <2>2. \A k \in CloseKeys \ {NoKey} : closed'[k] = IF k \in closeRows' THEN 1 ELSE 0
    BY <1>1, <1>4 DEF LedgerInv, ClosesAreCounted
  <2>3. QED
    BY <1>2, <1>4, <2>1, <2>2 DEF LedgerInv, ClosesAreCounted
<1>5. QED
  BY <1>1, <1>3, <1>4 DEF Close, ClosesIt

LEMMA LedgerSteps == LedgerInv /\ [LedgerNext]_ledgerVars => LedgerInv'
<1> SUFFICES ASSUME LedgerInv, [LedgerNext]_ledgerVars PROVE LedgerInv'
  OBVIOUS
<1>1. ASSUME NEW d \in Confirms, NEW f \in Fills, LookUpFill(d, f) PROVE LedgerInv'
  BY <1>1 DEF LookUpFill, LedgerInv, PositionIsTotal, ClosesAreCounted
<1>2. ASSUME NEW x \in Closes, NEW k \in CloseKeys, LookUpClose(x, k) PROVE LedgerInv'
  BY <1>2 DEF LookUpClose, LedgerInv, PositionIsTotal, ClosesAreCounted, NoClose
<1>3. CASE UNCHANGED ledgerVars
  BY <1>3 DEF ledgerVars, LedgerInv, PositionIsTotal, ClosesAreCounted
<1>4. QED
  BY <1>1, <1>2, <1>3, FillKeeps, CloseKeeps DEF LedgerNext

\* For any fills, deliveries and closes, the position is the sum of the fills
\* confirmed, each once, and a key closes at most once.
THEOREM FillsAreCountedOnce == LedgerSpec => []FillsCountOnce
<1>1. LedgerInv => FillsCountOnce
  BY DEF LedgerInv, PositionIsTotal, ClosesAreCounted, FillsCountOnce, Total
<1>2. QED
  BY <1>1, LedgerStart, LedgerSteps, PTL DEF LedgerSpec

-----------------------------------------------------------------------------
(***************************************************************************)
(* The cost gate.  As long as every part could be valued, what was added   *)
(* up covers what the legs looked at so far cost, but for the shortfall of *)
(* their gas.                                                              *)
(***************************************************************************)
CostOf(legs) == [i \in DOMAIN legs |-> LegCost(legs[i])]
ShortOf(legs) == [i \in DOMAIN legs |-> GasShortfall(legs[i])]
CostSoFar(legs, n) == Total(CostOf(legs), 1 .. n)
ShortSoFar(legs, n) == Total(ShortOf(legs), 1 .. n)
Unserved(leg) == leg.type = "bridge" /\ leg.bridge = "unserved"
GateIsSound ==
  /\ gate = [pc |-> gate.pc, legs |-> gate.legs, leg |-> gate.leg, cost |-> gate.cost,
             confidence |-> gate.confidence, missing |-> gate.missing]
  /\ gate.pc \in {"armed", "executing", "ungated"} /\ gate.legs \in GatedPlans
  /\ gate.leg \in 1 .. Len(gate.legs) + 1 /\ gate.cost \in Nat
  /\ "dex" \in gate.missing => gate.confidence = "unavailable"
  /\ \A i \in 1 .. gate.leg - 1 : Unserved(gate.legs[i]) => gate.confidence = "unavailable"
  /\ gate.missing = {} =>
       CostSoFar(gate.legs, gate.leg - 1) <= gate.cost + ShortSoFar(gate.legs, gate.leg - 1)
  /\ gate.pc = "executing" =>
       /\ gate.leg = Len(gate.legs) + 1 /\ gate.confidence # "unavailable"
       /\ ProfitKnown => gate.cost + EnvMinNet <= GrossProfit
GateInv == GateIsSound /\ limits \in Int /\ limitsCache \in Int

LEMMA GatedLegs ==
  ASSUME NEW legs \in GatedPlans
  PROVE  /\ Len(legs) \in Nat /\ DOMAIN legs = 1 .. Len(legs)
         /\ \A i \in DOMAIN legs : IsGatedLeg(legs[i])
BY GateAssumption

LEMMA QuotientIsNatural == ASSUME NEW m \in Nat, NEW d \in Nat, d > 0 PROVE m \div d \in Nat
  OBVIOUS

LEMMA ShareIsNatural ==
  ASSUME NEW leg, leg.notional \in Nat, NEW bps \in Nat
  PROVE  BpsOf(leg, bps) \in Nat
<1>1. PICK m \in Nat : m = leg.notional * bps
  OBVIOUS
<1>2. QED
  BY <1>1 DEF BpsOf

LEMMA ImpactIsNatural ==
  ASSUME NEW leg, leg.fair \in Nat \ {0}, leg.real \in Nat
  PROVE  PriceImpactBps(leg) \in Nat
<1>1. CASE leg.real >= leg.fair
  BY <1>1 DEF PriceImpactBps
<1>2. CASE ~ (leg.real >= leg.fair)
  <2>1. PICK m \in Nat : m = (leg.fair - leg.real) * 10000
    BY <1>2
  <2>2. m \div leg.fair \in Nat
    BY <2>1, QuotientIsNatural
  <2>3. QED
    BY <1>2, <2>1, <2>2 DEF PriceImpactBps
<1>3. QED
  BY <1>1, <1>2

\* An estimate of a swap is short of what it costs by its gas at most, or
\* something is missing.
LEMMA SwapEstimates ==
  ASSUME NEW leg, IsGatedLeg(leg), leg.type = "dex", NEW e \in DexLegCosts(leg)
  PROVE  /\ e.cost \in Nat /\ (e.missing = {} => e.cost + GasShortfall(leg) >= LegCost(leg))
         /\ "dex" \in e.missing => e.confidence = "unavailable"
         /\ e.confidence \in {"exact", "modeled", "unavailable"}
<1>1. /\ {leg.gas, leg.emptyGas, leg.flatGas} \subseteq Nat
      /\ leg.notional \in Nat /\ leg.slippageBps \in Nat
      /\ leg.fair \in Nat \ {0} /\ leg.real \in Nat /\ leg.tier \in DOMAIN PairPools
  BY DEF IsGatedLeg
<1>2. PICK pool, s, g, valued :
        /\ pool \in DOMAIN PairPools \cup {"none"}
        /\ g \in GasEstimates(leg) /\ valued \in BOOLEAN /\ s \in SlippageEstimates(leg, pool)
        /\ e = [cost |-> g.cost + (IF valued THEN BpsOf(leg, s.bps) + BpsOf(leg, FeeBps(pool)) ELSE 0),
                confidence |-> IF g.missing # {} THEN "unavailable"
                               ELSE IF valued THEN s.confidence ELSE "modeled",
                missing |-> g.missing \cup s.missing \cup (IF valued THEN {} ELSE {"notional"})]
  <2>1. \A cached \in SUBSET DOMAIN PairPools : findPoolForLeg(leg, cached) \subseteq DOMAIN PairPools \cup {"none"}
    BY DEF findPoolForLeg
  <2>2. QED
    BY <2>1 DEF DexLegCosts
<1>3. /\ s.bps \in Nat /\ s.missing \subseteq {"impact", "poolFee"}
      /\ s.confidence \in {"exact", "modeled"}
      /\ s.missing = {} => pool = leg.tier /\ s.bps = PriceImpactBps(leg)
  <2>1. s \in SlippageEstimates(leg, pool) /\ PriceImpactBps(leg) \in Nat /\ leg.tier # "none"
    BY <1>1, <1>2, ImpactIsNatural, GateAssumption
  <2>2. CASE pool = "none"
    <3>1. SlippageEstimates(leg, pool)
            = {[bps |-> leg.slippageBps, confidence |-> "modeled", missing |-> {"impact", "poolFee"}]}
      BY <2>1, <2>2 DEF SlippageEstimates
    <3>2. QED
      BY <1>1, <2>1, <3>1
  <2>3. CASE pool # "none" /\ pool = leg.tier
    <3>1. SlippageEstimates(leg, pool) \subseteq
            {[bps |-> PriceImpactBps(leg), confidence |-> "exact", missing |-> {}],
             [bps |-> leg.slippageBps, confidence |-> "modeled", missing |-> {"impact"}]}
      BY <2>3 DEF SlippageEstimates
    <3>2. QED
      BY <1>1, <2>1, <2>3, <3>1
  <2>4. CASE pool # "none" /\ pool # leg.tier
    <3>1. SlippageEstimates(leg, pool) =
            {[bps |-> 0, confidence |-> "exact", missing |-> {"impact"}],
             [bps |-> 10000, confidence |-> "exact", missing |-> {"impact"}]}
      BY <2>4 DEF SlippageEstimates
    <3>2. QED
      BY <2>1, <2>4, <3>1
  <2>5. QED
    BY <2>2, <2>3, <2>4
<1>4. /\ g.cost \in Nat /\ (g.missing = {} => g.cost + GasShortfall(leg) >= leg.gas)
      /\ GasShortfall(leg) \in Nat
      /\ g.missing \subseteq {"dex"}
  <2>1. g \in GasEstimates(leg)
    BY <1>2
  <2>2. GasShortfall(leg) \in Nat
    BY <1>1 DEF GasShortfall, LeastOf
  <2>3. /\ leg.emptyGas + GasShortfall(leg) >= leg.gas
        /\ leg.flatGas + GasShortfall(leg) >= leg.gas
    BY <1>1 DEF GasShortfall, LeastOf
  <2>4. /\ g.cost \in {leg.emptyGas, leg.flatGas, 0} /\ g.missing \in {{}, {"dex"}}
        /\ g.missing = {} => g.cost \in {leg.emptyGas, leg.flatGas}
    BY <2>1 DEF GasEstimates
  <2>5. QED
    BY <1>1, <2>2, <2>3, <2>4
<1>5. FeeBps(pool) \in Nat
  BY <1>2, GateAssumption DEF FeeBps
<1>6. BpsOf(leg, s.bps) \in Nat /\ BpsOf(leg, FeeBps(pool)) \in Nat
  BY <1>1, <1>3, <1>5, ShareIsNatural
<1>7. e.cost \in Nat
  BY <1>2, <1>4, <1>6
<1>8. e.missing = {} => e.cost + GasShortfall(leg) >= LegCost(leg)
  <2>1. SUFFICES ASSUME e.missing = {} PROVE e.cost + GasShortfall(leg) >= LegCost(leg)
    OBVIOUS
  <2>2. g.missing = {} /\ s.missing = {} /\ valued
    BY <1>2, <2>1
  <2>3. e.cost = g.cost + (BpsOf(leg, PriceImpactBps(leg)) + BpsOf(leg, FeeBps(leg.tier)))
    BY <1>2, <1>3, <1>4, <2>2
  <2>4. QED
    BY <1>1, <1>3, <1>4, <1>6, <2>2, <2>3 DEF LegCost
<1>9. /\ "dex" \in e.missing => e.confidence = "unavailable"
      /\ e.confidence \in {"exact", "modeled", "unavailable"}
  BY <1>2, <1>3, <1>4
<1>10. QED
  BY <1>7, <1>8, <1>9

LEMMA TransferEstimates ==
  ASSUME NEW leg, IsGatedLeg(leg), leg.type = "bridge", NEW e \in BridgeLegCosts(leg)
  PROVE  /\ e.cost \in Nat /\ (e.missing = {} => e.cost >= LegCost(leg))
         /\ "dex" \notin e.missing
         /\ leg.bridge = "unserved" => e.confidence = "unavailable"
         /\ e.confidence \in {"exact", "modeled", "unavailable"}
<1>1. leg.flatGas \in Nat /\ leg.submitGas \in Nat /\ leg.relay \in Nat
  BY DEF IsGatedLeg
<1>2. PICK fee \in BridgeFees(leg), g \in GasEstimates(leg) :
        e = [cost |-> fee + g.cost,
             confidence |-> IF leg.bridge \notin {"across", "stargate", "native"} THEN "unavailable"
                            ELSE IF g.missing = {} THEN "exact" ELSE "modeled",
             missing |-> g.missing \cup (IF fee = leg.submitGas + leg.relay THEN {} ELSE {"bridgeFee"})]
  BY DEF BridgeLegCosts
<1>3. fee \in Nat
  <2>1. CASE fee \in AcrossFee(leg)
    BY <1>1, <2>1 DEF AcrossFee
  <2>2. CASE fee \in StargateFee(leg)
    BY <1>1, <2>2 DEF StargateFee
  <2>3. CASE fee \in NativeFee(leg) \cup {0}
    BY <1>1, <2>3 DEF NativeFee
  <2>4. QED
    BY <2>1, <2>2, <2>3 DEF BridgeFees
<1>4. g.cost \in Nat /\ g.missing \subseteq {"bridge"}
  BY <1>1 DEF GasEstimates
<1>5. QED
  BY <1>1, <1>2, <1>3, <1>4 DEF LegCost

LEMMA LegCostIsNatural == ASSUME NEW leg, IsGatedLeg(leg) PROVE LegCost(leg) \in Nat
<1>1. CASE leg.type = "bridge"
  BY <1>1 DEF LegCost, IsGatedLeg
<1>2. CASE leg.type = "dex"
  <2>1. /\ leg.gas \in Nat /\ leg.notional \in Nat /\ leg.fair \in Nat \ {0} /\ leg.real \in Nat
        /\ leg.tier \in DOMAIN PairPools
    BY <1>2 DEF IsGatedLeg
  <2>2. FeeBps(leg.tier) \in Nat
    BY <2>1, GateAssumption DEF FeeBps
  <2>3. BpsOf(leg, PriceImpactBps(leg)) \in Nat /\ BpsOf(leg, FeeBps(leg.tier)) \in Nat
    BY <2>1, <2>2, ImpactIsNatural, ShareIsNatural
  <2>4. QED
    BY <1>2, <2>1, <2>3 DEF LegCost
<1>3. QED
  BY <1>1, <1>2 DEF IsGatedLeg

LEMMA ShortfallIsNatural ==
  ASSUME NEW leg, IsGatedLeg(leg)
  PROVE  GasShortfall(leg) \in Nat /\ (leg.type = "bridge" => GasShortfall(leg) = 0)
BY DEF IsGatedLeg, GasShortfall, LeastOf

LEMMA PlanSumsAreNatural ==
  ASSUME NEW legs \in GatedPlans
  PROVE  /\ CostSoFar(legs, Len(legs)) \in Nat /\ ShortSoFar(legs, Len(legs)) \in Nat
<1>1. IsFiniteSet(DOMAIN legs) /\ DOMAIN legs = 1 .. Len(legs)
  BY GatedLegs, FS_Interval
<1>2. \A i \in DOMAIN legs : CostOf(legs)[i] \in Nat /\ ShortOf(legs)[i] \in Nat
  BY GatedLegs, LegCostIsNatural, ShortfallIsNatural DEF CostOf, ShortOf
<1>3. QED
  BY <1>1, <1>2, TotalIsNatural DEF CostSoFar, ShortSoFar

\* One more leg: its cost and its shortfall are added.
LEMMA SumsGrow ==
  ASSUME NEW legs \in GatedPlans, NEW n \in 1 .. Len(legs)
  PROVE  /\ CostSoFar(legs, n - 1) \in Nat /\ ShortSoFar(legs, n - 1) \in Nat
         /\ CostSoFar(legs, n) = CostSoFar(legs, n - 1) + LegCost(legs[n])
         /\ ShortSoFar(legs, n) = ShortSoFar(legs, n - 1) + GasShortfall(legs[n])
<1>1. /\ Len(legs) \in Nat /\ DOMAIN legs = 1 .. Len(legs)
      /\ \A i \in DOMAIN legs : IsGatedLeg(legs[i])
  BY GatedLegs
<1>2. \A i \in DOMAIN legs :
        /\ CostOf(legs)[i] = LegCost(legs[i]) /\ LegCost(legs[i]) \in Nat
        /\ ShortOf(legs)[i] = GasShortfall(legs[i]) /\ GasShortfall(legs[i]) \in Nat
  BY <1>1, LegCostIsNatural, ShortfallIsNatural DEF CostOf, ShortOf
<1>3. (1 .. n - 1) \cup {n} = 1 .. n /\ n \notin 1 .. n - 1 /\ 1 .. n \subseteq DOMAIN legs
  BY <1>1
<1>4. IsFiniteSet(1 .. n - 1)
  BY <1>1, FS_Interval
<1>5. /\ Total(CostOf(legs), 1 .. n - 1) \in Nat
      /\ Total(CostOf(legs), (1 .. n - 1) \cup {n}) = Total(CostOf(legs), 1 .. n - 1) + CostOf(legs)[n]
  <2>1. \A y \in (1 .. n - 1) \cup {n} : CostOf(legs)[y] \in Nat
    BY <1>2, <1>3
  <2>2. QED
    BY <1>3, <1>4, <2>1, TotalGrows
<1>6. /\ Total(ShortOf(legs), 1 .. n - 1) \in Nat
      /\ Total(ShortOf(legs), (1 .. n - 1) \cup {n}) = Total(ShortOf(legs), 1 .. n - 1) + ShortOf(legs)[n]
  <2>1. \A y \in (1 .. n - 1) \cup {n} : ShortOf(legs)[y] \in Nat
    BY <1>2, <1>3
  <2>2. QED
    BY <1>3, <1>4, <2>1, TotalGrows
<1>7. QED
  BY <1>1, <1>2, <1>3, <1>5, <1>6 DEF CostSoFar, ShortSoFar

LEMMA GateStart == PricingInit => GateInv
<1> SUFFICES ASSUME PricingInit PROVE GateInv
  OBVIOUS
<1>1. PICK legs \in GatedPlans : gate = NoGate(legs)
  BY DEF PricingInit
<1>2. 1 .. gate.leg - 1 = {} /\ gate.leg = 1 /\ gate.legs = legs
  BY <1>1 DEF NoGate
<1>3. CostSoFar(gate.legs, gate.leg - 1) = 0 /\ ShortSoFar(gate.legs, gate.leg - 1) = 0
  BY <1>2, NothingIsZero DEF CostSoFar, ShortSoFar
<1>4. Len(legs) \in Nat
  BY GatedLegs
<1>5. GateIsSound
  BY <1>1, <1>2, <1>3, <1>4 DEF GateIsSound, NoGate
<1>6. QED
  BY <1>5, GateAssumption DEF PricingInit, GateInv

LEMMA EstimateKeeps == ASSUME GateInv, EstimateLeg PROVE GateInv'
<1>1. PICK legs, n, leg : legs = gate.legs /\ n = gate.leg /\ leg = legs[n]
  OBVIOUS
<1>2. /\ legs \in GatedPlans /\ Len(legs) \in Nat /\ DOMAIN legs = 1 .. Len(legs)
      /\ n \in Nat /\ n >= 1 /\ n <= Len(legs) /\ gate.pc = "armed"
  <2>1. legs \in GatedPlans
    BY <1>1 DEF GateInv, GateIsSound
  <2>2. Len(legs) \in Nat /\ DOMAIN legs = 1 .. Len(legs)
    BY <2>1, GatedLegs
  <2>3. QED
    BY <1>1, <2>1, <2>2 DEF GateInv, GateIsSound, EstimateLeg
<1>3. /\ IsGatedLeg(leg)
      /\ \A i \in DOMAIN legs : IsGatedLeg(legs[i])
  BY <1>1, <1>2, GatedLegs
<1>4. PICK e :
        /\ e \in IF leg.type = "bridge" THEN BridgeLegCosts(leg) ELSE DexLegCosts(leg)
        /\ gate' = [pc |-> "armed", legs |-> legs, leg |-> n + 1, cost |-> gate.cost + e.cost,
                    confidence |-> Worse(gate.confidence, e.confidence),
                    missing |-> gate.missing \cup e.missing]
        /\ UNCHANGED <<limits, limitsCache>>
  BY <1>1 DEF EstimateLeg
<1>5. /\ e.cost \in Nat /\ (e.missing = {} => e.cost + GasShortfall(leg) >= LegCost(leg))
      /\ "dex" \in e.missing => e.confidence = "unavailable"
      /\ Unserved(leg) => e.confidence = "unavailable"
  <2>1. CASE leg.type = "bridge"
    <3>1. GasShortfall(leg) = 0 /\ LegCost(leg) \in Nat
      BY <1>3, <2>1, ShortfallIsNatural, LegCostIsNatural
    <3>2. QED
      BY <1>3, <1>4, <2>1, <3>1, TransferEstimates DEF Unserved
  <2>2. CASE leg.type = "dex"
    <3>1. e \in DexLegCosts(leg)
      BY <1>4, <2>2
    <3>2. e.cost \in Nat /\ (e.missing = {} => e.cost + GasShortfall(leg) >= LegCost(leg))
          /\ ("dex" \in e.missing => e.confidence = "unavailable")
      BY <1>3, <2>2, <3>1, SwapEstimates
    <3>3. QED
      BY <2>2, <3>2 DEF Unserved
  <2>3. QED
    BY <1>3, <2>1, <2>2 DEF IsGatedLeg
<1>6. \A c, d : (c = "unavailable" \/ d = "unavailable") => Worse(c, d) = "unavailable"
  BY DEF Worse
<1>7. e.missing = {} /\ gate.missing = {} =>
        CostSoFar(legs, n) <= (gate.cost + e.cost) + ShortSoFar(legs, n)
  <2>1. SUFFICES ASSUME e.missing = {}, gate.missing = {}
                 PROVE  CostSoFar(legs, n) <= (gate.cost + e.cost) + ShortSoFar(legs, n)
    OBVIOUS
  <2>2. /\ CostSoFar(legs, n - 1) \in Nat /\ ShortSoFar(legs, n - 1) \in Nat
        /\ CostSoFar(legs, n) = CostSoFar(legs, n - 1) + LegCost(leg)
        /\ ShortSoFar(legs, n) = ShortSoFar(legs, n - 1) + GasShortfall(leg)
    BY <1>1, <1>2, SumsGrow
  <2>3. LegCost(leg) \in Nat /\ GasShortfall(leg) \in Nat
    BY <1>3, LegCostIsNatural, ShortfallIsNatural
  <2>4. CostSoFar(legs, n - 1) <= gate.cost + ShortSoFar(legs, n - 1) /\ gate.cost \in Nat
    BY <1>1, <2>1 DEF GateInv, GateIsSound
  <2>5. QED
    BY <1>5, <2>1, <2>2, <2>3, <2>4
<1>8. \A i \in 1 .. n : Unserved(legs[i]) => gate'.confidence = "unavailable"
  <2>1. \A i \in 1 .. n - 1 : Unserved(legs[i]) => gate.confidence = "unavailable"
    BY <1>1 DEF GateInv, GateIsSound
  <2>2. \A i \in 1 .. n : i \in 1 .. n - 1 \/ i = n
    BY <1>2
  <2>3. gate'.confidence = Worse(gate.confidence, e.confidence)
    BY <1>4
  <2>4. QED
    BY <1>1, <1>5, <1>6, <2>1, <2>2, <2>3
<1>9. "dex" \in gate'.missing => gate'.confidence = "unavailable"
  BY <1>4, <1>5, <1>6 DEF GateInv, GateIsSound
<1>10. gate'.leg - 1 = n /\ gate'.leg \in 1 .. Len(gate'.legs) + 1 /\ gate'.cost \in Nat
  BY <1>2, <1>4, <1>5 DEF GateInv, GateIsSound
<1>11. gate'.missing = {} => CostSoFar(gate'.legs, n) <= gate'.cost + ShortSoFar(gate'.legs, n)
  BY <1>4, <1>7
<1>12. GateIsSound'
  BY <1>2, <1>4, <1>8, <1>9, <1>10, <1>11 DEF GateIsSound
<1>13. QED
  BY <1>4, <1>12 DEF GateInv

LEMMA EvaluationKeeps == ASSUME GateInv, EvaluatePlanGate PROVE GateInv'
<1>1. /\ gate.leg = Len(gate.legs) + 1 /\ gate.legs \in GatedPlans /\ Len(gate.legs) \in Nat
      /\ UNCHANGED <<limits, limitsCache>>
  BY GatedLegs DEF GateInv, GateIsSound, EvaluatePlanGate
<1>2. CASE Allowed /\ gate' = [gate EXCEPT !.pc = "executing"]
  <2>1. gate' = [pc |-> "executing", legs |-> gate.legs, leg |-> gate.leg, cost |-> gate.cost,
                 confidence |-> gate.confidence, missing |-> gate.missing]
    BY <1>2 DEF GateInv, GateIsSound
  <2>2. MinNetProfit \in Int /\ EnvMinNet <= MinNetProfit
    BY GateAssumption DEF MinNetProfit, ApplyEnvLowerBounds, GateInv
  <2>3. ProfitKnown => gate.cost + EnvMinNet <= GrossProfit
    BY <1>2, <2>2, GateAssumption DEF Allowed, GateInv, GateIsSound
  <2>4. GateIsSound'
    BY <1>1, <1>2, <2>1, <2>3 DEF GateInv, GateIsSound, Allowed, ProfitKnown
  <2>5. QED
    BY <1>1, <2>4 DEF GateInv
<1>3. CASE gate' = NoGate(gate.legs)
  <2>1. 1 .. gate'.leg - 1 = {} /\ gate'.leg = 1 /\ gate'.legs = gate.legs
    BY <1>3 DEF NoGate
  <2>2. CostSoFar(gate'.legs, gate'.leg - 1) = 0 /\ ShortSoFar(gate'.legs, gate'.leg - 1) = 0
    BY <2>1, NothingIsZero DEF CostSoFar, ShortSoFar
  <2>3. GateIsSound'
    BY <1>1, <1>3, <2>1, <2>2 DEF GateIsSound, NoGate
  <2>4. QED
    BY <1>1, <2>3 DEF GateInv
<1>4. QED
  BY <1>2, <1>3 DEF EvaluatePlanGate

LEMMA GateSteps == GateInv /\ [OracleNext \/ GateNext \/ InfrastructureNext]_pricingVars => GateInv'
<1> SUFFICES ASSUME GateInv, [OracleNext \/ GateNext \/ InfrastructureNext]_pricingVars
             PROVE  GateInv'
  OBVIOUS
<1>1. UNCHANGED <<gate, limits, limitsCache>> => GateInv'
  BY DEF GateInv, GateIsSound
<1>2. CASE OracleNext
  <2>1. UNCHANGED <<gate, limits, limitsCache>>
    BY <1>2 DEF OracleNext, TimePasses, CleanupExpired, ReadDecimals, ReadFeed, FeedAnswers, CachePool,
       DiscoverPool, AskPrice, PriceUsed, gateVars
  <2>2. QED
    BY <1>1, <2>1
<1>3. CASE InfrastructureNext
  <2>1. UNCHANGED <<gate, limits, limitsCache>>
    BY <1>3 DEF InfrastructureNext, TimePasses, ResolveBestFeeTier, ReadTier, CacheTier, GetDexHealth,
       StartHealthCheck, CheckProviderHealth, gateVars
  <2>2. QED
    BY <1>1, <2>1
<1>4. CASE \E m \in MinNetSeen : LimitsChange(m)
  BY <1>4, GateAssumption DEF LimitsChange, GateInv, GateIsSound
<1>5. CASE RefreshLimits
  BY <1>5, GateAssumption DEF RefreshLimits, ParseLimits, GateInv, GateIsSound
<1>6. CASE UNCHANGED pricingVars
  BY <1>1, <1>6 DEF pricingVars, gateVars
<1>7. CASE EstimatorFails
  <2>1. /\ UNCHANGED <<limits, limitsCache>>
        /\ gate' = [pc |-> "ungated", legs |-> gate.legs, leg |-> gate.leg, cost |-> gate.cost,
                    confidence |-> gate.confidence, missing |-> gate.missing]
    BY <1>7 DEF EstimatorFails, GateInv, GateIsSound
  <2>2. QED
    BY <2>1 DEF GateInv, GateIsSound
<1>8. QED
  BY <1>2, <1>3, <1>4, <1>5, <1>6, <1>7, EstimateKeeps, EvaluationKeeps DEF GateNext

\* For any plans, costs, limits and faults of the feeds, a plan let through with
\* every part valued earns the configured minimum after the cost of its legs,
\* but for the gas by which its swaps exceed their estimates.
THEOREM GateIsCovered == PricingSpec => []GateCoversCosts
<1>1. ASSUME GateInv PROVE GateCoversCosts
  <2>1. SUFFICES ASSUME gate.pc = "executing" PROVE GateCoversCosts
    BY DEF GateCoversCosts
  <2>2. /\ gate.legs \in GatedPlans /\ gate.leg = Len(gate.legs) + 1 /\ Len(gate.legs) \in Nat
        /\ DOMAIN gate.legs = 1 .. Len(gate.legs) /\ gate.leg - 1 = Len(gate.legs)
    BY <1>1, <2>1, GatedLegs DEF GateInv, GateIsSound
  <2>3. "dex" \notin gate.missing
    BY <1>1, <2>1 DEF GateInv, GateIsSound
  <2>4. \A i \in DOMAIN gate.legs : ~ Unserved(gate.legs[i])
    BY <1>1, <2>1, <2>2 DEF GateInv, GateIsSound
  <2>5. /\ PlanCost = CostSoFar(gate.legs, Len(gate.legs))
        /\ PlanShortfall = ShortSoFar(gate.legs, Len(gate.legs))
    BY <2>2 DEF PlanCost, PlanShortfall, SumOver, Total, CostOf, ShortOf, CostSoFar, ShortSoFar
  <2>6. ASSUME ProfitKnown, gate.missing = {}
        PROVE  PlanCost + EnvMinNet <= GrossProfit + PlanShortfall
    <3>1. /\ PlanCost <= gate.cost + PlanShortfall
          /\ gate.cost + EnvMinNet <= GrossProfit /\ gate.cost \in Nat
      BY <1>1, <2>1, <2>2, <2>5, <2>6 DEF GateInv, GateIsSound
    <3>2. PlanCost \in Nat /\ PlanShortfall \in Nat
      BY <2>2, <2>5, PlanSumsAreNatural
    <3>3. QED
      BY <3>1, <3>2, GateAssumption
  <2>7. QED
    BY <2>3, <2>4, <2>6 DEF GateCoversCosts, Unserved
<1>2. QED
  BY <1>1, GateStart, GateSteps, PTL DEF PricingSpec
=============================================================================
