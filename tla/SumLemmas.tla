------------------------------ MODULE SumLemmas ------------------------------
(* Sums over finite sets, as the models write them with MapThenSumSet: the    *)
(* lemmas their counters' proofs need.  The library computes such a sum by a  *)
(* recursion that removes a chosen element at a time; the proofs go by the    *)
(* smallest set that would be a counterexample.                               *)
EXTENDS Integers, FiniteSetsExt, FiniteSetTheorems, WellFoundedInduction, TLAPS

\* The sum of a function over a finite set, and the recursive function the
\* library computes it with.
Total(f, S) == MapThenSumSet(LAMBDA x : f[x], S)
Pick(s) == CHOOSE x \in s : TRUE
IsIter(g, f, S) == g = [s \in SUBSET S |-> IF s = {} THEN 0 ELSE f[Pick(s)] + g[s \ {Pick(s)}]]
Iter(f, S) == CHOOSE g : IsIter(g, f, S)

LEMMA LeastNumber == ASSUME NEW T \in SUBSET Nat, T # {} PROVE \E n \in T : \A m \in T : n <= m
<1>1. PICK x \in T : \A y \in T : ~ (<<y, x>> \in OpToRel(<, Nat))
  BY WFMin, NatLessThanWellFounded
<1>2. \A y \in T : ~(y < x)
  BY <1>1 DEF OpToRel
<1> QED BY <1>2

\* Of a set of finite sets, one has the fewest elements.
LEMMA SmallestSet ==
    ASSUME NEW C, C # {}, \A s \in C : IsFiniteSet(s)
    PROVE  \E s \in C : \A t \in C : Cardinality(s) <= Cardinality(t)
<1> DEFINE T == {Cardinality(s) : s \in C}
<1>1. T \in SUBSET Nat /\ T # {}
  BY FS_CardinalityType
<1>2. PICK n \in T : \A m \in T : n <= m
  BY <1>1, LeastNumber
<1> QED BY <1>2

LEMMA PickFacts ==
    ASSUME NEW s, IsFiniteSet(s), s # {}
    PROVE  /\ Pick(s) \in s
           /\ IsFiniteSet(s \ {Pick(s)})
           /\ Cardinality(s) \in Nat /\ Cardinality(s) > 0
           /\ Cardinality(s \ {Pick(s)}) = Cardinality(s) - 1
<1>1. Pick(s) \in s
  BY DEF Pick
<1> QED BY <1>1, FS_RemoveElement, FS_CardinalityType, FS_EmptySet

\* The recursion is well founded: there is such a function.
LEMMA IterExists == ASSUME NEW f, NEW S, IsFiniteSet(S) PROVE \E g : IsIter(g, f, S)
<1> DEFINE Small(n) == {s \in SUBSET S : Cardinality(s) <= n}
           Step(g, s) == IF s = {} THEN 0 ELSE f[Pick(s)] + g[s \ {Pick(s)}]
           Good(n) == \E g : g = [s \in Small(n) |-> Step(g, s)]
           Bad == {n \in Nat : ~Good(n)}
<1>0. \A s \in SUBSET S : IsFiniteSet(s) /\ Cardinality(s) \in Nat
  BY FS_Subset, FS_CardinalityType
<1>1. Good(0)
  <2>1. \A s \in Small(0) : s = {}
    BY <1>0, FS_EmptySet
  <2> DEFINE g == [s \in Small(0) |-> 0]
  <2>2. g = [s \in Small(0) |-> Step(g, s)]
    BY <2>1
  <2> QED BY <2>2
<1>2. ASSUME NEW n \in Nat, n > 0, Good(n - 1) PROVE Good(n)
  <2>1. PICK g : g = [s \in Small(n - 1) |-> Step(g, s)]
    BY <1>2
  <2> DEFINE h == [s \in Small(n) |-> Step(g, s)]
  <2>2. \A s \in Small(n - 1) : h[s] = g[s]
    <3> SUFFICES ASSUME NEW s \in Small(n - 1) PROVE h[s] = g[s]
      OBVIOUS
    <3>1. s \in Small(n)
      BY <1>0
    <3>2. g[s] = Step(g, s)
      <4> HIDE DEF Step, Small
      <4> QED BY <2>1
    <3> QED BY <3>1, <3>2
  <2>3. \A s \in Small(n) : s # {} => s \ {Pick(s)} \in Small(n - 1)
    BY <1>0, PickFacts
  <2>4. \A s \in Small(n) : Step(g, s) = Step(h, s)
    <3> HIDE DEF h, Small
    <3> QED BY <2>2, <2>3
  <2>5. h = [s \in Small(n) |-> Step(h, s)]
    <3> SUFFICES [s \in Small(n) |-> Step(g, s)] = [s \in Small(n) |-> Step(h, s)]
      OBVIOUS
    <3> HIDE DEF h, Step, Small
    <3> QED BY <2>4
  <2> HIDE DEF h
  <2> QED BY <2>5
<1>3. Bad = {}
  <2> SUFFICES ASSUME Bad # {} PROVE FALSE
    OBVIOUS
  <2> HIDE DEF Good
  <2>1. PICK n \in Bad : \A m \in Bad : n <= m
    BY LeastNumber
  <2>2. n > 0 /\ n - 1 \in Nat /\ n - 1 \notin Bad
    BY <1>1, <2>1
  <2> QED BY <1>2, <2>1, <2>2
<1>4. Good(Cardinality(S))
  <2> HIDE DEF Good
  <2> QED BY <1>3, FS_CardinalityType
<1>5. Small(Cardinality(S)) = SUBSET S
  BY FS_Subset
<1>6. PICK g : g = [s \in Small(Cardinality(S)) |-> Step(g, s)]
  BY <1>4
<1>7. g = [s \in SUBSET S |-> Step(g, s)]
  <2> HIDE DEF Step, Small
  <2> QED BY <1>5, <1>6
<1> QED
  BY <1>7 DEF IsIter

LEMMA TotalIter ==
    ASSUME NEW f, NEW S, IsFiniteSet(S)
    PROVE  /\ IsIter(Iter(f, S), f, S)
           /\ Total(f, S) = Iter(f, S)[S]
<1>1. IsIter(Iter(f, S), f, S)
  BY IterExists DEF Iter
<1>2. Total(f, S) = Iter(f, S)[S]
  BY DEF Total, Iter, IsIter, Pick, MapThenSumSet, MapThenFoldSet
<1> QED BY <1>1, <1>2

LEMMA IterStep ==
    ASSUME NEW f, NEW S, NEW g, IsIter(g, f, S), NEW s \in SUBSET S
    PROVE  g[s] = IF s = {} THEN 0 ELSE f[Pick(s)] + g[s \ {Pick(s)}]
  BY DEF IsIter

\* Functions that agree on a set have the same sum on it.
LEMMA IterAgree ==
    ASSUME NEW f, NEW e, NEW S, IsFiniteSet(S), NEW A, A \subseteq S,
           NEW g, NEW h, IsIter(g, f, S), IsIter(h, e, A), \A x \in A : f[x] = e[x]
    PROVE  g[A] = h[A]
<1> DEFINE Bad == {s \in SUBSET A : g[s] # h[s]}
<1> SUFFICES ASSUME Bad # {} PROVE FALSE
  OBVIOUS
<1>1. \A s \in Bad : IsFiniteSet(s)
  BY FS_Subset
<1>2. PICK s \in Bad : \A t \in Bad : Cardinality(s) <= Cardinality(t)
  <2> HIDE DEF Bad
  <2> QED BY <1>1, SmallestSet
<1>3. g[s] = (IF s = {} THEN 0 ELSE f[Pick(s)] + g[s \ {Pick(s)}])
  BY IterStep
<1>4. h[s] = (IF s = {} THEN 0 ELSE e[Pick(s)] + h[s \ {Pick(s)}])
  <2>1. s \in SUBSET A
    OBVIOUS
  <2> QED BY <2>1 DEF IsIter
<1>5. s # {}
  BY <1>3, <1>4
<1>6. Pick(s) \in s /\ s \ {Pick(s)} \notin Bad
  BY <1>1, <1>2, <1>5, PickFacts
<1> QED
  BY <1>3, <1>4, <1>5, <1>6

LEMMA TotalAgree ==
    ASSUME NEW f, NEW e, NEW S, IsFiniteSet(S), \A x \in S : f[x] = e[x]
    PROVE  Total(f, S) = Total(e, S)
<1>1. IsIter(Iter(f, S), f, S) /\ IsIter(Iter(e, S), e, S)
  BY TotalIter
<1>2. S \subseteq S
  OBVIOUS
<1>3. Iter(f, S)[S] = Iter(e, S)[S]
  BY <1>1, <1>2, IterAgree
<1> QED BY <1>3, TotalIter

LEMMA TotalEmpty == ASSUME NEW f PROVE Total(f, {}) = 0
<1>1. IsIter(Iter(f, {}), f, {}) /\ Total(f, {}) = Iter(f, {})[{}]
  BY TotalIter, FS_EmptySet
<1>2. {} \in SUBSET {}
  OBVIOUS
<1>3. Iter(f, {})[{}] = 0
  BY <1>1, <1>2, IterStep
<1> QED BY <1>1, <1>3

LEMMA TotalPick ==
    ASSUME NEW f, NEW S, IsFiniteSet(S), S # {}
    PROVE  Total(f, S) = f[Pick(S)] + Total(f, S \ {Pick(S)})
<1> DEFINE R == S \ {Pick(S)}
<1>1. IsFiniteSet(R) /\ R \in SUBSET S
  BY PickFacts
<1>2. Total(f, S) = f[Pick(S)] + Iter(f, S)[R]
  BY TotalIter, IterStep
<1>3. Iter(f, S)[R] = Iter(f, R)[R]
  <2>1. IsIter(Iter(f, S), f, S) /\ IsIter(Iter(f, R), f, R)
    BY <1>1, TotalIter
  <2> HIDE DEF R
  <2> QED BY <1>1, <2>1, IterAgree
<1> QED BY <1>1, <1>2, <1>3, TotalIter

LEMMA TotalType ==
    ASSUME NEW f, NEW S, IsFiniteSet(S), \A x \in S : f[x] \in Nat
    PROVE  Total(f, S) \in Nat
<1> DEFINE Bad == {s \in SUBSET S : Total(f, s) \notin Nat}
<1> SUFFICES ASSUME Bad # {} PROVE FALSE
  OBVIOUS
<1>1. \A s \in Bad : IsFiniteSet(s)
  BY FS_Subset
<1>2. PICK s \in Bad : \A t \in Bad : Cardinality(s) <= Cardinality(t)
  <2> HIDE DEF Bad
  <2> QED BY <1>1, SmallestSet
<1>3. s # {}
  BY TotalEmpty
<1>4. Pick(s) \in s /\ s \ {Pick(s)} \notin Bad
  BY <1>1, <1>2, <1>3, PickFacts
<1>5. Total(f, s) = f[Pick(s)] + Total(f, s \ {Pick(s)})
  BY <1>1, <1>3, TotalPick
<1> QED
  BY <1>4, <1>5

\* An element may be taken out first, whichever it is.
LEMMA TotalRemove ==
    ASSUME NEW f, NEW S, IsFiniteSet(S), \A x \in S : f[x] \in Nat, NEW x \in S
    PROVE  Total(f, S) = f[x] + Total(f, S \ {x})
<1> DEFINE Right(s) == \A y \in s : Total(f, s) = f[y] + Total(f, s \ {y})
           Bad == {s \in SUBSET S : ~Right(s)}
<1> SUFFICES Bad = {}
  OBVIOUS
<1> SUFFICES ASSUME Bad # {} PROVE FALSE
  OBVIOUS
<1>0. \A s \in SUBSET S : IsFiniteSet(s) /\ Total(f, s) \in Nat
  BY FS_Subset, TotalType
<1>1. PICK s \in Bad : \A t \in Bad : Cardinality(s) <= Cardinality(t)
  <2> HIDE DEF Bad
  <2>1. \A s \in Bad : IsFiniteSet(s)
    BY <1>0 DEF Bad
  <2> QED BY <2>1, SmallestSet
<1>2. PICK y \in s : Total(f, s) # f[y] + Total(f, s \ {y})
  OBVIOUS
<1> DEFINE p == Pick(s)
           Both == (s \ {y}) \ {p}
<1>3. /\ IsFiniteSet(s) /\ s # {} /\ p \in s
      /\ Cardinality(s) \in Nat
      /\ Total(f, s) = f[p] + Total(f, s \ {p})
  BY <1>0, <1>2, PickFacts, TotalPick
<1>4. \A z \in s : s \ {z} \in SUBSET S /\ Right(s \ {z})
  <2> SUFFICES ASSUME NEW z \in s PROVE s \ {z} \in SUBSET S /\ Right(s \ {z})
    OBVIOUS
  <2>1. Cardinality(s \ {z}) = Cardinality(s) - 1
    BY <1>3, FS_RemoveElement
  <2>2. s \ {z} \notin Bad
    <3> HIDE DEF Bad
    <3> QED BY <1>1, <1>3, <2>1
  <2> QED BY <2>2
<1>5. y # p
  BY <1>2, <1>3
<1>6. Total(f, s \ {p}) = f[y] + Total(f, (s \ {p}) \ {y})
  BY <1>3, <1>4, <1>5
<1>7. Total(f, s \ {y}) = f[p] + Total(f, Both)
  BY <1>3, <1>4, <1>5
<1>8. (s \ {p}) \ {y} = Both
  OBVIOUS
<1>9. f[p] \in Nat /\ f[y] \in Nat /\ Total(f, Both) \in Nat
  BY <1>0, <1>3
<1>10. Total(f, s \ {p}) = f[y] + Total(f, Both)
  BY <1>6, <1>8
<1> QED
  <2> HIDE DEF Both, p, Bad
  <2> QED BY <1>2, <1>3, <1>7, <1>9, <1>10

\* A sum of zeroes.
LEMMA TotalZero ==
    ASSUME NEW f, NEW S, IsFiniteSet(S), \A x \in S : f[x] = 0
    PROVE  Total(f, S) = 0
<1> DEFINE Bad == {s \in SUBSET S : Total(f, s) # 0}
<1> SUFFICES ASSUME Bad # {} PROVE FALSE
  OBVIOUS
<1>1. \A s \in Bad : IsFiniteSet(s)
  BY FS_Subset
<1>2. PICK s \in Bad : \A t \in Bad : Cardinality(s) <= Cardinality(t)
  <2> HIDE DEF Bad
  <2> QED BY <1>1, SmallestSet
<1>3. s # {}
  BY TotalEmpty
<1>4. Pick(s) \in s /\ s \ {Pick(s)} \notin Bad
  BY <1>1, <1>2, <1>3, PickFacts
<1>5. Total(f, s) = f[Pick(s)] + Total(f, s \ {Pick(s)})
  BY <1>1, <1>3, TotalPick
<1> QED
  BY <1>4, <1>5

\* A sum of ones counts.
LEMMA TotalCount ==
    ASSUME NEW f, NEW S, IsFiniteSet(S), \A x \in S : f[x] = 1
    PROVE  Total(f, S) = Cardinality(S)
<1> DEFINE Bad == {s \in SUBSET S : Total(f, s) # Cardinality(s)}
<1> SUFFICES ASSUME Bad # {} PROVE FALSE
  OBVIOUS
<1>1. \A s \in Bad : IsFiniteSet(s)
  BY FS_Subset
<1>2. PICK s \in Bad : \A t \in Bad : Cardinality(s) <= Cardinality(t)
  <2> HIDE DEF Bad
  <2> QED BY <1>1, SmallestSet
<1>3. s # {}
  BY TotalEmpty, FS_EmptySet
<1>4. Pick(s) \in s /\ Cardinality(s) \in Nat /\ Cardinality(s \ {Pick(s)}) = Cardinality(s) - 1
  BY <1>1, <1>3, PickFacts
<1>5. s \ {Pick(s)} \notin Bad
  BY <1>2, <1>4
<1>6. Total(f, s) = f[Pick(s)] + Total(f, s \ {Pick(s)})
  BY <1>1, <1>3, TotalPick
<1> QED
  BY <1>4, <1>5, <1>6

\* An element is added to the set.
LEMMA TotalAdd ==
    ASSUME NEW f, NEW S, IsFiniteSet(S), NEW x, x \notin S,
           \A y \in S \cup {x} : f[y] \in Nat
    PROVE  Total(f, S \cup {x}) = Total(f, S) + f[x]
<1> DEFINE R == S \cup {x}
<1>1. IsFiniteSet(R) /\ x \in R /\ R \ {x} = S /\ \A y \in R : f[y] \in Nat
  BY FS_AddElement
<1>2. Total(f, S) \in Nat /\ f[x] \in Nat
  BY TotalType
<1> HIDE DEF R
<1>3. Total(f, R) = f[x] + Total(f, R \ {x})
  BY <1>1, TotalRemove
<1>4. Total(f, R) = Total(f, S) + f[x]
  BY <1>1, <1>2, <1>3
<1> QED BY <1>4 DEF R

\* One value changes.
LEMMA TotalUpdate ==
    ASSUME NEW f, NEW g, NEW S, IsFiniteSet(S), NEW x \in S,
           \A y \in S : f[y] \in Nat /\ g[y] \in Nat,
           \A y \in S : y # x => g[y] = f[y]
    PROVE  Total(g, S) = Total(f, S) - f[x] + g[x]
<1> DEFINE R == S \ {x}
<1>1. IsFiniteSet(R)
  BY FS_RemoveElement
<1>2. Total(f, R) = Total(g, R)
  BY <1>1, TotalAgree
<1>3. Total(f, S) = f[x] + Total(f, R) /\ Total(g, S) = g[x] + Total(g, R)
  BY TotalRemove
<1>4. Total(f, R) \in Nat /\ f[x] \in Nat /\ g[x] \in Nat
  BY <1>1, TotalType
<1> QED
  <2> HIDE DEF R
  <2> QED BY <1>2, <1>3, <1>4

\* Two sets with nothing in common.
LEMMA TotalUnion ==
    ASSUME NEW f, NEW S, NEW T, IsFiniteSet(S), IsFiniteSet(T), S \cap T = {},
           \A x \in S \cup T : f[x] \in Nat
    PROVE  Total(f, S \cup T) = Total(f, S) + Total(f, T)
<1> DEFINE Bad == {s \in SUBSET S : Total(f, s \cup T) # Total(f, s) + Total(f, T)}
<1> SUFFICES ASSUME Bad # {} PROVE FALSE
  OBVIOUS
<1>0. \A s \in SUBSET S : IsFiniteSet(s) /\ IsFiniteSet(s \cup T) /\ Total(f, s) \in Nat
  BY FS_Subset, FS_Union, TotalType
<1>1. Total(f, T) \in Nat
  BY TotalType
<1>2. PICK s \in Bad : \A t \in Bad : Cardinality(s) <= Cardinality(t)
  <2>1. \A t \in Bad : IsFiniteSet(t)
    BY <1>0
  <2> HIDE DEF Bad
  <2> QED BY <2>1, SmallestSet
<1>3. s # {}
  <2>1. {} \cup T = T /\ Total(f, {}) = 0
    BY TotalEmpty
  <2>2. Total(f, {} \cup T) = Total(f, {}) + Total(f, T)
    BY <1>1, <2>1
  <2> QED BY <2>2
<1>4. PICK x \in s : TRUE
  BY <1>3
<1> DEFINE r == s \ {x}
<1>5. r \in SUBSET S /\ Cardinality(r) = Cardinality(s) - 1 /\ Cardinality(s) \in Nat
  BY <1>0, FS_RemoveElement, FS_CardinalityType
<1>6. r \notin Bad
  <2> HIDE DEF Bad, r
  <2> QED BY <1>2, <1>5
<1>7. Total(f, r \cup T) = Total(f, r) + Total(f, T)
  BY <1>5, <1>6
<1>8. Total(f, s) = f[x] + Total(f, r)
  BY <1>0, TotalRemove
<1>9. Total(f, s \cup T) = f[x] + Total(f, r \cup T)
  <2>1. (s \cup T) \ {x} = r \cup T
    OBVIOUS
  <2>2. Total(f, s \cup T) = f[x] + Total(f, (s \cup T) \ {x})
    BY <1>0, TotalRemove
  <2> QED BY <2>1, <2>2
<1>10. f[x] \in Nat /\ Total(f, r) \in Nat /\ Total(f, s \cup T) # Total(f, s) + Total(f, T)
  BY <1>0, <1>5
<1> QED
  <2> HIDE DEF r, Bad
  <2> QED BY <1>1, <1>7, <1>8, <1>9, <1>10

\* A part sums to no more than the whole.
LEMMA TotalSubset ==
    ASSUME NEW f, NEW S, IsFiniteSet(S), \A x \in S : f[x] \in Nat, NEW T \in SUBSET S
    PROVE  /\ Total(f, T) \in Nat /\ Total(f, S \ T) \in Nat
           /\ Total(f, S) = Total(f, T) + Total(f, S \ T)
           /\ Total(f, T) <= Total(f, S)
<1>1. IsFiniteSet(T) /\ IsFiniteSet(S \ T) /\ T \cap (S \ T) = {} /\ T \cup (S \ T) = S
  BY FS_Subset
<1>2. Total(f, T \cup (S \ T)) = Total(f, T) + Total(f, S \ T)
  BY <1>1, TotalUnion
<1>3. Total(f, T) \in Nat /\ Total(f, S \ T) \in Nat
  BY <1>1, TotalType
<1>4. Total(f, S) = Total(f, T) + Total(f, S \ T)
  BY <1>1, <1>2
<1> QED
  BY <1>3, <1>4

\* A set in parts: the sum of the parts' sums.
LEMMA TotalParts ==
    ASSUME NEW U, IsFiniteSet(U), NEW f, \A x \in U : f[x] \in Nat,
           NEW I, IsFiniteSet(I), NEW P, \A i \in I : P[i] \subseteq U,
           \A i, j \in I : i # j => P[i] \cap P[j] = {}
    PROVE  Total(f, UNION {P[i] : i \in I}) = Total([i \in I |-> Total(f, P[i])], I)
<1> DEFINE g == [i \in I |-> Total(f, P[i])]
           All(J) == UNION {P[i] : i \in J}
           Bad == {J \in SUBSET I : Total(f, All(J)) # Total(g, J)}
<1> SUFFICES ASSUME Bad # {} PROVE FALSE
  OBVIOUS
<1>0. \A J \in SUBSET I : IsFiniteSet(J) /\ All(J) \subseteq U /\ IsFiniteSet(All(J))
  BY FS_Subset
<1>1. \A i \in I : /\ g[i] = Total(f, P[i]) /\ g[i] \in Nat /\ IsFiniteSet(P[i])
                   /\ \A x \in P[i] : f[x] \in Nat
  BY FS_Subset, TotalType
<1>2. PICK J \in Bad : \A K \in Bad : Cardinality(J) <= Cardinality(K)
  <2>1. \A K \in Bad : IsFiniteSet(K)
    BY <1>0
  <2> HIDE DEF Bad
  <2> QED BY <2>1, SmallestSet
<1>3. J # {}
  <2>1. All({}) = {} /\ Total(f, {}) = 0 /\ Total(g, {}) = 0
    <3> HIDE DEF g
    <3> QED BY TotalEmpty
  <2> HIDE DEF All, g
  <2> QED BY <2>1
<1>4. PICK i \in J : TRUE
  BY <1>3
<1> DEFINE R == J \ {i}
<1>5. R \in SUBSET I /\ Cardinality(R) = Cardinality(J) - 1 /\ Cardinality(J) \in Nat /\ i \in I /\ J \in SUBSET I
  BY <1>0, FS_RemoveElement, FS_CardinalityType
<1>6. Total(f, All(R)) = Total(g, R)
  <2>1. R \notin Bad
    <3> HIDE DEF Bad, R
    <3> QED BY <1>2, <1>5
  <2> HIDE DEF All, g, R
  <2> QED BY <1>5, <2>1
<1>7. Total(g, J) = g[i] + Total(g, R)
  <2>1. IsFiniteSet(J) /\ \A j \in J : g[j] \in Nat
    BY <1>0, <1>1, <1>5
  <2> HIDE DEF g
  <2> QED BY <2>1, TotalRemove
<1>8. Total(f, All(J)) = Total(f, P[i]) + Total(f, All(R))
  <2>1. All(J) = P[i] \cup All(R) /\ P[i] \cap All(R) = {} /\ IsFiniteSet(All(R)) /\ All(R) \subseteq U
    BY <1>0, <1>5
  <2>2. \A x \in P[i] \cup All(R) : f[x] \in Nat
    BY <1>5, <2>1
  <2> HIDE DEF All, R
  <2>3. Total(f, P[i] \cup All(R)) = Total(f, P[i]) + Total(f, All(R))
    BY <1>1, <1>5, <2>1, <2>2, TotalUnion
  <2> QED BY <2>1, <2>3
<1>9. Total(f, All(J)) # Total(g, J)
  OBVIOUS
<1> QED
  <2> HIDE DEF g, All, Bad, R
  <2> QED BY <1>1, <1>5, <1>6, <1>7, <1>8, <1>9

==============================================================================
