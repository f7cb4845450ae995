---------------------------- MODULE Merge_proofs ----------------------------
(* Proofs about Merge, for all maps and profiles and every order in which  *)
(* they are visited.                                                       *)
EXTENDS Merge, FiniteSetTheorems, WellFoundedInduction, TLAPS

USE DEF command, classes, vars

-----------------------------------------------------------------------------
(* Sums over finite sets.  A statement about a sum is proved by taking the *)
(* smallest set it could fail for.                                         *)

\* The member the folds take first.
Some(s) == CHOOSE x \in s : TRUE

\* h sums g over the subsets of S, in the order in which the folds take their members.
Sums(h, g, S) ==
    h = [s \in SUBSET S |-> IF s = {} THEN 0 ELSE g[Some(s)] + h[s \ {Some(s)}]]

\* The sum of a set is the one of the function that sums over its subsets.
LEMMA SumIsChosen ==
  ASSUME NEW g, NEW S
  PROVE  SumFunctionOnSet(g, S) = (CHOOSE h : Sums(h, g, S))[S]
  BY DEF SumFunctionOnSet, FoldFunctionOnSet, MapThenFoldSet, Sums, Some

\* Of sets of members of a finite set there is one that holds no other.
LEMMA MinimalSet ==
  ASSUME NEW S, IsFiniteSet(S), NEW B \in SUBSET SUBSET S, B # {}
  PROVE  \E T \in B : \A U \in B : U \subseteq T => U = T
  <1>1. IsWellFoundedOn(StrictSubsetOrdering(S), SUBSET S)
    BY FS_StrictSubsetOrderingWellFounded, FS_FiniteSubsetsOfFinite
  <1>2. PICK T \in B : \A U \in B : <<U, T>> \notin StrictSubsetOrdering(S)
    BY <1>1, WFMin
  <1> QED
    BY <1>2 DEF StrictSubsetOrdering

\* What a member taken out leaves.
LEMMA OneTaken ==
  ASSUME NEW s, s # {}
  PROVE  Some(s) \in s /\ s \ {Some(s)} \subseteq s /\ s \ {Some(s)} # s
  BY DEF Some

\* Such functions agree wherever both are defined.
LEMMA SumsUnique ==
  ASSUME NEW S, IsFiniteSet(S), NEW g, NEW h, NEW k,
         NEW A \in SUBSET S, NEW B \in SUBSET S, Sums(h, g, A), Sums(k, g, B)
  PROVE  \A s \in (SUBSET A) \cap (SUBSET B) : h[s] = k[s]
  <1> DEFINE Bad == {s \in (SUBSET A) \cap (SUBSET B) : h[s] # k[s]}
  <1>1. SUFFICES ASSUME Bad # {} PROVE FALSE
    OBVIOUS
  <1>2. PICK T \in Bad : \A U \in Bad : U \subseteq T => U = T
    <2>1. Bad \in SUBSET SUBSET S
      OBVIOUS
    <2> HIDE DEF Bad
    <2> QED
      BY <1>1, <2>1, MinimalSet
  <1>3. /\ \A s \in SUBSET A : h[s] = IF s = {} THEN 0 ELSE g[Some(s)] + h[s \ {Some(s)}]
        /\ \A s \in SUBSET B : k[s] = IF s = {} THEN 0 ELSE g[Some(s)] + k[s \ {Some(s)}]
    BY DEF Sums
  <1>4. T # {}
    BY <1>2, <1>3
  <1>5. T \ {Some(T)} \notin Bad
    BY <1>2, <1>4, OneTaken
  <1>6. h[T \ {Some(T)}] = k[T \ {Some(T)}]
    BY <1>2, <1>5
  <1> QED
    BY <1>2, <1>3, <1>4, <1>6

\* There is such a function for every finite set.
LEMMA SumsExists ==
  ASSUME NEW S, IsFiniteSet(S), NEW g
  PROVE  \E h : Sums(h, g, S)
  <1> DEFINE Bad == {s \in SUBSET S : ~\E h : Sums(h, g, s)}
  <1>1. SUFFICES ASSUME Bad # {} PROVE FALSE
    OBVIOUS
  <1>2. PICK T \in Bad : \A U \in Bad : U \subseteq T => U = T
    <2>1. Bad \in SUBSET SUBSET S
      OBVIOUS
    <2> HIDE DEF Bad
    <2> QED
      BY <1>1, <2>1, MinimalSet
  <1> DEFINE of(u)   == CHOOSE h : Sums(h, g, u)
             last(s) == IF s = {} THEN 0 ELSE g[Some(s)] + of(s \ {Some(s)})[s \ {Some(s)}]
             all     == [s \in SUBSET T |-> last(s)]
  <1>3. \A u \in SUBSET T : u # T => Sums(of(u), g, u)
    BY <1>2
  <1>4. ASSUME NEW u \in SUBSET T, u # T PROVE of(u)[u] = last(u)
    <2>1. Sums(of(u), g, u)
      BY <1>3, <1>4
    <2>2. of(u)[u] = IF u = {} THEN 0 ELSE g[Some(u)] + of(u)[u \ {Some(u)}]
      BY <2>1 DEF Sums
    <2>3. CASE u = {}
      BY <2>2, <2>3
    <2>4. CASE u # {}
      <3> DEFINE v == u \ {Some(u)}
      <3>1. v \in SUBSET u /\ v # T
        BY <1>4
      <3>2. Sums(of(v), g, v)
        BY <1>3, <3>1
      <3>3. v \in (SUBSET u) \cap (SUBSET v) /\ u \in SUBSET S /\ v \in SUBSET S
        BY <1>2, <3>1
      <3> HIDE DEF of, v
      <3>4. of(u)[v] = of(v)[v]
        BY <2>1, <3>2, <3>3, SumsUnique
      <3> QED
        BY <2>2, <2>4, <3>4 DEF v
    <2> QED
      BY <2>3, <2>4
  <1>5. \A s \in SUBSET T : s # {} => all[s \ {Some(s)}] = of(s \ {Some(s)})[s \ {Some(s)}]
    <2> SUFFICES ASSUME NEW s \in SUBSET T, s # {}
                 PROVE  all[s \ {Some(s)}] = of(s \ {Some(s)})[s \ {Some(s)}]
      OBVIOUS
    <2>1. s \ {Some(s)} \in SUBSET T /\ s \ {Some(s)} # T
      BY OneTaken
    <2> HIDE DEF of, last
    <2> QED
      BY <1>4, <2>1
  <1>6. Sums(all, g, T)
    <2>1. \A s \in SUBSET T : last(s) = IF s = {} THEN 0 ELSE g[Some(s)] + all[s \ {Some(s)}]
      <3> HIDE DEF all, of
      <3> QED
        BY <1>5
    <2> HIDE DEF last
    <2>2. all = [s \in SUBSET T |-> IF s = {} THEN 0 ELSE g[Some(s)] + all[s \ {Some(s)}]]
      BY <2>1
    <2> HIDE DEF all
    <2> QED
      BY <2>2 DEF Sums
  <1> QED
    BY <1>2, <1>6

\* A sum is a member and the sum of the others.
LEMMA SumUnfold ==
  ASSUME NEW S, IsFiniteSet(S), NEW g
  PROVE  SumFunctionOnSet(g, S) =
            IF S = {} THEN 0 ELSE g[Some(S)] + SumFunctionOnSet(g, S \ {Some(S)})
  <1> DEFINE of(u) == CHOOSE h : Sums(h, g, u)
             R     == S \ {Some(S)}
  <1>1. Sums(of(S), g, S)
    BY SumsExists
  <1>2. Sums(of(R), g, R)
    BY FS_Subset, SumsExists
  <1>3. SumFunctionOnSet(g, S) = of(S)[S] /\ SumFunctionOnSet(g, R) = of(R)[R]
    BY SumIsChosen
  <1>4. of(S)[S] = IF S = {} THEN 0 ELSE g[Some(S)] + of(S)[R]
    BY <1>1 DEF Sums
  <1>5. of(S)[R] = of(R)[R]
    <2>1. R \in (SUBSET S) \cap (SUBSET R) /\ S \in SUBSET S /\ R \in SUBSET S
      OBVIOUS
    <2> HIDE DEF of, R
    <2> QED
      BY <1>1, <1>2, <2>1, SumsUnique
  <1> QED
    BY <1>3, <1>4, <1>5

\* A sum of integers is an integer.
LEMMA SumType ==
  ASSUME NEW S, IsFiniteSet(S), NEW g, \A x \in S : g[x] \in Int
  PROVE  SumFunctionOnSet(g, S) \in Int
  <1> DEFINE Bad == {s \in SUBSET S : SumFunctionOnSet(g, s) \notin Int}
  <1>1. SUFFICES ASSUME Bad # {} PROVE FALSE
    OBVIOUS
  <1>2. PICK T \in Bad : \A U \in Bad : U \subseteq T => U = T
    <2>1. Bad \in SUBSET SUBSET S
      OBVIOUS
    <2> HIDE DEF Bad
    <2> QED
      BY <1>1, <2>1, MinimalSet
  <1>3. SumFunctionOnSet(g, T) = IF T = {} THEN 0 ELSE g[Some(T)] + SumFunctionOnSet(g, T \ {Some(T)})
    BY <1>2, FS_Subset, SumUnfold
  <1>4. T # {}
    BY <1>2, <1>3
  <1>5. SumFunctionOnSet(g, T \ {Some(T)}) \in Int
    BY <1>2, <1>4, OneTaken
  <1>6. g[Some(T)] \in Int
    BY <1>2, <1>4, OneTaken
  <1> QED
    BY <1>2, <1>3, <1>4, <1>5, <1>6

\* Any member may be the one that is taken out.
LEMMA SumTake ==
  ASSUME NEW S, IsFiniteSet(S), NEW g, \A x \in S : g[x] \in Int, NEW a \in S
  PROVE  SumFunctionOnSet(g, S) = g[a] + SumFunctionOnSet(g, S \ {a})
  <1> DEFINE Bad == {s \in SUBSET S : \E x \in s : SumFunctionOnSet(g, s) # g[x] + SumFunctionOnSet(g, s \ {x})}
  <1>1. SUFFICES ASSUME Bad # {} PROVE FALSE
    OBVIOUS
  <1>2. PICK T \in Bad : \A U \in Bad : U \subseteq T => U = T
    <2>1. Bad \in SUBSET SUBSET S
      OBVIOUS
    <2> HIDE DEF Bad
    <2> QED
      BY <1>1, <2>1, MinimalSet
  <1>3. PICK x \in T : SumFunctionOnSet(g, T) # g[x] + SumFunctionOnSet(g, T \ {x})
    BY <1>2
  <1> DEFINE c == Some(T)
  <1>4. c \in T /\ x \in T /\ T \in SUBSET S
    BY <1>2, <1>3, OneTaken
  <1>5. SumFunctionOnSet(g, T) = g[c] + SumFunctionOnSet(g, T \ {c})
    BY <1>4, FS_Subset, SumUnfold
  <1> HIDE DEF c
  <1>6. x # c
    BY <1>3, <1>5
  <1>7. \A U \in SUBSET T : U # T => \A y \in U : SumFunctionOnSet(g, U) = g[y] + SumFunctionOnSet(g, U \ {y})
    BY <1>2
  <1>8. SumFunctionOnSet(g, T \ {c}) = g[x] + SumFunctionOnSet(g, (T \ {c}) \ {x})
    <2>1. T \ {c} \in SUBSET T /\ T \ {c} # T /\ x \in T \ {c}
      BY <1>4, <1>6
    <2> QED
      BY <1>7, <2>1
  <1>9. SumFunctionOnSet(g, T \ {x}) = g[c] + SumFunctionOnSet(g, (T \ {x}) \ {c})
    <2>1. T \ {x} \in SUBSET T /\ T \ {x} # T /\ c \in T \ {x}
      BY <1>4, <1>6
    <2> QED
      BY <1>7, <2>1
  <1>10. (T \ {x}) \ {c} = (T \ {c}) \ {x}
    OBVIOUS
  <1>11. SumFunctionOnSet(g, (T \ {c}) \ {x}) \in Int
    <2>1. (T \ {c}) \ {x} \in SUBSET S
      BY <1>4
    <2> QED
      BY <2>1, FS_Subset, SumType
  <1>12. g[x] \in Int /\ g[c] \in Int
    BY <1>4
  <1> DEFINE rest == SumFunctionOnSet(g, (T \ {c}) \ {x})
  <1>13. SumFunctionOnSet(g, T) = g[c] + (g[x] + rest)
    BY <1>5, <1>8
  <1>14. SumFunctionOnSet(g, T \ {x}) = g[c] + rest
    BY <1>9, <1>10
  <1> HIDE DEF rest, Bad
  <1>15. SumFunctionOnSet(g, T) = g[x] + SumFunctionOnSet(g, T \ {x})
    BY <1>11, <1>12, <1>13, <1>14 DEF rest
  <1> QED
    BY <1>3, <1>15

\* A sum has one more member.
LEMMA SumAdd ==
  ASSUME NEW S, IsFiniteSet(S), NEW g, NEW a, a \notin S, \A x \in S \cup {a} : g[x] \in Int
  PROVE  SumFunctionOnSet(g, S \cup {a}) = g[a] + SumFunctionOnSet(g, S)
  <1>1. IsFiniteSet(S \cup {a}) /\ (S \cup {a}) \ {a} = S
    BY FS_AddElement
  <1> QED
    BY <1>1, SumTake

\* The sum of nothing, and of one.
LEMMA SumSmall ==
  ASSUME NEW g
  PROVE  /\ SumFunctionOnSet(g, {}) = 0
         /\ \A a : g[a] \in Int => SumFunctionOnSet(g, {a}) = g[a]
  <1>1. SumFunctionOnSet(g, {}) = 0
    BY FS_EmptySet, SumUnfold
  <1>2. ASSUME NEW a, g[a] \in Int PROVE SumFunctionOnSet(g, {a}) = g[a]
    <2>1. IsFiniteSet({a}) /\ {a} \ {a} = {} /\ a \in {a} /\ \A x \in {a} : g[x] \in Int
      BY <1>2, FS_Singleton
    <2>2. SumFunctionOnSet(g, {a}) = g[a] + SumFunctionOnSet(g, {a} \ {a})
      BY <2>1, SumTake
    <2> QED
      BY <1>1, <1>2, <2>1, <2>2
  <1> QED
    BY <1>1, <1>2

\* Sums of greater or equal numbers are greater or equal.
LEMMA SumCompare ==
  ASSUME NEW S, IsFiniteSet(S), NEW g, NEW h,
         \A x \in S : g[x] \in Int /\ h[x] \in Int /\ g[x] <= h[x]
  PROVE  SumFunctionOnSet(g, S) <= SumFunctionOnSet(h, S)
  <1> DEFINE Bad == {s \in SUBSET S : ~(SumFunctionOnSet(g, s) <= SumFunctionOnSet(h, s))}
  <1>1. SUFFICES ASSUME Bad # {} PROVE FALSE
    OBVIOUS
  <1>2. PICK T \in Bad : \A U \in Bad : U \subseteq T => U = T
    <2>1. Bad \in SUBSET SUBSET S
      OBVIOUS
    <2> HIDE DEF Bad
    <2> QED
      BY <1>1, <2>1, MinimalSet
  <1>3. T \in SUBSET S /\ IsFiniteSet(T)
    BY <1>2, FS_Subset
  <1>4. T # {}
    <2>1. SumFunctionOnSet(g, {}) = 0 /\ SumFunctionOnSet(h, {}) = 0
      BY SumSmall
    <2>2. ~(SumFunctionOnSet(g, T) <= SumFunctionOnSet(h, T))
      BY <1>2
    <2> QED
      BY <2>1, <2>2
  <1> DEFINE c == Some(T)
             R == T \ {c}
  <1>5. c \in T /\ R \in SUBSET T /\ R # T
    BY <1>4, OneTaken
  <1>6. /\ SumFunctionOnSet(g, T) = g[c] + SumFunctionOnSet(g, R)
        /\ SumFunctionOnSet(h, T) = h[c] + SumFunctionOnSet(h, R)
    BY <1>3, <1>4, SumUnfold
  <1>7. SumFunctionOnSet(g, R) <= SumFunctionOnSet(h, R)
    BY <1>2, <1>5
  <1>8. SumFunctionOnSet(g, R) \in Int /\ SumFunctionOnSet(h, R) \in Int
    BY <1>3, <1>5, FS_Subset, SumType
  <1>9. g[c] \in Int /\ h[c] \in Int /\ g[c] <= h[c]
    BY <1>3, <1>5
  <1> QED
    BY <1>2, <1>6, <1>7, <1>8, <1>9

\* Sums of equal numbers are equal.
LEMMA SumEqual ==
  ASSUME NEW S, IsFiniteSet(S), NEW g, NEW h, \A x \in S : g[x] \in Int /\ g[x] = h[x]
  PROVE  SumFunctionOnSet(g, S) = SumFunctionOnSet(h, S)
  <1>1. \A x \in S : g[x] <= h[x] /\ h[x] <= g[x] /\ h[x] \in Int
    OBVIOUS
  <1>2. SumFunctionOnSet(g, S) <= SumFunctionOnSet(h, S)
    BY <1>1, SumCompare
  <1>3. SumFunctionOnSet(h, S) <= SumFunctionOnSet(g, S)
    BY <1>1, SumCompare
  <1>4. SumFunctionOnSet(g, S) \in Int /\ SumFunctionOnSet(h, S) \in Int
    BY <1>1, SumType
  <1> QED
    BY <1>2, <1>3, <1>4

\* No member of a sum of naturals is greater than the sum.
LEMMA SumOfNaturals ==
  ASSUME NEW S, IsFiniteSet(S), NEW g, \A x \in S : g[x] \in Nat
  PROVE  SumFunctionOnSet(g, S) \in Nat /\ \A a \in S : g[a] <= SumFunctionOnSet(g, S)
  <1> DEFINE none == [x \in S |-> 0]
  <1>1. \A T \in SUBSET S : SumFunctionOnSet(g, T) \in Nat
    <2> SUFFICES ASSUME NEW T \in SUBSET S PROVE SumFunctionOnSet(g, T) \in Nat
      OBVIOUS
    <2> DEFINE Bad == {s \in SUBSET T : SumFunctionOnSet(g, s) \notin Nat}
    <2>0. IsFiniteSet(T)
      BY FS_Subset
    <2>1. SUFFICES ASSUME Bad # {} PROVE FALSE
      OBVIOUS
    <2>2. PICK U \in Bad : \A V \in Bad : V \subseteq U => V = U
      <3>1. Bad \in SUBSET SUBSET T
        OBVIOUS
      <3> HIDE DEF Bad
      <3> QED
        BY <2>0, <2>1, <3>1, MinimalSet
    <2>3. SumFunctionOnSet(g, U) = IF U = {} THEN 0 ELSE g[Some(U)] + SumFunctionOnSet(g, U \ {Some(U)})
      BY <2>0, <2>2, FS_Subset, SumUnfold
    <2>4. U # {}
      BY <2>2, <2>3
    <2>5. SumFunctionOnSet(g, U \ {Some(U)}) \in Nat /\ g[Some(U)] \in Nat
      BY <2>2, <2>4, OneTaken
    <2> QED
      BY <2>2, <2>3, <2>4, <2>5
  <1>2. ASSUME NEW a \in S PROVE g[a] <= SumFunctionOnSet(g, S)
    <2>1. SumFunctionOnSet(g, S) = g[a] + SumFunctionOnSet(g, S \ {a})
      BY SumTake
    <2>2. SumFunctionOnSet(g, S \ {a}) \in Nat
      BY <1>1
    <2> QED
      BY <2>1, <2>2
  <1> QED
    BY <1>1, <1>2

-----------------------------------------------------------------------------
(* Counts. *)

\* One more physical count keeps a count inside 64 bits.
LEMMA PlusInRange ==
  ASSUME NEW c \in Counts, NEW n \in 0 .. MaxCount
  PROVE  Plus(c, n) \in Counts
  BY MaxCountAssumption DEF Counts, Plus, Saturated

\* A profile's count of a point of its map is one of its own counts, or zero.
LEMMA PointCountInRange ==
  ASSUME NEW d \in Data, NEW p
  PROVE  PointCount(d, p) \in 0 .. MaxCount
  <1> DEFINE slots == {i \in DOMAIN Binding[d.map] : Binding[d.map][i] = p /\ i \in DOMAIN d.counts}
  <1>1. CASE slots = {}
    BY <1>1, MaxCountAssumption DEF PointCount
  <1>2. CASE slots # {}
    <2>1. (CHOOSE i \in slots : TRUE) \in slots
      BY <1>2
    <2>2. d.counts[CHOOSE i \in slots : TRUE] \in 0 .. MaxCount
      BY <2>1, InputAssumption
    <2> QED
      BY <1>2, <2>2 DEF PointCount
  <1> QED
    BY <1>1, <1>2

-----------------------------------------------------------------------------
(* Lower bounds. *)

\* A count does not exceed the truth, and is the truth unless it is inexact.
Tells(count, truth) == count.value <= truth /\ (~count.inexact => count.value = truth)

\* A saturated number is a number, and is never more than what it stands for.
LEMMA SaturatedFacts ==
  ASSUME NEW n \in Nat
  PROVE  Saturated(n) \in 0 .. MaxCount /\ Saturated(n) <= n /\ (n <= MaxCount => Saturated(n) = n)
  BY MaxCountAssumption DEF Saturated

\* A term that is a lower bound keeps the order of its counts.
LEMMA TermFacts ==
  ASSUME NEW k \in Int, NEW v \in Nat, NEW t \in Nat, v <= t, k < 0 => v = t
  PROVE  k * v \in Int /\ k * t \in Int /\ k * v <= k * t
  <1>1. CASE k < 0
    BY <1>1
  <1>2. CASE k >= 0
    BY <1>2
  <1> QED
    BY <1>1, <1>2

\* The value of a region is a count; it tells the truth about the entries when its
\* counts tell the truth about the points.
LEMMA EvaluateTells ==
  ASSUME NEW e, e \in [DOMAIN e -> Int], IsFiniteSet(DOMAIN e),
         NEW c, \A p \in DOMAIN e : c[p] \in Counts,
         NEW t, \A p \in DOMAIN e : t[p] \in Nat /\ Tells(c[p], t[p]),
         SumFunction([p \in DOMAIN e |-> e[p] * t[p]]) >= 0
  PROVE  /\ Evaluate(e, c) \in Counts
         /\ Tells(Evaluate(e, c), SumFunction([p \in DOMAIN e |-> e[p] * t[p]]))
         /\ Total(e, c) \in Int
  <1> DEFINE told  == [p \in DOMAIN e |-> e[p] * c[p].value]
             true  == [p \in DOMAIN e |-> e[p] * t[p]]
             total == SumFunctionOnSet(told, DOMAIN e)
             theta == SumFunctionOnSet(true, DOMAIN e)
  <1>1. \A p \in DOMAIN e : /\ e[p] \in Int /\ c[p].value \in Nat /\ c[p].inexact \in BOOLEAN
                            /\ t[p] \in Nat /\ c[p].value <= t[p]
                            /\ ~c[p].inexact => c[p].value = t[p]
    BY MaxCountAssumption DEF Counts, Tells
  <1>2. \A p \in DOMAIN e : told[p] \in Int /\ true[p] \in Int
    <2> SUFFICES ASSUME NEW p \in DOMAIN e PROVE e[p] * c[p].value \in Int /\ e[p] * t[p] \in Int
      OBVIOUS
    <2>1. e[p] \in Int /\ c[p].value \in Int /\ t[p] \in Int
      BY <1>1
    <2> QED
      BY <2>1
  <1>3. Total(e, c) = total /\ SumFunction(true) = theta
    BY DEF Total, SumFunction
  <1>4. total \in Int /\ theta \in Int
    <2> HIDE DEF told, true
    <2> QED
      BY <1>2, SumType
  <1>5. theta >= 0
    BY <1>3
  <1>6. ~Lost(e, c) => total <= theta
    <2> SUFFICES ASSUME ~Lost(e, c) PROVE total <= theta
      OBVIOUS
    <2>1. ASSUME NEW p \in DOMAIN e PROVE told[p] <= true[p]
      <3>1. e[p] < 0 => c[p].value = t[p]
        BY <1>1 DEF Lost
      <3>2. e[p] \in Int /\ c[p].value \in Nat /\ t[p] \in Nat /\ c[p].value <= t[p]
        BY <1>1
      <3>3. e[p] * c[p].value <= e[p] * t[p]
        BY <3>1, <3>2, TermFacts
      <3> QED
        BY <3>3
    <2> HIDE DEF told, true
    <2> QED
      BY <1>2, <2>1, SumCompare
  <1>7. ~Hot(e, c) => total = theta /\ ~Lost(e, c)
    <2> SUFFICES ASSUME ~Hot(e, c) PROVE total = theta
      BY DEF Hot, Lost
    <2>1. \A p \in DOMAIN e : told[p] = true[p]
      BY <1>1 DEF Hot
    <2> HIDE DEF told, true
    <2> QED
      BY <1>2, <2>1, SumEqual
  <1> HIDE DEF total, theta, told
  <1>8. CASE Lost(e, c)
    <2>1. Evaluate(e, c) = [value |-> 0, inexact |-> TRUE]
      BY <1>8 DEF Evaluate
    <2> QED
      BY <1>3, <1>4, <1>5, <2>1, MaxCountAssumption DEF Tells, Counts
  <1>9. CASE ~Lost(e, c) /\ Hot(e, c)
    <2> DEFINE n == IF total < 0 THEN 0 ELSE total
    <2>1. Evaluate(e, c) = [value |-> Saturated(n), inexact |-> TRUE]
      BY <1>3, <1>9 DEF Evaluate
    <2>2. n \in Nat /\ n <= theta
      BY <1>4, <1>5, <1>6, <1>9
    <2>3. Saturated(n) \in 0 .. MaxCount /\ Saturated(n) <= n
      BY <2>2, SaturatedFacts
    <2> HIDE DEF n
    <2>4. Saturated(n) <= theta
      BY <1>4, <2>2, <2>3, MaxCountAssumption
    <2> QED
      BY <1>3, <1>4, <2>1, <2>3, <2>4 DEF Tells, Counts
  <1>10. CASE ~Hot(e, c)
    <2>1. ~Lost(e, c) /\ total = theta
      BY <1>7, <1>10
    <2>2. Evaluate(e, c) = [value |-> Saturated(total), inexact |-> total > MaxCount]
      BY <1>3, <1>10, <2>1 DEF Evaluate
    <2>3. total \in Nat
      BY <1>4, <1>5, <2>1
    <2>4. Saturated(total) \in 0 .. MaxCount /\ Saturated(total) <= total /\ (total <= MaxCount => Saturated(total) = total)
      BY <2>3, SaturatedFacts
    <2>5. ~(total > MaxCount) => total <= MaxCount
      BY <2>3, MaxCountAssumption
    <2> DEFINE bound == total > MaxCount
    <2>6. bound \in BOOLEAN /\ Evaluate(e, c) = [value |-> Saturated(total), inexact |-> bound]
      BY <2>2
    <2>7. ~bound => total <= MaxCount
      BY <2>5
    <2> HIDE DEF bound
    <2>8. /\ Evaluate(e, c).value = Saturated(total) /\ Evaluate(e, c).inexact = bound
          /\ Evaluate(e, c) \in Counts
      BY <2>4, <2>6 DEF Counts
    <2> QED
      BY <1>3, <1>4, <2>1, <2>4, <2>7, <2>8 DEF Tells
  <1> QED
    BY <1>8, <1>9, <1>10

\* A sum over contexts tells the truth when what it sums does.
LEMMA AggregateTells ==
  ASSUME NEW C, IsFiniteSet(C), NEW f, f \in [C -> Counts],
         NEW t, \A x \in C : t[x] \in Nat /\ Tells(f[x], t[x])
  PROVE  Tells(Aggregate(f), SumFunctionOnSet(t, C))
  <1> DEFINE v == [x \in C |-> f[x].value]
             total == SumFunctionOnSet(v, C)
             theta == SumFunctionOnSet(t, C)
  <1>1. \A x \in C : /\ v[x] \in Nat /\ f[x].inexact \in BOOLEAN /\ t[x] \in Nat /\ v[x] <= t[x]
                     /\ ~f[x].inexact => v[x] = t[x]
    BY MaxCountAssumption DEF Counts, Tells
  <1>2. Aggregate(f) = [value |-> Saturated(total), inexact |-> total > MaxCount \/ \E x \in C : f[x].inexact]
    <2>1. DOMAIN f = C /\ DOMAIN v = C
      OBVIOUS
    <2> QED
      BY <2>1 DEF Aggregate, SumFunction
  <1> HIDE DEF v
  <1>3. total \in Nat /\ theta \in Nat
    BY <1>1, SumOfNaturals
  <1>4. total <= theta
    BY <1>1, SumCompare
  <1>5. (\A x \in C : ~f[x].inexact) => total = theta
    BY <1>1, SumEqual
  <1> HIDE DEF total, theta
  <1>6. /\ Saturated(total) \in 0 .. MaxCount /\ Saturated(total) <= total
        /\ total <= MaxCount => Saturated(total) = total
    BY <1>3, SaturatedFacts
  <1>7. Saturated(total) <= theta
    BY <1>3, <1>4, <1>6, MaxCountAssumption
  <1>8. ~(total > MaxCount) /\ (\A x \in C : ~f[x].inexact) => Saturated(total) = theta
    BY <1>3, <1>5, <1>6, MaxCountAssumption
  <1>9. Aggregate(f).value = Saturated(total) /\ (Aggregate(f).inexact <=> total > MaxCount \/ \E x \in C : f[x].inexact)
    <2> DEFINE bound == total > MaxCount \/ \E x \in C : f[x].inexact
    <2>1. bound \in BOOLEAN /\ Aggregate(f) = [value |-> Saturated(total), inexact |-> bound]
      BY <1>2
    <2> HIDE DEF bound
    <2>2. Aggregate(f).value = Saturated(total) /\ Aggregate(f).inexact = bound
      BY <2>1
    <2> QED
      BY <2>2 DEF bound
  <1> QED
    BY <1>7, <1>8, <1>9 DEF Tells, theta

-----------------------------------------------------------------------------
(* Points and their counters. *)

\* The counters of a map that count a point, of those that f knows.
Slots(f, m, p) == {i \in DOMAIN Binding[m] : Binding[m][i] = p /\ i \in DOMAIN f}

\* A point has one counter of its map at the most: a sum over them is a number of it.
LEMMA OneSlot ==
  ASSUME NEW m \in MapIDs, NEW p, NEW f, \A i \in DOMAIN f : f[i] \in Int
  PROVE  SumFunctionOnSet(f, Slots(f, m, p)) =
            IF Slots(f, m, p) = {} THEN 0 ELSE f[CHOOSE i \in Slots(f, m, p) : TRUE]
  <1> DEFINE slots == Slots(f, m, p)
             one   == CHOOSE i \in slots : TRUE
  <1>1. \A i, j \in slots : i = j
    BY MapAssumption DEF Slots
  <1>2. \A i \in slots : f[i] \in Int
    BY DEF Slots
  <1> HIDE DEF slots
  <1>3. CASE slots = {}
    BY <1>3, SumSmall DEF slots
  <1>4. CASE slots # {}
    <2>1. one \in slots
      BY <1>4
    <2>2. slots = {one}
      BY <1>1, <2>1
    <2> HIDE DEF one
    <2>3. SumFunctionOnSet(f, {one}) = f[one]
      BY <1>2, <2>1, SumSmall
    <2> QED
      BY <1>4, <2>2, <2>3 DEF slots, one
  <1> QED
    BY <1>3, <1>4

\* The counts of a profile are numbers.
LEMMA DataCounts ==
  ASSUME NEW d \in Data
  PROVE  \A i \in DOMAIN d.counts : d.counts[i] \in 0 .. MaxCount /\ d.counts[i] \in Nat
  BY InputAssumption, MaxCountAssumption

\* The count of a point is the sum over its counters, of which there is one.
LEMMA PointCountIsSum ==
  ASSUME NEW d \in Data, d.map \in MapIDs, NEW p
  PROVE  PointCount(d, p) = SumFunctionOnSet(d.counts, Slots(d.counts, d.map, p))
  <1>1. PointCount(d, p) = IF Slots(d.counts, d.map, p) = {} THEN 0
                           ELSE d.counts[CHOOSE i \in Slots(d.counts, d.map, p) : TRUE]
    BY DEF PointCount, Slots
  <1>2. \A i \in DOMAIN d.counts : d.counts[i] \in Int
    BY DataCounts
  <1> QED
    BY <1>1, <1>2, OneSlot

\* What the process of a profile may have counted.
IsTruth(t, d) == /\ DOMAIN t = DOMAIN d.counts
                 /\ \A i \in DOMAIN t : t[i] \in Nat /\ Saturated(t[i]) = d.counts[i]

\* The count of a point is what the process counted, saturated.
LEMMA PointCountTells ==
  ASSUME NEW d \in Data, d.map \in MapIDs, NEW p, NEW t, IsTruth(t, d)
  PROVE  LET ran == SumFunctionOnSet(t, Slots(t, d.map, p)) IN
         /\ ran \in Nat /\ PointCount(d, p) = Saturated(ran) /\ PointCount(d, p) \in Nat
  <1> DEFINE slots == Slots(t, d.map, p)
             ran   == SumFunctionOnSet(t, slots)
  <1>1. slots = Slots(d.counts, d.map, p) /\ slots \subseteq DOMAIN t
    BY DEF Slots, IsTruth
  <1>2. ran = IF slots = {} THEN 0 ELSE t[CHOOSE i \in slots : TRUE]
    <2>1. \A i \in DOMAIN t : t[i] \in Int
      BY DEF IsTruth
    <2> QED
      BY <2>1, OneSlot
  <1>3. PointCount(d, p) = IF slots = {} THEN 0 ELSE d.counts[CHOOSE i \in slots : TRUE]
    <2>1. \A i \in DOMAIN d.counts : d.counts[i] \in Int
      BY DataCounts
    <2>2. PointCount(d, p) = SumFunctionOnSet(d.counts, Slots(d.counts, d.map, p))
      BY PointCountIsSum
    <2> QED
      BY <1>1, <2>1, <2>2, OneSlot
  <1> HIDE DEF slots, ran
  <1>4. CASE slots = {}
    BY <1>2, <1>3, <1>4, MaxCountAssumption DEF Saturated, ran, slots
  <1>5. CASE slots # {}
    <2> DEFINE i == CHOOSE j \in slots : TRUE
    <2>1. i \in DOMAIN t
      BY <1>1, <1>5
    <2> HIDE DEF i
    <2>2. t[i] \in Nat /\ Saturated(t[i]) = d.counts[i]
      BY <2>1 DEF IsTruth
    <2>3. ran = t[i] /\ PointCount(d, p) = d.counts[i]
      BY <1>2, <1>3, <1>5 DEF i
    <2>4. d.counts[i] \in Nat
      BY <2>1, DataCounts DEF IsTruth
    <2> QED
      BY <2>2, <2>3, <2>4 DEF ran, slots
  <1> QED
    BY <1>4, <1>5

\* A sum of profiles, as it is kept: saturated, and inexact from the maximum on.
Exactly(sum)    == [value |-> Saturated(sum), inexact |-> sum >= MaxCount]
CountSum(p, ds) == SumFunctionOnSet([d \in Data |-> PointCount(d, p)], ds)

\* The sum of some profiles is a natural number.
LEMMA CountSumType ==
  ASSUME NEW p, NEW ds \in SUBSET Data, IsFiniteSet(ds)
  PROVE  CountSum(p, ds) \in Nat
  <1> DEFINE g == [d \in Data |-> PointCount(d, p)]
  <1>1. \A d \in ds : g[d] \in Nat
    BY PointCountInRange, MaxCountAssumption
  <1> HIDE DEF g
  <1>2. SumFunctionOnSet(g, ds) \in Nat
    BY <1>1, SumOfNaturals
  <1> QED
    BY <1>2 DEF CountSum, g

\* One more profile adds its count.
LEMMA CountSumAdd ==
  ASSUME NEW p, NEW ds \in SUBSET Data, IsFiniteSet(ds), NEW d \in Data, d \notin ds
  PROVE  CountSum(p, ds \cup {d}) = PointCount(d, p) + CountSum(p, ds)
  <1> DEFINE g == [x \in Data |-> PointCount(x, p)]
  <1>1. \A x \in Data : g[x] \in Int /\ g[x] = PointCount(x, p)
    BY PointCountInRange, MaxCountAssumption
  <1> HIDE DEF g
  <1>2. SumFunctionOnSet(g, ds \cup {d}) = g[d] + SumFunctionOnSet(g, ds)
    BY <1>1, SumAdd
  <1> QED
    BY <1>1, <1>2 DEF CountSum, g

\* Adding one count to a sum that is kept keeps the greater sum.
LEMMA PlusExactly ==
  ASSUME NEW s \in Nat, NEW n \in Nat
  PROVE  /\ Plus(Exactly(s), n) = Exactly(s + n)
         /\ n = 0 => Exactly(s) = Exactly(n + s)
         /\ Exactly(0) = Zero
  <1>1. Exactly(0) = Zero
    <2>1. (0 >= MaxCount) = FALSE /\ Saturated(0) = 0
      BY MaxCountAssumption DEF Saturated
    <2> QED
      BY <2>1 DEF Exactly, Zero
  <1>2. Saturated(Saturated(s) + n) = Saturated(s + n)
    BY MaxCountAssumption DEF Saturated
  <1>3. (s >= MaxCount \/ Saturated(s) + n >= MaxCount) = (s + n >= MaxCount)
    BY MaxCountAssumption DEF Saturated
  <1>4. Plus(Exactly(s), n) = [value |-> Saturated(Saturated(s) + n),
                               inexact |-> s >= MaxCount \/ Saturated(s) + n >= MaxCount]
    BY DEF Plus, Exactly
  <1> QED
    BY <1>1, <1>2, <1>3, <1>4 DEF Exactly

-----------------------------------------------------------------------------
(* Types. *)

\* A merge starts in its type.
LEMMA TypeInit == Init => TypeOK
  <1> SUFFICES ASSUME Init PROVE TypeOK
    OBVIOUS
  <1>1. Zero \in Counts
    BY MaxCountAssumption DEF Zero, Counts
  <1>2. counts \in [Contexts -> [Points -> Counts]]
    BY <1>1 DEF Init
  <1>3. maps \subseteq MapInputs
    BY InputAssumption DEF Init
  <1> QED
    BY <1>2, <1>3 DEF Init, TypeOK

\* No step of the classification breaks the type invariant.
LEMMA TypeStep == TypeOK /\ [Next]_vars => TypeOK'
  <1> SUFFICES ASSUME TypeOK, [Next]_vars PROVE TypeOK'
    OBVIOUS
  <1> USE DEF TypeOK
  <1>1. ASSUME NEW a \in maps, ReadMap(a) PROVE TypeOK'
    BY <1>1 DEF ReadMap
  <1>2. CASE MapsAgree
    BY <1>2 DEF MapsAgree
  <1>3. ASSUME NEW a \in profiles, Decode(a) PROVE TypeOK'
    BY <1>3 DEF Decode
  <1>4. CASE Decoded
    BY <1>4 DEF Decoded
  <1>5. ASSUME NEW a \in profiles, Bind(a) PROVE TypeOK'
    BY <1>5 DEF Bind
  <1>6. CASE Index
    <2>1. Distinct \subseteq Data
      BY DEF Distinct, Data
    <2> QED
      BY <1>6, <2>1 DEF Index
  <1>7. ASSUME NEW d \in Data, Count(d) PROVE TypeOK'
    <2>1. counts' \in [Contexts -> [Points -> Counts]]
      BY <1>7, PlusInRange, PointCountInRange DEF Count
    <2> QED
      BY <1>7, <2>1 DEF Count
  <1>8. CASE Combine
    BY <1>8 DEF Combine
  <1>9. CASE Publish
    BY <1>9 DEF Publish
  <1>10. CASE UNCHANGED vars
    BY <1>10
  <1> QED
    BY <1>1, <1>2, <1>3, <1>4, <1>5, <1>6, <1>7, <1>8, <1>9, <1>10 DEF Next, Ended

\* The merge is well typed; in particular no sum leaves the 64 bits of a count.
THEOREM TypeCorrect == Spec => []TypeOK
  BY TypeInit, TypeStep, PTL DEF Spec

-----------------------------------------------------------------------------
(* Which inputs are accepted. *)

\* The profiles that decode are all known before the first is accepted; what is
\* accepted was compared with all of them.
AcceptInv ==
    /\ \A a \in decoded : a.form = "whole"
    /\ \A a \in alone : a.form = "whole"
    /\ \A a \in torn : a.form = "torn"
    /\ phase \in {"maps", "profiles"} => accepted = {}
    /\ phase = "profiles" => \A a \in profiles \ todo : a.form = "whole" => a \in alone
    /\ phase \notin {"maps", "profiles"} => \A a \in profiles : a.form = "whole" => a \in alone
    /\ \A a \in accepted : ~Collides(a) /\ a.data.map \in trusted
    /\ phase # "maps" => \A m, n \in trusted : {m, n} \notin Disagreeing
    /\ complete => phase \notin {"maps", "profiles", "bind"} /\ NothingLeftOut

\* Maps that are in no conflict agree with each other.
LEMMA AgreeingMaps ==
  ASSUME NEW ids, NEW m \in ids \ Conflicting(ids), NEW n \in ids \ Conflicting(ids)
  PROVE  {m, n} \notin Disagreeing
  BY DEF Conflicting, Selfish

\* No step breaks what is known of the accepted inputs.
LEMMA AcceptStep == TypeOK /\ AcceptInv /\ [Next]_vars => AcceptInv'
  <1> SUFFICES ASSUME TypeOK, AcceptInv, [Next]_vars PROVE AcceptInv'
    OBVIOUS
  <1> USE DEF TypeOK, AcceptInv
  <1>1. ASSUME NEW a \in maps, ReadMap(a) PROVE AcceptInv'
    BY <1>1 DEF ReadMap
  <1>2. CASE MapsAgree
    <2>1. \A m, n \in trusted' : {m, n} \notin Disagreeing
      BY <1>2, AgreeingMaps DEF MapsAgree
    <2> QED
      BY <1>2, <2>1 DEF MapsAgree
  <1>3. ASSUME NEW a \in profiles, Decode(a) PROVE AcceptInv'
    BY <1>3 DEF Decode
  <1>4. CASE Decoded
    BY <1>4 DEF Decoded, Collides
  <1>5. ASSUME NEW a \in profiles, Bind(a) PROVE AcceptInv'
    <2>1. UNCHANGED <<alone, trusted, phase, profiles>>
      BY <1>5 DEF Bind
    <2>2. \A b \in accepted' : ~Collides(b) /\ b.data.map \in trusted
      BY <1>5 DEF Bind
    <2>3. phase = "bind" /\ ~complete /\ UNCHANGED <<decoded, torn, complete>>
      BY <1>5 DEF Bind
    <2> QED
      BY <2>1, <2>2, <2>3 DEF Collides
  <1>6. CASE Index
    <2>1. complete' => NothingLeftOut
      <3>1. CASE accepted = profiles
        BY <1>6, <3>1 DEF Index, AllAccepted, NothingLeftOut
      <3>2. CASE accepted # profiles
        BY <1>6, <3>2 DEF Index, AllAccepted
      <3> QED
        BY <3>1, <3>2
    <2> QED
      BY <1>6, <2>1 DEF Index, Collides, NothingLeftOut
  <1>7. ASSUME NEW d \in Data, Count(d) PROVE AcceptInv'
    BY <1>7 DEF Count, Collides, NothingLeftOut
  <1>8. CASE Combine
    BY <1>8 DEF Combine, Collides, NothingLeftOut
  <1>9. CASE Publish
    BY <1>9 DEF Publish, Collides, NothingLeftOut
  <1>10. CASE UNCHANGED vars
    BY <1>10 DEF Collides, NothingLeftOut
  <1> QED
    BY <1>1, <1>2, <1>3, <1>4, <1>5, <1>6, <1>7, <1>8, <1>9, <1>10 DEF Next, Ended

-----------------------------------------------------------------------------
(* What has been read and counted. *)

\* Before the counts are kept nothing is counted; from then on each is the sum of
\* the accepted profiles that the loop has visited, whichever those are.
Counting == {"count", "publish", "end"}
Counted  == IF phase = "count" THEN Distinct \ todo ELSE Distinct
Of(ds, c) == {d \in ds : d.context = c}
SumInv ==
    /\ phase \notin Counting => counts = [c \in Contexts |-> [p \in Points |-> Zero]]
    /\ phase \in Counting =>
          \A c \in Contexts, p \in Points : counts[c][p] = Exactly(CountSum(p, Of(Counted, c)))

\* What the loops over the inputs leave, without the order they took them in.
Binds(a) == ~Collides(a) /\ a.data.map \in trusted /\ Fits(a.data) /\ ~Impossible(a.data)
WholeOf(inputs) == {a \in inputs : a.form = "whole"}
ReadInv ==
    /\ phase = "maps" => decoded = WholeOf(maps \ todo) /\ trusted = {}
    /\ phase # "maps" =>
          decoded = WholeOf(maps) /\ LET ids == {a.id : a \in decoded} IN trusted = ids \ Conflicting(ids)
    /\ phase = "maps" => alone = {}
    /\ phase = "profiles" => alone = WholeOf(profiles \ todo)
    /\ phase \notin {"maps", "profiles"} => alone = WholeOf(profiles)
    /\ phase = "bind" => accepted = {a \in alone \ todo : Binds(a)}
    /\ phase \in Counting =>
          /\ accepted = {a \in alone : Binds(a)}
          /\ complete = (accepted # {} /\ AllAccepted /\ Satisfied /\ ~TwoVersions /\ ~allow)
    /\ phase \in {"publish", "end"} => todo = {}
    /\ phase = "count" => todo \subseteq Distinct
    /\ phase = "publish" => ~\E e \in Exprs, c \in Contexts : Negative(e, counts[c])
    /\ end # "none" => phase = "end"
    /\ phase = "end" => end # "none"

\* No step breaks what is known of the inputs.
LEMMA ReadStep == TypeOK /\ AcceptInv /\ ReadInv /\ [Next]_vars => ReadInv'
  <1> SUFFICES ASSUME TypeOK, AcceptInv, ReadInv, [Next]_vars PROVE ReadInv'
    OBVIOUS
  <1> USE DEF TypeOK, ReadInv, WholeOf, Counting
  <1>1. ASSUME NEW a \in maps, ReadMap(a) PROVE ReadInv'
    BY <1>1 DEF ReadMap
  <1>2. CASE MapsAgree
    BY <1>2 DEF MapsAgree
  <1>3. ASSUME NEW a \in profiles, Decode(a) PROVE ReadInv'
    BY <1>3 DEF Decode
  <1>4. CASE Decoded
    BY <1>4 DEF Decoded, AcceptInv, Binds, Collides
  <1>5. ASSUME NEW a \in profiles, Bind(a) PROVE ReadInv'
    <2>1. UNCHANGED <<command, phase, decoded, trusted, alone, torn, counts, complete, end>>
      BY <1>5 DEF Bind
    <2>2. phase = "bind" /\ a \in todo /\ todo' = todo \ {a}
      BY <1>5 DEF Bind
    <2>3. accepted' = IF Binds(a) THEN accepted \cup {a} ELSE accepted
      BY <1>5 DEF Bind, Binds
    <2>4. \A b : Binds(b)' = Binds(b)
      BY <2>1 DEF Binds, Collides
    <2>5. accepted = {b \in alone \ todo : Binds(b)} /\ a \in alone
      BY <2>2
    <2>6. accepted' = {b \in alone \ todo' : Binds(b)}
      BY <2>2, <2>3, <2>5
    <2>7. accepted' = {b \in alone' \ todo' : Binds(b)'}
      BY <2>1, <2>4, <2>6
    <2> HIDE DEF Binds
    <2> QED
      BY <2>1, <2>2, <2>7
  <1>6. CASE Index
    <2>1. UNCHANGED <<command, classes, counts, end>> /\ phase = "bind" /\ phase' = "count" /\ todo = {}
      BY <1>6 DEF Index
    <2>2. todo' = Distinct' /\ complete' = (accepted # {} /\ AllAccepted /\ Satisfied /\ ~TwoVersions /\ ~allow)'
      <3>1. todo' = Distinct'
        BY <1>6 DEF Index, Distinct
      <3>2. complete' = (accepted # {} /\ AllAccepted /\ Satisfied /\ ~TwoVersions /\ ~allow)
        BY <1>6 DEF Index
      <3>3. UNCHANGED <<accepted, maps, profiles, trusted, request, allow>>
        BY <2>1
      <3>4. AllAccepted' = AllAccepted /\ Satisfied' = Satisfied /\ TwoVersions' = TwoVersions
        BY <3>3 DEF AllAccepted, Satisfied, Selected, TwoVersions
      <3> QED
        BY <3>1, <3>2, <3>3, <3>4
    <2>3. accepted' = {b \in alone' : Binds(b)'}
      <3>1. \A b : Binds(b)' = Binds(b)
        BY <2>1 DEF Binds, Collides
      <3>2. accepted = {b \in alone : Binds(b)}
        BY <2>1
      <3> HIDE DEF Binds
      <3> QED
        BY <2>1, <3>1, <3>2
    <2> QED
      BY <2>1, <2>2, <2>3
  <1>7. ASSUME NEW d \in Data, Count(d) PROVE ReadInv'
    <2>1. UNCHANGED <<command, classes, complete, end, phase>> /\ phase = "count" /\ todo' \subseteq todo
      BY <1>7 DEF Count
    <2> QED
      BY <2>1 DEF Binds, Collides, Distinct, AllAccepted, Satisfied, Selected, TwoVersions
  <1>8. CASE Combine
    <2>1. UNCHANGED <<command, classes, complete, counts, todo>> /\ phase = "count" /\ todo = {}
      BY <1>8 DEF Combine
    <2>2. phase' \in {"end", "publish"} /\ (phase' = "end" <=> end' # "none")
      BY <1>8 DEF Combine
    <2>3. phase' = "publish" => (~\E e \in Exprs, c \in Contexts : Negative(e, counts[c]))'
      BY <1>8, <2>1 DEF Combine, Exprs
    <2> QED
      BY <2>1, <2>2, <2>3 DEF Binds, Collides, AllAccepted, Satisfied, Selected, TwoVersions
  <1>9. CASE Publish
    <2>1. UNCHANGED <<command, classes, complete, counts, todo>> /\ phase = "publish" /\ phase' = "end" /\ end' # "none"
      BY <1>9 DEF Publish
    <2> QED
      BY <2>1 DEF Binds, Collides, AllAccepted, Satisfied, Selected, TwoVersions
  <1>10. CASE UNCHANGED vars
    <2>1. UNCHANGED <<Distinct, AllAccepted, Satisfied, TwoVersions, Exprs>>
      BY <1>10 DEF Distinct, AllAccepted, Satisfied, Selected, TwoVersions, Exprs
    <2>2. \A b : Binds(b)' = Binds(b)
      BY <1>10 DEF Binds, Collides
    <2> HIDE DEF Binds
    <2> QED
      BY <1>10, <2>1, <2>2
  <1> QED
    BY <1>1, <1>2, <1>3, <1>4, <1>5, <1>6, <1>7, <1>8, <1>9, <1>10 DEF Next, Ended

\* The inputs are finitely many.
LEMMA FiniteInputs ==
  ASSUME TypeOK
  PROVE  /\ IsFiniteSet(profiles) /\ IsFiniteSet(accepted) /\ IsFiniteSet(Data) /\ IsFiniteSet(Contexts)
         /\ Distinct \subseteq Data /\ IsFiniteSet(Distinct)
  <1>1. accepted \subseteq ProfileInputs /\ profiles \subseteq ProfileInputs
    BY DEF TypeOK
  <1>2. IsFiniteSet(ProfileInputs)
    BY InputAssumption
  <1>3. IsFiniteSet(Data)
    <2>1. [a \in ProfileInputs |-> a.data] \in Surjection(ProfileInputs, Data)
      BY DEF Surjection, Data
    <2> QED
      BY <1>2, <2>1, FS_Surjection
  <1>4. IsFiniteSet(Contexts)
    <2>1. [d \in Data |-> d.context] \in Surjection(Data, Contexts)
      BY DEF Surjection, Contexts
    <2> QED
      BY <1>3, <2>1, FS_Surjection
  <1>5. Distinct \subseteq Data
    BY <1>1 DEF Distinct, Data
  <1> QED
    BY <1>1, <1>2, <1>3, <1>4, <1>5, FS_Subset

\* Each step of the loop adds one profile to the sums of its context.
LEMMA SumStep == TypeOK /\ ReadInv /\ SumInv /\ [Next]_vars => SumInv'
  <1> SUFFICES ASSUME TypeOK, ReadInv, SumInv, [Next]_vars PROVE SumInv'
    OBVIOUS
  <1>1. CASE Index
    <2>1. /\ phase = "bind" /\ phase' = "count" /\ UNCHANGED <<accepted, counts>> /\ todo' = Distinct'
      BY <1>1 DEF Index, Distinct
    <2>2. Counted' = {} /\ \A c : Of(Counted', c) = {}
      BY <2>1 DEF Counted, Of
    <2>3. counts = [c \in Contexts |-> [p \in Points |-> Zero]]
      BY <2>1 DEF SumInv, Counting
    <2>4. \A p : CountSum(p, {}) = 0
      BY SumSmall DEF CountSum
    <2>5. Exactly(0) = Zero
      BY PlusExactly
    <2>6. \A c \in Contexts, p \in Points : counts'[c][p] = Exactly(CountSum(p, Of(Counted', c)))
      BY <2>1, <2>2, <2>3, <2>4, <2>5
    <2> QED
      BY <2>1, <2>6 DEF SumInv, Counting, Of
  <1>2. ASSUME NEW d \in Data, Count(d) PROVE SumInv'
    <2>1. /\ phase = "count" /\ UNCHANGED <<phase, accepted>> /\ todo' = todo \ {d} /\ d \in todo
          /\ todo \subseteq Distinct
          /\ counts' = [counts EXCEPT ![d.context] =
                    [p \in Points |-> IF PointCount(d, p) = 0 THEN @[p] ELSE Plus(@[p], PointCount(d, p))]]
      BY <1>2 DEF Count, ReadInv
    <2>2. Counted' = Counted \cup {d} /\ d \notin Counted /\ Counted \in SUBSET Data /\ IsFiniteSet(Counted)
      <3>1. Counted = Distinct \ todo /\ Counted' = Distinct \ todo'
        BY <2>1 DEF Counted, Distinct
      <3>2. Distinct \subseteq Data /\ IsFiniteSet(Distinct)
        BY FiniteInputs
      <3>3. IsFiniteSet(Distinct \ todo)
        BY <3>2, FS_Difference
      <3> QED
        BY <2>1, <3>1, <3>2, <3>3
    <2>3. counts \in [Contexts -> [Points -> Counts]] /\ d.context \in Contexts
      BY DEF TypeOK, Contexts
    <2>4. ASSUME NEW c \in Contexts, NEW p \in Points PROVE counts'[c][p] = Exactly(CountSum(p, Of(Counted', c)))
      <3> DEFINE old == Of(Counted, c)
      <3>1. counts[c][p] = Exactly(CountSum(p, old))
        BY <2>1 DEF SumInv, Counting
      <3>2. old \in SUBSET Data /\ IsFiniteSet(old) /\ d \notin old
        BY <2>2, FS_Subset DEF Of
      <3>3. CASE c # d.context
        <4>1. Of(Counted', c) = old
          BY <2>2, <3>3 DEF Of
        <4>2. counts'[c][p] = counts[c][p]
          BY <2>1, <2>3, <3>3
        <4> QED
          BY <3>1, <4>1, <4>2
      <3>4. CASE c = d.context
        <4>1. Of(Counted', c) = old \cup {d}
          BY <2>2, <3>4 DEF Of
        <4>2. counts'[c][p] = IF PointCount(d, p) = 0 THEN counts[c][p] ELSE Plus(counts[c][p], PointCount(d, p))
          BY <2>1, <2>3, <3>4
        <4> HIDE DEF old
        <4>3. CountSum(p, old \cup {d}) = PointCount(d, p) + CountSum(p, old)
          BY <3>2, CountSumAdd
        <4>4. CountSum(p, old) \in Nat /\ PointCount(d, p) \in Nat
          BY <3>2, CountSumType, PointCountInRange, MaxCountAssumption
        <4>5. PointCount(d, p) + CountSum(p, old) = CountSum(p, old) + PointCount(d, p)
          BY <4>4
        <4>6. /\ Plus(Exactly(CountSum(p, old)), PointCount(d, p)) = Exactly(CountSum(p, old) + PointCount(d, p))
              /\ PointCount(d, p) = 0 => Exactly(CountSum(p, old)) = Exactly(PointCount(d, p) + CountSum(p, old))
          BY <4>4, PlusExactly
        <4> QED
          BY <3>1, <4>1, <4>2, <4>3, <4>5, <4>6
      <3> QED
        BY <3>3, <3>4
    <2> QED
      BY <2>1, <2>4 DEF SumInv, Counting, Of
  <1>3. CASE UNCHANGED <<phase, todo, accepted, counts>>
    BY <1>3 DEF SumInv, Counted, Distinct, Of
  <1>4. CASE Combine \/ Publish
    <2>1. /\ UNCHANGED <<accepted, counts>> /\ phase' \in {"publish", "end"} /\ phase \in Counting
          /\ Counted = Distinct
      BY <1>4 DEF Combine, Publish, Counting, Counted
    <2>2. Counted' = Counted
      BY <2>1 DEF Counted, Distinct
    <2> QED
      BY <2>1, <2>2 DEF SumInv, Counting, Of
  <1>5. CASE UNCHANGED counts /\ phase \notin Counting /\ phase' \notin Counting
    BY <1>5 DEF SumInv
  <1>6. ASSUME NEW a \in maps, ReadMap(a) PROVE UNCHANGED counts /\ phase \notin Counting /\ phase' \notin Counting
    BY <1>6 DEF ReadMap, Counting
  <1>7. ASSUME MapsAgree \/ Decoded PROVE UNCHANGED counts /\ phase \notin Counting /\ phase' \notin Counting
    BY <1>7 DEF MapsAgree, Decoded, Counting
  <1>8. ASSUME NEW a \in profiles, Decode(a) \/ Bind(a) PROVE UNCHANGED counts /\ phase \notin Counting /\ phase' \notin Counting
    BY <1>8 DEF Decode, Bind, Counting
  <1> QED
    BY <1>1, <1>2, <1>3, <1>4, <1>5, <1>6, <1>7, <1>8 DEF Next, Ended

-----------------------------------------------------------------------------
(* The inductive invariant. *)

IInv == TypeOK /\ AcceptInv /\ ReadInv /\ SumInv

\* The inductive invariant holds at the start.
LEMMA InvInit == Init => IInv
  <1> SUFFICES ASSUME Init PROVE IInv
    OBVIOUS
  <1>1. AcceptInv
    BY DEF Init, AcceptInv
  <1>2. ReadInv /\ SumInv
    BY DEF Init, ReadInv, SumInv, WholeOf, Counting
  <1> QED
    BY <1>1, <1>2, TypeInit DEF IInv

\* The inductive invariant of Merge.
THEOREM Inductive == Spec => []IInv
  <1>1. IInv /\ [Next]_vars => IInv'
    BY TypeStep, AcceptStep, ReadStep, SumStep DEF IInv
  <1> QED
    BY InvInit, <1>1, PTL DEF Spec

-----------------------------------------------------------------------------

\* Colliding profiles are rejected wherever the invariant holds.
LEMMA CollisionsFromInv == IInv => CollisionsRejected
  <1> SUFFICES ASSUME IInv,
                      NEW a \in accepted, NEW b \in profiles,
                      b.form = "whole", b.data.id = a.data.id
               PROVE  b.data = a.data
    BY DEF CollisionsRejected
  <1>1. phase \notin {"maps", "profiles"}
    BY DEF IInv, AcceptInv
  <1>2. b \in alone /\ ~Collides(a)
    BY <1>1 DEF IInv, AcceptInv
  <1> QED
    BY <1>2 DEF Collides

\* Every use of a profile ID by different bytes rejects all its users, in
\* whatever order merge visits them and however many there are.
THEOREM NoCollisionCounts == Spec => []CollisionsRejected
  BY Inductive, CollisionsFromInv, PTL

\* Counters mean the same points wherever the invariant holds.
LEMMA MeaningFromInv == IInv => MeaningAgrees
  BY DEF IInv, AcceptInv, MeaningAgrees

\* What counts is bound to maps no two of which contradict each other.
THEOREM OneMeaning == Spec => []MeaningAgrees
  BY Inductive, MeaningFromInv, PTL

\* A complete merge left nothing out wherever the invariant holds.
LEMMA CompleteFromInv == IInv => (complete => NothingLeftOut)
  BY DEF IInv, AcceptInv

\* Evidence that is called complete was made from every input of the command.
THEOREM CompleteLeavesNothingOut == Spec => [](complete => NothingLeftOut)
  BY Inductive, CompleteFromInv, PTL

-----------------------------------------------------------------------------
(* What the counts tell. *)

\* Accepted profiles are of maps of the command.
LEMMA AcceptedMaps ==
  ASSUME IInv
  PROVE  /\ trusted \subseteq MapIDs
         /\ \A d \in Distinct : d \in Data /\ d.map \in MapIDs
         /\ \A c : Of(Distinct, c) \in SUBSET Data /\ IsFiniteSet(Of(Distinct, c))
  <1>1. trusted \subseteq MapIDs
    BY DEF IInv, TypeOK, MapIDs
  <1>2. \A a \in accepted : a.data.map \in trusted
    BY DEF IInv, AcceptInv
  <1>3. Distinct \subseteq Data /\ IsFiniteSet(Distinct)
    BY FiniteInputs DEF IInv
  <1>4. \A d \in Distinct : d.map \in MapIDs
    BY <1>1, <1>2 DEF Distinct
  <1> QED
    BY <1>1, <1>3, <1>4, FS_Subset DEF Of

\* A sum over the profiles of a context, written as a sum of one function of them.
LEMMA SumOfContext ==
  ASSUME IInv, NEW c, NEW p
  PROVE  SumFunction([d \in Of(Distinct, c) |-> PointCount(d, p)]) = CountSum(p, Of(Distinct, c))
  <1> DEFINE ds == Of(Distinct, c)
             g  == [d \in ds |-> PointCount(d, p)]
             h  == [d \in Data |-> PointCount(d, p)]
  <1>1. ds \in SUBSET Data /\ IsFiniteSet(ds)
    BY AcceptedMaps
  <1>2. SumFunction(g) = SumFunctionOnSet(g, ds)
    BY DEF SumFunction
  <1> HIDE DEF ds
  <1>3. \A d \in ds : g[d] \in Int /\ g[d] = h[d]
    BY <1>1, PointCountInRange, MaxCountAssumption
  <1> HIDE DEF g, h
  <1>4. SumFunctionOnSet(g, ds) = SumFunctionOnSet(h, ds)
    BY <1>1, <1>3, SumEqual
  <1> QED
    BY <1>2, <1>4 DEF CountSum, g, h, ds

\* The counts are the sums of all accepted profiles wherever the loop has ended.
LEMMA CountsAreSums ==
  ASSUME IInv, phase \in Counting, todo = {}, NEW c \in Contexts, NEW p \in Points
  PROVE  counts[c][p] = Exactly(CountSum(p, Of(Distinct, c)))
  BY DEF IInv, SumInv, Counted

\* Complete evidence counts everything wherever the invariant holds.
LEMMA AllFromInv == IInv => CompleteIsAll
  <1> SUFFICES ASSUME IInv, complete PROVE CompleteIsAll
    BY DEF CompleteIsAll
  <1>1. NothingLeftOut
    BY DEF IInv, AcceptInv
  <1>2. ASSUME phase \in {"publish", "end"}, NEW c \in Contexts, NEW p \in Points
        PROVE  LET given == {d \in {a.data : a \in profiles} : d.context = c}
                   sum   == SumFunction([d \in given |-> PointCount(d, p)])
               IN  counts[c][p] = [value |-> Saturated(sum), inexact |-> sum >= MaxCount]
    <2>1. {d \in {a.data : a \in profiles} : d.context = c} = Of(Distinct, c)
      BY <1>1 DEF NothingLeftOut, Of, Distinct
    <2>2. todo = {} /\ phase \in Counting
      BY <1>2 DEF IInv, ReadInv, Counting
    <2>3. counts[c][p] = Exactly(CountSum(p, Of(Distinct, c)))
      BY <2>2, CountsAreSums
    <2>4. SumFunction([d \in Of(Distinct, c) |-> PointCount(d, p)]) = CountSum(p, Of(Distinct, c))
      BY SumOfContext
    <2> QED
      BY <2>1, <2>3, <2>4 DEF Exactly
  <1> QED
    BY <1>1, <1>2 DEF CompleteIsAll

\* Complete evidence leaves nothing out of any sum: copies are counted once, and
\* every profile that was supplied is counted.
THEOREM CompleteCountsAll == Spec => []CompleteIsAll
  BY Inductive, AllFromInv, PTL

\* What the processes of all accepted profiles may have counted, without a bound.
IsWorld(f) == \A d \in Distinct : IsTruth(f[d], d)

\* A sum of profiles tells the truth about its point.
LEMMA PointsTell ==
  ASSUME IInv, NEW f, IsWorld(f), NEW c, NEW p
  PROVE  /\ TrulyRan(f, c, p) \in Nat
         /\ Tells(Exactly(CountSum(p, Of(Distinct, c))), TrulyRan(f, c, p))
  <1> DEFINE ds == Of(Distinct, c)
             g  == [d \in ds |-> SumFunctionOnSet(f[d], Slots(f[d], d.map, p))]
             h  == [d \in Data |-> PointCount(d, p)]
             sum == SumFunctionOnSet(h, ds)
             ran == SumFunctionOnSet(g, ds)
  <1>1. ds \in SUBSET Data /\ IsFiniteSet(ds) /\ \A d \in ds : d.map \in MapIDs /\ IsTruth(f[d], d)
    BY AcceptedMaps DEF IsWorld, Of
  <1>2. TrulyRan(f, c, p) = ran
    <2>1. \A d : {i \in DOMAIN f[d] : i \in DOMAIN Binding[d.map] /\ Binding[d.map][i] = p} = Slots(f[d], d.map, p)
      BY DEF Slots
    <2>2. {x \in Distinct : x.context = c} = ds
      BY DEF Of
    <2>3. TrulyRan(f, c, p) = SumFunction(g)
      BY <2>1, <2>2 DEF TrulyRan
    <2> QED
      BY <2>3 DEF SumFunction
  <1> HIDE DEF ds
  <1>3. \A d \in ds : g[d] \in Nat /\ h[d] = Saturated(g[d]) /\ h[d] \in Nat
    <2> SUFFICES ASSUME NEW d \in ds PROVE g[d] \in Nat /\ h[d] = Saturated(g[d]) /\ h[d] \in Nat
      OBVIOUS
    <2>1. d \in Data /\ d.map \in MapIDs /\ IsTruth(f[d], d)
      BY <1>1
    <2> DEFINE n == SumFunctionOnSet(f[d], Slots(f[d], d.map, p))
    <2>2. n \in Nat /\ PointCount(d, p) = Saturated(n) /\ PointCount(d, p) \in Nat
      BY <2>1, PointCountTells
    <2>3. g[d] = n /\ h[d] = PointCount(d, p)
      BY <2>1
    <2> HIDE DEF n, g, h
    <2> QED
      BY <2>2, <2>3
  <1> HIDE DEF g, h
  <1>4. sum \in Nat /\ ran \in Nat
    BY <1>1, <1>3, SumOfNaturals
  <1>5. \A d \in ds : h[d] <= g[d] /\ (h[d] < MaxCount => g[d] = h[d])
    BY <1>3, MaxCountAssumption DEF Saturated
  <1>6. sum <= ran
    <2>1. \A d \in ds : h[d] \in Int /\ g[d] \in Int /\ h[d] <= g[d]
      BY <1>3, <1>5
    <2> QED
      BY <1>1, <2>1, SumCompare
  <1>7. sum < MaxCount => sum = ran
    <2> SUFFICES ASSUME sum < MaxCount PROVE sum = ran
      OBVIOUS
    <2>1. \A d \in ds : h[d] <= sum
      BY <1>1, <1>3, SumOfNaturals
    <2>2. \A d \in ds : h[d] \in Int /\ h[d] = g[d]
      BY <1>3, <1>4, <1>5, <2>1, MaxCountAssumption
    <2> QED
      BY <1>1, <2>2, SumEqual
  <1>8. CountSum(p, ds) = sum
    BY DEF CountSum, h
  <1> HIDE DEF sum, ran
  <1>9. Tells(Exactly(sum), ran)
    <2>1. Exactly(sum).value = Saturated(sum) /\ Exactly(sum).inexact = (sum >= MaxCount)
      BY DEF Exactly
    <2>2. Saturated(sum) <= ran /\ (~(sum >= MaxCount) => Saturated(sum) = ran)
      BY <1>4, <1>6, <1>7, MaxCountAssumption DEF Saturated
    <2> QED
      BY <2>1, <2>2 DEF Tells
  <1> QED
    BY <1>2, <1>4, <1>8, <1>9 DEF ds

\* The expression of a region is one of integers on points of a map.
LEMMA ExprFacts ==
  ASSUME IInv, NEW e \in Exprs
  PROVE  e \in [DOMAIN e -> Int] /\ IsFiniteSet(DOMAIN e) /\ DOMAIN e \subseteq Points
  <1>1. PICK m \in trusted : e \in Regions[m]
    BY DEF Exprs
  <1>2. m \in MapIDs
    BY AcceptedMaps
  <1> QED
    BY <1>1, <1>2, MapAssumption DEF Points

\* What is told of a region, and what is true of it in the world f.
Told(e)      == Aggregate([c \in Contexts |-> Evaluate(e, counts[c])])
Truth(f, e)  == SumFunction([c \in Contexts |-> TrulyEntered(f, c, e)])
Proper(f, e) == \A c \in Contexts : TrulyEntered(f, c, e) >= 0

\* A region tells the truth wherever the counting has ended.
LEMMA RegionTells ==
  ASSUME IInv, phase \in Counting, todo = {}, NEW f, IsWorld(f), NEW e \in Exprs, Proper(f, e)
  PROVE  Tells(Told(e), Truth(f, e))
  <1> DEFINE told == [c \in Contexts |-> Evaluate(e, counts[c])]
             true == [c \in Contexts |-> TrulyEntered(f, c, e)]
  <1>1. IsFiniteSet(Contexts)
    BY FiniteInputs DEF IInv
  <1>2. ASSUME NEW c \in Contexts
        PROVE  /\ Evaluate(e, counts[c]) \in Counts
               /\ TrulyEntered(f, c, e) \in Nat
               /\ Tells(Evaluate(e, counts[c]), TrulyEntered(f, c, e))
    <2> DEFINE t    == [p \in DOMAIN e |-> TrulyRan(f, c, p)]
               each == [p \in DOMAIN e |-> e[p] * t[p]]
    <2>1. e \in [DOMAIN e -> Int] /\ IsFiniteSet(DOMAIN e) /\ DOMAIN e \subseteq Points
      BY ExprFacts
    <2>2. \A p \in DOMAIN e : counts[c][p] \in Counts
      BY <2>1 DEF IInv, TypeOK
    <2>3. \A p \in DOMAIN e : t[p] \in Nat /\ Tells(counts[c][p], t[p])
      <3> SUFFICES ASSUME NEW p \in DOMAIN e PROVE t[p] \in Nat /\ Tells(counts[c][p], t[p])
        OBVIOUS
      <3>1. counts[c][p] = Exactly(CountSum(p, Of(Distinct, c)))
        BY <2>1, CountsAreSums
      <3>2. TrulyRan(f, c, p) \in Nat /\ Tells(Exactly(CountSum(p, Of(Distinct, c))), TrulyRan(f, c, p))
        BY PointsTell
      <3> QED
        BY <3>1, <3>2
    <2>4. TrulyEntered(f, c, e) = SumFunction(each)
      BY DEF TrulyEntered
    <2>5. SumFunction(each) >= 0
      BY <2>4 DEF Proper
    <2>6. SumFunction(each) \in Int
      <3>1. \A p \in DOMAIN e : each[p] \in Int
        <4> SUFFICES ASSUME NEW p \in DOMAIN e PROVE e[p] * t[p] \in Int
          OBVIOUS
        <4>1. e[p] \in Int /\ t[p] \in Int
          BY <2>1, <2>3
        <4> HIDE DEF t
        <4> QED
          BY <4>1
      <3>2. SumFunction(each) = SumFunctionOnSet(each, DOMAIN e)
        BY DEF SumFunction
      <3> HIDE DEF each
      <3> QED
        BY <2>1, <3>1, <3>2, SumType
    <2> HIDE DEF t
    <2>7. Evaluate(e, counts[c]) \in Counts /\ Tells(Evaluate(e, counts[c]), SumFunction(each))
      BY <2>1, <2>2, <2>3, <2>5, EvaluateTells
    <2> HIDE DEF each
    <2> QED
      BY <2>4, <2>5, <2>6, <2>7
  <1>3. told \in [Contexts -> Counts] /\ \A c \in Contexts : true[c] \in Nat /\ Tells(told[c], true[c])
    BY <1>2
  <1>4. Told(e) = Aggregate(told) /\ Truth(f, e) = SumFunctionOnSet(true, Contexts)
    BY DEF Told, Truth, SumFunction
  <1> HIDE DEF told, true
  <1> QED
    BY <1>1, <1>3, <1>4, AggregateTells

\* Regions tell the truth of every world, wherever the invariant holds.
SoundAnywhere ==
    end \in {"published", "withheld"} =>
        \A f : IsWorld(f) => \A e \in Exprs : Proper(f, e) => Tells(Told(e), Truth(f, e))

\* The counting has ended when the command has.
LEMMA SoundFromInv == IInv => SoundAnywhere
  <1> SUFFICES ASSUME IInv, end \in {"published", "withheld"} PROVE SoundAnywhere
    BY DEF SoundAnywhere
  <1>1. phase \in Counting /\ todo = {}
    BY DEF IInv, ReadInv, Counting
  <1> QED
    BY <1>1, RegionTells DEF SoundAnywhere

\* The worlds of the model are such worlds.
LEMMA BoundedWorlds == IInv /\ SoundAnywhere => RegionsSound
  <1> SUFFICES ASSUME IInv, SoundAnywhere, end \in {"published", "withheld"},
                      NEW f \in Worlds, NEW e \in Exprs,
                      \A c \in Contexts : TrulyEntered(f, c, e) >= 0
               PROVE  /\ Told(e).value <= Truth(f, e)
                      /\ ~Told(e).inexact => Told(e).value = Truth(f, e)
    BY DEF RegionsSound, Told, Truth
  <1>1. IsWorld(f)
    <2> SUFFICES ASSUME NEW d \in Distinct PROVE IsTruth(f[d], d)
      BY DEF IsWorld
    <2>1. f[d] \in Truths(d)
      BY DEF Worlds
    <2> QED
      BY <2>1, MaxCountAssumption DEF Truths, IsTruth
  <1> QED
    BY <1>1 DEF SoundAnywhere, Proper, Tells

\* No region of evidence claims more entries than there were, nor an exact number
\* that is not the truth: whatever saturated, and however far beyond the maximum
\* the processes went.
THEOREM RegionsTellTheTruth == Spec => []SoundAnywhere
  BY Inductive, SoundFromInv, PTL

\* The same of the processes that the model checker enumerates.
THEOREM RegionsAreSound == Spec => []RegionsSound
  BY Inductive, SoundFromInv, BoundedWorlds, PTL

-----------------------------------------------------------------------------
(* Merge implements MergedEvidence. *)

\* The abstract specification's sums are the same sums.
LEMMA PromiseSums ==
  ASSUME NEW g, NEW S
  PROVE  /\ Promise!SumFunctionOnSet(g, S) = SumFunctionOnSet(g, S)
         /\ Promise!SumFunction(g) = SumFunction(g)
  <1>1. ASSUME NEW T PROVE Promise!SumFunctionOnSet(g, T) = SumFunctionOnSet(g, T)
    <2>1. Promise!SumFunctionOnSet(g, T) = (CHOOSE h : Sums(h, g, T))[T]
      BY DEF Promise!SumFunctionOnSet, Promise!FoldFunctionOnSet, Promise!MapThenFoldSet, Sums, Some
    <2> QED
      BY <2>1, SumIsChosen
  <1>2. Promise!SumFunction(g) = Promise!SumFunctionOnSet(g, DOMAIN g)
    BY DEF Promise!SumFunction
  <1>3. SumFunction(g) = SumFunctionOnSet(g, DOMAIN g)
    BY DEF SumFunction
  <1> QED
    BY <1>1, <1>2, <1>3

\* The maps that are used are those that agree.
LEMMA PromiseTrusted == ASSUME IInv, phase # "maps" PROVE Promise!Trusted = trusted
  <1> DEFINE ids == {a.id : a \in decoded}
  <1>1. decoded = {a \in maps : a.form = "whole"} /\ trusted = ids \ Conflicting(ids)
    BY DEF IInv, ReadInv, WholeOf
  <1>2. Promise!Valid = ids
    BY <1>1 DEF Promise!Valid
  <1>3. Promise!Sane = ids \ Selfish(ids)
    BY <1>2 DEF Promise!Sane, Selfish
  <1>4. Selfish(ids) \subseteq ids
    BY DEF Selfish
  <1> HIDE DEF ids
  <1>5. Promise!Trusted = {m \in ids \ Selfish(ids) : \A n \in ids \ Selfish(ids) : {m, n} \notin Disagreeing}
    BY <1>3 DEF Promise!Trusted
  <1> QED
    BY <1>1, <1>4, <1>5 DEF Conflicting

\* What a profile saw of a point is its count of the point.
LEMMA PromiseRan ==
  ASSUME NEW d \in Data, d.map \in MapIDs, NEW p
  PROVE  Promise!Ran(d, p) = PointCount(d, p)
  <1>1. {i \in DOMAIN d.counts : i \in DOMAIN Binding[d.map] /\ Binding[d.map][i] = p} = Slots(d.counts, d.map, p)
    BY DEF Slots
  <1>2. Promise!Ran(d, p) = Promise!SumFunctionOnSet(d.counts, Slots(d.counts, d.map, p))
    BY <1>1 DEF Promise!Ran
  <1> QED
    BY <1>2, PromiseSums, PointCountIsSum

\* A profile fits its map, and is possible, in the same sense.
LEMMA PromiseBinds ==
  ASSUME NEW d \in Data, d.map \in MapIDs
  PROVE  /\ Promise!InMap(d) <=> Fits(d)
         /\ Promise!Possible(d) <=> ~Impossible(d)
  <1>1. Promise!InMap(d) <=> Fits(d)
    BY DataCounts DEF Promise!InMap, Fits
  <1>2. ASSUME NEW e \in Regions[d.map]
        PROVE  Negative(e, [p \in Points |-> Physical(PointCount(d, p))])
                  <=> ~((\A p \in DOMAIN e : Promise!Ran(d, p) < MaxCount) =>
                          Promise!SumFunction([p \in DOMAIN e |-> e[p] * Promise!Ran(d, p)]) >= 0)
    <2> DEFINE c    == [p \in Points |-> Physical(PointCount(d, p))]
               each == [p \in DOMAIN e |-> e[p] * PointCount(d, p)]
    <2>1. e \in [DOMAIN e -> Int] /\ IsFiniteSet(DOMAIN e) /\ DOMAIN e \subseteq Points
      BY MapAssumption DEF Points
    <2>2. \A p \in DOMAIN e : /\ PointCount(d, p) \in Nat /\ PointCount(d, p) <= MaxCount
                              /\ c[p].value = PointCount(d, p)
                              /\ c[p].inexact <=> PointCount(d, p) = MaxCount
      <3> SUFFICES ASSUME NEW p \in DOMAIN e
                   PROVE  /\ PointCount(d, p) \in Nat /\ PointCount(d, p) <= MaxCount
                          /\ c[p].value = PointCount(d, p)
                          /\ c[p].inexact <=> PointCount(d, p) = MaxCount
        OBVIOUS
      <3>1. PointCount(d, p) \in Nat /\ PointCount(d, p) <= MaxCount
        BY PointCountInRange, MaxCountAssumption
      <3>2. c[p] = Physical(PointCount(d, p))
        BY <2>1
      <3> DEFINE full == PointCount(d, p) = MaxCount
      <3>3. c[p] = [value |-> PointCount(d, p), inexact |-> full] /\ full \in BOOLEAN
        BY <3>2 DEF Physical
      <3>4. full <=> PointCount(d, p) = MaxCount
        OBVIOUS
      <3> HIDE DEF c, full
      <3> QED
        BY <3>1, <3>3, <3>4
    <2> HIDE DEF c
    <2>3. Hot(e, c) <=> ~\A p \in DOMAIN e : Promise!Ran(d, p) < MaxCount
      <3>1. \A p \in DOMAIN e : Promise!Ran(d, p) = PointCount(d, p)
        BY PromiseRan
      <3>2. \A p \in DOMAIN e : c[p].inexact <=> ~(Promise!Ran(d, p) < MaxCount)
        BY <2>2, <3>1, MaxCountAssumption
      <3> QED
        BY <3>2 DEF Hot
    <2>4. Total(e, c) = SumFunction(each)
      <3>1. [p \in DOMAIN e |-> e[p] * c[p].value] = each
        BY <2>2
      <3> HIDE DEF each
      <3> QED
        BY <3>1 DEF Total
    <2>5. Promise!SumFunction([p \in DOMAIN e |-> e[p] * Promise!Ran(d, p)]) = SumFunction(each)
      <3>1. [p \in DOMAIN e |-> e[p] * Promise!Ran(d, p)] = each
        BY PromiseRan
      <3> HIDE DEF each
      <3> QED
        BY <3>1, PromiseSums
    <2>6. SumFunction(each) \in Int
      <3>1. \A p \in DOMAIN e : each[p] \in Int
        <4> SUFFICES ASSUME NEW p \in DOMAIN e PROVE e[p] * PointCount(d, p) \in Int
          OBVIOUS
        <4>1. e[p] \in Int
          BY <2>1
        <4>2. PointCount(d, p) \in Int
          BY PointCountInRange, MaxCountAssumption
        <4> QED
          BY <4>1, <4>2
      <3>2. SumFunction(each) = SumFunctionOnSet(each, DOMAIN e)
        BY DEF SumFunction
      <3> HIDE DEF each
      <3> QED
        BY <2>1, <3>1, <3>2, SumType
    <2> DEFINE total == SumFunction(each)
    <2>7. Negative(e, c) <=> ~Hot(e, c) /\ total < 0
      BY <2>4 DEF Negative
    <2> HIDE DEF total
    <2>8. total < 0 <=> ~(total >= 0)
      BY <2>6 DEF total
    <2> QED
      BY <2>3, <2>5, <2>7, <2>8 DEF total, c
  <1>3. Promise!Possible(d) <=> ~Impossible(d)
    BY <1>2 DEF Promise!Possible, Impossible
  <1> QED
    BY <1>1, <1>3

\* The profiles that count are those that are accepted.
LEMMA PromiseAccepted == ASSUME IInv, phase \in Counting PROVE Promise!Accepted = accepted
  <1>1. alone = WholeOf(profiles) /\ accepted = {a \in alone : Binds(a)} /\ phase # "maps"
    BY DEF IInv, ReadInv, Counting
  <1>2. Promise!Trusted = trusted /\ Promise!Whole = alone
    BY <1>1, PromiseTrusted DEF Promise!Whole, WholeOf
  <1>3. ASSUME NEW a \in alone
        PROVE  Binds(a) <=> /\ \A b \in alone : b.data.id = a.data.id => b.data = a.data
                            /\ a.data.map \in trusted
                            /\ Promise!InMap(a.data) /\ Promise!Possible(a.data)
    <2>1. a.data \in Data
      BY DEF IInv, TypeOK, Data
    <2>2. CASE a.data.map \in trusted
      <3>1. a.data.map \in MapIDs
        BY <2>2, AcceptedMaps
      <3>2. (Promise!InMap(a.data) <=> Fits(a.data)) /\ (Promise!Possible(a.data) <=> ~Impossible(a.data))
        BY <2>1, <3>1, PromiseBinds
      <3> QED
        BY <3>2 DEF Binds, Collides
    <2>3. CASE a.data.map \notin trusted
      BY <2>3 DEF Binds
    <2> QED
      BY <2>2, <2>3
  <1> QED
    BY <1>1, <1>2, <1>3 DEF Promise!Accepted

\* The counts are the sums that were promised.
LEMMA PromiseCounts ==
  ASSUME IInv, phase \in Counting, todo = {}
  PROVE  /\ \A c, p : Promise!Sum(c, p) = CountSum(p, Of(Distinct, c))
         /\ \A c \in Contexts, p \in Points : counts[c][p] = Promise!Count(c, p)
  <1>1. ASSUME NEW c, NEW p PROVE Promise!Sum(c, p) = CountSum(p, Of(Distinct, c))
    <2>1. {x \in {a.data : a \in Promise!Accepted} : x.context = c} = Of(Distinct, c)
      BY PromiseAccepted DEF Of, Distinct
    <2>2. \A d \in Of(Distinct, c) : Promise!Ran(d, p) = PointCount(d, p)
      BY AcceptedMaps, PromiseRan DEF Of
    <2>3. [d \in Of(Distinct, c) |-> Promise!Ran(d, p)] = [d \in Of(Distinct, c) |-> PointCount(d, p)]
      BY <2>2
    <2>4. Promise!Sum(c, p) = Promise!SumFunction([d \in Of(Distinct, c) |-> PointCount(d, p)])
      BY <2>1, <2>3 DEF Promise!Sum
    <2> QED
      BY <2>4, PromiseSums, SumOfContext
  <1>2. ASSUME NEW c \in Contexts, NEW p \in Points PROVE counts[c][p] = Promise!Count(c, p)
    BY <1>1, CountsAreSums DEF Promise!Count, Exactly, Saturated
  <1> QED
    BY <1>1, <1>2

\* The evidence contradicts a region in the same sense.
LEMMA PromiseContradicted ==
  ASSUME IInv, phase \in Counting, todo = {}
  PROVE  Promise!Contradicted <=> \E e \in Exprs, c \in Contexts : Negative(e, counts[c])
  <1>1. ASSUME NEW e \in Exprs, NEW c \in Contexts
        PROVE  Negative(e, counts[c]) <=>
                  /\ \A p \in DOMAIN e : Promise!Sum(c, p) < MaxCount
                  /\ Promise!SumFunction([p \in DOMAIN e |-> e[p] * Promise!Sum(c, p)]) < 0
    <2>1. DOMAIN e \subseteq Points
      BY ExprFacts
    <2>2. ASSUME NEW p \in DOMAIN e
          PROVE  /\ counts[c][p].inexact = ~(Promise!Sum(c, p) < MaxCount)
                 /\ Promise!Sum(c, p) < MaxCount => counts[c][p].value = Promise!Sum(c, p)
      <3> DEFINE n == CountSum(p, Of(Distinct, c))
      <3>1. n \in Nat
        BY AcceptedMaps, CountSumType
      <3>2. Promise!Sum(c, p) = n /\ counts[c][p] = Exactly(n)
        BY <2>1, PromiseCounts, CountsAreSums
      <3> HIDE DEF n
      <3>3. (n >= MaxCount) = ~(n < MaxCount) /\ (n < MaxCount => Saturated(n) = n)
        BY <3>1, MaxCountAssumption DEF Saturated
      <3> QED
        BY <3>2, <3>3 DEF Exactly
    <2>3. Hot(e, counts[c]) <=> ~\A p \in DOMAIN e : Promise!Sum(c, p) < MaxCount
      BY <2>2 DEF Hot
    <2>4. ASSUME \A p \in DOMAIN e : Promise!Sum(c, p) < MaxCount
          PROVE  Total(e, counts[c]) = Promise!SumFunction([p \in DOMAIN e |-> e[p] * Promise!Sum(c, p)])
      <3>1. [p \in DOMAIN e |-> e[p] * counts[c][p].value] = [p \in DOMAIN e |-> e[p] * Promise!Sum(c, p)]
        BY <2>2, <2>4
      <3> QED
        BY <3>1, PromiseSums DEF Total
    <2> QED
      BY <2>3, <2>4 DEF Negative
  <1>2. /\ Promise!Trusted = trusted
        /\ {a.data.context : a \in ProfileInputs} = Contexts
    BY PromiseTrusted DEF Counting, Contexts, Data
  <1> DEFINE Bad(e, c) == /\ \A p \in DOMAIN e : Promise!Sum(c, p) < MaxCount
                          /\ Promise!SumFunction([p \in DOMAIN e |-> e[p] * Promise!Sum(c, p)]) < 0
  <1>3. Promise!Contradicted <=> \E m \in trusted : \E e \in Regions[m] : \E c \in Contexts : Bad(e, c)
    BY <1>2 DEF Promise!Contradicted
  <1>4. \A e \in Exprs, c \in Contexts : Negative(e, counts[c]) <=> Bad(e, c)
    BY <1>1
  <1> HIDE DEF Bad
  <1> QED
    BY <1>3, <1>4 DEF Exprs

\* The evidence is complete in the same sense.
LEMMA PromiseComplete == ASSUME IInv, phase \in Counting PROVE Promise!Complete = complete
  <1>1. Promise!Accepted = accepted /\ Promise!Trusted = trusted
    BY PromiseAccepted, PromiseTrusted DEF Counting
  <1>2. complete = (accepted # {} /\ AllAccepted /\ Satisfied /\ ~TwoVersions /\ ~allow)
    BY DEF IInv, ReadInv
  <1>3. Promise!RunsHold <=> Satisfied
    <2> DEFINE runs == {a.data.run : a \in accepted}
    <2>1. IsFiniteSet(runs)
      <3>1. IsFiniteSet(accepted)
        BY FiniteInputs DEF IInv
      <3>2. [a \in accepted |-> a.data.run] \in Surjection(accepted, runs)
        BY DEF Surjection
      <3> QED
        BY <3>1, <3>2, FS_Surjection
    <2>2. (Cardinality(runs) = 1) <=> \E r \in runs : runs = {r}
      <3> HIDE DEF runs
      <3>1. (Cardinality(runs) = 1) <=> \E r : runs = {r}
        BY <2>1, FS_Singleton
      <3> QED
        BY <3>1
    <2>3. Selected = runs
      BY DEF Selected
    <2>4. Promise!RunsHold <=> IF request = {} THEN \E r \in runs : runs = {r} ELSE runs = request
      BY <1>1 DEF Promise!RunsHold
    <2> QED
      BY <2>2, <2>3, <2>4 DEF Satisfied
  <1>4. Promise!OneVersion <=> ~TwoVersions
    BY <1>1 DEF Promise!OneVersion, TwoVersions
  <1>5. Promise!Complete <=> complete
    BY <1>1, <1>2, <1>3, <1>4 DEF Promise!Complete, AllAccepted
  <1>6. Promise!Complete \in BOOLEAN /\ complete \in BOOLEAN
    BY DEF Promise!Complete, IInv, TypeOK
  <1> QED
    BY <1>5, <1>6

\* What the command may show.
Shown == [x \in Contexts \X Points |-> counts[x[1]][x[2]]]

\* When the counting has ended, what was promised is what the command has.
LEMMA PromiseOutcome ==
  ASSUME IInv, phase \in Counting, todo = {}
  PROVE  Promise!Outcome =
            [end      |-> IF \E e \in Exprs, c \in Contexts : Negative(e, counts[c]) THEN "refused"
                          ELSE IF complete \/ allow THEN "published" ELSE "withheld",
             accepted |-> accepted, complete |-> complete, counts |-> Shown]
  <1>1. Promise!Accepted = accepted /\ Promise!Complete = complete
    BY PromiseAccepted, PromiseComplete
  <1>2. Promise!Contradicted <=> \E e \in Exprs, c \in Contexts : Negative(e, counts[c])
    BY PromiseContradicted
  <1>3. [x \in {a.data.context : a \in ProfileInputs} \X
                         UNION {{Binding[m][i] : i \in DOMAIN Binding[m]}
                                    : m \in {a.id : a \in MapInputs}}
                      |-> Promise!Count(x[1], x[2])] = Shown
    <2>1. /\ {a.data.context : a \in ProfileInputs} = Contexts
          /\ UNION {{Binding[m][i] : i \in DOMAIN Binding[m]} : m \in {a.id : a \in MapInputs}} = Points
      BY DEF Contexts, Data, Points, MapIDs
    <2>2. \A x \in Contexts \X Points : Promise!Count(x[1], x[2]) = counts[x[1]][x[2]]
      BY PromiseCounts
    <2> QED
      BY <2>1, <2>2 DEF Shown
  <1> QED
    BY <1>1, <1>2, <1>3 DEF Promise!Outcome

\* The outcome as the abstract specification sees it.
Seen == IF phase = "end"
        THEN [end |-> end, accepted |-> accepted, complete |-> complete, counts |-> Shown]
        ELSE [end |-> "none"]

\* The abstract specification starts where Merge does.
LEMMA PromiseInit == Init => Promise!Init
  BY DEF Init, Promise!Init, Promise!Pending

\* The end of the command is the abstract step.
LEMMA PromiseEnds ==
  ASSUME IInv, phase \in {"count", "publish"}, todo = {}, phase' = "end",
         UNCHANGED <<maps, profiles, allow, request, accepted, complete, counts>>,
         end' = IF \E e \in Exprs, c \in Contexts : Negative(e, counts[c]) THEN "refused"
                ELSE IF complete \/ allow THEN "published" ELSE "withheld"
  PROVE  Promise!Next
  <1>1. Promise!Outcome = [end |-> end', accepted |-> accepted, complete |-> complete, counts |-> Shown]
    BY PromiseOutcome DEF Counting
  <1>2. Seen = Promise!Pending
    BY DEF Seen, Promise!Pending
  <1>3. Seen' = Promise!Outcome
    BY <1>1 DEF Seen, Shown
  <1>4. Seen' # Promise!Pending
    <2>1. Seen'.end = end' /\ end' # "none"
      BY <1>1, <1>3
    <2>2. Promise!Pending.end = "none"
      BY DEF Promise!Pending
    <2> QED
      BY <2>1, <2>2
  <1> QED
    BY <1>2, <1>3, <1>4 DEF Promise!Next, Seen, Shown

\* Every step of Merge is a step of the abstract specification or changes nothing of it.
LEMMA PromiseStep ==
  ASSUME IInv, [Next]_vars
  PROVE  [Promise!Next]_<<maps, profiles, allow, request, Seen>>
  <1>1. CASE UNCHANGED command /\ phase # "end" /\ phase' # "end"
    BY <1>1 DEF Seen
  <1>2. CASE Combine
    <2>1. UNCHANGED <<command, todo, classes, counts, complete>> /\ phase = "count" /\ todo = {}
      BY <1>2 DEF Combine
    <2>2. CASE \E e \in Exprs, c \in Contexts : Negative(e, counts[c])
      BY <1>2, <2>1, <2>2, PromiseEnds DEF Combine
    <2>3. CASE ~\E e \in Exprs, c \in Contexts : Negative(e, counts[c])
      BY <1>1, <1>2, <2>1, <2>3 DEF Combine
    <2> QED
      BY <2>2, <2>3
  <1>3. CASE Publish
    <2>1. ~\E e \in Exprs, c \in Contexts : Negative(e, counts[c])
      BY <1>3 DEF Publish, IInv, ReadInv
    <2>2. todo = {}
      BY <1>3 DEF Publish, IInv, ReadInv
    <2> QED
      BY <1>3, <2>1, <2>2, PromiseEnds DEF Publish
  <1>4. CASE UNCHANGED vars
    BY <1>4 DEF Seen, Shown
  <1>5. ASSUME NEW a \in maps, ReadMap(a) PROVE UNCHANGED command /\ phase # "end" /\ phase' # "end"
    BY <1>5 DEF ReadMap
  <1>6. ASSUME NEW a \in profiles, Decode(a) \/ Bind(a) PROVE UNCHANGED command /\ phase # "end" /\ phase' # "end"
    BY <1>6 DEF Decode, Bind
  <1>7. ASSUME NEW d \in Data, Count(d) PROVE UNCHANGED command /\ phase # "end" /\ phase' # "end"
    BY <1>7 DEF Count
  <1>8. ASSUME MapsAgree \/ Decoded \/ Index PROVE UNCHANGED command /\ phase # "end" /\ phase' # "end"
    BY <1>8 DEF MapsAgree, Decoded, Index
  <1> QED
    BY <1>1, <1>2, <1>3, <1>4, <1>5, <1>6, <1>7, <1>8 DEF Next, Ended

\* Merge implements MergedEvidence: the evidence is the one function of the set of
\* inputs, in every order and under every naming of them.
THEOREM EvidenceIsAFunction == Spec => Implements
  <1>1. IInv /\ [Next]_vars => [Promise!Next]_<<maps, profiles, allow, request, Seen>>
    BY PromiseStep
  <1>2. Spec => Promise!Spec
    BY PromiseInit, <1>1, Inductive, PTL DEF Spec, Promise!Spec, Seen, Shown
  <1> QED
    BY <1>2 DEF Implements

=============================================================================
