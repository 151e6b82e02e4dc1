-------------------------------- MODULE Sums --------------------------------
(***************************************************************************)
(* Facts about sums over finite sets of indices (SumFunctionOnSet of the   *)
(* community module Functions), which the proofs about counts rest on:     *)
(* what a sum becomes when an index is added or one of its values changes. *)
(*                                                                         *)
(* SumFunctionOnSet is a recursive function over the subsets of its set.   *)
(* An induction over finite sets is written as a smallest counterexample:  *)
(* strict inclusion of finite sets is well-founded.                        *)
(***************************************************************************)
EXTENDS Integers, Functions, FiniteSetTheorems, WellFoundedInduction, TLAPS

\* The index that a sum adds first.
Picked(s) == CHOOSE x \in s : TRUE

\* The value of g at s, by the recursive definition of the sum of f.
Unfolded(f, g, s) == IF s = {} THEN 0 ELSE f[Picked(s)] + g[s \ {Picked(s)}]

\* g solves the recursive definition over the subsets of S.
Solves(f, S, g) == g = [s \in SUBSET S |-> Unfolded(f, g, s)]

Agree(f, g, S) == \A x \in S : f[x] = g[x]

-----------------------------------------------------------------------------
(* Sets *)

\* A set of subsets of a finite set has a smallest element, if it has any.
LEMMA SmallestSet ==
  ASSUME NEW S, IsFiniteSet(S), NEW B, B \subseteq SUBSET S, B # {}
  PROVE  \E s \in B : \A t \in B : t \subseteq s => t = s
<1>1. IsWellFoundedOn(StrictSubsetOrdering(S), SUBSET S)
  BY FS_StrictSubsetOrderingWellFounded, FS_FiniteSubsetsOfFinite
<1>2. PICK s \in B : \A t \in B : <<t, s>> \notin StrictSubsetOrdering(S)
  BY <1>1, WFMin
<1>3. ASSUME NEW t \in B, t \subseteq s PROVE t = s
  <2>1. t \in SUBSET S /\ s \in SUBSET S
    OBVIOUS
  <2>2. <<t, s>> \notin StrictSubsetOrdering(S)
    BY <1>2
  <2>3. QED BY <2>1, <2>2, <1>3 DEF StrictSubsetOrdering
<1>4. QED BY <1>3

\* The index that is picked belongs to the set.
LEMMA PickIn ==
  ASSUME NEW s, s # {}
  PROVE  Picked(s) \in s
BY DEF Picked

-----------------------------------------------------------------------------
(* The recursive definition has one solution *)

\* A sum is what the chosen solution of its definition says.
LEMMA SumIsChosen ==
  ASSUME NEW f, NEW S
  PROVE  SumFunctionOnSet(f, S) = (CHOOSE g : Solves(f, S, g))[S]
BY DEF SumFunctionOnSet, FoldFunctionOnSet, MapThenFoldSet, Solves, Unfolded, Picked

\* A solution satisfies the definition at each subset.
LEMMA SolvesAt ==
  ASSUME NEW f, NEW S, NEW g, Solves(f, S, g), NEW s, s \subseteq S
  PROVE  g[s] = Unfolded(f, g, s)
<1> DEFINE h == [t \in SUBSET S |-> Unfolded(f, g, t)]
<1>1. g = h
  BY DEF Solves
<1>2. h[s] = Unfolded(f, g, s)
  OBVIOUS
<1> HIDE DEF h
<1>3. g[s] = h[s]
  BY <1>1
<1>4. QED BY <1>2, <1>3

\* Two solutions agree where what they sum up agrees: look at the smallest set
\* where they would not.
LEMMA SolutionsAgree ==
  ASSUME NEW f, NEW f2, NEW S, NEW S2, NEW T, IsFiniteSet(T), T \subseteq S, T \subseteq S2,
         NEW g, Solves(f, S, g), NEW h, Solves(f2, S2, h), Agree(f, f2, T)
  PROVE  g[T] = h[T]
<1> DEFINE B == {s \in SUBSET T : g[s] # h[s]}
<1>1. SUFFICES ASSUME B # {} PROVE FALSE
  OBVIOUS
<1>2. PICK s \in B : \A t \in B : t \subseteq s => t = s
  <2>1. B \subseteq SUBSET T
    OBVIOUS
  <2> HIDE DEF B
  <2>2. QED BY <1>1, <2>1, SmallestSet
<1>3. s \subseteq T /\ s \subseteq S /\ s \subseteq S2 /\ g[s] # h[s]
  OBVIOUS
<1>4. g[s] = Unfolded(f, g, s) /\ h[s] = Unfolded(f2, h, s)
  BY <1>3, SolvesAt
<1>5. s # {}
  BY <1>3, <1>4 DEF Unfolded
<1>6. Picked(s) \in s
  BY <1>5, PickIn
<1>7. s \ {Picked(s)} \notin B
  BY <1>2, <1>6
<1>8. g[s \ {Picked(s)}] = h[s \ {Picked(s)}]
  BY <1>7, <1>3
<1>9. f[Picked(s)] = f2[Picked(s)]
  BY <1>6, <1>3 DEF Agree
<1>10. QED BY <1>3, <1>4, <1>5, <1>8, <1>9 DEF Unfolded

\* There is a solution over every finite set: for the smallest set without one,
\* the solutions over its proper subsets make one.
LEMMA SolutionExists ==
  ASSUME NEW f, NEW S, IsFiniteSet(S)
  PROVE  \E g : Solves(f, S, g)
<1> DEFINE B == {s \in SUBSET S : ~ \E g : Solves(f, s, g)}
           C(t) == CHOOSE g : Solves(f, t, g)
<1>1. SUFFICES ASSUME B # {} PROVE FALSE
  OBVIOUS
<1>2. PICK s \in B : \A t \in B : t \subseteq s => t = s
  <2>1. B \subseteq SUBSET S
    OBVIOUS
  <2> HIDE DEF B
  <2>2. QED BY <1>1, <2>1, SmallestSet
<1>3. s \subseteq S /\ ~ \E g : Solves(f, s, g)
  OBVIOUS
<1>4. ASSUME NEW t, t \subseteq s, t # s
      PROVE  Solves(f, t, C(t)) /\ C(t)[t] = Unfolded(f, C(t), t) /\ IsFiniteSet(t)
  <2>1. \E g : Solves(f, t, g)
    BY <1>2, <1>3, <1>4
  <2>2. Solves(f, t, C(t))
    BY <2>1
  <2> HIDE DEF C
  <2>3. C(t)[t] = Unfolded(f, C(t), t)
    BY <2>2, SolvesAt
  <2>4. t \in SUBSET S
    BY <1>3, <1>4
  <2>5. QED BY <2>2, <2>3, <2>4, FS_Subset
<1> HIDE DEF B, C
<1> DEFINE p == Picked(s)
           Top == IF s = {} THEN 0 ELSE f[p] + C(s \ {p})[s \ {p}]
           G == [t \in SUBSET s |-> IF t = s THEN Top ELSE C(t)[t]]
<1>5. ASSUME NEW t \in SUBSET s PROVE G[t] = Unfolded(f, G, t)
  <2>1. ASSUME t # {} PROVE Picked(t) \in t /\ t \ {Picked(t)} \in SUBSET s /\ t \ {Picked(t)} # s
    BY <2>1, PickIn
  <2>2. \A u \in SUBSET s : u # s => G[u] = C(u)[u]
    OBVIOUS
  <2>3. G[s] = Top
    OBVIOUS
  <2> HIDE DEF G
  <2>4. CASE t = s
    <3>1. CASE s = {}
      BY <2>3, <2>4, <3>1 DEF Unfolded
    <3>2. CASE s # {}
      <4>1. G[s \ {p}] = C(s \ {p})[s \ {p}]
        BY <2>1, <2>2, <2>4, <3>2
      <4>2. QED BY <2>3, <2>4, <3>2, <4>1 DEF Unfolded
    <3>3. QED BY <3>1, <3>2
  <2>5. CASE t # s
    <3>1. G[t] = Unfolded(f, C(t), t) /\ Solves(f, t, C(t))
      BY <1>4, <2>2, <2>5
    <3>2. CASE t = {}
      BY <3>1, <3>2 DEF Unfolded
    <3>3. CASE t # {}
      <4> DEFINE u == t \ {Picked(t)}
      <4>1. u \subseteq s /\ u # s /\ u \subseteq t /\ u \subseteq u
        BY <2>1, <3>3
      <4>2. G[u] = C(u)[u] /\ Solves(f, u, C(u)) /\ IsFiniteSet(u)
        BY <1>4, <2>2, <4>1
      <4>3. Agree(f, f, u)
        BY DEF Agree
      <4>4. C(t)[u] = C(u)[u]
        <5> HIDE DEF u
        <5>1. QED BY <3>1, <4>1, <4>2, <4>3, SolutionsAgree
      <4>5. QED BY <3>1, <3>3, <4>2, <4>4 DEF Unfolded
    <3>4. QED BY <3>2, <3>3
  <2>6. QED BY <2>4, <2>5
<1>6. Solves(f, s, G)
  <2>1. G = [t \in SUBSET s |-> G[t]]
    OBVIOUS
  <2> HIDE DEF G
  <2>2. QED BY <1>5, <2>1 DEF Solves
<1>7. QED BY <1>3, <1>6

\* Any solution gives the sum over every subset.
LEMMA SumIsPart ==
  ASSUME NEW f, NEW S, IsFiniteSet(S), NEW T, T \subseteq S, NEW g, Solves(f, S, g)
  PROVE  SumFunctionOnSet(f, T) = g[T]
<1> DEFINE h == CHOOSE x : Solves(f, T, x)
<1>1. IsFiniteSet(T)
  BY FS_Subset
<1>2. Solves(f, T, h)
  BY <1>1, SolutionExists
<1>3. SumFunctionOnSet(f, T) = h[T]
  BY SumIsChosen
<1> HIDE DEF h
<1>4. T \subseteq T /\ Agree(f, f, T)
  BY DEF Agree
<1>5. h[T] = g[T]
  BY <1>1, <1>2, <1>4, SolutionsAgree
<1>6. QED BY <1>3, <1>5

-----------------------------------------------------------------------------
(* Sums *)

\* The sum over no index is 0.
THEOREM SumEmpty ==
  ASSUME NEW f
  PROVE  SumFunctionOnSet(f, {}) = 0
<1>1. IsFiniteSet({})
  BY FS_EmptySet
<1>2. PICK g : Solves(f, {}, g)
  BY <1>1, SolutionExists
<1>3. SumFunctionOnSet(f, {}) = g[{}]
  BY <1>1, <1>2, SumIsPart
<1>4. g[{}] = Unfolded(f, g, {})
  BY <1>2, SolvesAt
<1>5. QED BY <1>3, <1>4 DEF Unfolded

\* A sum is the value that is picked and the sum of the others.
LEMMA SumPick ==
  ASSUME NEW f, NEW S, IsFiniteSet(S), S # {}
  PROVE  SumFunctionOnSet(f, S) = f[Picked(S)] + SumFunctionOnSet(f, S \ {Picked(S)})
<1>1. PICK g : Solves(f, S, g)
  BY SolutionExists
<1>2. SumFunctionOnSet(f, S) = g[S]
  BY <1>1, SumIsPart
<1>3. SumFunctionOnSet(f, S \ {Picked(S)}) = g[S \ {Picked(S)}]
  BY <1>1, SumIsPart
<1>4. g[S] = Unfolded(f, g, S)
  BY <1>1, SolvesAt
<1>5. QED BY <1>2, <1>3, <1>4 DEF Unfolded

\* Functions that agree on the indices have the same sum.
THEOREM SumSame ==
  ASSUME NEW f, NEW g, NEW S, IsFiniteSet(S), \A x \in S : f[x] = g[x]
  PROVE  SumFunctionOnSet(f, S) = SumFunctionOnSet(g, S)
<1>1. PICK a : Solves(f, S, a)
  BY SolutionExists
<1>2. PICK b : Solves(g, S, b)
  BY SolutionExists
<1>3. SumFunctionOnSet(f, S) = a[S] /\ SumFunctionOnSet(g, S) = b[S]
  BY <1>1, <1>2, SumIsPart
<1>4. S \subseteq S /\ Agree(f, g, S)
  BY DEF Agree
<1>5. a[S] = b[S]
  BY <1>1, <1>2, <1>4, SolutionsAgree
<1>6. QED BY <1>3, <1>5

\* A sum of integers is one.
THEOREM SumInt ==
  ASSUME NEW f, NEW S, IsFiniteSet(S), \A x \in S : f[x] \in Int
  PROVE  SumFunctionOnSet(f, S) \in Int
<1> DEFINE B == {s \in SUBSET S : SumFunctionOnSet(f, s) \notin Int}
<1>1. SUFFICES ASSUME B # {} PROVE FALSE
  OBVIOUS
<1>2. PICK s \in B : \A t \in B : t \subseteq s => t = s
  <2>1. B \subseteq SUBSET S
    OBVIOUS
  <2> HIDE DEF B
  <2>2. QED BY <1>1, <2>1, SmallestSet
<1>3. s \in SUBSET S /\ SumFunctionOnSet(f, s) \notin Int
  OBVIOUS
<1>4. s # {}
  BY <1>3, SumEmpty
<1>5. Picked(s) \in s /\ IsFiniteSet(s)
  BY <1>3, <1>4, PickIn, FS_Subset
<1>6. SumFunctionOnSet(f, s) = f[Picked(s)] + SumFunctionOnSet(f, s \ {Picked(s)})
  BY <1>4, <1>5, SumPick
<1>7. s \ {Picked(s)} \notin B
  BY <1>2, <1>5
<1>8. SumFunctionOnSet(f, s \ {Picked(s)}) \in Int /\ f[Picked(s)] \in Int
  BY <1>3, <1>5, <1>7
<1>9. QED BY <1>3, <1>6, <1>8

\* A sum of zeros is 0.
THEOREM SumZero ==
  ASSUME NEW f, NEW S, IsFiniteSet(S), \A x \in S : f[x] = 0
  PROVE  SumFunctionOnSet(f, S) = 0
<1> DEFINE B == {s \in SUBSET S : SumFunctionOnSet(f, s) # 0}
<1>1. SUFFICES ASSUME B # {} PROVE FALSE
  OBVIOUS
<1>2. PICK s \in B : \A t \in B : t \subseteq s => t = s
  <2>1. B \subseteq SUBSET S
    OBVIOUS
  <2> HIDE DEF B
  <2>2. QED BY <1>1, <2>1, SmallestSet
<1>3. s \in SUBSET S /\ SumFunctionOnSet(f, s) # 0
  OBVIOUS
<1>4. s # {}
  BY <1>3, SumEmpty
<1>5. Picked(s) \in s /\ IsFiniteSet(s)
  BY <1>3, <1>4, PickIn, FS_Subset
<1>6. SumFunctionOnSet(f, s) = f[Picked(s)] + SumFunctionOnSet(f, s \ {Picked(s)})
  BY <1>4, <1>5, SumPick
<1>7. s \ {Picked(s)} \notin B
  BY <1>2, <1>5
<1>8. SumFunctionOnSet(f, s \ {Picked(s)}) = 0 /\ f[Picked(s)] = 0
  BY <1>3, <1>5, <1>7
<1>9. QED BY <1>3, <1>6, <1>8

\* Any index may be added last: it need not be the one that is picked.
THEOREM SumWithout ==
  ASSUME NEW f, NEW S, IsFiniteSet(S), \A x \in S : f[x] \in Int, NEW w \in S
  PROVE  SumFunctionOnSet(f, S) = f[w] + SumFunctionOnSet(f, S \ {w})
<1> DEFINE Sum(s) == SumFunctionOnSet(f, s)
           B == {s \in SUBSET S : \E x \in s : Sum(s) # f[x] + Sum(s \ {x})}
<1>1. SUFFICES ASSUME B # {} PROVE FALSE
  OBVIOUS
<1>2. PICK s \in B : \A t \in B : t \subseteq s => t = s
  <2>1. B \subseteq SUBSET S
    OBVIOUS
  <2> HIDE DEF B
  <2>2. QED BY <1>1, <2>1, SmallestSet
<1>3. PICK x \in s : Sum(s) # f[x] + Sum(s \ {x})
  OBVIOUS
<1>4. s \in SUBSET S /\ IsFiniteSet(s)
  <2>1. s \in SUBSET S
    OBVIOUS
  <2>2. QED BY <2>1, FS_Subset
<1>5. ASSUME NEW t \in SUBSET s, t # s, NEW y \in t
      PROVE  Sum(t) = f[y] + Sum(t \ {y})
  BY <1>2, <1>4, <1>5
<1>6. ASSUME NEW t \in SUBSET s PROVE Sum(t) \in Int
  <2>1. IsFiniteSet(t) /\ \A y \in t : f[y] \in Int
    BY <1>4, FS_Subset
  <2>2. QED BY <2>1, SumInt
<1> DEFINE p == Picked(s)
           rest == s \ {p, x}
<1>7. p \in s /\ Sum(s) = f[p] + Sum(s \ {p})
  BY <1>4, PickIn, SumPick
<1>8. (s \ {p}) \ {x} = rest /\ (s \ {x}) \ {p} = rest /\ rest \in SUBSET s
  OBVIOUS
<1> HIDE DEF B, Sum, p, rest
<1>9. p # x
  BY <1>3, <1>7
<1>10. Sum(s \ {p}) = f[x] + Sum(rest)
  BY <1>5, <1>7, <1>8, <1>9
<1>11. Sum(s \ {x}) = f[p] + Sum(rest)
  BY <1>5, <1>7, <1>8, <1>9
<1>12. f[p] \in Int /\ f[x] \in Int /\ Sum(rest) \in Int
  BY <1>4, <1>6, <1>7, <1>8
<1> DEFINE a == f[p]
           b == f[x]
           c == Sum(rest)
<1>13. Sum(s) = a + (b + c) /\ Sum(s) # b + (a + c)
  BY <1>3, <1>7, <1>10, <1>11
<1>14. a \in Int /\ b \in Int /\ c \in Int
  BY <1>12
<1> HIDE DEF a, b, c
<1>15. QED BY <1>13, <1>14

\* A new index adds its value.
THEOREM SumWith ==
  ASSUME NEW f, NEW S, IsFiniteSet(S), NEW w, w \notin S, \A x \in S \union {w} : f[x] \in Int
  PROVE  SumFunctionOnSet(f, S \union {w}) = f[w] + SumFunctionOnSet(f, S)
<1> DEFINE T == S \union {w}
<1>1. IsFiniteSet(T)
  BY FS_AddElement
<1>2. w \in T /\ T \ {w} = S /\ \A x \in T : f[x] \in Int
  OBVIOUS
<1> HIDE DEF T
<1>3. SumFunctionOnSet(f, T) = f[w] + SumFunctionOnSet(f, T \ {w})
  BY <1>1, <1>2, SumWithout
<1>4. QED BY <1>2, <1>3 DEF T

\* When one value changes, the sum changes by as much.
THEOREM SumChanged ==
  ASSUME NEW f, NEW g, NEW S, IsFiniteSet(S), NEW w \in S,
         \A x \in S : f[x] \in Int /\ g[x] \in Int,
         \A x \in S \ {w} : f[x] = g[x]
  PROVE  SumFunctionOnSet(g, S) = SumFunctionOnSet(f, S) + g[w] - f[w]
<1>1. SumFunctionOnSet(g, S) = g[w] + SumFunctionOnSet(g, S \ {w})
  BY SumWithout
<1>2. SumFunctionOnSet(f, S) = f[w] + SumFunctionOnSet(f, S \ {w})
  BY SumWithout
<1>3. IsFiniteSet(S \ {w})
  BY FS_RemoveElement
<1>4. SumFunctionOnSet(f, S \ {w}) = SumFunctionOnSet(g, S \ {w})
  BY <1>3, SumSame
<1>5. SumFunctionOnSet(f, S \ {w}) \in Int
  BY <1>3, SumInt
<1>6. QED BY <1>1, <1>2, <1>4, <1>5

\* The same for two values.
THEOREM SumChangedTwice ==
  ASSUME NEW f, NEW g, NEW S, IsFiniteSet(S), NEW v \in S, NEW w \in S, v # w,
         \A x \in S : f[x] \in Int /\ g[x] \in Int,
         \A x \in S \ {v, w} : f[x] = g[x]
  PROVE  SumFunctionOnSet(g, S) = SumFunctionOnSet(f, S) + (g[v] - f[v]) + (g[w] - f[w])
<1> DEFINE h == [x \in S |-> IF x = v THEN g[v] ELSE f[x]]
<1>1. /\ h[v] = g[v] /\ h[w] = f[w] /\ \A x \in S : h[x] \in Int
      /\ \A x \in S \ {v} : f[x] = h[x]
      /\ \A x \in S \ {w} : h[x] = g[x]
  OBVIOUS
<1> HIDE DEF h
<1>2. SumFunctionOnSet(h, S) = SumFunctionOnSet(f, S) + h[v] - f[v]
  BY <1>1, SumChanged
<1>3. SumFunctionOnSet(g, S) = SumFunctionOnSet(h, S) + g[w] - h[w]
  BY <1>1, SumChanged
<1>4. SumFunctionOnSet(f, S) \in Int
  BY SumInt
<1> DEFINE a == SumFunctionOnSet(f, S)
           b == SumFunctionOnSet(h, S)
           c == SumFunctionOnSet(g, S)
           fv == f[v]
           gv == g[v]
           fw == f[w]
           gw == g[w]
<1>5. b = a + gv - fv /\ c = b + gw - fw
  BY <1>1, <1>2, <1>3
<1>6. a \in Int /\ fv \in Int /\ gv \in Int /\ fw \in Int /\ gw \in Int
  BY <1>4
<1> HIDE DEF a, b, c, fv, gv, fw, gw
<1>7. c = a + (gv - fv) + (gw - fw)
  BY <1>5, <1>6
<1>8. QED BY <1>7 DEF a, c, fv, gv, fw, gw

\* Ones and zeros add up to the number of the ones.
THEOREM SumOnes ==
  ASSUME NEW f, NEW S, IsFiniteSet(S), NEW T, T \subseteq S,
         \A x \in T : f[x] = 1, \A x \in S \ T : f[x] = 0
  PROVE  SumFunctionOnSet(f, S) = Cardinality(T)
<1> DEFINE B == {s \in SUBSET S : SumFunctionOnSet(f, s) # Cardinality(s \intersect T)}
<1>1. SUFFICES ASSUME B # {} PROVE FALSE
  <2>1. S \intersect T = T
    OBVIOUS
  <2>2. QED BY <2>1
<1>2. PICK s \in B : \A t \in B : t \subseteq s => t = s
  <2>1. B \subseteq SUBSET S
    OBVIOUS
  <2> HIDE DEF B
  <2>2. QED BY <1>1, <2>1, SmallestSet
<1>3. s \in SUBSET S /\ SumFunctionOnSet(f, s) # Cardinality(s \intersect T)
  OBVIOUS
<1>4. s # {}
  BY <1>3, SumEmpty, FS_EmptySet
<1>5. Picked(s) \in s /\ IsFiniteSet(s) /\ IsFiniteSet(s \intersect T)
  BY <1>3, <1>4, PickIn, FS_Subset
<1> DEFINE p == Picked(s)
           rest == s \ {p}
<1>6. SumFunctionOnSet(f, s) = f[p] + SumFunctionOnSet(f, rest)
  BY <1>4, <1>5, SumPick
<1>7. rest \notin B /\ rest \in SUBSET S
  BY <1>2, <1>5
<1>8. SumFunctionOnSet(f, rest) = Cardinality(rest \intersect T)
  BY <1>7
<1>9. Cardinality(s \intersect T) \in Nat
  BY <1>5, FS_CardinalityType
<1> HIDE DEF B
<1>10. CASE p \in T
  <2>1. rest \intersect T = (s \intersect T) \ {p} /\ p \in s \intersect T
    BY <1>5, <1>10
  <2>2. Cardinality(rest \intersect T) = Cardinality(s \intersect T) - 1
    BY <1>5, <2>1, FS_RemoveElement
  <2>3. QED BY <1>3, <1>6, <1>8, <1>9, <1>10, <2>2
<1>11. CASE p \notin T
  <2>1. rest \intersect T = s \intersect T /\ f[p] = 0
    BY <1>3, <1>5, <1>11
  <2>2. QED BY <1>3, <1>6, <1>8, <1>9, <2>1
<1>12. QED BY <1>10, <1>11

\* A sum of smaller values is smaller.
THEOREM SumAtMost ==
  ASSUME NEW f, NEW g, NEW S, IsFiniteSet(S),
         \A x \in S : f[x] \in Int /\ g[x] \in Int /\ f[x] <= g[x]
  PROVE  SumFunctionOnSet(f, S) <= SumFunctionOnSet(g, S)
<1> DEFINE B == {s \in SUBSET S : ~ SumFunctionOnSet(f, s) <= SumFunctionOnSet(g, s)}
<1>1. SUFFICES ASSUME B # {} PROVE FALSE
  OBVIOUS
<1>2. PICK s \in B : \A t \in B : t \subseteq s => t = s
  <2>1. B \subseteq SUBSET S
    OBVIOUS
  <2> HIDE DEF B
  <2>2. QED BY <1>1, <2>1, SmallestSet
<1>3. s \in SUBSET S /\ ~ SumFunctionOnSet(f, s) <= SumFunctionOnSet(g, s)
  OBVIOUS
<1>4. s # {}
  BY <1>3, SumEmpty
<1>5. Picked(s) \in s /\ IsFiniteSet(s)
  BY <1>3, <1>4, PickIn, FS_Subset
<1> DEFINE p == Picked(s)
           rest == s \ {p}
<1>6. /\ SumFunctionOnSet(f, s) = f[p] + SumFunctionOnSet(f, rest)
      /\ SumFunctionOnSet(g, s) = g[p] + SumFunctionOnSet(g, rest)
  BY <1>4, <1>5, SumPick
<1>7. rest \notin B /\ rest \in SUBSET S /\ IsFiniteSet(rest) /\ p \in S
  BY <1>2, <1>5, FS_Subset
<1> HIDE DEF p, rest
<1>8. SumFunctionOnSet(f, rest) <= SumFunctionOnSet(g, rest)
  BY <1>7
<1>9. SumFunctionOnSet(f, rest) \in Int /\ SumFunctionOnSet(g, rest) \in Int
  BY <1>7, SumInt
<1>10. f[p] \in Int /\ g[p] \in Int /\ f[p] <= g[p]
  BY <1>7
<1>11. QED BY <1>3, <1>6, <1>8, <1>9, <1>10

\* The indices one higher.
OneUp(s) == {x \in Int : x - 1 \in s}

\* g has the values of f over the integers S, each at the next index.
MovedUp(f, g, S) == \A x \in S : x \in Int /\ f[x] \in Int /\ g[x + 1] = f[x]

\* Values that all move to the next index add up to the same.
THEOREM SumShifted ==
  ASSUME NEW f, NEW g, NEW S, IsFiniteSet(S), IsFiniteSet(OneUp(S)),
         MovedUp(f, g, S)
  PROVE  SumFunctionOnSet(g, OneUp(S)) = SumFunctionOnSet(f, S)
<1> DEFINE B == {s \in SUBSET S : SumFunctionOnSet(g, OneUp(s)) # SumFunctionOnSet(f, s)}
<1>1. SUFFICES ASSUME B # {} PROVE FALSE
  OBVIOUS
<1>2. PICK s \in B : \A t \in B : t \subseteq s => t = s
  <2>1. B \subseteq SUBSET S
    OBVIOUS
  <2> HIDE DEF B
  <2>2. QED BY <1>1, <2>1, SmallestSet
<1>3. s \in SUBSET S /\ SumFunctionOnSet(g, OneUp(s)) # SumFunctionOnSet(f, s)
  OBVIOUS
<1>4. s # {}
  <2>1. OneUp({}) = {}
    BY DEF OneUp
  <2>2. QED BY <1>3, <2>1, SumEmpty
<1>5. PICK p : p \in s
  BY <1>4
<1>6. PICK rest : rest = s \ {p}
  OBVIOUS
<1>7. rest \notin B /\ rest \in SUBSET S
  BY <1>2, <1>3, <1>5, <1>6
<1>8. SumFunctionOnSet(g, OneUp(rest)) = SumFunctionOnSet(f, rest)
  BY <1>7
<1>9. SumFunctionOnSet(f, s) = f[p] + SumFunctionOnSet(f, rest)
  <2>1. IsFiniteSet(s) /\ \A x \in s : f[x] \in Int
    BY <1>3, FS_Subset DEF MovedUp
  <2>2. SumFunctionOnSet(f, s) = f[p] + SumFunctionOnSet(f, s \ {p})
    BY <1>5, <2>1, SumWithout
  <2>3. QED BY <1>6, <2>2
<1>10. PICK high : high = OneUp(s)
  OBVIOUS
<1>11. p + 1 \in high /\ high \ {p + 1} = OneUp(rest)
  BY <1>3, <1>5, <1>6, <1>10 DEF OneUp, MovedUp
<1>12. IsFiniteSet(high)
  <2>1. high \subseteq OneUp(S)
    BY <1>3, <1>10 DEF OneUp
  <2>2. QED BY <2>1, FS_Subset
<1>13. \A x \in high : g[x] \in Int
  <2>1. ASSUME NEW x \in high PROVE g[x] \in Int
    <3>1. PICK y \in S : y = x - 1 /\ x = y + 1 /\ y \in Int
      BY <1>3, <1>10 DEF OneUp
    <3>2. QED BY <3>1 DEF MovedUp
  <2>2. QED BY <2>1
<1>14. SumFunctionOnSet(g, high) = g[p + 1] + SumFunctionOnSet(g, high \ {p + 1})
  BY <1>11, <1>12, <1>13, SumWithout
<1>15. g[p + 1] = f[p]
  BY <1>3, <1>5 DEF MovedUp
<1>16. QED BY <1>3, <1>8, <1>9, <1>10, <1>11, <1>14, <1>15

\* A sum splits into that of the differences and the rest.
THEOREM SumOfDifferences ==
  ASSUME NEW p, NEW l, NEW f, NEW S, IsFiniteSet(S),
         \A x \in S : p[x] \in Int /\ l[x] \in Int /\ f[x] = p[x] - l[x] /\ f[x] \in Int
  PROVE  SumFunctionOnSet(p, S) = SumFunctionOnSet(f, S) + SumFunctionOnSet(l, S)
<1> DEFINE Sum(g, s) == SumFunctionOnSet(g, s)
           B == {s \in SUBSET S : Sum(p, s) # Sum(f, s) + Sum(l, s)}
<1>1. SUFFICES ASSUME B # {} PROVE FALSE
  OBVIOUS
<1>2. PICK s \in B : \A t \in B : t \subseteq s => t = s
  <2>1. B \subseteq SUBSET S
    OBVIOUS
  <2> HIDE DEF B
  <2>2. QED BY <1>1, <2>1, SmallestSet
<1>3. s \in SUBSET S /\ Sum(p, s) # Sum(f, s) + Sum(l, s)
  OBVIOUS
<1>4. s # {}
  <2>1. Sum(p, {}) = 0 /\ Sum(f, {}) = 0 /\ Sum(l, {}) = 0
    BY SumEmpty
  <2> HIDE DEF Sum, B
  <2>2. SUFFICES ASSUME s = {} PROVE FALSE
    OBVIOUS
  <2>3. Sum(p, s) = 0 /\ Sum(f, s) = 0 /\ Sum(l, s) = 0
    BY <2>1, <2>2
  <2>4. QED BY <1>3, <2>3
<1>5. Picked(s) \in s /\ IsFiniteSet(s)
  BY <1>3, <1>4, PickIn, FS_Subset
<1>6. PICK w, rest : w = Picked(s) /\ rest = s \ {w}
  OBVIOUS
<1>7. /\ Sum(p, s) = p[w] + Sum(p, rest) /\ Sum(f, s) = f[w] + Sum(f, rest)
      /\ Sum(l, s) = l[w] + Sum(l, rest)
  BY <1>4, <1>5, <1>6, SumPick
<1>8. rest \notin B /\ rest \in SUBSET S /\ IsFiniteSet(rest) /\ w \in S
  BY <1>2, <1>5, <1>6, FS_Subset
<1>9. Sum(p, rest) = Sum(f, rest) + Sum(l, rest)
  BY <1>8
<1>10. Sum(f, rest) \in Int /\ Sum(l, rest) \in Int
  <2>1. (\A x \in rest : f[x] \in Int) /\ \A x \in rest : l[x] \in Int
    BY <1>8
  <2>2. QED BY <1>8, <2>1, SumInt
<1>11. p[w] \in Int /\ l[w] \in Int /\ f[w] = p[w] - l[w]
  BY <1>8
<1> HIDE DEF Sum, B
<1>12. QED BY <1>3, <1>7, <1>9, <1>10, <1>11
=============================================================================
